--------------------------- MODULE MC_AtmExample ---------------------------
\* Small instances of AtmExample for TLC.
EXTENDS AtmExample

\* The keyboard of atm_run_example.
MCKeys == DriverKeys

\* The same and clear_last_pressed, which the atm handles though atm.cpp binds
\* no character to it.
MCKeysClear == DriverKeys \cup {Msg("clear_last_pressed")}
=============================================================================
