\* The driver's two threads and their SpinLockEx.
SPECIFICATION FairSpec
CONSTANT Chosen = {"SpinLockEx"}
INVARIANT GuardsExclude
CHECK_DEADLOCK FALSE
