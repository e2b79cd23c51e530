--------------------------- MODULE AbstractBarrier ---------------------------
(***************************************************************************)
(* What a reusable barrier promises its threads: each waits or leaves for  *)
(* good, and when the last has done so all that wait are let out together, *)
(* in one step.  Nothing is said here of counters, of a generation that    *)
(* wraps, or of spinning threads; Barrier implements it.                   *)
(***************************************************************************)
EXTENDS Naturals

CONSTANT Threads

VARIABLES place,      \* of each thread: "outside", "inside" or "left"
          arrivals,   \* the waits each thread has entered
          opened      \* the times the barrier has let its threads out

vars == <<place, arrivals, opened>>

Init ==
    /\ place = [t \in Threads |-> "outside"]
    /\ arrivals = [t \in Threads |-> 0]
    /\ opened = 0

Enter(t) ==
    /\ place[t] = "outside"
    /\ place' = [place EXCEPT ![t] = "inside"]
    /\ arrivals' = [arrivals EXCEPT ![t] = @ + 1]
    /\ UNCHANGED opened

Leave(t) ==
    /\ place[t] = "outside"
    /\ place' = [place EXCEPT ![t] = "left"]
    /\ UNCHANGED <<arrivals, opened>>

LetOut ==
    /\ \A t \in Threads : place[t] # "outside"
    /\ place' = [t \in Threads |-> IF place[t] = "inside" THEN "outside" ELSE "left"]
    /\ opened' = opened + 1
    /\ UNCHANGED arrivals

Next == LetOut \/ \E t \in Threads : Enter(t) \/ Leave(t)

Spec == Init /\ [][Next]_vars

\* Every thread that has not left has entered every wait that the others were let out of.
InStep ==
    \A t \in Threads :
        /\ place[t] = "outside" => arrivals[t] = opened
        /\ place[t] = "inside" => arrivals[t] = opened + 1
=============================================================================
