-------------------------------- MODULE Stack --------------------------------
(***************************************************************************)
(* What a concurrent stack promises: a pop takes the value pushed last of  *)
(* those that are still there, and the thread that took it is the one that *)
(* has it.  A pop of an empty stack changes nothing.                       *)
(***************************************************************************)
EXTENDS Sequences

CONSTANTS Threads, Values, Nothing

VARIABLES items,     \* the values on the stack, the top one first
          has        \* what each thread popped last, or Nothing

vars == <<items, has>>

Init == items = <<>> /\ has = [t \in Threads |-> Nothing]

Push(v) == items' = <<v>> \o items /\ UNCHANGED has

Pop(t) ==
    /\ items # <<>>
    /\ items' = Tail(items)
    /\ has' = [has EXCEPT ![t] = Head(items)]

Next == \/ \E v \in Values : Push(v)
        \/ \E t \in Threads : Pop(t)

Spec == Init /\ [][Next]_vars
=============================================================================
