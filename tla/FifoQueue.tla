----------------------------- MODULE FifoQueue -----------------------------
(***************************************************************************)
(* What a thread-safe queue promises its callers: values come out in the   *)
(* order they went in, each of them exactly once, and the thread that took *)
(* a value is the only one that has it.  Nothing is said here of locks,    *)
(* condition variables or sleeping threads; ThreadsafeQueue implements it. *)
(***************************************************************************)
EXTENDS Sequences

CONSTANTS Threads,   \* the callers
          Values     \* what they put in

VARIABLES items,     \* the values in the queue, oldest first
          taken      \* every take so far, in order: who took what

vars == <<items, taken>>

Init == items = <<>> /\ taken = <<>>

Put(v) ==
    /\ items' = Append(items, v)
    /\ UNCHANGED taken

Take(t) ==
    /\ items # <<>>
    /\ items' = Tail(items)
    /\ taken' = Append(taken, [by |-> t, val |-> Head(items)])

Next == \/ \E v \in Values : Put(v)
        \/ \E t \in Threads : Take(t)

Spec == Init /\ [][Next]_vars
=============================================================================
