---------------------------- MODULE LockedStacks ----------------------------
(*****************************************************************************)
(* The containers that lock one mutex in every call: the stacks of lists 3.5 *)
(* and 6.1, which can be copied, and the queue of list 9.7, which a thief    *)
(* empties from the other end.  The last element of the sequence is the top  *)
(* of a stack and the front of the queue.  A call throws when make_shared    *)
(* does, or when there is nothing to pop.                                    *)
(*****************************************************************************)
EXTENDS Naturals, Sequences, SequencesExt

CONSTANTS
    Threads,
    Null,
    MaxPushes       \* how many values are pushed

VARIABLES
    class,      \* which of the containers
    data,       \* the sequence of its values
    the_mtx,    \* the thread that holds its mutex, or Null
    pc,         \* thread -> its next step
    op,         \* thread -> its call
    popped,     \* the values that calls have returned, in their order
    pushes,     \* how many values have been pushed; they are 1, 2, ...
    copy,       \* thread -> the copy it makes
    versions    \* thread -> what data has been since the copying began
vars == <<class, data, the_mtx, pc, op, popped, pushes, copy, versions>>

list_3_5 == {"push", "pop", "pop_ref", "empty", "copy"}
list_6_1 == {"push", "pop", "pop_ref", "empty", "copy"}
list_9_7 == {"push", "try_pop", "try_steal", "empty"}
Calls == [list_3_5 |-> list_3_5, list_6_1 |-> list_6_1, list_9_7 |-> list_9_7]

Init ==
    /\ class \in DOMAIN Calls
    /\ data = <<>>
    /\ the_mtx = Null
    /\ pc = [t \in Threads |-> "idle"]
    /\ op = [t \in Threads |-> "none"]
    /\ popped = <<>>
    /\ pushes = 0
    /\ copy = [t \in Threads |-> <<>>]
    /\ versions = [t \in Threads |-> {}]

At(t, p) == pc[t] = p
Go(t, p) == pc' = [pc EXCEPT ![t] = p]

Call(t, f) ==
    /\ At(t, "idle")
    /\ f \in Calls[class]
    /\ op' = [op EXCEPT ![t] = f]
    /\ Go(t, "lock")
    /\ UNCHANGED <<class, data, the_mtx, popped, pushes, copy, versions>>

\* Mutant of TheSourcesMutex: the copy locks its own mutex, as list 3.5 does.
ItsOwnMutex(t) == op[t] # "copy"
\* does the call lock the mutex of the container it reads?
TheSourcesMutex(t) == op[t] = "copy" => class # "list_3_5"

Lock(t) ==
    /\ At(t, "lock")
    /\ IF TheSourcesMutex(t)
       THEN the_mtx = Null /\ the_mtx' = t
       ELSE UNCHANGED the_mtx
    /\ Go(t, IF op[t] = "copy" THEN "copying" ELSE "inside")
    /\ copy' = [copy EXCEPT ![t] = <<>>]
    /\ versions' = [versions EXCEPT ![t] = IF op[t] = "copy" THEN {data} ELSE {}]
    /\ UNCHANGED <<class, data, op, popped, pushes>>

Inside(t, fs) == At(t, "inside") /\ op[t] \in fs

\* the guard's destructor
Leave(t) ==
    /\ the_mtx' = Null
    /\ Go(t, "idle")
    /\ versions' = [u \in Threads |-> IF At(u, "copying") THEN versions[u] \cup {data'} ELSE versions[u]]
    /\ op' = [op EXCEPT ![t] = "none"]
    /\ UNCHANGED <<class, copy>>

Push(t) ==
    /\ Inside(t, {"push"}) /\ pushes < MaxPushes
    /\ pushes' = pushes + 1
    /\ data' = Append(data, pushes + 1)
    /\ UNCHANGED popped
    /\ Leave(t)

\* Mutant of PopTop: the value is copied out and stays.
PopTopKeepsIt(t) == popped' = Append(popped, Last(data)) /\ UNCHANGED data
PopTop(t) == popped' = Append(popped, Last(data)) /\ data' = Front(data)

\* pop of the stacks, and try_pop
Pop(t) ==
    /\ Inside(t, {"pop", "pop_ref", "try_pop"}) /\ data # <<>>
    /\ PopTop(t)
    /\ UNCHANGED pushes
    /\ Leave(t)

try_steal(t) ==
    /\ Inside(t, {"try_steal"}) /\ data # <<>>
    /\ popped' = Append(popped, Head(data))
    /\ data' = Tail(data)
    /\ UNCHANGED pushes
    /\ Leave(t)

\* empty_stack is thrown, false returned, or make_shared has thrown before data.pop()
NothingTaken(t) ==
    /\ \/ Inside(t, {"pop", "pop_ref", "try_pop", "try_steal"}) /\ data = <<>>
       \/ Inside(t, {"pop"}) \/ Inside(t, {"push"})
       \/ Inside(t, {"empty"})
    /\ UNCHANGED <<data, popped, pushes>>
    /\ Leave(t)

\* the copy constructor reads element by element
CopyOne(t) ==
    /\ At(t, "copying") /\ Len(copy[t]) < Len(data)
    /\ copy' = [copy EXCEPT ![t] = Append(@, data[Len(@) + 1])]
    /\ UNCHANGED <<class, data, the_mtx, pc, op, popped, pushes, versions>>
CopyEnds(t) ==
    /\ At(t, "copying") /\ Len(copy[t]) >= Len(data)
    /\ the_mtx' = IF the_mtx = t THEN Null ELSE the_mtx
    /\ Go(t, "copied")
    /\ UNCHANGED <<class, data, op, popped, pushes, copy, versions>>

\* the copy is destroyed
DestroyCopy(t) ==
    /\ At(t, "copied")
    /\ Go(t, "idle")
    /\ op' = [op EXCEPT ![t] = "none"]
    /\ copy' = [copy EXCEPT ![t] = <<>>]
    /\ versions' = [versions EXCEPT ![t] = {}]
    /\ UNCHANGED <<class, data, the_mtx, popped, pushes>>

Step(t) ==
    \/ \E f \in list_3_5 \cup list_9_7 : Call(t, f)
    \/ Lock(t) \/ Push(t) \/ Pop(t) \/ try_steal(t) \/ NothingTaken(t)
    \/ CopyOne(t) \/ CopyEnds(t) \/ DestroyCopy(t)
Next == \E t \in Threads : Step(t)

Spec == Init /\ [][Next]_vars

-----------------------------------------------------------------------------
(******************************************************************************)
(* Every value that was pushed is in the container or has been returned, by   *)
(* one call, whichever end it was taken from and whatever has thrown; what is *)
(* left lies in the order it was pushed.                                      *)
(******************************************************************************)
EachValueOnce ==
    /\ ToSet(data) \cup ToSet(popped) = 1 .. pushes
    /\ Len(data) + Len(popped) = pushes
    /\ \A i, j \in DOMAIN data : i < j => data[i] < data[j]

(***************************************************************************)
(* A copy of list 6.1's stack is what the stack was at one moment while it *)
(* was being copied.                                                       *)
(***************************************************************************)
CopyIsASnapshot ==
    \A t \in Threads : At(t, "copied") /\ class = "list_6_1" => copy[t] \in versions[t]

(****************************************************************************)
(* The same of every stack that can be copied.  It fails in list 3.5, whose *)
(* copy constructor locks the mutex of the copy: threads change the stack   *)
(* while it is read, a data race whose outcome may be a stack that never    *)
(* was.                                                                     *)
(****************************************************************************)
EveryCopyIsASnapshot == \A t \in Threads : At(t, "copied") => copy[t] \in versions[t]
=============================================================================
