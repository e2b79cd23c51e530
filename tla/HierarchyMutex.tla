--------------------------- MODULE HierarchyMutex ---------------------------
(**************************************************************************)
(* hierarchy_mutex of src/Chapter3-SharingDataBetweenThreads/             *)
(* SharingDataBetweenThreads.h: a mutex with a level, which a thread may  *)
(* lock only below the levels of those it holds; a thread_local variable  *)
(* remembers the lowest of them.  Any thread may make any call, in any    *)
(* order: lock, try_lock, and unlock of any mutex it holds.               *)
(*                                                                        *)
(* A call that throws std::logic_error returns to its caller with nothing *)
(* changed, and the caller goes on as it likes.                           *)
(**************************************************************************)
EXTENDS Naturals, FiniteSets

CONSTANTS Threads, Mutexes, NoThread,
          Level,         \* hierarchy_value of each mutex
          Top            \* UINT64_MAX, the value of a thread that holds nothing

ASSUME NoThreadAssumption == NoThread \notin Threads
ASSUME LevelAssumption == \A m \in Mutexes : Level[m] \in Nat /\ Level[m] <= Top
ASSUME TopAssumption == Top \in Nat

VARIABLES owner,         \* who holds each internal_mutex
          previous,      \* previous_hierarchy_value of each mutex
          this_thread,   \* this_thread_hierarchy_value of each thread
          pc,            \* where each thread is
          target         \* the mutex each thread's call is about

vars == <<owner, previous, this_thread, pc, target>>

PCs == {"idle", "check", "acquire", "try check", "try", "update",
        "unlock check", "release"}

Init ==
    /\ owner = [m \in Mutexes |-> NoThread]
    /\ previous = [m \in Mutexes |-> 0]
    /\ this_thread = [t \in Threads |-> Top]
    /\ pc = [t \in Threads |-> "idle"]
    /\ target \in [Threads -> Mutexes]

Goto(t, l) == pc' = [pc EXCEPT ![t] = l]

\* The mutexes a thread has locked, by a lock that has returned and no unlock
\* that has got past its check.
Held(t) == {m \in Mutexes : /\ owner[m] = t
                            /\ ~(pc[t] \in {"update", "release"} /\ target[t] = m)}

\* A thread calls m.lock(), m.try_lock() or m.unlock().
Call(t, m, l) ==
    /\ pc[t] = "idle"
    /\ l = "unlock check" => m \in Held(t)
    /\ target' = [target EXCEPT ![t] = m]
    /\ Goto(t, l)
    /\ UNCHANGED <<owner, previous, this_thread>>

\* Mutant of InOrder: a mutex of the very same level may be locked too.
InOrderOrSame(t) == Level[target[t]] <= this_thread[t]

\* check_for_hierarchy_violation does not throw.
InOrder(t) == this_thread[t] > Level[target[t]]

Check(t) ==
    /\ \/ pc[t] = "check" /\ InOrder(t) /\ Goto(t, "acquire")
       \/ pc[t] = "try check" /\ InOrder(t) /\ Goto(t, "try")
       \/ pc[t] \in {"check", "try check"} /\ ~InOrder(t) /\ Goto(t, "idle")
    /\ UNCHANGED <<owner, previous, this_thread, target>>

\* internal_mutex.lock(), and internal_mutex.try_lock() that succeeds.
Acquire(t) ==
    /\ pc[t] \in {"acquire", "try"}
    /\ owner[target[t]] = NoThread
    /\ owner' = [owner EXCEPT ![target[t]] = t]
    /\ Goto(t, "update")
    /\ UNCHANGED <<previous, this_thread, target>>

\* internal_mutex.try_lock() that fails.  It may fail spuriously, too.
TryFails(t) ==
    /\ pc[t] = "try"
    /\ Goto(t, "idle")
    /\ UNCHANGED <<owner, previous, this_thread, target>>

\* Mutant of Update: the thread's value is overwritten before it is saved.
UpdateSwapped(t) ==
    /\ pc[t] = "update"
    /\ this_thread' = [this_thread EXCEPT ![t] = Level[target[t]]]
    /\ previous' = [previous EXCEPT ![target[t]] = this_thread'[t]]
    /\ Goto(t, "idle")
    /\ UNCHANGED <<owner, target>>

\* update_hierarchy_value.  previous is guarded by internal_mutex and
\* this_thread is the thread's own, so nobody can look between the two.
Update(t) ==
    /\ pc[t] = "update"
    /\ previous' = [previous EXCEPT ![target[t]] = this_thread[t]]
    /\ this_thread' = [this_thread EXCEPT ![t] = Level[target[t]]]
    /\ Goto(t, "idle")
    /\ UNCHANGED <<owner, target>>

\* unlock, of the mutex the thread locked last ...
Restore(t) ==
    /\ pc[t] = "unlock check"
    /\ this_thread[t] = Level[target[t]]
    /\ this_thread' = [this_thread EXCEPT ![t] = previous[target[t]]]
    /\ Goto(t, "release")
    /\ UNCHANGED <<owner, previous, target>>

\* ... and of another one: it throws.
UnlockThrows(t) ==
    /\ pc[t] = "unlock check"
    /\ this_thread[t] # Level[target[t]]
    /\ Goto(t, "idle")
    /\ UNCHANGED <<owner, previous, this_thread, target>>

\* internal_mutex.unlock()
Release(t) ==
    /\ pc[t] = "release"
    /\ owner' = [owner EXCEPT ![target[t]] = NoThread]
    /\ Goto(t, "idle")
    /\ UNCHANGED <<previous, this_thread, target>>

Next == \E t \in Threads :
    \/ \E m \in Mutexes : \/ Call(t, m, "check")
                          \/ Call(t, m, "try check")
                          \/ Call(t, m, "unlock check")
    \/ Check(t)
    \/ Acquire(t)
    \/ TryFails(t)
    \/ Update(t)
    \/ Restore(t)
    \/ UnlockThrows(t)
    \/ Release(t)

Spec == Init /\ [][Next]_vars

-----------------------------------------------------------------------------
\* The types, and that a thread past internal_mutex.lock() has that mutex.
TypeOK ==
    /\ owner \in [Mutexes -> Threads \cup {NoThread}]
    /\ previous \in [Mutexes -> 0 .. Top]
    /\ this_thread \in [Threads -> 0 .. Top]
    /\ pc \in [Threads -> PCs]
    /\ target \in [Threads -> Mutexes]
    /\ \A t \in Threads : pc[t] \in {"update", "release"} => owner[target[t]] = t

(*************************************************************************)
(* No deadlock: there is no set of threads each of which is blocked in   *)
(* lock() on a mutex that another (or the same) thread of the set holds. *)
(*************************************************************************)
WaitCycle(S) == \A t \in S : pc[t] = "acquire" /\ owner[target[t]] \in S
NoWaitCycle  == \A S \in (SUBSET Threads) \ {{}} : ~WaitCycle(S)

\* v is the lowest level of the mutexes S, and Top if there are none.
Lowest(S, v) ==
    /\ S = {} => v = Top
    /\ S # {} => \E m \in S : Level[m] = v
    /\ \A m \in S : v <= Level[m]

(**************************************************************************)
(* However locks, failed try_locks, unlocks and throws are mixed, each    *)
(* thread's value is the lowest level it holds, and goes back to Top when *)
(* it holds nothing: no unlock restores a value that is out of date.      *)
(**************************************************************************)
ValueIsLowestHeld == \A t \in Threads : Lowest(Held(t), this_thread[t])

(**************************************************************************)
(* Locks are released last in, first out: the mutex a thread has unlocked *)
(* and is about to release is below all those it still holds.             *)
(**************************************************************************)
LastInFirstOut ==
    \A t \in Threads :
        pc[t] = "release" => \A m \in Held(t) : Level[m] > Level[target[t]]
=============================================================================
