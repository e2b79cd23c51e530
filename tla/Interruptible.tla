---------------------------- MODULE Interruptible ----------------------------
(*****************************************************************************)
(* interruptible_wait of list 9.11.  A thread waits on a condition variable  *)
(* of its own until a predicate holds or it is interrupted, again and again, *)
(* and destroys the condition variable when it leaves.  Other threads        *)
(* interrupt it by interrupt_flag::set, and one makes the predicate true,    *)
(* under the mutex, and notifies.  The thread outlives the interrupters: in  *)
(* list 9.9 nothing resets interruptible_thread's pointer to the flag when   *)
(* the thread that owns it ends.                                             *)
(*****************************************************************************)
EXTENDS Naturals, FiniteSets

CONSTANTS
    Interrupters,
    waiter, notifier,
    Nobody,
    MaxWaits        \* how many times the waiter calls interruptible_wait

VARIABLES
    flag,           \* interrupt_flag::flag
    thread_cond,    \* does it point to the waiter's condition variable?
    set_clear_mutex, lk,    \* who holds the two mutexes
    cvAlive,        \* does the condition variable exist?
    pred,           \* the predicate
    pc,             \* thread -> its next step
    calls,          \* how many calls have returned
    throwing        \* has an interruption_point thrown thread_interrupted?
vars == <<flag, thread_cond, set_clear_mutex, lk, cvAlive, pred, pc, calls, throwing>>

Threads == Interrupters \cup {waiter, notifier}

Init ==
    /\ flag = FALSE
    /\ thread_cond = FALSE
    /\ set_clear_mutex = Nobody /\ lk = Nobody
    /\ cvAlive = FALSE
    /\ pred = FALSE
    /\ pc = [t \in Threads |-> IF t = waiter THEN "call" ELSE "start"]
    /\ calls = 0
    /\ throwing = FALSE

At(t, p) == pc[t] = p
Go(t, p) == pc' = [pc EXCEPT ![t] = p]
Awake == IF At(waiter, "asleep") THEN [pc EXCEPT ![waiter] = "relock"] ELSE pc

-----------------------------------------------------------------------------
(* interrupt_flag::set                                                   *)

SetFlag(t) ==
    /\ At(t, "start") /\ t \in Interrupters
    /\ flag' = TRUE
    /\ Go(t, "lock")
    /\ UNCHANGED <<thread_cond, set_clear_mutex, lk, cvAlive, pred, calls, throwing>>

LockToSet(t) ==
    /\ At(t, "lock") /\ t \in Interrupters /\ set_clear_mutex = Nobody
    /\ set_clear_mutex' = t
    /\ Go(t, IF thread_cond THEN "notify" ELSE "unlock")
    /\ UNCHANGED <<flag, thread_cond, lk, cvAlive, pred, calls, throwing>>

NotifyAll(t) ==
    /\ At(t, "notify") /\ t \in Interrupters
    /\ pc' = [Awake EXCEPT ![t] = "unlock"]
    /\ UNCHANGED <<flag, thread_cond, set_clear_mutex, lk, cvAlive, pred, calls, throwing>>

UnlockSet(t) ==
    /\ At(t, "unlock") /\ t \in Interrupters
    /\ set_clear_mutex' = Nobody
    /\ Go(t, "done")
    /\ UNCHANGED <<flag, thread_cond, lk, cvAlive, pred, calls, throwing>>

-----------------------------------------------------------------------------
(* the thread that makes the predicate true (or does not)                *)

MakeTrue ==
    /\ At(notifier, "start") /\ lk = Nobody /\ cvAlive
    /\ pred' = TRUE
    /\ pc' = [Awake EXCEPT ![notifier] = "done"]
    /\ UNCHANGED <<flag, thread_cond, set_clear_mutex, lk, cvAlive, calls, throwing>>

-----------------------------------------------------------------------------
(* interruptible_wait                                                    *)

\* the caller makes its condition variable and locks its mutex
CallWait ==
    /\ At(waiter, "call") /\ calls < MaxWaits /\ lk = Nobody
    /\ cvAlive' = TRUE
    /\ lk' = waiter
    /\ Go(waiter, "point1")
    /\ UNCHANGED <<flag, thread_cond, set_clear_mutex, pred, calls, throwing>>

\* the first interruption_point; there is no guard yet
FirstPoint ==
    /\ At(waiter, "point1")
    /\ throwing' = flag
    /\ Go(waiter, IF flag THEN "return" ELSE "set_cv")
    /\ UNCHANGED <<flag, thread_cond, set_clear_mutex, lk, cvAlive, pred, calls>>

set_condition_variable ==
    /\ At(waiter, "set_cv") /\ set_clear_mutex = Nobody
    /\ thread_cond' = TRUE
    /\ Go(waiter, "test")
    /\ UNCHANGED <<flag, set_clear_mutex, lk, cvAlive, pred, calls, throwing>>

Test ==
    /\ At(waiter, "test")
    /\ Go(waiter, IF ~flag /\ ~pred THEN "wait" ELSE "point2")
    /\ UNCHANGED <<flag, thread_cond, set_clear_mutex, lk, cvAlive, pred, calls, throwing>>

\* wait_for: the mutex is given up and the thread sleeps
Wait ==
    /\ At(waiter, "wait")
    /\ lk' = Nobody
    /\ Go(waiter, "asleep")
    /\ UNCHANGED <<flag, thread_cond, set_clear_mutex, cvAlive, pred, calls, throwing>>

\* Mutant of Timeout: the wait has no time limit.
NoTimeout == FALSE /\ UNCHANGED vars
\* a millisecond has passed (a wake-up for no reason is the same)
Timeout ==
    /\ At(waiter, "asleep")
    /\ Go(waiter, "relock")
    /\ UNCHANGED <<flag, thread_cond, set_clear_mutex, lk, cvAlive, pred, calls, throwing>>

Relock ==
    /\ At(waiter, "relock") /\ lk = Nobody
    /\ lk' = waiter
    /\ Go(waiter, "test")
    /\ UNCHANGED <<flag, thread_cond, set_clear_mutex, cvAlive, pred, calls, throwing>>

\* Mutant of LastPoint: there is no second interruption_point.
NoLastPoint == At(waiter, "point2") /\ Go(waiter, "clear") /\ UNCHANGED
    <<flag, thread_cond, set_clear_mutex, lk, cvAlive, pred, calls, throwing>>
LastPoint ==
    /\ At(waiter, "point2")
    /\ throwing' = flag
    /\ Go(waiter, "clear")
    /\ UNCHANGED <<flag, thread_cond, set_clear_mutex, lk, cvAlive, pred, calls>>

\* Mutant of ClearAllowed: clear_condition_variable does not lock.
ClearAnyTime == TRUE
ClearAllowed == set_clear_mutex = Nobody
\* the guard's destructor, after a throw too
ClearOnDestruct ==
    /\ At(waiter, "clear") /\ ClearAllowed
    /\ thread_cond' = FALSE
    /\ Go(waiter, "return")
    /\ UNCHANGED <<flag, set_clear_mutex, lk, cvAlive, pred, calls, throwing>>

\* the caller gives up its mutex and its condition variable; an interrupted one is done
Return ==
    /\ At(waiter, "return")
    /\ lk' = Nobody
    /\ cvAlive' = FALSE
    /\ pred' = FALSE
    /\ calls' = calls + 1
    /\ Go(waiter, IF throwing THEN "interrupted" ELSE "call")
    /\ UNCHANGED <<flag, thread_cond, set_clear_mutex, throwing>>

Set(t) == SetFlag(t) \/ LockToSet(t) \/ NotifyAll(t) \/ UnlockSet(t)
WaiterStep ==
    \/ CallWait \/ FirstPoint \/ set_condition_variable \/ Test \/ Wait \/ Timeout \/ Relock
    \/ LastPoint \/ ClearOnDestruct \/ Return
Next == WaiterStep \/ MakeTrue \/ \E t \in Interrupters : Set(t)

\* nobody has to interrupt or to make the predicate true
FairSpec ==
    /\ Init /\ [][Next]_vars
    /\ WF_vars(WaiterStep)
    /\ \A t \in Interrupters : WF_vars(Set(t) /\ ~At(t, "start"))

-----------------------------------------------------------------------------
(*************************************************************************)
(* An interrupter never notifies a condition variable that has been      *)
(* destroyed: the waiter cannot leave while it holds set_clear_mutex.    *)
(*************************************************************************)
NotifiesLiveCondition ==
    \A t \in Interrupters : At(t, "notify") => thread_cond /\ cvAlive

(*****************************************************************************)
(* A call that returns without throwing does so because its predicate holds, *)
(* although an interrupt may fall between any two of its tests.              *)
(*****************************************************************************)
ReturnsForAReason ==
    At(waiter, "return") /\ ~throwing => pred

(*****************************************************************************)
(* An interrupt is seen, wherever in interruptible_wait it falls: the waiter *)
(* leaves its wait.                                                          *)
(*****************************************************************************)
Ended == At(waiter, "interrupted") \/ calls = MaxWaits
InterruptIsSeen == flag ~> Ended
=============================================================================
