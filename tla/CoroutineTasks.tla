--------------------------- MODULE CoroutineTasks ---------------------------
(***************************************************************************)
(* task, sync_wait and new_thread_context of Coroutine-Example.  sync_wait *)
(* runs a coroutine S that awaits a task R; R awaits tasks C one after the *)
(* other, as run() does; a C may move to a new thread by schedule().  Who  *)
(* awaits a task is its continuation and gets its thread when it ends      *)
(* (symmetric transfer); C's frame is destroyed when R has its result, S's *)
(* and R's when sync_wait has returned.                                    *)
(***************************************************************************)
EXTENDS Naturals, FiniteSets

CONSTANTS
    Workers,        \* the threads that schedule() can start, one each
    main,           \* the thread that calls sync_wait
    Nobody,
    MaxRounds       \* how many tasks C the task R awaits at most

VARIABLES
    frame,      \* coroutine -> "absent", "suspended", "running" or "final"
    thread,     \* thread -> what it does, and in which coroutine
    continuation_,  \* task -> who awaits it
    state_,     \* coroutine -> "empty", "value" or "error"
    hopped,     \* has the current C moved to a new thread?
    rounds,     \* how many C there have been
    done_,      \* sync_wait's flag, in S's promise
    mtx_,       \* sync_wait's mutex, in S's promise: free, or who holds it
    activeThreadCnt_,
    threw       \* has the body of a task thrown?
vars == <<frame, thread, continuation_, state_, hopped, rounds, done_, mtx_, activeThreadCnt_, threw>>

Threads == Workers \cup {main}
Tasks == {"R", "C"}
Frames == Tasks \cup {"S"}

At(t, s) == thread[t].at = s
In(t, s, f) == thread[t] = [at |-> s, f |-> f]
Go(t, s, f) == thread' = [thread EXCEPT ![t] = [at |-> s, f |-> f]]

\* the caller of sync_wait has made the task R, which has not started
Init ==
    /\ frame = [f \in Frames |-> IF f = "R" THEN "suspended" ELSE "absent"]
    /\ thread = [t \in Threads |-> [at |-> IF t = main THEN "call" ELSE "unborn", f |-> Nobody]]
    /\ continuation_ = [f \in Tasks |-> Nobody]
    /\ state_ = [f \in Frames |-> "empty"]
    /\ hopped = FALSE /\ rounds = 0
    /\ done_ = FALSE /\ mtx_ = Nobody
    /\ activeThreadCnt_ = 0
    /\ threw = FALSE

\* the lambda's frame is made, and resumed by wait()
SyncWait ==
    /\ At(main, "call")
    /\ frame' = [frame EXCEPT !["S"] = "running"]
    /\ Go(main, "run", "S")
    /\ UNCHANGED <<continuation_, state_, hopped, rounds, done_, mtx_, activeThreadCnt_, threw>>

\* p awaits task c: c keeps p as its continuation and gets p's thread
Await(t, p, c) ==
    /\ In(t, "run", p)
    /\ continuation_' = [continuation_ EXCEPT ![c] = p]
    /\ frame' = [frame EXCEPT ![p] = "suspended", ![c] = "running"]
    /\ Go(t, "run", c)
    /\ UNCHANGED <<done_, mtx_, activeThreadCnt_, threw>>

AwaitR(t) == Await(t, "S", "R") /\ UNCHANGED <<state_, hopped, rounds>>

AwaitNewC(t) ==
    /\ rounds < MaxRounds
    /\ Await(t, "R", "C")
    /\ state_' = [state_ EXCEPT !["C"] = "empty"]
    /\ hopped' = FALSE
    /\ rounds' = rounds + 1

\* schedule_op::await_suspend: the count goes up before the thread is started
Schedule(t) ==
    /\ In(t, "run", "C") /\ ~hopped
    /\ hopped' = TRUE
    /\ activeThreadCnt_' = activeThreadCnt_ + 1
    /\ frame' = [frame EXCEPT !["C"] = "suspended"]
    /\ Go(t, "launch", "C")
    /\ UNCHANGED <<continuation_, state_, rounds, done_, mtx_, threw>>

\* await_suspend touches nothing after the new thread has been given the coroutine
Launch(t, u) ==
    /\ In(t, "launch", "C") /\ At(u, "unborn")
    /\ thread' = [thread EXCEPT ![t] = [at |-> "back", f |-> Nobody], ![u] = [at |-> "resume", f |-> "C"]]
    /\ UNCHANGED <<frame, continuation_, state_, hopped, rounds, done_, mtx_, activeThreadCnt_, threw>>

\* the thread cannot be started: the count goes down, and the exception meets a noexcept
LaunchFails(t) ==
    /\ In(t, "launch", "C")
    /\ activeThreadCnt_' = activeThreadCnt_ - 1
    /\ Go(t, "terminate", "C")
    /\ UNCHANGED <<frame, continuation_, state_, hopped, rounds, done_, mtx_, threw>>
Terminated == \E t \in Threads : At(t, "terminate")

Resume(u) ==
    /\ At(u, "resume")
    /\ frame' = [frame EXCEPT ![thread[u].f] = "running"]
    /\ Go(u, "run", thread[u].f)
    /\ UNCHANGED <<continuation_, state_, hopped, rounds, done_, mtx_, activeThreadCnt_, threw>>

-----------------------------------------------------------------------------
\* return_value, or unhandled_exception, and then final_suspend
End(t, f, s) ==
    /\ state_' = [state_ EXCEPT ![f] = s]
    /\ frame' = [frame EXCEPT ![f] = "final"]
    /\ Go(t, IF f = "S" THEN "notify" ELSE "transfer", f)
    /\ UNCHANGED <<continuation_, hopped, rounds, done_, mtx_, activeThreadCnt_>>

Return(t) == \E f \in Tasks : In(t, "run", f) /\ End(t, f, "value") /\ UNCHANGED threw
Throw(t)  == \E f \in Tasks : In(t, "run", f) /\ End(t, f, "error") /\ threw' = TRUE
Rethrow(t) == At(t, "throw") /\ End(t, thread[t].f, "error") /\ UNCHANGED threw

\* the awaiter of final_suspend gives the thread to the continuation
Transfer(t) ==
    /\ At(t, "transfer")
    /\ LET next == continuation_[thread[t].f]
       IN /\ frame' = [frame EXCEPT ![next] = "running"]
          /\ Go(t, "resumed", next)
    /\ UNCHANGED <<continuation_, state_, hopped, rounds, done_, mtx_, activeThreadCnt_, threw>>

\* Mutant of GetC: the exception C ended with is not rethrown.
ForgetError(t) ==
    /\ In(t, "resumed", "R")
    /\ frame' = [frame EXCEPT !["C"] = "absent"]
    /\ Go(t, "run", "R")
    /\ UNCHANGED <<continuation_, state_, hopped, rounds, done_, mtx_, activeThreadCnt_, threw>>
\* await_resume: R gets C's value or exception and then destroys C's frame
GetC(t) ==
    /\ In(t, "resumed", "R")
    /\ frame' = [frame EXCEPT !["C"] = "absent"]
    /\ Go(t, IF state_["C"] = "error" THEN "throw" ELSE "run", "R")
    /\ UNCHANGED <<continuation_, state_, hopped, rounds, done_, mtx_, activeThreadCnt_, threw>>

\* S gets R's and ends; sync_wait's caller owns R
GetR(t) == In(t, "resumed", "S") /\ End(t, "S", state_["R"]) /\ UNCHANGED threw

\* Mutant of Notify: the mutex is not locked.
NotifyUnlocked(t) ==
    /\ In(t, "notify", "S")
    /\ done_' = TRUE
    /\ Go(t, "unlock", "S")
    /\ UNCHANGED <<frame, continuation_, state_, hopped, rounds, mtx_, activeThreadCnt_, threw>>
\* sync_wait_task's final_suspend: the flag is set and the waiter notified under the mutex
Notify(t) ==
    /\ In(t, "notify", "S") /\ mtx_ = Nobody
    /\ mtx_' = t
    /\ done_' = TRUE
    /\ Go(t, "unlock", "S")
    /\ UNCHANGED <<frame, continuation_, state_, hopped, rounds, activeThreadCnt_, threw>>

UnlockNotifier(t) ==
    /\ In(t, "unlock", "S")
    /\ mtx_' = Nobody
    /\ Go(t, "back", Nobody)
    /\ UNCHANGED <<frame, continuation_, state_, hopped, rounds, done_, activeThreadCnt_, threw>>

\* the thread has left the coroutines: main waits in wait(), another thread ends;
\* the line that would take it off the count is compiled out
Leave(t) ==
    /\ At(t, "back")
    /\ Go(t, IF t = main THEN "wait" ELSE "gone", Nobody)
    /\ UNCHANGED <<frame, continuation_, state_, hopped, rounds, done_, mtx_, activeThreadCnt_, threw>>

-----------------------------------------------------------------------------
\* wait() sees done_ under the mutex, and rethrows S's error_
WaitReturns ==
    /\ At(main, "wait") /\ mtx_ = Nobody /\ done_
    /\ Go(main, IF state_["S"] = "error" THEN "failed" ELSE "returned", Nobody)
    /\ UNCHANGED <<frame, continuation_, state_, hopped, rounds, done_, mtx_, activeThreadCnt_, threw>>

\* the destructors of the lambda's sync_wait_task and of the task R
DestroyFrames ==
    /\ thread[main].at \in {"returned", "failed"} /\ frame["S"] # "absent"
    /\ frame' = [f \in Frames |-> "absent"]
    /\ UNCHANGED <<thread, continuation_, state_, hopped, rounds, done_, mtx_, activeThreadCnt_, threw>>

\* ~new_thread_context waits for the count to be 0
DestroyContext ==
    /\ thread[main].at \in {"returned", "failed"} /\ frame["S"] = "absent"
    /\ activeThreadCnt_ = 0
    /\ Go(main, "end", Nobody)
    /\ UNCHANGED <<frame, continuation_, state_, hopped, rounds, done_, mtx_, activeThreadCnt_, threw>>

Step(t) ==
    /\ ~Terminated
    /\ \/ AwaitR(t) \/ AwaitNewC(t) \/ Schedule(t) \/ (\E u \in Workers : Launch(t, u)) \/ LaunchFails(t)
       \/ Resume(t) \/ Return(t) \/ Throw(t) \/ Rethrow(t) \/ Transfer(t) \/ GetC(t) \/ GetR(t)
       \/ Notify(t) \/ UnlockNotifier(t) \/ Leave(t)
MainStep == ~Terminated /\ (SyncWait \/ WaitReturns \/ DestroyFrames \/ DestroyContext)
Next == MainStep \/ \E t \in Threads : Step(t)

FairSpec == Init /\ [][Next]_vars /\ WF_vars(MainStep) /\ \A t \in Threads : WF_vars(Step(t))

-----------------------------------------------------------------------------
(*****************************************************************************)
(* No thread uses a frame that has been destroyed: C's by R while the thread *)
(* that scheduled C is still in await_suspend, S's by sync_wait's caller     *)
(* while the thread that ended S still holds the mutex in it.  And a frame   *)
(* is resumed and run by one thread at a time.                               *)
(*****************************************************************************)
FramesAreSafe ==
    \A t \in Threads : thread[t].f # Nobody =>
        /\ frame[thread[t].f] # "absent"
        /\ \A u \in Threads \ {t} : thread[u].f # thread[t].f

(**************************************************************************)
(* sync_wait returns when the task has ended, and throws exactly when the *)
(* task or a task it awaited has thrown, whichever thread that was on.    *)
(**************************************************************************)
WaitTellsTheOutcome ==
    thread[main].at \in {"returned", "failed", "end"} =>
        /\ state_["R"] # "empty"
        /\ threw <=> state_["S"] = "error"
        /\ At(main, "failed") => threw

(*****************************************************************************)
(* sync_wait returns: whoever awaits a task is resumed when it ends, and the *)
(* waiting thread is notified.  Only a thread that cannot be started ends    *)
(* the program instead.                                                      *)
(*****************************************************************************)
Ended == Terminated \/ thread[main].at \in {"returned", "failed", "end"}
SyncWaitReturns == <>Ended
=============================================================================
