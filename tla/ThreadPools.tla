---------------------------- MODULE ThreadPools ----------------------------
(**************************************************************************)
(* The thread pools of lists 9.1, 9.2, 9.4 and 9.6 in                     *)
(* src/Chapter9-AdvancedThreadManagement/AdvancedThreadManagement.h, from *)
(* their constructor to the end of their destructor.  class says which of *)
(* them a behaviour is about.                                             *)
(*                                                                        *)
(* The tasks are the most general ones: main and every running task may   *)
(* submit tasks, and wait for the futures of those they submitted.  With  *)
(* run_pending_task a thread waits as do_sort of list 9.5 does: it runs   *)
(* other tasks on top of the one that waits, so every thread has a stack  *)
(* of tasks.  pool_work_queue is a threadsafe_queue (module               *)
(* ThreadsafeQueue), whose push and try_pop are steps.                    *)
(**************************************************************************)
EXTENDS Naturals, Sequences, FiniteSets

CONSTANTS Workers, main,   \* the pool's threads, and the one that owns the pool
          MaxTasks         \* bound: tasks submitted

Threads == Workers \cup {main}
Tasks   == 1 .. MaxTasks
None    == 0               \* no task
Nobody  == MaxTasks + 1    \* the owner of a future that has been got

(**************************************************************************)
(* What tells the pools apart: submit returns a future; waiting threads   *)
(* have run_pending_task; workers have a queue of their own for what they *)
(* submit; pool_work_queue is declared after joiner, and so is destroyed  *)
(* before joiner's destructor joins the workers.                          *)
(**************************************************************************)
List9_1 == [futures |-> FALSE, helps |-> FALSE, local |-> FALSE, queueFirst |-> FALSE]
List9_2 == [futures |-> TRUE,  helps |-> FALSE, local |-> FALSE, queueFirst |-> FALSE]
List9_4 == [futures |-> TRUE,  helps |-> TRUE,  local |-> FALSE, queueFirst |-> FALSE]
List9_6 == [futures |-> TRUE,  helps |-> TRUE,  local |-> TRUE,  queueFirst |-> TRUE]
Classes == {List9_1, List9_2, List9_4, List9_6}

VARIABLES class,           \* the pool this behaviour is about, a constant of it
          done,
          pool_work_queue,
          alive,           \* pool_work_queue has not been destroyed
          local_work_queue,
          state,           \* what has become of each task
          owner,           \* who has each task's future: the task that submitted
                           \* it, None for main, and Nobody once get() has returned
          stack,           \* the tasks on each thread, top first, [task, waits]
          at,              \* where each thread is when its stack is empty
          crashed          \* a thread has used the queue after its destruction

vars == <<class, done, pool_work_queue, alive, local_work_queue, state, owner, stack, at, crashed>>
queues == <<pool_work_queue, alive, local_work_queue>>
tasks  == <<state, owner, stack>>

\* main's own frame has task None; a frame that waits for no task waits for None.
Frame(k) == [task |-> k, waits |-> None]

Init ==
    /\ class \in Classes
    /\ done = FALSE
    /\ pool_work_queue = <<>> /\ alive = TRUE
    /\ local_work_queue = [w \in Workers |-> <<>>]
    /\ state = [k \in Tasks |-> "new"]
    /\ owner = [k \in Tasks |-> None]
    /\ stack = [t \in Threads |-> IF t = main THEN <<Frame(None)>> ELSE <<>>]
    /\ at = [t \in Threads |-> IF t = main THEN "constructor" ELSE "not started"]
    /\ crashed = FALSE

Goto(t, l) == at' = [at EXCEPT ![t] = l]

-----------------------------------------------------------------------------
(* The constructor.                                                      *)

\* threads.push_back(std::thread(&thread_pool::work_thread, this))
StartThread(w) ==
    /\ at[main] = "constructor"
    /\ at[w] = "not started"
    /\ Goto(w, "loop")
    /\ UNCHANGED <<class, done, queues, tasks, crashed>>

Constructed ==
    /\ at[main] = "constructor"
    /\ \A w \in Workers : at[w] # "not started"
    /\ Goto(main, "client")
    /\ UNCHANGED <<class, done, queues, tasks, crashed>>

\* catch (...): std::thread could not start a thread.  The members are destroyed
\* as they are by the destructor.
ConstructorThrows ==
    /\ at[main] = "constructor"
    /\ \E w \in Workers : at[w] = "not started"
    /\ done' = TRUE
    /\ Goto(main, "destructor")
    /\ UNCHANGED <<class, queues, tasks, crashed>>

-----------------------------------------------------------------------------
(* Tasks.                                                                *)

Top(t)   == Head(stack[t])
Below(t) == Tail(stack[t])

\* t is running the client's code: main's own, or a task's.
Runs(t) == stack[t] # <<>> /\ Top(t).waits = None /\ (t = main => at[main] = "client")

\* t is waiting for the future of k, and has it.
Waiting(t, k) == stack[t] # <<>> /\ k # None /\ Top(t).waits = k
Ready(k)      == state[k] \in {"done", "dropped"}

Become(k, s) == state' = [state EXCEPT ![k] = s]

\* submit: to the thread's own queue if it has one, or to the pool's.
Submit(t, k) ==
    /\ Runs(t)
    /\ state[k] = "new" /\ \A j \in 1 .. k - 1 : state[j] # "new"
    /\ Become(k, "queued")
    /\ owner' = [owner EXCEPT ![k] = Top(t).task]
    /\ IF class.local /\ t # main
       THEN local_work_queue' = [local_work_queue EXCEPT ![t] = Append(@, k)]
            /\ UNCHANGED <<pool_work_queue, crashed>>
       ELSE pool_work_queue' = Append(pool_work_queue, k) /\ crashed' = ~alive
            /\ UNCHANGED local_work_queue
    /\ UNCHANGED <<class, done, alive, stack, at>>

\* The caller of submit begins to wait for a future it got.
Wait(t, k) ==
    /\ class.futures /\ Runs(t)
    /\ state[k] # "new" /\ owner[k] = Top(t).task
    /\ stack' = [stack EXCEPT ![t] = <<[Top(t) EXCEPT !.waits = k]>> \o Below(t)]
    /\ UNCHANGED <<class, done, queues, state, owner, at, crashed>>

\* The future is ready (with a broken promise, if its task was destroyed).  It
\* can be got once.
Get(t, k) ==
    /\ Waiting(t, k) /\ Ready(k)
    /\ owner' = [owner EXCEPT ![k] = Nobody]
    /\ stack' = [stack EXCEPT ![t] = <<Frame(Top(t).task)>> \o Below(t)]
    /\ UNCHANGED <<class, done, queues, state, at, crashed>>

\* A task returns to run_pending_task.
Finish(t) ==
    /\ Runs(t) /\ Top(t).task # None
    /\ Become(Top(t).task, "done")
    /\ stack' = [stack EXCEPT ![t] = Below(t)]
    /\ UNCHANGED <<class, done, queues, owner, at, crashed>>

-----------------------------------------------------------------------------
(* run_pending_task: called by a worker's loop, and by threads that wait. *)

\* Mutant of Looks: a thread that waits for a future runs nothing meanwhile.
LooksWhenIdle(t) == stack[t] = <<>> /\ at[t] = "look"

Looks(t) ==
    \/ stack[t] = <<>> /\ at[t] = "look"
    \/ class.helps /\ \E k \in Tasks : Waiting(t, k) /\ ~Ready(k)

HasLocal(t) == class.local /\ t # main /\ local_work_queue[t] # <<>>

\* The task runs on top of what t was doing; a worker then tests done again.
Run(t, k) ==
    /\ stack' = [stack EXCEPT ![t] = <<Frame(k)>> \o @]
    /\ Become(k, "running")
    /\ at' = [at EXCEPT ![t] = IF stack[t] = <<>> THEN "loop" ELSE @]
    /\ UNCHANGED <<class, done, alive, owner, crashed>>

RunLocal(t) ==
    /\ Looks(t) /\ HasLocal(t)
    /\ Run(t, Head(local_work_queue[t]))
    /\ local_work_queue' = [local_work_queue EXCEPT ![t] = Tail(@)]
    /\ UNCHANGED pool_work_queue

\* Mutant of RunFromPool: the task is copied, and stays in the queue.
RunFromPoolCopy(t) ==
    /\ Looks(t) /\ ~HasLocal(t)
    /\ alive /\ pool_work_queue # <<>>
    /\ Run(t, Head(pool_work_queue))
    /\ UNCHANGED <<pool_work_queue, local_work_queue>>

RunFromPool(t) ==
    /\ Looks(t) /\ ~HasLocal(t)
    /\ alive /\ pool_work_queue # <<>>
    /\ Run(t, Head(pool_work_queue))
    /\ pool_work_queue' = Tail(pool_work_queue)
    /\ UNCHANGED local_work_queue

\* try_pop of an empty queue and yield; a waiting thread looks at its future next.
Yield(t) ==
    /\ Looks(t) /\ ~HasLocal(t)
    /\ alive /\ pool_work_queue = <<>>
    /\ at' = [at EXCEPT ![t] = IF stack[t] = <<>> THEN "loop" ELSE @]
    /\ UNCHANGED <<class, done, queues, tasks, crashed>>

\* try_pop of a queue that has been destroyed: anything may happen.
PopDestroyed(t) ==
    /\ Looks(t) /\ ~HasLocal(t) /\ ~alive
    /\ crashed' = TRUE
    /\ UNCHANGED <<class, done, queues, tasks, at>>

-----------------------------------------------------------------------------
(* work_thread's loop, and the destructor.                               *)

\* Mutant of Loop: done is not looked at.
LoopForever(w) ==
    /\ stack[w] = <<>> /\ at[w] = "loop"
    /\ Goto(w, "look")
    /\ UNCHANGED <<class, done, queues, tasks, crashed>>

Drop(s) == [k \in Tasks |-> IF \E i \in DOMAIN s : s[i] = k THEN "dropped" ELSE state[k]]

\* while (!done).  A thread that ends destroys its queue, and the tasks in it.
Loop(w) ==
    /\ stack[w] = <<>> /\ at[w] = "loop"
    /\ IF done
       THEN /\ Goto(w, "ended")
            /\ state' = Drop(local_work_queue[w])
            /\ local_work_queue' = [local_work_queue EXCEPT ![w] = <<>>]
       ELSE Goto(w, "look") /\ UNCHANGED <<state, local_work_queue>>
    /\ UNCHANGED <<class, done, pool_work_queue, alive, owner, stack, crashed>>

\* ~thread_pool's body.
Destroy ==
    /\ at[main] = "client" /\ stack[main] = <<Frame(None)>>
    /\ done' = TRUE
    /\ Goto(main, "destructor")
    /\ UNCHANGED <<class, queues, tasks, crashed>>

\* ~threadsafe_queue, with what is left in it.
DestroyQueue(from, to) ==
    /\ at[main] = from
    /\ alive' = FALSE
    /\ state' = Drop(pool_work_queue)
    /\ pool_work_queue' = <<>>
    /\ Goto(main, to)
    /\ UNCHANGED <<class, done, local_work_queue, owner, stack, crashed>>

\* ~join_threads.
Join(from, to) ==
    /\ at[main] = from
    /\ \A w \in Workers : at[w] \in {"not started", "ended"}
    /\ Goto(main, to)
    /\ UNCHANGED <<class, done, queues, tasks, crashed>>

\* The members are destroyed in the reverse order of their declaration.
DestroyMembers ==
    IF class.queueFirst
    THEN DestroyQueue("destructor", "joiner") \/ Join("joiner", "destroyed")
    ELSE Join("destructor", "queue") \/ DestroyQueue("queue", "destroyed")

-----------------------------------------------------------------------------
\* The steps of a thread other than those of the client's code.
Step(t) ==
    \/ RunLocal(t) \/ RunFromPool(t) \/ Yield(t) \/ PopDestroyed(t)
    \/ Finish(t) \/ \E k \in Tasks : Get(t, k)
    \/ t # main /\ Loop(t)
    \/ t = main /\ DestroyMembers

Next ==
    /\ ~crashed
    /\ \/ \E t \in Threads : Step(t)
       \/ \E t \in Threads, k \in Tasks : Submit(t, k) \/ Wait(t, k)
       \/ \E w \in Workers : StartThread(w)
       \/ Constructed \/ ConstructorThrows \/ Destroy

Spec == Init /\ [][Next]_vars

\* Every thread runs, tasks return, and futures that are ready are seen.
FairSpec == Spec /\ \A t \in Threads : WF_vars(~crashed /\ Step(t))

-----------------------------------------------------------------------------
\* A task's places: where it is queued, and the frames it is running in.
PlacesInPool(k)  == {i \in DOMAIN pool_work_queue : pool_work_queue[i] = k}
PlacesInLocal(k) ==
    UNION {{w} \X {i \in DOMAIN local_work_queue[w] : local_work_queue[w][i] = k} : w \in Workers}
Running(k) ==
    UNION {{t} \X {i \in DOMAIN stack[t] : stack[t][i].task = k} : t \in Threads}

\* The types, which RunsOnce includes.
TypeOK ==
    /\ class \in Classes
    /\ {done, alive, crashed} \subseteq BOOLEAN
    /\ pool_work_queue \in Seq(Tasks)
    /\ local_work_queue \in [Workers -> Seq(Tasks)]
    /\ state \in [Tasks -> {"new", "queued", "running", "done", "dropped"}]
    /\ owner \in [Tasks -> Tasks \cup {None, Nobody}]
    /\ stack \in [Threads -> Seq([task : Tasks \cup {None}, waits : Tasks \cup {None}])]

(***************************************************************************)
(* Every task is in one place: queued once, or running on one thread, or   *)
(* in none, once it has run or been dropped.  So none runs twice, and none *)
(* is forgotten, however submit, run_pending_task and the destructor       *)
(* interleave.                                                             *)
(***************************************************************************)
RunsOnce ==
    TypeOK /\ (~crashed => \A k \in Tasks :
        /\ Cardinality(PlacesInPool(k)) + Cardinality(PlacesInLocal(k))
             = IF state[k] = "queued" THEN 1 ELSE 0
        /\ Cardinality(Running(k)) = IF state[k] = "running" THEN 1 ELSE 0)

(*************************************************************************)
(* The queues of lists 9.1, 9.2 and 9.4 outlive their workers, and       *)
(* nobody uses them once they are destroyed.  List 9.6 destroys its      *)
(* queue before it joins its workers, and only after that can one of     *)
(* them use it.                                                          *)
(*************************************************************************)
QueueOutlivesWorkers ==
    /\ crashed => class.queueFirst /\ ~alive
    /\ ~class.queueFirst /\ ~alive => \A w \in Workers : at[w] \in {"not started", "ended"}

(*************************************************************************)
(* A task somebody waits for is never dropped: a worker leaves its loop  *)
(* only when it has no task in progress, so whoever waits for a task in  *)
(* its own queue will run it (list 9.6 once more excepted, for the queue *)
(* it destroys too early).                                               *)
(*************************************************************************)
AwaitedIsKept ==
    ~class.queueFirst \/ alive =>
        \A t \in Threads : \A i \in DOMAIN stack[t] :
            stack[t][i].waits # None => state[stack[t][i].waits] # "dropped"

\* A pool without run_pending_task in which some worker waits inside a task.
Blocked == ~class.helps /\ \E w \in Workers, k \in Tasks : Waiting(w, k)

(***************************************************************************)
(* Threads that run tasks while they wait never wait for each other: every *)
(* future is got, so that again and again nobody waits.  In list 9.2 that  *)
(* is so as long as no task waits for another.                             *)
(***************************************************************************)
NobodyWaits   == \A t \in Threads, k \in Tasks : ~Waiting(t, k)
FuturesAreGot == []<>(NobodyWaits \/ crashed \/ Blocked)

\* The destructor returns, as does a constructor that fails.
Ended == at[main] = "destroyed" \/ crashed \/ Blocked
DestructorReturns == done ~> Ended
=============================================================================
