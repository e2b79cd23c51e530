---------------------------- MODULE PoolQuicksort ----------------------------
(***************************************************************************)
(* The thread pool of list 9.4 and the quicksort of list 9.5 in            *)
(* src/Chapter9-AdvancedThreadManagement/AdvancedThreadManagement.h.       *)
(* do_sort submits its lower part as a task, sorts the higher part itself, *)
(* and until the task's future is ready runs whatever tasks are pending:   *)
(* the tasks a thread runs that way are nested in the one that waits.      *)
(*                                                                         *)
(* Every thread has a stack of activations of do_sort.  The work_queue is  *)
(* a threadsafe_queue (module ThreadsafeQueue) and its try_pop and push    *)
(* are steps.  A list is the set of its elements; which of them is first,  *)
(* and so the pivot, is arbitrary.                                         *)
(***************************************************************************)
EXTENDS Naturals, Sequences, FiniteSets

CONSTANTS Workers, main,   \* the pool's threads, and the one that sorts
          Elements, Key,   \* the list, and the value of each of its elements
          NotReady         \* what a future holds before its task has run

Threads == Workers \cup {main}

VARIABLES work_queue,      \* the tasks submitted and not yet taken
          chunkOf,         \* the list each task is to sort, in order of submission
          future,          \* the result of each task, or NotReady
          stack,           \* the activations of do_sort of each thread, top first
          pc,              \* where each thread is when it is not in do_sort
          done,
          result           \* what parallel_quick_sort returns, or NotReady

vars == <<work_queue, chunkOf, future, stack, pc, done, result>>

Tasks == DOMAIN chunkOf

\* An activation of do_sort.  `task` is the task it runs, or 0 for a direct call.
Activation(task, chunk) ==
    [task |-> task, chunk |-> chunk, at |-> "start", pivot |-> NotReady,
     lower |-> 0, higher |-> <<>>]

\* parallel_quick_sort has made its sorter and calls do_sort.
Init ==
    /\ work_queue = <<>> /\ chunkOf = <<>> /\ future = <<>>
    /\ stack = [t \in Threads |-> IF t = main THEN <<Activation(0, Elements)>> ELSE <<>>]
    /\ pc = [t \in Threads |-> IF t = main THEN "sorting" ELSE "loop"]
    /\ done = FALSE
    /\ result = NotReady

Top(t)   == Head(stack[t])
Below(t) == Tail(stack[t])
At(t, l) == stack[t] # <<>> /\ Top(t).at = l

\* The top activation goes on at l.
MoveTo(t, l) == stack' = [stack EXCEPT ![t] = <<[Top(t) EXCEPT !.at = l]>> \o Below(t)]

\* submit(do_sort, lower), and the recursive call for the higher part.
Divide(t, p) ==
    /\ At(t, "start") /\ p \in Top(t).chunk
    /\ LET lower  == {e \in Top(t).chunk : Key[e] < Key[p]}
           higher == Top(t).chunk \ (lower \cup {p})
           id     == Len(chunkOf) + 1
           waits  == [Top(t) EXCEPT !.at = "wait", !.pivot = p, !.lower = id]
       IN  /\ work_queue' = Append(work_queue, id)
           /\ chunkOf' = Append(chunkOf, lower)
           /\ future' = Append(future, NotReady)
           /\ stack' = [stack EXCEPT ![t] = <<Activation(0, higher), waits>> \o Below(t)]
    /\ UNCHANGED <<pc, done, result>>

\* The top activation returns sorted: to the packaged_task it runs, to the
\* activation that called it, or to parallel_quick_sort, which destroys the pool.
Return(t, sorted) ==
    IF Top(t).task # 0
    THEN /\ future' = [future EXCEPT ![Top(t).task] = sorted]
         /\ stack' = [stack EXCEPT ![t] = Below(t)]
         /\ UNCHANGED <<pc, result>>
    ELSE IF Below(t) # <<>>
    THEN /\ stack' = [stack EXCEPT ![t] =
                <<[Head(Below(t)) EXCEPT !.higher = sorted]>> \o Tail(Below(t))]
         /\ UNCHANGED <<future, pc, result>>
    ELSE /\ result' = sorted
         /\ stack' = [stack EXCEPT ![t] = <<>>]
         /\ pc' = [pc EXCEPT ![t] = "destroy"]
         /\ UNCHANGED future

\* if (chunk_data.empty())return chunk_data;
ReturnEmpty(t) ==
    /\ At(t, "start") /\ Top(t).chunk = {}
    /\ Return(t, <<>>)
    /\ UNCHANGED <<work_queue, chunkOf, done>>

\* Mutant of Combine: the future is not waited for.
CombineTooSoon(t) ==
    /\ At(t, "wait")
    /\ Return(t, (IF future[Top(t).lower] = NotReady THEN <<>> ELSE future[Top(t).lower])
                 \o <<Top(t).pivot>> \o Top(t).higher)
    /\ UNCHANGED <<work_queue, chunkOf, done>>

\* new_lower is ready: the three parts are spliced.
Combine(t) ==
    /\ At(t, "wait") /\ future[Top(t).lower] # NotReady
    /\ Return(t, future[Top(t).lower] \o <<Top(t).pivot>> \o Top(t).higher)
    /\ UNCHANGED <<work_queue, chunkOf, done>>

\* Mutant of Help: the thread just waits for the future.
HelpNobody(t) ==
    /\ At(t, "wait") /\ future[Top(t).lower] = NotReady
    /\ UNCHANGED vars

\* wait_for(0) has timed out: call run_pending_task.
Help(t) ==
    /\ At(t, "wait") /\ future[Top(t).lower] = NotReady
    /\ MoveTo(t, "help")
    /\ UNCHANGED <<work_queue, chunkOf, future, pc, done, result>>

\* run_pending_task gets a task, and runs it on the thread's stack.
RunTask(t) ==
    /\ work_queue # <<>>
    /\ LET id == Head(work_queue)
           waiting == IF stack[t] = <<>> THEN <<>>
                      ELSE <<[Top(t) EXCEPT !.at = "wait"]>> \o Below(t)
       IN  stack' = [stack EXCEPT ![t] = <<Activation(id, chunkOf[id])>> \o waiting]
    /\ work_queue' = Tail(work_queue)
    /\ UNCHANGED <<chunkOf, future, done, result>>

HelpWithTask(t) == At(t, "help") /\ RunTask(t) /\ UNCHANGED pc

\* run_pending_task finds nothing to do.
HelpYields(t) ==
    /\ At(t, "help") /\ work_queue = <<>>
    /\ MoveTo(t, "wait")
    /\ UNCHANGED <<work_queue, chunkOf, future, pc, done, result>>

-----------------------------------------------------------------------------
(* The pool                                                              *)

Idle(t, l) == pc[t] = l /\ stack[t] = <<>>

\* work_thread: while (!done)
CheckDone(t) ==
    /\ t \in Workers /\ Idle(t, "loop")
    /\ pc' = [pc EXCEPT ![t] = IF done THEN "ended" ELSE "pop"]
    /\ UNCHANGED <<work_queue, chunkOf, future, stack, done, result>>

\* run_pending_task, called by work_thread.
WorkerRunsTask(t) == Idle(t, "pop") /\ RunTask(t) /\ pc' = [pc EXCEPT ![t] = "loop"]

WorkerYields(t) ==
    /\ Idle(t, "pop") /\ work_queue = <<>>
    /\ pc' = [pc EXCEPT ![t] = "loop"]
    /\ UNCHANGED <<work_queue, chunkOf, future, stack, done, result>>

\* ~thread_pool: done = true ...
Destroy ==
    /\ pc[main] = "destroy"
    /\ done' = TRUE
    /\ pc' = [pc EXCEPT ![main] = "join"]
    /\ UNCHANGED <<work_queue, chunkOf, future, stack, result>>

\* ... and ~join_threads.
Join ==
    /\ pc[main] = "join"
    /\ \A w \in Workers : pc[w] = "ended"
    /\ pc' = [pc EXCEPT ![main] = "returned"]
    /\ UNCHANGED <<work_queue, chunkOf, future, stack, done, result>>

Step(t) ==
    \/ \E p \in Elements : Divide(t, p)
    \/ ReturnEmpty(t) \/ Combine(t) \/ Help(t) \/ HelpWithTask(t) \/ HelpYields(t)
    \/ CheckDone(t) \/ WorkerRunsTask(t) \/ WorkerYields(t)
    \/ t = main /\ (Destroy \/ Join)

Next == \E t \in Threads : Step(t)

Spec == Init /\ [][Next]_vars

\* Every thread is run.
FairSpec == Spec /\ \A t \in Threads : WF_vars(Step(t))

-----------------------------------------------------------------------------
\* The tasks that some thread's stack is running.
Running(t) == {stack[t][i].task : i \in DOMAIN stack[t]} \ {0}

(*************************************************************************)
(* Every task submitted is in one place: queued once, on one stack, or   *)
(* finished; no task is lost or run twice by two threads that help.      *)
(*************************************************************************)
TypeOK ==
    /\ pc[main] \in {"sorting", "destroy", "join", "returned"}
    /\ \A w \in Workers : pc[w] \in {"loop", "pop", "ended"}
    /\ chunkOf \in Seq(SUBSET Elements)
    /\ \A id \in Tasks :
          Cardinality({i \in DOMAIN work_queue : work_queue[i] = id})
            + Cardinality(UNION {{t} \X {i \in DOMAIN stack[t] : stack[t][i].task = id} : t \in Threads})
            + (IF future[id] # NotReady THEN 1 ELSE 0) = 1

Sorts(s) ==
    /\ Len(s) = Cardinality(Elements)
    /\ {s[i] : i \in DOMAIN s} = Elements
    /\ \A i, j \in DOMAIN s : i < j => Key[s[i]] <= Key[s[j]]

(***************************************************************************)
(* parallel_quick_sort returns the elements, each once, in order, and then *)
(* no task is left in the pool's queue (its future would be broken) and no *)
(* worker is in one: the sort has used them all.                           *)
(***************************************************************************)
ReturnsSorted ==
    result # NotReady =>
        /\ Sorts(result)
        /\ work_queue = <<>>
        /\ \A w \in Workers : stack[w] = <<>>
        /\ \A id \in Tasks : future[id] # NotReady

(**************************************************************************)
(* Waiting never ends in a deadlock, although a result a thread waits for *)
(* can be buried in another thread's stack under a task that waits too:   *)
(* the sort returns and the pool's threads are joined.                    *)
(**************************************************************************)
Ended == pc[main] = "returned"
Finishes == <>Ended
=============================================================================
