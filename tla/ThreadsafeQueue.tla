-------------------------- MODULE ThreadsafeQueue --------------------------
(***************************************************************************)
(* The queues under one mutex, with a condition variable on which the      *)
(* blocking pops sleep: threadsafe_queue<T> of src/Common, the same class  *)
(* in lists 4.5, 6.2 and 6.3, and list 4.1, which is the two functions     *)
(* push and wait_and_pop of such a queue written out.  class says which of *)
(* them a behaviour is about.  The clients are the most general ones: any  *)
(* thread may make any call of the class, in any order, MaxCalls of them   *)
(* between them.                                                           *)
(*                                                                         *)
(* A call is a sequence of steps: lock the mutex, run the body (or go to   *)
(* sleep on the condition variable, which releases the mutex), unlock.     *)
(* Threads woken by a notification, or spuriously, take the mutex again    *)
(* and re-evaluate the predicate of cond.wait, exactly as a fresh call     *)
(* does.  Where the body allocates, the allocation may throw               *)
(* std::bad_alloc: the lock is released by unwinding and the queue is left *)
(* as it was.                                                              *)
(***************************************************************************)
EXTENDS Naturals, Sequences, FiniteSets

CONSTANTS Threads,       \* threads sharing the queue
          Values,        \* values pushed
          NoThread,      \* the owner of a free mutex
          Classes,       \* the queues a behaviour may be about
          MaxCalls,      \* bound: calls made in a behaviour
          MaxSpurious    \* bound: spurious wake-ups in a behaviour

ASSUME ThreadsAssumption == NoThread \notin Threads /\ IsFiniteSet(Threads)

VARIABLES class,     \* the queue this behaviour is about, a constant of it
          mtx,       \* owner of the mutex, or NoThread
          data,      \* std::queue<T> data
          pc,        \* where each thread is
          call,      \* the call each thread is making, or NoCall
          nCalls,    \* calls made so far
          nSpurious, \* spurious wake-ups so far
          pushed,    \* history: the values pushed, in order
          popped,    \* history: the values callers got, in order, [by, val]
          left,      \* history: a value was moved out and left in the queue
          threw      \* history: how many blocking pops have thrown

vars == <<class, mtx, data, pc, call, nCalls, nSpurious, pushed, popped, left, threw>>

counters == <<nCalls, nSpurious>>
history  == <<pushed, popped, left, threw>>

BlockingOps == {"wait_and_pop", "wait_and_pop_ptr", "pop"}
TryOps      == {"try_pop", "try_pop_ptr"}
PopOps      == BlockingOps \cup TryOps
Ops         == PopOps \cup {"push", "empty"}
Calls       == [op : {"push"}, val : Values] \cup [op : Ops \ {"push"}]
NoCall      == [op |-> "none"]

(***************************************************************************)
(* What tells the classes apart: the calls there are; those that allocate  *)
(* under the mutex (push and make_shared do, and so does a copy of a T; in *)
(* list 4.1, whose functions are whole threads, an exception would end the *)
(* program and so the behaviour); those that move the front out but do not *)
(* pop it; and whom push notifies: all sleepers, one, or all of them after *)
(* the mutex is released.                                                  *)
(***************************************************************************)
Common  == [ops |-> Ops, leaves |-> {}, notifies |-> "all",
            allocates |-> {"push", "pop", "wait_and_pop_ptr", "try_pop_ptr"}]
List4_1 == [ops |-> {"push", "wait_and_pop"}, leaves |-> {}, notifies |-> "after",
            allocates |-> {}]
List4_5 == [ops |-> Ops \ {"pop"}, leaves |-> {}, notifies |-> "all",
            allocates |-> Ops \ {"pop", "empty"}]
List6_2 == [ops |-> Ops \ {"pop"}, leaves |-> {}, notifies |-> "one",
            allocates |-> {"push", "wait_and_pop_ptr", "try_pop_ptr"}]
List6_3 == [ops |-> Ops \ {"pop"}, leaves |-> {"wait_and_pop", "try_pop"},
            notifies |-> "all", allocates |-> {"push"}]

ASSUME ClassesAssumption == Classes \subseteq {Common, List4_1, List4_5, List6_2, List6_3}

PCs == {"idle", "lock", "locked", "waiting", "unlock", "notify"}

Init ==
    /\ class \in Classes
    /\ mtx = NoThread
    /\ data = <<>>
    /\ pc = [t \in Threads |-> "idle"]
    /\ call = [t \in Threads |-> NoCall]
    /\ nCalls = 0
    /\ nSpurious = 0
    /\ pushed = <<>>
    /\ popped = <<>>
    /\ left = FALSE
    /\ threw = 0

Goto(t, l) == pc' = [pc EXCEPT ![t] = l]

\* Thread t owns the mutex and is about to run the body of a call in ops.
InBody(t, ops) == pc[t] = "locked" /\ call[t].op \in ops

\* A client starts a call.
Call(t, c) ==
    /\ pc[t] = "idle"
    /\ nCalls < MaxCalls
    /\ c.op \in class.ops
    /\ call' = [call EXCEPT ![t] = c]
    /\ nCalls' = nCalls + 1
    /\ Goto(t, "lock")
    /\ UNCHANGED <<class, mtx, data, nSpurious, history>>

\* std::lock_guard / std::unique_lock, and cond.wait's re-acquisition.
Lock(t) ==
    /\ pc[t] = "lock"
    /\ mtx = NoThread
    /\ mtx' = t
    /\ Goto(t, "locked")
    /\ UNCHANGED <<class, data, call, counters, history>>

\* The lock's destructor at the end of its scope, which in list 4.1 is followed
\* by the notification.
Unlock(t) ==
    /\ pc[t] = "unlock"
    /\ mtx' = NoThread
    /\ IF class.notifies = "after" /\ call[t].op = "push"
       THEN Goto(t, "notify") /\ UNCHANGED call
       ELSE Goto(t, "idle") /\ call' = [call EXCEPT ![t] = NoCall]
    /\ UNCHANGED <<class, data, counters, history>>

Sleepers == {w \in Threads : pc[w] = "waiting"}

\* Every sleeper in W must now take the mutex again; t goes to l.
Wake(W, t, l) ==
    pc' = [u \in Threads |-> IF u = t THEN l ELSE IF u \in W THEN "lock" ELSE pc[u]]

\* Mutants of Notified: push notifies nobody; one sleeper only, in all classes.
NotifiedNone == {{}}
NotifiedOne  == IF Sleepers = {} THEN {{}} ELSE {{w} : w \in Sleepers}

\* The sets of sleepers that push may wake while it holds the mutex.
Notified ==
    CASE class.notifies = "after" \/ Sleepers = {} -> {{}}
      [] class.notifies = "all" -> {Sleepers}
      [] OTHER -> {{w} : w \in Sleepers}

\* push
Push(t) ==
    /\ InBody(t, {"push"})
    /\ data' = Append(data, call[t].val)
    /\ \E W \in Notified : Wake(W, t, "unlock")
    /\ pushed' = Append(pushed, call[t].val)
    /\ UNCHANGED <<class, mtx, call, counters, popped, left, threw>>

\* data_cond.notify_all() in data_preparation_thread of list 4.1.
NotifyAfter(t) ==
    /\ pc[t] = "notify"
    /\ Wake(Sleepers, t, "idle")
    /\ call' = [call EXCEPT ![t] = NoCall]
    /\ UNCHANGED <<class, mtx, data, counters, history>>

\* cond.wait(lk, pred) with the predicate false: sleep and release the mutex.
Wait(t) ==
    /\ InBody(t, BlockingOps)
    /\ data = <<>>
    /\ mtx' = NoThread
    /\ Goto(t, "waiting")
    /\ UNCHANGED <<class, data, call, counters, history>>

\* A condition variable may wake a thread that nobody notified.
SpuriousWake(t) ==
    /\ pc[t] = "waiting"
    /\ nSpurious < MaxSpurious
    /\ nSpurious' = nSpurious + 1
    /\ Goto(t, "lock")
    /\ UNCHANGED <<class, mtx, data, call, nCalls, history>>

\* Mutant of TakeFront: the front is read and left in the queue.
TakeFrontKeepsIt(t) ==
    /\ InBody(t, PopOps \ class.leaves)
    /\ data # <<>>
    /\ popped' = Append(popped, [by |-> t, val |-> Head(data)])
    /\ Goto(t, "unlock")
    /\ UNCHANGED <<class, mtx, data, call, counters, pushed, left, threw>>

\* Mutant of TakeFront: the predicate is trusted after an `if`, so a pop of a
\* queue another thread emptied returns a value nobody pushed.
TakeFrontUnchecked(t) ==
    /\ InBody(t, PopOps \ class.leaves)
    /\ data' = IF data = <<>> THEN data ELSE Tail(data)
    /\ popped' = Append(popped, [by |-> t, val |-> IF data = <<>>
                                   THEN CHOOSE v \in Values : TRUE
                                   ELSE Head(data)])
    /\ Goto(t, "unlock")
    /\ UNCHANGED <<class, mtx, call, counters, pushed, left, threw>>

\* The pops, once the queue is known not to be empty.
TakeFront(t) ==
    /\ InBody(t, PopOps \ class.leaves)
    /\ data # <<>>
    /\ data' = Tail(data)
    /\ popped' = Append(popped, [by |-> t, val |-> Head(data)])
    /\ Goto(t, "unlock")
    /\ UNCHANGED <<class, mtx, call, counters, pushed, left, threw>>

\* The overloads of list 6.3 that take a T&: *data.front() is moved to the caller
\* and its pointer stays in the queue.  (A moved-from int keeps its value.)
LeaveFront(t) ==
    /\ InBody(t, class.leaves)
    /\ data # <<>>
    /\ popped' = Append(popped, [by |-> t, val |-> Head(data)])
    /\ left' = TRUE
    /\ Goto(t, "unlock")
    /\ UNCHANGED <<class, mtx, data, call, counters, pushed, threw>>

\* try_pop of an empty queue (false, or a null pointer), and empty().
LookOnly(t) ==
    /\ \/ InBody(t, TryOps) /\ data = <<>>
       \/ InBody(t, {"empty"})
    /\ Goto(t, "unlock")
    /\ UNCHANGED <<class, mtx, data, call, counters, history>>

\* std::bad_alloc out of data.push, std::make_shared or a copy: nothing was added
\* or removed, nobody is notified, and unwinding releases the lock.
AllocFails(t) ==
    /\ InBody(t, class.allocates)
    /\ call[t].op # "push" => data # <<>>
    /\ threw' = IF call[t].op \in BlockingOps THEN threw + 1 ELSE threw
    /\ call' = [call EXCEPT ![t] = NoCall]
    /\ Goto(t, "unlock")
    /\ UNCHANGED <<class, mtx, data, counters, pushed, popped, left>>

\* The steps a thread takes once it is in a call.
Step(t) == \/ Lock(t)
           \/ Push(t)
           \/ Wait(t)
           \/ NotifyAfter(t)
           \/ TakeFront(t)
           \/ LeaveFront(t)
           \/ LookOnly(t)
           \/ AllocFails(t)
           \/ Unlock(t)

Next == \E t \in Threads :
           \/ \E c \in Calls : Call(t, c)
           \/ SpuriousWake(t)
           \/ Step(t)

Spec == Init /\ [][Next]_vars

(*************************************************************************)
(* The operating system runs every thread that can run.  A thread at     *)
(* "lock" can run only while the mutex is free, so this is weak fairness *)
(* of each thread and nothing is assumed of who gets the mutex.          *)
(*************************************************************************)
FairSpec == Spec /\ \A t \in Threads : WF_vars(Step(t))

-----------------------------------------------------------------------------
TypeOK ==
    /\ class \in Classes
    /\ mtx \in Threads \cup {NoThread}
    /\ data \in Seq(Values)
    /\ pc \in [Threads -> PCs]
    /\ call \in [Threads -> Calls \cup {NoCall}]
    /\ nCalls \in Nat
    /\ nSpurious \in Nat
    /\ pushed \in Seq(Values)
    /\ popped \in Seq([by : Threads, val : Values])
    /\ left \in BOOLEAN
    /\ threw \in Nat

\* The values popped, oldest first.
PoppedValues == [i \in DOMAIN popped |-> popped[i].val]

(**************************************************************************)
(* Whatever the threads, the wake-ups and the failed allocations do, what *)
(* was pushed is what was popped, in the same order, followed by what is  *)
(* still queued: nothing is lost, doubled or overtaken by push and the    *)
(* pops - but for the two overloads of list 6.3 that do not pop.          *)
(**************************************************************************)
ExactlyOnceInOrder == ~left => pushed = PoppedValues \o data

\* A push of list 4.1 that has still to notify.
WillNotify(t) ==
    class.notifies = "after" /\ call[t].op = "push" /\ pc[t] \in {"unlock", "notify"}

(*************************************************************************)
(* Where push notifies all, no thread sleeps on cond while there is      *)
(* something to pop, but for a moment in list 4.1: the notification is   *)
(* never lost, not even when the thread that could have popped fails to  *)
(* allocate its result and leaves the element to the others.             *)
(*************************************************************************)
NoStrandedWaiter ==
    Sleepers # {} /\ class.notifies # "one" =>
        data = <<>> \/ \E t \in Threads : WillNotify(t)

\* Threads in a blocking pop that has not popped yet.
Blocked(t) == call[t].op \in BlockingOps /\ pc[t] \in {"lock", "locked", "waiting"}

\* Those of them that are awake.
Poppers == {t \in Threads : Blocked(t)} \ Sleepers

(**************************************************************************)
(* Where push notifies one sleeper (list 6.2), an awake thread is on its  *)
(* way to pop for every value while others sleep, but for one value for   *)
(* each pop that has thrown: the exception takes the wake-up with it, and *)
(* no more than that.                                                     *)
(**************************************************************************)
WakeUpPerValue ==
    Sleepers # {} /\ class.notifies = "one" => Len(data) <= Cardinality(Poppers) + threw

(*************************************************************************)
(* A queue that holds something while threads are in wait_and_pop or pop *)
(* is drained, or every such call has returned.  In list 6.2 they may    *)
(* sleep beside as many values as pops have thrown, and no more.         *)
(*************************************************************************)
BlockedPopsAreServed ==
    (data # <<>> /\ \E t \in Threads : Blocked(t))
        ~> \/ data = <<>> \/ \A t \in Threads : ~Blocked(t)
           \/ class.notifies = "one" /\ Len(data) <= threw

(**************************************************************************)
(* Each class implements FifoQueue: a push takes effect at its data.push, *)
(* a pop at its data.pop, and every other step is invisible.  In list 6.3 *)
(* that is so until a value is moved out and left.                        *)
(**************************************************************************)
Fifo == INSTANCE FifoQueue WITH items <- data, taken <- popped

ImplementsFifo == Fifo!Init /\ [][left' \/ Fifo!Next]_<<data, popped>>
=============================================================================
