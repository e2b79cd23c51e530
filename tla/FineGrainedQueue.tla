-------------------------- MODULE FineGrainedQueue --------------------------
(***************************************************************************)
(* threadsafe_queue of list 6.7 in                                         *)
(* src/Chapter6-DesigningLockbasedConcurrentDataStructures/                *)
(* DesigningLockbasedConcurrentDataStructures.h: a linked list that ends   *)
(* in a dummy node, with one mutex for the head and one for the tail, and  *)
(* a condition variable that pushers notify without holding the mutex the  *)
(* sleepers check their predicate under.  (The queue of list 6.6 is the    *)
(* same without wait_and_pop and without the notification.)                *)
(*                                                                         *)
(* Any thread may make any call; "consume" is the loop body of             *)
(* consume_queue, which pops with try_pop once empty() has said false, and *)
(* dereferences what it got.                                               *)
(***************************************************************************)
EXTENDS Naturals, Sequences, FiniteSets

CONSTANTS Threads,
          Nodes,         \* the addresses new may return
          Values,
          NoThread, null, Nothing,
          Ops,           \* the calls the clients make
          MaxCalls,      \* bound: calls
          MaxSpurious    \* bound: spurious wake-ups

AllOps == {"push", "try_pop", "wait_and_pop", "empty", "consume"}

VARIABLES head, tail, head_mtx, tail_mtx,  \* the members of the class
          next, datum, allocated,          \* the nodes
          pc, op,        \* where each thread is, and in which call
          mine,          \* push's new_dummy and tail's old value, pop's old_head
          seen,          \* what each thread's get_tail returned
          crashed,       \* consume_queue has dereferenced a null pointer
          pushed,        \* the value each pusher brings
          taken,         \* history: the pops, in order, [by, val]
          nCalls, nSpurious

memory == <<next, datum, allocated>>
mutexes == <<head_mtx, tail_mtx>>
bounds == <<nCalls, nSpurious>>
vars == <<head, tail, mutexes, memory, pc, op, mine, seen, crashed, pushed, taken, bounds>>

\* The constructor: one dummy node, which head and tail point to.
Init ==
    /\ \E n \in Nodes : head = n /\ tail = n /\ allocated = {n}
    /\ head_mtx = NoThread /\ tail_mtx = NoThread
    /\ next = [n \in Nodes |-> null]
    /\ datum = [n \in Nodes |-> Nothing]
    /\ pc = [t \in Threads |-> "idle"]
    /\ op = [t \in Threads |-> "none"]
    /\ mine = [t \in Threads |-> null]
    /\ seen = [t \in Threads |-> null]
    /\ crashed = FALSE
    /\ pushed = [t \in Threads |-> Nothing]
    /\ taken = <<>>
    /\ nCalls = 0 /\ nSpurious = 0

At(t, l) == pc[t] = l /\ ~crashed
Goto(t, l) == pc' = [pc EXCEPT ![t] = l]

\* A call returns.
Return(t) ==
    /\ Goto(t, "idle")
    /\ op' = [op EXCEPT ![t] = "none"]
    /\ mine' = [mine EXCEPT ![t] = null]
    /\ seen' = [seen EXCEPT ![t] = null]

-----------------------------------------------------------------------------
(* push                                                                  *)

\* make_shared<T>(val) and new node, before any lock is taken.
NewDummy(t, n, v) ==
    /\ At(t, "idle") /\ nCalls < MaxCalls
    /\ "push" \in Ops
    /\ n \notin allocated
    /\ allocated' = allocated \cup {n}
    /\ next' = [next EXCEPT ![n] = null]
    /\ datum' = [datum EXCEPT ![n] = Nothing]
    /\ mine' = [mine EXCEPT ![t] = n]
    /\ pushed' = [pushed EXCEPT ![t] = v]
    /\ op' = [op EXCEPT ![t] = "push"]
    /\ nCalls' = nCalls + 1
    /\ Goto(t, "lock_tail")
    /\ UNCHANGED <<head, tail, mutexes, seen, crashed, taken, nSpurious>>

LockTail(t) ==
    /\ At(t, "lock_tail")
    /\ tail_mtx = NoThread
    /\ tail_mtx' = t
    /\ Goto(t, "fill")
    /\ UNCHANGED <<head, tail, head_mtx, memory, op, mine, seen, crashed, pushed, taken, bounds>>

\* tail->data = new_data; tail->next = std::move(new_dummy).
Fill(t) ==
    /\ At(t, "fill")
    /\ datum' = [datum EXCEPT ![tail] = pushed[t]]
    /\ next' = [next EXCEPT ![tail] = mine[t]]
    /\ Goto(t, "advance")
    /\ UNCHANGED <<head, tail, mutexes, allocated, op, mine, seen, crashed, pushed, taken, bounds>>

\* Mutant of Advance: the lock is given up before tail has moved.
AdvanceLate(t) ==
    /\ At(t, "advance")
    /\ IF tail_mtx = t
       THEN tail_mtx' = NoThread /\ UNCHANGED <<tail, pc>>
       ELSE tail' = mine[t] /\ Goto(t, "notify") /\ UNCHANGED tail_mtx
    /\ UNCHANGED <<head, head_mtx, memory, op, mine, seen, crashed, pushed, taken, bounds>>

\* Mutant of Advance: the lock is not given up.
AdvanceKeepsLock(t) ==
    /\ At(t, "advance")
    /\ tail' = mine[t]
    /\ Goto(t, "notify")
    /\ UNCHANGED <<head, mutexes, memory, op, mine, seen, crashed, pushed, taken, bounds>>

\* tail = new_tail, and the end of the lock's scope.
Advance(t) ==
    /\ At(t, "advance")
    /\ tail' = mine[t]
    /\ tail_mtx' = NoThread
    /\ Goto(t, "notify")
    /\ UNCHANGED <<head, head_mtx, memory, op, mine, seen, crashed, pushed, taken, bounds>>

\* cond.notify_one(): if threads sleep, one of them is woken.
Notify(t) ==
    /\ At(t, "notify")
    /\ \/ /\ \A w \in Threads : pc[w] # "waiting"
          /\ Goto(t, "idle")
       \/ \E w \in Threads :
             /\ pc[w] = "waiting"
             /\ pc' = [pc EXCEPT ![t] = "idle", ![w] = "lock_head"]
    /\ op' = [op EXCEPT ![t] = "none"]
    /\ mine' = [mine EXCEPT ![t] = null]
    /\ UNCHANGED <<head, tail, mutexes, memory, seen, crashed, pushed, taken, bounds>>

-----------------------------------------------------------------------------
(* try_pop, wait_and_pop and empty                                       *)

Call(t, o) ==
    /\ At(t, "idle") /\ nCalls < MaxCalls
    /\ o \in Ops \ {"push"}
    /\ op' = [op EXCEPT ![t] = o]
    /\ nCalls' = nCalls + 1
    /\ Goto(t, "lock_head")
    /\ UNCHANGED <<head, tail, mutexes, memory, mine, seen, crashed, pushed, taken, nSpurious>>

LockHead(t) ==
    /\ At(t, "lock_head")
    /\ head_mtx = NoThread
    /\ head_mtx' = t
    /\ Goto(t, "get_tail")
    /\ UNCHANGED <<head, tail, tail_mtx, memory, op, mine, seen, crashed, pushed, taken, bounds>>

\* get_tail: the pointer is used after tail_mtx has been released.
GetTail(t) ==
    /\ At(t, "get_tail")
    /\ tail_mtx = NoThread
    /\ seen' = [seen EXCEPT ![t] = tail]
    /\ Goto(t, "compare")
    /\ UNCHANGED <<head, tail, mutexes, memory, op, mine, crashed, pushed, taken, bounds>>

\* empty() returns; consume_queue calls try_pop if it said false.
Empty(t) ==
    /\ At(t, "compare") /\ op[t] \in {"empty", "consume"}
    /\ head_mtx' = NoThread
    /\ IF op[t] = "consume" /\ head # seen[t]
       THEN Goto(t, "lock_head") /\ op' = [op EXCEPT ![t] = "consume_pop"]
            /\ UNCHANGED <<mine, seen>>
       ELSE Return(t)
    /\ UNCHANGED <<head, tail, tail_mtx, memory, crashed, pushed, taken, bounds>>

\* try_pop of an empty queue: a null pointer, which consume_queue dereferences.
TryFails(t) ==
    /\ At(t, "compare") /\ op[t] \in {"try_pop", "consume_pop"}
    /\ head = seen[t]
    /\ head_mtx' = NoThread
    /\ crashed' = (op[t] = "consume_pop")
    /\ Return(t)
    /\ UNCHANGED <<head, tail, tail_mtx, memory, pushed, taken, bounds>>

\* cond.wait in wait_for_data, with the predicate false.
Wait(t) ==
    /\ At(t, "compare") /\ op[t] = "wait_and_pop"
    /\ head = seen[t]
    /\ head_mtx' = NoThread
    /\ Goto(t, "waiting")
    /\ UNCHANGED <<head, tail, tail_mtx, memory, op, mine, seen, crashed, pushed, taken, bounds>>

SpuriousWake(t) ==
    /\ At(t, "waiting")
    /\ nSpurious < MaxSpurious
    /\ nSpurious' = nSpurious + 1
    /\ Goto(t, "lock_head")
    /\ UNCHANGED <<head, tail, mutexes, memory, op, mine, seen, crashed, pushed, taken, nCalls>>

\* Mutant of PopHead: head moves to the tail, not to the next node.
PopHeadToTail(t) ==
    /\ At(t, "compare") /\ op[t] \in {"try_pop", "consume_pop", "wait_and_pop"}
    /\ head # seen[t]
    /\ taken' = Append(taken, [by |-> t, val |-> datum[head]])
    /\ mine' = [mine EXCEPT ![t] = head]
    /\ head' = seen[t]
    /\ head_mtx' = NoThread
    /\ Goto(t, "delete")
    /\ UNCHANGED <<tail, tail_mtx, memory, op, seen, crashed, pushed, bounds>>

\* pop_head, and the end of head_mtx's scope.
PopHead(t) ==
    /\ At(t, "compare") /\ op[t] \in {"try_pop", "consume_pop", "wait_and_pop"}
    /\ head # seen[t]
    /\ taken' = Append(taken, [by |-> t, val |-> datum[head]])
    /\ mine' = [mine EXCEPT ![t] = head]
    /\ head' = next[head]
    /\ head_mtx' = NoThread
    /\ Goto(t, "delete")
    /\ UNCHANGED <<tail, tail_mtx, memory, op, seen, crashed, pushed, bounds>>

\* The caller's unique_ptr old_head dies, after try_pop has read old_head->data.
DeleteOldHead(t) ==
    /\ At(t, "delete")
    /\ allocated' = allocated \ {mine[t]}
    /\ Return(t)
    /\ UNCHANGED <<head, tail, mutexes, next, datum, crashed, pushed, taken, bounds>>

-----------------------------------------------------------------------------
Step(t) == \/ LockTail(t) \/ Fill(t) \/ Advance(t) \/ Notify(t)
           \/ LockHead(t) \/ GetTail(t) \/ Empty(t) \/ TryFails(t) \/ Wait(t)
           \/ PopHead(t) \/ DeleteOldHead(t)

Next == \E t \in Threads :
           \/ \E n \in Nodes, v \in Values : NewDummy(t, n, v)
           \/ \E o \in AllOps : Call(t, o)
           \/ SpuriousWake(t)
           \/ Step(t)

Spec == Init /\ [][Next]_vars

\* Every thread that can run does; nothing is assumed of who gets a mutex.
FairSpec == Spec /\ \A t \in Threads : WF_vars(Step(t))

-----------------------------------------------------------------------------
\* The list from p to the dummy node that ends it.
ListFrom(p) ==
    LET walk[k \in 0 .. Cardinality(Nodes)] == [q \in Nodes \cup {null} |->
            IF q = null \/ k = 0 THEN <<>> ELSE <<q>> \o walk[k - 1][next[q]]]
    IN  walk[Cardinality(Nodes)][p]

Listed == {ListFrom(head)[i] : i \in DOMAIN ListFrom(head)}

(*************************************************************************)
(* The types, and the shape of the list: tail is its last node, but for  *)
(* the moment in which a pusher that has linked a new one moves tail.    *)
(* NodesAreSeparate includes them.                                       *)
(*************************************************************************)
TypeOK ==
    /\ {head_mtx, tail_mtx} \subseteq Threads \cup {NoThread}
    /\ next \in [Nodes -> Nodes \cup {null}]
    /\ datum \in [Nodes -> Values \cup {Nothing}]
    /\ op \in [Threads -> AllOps \cup {"none", "consume_pop"}]
    /\ {mine, seen} \subseteq [Threads -> Nodes \cup {null}]
    /\ taken \in Seq([by : Threads, val : Values])
    /\ LET n == Len(ListFrom(head))
       IN  \/ tail = ListFrom(head)[n]
           \/ tail_mtx # NoThread /\ pc[tail_mtx] = "advance" /\ tail = ListFrom(head)[n - 1]

\* The nodes whose members a thread's next step reads, or writes.
Reads(t) ==
    CASE pc[t] = "compare" /\ op[t] \notin {"empty", "consume"} /\ head # seen[t] -> {head}
      [] pc[t] = "delete" -> {mine[t]}
      [] OTHER -> {}
Writes(t) ==
    CASE pc[t] = "fill" -> {tail}
      [] pc[t] = "delete" -> {mine[t]}
      [] OTHER -> {}

(*************************************************************************)
(* Though a pop and a push hold different mutexes, they never access the *)
(* same node at the same time, and no deleted node is ever accessed: the *)
(* dummy node keeps head and tail apart.                                 *)
(*************************************************************************)
NodesAreSeparate ==
    /\ TypeOK
    /\ \A t \in Threads :
        /\ Reads(t) \cup Writes(t) \subseteq allocated
        /\ \A u \in Threads \ {t} : Writes(t) \cap (Reads(u) \cup Writes(u)) = {}

\* No node leaks: while no call is running the list's nodes are all there are.
NoLeak == (\A t \in Threads : pc[t] \in {"idle", "waiting"}) => allocated = Listed

(**************************************************************************)
(* The queue implements FifoQueue: a push takes effect when tail moves, a *)
(* pop when head does.                                                    *)
(**************************************************************************)
Items ==
    LET list == ListFrom(head)
        n == CHOOSE i \in DOMAIN list : list[i] = tail
    IN  [i \in 1 .. n - 1 |-> datum[list[i]]]

Fifo == INSTANCE FifoQueue WITH items <- Items

ImplementsFifo == Fifo!Spec

\* The guards of Step(t): the next statement of t does not block.
CanGo(t) ==
    \/ pc[t] \in {"fill", "advance", "notify", "delete"}
    \/ pc[t] \in {"lock_tail", "get_tail"} /\ tail_mtx = NoThread
    \/ pc[t] = "lock_head" /\ head_mtx = NoThread
    \/ pc[t] = "compare" /\ op[t] \notin {"none", "push"}

(**************************************************************************)
(* The two mutexes never deadlock the calls, whatever a push, a pop and a *)
(* predicate evaluated in cond.wait hold: while a thread is in a call and *)
(* not asleep, some thread can go on.                                     *)
(**************************************************************************)
NoDeadlock ==
    (\E t \in Threads : pc[t] \notin {"idle", "waiting"}) /\ ~crashed
        => \E t \in Threads : CanGo(t)

(***************************************************************************)
(* "A thread-safe queue with locking and waiting": a wait_and_pop does not *)
(* sleep for ever while there is something to pop.                         *)
(***************************************************************************)
WaitersAreServed ==
    \A t \in Threads : op[t] = "wait_and_pop" /\ Items # <<>> ~> op[t] = "none" \/ Items = <<>>
=============================================================================
