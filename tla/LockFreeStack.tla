---------------------------- MODULE LockFreeStack ----------------------------
(**************************************************************************)
(* lock_free_stack of list 7.4 in                                         *)
(* src/Chapter7-DesigningLockFreeConcurrentDataStructures/                *)
(* DesigningLockFreeConcurrentDataStructures.h: a linked stack with an    *)
(* atomic head, whose popped nodes are deleted once no other thread is in *)
(* pop, and are kept on the list to_be_deleted until then.                *)
(*                                                                        *)
(* Any thread may push or pop at any time, MaxCalls times between them.   *)
(* Every access to an atomic, and every access to a node's memory, is a   *)
(* step; the atomics are sequentially consistent, as they are by default. *)
(* A deleted node's memory may be given to the next push, so that a stale *)
(* pointer can meet another node at the same address.                     *)
(*                                                                        *)
(* pop of an empty stack passes a null pointer to chain_pending_node when *)
(* another thread is in pop: the program crashes, and stops here.         *)
(**************************************************************************)
EXTENDS Naturals, Sequences, FiniteSets

CONSTANTS Threads,
          Nodes,         \* the addresses new may return
          Values,
          null, Nothing, \* no node, and no value
          MaxCalls,      \* bound: calls of push and pop
          MaxSpurious    \* bound: spurious failures of compare_exchange_weak

VARIABLES head, to_be_deleted, threads_in_pop,  \* the atomics of the class
          next, datum,   \* the members of each node
          allocated,     \* the nodes that have been created and not deleted
          pc,            \* where each thread is
          mine,          \* push's new_node, pop's old_head
          nodes,         \* nodes_to_delete, of delete_nodes and of the chaining
          last,          \* chain_pending_nodes' last
          seen,          \* the next pointer a thread has read from a node
          res,           \* what each thread's last pop of something returned
          crashed,
          nCalls, nSpurious

memory == <<next, datum, allocated>>
locals == <<mine, nodes, last, seen, res>>
bounds == <<crashed, nCalls, nSpurious>>
vars   == <<head, to_be_deleted, threads_in_pop, memory, pc, locals, bounds>>

Pointers == Nodes \cup {null}

Init ==
    /\ head = null /\ to_be_deleted = null /\ threads_in_pop = 0
    /\ next = [n \in Nodes |-> null]
    /\ datum = [n \in Nodes |-> Nothing]
    /\ allocated = {}
    /\ pc = [t \in Threads |-> "idle"]
    /\ mine = [t \in Threads |-> null]
    /\ nodes = [t \in Threads |-> null]
    /\ last = [t \in Threads |-> null]
    /\ seen = [t \in Threads |-> null]
    /\ res = [t \in Threads |-> Nothing]
    /\ crashed = FALSE /\ nCalls = 0 /\ nSpurious = 0

At(t, l)   == pc[t] = l /\ ~crashed
Goto(t, l) == pc' = [pc EXCEPT ![t] = l]

\* compare_exchange_weak may fail although the comparison would succeed.
Spurious == nSpurious < MaxSpurious /\ nSpurious' = nSpurious + 1

-----------------------------------------------------------------------------
(* push                                                                  *)

\* node* const new_node = new node(data)
NewNode(t, n, v) ==
    /\ At(t, "idle") /\ nCalls < MaxCalls
    /\ n \notin allocated
    /\ allocated' = allocated \cup {n}
    /\ datum' = [datum EXCEPT ![n] = v]
    /\ next' = [next EXCEPT ![n] = null]
    /\ mine' = [mine EXCEPT ![t] = n]
    /\ nCalls' = nCalls + 1
    /\ Goto(t, "push load")
    /\ UNCHANGED <<head, to_be_deleted, threads_in_pop, nodes, last, seen, res,
                   crashed, nSpurious>>

\* new_node->next = head.load()
PushLoad(t) ==
    /\ At(t, "push load")
    /\ next' = [next EXCEPT ![mine[t]] = head]
    /\ Goto(t, "push cas")
    /\ UNCHANGED <<head, to_be_deleted, threads_in_pop, datum, allocated, locals, bounds>>

\* head.compare_exchange_weak(new_node->next, new_node); a failure that is
\* spurious changes nothing at all.
PushCas(t) ==
    /\ At(t, "push cas")
    /\ IF head = next[mine[t]]
       THEN /\ head' = mine[t] /\ mine' = [mine EXCEPT ![t] = null]
            /\ Goto(t, "idle")
            /\ UNCHANGED next
       ELSE /\ next' = [next EXCEPT ![mine[t]] = head]
            /\ UNCHANGED <<head, mine, pc>>
    /\ UNCHANGED <<to_be_deleted, threads_in_pop, datum, allocated, nodes, last,
                   seen, res, bounds>>

-----------------------------------------------------------------------------
(* pop                                                                   *)

\* ++threads_in_pop
EnterPop(t) ==
    /\ At(t, "idle") /\ nCalls < MaxCalls
    /\ threads_in_pop' = threads_in_pop + 1
    /\ nCalls' = nCalls + 1
    /\ Goto(t, "pop load")
    /\ UNCHANGED <<head, to_be_deleted, memory, locals, crashed, nSpurious>>

\* old_head becomes h; the loop ends if it is null.
OldHead(t, h) ==
    /\ mine' = [mine EXCEPT ![t] = h]
    /\ Goto(t, IF h = null THEN "reclaim" ELSE "pop next")

\* node* old_head = head.load()
PopLoad(t) ==
    /\ At(t, "pop load")
    /\ OldHead(t, head)
    /\ UNCHANGED <<head, to_be_deleted, threads_in_pop, memory, nodes, last, seen, res, bounds>>

\* The argument old_head->next, read before the exchange.
PopNext(t) ==
    /\ At(t, "pop next")
    /\ seen' = [seen EXCEPT ![t] = next[mine[t]]]
    /\ Goto(t, "pop cas")
    /\ UNCHANGED <<head, to_be_deleted, threads_in_pop, memory, mine, nodes, last, res, bounds>>

\* Mutant of PopCas: the head is stored, not exchanged.
PopStore(t) ==
    /\ At(t, "pop cas")
    /\ head' = seen[t] /\ Goto(t, "take")
    /\ UNCHANGED <<mine, to_be_deleted, threads_in_pop, memory, nodes, last, seen, res,
                   crashed, nCalls, nSpurious>>

\* head.compare_exchange_weak(old_head, old_head->next)
PopCas(t) ==
    /\ At(t, "pop cas")
    /\ \/ /\ head = mine[t]
          /\ head' = seen[t] /\ Goto(t, "take")
          /\ UNCHANGED <<mine, nSpurious>>
       \/ /\ head # mine[t]
          /\ OldHead(t, head)
          /\ UNCHANGED <<head, nSpurious>>
       \/ /\ head = mine[t] /\ Spurious
          /\ OldHead(t, head)
          /\ UNCHANGED head
    /\ UNCHANGED <<to_be_deleted, threads_in_pop, memory, nodes, last, seen, res,
                   crashed, nCalls>>

\* res.swap(old_head->data)
Take(t) ==
    /\ At(t, "take")
    /\ res' = [res EXCEPT ![t] = datum[mine[t]]]
    /\ datum' = [datum EXCEPT ![mine[t]] = Nothing]
    /\ Goto(t, "reclaim")
    /\ UNCHANGED <<head, to_be_deleted, threads_in_pop, next, allocated, mine,
                   nodes, last, seen, bounds>>

-----------------------------------------------------------------------------
(* try_reclaim                                                           *)

\* Mutant of TryReclaim: the test for other threads is left out.
TryReclaimEager(t) ==
    /\ At(t, "reclaim")
    /\ Goto(t, "claim") /\ UNCHANGED <<last, nodes, crashed>>
    /\ UNCHANGED <<head, to_be_deleted, threads_in_pop, memory, mine, seen, res,
                   nCalls, nSpurious>>

\* if (1 == threads_in_pop); in the else branch old_head is chained by itself,
\* and chain_pending_nodes starts by writing to old_head->next.
TryReclaim(t) ==
    /\ At(t, "reclaim")
    /\ CASE threads_in_pop = 1 ->
              Goto(t, "claim") /\ UNCHANGED <<last, nodes, crashed>>
         [] threads_in_pop # 1 /\ mine[t] # null ->
              /\ nodes' = [nodes EXCEPT ![t] = mine[t]]
              /\ last' = [last EXCEPT ![t] = mine[t]]
              /\ Goto(t, "chain load")
              /\ UNCHANGED crashed
         [] OTHER ->
              crashed' = TRUE /\ UNCHANGED <<pc, last, nodes>>
    /\ UNCHANGED <<head, to_be_deleted, threads_in_pop, memory, mine, seen, res,
                   nCalls, nSpurious>>

\* to_be_deleted.exchange(nullptr)
Claim(t) ==
    /\ At(t, "claim")
    /\ nodes' = [nodes EXCEPT ![t] = to_be_deleted]
    /\ to_be_deleted' = null
    /\ Goto(t, "leave")
    /\ UNCHANGED <<head, threads_in_pop, memory, mine, last, seen, res, bounds>>

\* Mutant of Leave: nodes that cannot be deleted yet are forgotten.
LeaveForgets(t) ==
    /\ At(t, "leave")
    /\ threads_in_pop' = threads_in_pop - 1
    /\ Goto(t, IF threads_in_pop' = 0 /\ nodes[t] # null THEN "delete next" ELSE "delete head")
    /\ UNCHANGED <<last, head, to_be_deleted, memory, mine, nodes, seen, res, bounds>>

\* if (!--threads_in_pop): nobody else can have seen the claimed nodes, and
\* they are deleted; otherwise they go back on the list.
Leave(t) ==
    /\ At(t, "leave")
    /\ threads_in_pop' = threads_in_pop - 1
    /\ IF nodes[t] = null
       THEN Goto(t, "delete head") /\ UNCHANGED last
       ELSE IF threads_in_pop' = 0
       THEN Goto(t, "delete next") /\ UNCHANGED last
       ELSE last' = [last EXCEPT ![t] = nodes[t]] /\ Goto(t, "find last")
    /\ UNCHANGED <<head, to_be_deleted, memory, mine, nodes, seen, res, bounds>>

\* delete_nodes: node* next = nodes->next ...
DeleteNext(t) ==
    /\ At(t, "delete next")
    /\ seen' = [seen EXCEPT ![t] = next[nodes[t]]]
    /\ Goto(t, "delete")
    /\ UNCHANGED <<head, to_be_deleted, threads_in_pop, memory, mine, nodes, last, res, bounds>>

\* ... and delete nodes.
Delete(t) ==
    /\ At(t, "delete")
    /\ allocated' = allocated \ {nodes[t]}
    /\ nodes' = [nodes EXCEPT ![t] = seen[t]]
    /\ Goto(t, IF seen[t] = null THEN "delete head" ELSE "delete next")
    /\ UNCHANGED <<head, to_be_deleted, threads_in_pop, next, datum, mine, last, seen, res, bounds>>

\* The end of a call of pop: the locals are gone.
Return(t) ==
    /\ Goto(t, "idle")
    /\ mine' = [mine EXCEPT ![t] = null]
    /\ nodes' = [nodes EXCEPT ![t] = null]
    /\ last' = [last EXCEPT ![t] = null]
    /\ seen' = [seen EXCEPT ![t] = null]

\* delete old_head, of a pointer that may be null.
DeleteHead(t) ==
    /\ At(t, "delete head")
    /\ allocated' = allocated \ {mine[t]}
    /\ Return(t)
    /\ UNCHANGED <<head, to_be_deleted, threads_in_pop, next, datum, res, bounds>>

-----------------------------------------------------------------------------
(* chain_pending_nodes(first, last), with first in nodes[t]              *)

\* while (node* const next = last->next) last = next;
FindLast(t) ==
    /\ At(t, "find last")
    /\ IF next[last[t]] = null
       THEN Goto(t, "chain load") /\ UNCHANGED last
       ELSE last' = [last EXCEPT ![t] = next[last[t]]] /\ UNCHANGED pc
    /\ UNCHANGED <<head, to_be_deleted, threads_in_pop, memory, mine, nodes, seen, res, bounds>>

\* last->next = to_be_deleted
ChainLoad(t) ==
    /\ At(t, "chain load")
    /\ next' = [next EXCEPT ![last[t]] = to_be_deleted]
    /\ Goto(t, "chain cas")
    /\ UNCHANGED <<head, to_be_deleted, threads_in_pop, datum, allocated, locals, bounds>>

\* to_be_deleted.compare_exchange_weak(last->next, first).  old_head itself has
\* been chained iff the thread is still counted, and it leaves last.
ChainCas(t) ==
    /\ At(t, "chain cas")
    /\ IF to_be_deleted = next[last[t]]
       THEN /\ to_be_deleted' = nodes[t]
            /\ Goto(t, IF nodes[t] = mine[t] THEN "exit" ELSE "delete head")
            /\ UNCHANGED next
       ELSE /\ next' = [next EXCEPT ![last[t]] = to_be_deleted]
            /\ UNCHANGED <<to_be_deleted, pc>>
    /\ UNCHANGED <<head, threads_in_pop, datum, allocated, locals, bounds>>

\* --threads_in_pop, in the else branch of try_reclaim.
ExitPop(t) ==
    /\ At(t, "exit")
    /\ threads_in_pop' = threads_in_pop - 1
    /\ Return(t)
    /\ UNCHANGED <<head, to_be_deleted, memory, res, bounds>>

-----------------------------------------------------------------------------
Step(t) ==
    \/ PushLoad(t) \/ PushCas(t)
    \/ PopLoad(t) \/ PopNext(t) \/ PopCas(t) \/ Take(t)
    \/ TryReclaim(t) \/ Claim(t) \/ Leave(t)
    \/ DeleteNext(t) \/ Delete(t) \/ DeleteHead(t)
    \/ FindLast(t) \/ ChainLoad(t) \/ ChainCas(t) \/ ExitPop(t)

Next == \E t \in Threads :
    \/ \E n \in Nodes, v \in Values : NewNode(t, n, v)
    \/ EnterPop(t)
    \/ Step(t)

Spec == Init /\ [][Next]_vars

-----------------------------------------------------------------------------
\* The threads that threads_in_pop counts.
InPop(t) ==
    \/ pc[t] \in {"pop load", "pop next", "pop cas", "take", "reclaim", "claim",
                  "leave", "exit"}
    \/ pc[t] \in {"chain load", "chain cas"} /\ nodes[t] = mine[t]

\* The types, and that threads_in_pop counts the threads in pop.
TypeOK ==
    /\ {head, to_be_deleted} \subseteq Pointers
    /\ next \in [Nodes -> Pointers]
    /\ datum \in [Nodes -> Values \cup {Nothing}]
    /\ allocated \subseteq Nodes
    /\ {mine, nodes, last, seen} \subseteq [Threads -> Pointers]
    /\ res \in [Threads -> Values \cup {Nothing}]
    /\ threads_in_pop = Cardinality({t \in Threads : InPop(t)})

\* The nodes whose memory a thread's next step reads, writes or gives back.
Touches(t) ==
    CASE pc[t] \in {"push load", "push cas", "pop next", "take"} -> {mine[t]}
      [] pc[t] \in {"delete next", "delete"} -> {nodes[t]}
      [] pc[t] \in {"find last", "chain load", "chain cas"} -> {last[t]}
      [] pc[t] = "delete head" -> {mine[t]} \ {null}
      [] OTHER -> {}

(***************************************************************************)
(* No thread ever touches a node that has been deleted, and none is        *)
(* deleted twice, whatever pointers were read before another thread's pop. *)
(***************************************************************************)
NoUseAfterFree == \A t \in Threads : Touches(t) \subseteq allocated

\* The nodes on the list that starts at p, from its first on.
ListFrom(p) ==
    LET walk[k \in 0 .. Cardinality(Nodes)] == [q \in Pointers |->
            IF q = null \/ k = 0 THEN <<>> ELSE <<q>> \o walk[k - 1][next[q]]]
    IN  walk[Cardinality(Nodes)][p]

NodesFrom(p) == {ListFrom(p)[i] : i \in DOMAIN ListFrom(p)}

(*************************************************************************)
(* No node leaks: while no call is running, every node that exists is on *)
(* the stack or on to_be_deleted, and on one of them only.               *)
(*************************************************************************)
NoLeak ==
    (\A t \in Threads : pc[t] = "idle") =>
        /\ allocated = NodesFrom(head) \cup NodesFrom(to_be_deleted)
        /\ NodesFrom(head) \cap NodesFrom(to_be_deleted) = {}

(****************************************************************************)
(* pop of an empty stack returns a null pointer (pop's `if (old_head)`, and *)
(* the `if (val.get())` of its caller in the chapter's example).            *)
(****************************************************************************)
EmptyPopReturns == ~crashed

(***************************************************************************)
(* The stack implements Stack: a push takes effect at its compare_exchange *)
(* that succeeds, so does a pop, and nobody's value is taken twice.        *)
(***************************************************************************)
Contents == [i \in DOMAIN ListFrom(head) |-> datum[ListFrom(head)[i]]]

LIFO == INSTANCE Stack WITH
          items <- Contents,
          has   <- [t \in Threads |-> IF pc[t] = "take" THEN datum[mine[t]] ELSE res[t]]

ImplementsStack == LIFO!Spec
=============================================================================
