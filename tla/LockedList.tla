----------------------------- MODULE LockedList -----------------------------
(***************************************************************************)
(* threadsafe_list (list 6.12): a singly linked list whose nodes carry a   *)
(* mutex each and are walked hand over hand.  Threads call push_front,     *)
(* for_each and remove_if at once, each once; the predicate takes away the *)
(* values of Doomed.  Addresses are reused, a value is pushed once.        *)
(* find_first_if, which is for_each with an early return, does not compile *)
(* when it is used (current->next->get()).                                 *)
(***************************************************************************)
EXTENDS Naturals, Sequences, FiniteSets

CONSTANTS
    Threads,
    Nodes,      \* the addresses of nodes
    Null,
    Values,     \* what may be pushed
    Doomed      \* the values remove_if removes

head == "head"
Addresses == Nodes \cup {head}

VARIABLES
    next,       \* node -> the node after it, or Null
    data,       \* node -> its value
    live,       \* the nodes that exist
    mtx,        \* node -> the thread that holds its mutex, or Null
    pc,         \* thread -> its next step
    op,         \* thread -> its call
    current,    \* thread -> the node it stands at
    ahead,      \* thread -> its local variable next
    pushed,     \* the values that have been pushed
    seen,       \* thread -> the values for_each has been called with
    present     \* thread -> the values that stayed in the list since it locked the head
vars == <<next, data, live, mtx, pc, op, current, ahead, pushed, seen, present>>
list == <<next, data, live, pushed, present>>

\* the list holds two values when the threads start
Init ==
    \E v, w \in Values :
        LET a == CHOOSE n \in Nodes : TRUE
            b == CHOOSE n \in Nodes \ {a} : TRUE
        IN /\ v # w
           /\ next = [n \in Addresses |-> CASE n = head -> a [] n = a -> b [] OTHER -> Null]
           /\ data = [n \in Nodes |-> IF n = b THEN w ELSE v]
           /\ live = {head, a, b}
           /\ pushed = {v, w}
           /\ mtx = [n \in Addresses |-> Null]
           /\ pc = [t \in Threads |-> "call"]
           /\ op = [t \in Threads |-> "none"]
           /\ current = [t \in Threads |-> head]
           /\ ahead = [t \in Threads |-> Null]
           /\ seen = [t \in Threads |-> <<>>]
           /\ present = [t \in Threads |-> {}]

At(t, p) == pc[t] = p
Go(t, p) == pc' = [pc EXCEPT ![t] = p]

\* the values in the list
Contents ==
    LET nth[k \in 0 .. Cardinality(Nodes)] ==
            IF k = 0 THEN head ELSE IF nth[k - 1] = Null THEN Null ELSE next[nth[k - 1]]
    IN {data[n] : n \in {nth[k] : k \in 1 .. Cardinality(Nodes)} \ {Null}}

-----------------------------------------------------------------------------
\* a call of push_front needs a value that has not been pushed
Pushers == {t \in Threads : op[t] = "push_front"}
Call(t, f) ==
    /\ At(t, "call")
    /\ f = "push_front" => Cardinality(Pushers) + 2 < Cardinality(Values)
    /\ op' = [op EXCEPT ![t] = f]
    /\ Go(t, IF f = "push_front" THEN "new" ELSE "lockHead")
    /\ UNCHANGED <<list, mtx, current, ahead, seen>>

\* push_front makes its node before it locks the head
NewNode(t, v) ==
    /\ At(t, "new")
    /\ v \notin pushed
    /\ pushed' = pushed \cup {v}
    /\ LET n == CHOOSE n \in Nodes : n \notin live
       IN /\ live' = live \cup {n}
          /\ data' = [data EXCEPT ![n] = v]
          /\ next' = [next EXCEPT ![n] = Null]
          /\ ahead' = [ahead EXCEPT ![t] = n]
    /\ Go(t, "lockHead")
    /\ UNCHANGED <<present, mtx, op, current, seen>>

LockHead(t) ==
    /\ At(t, "lockHead") /\ mtx[head] = Null
    /\ mtx' = [mtx EXCEPT ![head] = t]
    /\ present' = [present EXCEPT ![t] = Contents]
    /\ Go(t, IF op[t] = "push_front" THEN "link" ELSE "look")
    /\ UNCHANGED <<next, data, live, pushed, op, current, ahead, seen>>

LinkFront(t) ==
    /\ At(t, "link")
    /\ next' = [next EXCEPT ![ahead[t]] = next[head], ![head] = ahead[t]]
    /\ mtx' = [mtx EXCEPT ![head] = Null]
    /\ Go(t, "returned")
    /\ UNCHANGED <<data, live, pushed, present, op, current, ahead, seen>>

\* the loop's condition: is there a node after the one that is locked?
Look(t) ==
    /\ At(t, "look")
    /\ ahead' = [ahead EXCEPT ![t] = next[current[t]]]
    /\ IF next[current[t]] = Null
       THEN Go(t, "returned") /\ mtx' = [mtx EXCEPT ![current[t]] = Null]
       ELSE Go(t, "lockNext") /\ UNCHANGED mtx
    /\ UNCHANGED <<list, op, current, seen>>

\* Mutant of LockNext: the node behind is unlocked before the next one is locked.
LetGoFirst(t) ==
    /\ At(t, "lockNext")
    /\ IF mtx[current[t]] = t
       THEN mtx' = [mtx EXCEPT ![current[t]] = Null] /\ UNCHANGED pc
       ELSE mtx[ahead[t]] = Null /\ mtx' = [mtx EXCEPT ![ahead[t]] = t] /\ Go(t, "decide")
    /\ UNCHANGED <<list, op, current, ahead, seen>>
LockNext(t) ==
    /\ At(t, "lockNext") /\ mtx[ahead[t]] = Null
    /\ mtx' = [mtx EXCEPT ![ahead[t]] = t]
    /\ Go(t, "decide")
    /\ UNCHANGED <<list, op, current, ahead, seen>>

Removes(t) == op[t] = "remove_if" /\ data[ahead[t]] \in Doomed

\* for_each unlocks the node behind, then calls fn; remove_if has called the predicate before
HandOver(t) ==
    /\ At(t, "decide") /\ ~Removes(t)
    /\ mtx' = [n \in Addresses |-> IF n = current[t] /\ mtx[n] = t THEN Null ELSE mtx[n]]
    /\ Go(t, "visit")
    /\ UNCHANGED <<list, op, current, ahead, seen>>

Visit(t) ==
    /\ At(t, "visit")
    /\ seen' = IF op[t] = "for_each" THEN [seen EXCEPT ![t] = Append(@, data[ahead[t]])] ELSE seen
    /\ current' = [current EXCEPT ![t] = ahead[t]]
    /\ Go(t, "look")
    /\ UNCHANGED <<list, mtx, op, ahead>>

\* Mutant of Unlink: the rest of the list goes with the node.
UnlinkRest(t) == next' = [next EXCEPT ![current[t]] = Null]
Unlink(t) == next' = [next EXCEPT ![current[t]] = next[ahead[t]]]
Remove(t) ==
    /\ At(t, "decide") /\ Removes(t)
    /\ Unlink(t)
    /\ mtx' = [mtx EXCEPT ![ahead[t]] = Null]
    /\ present' = [u \in Threads |-> present[u] \ {data[ahead[t]]}]
    /\ Go(t, "delete")
    /\ UNCHANGED <<data, live, pushed, op, current, ahead, seen>>

\* old_next goes out of scope
DeleteNode(t) ==
    /\ At(t, "delete")
    /\ live' = live \ {ahead[t]}
    /\ Go(t, "look")
    /\ UNCHANGED <<next, data, pushed, present, mtx, op, current, ahead, seen>>

\* the list's destructor: every node is removed, by the thread that has joined the others
DestroyList ==
    /\ \A t \in Threads : At(t, "returned")
    /\ pc' = [t \in Threads |-> "joined"]
    /\ live' = {n \in live : n # head /\ data[n] \notin Contents}
    /\ next' = [next EXCEPT ![head] = Null]
    /\ UNCHANGED <<data, pushed, present, mtx, op, current, ahead, seen>>

Step(t) ==
    \/ \E f \in {"push_front", "for_each", "remove_if"} : Call(t, f)
    \/ \E v \in Values : NewNode(t, v)
    \/ LockHead(t) \/ LinkFront(t) \/ Look(t) \/ LockNext(t) \/ HandOver(t) \/ Visit(t)
    \/ Remove(t) \/ DeleteNode(t)
Next == DestroyList \/ \E t \in Threads : Step(t)

FairSpec == Init /\ [][Next]_vars /\ WF_vars(DestroyList) /\ \A t \in Threads : WF_vars(Step(t))

-----------------------------------------------------------------------------
(*****************************************************************************)
(* Between its locks no thread loses its way: for_each calls fn once with    *)
(* every value that stays in the list meanwhile, and once at most with any;  *)
(* remove_if leaves none of those that were there and match; and a walk that *)
(* other threads remove nodes around ends at the end of the list.            *)
(*****************************************************************************)
WalksAreComplete ==
    \A t \in Threads : At(t, "returned") =>
        /\ op[t] = "for_each" =>
               /\ present[t] \subseteq {seen[t][k] : k \in DOMAIN seen[t]}
               /\ \A j, k \in DOMAIN seen[t] : seen[t][j] = seen[t][k] => j = k
        /\ op[t] = "remove_if" => present[t] \cap Doomed = {}

(*****************************************************************************)
(* No thread uses a node that has been deleted, and none is deleted while it *)
(* is locked; at the end none is left over.                                  *)
(*****************************************************************************)
NodesAreSafe ==
    /\ \A t \in Threads :
           /\ pc[t] \in {"look", "lockNext", "decide"} => current[t] \in live
           /\ pc[t] \in {"link", "lockNext", "decide", "visit", "delete"} => ahead[t] \in live
           /\ At(t, "delete") => mtx[ahead[t]] = Null
    /\ (\A t \in Threads : At(t, "joined")) => live = {}

\* t is in a call, and waits for no mutex or for one that is free.
CanGo(t) ==
    /\ pc[t] \notin {"returned", "joined"}
    /\ At(t, "lockHead") => mtx[head] = Null
    /\ At(t, "lockNext") => mtx[ahead[t]] = Null

(**************************************************************************)
(* The mutexes never deadlock the calls, each of which holds up to two of *)
(* them: while a call has not returned, some thread can go on.            *)
(**************************************************************************)
NobodyIsStuck ==
    (\E t \in Threads : pc[t] \notin {"returned", "joined"}) => \E t \in Threads : CanGo(t)

(*************************************************************************)
(* Every call returns: threads lock the nodes in the order of the list.  *)
(*************************************************************************)
Ended == \A t \in Threads : At(t, "joined")
CallsReturn == <>Ended
=============================================================================
