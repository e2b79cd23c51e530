----------------------------- MODULE ForkJoin -----------------------------
(***************************************************************************)
(* The algorithms that divide a range, start threads or std::async for the *)
(* parts, do one part themselves and collect the results: list 2.9 of      *)
(* src/Chapter2-ManagingThreads/BasicThreadManagement.h, lists 8.2 to 8.5, *)
(* 8.7, 8.8 and 8.11 of                                                    *)
(* src/Chapter8-DesigingConcurrentCode/DesigingConcurrentCode.h, and its   *)
(* two parallel_find, lists 8.9 and 8.10.                                  *)
(*                                                                         *)
(* An activation of the algorithm or of a block's function is a node of a  *)
(* tree, named by its path from the call; its last child runs inline, the  *)
(* others on threads of their own.  What the operation does to an element  *)
(* (nothing special, throw, match) is chosen in Init.  A sum is the        *)
(* sequence of the elements it was made from, so that its order shows.     *)
(***************************************************************************)
EXTENDS Naturals, SequencesExt

CONSTANTS MaxLength,    \* the longest range
          MaxBlocks,    \* bound on num_threads
          Chunk         \* the length up to which a range is not halved

VARIABLES list,         \* which algorithm runs
          length,       \* std::distance(first, last)
          blocks,       \* num_threads
          outcome,      \* what the operation does to each element
          cell,         \* the elements of the range, with what was done to them
          promise,      \* result of list 8.9 (at 0), end_values of list 8.11
          done,         \* done_flag, done
          node,         \* the activations
          died          \* std::terminate has been called

chosen == <<list, length, blocks, outcome>>
shared == <<cell, promise, done>>
joinVars == <<chosen, shared, node, died>>

(***************************************************************************)
(* What distinguishes the lists: how the range is split, what is done to a *)
(* leaf, whether a thread's exception goes into a future, and who joins:   *)
(* a loop after the inline part, a destructor (of join_threads, or of the  *)
(* futures of std::async), or nobody.                                      *)
(***************************************************************************)
Algorithm(split, does, task, join) ==
    [split |-> split, does |-> does, task |-> task, join |-> join]

List2_9  == Algorithm("blocks", "sum", FALSE, "loop")
List8_2  == Algorithm("blocks", "sum", FALSE, "loop")
List8_3  == Algorithm("blocks", "sum", TRUE, "loop")
List8_4  == Algorithm("blocks", "sum", TRUE, "destructor")
List8_5  == Algorithm("halves", "sum", TRUE, "destructor")
List8_7  == Algorithm("blocks", "each", TRUE, "nobody")
List8_8  == Algorithm("halves", "each", TRUE, "destructor")
List8_9  == Algorithm("blocks", "find", FALSE, "destructor")
List8_10 == Algorithm("halves", "find", TRUE, "destructor")
List8_11 == Algorithm("blocks", "prefix", FALSE, "destructor")

Lists == {List2_9, List8_2, List8_3, List8_4, List8_5, List8_7, List8_8, List8_9, List8_10, List8_11}

Halves    == list.split = "halves"
Outcomes(l) == {"plain", "throws"} \union (IF l.does = "find" THEN {"match"} ELSE {})
None      == [is |-> "none"]
Value(v)  == [is |-> "value", of |-> v]
Exception == [is |-> "exception"]

Span(n)      == n.lo .. n.hi - 1
Throwing(n)  == {e \in Span(n) : outcome[e] = "throws"}
UpTo(lo, hi) == [i \in 1 .. hi - lo |-> lo + i - 1]      \* <<lo, ..., hi - 1>>

(*************************************************************************)
(* Nodes.                                                                *)
(*************************************************************************)
Root == <<>>

IsLeaf(p, lo, hi) == IF Halves THEN hi - lo <= Chunk ELSE p # Root \/ lo = hi

NewNode(p, lo, hi, by, init) ==
    [lo |-> lo, hi |-> hi,      \* [first, last)
     by |-> by,                 \* the caller, a thread, inline, or deferred to get()
     init |-> init,             \* init, or T{}
     st |-> IF IsLeaf(p, lo, hi) THEN "leaf" ELSE "fork",
     k |-> 0,                   \* children started, futures got, elements looked at
     joined |-> FALSE, res |-> None]

\* Mutant of Parts: every block of block_size elements, the last one too.
PartsEqual(n) ==
    LET size == (n.hi - n.lo) \div blocks
        mid  == n.lo + (n.hi - n.lo) \div 2
    IN  IF ~ Halves THEN [i \in 1 .. blocks |-> <<n.lo + (i - 1) * size, n.lo + i * size>>]
        ELSE <<<<n.lo, mid>>, <<mid, n.hi>>>>

\* The ranges of the children, the inline one last.
Parts(n) ==
    LET size == (n.hi - n.lo) \div blocks
        mid  == n.lo + (n.hi - n.lo) \div 2
    IN  IF ~ Halves
        THEN [i \in 1 .. blocks |->
                 <<n.lo + (i - 1) * size, IF i = blocks THEN n.hi ELSE n.lo + i * size>>]
        ELSE IF list.does = "find" THEN <<<<mid, n.hi>>, <<n.lo, mid>>>>
                                   ELSE <<<<n.lo, mid>>, <<mid, n.hi>>>>

Forks(n)  == Len(Parts(n)) - 1
Kid(p, i) == node[Append(p, i)]
Kids(p)   == {q \in DOMAIN node : q # Root /\ Front(q) = p}
Ended(q)  == node[q].st = "ended"
KidThreads(p) == {q \in Kids(p) : node[q].by = "thread"}

InlineKid(p) == Append(p, Forks(node[p]) + 1)

\* Activation p is in the get() of its i-th future; list 8.10 asks only if its own half
\* found nothing: direct_result == mid_point.
InGet(p, i) ==
    /\ node[p].st = "get" /\ node[p].k + 1 = i
    /\ list.does = "find" => node[InlineKid(p)].res = Value(node[InlineKid(p)].hi)

\* A deferred child runs inside its parent's get(), on the parent's thread.
At(p, st) ==
    /\ ~ died /\ node[p].st = st
    /\ node[p].by = "deferred" => InGet(Front(p), Last(p))

Go(p, st)    == node' = [node EXCEPT ![p].st = st, ![p].k = 0]
Leave(p, r)  == node' = [node EXCEPT ![p].st = "leave", ![p].res = r]

\* The activation is over; a thread has still to end after it made its future ready.
Return(p, r) ==
    node' = [node EXCEPT ![p].res = r, ![p].st = IF node[p].by = "thread" /\ list.task
                                                 THEN "ready" ELSE "ended"]

\* An exception leaves a leaf: into the future, to the caller, or out of a thread.
Throw(p) ==
    IF node[p].by = "thread" /\ ~ list.task
    THEN died' = TRUE /\ UNCHANGED node
    ELSE Return(p, Exception) /\ UNCHANGED died

Init ==
    /\ list \in Lists
    /\ length \in 0 .. MaxLength
    /\ blocks \in IF Halves \/ length = 0 THEN {1}
                  ELSE {b \in 1 .. MaxBlocks : b <= length}   \* no block is empty
    /\ outcome \in [0 .. length - 1 -> Outcomes(list)]
    /\ cell = [e \in 0 .. length - 1 |-> <<e>>]
    /\ promise = [i \in 0 .. blocks - 1 |-> None]
    /\ done = FALSE
    /\ node = [p \in {Root} |-> NewNode(Root, 0, length, "caller", <<"init">>)]
    /\ died = FALSE

(*************************************************************************)
(* Starting the children.                                                *)
(*************************************************************************)
Child(p, by) ==
    LET i == node[p].k + 1
        n == node[p]
        r == Parts(n)[i]
        init == IF Halves /\ i = 1 THEN n.init ELSE <<>>
        q == Append(p, i)
    IN  node' = [c \in DOMAIN node \union {q} |->
                    CASE c = q -> NewNode(q, r[1], r[2], by, init)
                      [] c = p -> [n EXCEPT !.k = i, !.st = IF by = "inline" THEN "own" ELSE @]
                      [] OTHER -> node[c]]

\* threads[i] = std::thread(...), or std::async, which may defer.
Fork(p) ==
    /\ At(p, "fork") /\ node[p].k < Forks(node[p])
    /\ \E by \in {"thread"} \union (IF Halves THEN {"deferred"} ELSE {}) : Child(p, by)
    /\ UNCHANGED <<chosen, shared, died>>

\* std::thread's constructor throws.
ForkFails(p) ==
    /\ At(p, "fork") /\ node[p].k < Forks(node[p]) /\ ~ Halves
    /\ Leave(p, Exception)
    /\ UNCHANGED <<chosen, shared, died>>

CallInline(p) ==
    /\ At(p, "fork") /\ node[p].k = Forks(node[p])
    /\ Child(p, "inline")
    /\ UNCHANGED <<chosen, shared, died>>

(*************************************************************************)
(* What a leaf does.  A block of a sum or of a for_each touches nothing  *)
(* that others touch, and is one step.                                   *)
(*************************************************************************)
Accumulate(p) ==
    /\ At(p, "leaf") /\ list.does = "sum"
    /\ IF Throwing(node[p]) # {} THEN Throw(p)
       ELSE /\ Return(p, Value(node[p].init \o UpTo(node[p].lo, node[p].hi)))
            /\ UNCHANGED died
    /\ UNCHANGED <<chosen, shared>>

\* f is applied up to the first element for which it throws.
ForEach(p) ==
    /\ At(p, "leaf") /\ list.does = "each"
    /\ cell' = [e \in DOMAIN cell |->
                   IF e \in Span(node[p]) /\ \A d \in Throwing(node[p]) : e < d
                   THEN Append(cell[e], "f") ELSE cell[e]]
    /\ IF Throwing(node[p]) # {} THEN Throw(p)
       ELSE Return(p, Value(<<>>)) /\ UNCHANGED died
    /\ UNCHANGED <<chosen, promise, done>>

Looking(p) == At(p, "leaf") /\ list.does = "find"
Finished(p) == done \/ node[p].lo + node[p].k = node[p].hi
LookedAt(p) == node[p].lo + node[p].k

\* The loop ends: nothing found here, or somebody else has set the flag.
GiveUp(p) ==
    /\ Looking(p) /\ Finished(p)
    /\ Return(p, Value(node[p].hi))
    /\ UNCHANGED <<chosen, shared, died>>

NextElement(p) ==
    /\ Looking(p) /\ ~ Finished(p) /\ outcome[LookedAt(p)] = "plain"
    /\ node' = [node EXCEPT ![p].k = @ + 1]
    /\ UNCHANGED <<chosen, shared, died>>

\* Mutant of Decide: what the second set_value throws is not caught.
DecideUncaught(p) ==
    /\ Looking(p) /\ ~ Halves /\ ~ Finished(p) /\ outcome[LookedAt(p)] # "plain"
    /\ IF promise[0] = None
       THEN /\ promise' = [promise EXCEPT ![0] = Value(LookedAt(p))]
            /\ Go(p, "flag") /\ UNCHANGED died
       ELSE Throw(p) /\ UNCHANGED promise
    /\ UNCHANGED <<chosen, cell, done>>

\* set_value or set_exception; the second one throws, and that is caught.
Decide(p) ==
    /\ Looking(p) /\ ~ Halves /\ ~ Finished(p) /\ outcome[LookedAt(p)] # "plain"
    /\ IF promise[0] = None
       THEN /\ promise' = [promise EXCEPT ![0] = IF outcome[LookedAt(p)] = "match"
                                                 THEN Value(LookedAt(p)) ELSE Exception]
            /\ Go(p, "flag")
       ELSE Return(p, None) /\ UNCHANGED promise
    /\ UNCHANGED <<chosen, cell, done, died>>

SetFlag(p) ==
    /\ At(p, "flag")
    /\ done' = TRUE
    /\ Return(p, None)
    /\ UNCHANGED <<chosen, cell, promise, died>>

\* The same in list 8.10: done is set, and the result is returned or thrown.
DecideAsync(p) ==
    /\ Looking(p) /\ Halves /\ ~ Finished(p) /\ outcome[LookedAt(p)] # "plain"
    /\ done' = TRUE
    /\ Return(p, IF outcome[LookedAt(p)] = "match" THEN Value(LookedAt(p)) ELSE Exception)
    /\ UNCHANGED <<chosen, cell, promise, died>>

(*************************************************************************)
(* A chunk of list 8.11.  An addition throws at any phase, if at all.    *)
(*************************************************************************)
MayThrow(es)  == IF \E e \in es : outcome[e] = "throws" THEN BOOLEAN ELSE {FALSE}
HasNext(p)    == Last(p) < blocks             \* end_value is not null
Prefixed(p, es, s) == [e \in DOMAIN cell |-> IF e \in es THEN s \o cell[e] ELSE cell[e]]

\* std::partial_sum(begin, end, begin)
SumChunk(p) ==
    /\ p # Root /\ At(p, "leaf") /\ list.does = "prefix"
    /\ \E throws \in MayThrow(Span(node[p])) :
           IF throws THEN Go(p, "fail") /\ UNCHANGED cell
           ELSE /\ cell' = [e \in DOMAIN cell |-> IF e \in Span(node[p])
                                                 THEN UpTo(node[p].lo, e + 1) ELSE cell[e]]
                /\ Go(p, IF Last(p) > 1 THEN "wait" ELSE IF HasNext(p) THEN "set" ELSE "end")
    /\ UNCHANGED <<chosen, promise, done, died>>

\* previous_end_value->get(), and the addition to *last
AddToLast(p) ==
    /\ At(p, "wait") /\ promise[Last(p) - 1] # None
    /\ \E throws \in MayThrow({node[p].hi - 1}) :
           IF throws \/ promise[Last(p) - 1] = Exception
           THEN Go(p, "fail") /\ UNCHANGED cell
           ELSE /\ cell' = Prefixed(p, {node[p].hi - 1}, promise[Last(p) - 1].of)
                /\ Go(p, IF HasNext(p) THEN "set" ELSE "rest")
    /\ UNCHANGED <<chosen, promise, done, died>>

SetEndValue(p) ==
    /\ At(p, "set")
    /\ promise' = [promise EXCEPT ![Last(p)] = Value(cell[node[p].hi - 1])]
    /\ Go(p, IF Last(p) > 1 THEN "rest" ELSE "end")
    /\ UNCHANGED <<chosen, cell, done, died>>

\* The for_each over the others.
AddToRest(p) ==
    /\ At(p, "rest")
    /\ \E throws \in MayThrow(Span(node[p]) \ {node[p].hi - 1}) :
           IF throws THEN Go(p, "fail") /\ UNCHANGED cell
           ELSE /\ cell' = Prefixed(p, Span(node[p]) \ {node[p].hi - 1},
                                    promise[Last(p) - 1].of)
                /\ Go(p, "end")
    /\ UNCHANGED <<chosen, promise, done, died>>

EndChunk(p) ==
    /\ At(p, "end")
    /\ Return(p, Value(<<>>))
    /\ UNCHANGED <<chosen, shared, died>>

\* Mutant of Fail: the exception is not passed on to the next chunk.
FailQuietly(p) ==
    /\ At(p, "fail")
    /\ IF HasNext(p) THEN Return(p, Value(<<>>)) /\ UNCHANGED died ELSE Throw(p)
    /\ UNCHANGED <<chosen, shared>>

\* The handler: the exception goes to the next chunk, unless end_value has been set:
\* set_exception throws then, out of the thread.  The last chunk rethrows.
Fail(p) ==
    /\ At(p, "fail")
    /\ IF HasNext(p) /\ promise[Last(p)] = None
       THEN /\ promise' = [promise EXCEPT ![Last(p)] = Exception]
            /\ Return(p, Value(<<>>)) /\ UNCHANGED died
       ELSE Throw(p) /\ UNCHANGED promise
    /\ UNCHANGED <<chosen, cell, done>>

(*************************************************************************)
(* Collecting the results.                                               *)
(*************************************************************************)
ThreadExits(p) ==
    /\ At(p, "ready")
    /\ node' = [node EXCEPT ![p].st = "ended"]
    /\ UNCHANGED <<chosen, shared, died>>

\* The inline part has returned or thrown.
OwnPartDone(p) ==
    /\ At(p, "own") /\ Ended(InlineKid(p))
    /\ IF node[InlineKid(p)].res = Exception THEN Leave(p, Exception)
       ELSE Go(p, IF list.join = "loop" THEN "join" ELSE "get")
    /\ UNCHANGED <<chosen, shared, died>>

\* Mutant of Join: the last thread is not joined.
JoinAllButOne(p) ==
    /\ At(p, "join") /\ \A q \in KidThreads(p) : Last(q) < blocks - 1 => Ended(q)
    /\ node' = [node EXCEPT ![p].st = "get", ![p].joined = TRUE]
    /\ UNCHANGED <<chosen, shared, died>>

\* std::for_each(threads.begin(), threads.end(), std::mem_fn(&std::thread::join))
Join(p) ==
    /\ At(p, "join") /\ \A q \in KidThreads(p) : Ended(q)
    /\ node' = [node EXCEPT ![p].st = "get", ![p].joined = TRUE]
    /\ UNCHANGED <<chosen, shared, died>>

Gets(p) == At(p, "get") /\ list.does \in {"sum", "each"}

\* futures[i].get(), or results[i] once the threads have been joined
GetPart(p) ==
    /\ Gets(p) /\ node[p].k < Forks(node[p])
    /\ LET part == Kid(p, node[p].k + 1)
       IN  /\ part.st \in {"ready", "ended"}
           /\ IF part.res = Exception THEN Leave(p, Exception)
              ELSE node' = [node EXCEPT ![p].k = @ + 1]
    /\ UNCHANGED <<chosen, shared, died>>

\* The parts are added in order, to init where it was not given to a half.
Total(p) ==
    LET part == [i \in 1 .. Forks(node[p]) + 1 |-> Kid(p, i).res.of]
    IN  (IF Halves THEN <<>> ELSE node[p].init) \o FlattenSeq(part)

AllGot(p) ==
    /\ Gets(p) /\ node[p].k = Forks(node[p])
    /\ Leave(p, Value(Total(p)))
    /\ UNCHANGED <<chosen, shared, died>>

\* List 8.11 has no result; an empty range is not divided.
NothingToGet(p) ==
    /\ list.does = "prefix" /\ (At(p, "get") \/ (p = Root /\ At(p, "leaf")))
    /\ Leave(p, Value(<<>>))
    /\ UNCHANGED <<chosen, shared, died>>

\* List 8.9: done_flag is tested while the others may still be looking.
TestFlag(p) ==
    /\ At(p, "get") /\ list.does = "find" /\ ~ Halves
    /\ Leave(p, IF done THEN promise[0] ELSE Value(node[p].hi))
    /\ UNCHANGED <<chosen, shared, died>>

\* Mutant of Choose: the half given to std::async is not asked.
ChooseDirect(p) ==
    /\ At(p, "get") /\ list.does = "find" /\ Halves
    /\ Leave(p, IF InGet(p, 1) THEN Value(node[p].hi) ELSE node[InlineKid(p)].res)
    /\ UNCHANGED <<chosen, shared, died>>

\* List 8.10: direct_result == mid_point ? async_result.get() : direct_result
Choose(p) ==
    /\ At(p, "get") /\ list.does = "find" /\ Halves
    /\ IF ~ InGet(p, 1) THEN Leave(p, node[InlineKid(p)].res)
       ELSE Kid(p, 1).st \in {"ready", "ended"} /\ Leave(p, Kid(p, 1).res)
    /\ UNCHANGED <<chosen, shared, died>>

\* The locals are destroyed: joiner, or the future of std::async, waits for the
\* threads; a std::thread that is still joinable calls std::terminate.
Depart(p) ==
    /\ At(p, "leave")
    /\ IF list.join = "destructor"
       THEN (\A q \in KidThreads(p) : Ended(q)) /\ Return(p, node[p].res) /\ UNCHANGED died
       ELSE IF KidThreads(p) = {} \/ node[p].joined
            THEN Return(p, node[p].res) /\ UNCHANGED died
            ELSE died' = TRUE /\ UNCHANGED node
    \* catch (...) { done = true; throw; }
    /\ done' = (done \/ (list = List8_10 /\ node[p].res = Exception))
    /\ UNCHANGED <<chosen, cell, promise>>

NodeStep(p) ==
    \/ Fork(p) \/ ForkFails(p) \/ CallInline(p)
    \/ Accumulate(p) \/ ForEach(p)
    \/ GiveUp(p) \/ NextElement(p) \/ Decide(p) \/ SetFlag(p) \/ DecideAsync(p)
    \/ SumChunk(p) \/ AddToLast(p) \/ SetEndValue(p) \/ AddToRest(p) \/ EndChunk(p) \/ Fail(p)
    \/ ThreadExits(p) \/ OwnPartDone(p) \/ Join(p) \/ GetPart(p) \/ AllGot(p)
    \/ NothingToGet(p) \/ TestFlag(p) \/ Choose(p) \/ Depart(p)

Next == \E p \in DOMAIN node : NodeStep(p)

Spec == Init /\ [][Next]_joinVars

\* Every thread runs on; nothing here waits for anything but the others.
FairSpec == Spec /\ WF_joinVars(Next)

(*************************************************************************)
(* Properties                                                            *)
(*************************************************************************)
Over     == Ended(Root)
Returned == Over /\ node[Root].res # Exception
Result   == node[Root].res.of
Elements == 0 .. length - 1

\* A call of the sums, of for_each and of partial_sum that returns has done what the
\* sequential algorithm does: the sum is made from init and the elements in their order,
\* f has been applied to each element once, and no exception of theirs got lost; the
\* prefix sums are complete.  The finds promise less.  An element they return matches,
\* list 8.10 reports none missing that is there and none that throws; but list 8.9 may
\* (FindsWhatIsThere), and either may return a match while another block throws.
ReturnsTheSequentialResult ==
    Returned =>
        CASE list.does = "sum"    -> Result = <<"init">> \o UpTo(0, length) /\ Throwing(node[Root]) = {}
          [] list.does = "each"   -> \A e \in Elements : cell[e] = <<e, "f">> /\ outcome[e] # "throws"
          [] list.does = "prefix" -> \A e \in Elements : cell[e] = UpTo(0, e + 1)
          [] list.does = "find"   -> IF Result < length THEN outcome[Result] = "match"
                                     ELSE Halves => \A e \in Elements : outcome[e] = "plain"

\* No thread outlives the call: it works on the caller's locals.  That includes the
\* calls that end by an exception.
NoThreadOutlivesTheCall ==
    Over => \A p \in DOMAIN node : node[p].by = "thread" => Ended(p)

\* The program is ended only by list 8.7, which never joins, by the lists that have no
\* guard, when something throws while threads run, and by list 8.11 when an addition
\* throws after the chunk's end value was set.
DiesOnlyUnguarded ==
    died => \/ list.join = "nobody"
            \/ list.join = "loop" /\ (Throwing(node[Root]) # {} \/ node[Root].res = Exception)
            \/ list.does = "prefix" /\ \E p \in DOMAIN node \ {Root} :
                   node[p].st = "fail" /\ promise[Last(p)] # None

\* Part i of activation p has told its future what it came to.
Told(p, i) == Kid(p, i).st \in {"ready", "ended"}

\* Activation p has a step to take: it waits for nothing, or what it waits for is there.
CanGo(p) ==
    /\ node[p].by = "deferred" => InGet(Front(p), Last(p))
    /\ \/ node[p].st \in {"fork", "leaf", "flag", "set", "rest", "end", "fail", "ready"}
       \/ node[p].st = "wait" /\ promise[Last(p) - 1] # None
       \/ node[p].st = "own" /\ Ended(InlineKid(p))
       \/ node[p].st = "join" /\ \A q \in KidThreads(p) : Ended(q)
       \/ /\ node[p].st = "get"
          /\ list.does \in {"sum", "each"} =>
                 \/ node[p].k = Forks(node[p])
                 \/ node[p].k < Forks(node[p]) /\ Told(p, node[p].k + 1)
          /\ list.does = "find" /\ Halves /\ InGet(p, 1) => Told(p, 1)
       \/ /\ node[p].st = "leave"
          /\ list.join = "destructor" => \A q \in KidThreads(p) : Ended(q)

\* Until a call is over somebody can go on: nobody is left to wait for an end value that
\* nobody will set, for threads that wait in turn, or for a part that was deferred.
CallGoesOn == died \/ Over \/ \E p \in DOMAIN node : CanGo(p)

\* Every call comes to its end, with a result, an exception or the end of the program.
CallEnds == <>(died \/ Over)

\* A match that is there is found, when it is the only one and nothing throws: a call
\* that returns last has "Not found match" (the comment where list 8.9 returns it).
FindsWhatIsThere ==
    Returned /\ list.does = "find" /\ (\A e \in Elements : outcome[e] # "throws") =>
        \A e \in Elements : {d \in Elements : outcome[d] = "match"} = {e} => Result = e
=============================================================================
