----------------------- MODULE ThreadsafeQueueProofs -----------------------
(***************************************************************************)
(* What ThreadsafeQueue guarantees for every set of threads and values and *)
(* every bound: nothing is lost, doubled or overtaken; no thread sleeps on *)
(* a queue that holds something; and the class implements FifoQueue.       *)
(***************************************************************************)
EXTENDS ThreadsafeQueue, SequenceTheorems, FiniteSetTheorems, TLAPS

Takes == [by : Threads, val : Values]

-----------------------------------------------------------------------------
(* Facts about sequences.                                                *)

\* The values of a sequence of takes are a sequence of values as long.
LEMMA ValuesOfTakes ==
    ASSUME NEW s \in Seq(Takes)
    PROVE  /\ [i \in DOMAIN s |-> s[i].val] \in Seq(Values)
           /\ Len([i \in DOMAIN s |-> s[i].val]) = Len(s)
  <1> DEFINE vals == [i \in DOMAIN s |-> s[i].val]
             n    == Len(s)
  <1>1. n \in Nat /\ DOMAIN s = 1 .. n /\ s \in [1 .. n -> Takes]
    BY LenProperties
  <1>2. \A i \in 1 .. n : s[i].val \in Values
    BY <1>1 DEF Takes
  <1>3. vals \in [1 .. n -> Values]
    BY <1>1, <1>2
  <1>4. vals \in Seq(Values)
    BY <1>1, <1>3, SeqDef
  <1>5. Len(vals) = n
    BY <1>1, <1>3, <1>4, LenProperties
  <1> QED
    BY <1>4, <1>5

\* Recording one more take records one more value.
LEMMA ValuesOfAppend ==
    ASSUME NEW s \in Seq(Takes), NEW e \in Takes
    PROVE  [i \in DOMAIN Append(s, e) |-> Append(s, e)[i].val]
             = Append([i \in DOMAIN s |-> s[i].val], e.val)
  <1> DEFINE vals == [i \in DOMAIN s |-> s[i].val]
             l    == [i \in DOMAIN Append(s, e) |-> Append(s, e)[i].val]
  <1>1. vals \in Seq(Values) /\ Len(vals) = Len(s)
    BY ValuesOfTakes
  <1>2. e.val \in Values
    BY DEF Takes
  <1>3. Append(s, e) \in Seq(Takes) /\ Len(Append(s, e)) = Len(s) + 1
    BY AppendProperties
  <1>4. l \in Seq(Values) /\ Len(l) = Len(s) + 1
    <2> HIDE DEF l
    <2>1. l \in Seq(Values) /\ Len(l) = Len(Append(s, e))
      BY <1>3, ValuesOfTakes DEF l
    <2> QED
      BY <2>1, <1>3
  <1>5. Append(vals, e.val) \in Seq(Values) /\ Len(Append(vals, e.val)) = Len(s) + 1
    BY <1>1, <1>2, AppendProperties
  <1>6. ASSUME NEW i \in 1 .. Len(s) + 1
        PROVE  l[i] = Append(vals, e.val)[i]
    <2>1. CASE i \in 1 .. Len(s)
      BY <2>1, <1>1, <1>3
    <2>2. CASE i = Len(s) + 1
      BY <2>2, <1>1, <1>3
    <2> QED
      BY <2>1, <2>2
  <1> QED
    BY <1>4, <1>5, <1>6, SeqEqual

\* Moving the head of one sequence to the end of another leaves what they
\* spell, one after the other, unchanged.
LEMMA MoveHead ==
    ASSUME NEW S, NEW s \in Seq(S), NEW d \in Seq(S), d # <<>>
    PROVE  Append(s, Head(d)) \o Tail(d) = s \o d
  <1>1. Head(d) \in S /\ Tail(d) \in Seq(S) /\ Len(Tail(d)) = Len(d) - 1
        /\ \A i \in 1 .. Len(Tail(d)) : Tail(d)[i] = d[i + 1]
    BY HeadTailProperties
  <1>2. Len(d) \in Nat \ {0} /\ Head(d) = d[1]
    BY EmptySeq, LenProperties
  <1>3. Append(s, Head(d)) \in Seq(S) /\ Len(Append(s, Head(d))) = Len(s) + 1
    BY <1>1, AppendProperties
  <1>4. /\ Append(s, Head(d)) \o Tail(d) \in Seq(S)
        /\ Len(Append(s, Head(d)) \o Tail(d)) = Len(s) + Len(d)
    BY <1>1, <1>2, <1>3, ConcatProperties
  <1>5. s \o d \in Seq(S) /\ Len(s \o d) = Len(s) + Len(d)
    BY ConcatProperties
  <1>6. ASSUME NEW i \in 1 .. Len(s) + Len(d)
        PROVE  (Append(s, Head(d)) \o Tail(d))[i] = (s \o d)[i]
    BY <1>1, <1>2, <1>3
  <1> QED
    BY <1>4, <1>5, <1>6, SeqEqual

-----------------------------------------------------------------------------
(* The inductive invariant.  Apart from the types, counting wake-ups needs *)
(* to know that whoever sleeps is in a blocking pop.                       *)

SleepersPop == \A w \in Sleepers : call[w].op \in BlockingOps

IInv == TypeOK /\ ExactlyOnceInOrder /\ NoStrandedWaiter /\ SleepersPop /\ WakeUpPerValue

\* What the proofs use of the five classes.
LEMMA ClassFacts ==
    ASSUME NEW c \in Classes
    PROVE  /\ c.leaves \subseteq PopOps
           /\ c.notifies \in {"all", "one", "after"}
           /\ c.notifies = "one" => c.leaves = {}
  BY ClassesAssumption
  DEF Common, List4_1, List4_5, List6_2, List6_3, PopOps, TryOps, BlockingOps

\* A push in a thread's body has a value to push.
LEMMA PushHasValue ==
    ASSUME TypeOK, NEW t \in Threads, InBody(t, {"push"})
    PROVE  call[t].val \in Values
  <1>1. call[t] \in Calls \cup {NoCall} /\ call[t].op = "push"
    BY DEF TypeOK, InBody
  <1> QED
    BY <1>1 DEF Calls, NoCall, Ops, PopOps, TryOps, BlockingOps

\* What push does to the other threads: it wakes sleepers, all of them or one.
LEMMA PushWakes ==
    ASSUME TypeOK, NEW t \in Threads, Push(t)
    PROVE  \E W \in SUBSET Sleepers :
              /\ pc' = [u \in Threads |-> IF u = t THEN "unlock"
                                          ELSE IF u \in W THEN "lock" ELSE pc[u]]
              /\ class.notifies = "all" => W = Sleepers
              /\ class.notifies = "one" /\ Sleepers # {} => \E w \in Sleepers : W = {w}
  <1>1. PICK W \in Notified : Wake(W, t, "unlock")
    BY DEF Push
  <1>2. class.notifies \in {"all", "one", "after"}
    BY ClassFacts DEF TypeOK
  <1>3. /\ W \subseteq Sleepers
        /\ class.notifies = "all" => W = Sleepers
        /\ class.notifies = "one" /\ Sleepers # {} => \E w \in Sleepers : W = {w}
    BY <1>1, <1>2 DEF Notified
  <1> QED
    BY <1>1, <1>3 DEF Wake

\* The types are preserved, one step per action.
LEMMA TypeStep == TypeOK /\ [Next]_vars => TypeOK'
  <1> SUFFICES ASSUME TypeOK, [Next]_vars PROVE TypeOK'
    OBVIOUS
  <1> USE DEF TypeOK, PCs, counters, history, Goto
  <1>1. ASSUME NEW t \in Threads, NEW c \in Calls, Call(t, c) PROVE TypeOK'
    BY <1>1 DEF Call
  <1>2. ASSUME NEW t \in Threads, SpuriousWake(t) PROVE TypeOK'
    BY <1>2 DEF SpuriousWake
  <1>3. ASSUME NEW t \in Threads, Lock(t) PROVE TypeOK'
    BY <1>3 DEF Lock
  <1>4. ASSUME NEW t \in Threads, Push(t) PROVE TypeOK'
    <2>1. call[t].val \in Values
      BY <1>4, PushHasValue DEF Push
    <2>2. data' \in Seq(Values) /\ pushed' \in Seq(Values)
      BY <1>4, <2>1, AppendProperties DEF Push
    <2>3. pc' \in [Threads -> PCs]
      BY <1>4, PushWakes
    <2> QED
      BY <1>4, <2>2, <2>3 DEF Push
  <1>5. ASSUME NEW t \in Threads, Wait(t) PROVE TypeOK'
    BY <1>5 DEF Wait
  <1>6. ASSUME NEW t \in Threads, TakeFront(t) \/ LeaveFront(t) PROVE TypeOK'
    <2>1. Head(data) \in Values /\ Tail(data) \in Seq(Values)
      BY <1>6, HeadTailProperties DEF TakeFront, LeaveFront
    <2>2. popped' \in Seq(Takes)
      <3>1. [by |-> t, val |-> Head(data)] \in Takes
        BY <2>1 DEF Takes
      <3>2. popped' = Append(popped, [by |-> t, val |-> Head(data)])
        BY <1>6 DEF TakeFront, LeaveFront
      <3>3. popped \in Seq(Takes)
        BY DEF Takes
      <3> QED
        BY <3>1, <3>2, <3>3, AppendProperties
    <2>3. left' \in BOOLEAN /\ threw' \in Nat
      BY <1>6 DEF TakeFront, LeaveFront
    <2> QED
      BY <1>6, <2>1, <2>2, <2>3 DEF TakeFront, LeaveFront, Takes
  <1>7. ASSUME NEW t \in Threads, LookOnly(t) PROVE TypeOK'
    BY <1>7 DEF LookOnly
  <1>8. ASSUME NEW t \in Threads, AllocFails(t) PROVE TypeOK'
    BY <1>8 DEF AllocFails
  <1>9. ASSUME NEW t \in Threads, Unlock(t) PROVE TypeOK'
    BY <1>9 DEF Unlock
  <1>10. ASSUME NEW t \in Threads, NotifyAfter(t) PROVE TypeOK'
    BY <1>10 DEF NotifyAfter, Wake
  <1>11. CASE UNCHANGED vars
    BY <1>11 DEF vars
  <1> QED
    BY <1>1, <1>2, <1>3, <1>4, <1>5, <1>6, <1>7, <1>8, <1>9, <1>10, <1>11
    DEF Next, Step

\* Only Push and TakeFront touch what ExactlyOnceInOrder speaks of, and
\* LeaveFront, after which it says nothing.
LEMMA OrderStep == TypeOK /\ ExactlyOnceInOrder /\ [Next]_vars => ExactlyOnceInOrder'
  <1> SUFFICES ASSUME TypeOK, ExactlyOnceInOrder, [Next]_vars, ~left'
               PROVE  (pushed = PoppedValues \o data)'
    BY DEF ExactlyOnceInOrder
  <1>0. /\ popped \in Seq(Takes) /\ data \in Seq(Values)
        /\ PoppedValues \in Seq(Values)
    BY ValuesOfTakes DEF TypeOK, Takes, PoppedValues
  <1>1. ASSUME NEW t \in Threads, Push(t), ~left PROVE (pushed = PoppedValues \o data)'
    <2>1. call[t].val \in Values
      BY <1>1, PushHasValue DEF Push
    <2>2. PoppedValues' = PoppedValues
      BY <1>1 DEF Push, PoppedValues
    <2>3. Append(PoppedValues \o data, call[t].val)
            = PoppedValues \o Append(data, call[t].val)
      <3>1. PoppedValues \o data \in Seq(Values)
        BY <1>0, ConcatProperties
      <3>2. <<call[t].val>> \in Seq(Values)
        BY <2>1
      <3>3. Append(PoppedValues \o data, call[t].val)
              = (PoppedValues \o data) \o <<call[t].val>>
        BY <3>1, <2>1, AppendIsConcat
      <3>4. Append(data, call[t].val) = data \o <<call[t].val>>
        BY <1>0, <2>1, AppendIsConcat
      <3> QED
        BY <3>2, <3>3, <3>4, <1>0, ConcatAssociative
    <2> QED
      BY <1>1, <2>2, <2>3 DEF Push, ExactlyOnceInOrder
  <1>2. ASSUME NEW t \in Threads, TakeFront(t), ~left PROVE (pushed = PoppedValues \o data)'
    <2>1. data # <<>> /\ data' = Tail(data) /\ pushed' = pushed
      BY <1>2 DEF TakeFront
    <2>2. Head(data) \in Values
      BY <2>1, <1>0, HeadTailProperties
    <2>3. PoppedValues' = Append(PoppedValues, Head(data))
      BY <1>2, <1>0, <2>2, ValuesOfAppend DEF TakeFront, PoppedValues, Takes
    <2> QED
      BY <1>2, <2>1, <2>3, <1>0, MoveHead DEF ExactlyOnceInOrder
  <1>3. CASE UNCHANGED <<data, pushed, popped, left>>
    BY <1>3 DEF ExactlyOnceInOrder, PoppedValues
  <1>4. ASSUME NEW t \in Threads, LeaveFront(t) PROVE FALSE
    BY <1>4 DEF LeaveFront
  <1>5. ASSUME NEW t \in Threads, Push(t) \/ TakeFront(t) PROVE ~left
    BY <1>5 DEF Push, TakeFront
  <1> QED
    BY <1>1, <1>2, <1>3, <1>4, <1>5
    DEF Next, Step, vars, Call, SpuriousWake, Lock, Wait, LookOnly, AllocFails,
        Unlock, NotifyAfter, history

\* A thread falls asleep on an empty queue only; a push wakes everybody, at once
\* or, in list 4.1, before it returns.
LEMMA WaiterStep == TypeOK /\ NoStrandedWaiter /\ [Next]_vars => NoStrandedWaiter'
  <1> SUFFICES ASSUME TypeOK, NoStrandedWaiter, [Next]_vars, class'.notifies # "one",
                      NEW w \in Threads, pc'[w] = "waiting"
               PROVE  (data = <<>> \/ \E t \in Threads : WillNotify(t))'
    BY DEF NoStrandedWaiter, Sleepers
  <1> DEFINE Good == data = <<>> \/ \E t \in Threads : WillNotify(t)
  <1> USE DEF TypeOK, Goto
  <1>0. class' = class /\ class.notifies \in {"all", "after"}
    <2>1. class' = class
      BY DEF Next, Step, vars, Call, SpuriousWake, Lock, Push, Wait, TakeFront, LeaveFront,
             LookOnly, AllocFails, Unlock, NotifyAfter
    <2> QED
      BY <2>1, ClassFacts
  <1>1. ASSUME NEW t \in Threads, Push(t) PROVE Good'
    <2>1. class.notifies = "after"
      BY <1>0, <1>1, PushWakes DEF Sleepers
    <2>2. pc'[t] = "unlock" /\ call'[t].op = "push"
      BY <1>1, PushWakes DEF Push, InBody
    <2> QED
      BY <1>0, <2>1, <2>2 DEF WillNotify
  <1>2. ASSUME NEW t \in Threads, Wait(t) PROVE Good'
    BY <1>2 DEF Wait
  <1>3. ASSUME NEW t \in Threads, NotifyAfter(t) PROVE FALSE
    BY <1>3 DEF NotifyAfter, Wake, Sleepers
  <1>4. ASSUME pc[w] = "waiting", data = <<>> => data' = <<>>,
               \A u \in Threads : WillNotify(u) => WillNotify(u)'
        PROVE  Good'
    BY <1>0, <1>4 DEF NoStrandedWaiter, Sleepers
  <1>5. ASSUME NEW t \in Threads, NEW c \in Calls, Call(t, c)
        PROVE  /\ pc[w] = "waiting" /\ data' = data
               /\ \A u \in Threads : WillNotify(u) => WillNotify(u)'
    BY <1>0, <1>5 DEF Call, WillNotify
  <1>6. ASSUME NEW t \in Threads, SpuriousWake(t) \/ Lock(t) \/ LookOnly(t) \/ AllocFails(t)
        PROVE  /\ pc[w] = "waiting" /\ data' = data
               /\ \A u \in Threads : WillNotify(u) => WillNotify(u)'
    BY <1>0, <1>6 DEF SpuriousWake, Lock, LookOnly, AllocFails, WillNotify, InBody
  <1>7. ASSUME NEW t \in Threads, TakeFront(t) \/ LeaveFront(t)
        PROVE  /\ pc[w] = "waiting" /\ data # <<>>
               /\ \A u \in Threads : WillNotify(u) => WillNotify(u)'
    BY <1>0, <1>7 DEF TakeFront, LeaveFront, WillNotify, InBody
  <1>8. ASSUME NEW t \in Threads, Unlock(t)
        PROVE  /\ pc[w] = "waiting" /\ data' = data
               /\ \A u \in Threads : WillNotify(u) => WillNotify(u)'
    BY <1>0, <1>8 DEF Unlock, WillNotify
  <1>9. CASE UNCHANGED vars
    BY <1>0, <1>9, <1>4 DEF vars, WillNotify
  <1> QED
    BY <1>1, <1>2, <1>3, <1>4, <1>5, <1>6, <1>7, <1>8, <1>9 DEF Next, Step

\* Only blocking pops wait, and a call is not replaced while it sleeps.
LEMMA SleeperStep == TypeOK /\ SleepersPop /\ [Next]_vars => SleepersPop'
  <1> SUFFICES ASSUME TypeOK, SleepersPop, [Next]_vars, NEW w \in Threads, pc'[w] = "waiting"
               PROVE  call'[w].op \in BlockingOps
    BY DEF SleepersPop, Sleepers
  <1> USE DEF TypeOK, Goto
  <1>1. ASSUME NEW t \in Threads, Push(t) PROVE pc[w] = "waiting" /\ call' = call
    BY <1>1, PushWakes DEF Push
  <1>2. ASSUME NEW t \in Threads, Wait(t)
        PROVE  call' = call /\ (pc[w] = "waiting" \/ call[w].op \in BlockingOps)
    BY <1>2 DEF Wait, InBody
  <1>3. ASSUME NEW t \in Threads, NotifyAfter(t) PROVE FALSE
    BY <1>3 DEF NotifyAfter, Wake, Sleepers
  <1>4. ASSUME NEW t \in Threads, NEW c \in Calls, Call(t, c)
        PROVE  pc[w] = "waiting" /\ call'[w] = call[w]
    BY <1>4 DEF Call
  <1>5. ASSUME NEW t \in Threads,
               SpuriousWake(t) \/ Lock(t) \/ LookOnly(t) \/ TakeFront(t) \/ LeaveFront(t)
        PROVE  pc[w] = "waiting" /\ call'[w] = call[w]
    BY <1>5 DEF SpuriousWake, Lock, LookOnly, TakeFront, LeaveFront
  <1>6. ASSUME NEW t \in Threads, AllocFails(t) \/ Unlock(t)
        PROVE  pc[w] = "waiting" /\ call'[w] = call[w]
    BY <1>6 DEF AllocFails, Unlock
  <1>7. CASE UNCHANGED vars
    BY <1>7 DEF vars, SleepersPop, Sleepers
  <1> QED
    BY <1>1, <1>2, <1>3, <1>4, <1>5, <1>6, <1>7 DEF Next, Step, SleepersPop, Sleepers

\* The size of Poppers when a step changes it by at most one thread.
LEMMA PoppersSize ==
    ASSUME TypeOK, TypeOK'
    PROVE  /\ Cardinality(Poppers) \in Nat /\ Cardinality(Poppers') \in Nat
           /\ Poppers \subseteq Poppers' => Cardinality(Poppers) <= Cardinality(Poppers')
           /\ \A t \in Threads \ Poppers : Poppers \cup {t} \subseteq Poppers'
                 => Cardinality(Poppers) + 1 <= Cardinality(Poppers')
           /\ \A t \in Poppers : Poppers \ {t} \subseteq Poppers'
                 => Cardinality(Poppers) - 1 <= Cardinality(Poppers')
  <1> DEFINE P == Poppers
             Q == Poppers'
  <1>1. P \subseteq Threads /\ Q \subseteq Threads
    BY DEF Poppers
  <1> HIDE DEF P, Q
  <1>2. IsFiniteSet(P) /\ IsFiniteSet(Q)
    BY <1>1, ThreadsAssumption, FS_Subset
  <1>3. Cardinality(P) \in Nat /\ Cardinality(Q) \in Nat
    BY <1>2, FS_CardinalityType
  <1>4. P \subseteq Q => Cardinality(P) <= Cardinality(Q)
    BY <1>2, FS_Subset
  <1>5. ASSUME NEW t \in Threads \ P, P \cup {t} \subseteq Q
        PROVE  Cardinality(P) + 1 <= Cardinality(Q)
    <2>1. Cardinality(P \cup {t}) = Cardinality(P) + 1
      BY <1>2, <1>5, FS_AddElement
    <2>2. Cardinality(P \cup {t}) <= Cardinality(Q)
      BY <1>2, <1>5, FS_Subset
    <2> QED
      BY <2>1, <2>2
  <1>6. ASSUME NEW t \in P, P \ {t} \subseteq Q
        PROVE  Cardinality(P) - 1 <= Cardinality(Q)
    <2>1. Cardinality(P \ {t}) = Cardinality(P) - 1
      BY <1>2, <1>6, FS_RemoveElement
    <2>2. Cardinality(P \ {t}) <= Cardinality(Q)
      BY <1>2, <1>6, FS_Subset
    <2> QED
      BY <2>1, <2>2
  <1> QED
    BY <1>3, <1>4, <1>5, <1>6 DEF P, Q

\* A value added wakes a sleeper; a value taken costs one popper at most; and
\* a popper that leaves without a value has thrown, and is counted.
LEMMA WakeUpStep ==
    TypeOK /\ SleepersPop /\ WakeUpPerValue /\ [Next]_vars => WakeUpPerValue'
  <1> SUFFICES ASSUME TypeOK, SleepersPop, WakeUpPerValue, [Next]_vars,
                      Sleepers' # {}, class'.notifies = "one"
               PROVE  Len(data') <= Cardinality(Poppers') + threw'
    BY DEF WakeUpPerValue
  <1>0. class' = class /\ class.notifies = "one" /\ TypeOK'
    <2>1. class' = class
      BY DEF Next, Step, vars, Call, SpuriousWake, Lock, Push, Wait, TakeFront, LeaveFront,
             LookOnly, AllocFails, Unlock, NotifyAfter
    <2> QED
      BY <2>1, TypeStep
  <1>1. data \in Seq(Values) /\ Len(data) \in Nat
    BY LenProperties DEF TypeOK
  <1>2. Sleepers # {} => Len(data) <= Cardinality(Poppers) + threw
    BY <1>0 DEF WakeUpPerValue
  <1> USE DEF TypeOK, Goto
  <1>3. ASSUME NEW t \in Threads, Push(t) PROVE Len(data') <= Cardinality(Poppers') + threw'
    <2>1. PICK W \in SUBSET Sleepers :
             /\ pc' = [u \in Threads |-> IF u = t THEN "unlock"
                                         ELSE IF u \in W THEN "lock" ELSE pc[u]]
             /\ Sleepers # {} => \E w \in Sleepers : W = {w}
      BY <1>0, <1>3, PushWakes
    <2>2. Sleepers' \subseteq Sleepers
      BY <2>1 DEF Sleepers
    <2>3. PICK w \in Sleepers : W = {w}
      BY <2>1, <2>2
    <2>4. w \in Threads \ Poppers /\ Poppers \cup {w} \subseteq Poppers'
      <3>1. call' = call /\ call[t].op = "push"
        BY <1>3 DEF Push, InBody
      <3>2. w # t /\ call[w].op \in BlockingOps
        BY <1>3, <2>3 DEF SleepersPop, Sleepers, Push, InBody
      <3>3. w \in Poppers'
        BY <2>1, <2>3, <3>1, <3>2 DEF Poppers, Blocked, Sleepers
      <3>4. ASSUME NEW u \in Poppers PROVE u \in Poppers'
        <4>1. u # t
          BY <3>1 DEF Poppers, Blocked, BlockingOps
        <4> QED
          BY <4>1, <2>1, <2>3, <3>1 DEF Poppers, Blocked, Sleepers
      <3> QED
        BY <3>3, <3>4, <2>3 DEF Poppers, Sleepers
    <2>5. Len(data') = Len(data) + 1
      <3>1. call[t].val \in Values
        BY <1>3, PushHasValue DEF Push
      <3> QED
        BY <1>3, <3>1, AppendProperties DEF Push
    <2>6. Cardinality(Poppers) + 1 <= Cardinality(Poppers')
      BY <1>0, <2>4, PoppersSize
    <2>7. threw' = threw
      BY <1>3 DEF Push
    <2> QED
      BY <1>0, <1>1, <1>2, <2>3, <2>5, <2>6, <2>7, PoppersSize
  <1>4. ASSUME NEW t \in Threads, Wait(t) PROVE Len(data') <= Cardinality(Poppers') + threw'
    <2>1. Len(data') = 0
      BY <1>4 DEF Wait
    <2>2. threw' \in Nat
      BY <1>0
    <2> QED
      BY <1>0, <2>1, <2>2, PoppersSize
  <1>5. ASSUME NEW t \in Threads, NotifyAfter(t) PROVE FALSE
    BY <1>5 DEF NotifyAfter, Wake, Sleepers
  <1>6. ASSUME NEW t \in Threads, TakeFront(t) PROVE Len(data') <= Cardinality(Poppers') + threw'
    <2>1. Sleepers # {} /\ Poppers \ {t} \subseteq Poppers'
      BY <1>6 DEF TakeFront, Sleepers, Poppers, Blocked
    <2>2. Len(data') = Len(data) - 1
      BY <1>6, HeadTailProperties DEF TakeFront
    <2>3. Cardinality(Poppers) - 1 <= Cardinality(Poppers')
      <3>1. CASE t \in Poppers
        BY <1>0, <2>1, <3>1, PoppersSize
      <3>2. CASE t \notin Poppers
        <4>1. Poppers \subseteq Poppers'
          BY <2>1, <3>2
        <4> QED
          BY <1>0, <4>1, PoppersSize
      <3> QED
        BY <3>1, <3>2
    <2>4. threw' = threw
      BY <1>6 DEF TakeFront
    <2> QED
      BY <1>0, <1>1, <1>2, <2>1, <2>2, <2>3, <2>4, PoppersSize
  <1>7. ASSUME NEW t \in Threads, LeaveFront(t) PROVE FALSE
    BY <1>0, <1>7, ClassFacts DEF LeaveFront, InBody
  <1>8. ASSUME data' = data, threw' = threw, Sleepers # {}, Poppers \subseteq Poppers'
        PROVE  Len(data') <= Cardinality(Poppers') + threw'
    <2>1. Cardinality(Poppers) <= Cardinality(Poppers')
      BY <1>0, <1>8, PoppersSize
    <2> QED
      BY <1>0, <1>1, <1>2, <1>8, <2>1, PoppersSize
  <1>9. ASSUME NEW t \in Threads, NEW c \in Calls, Call(t, c)
        PROVE  data' = data /\ threw' = threw /\ Sleepers # {} /\ Poppers \subseteq Poppers'
    BY <1>9 DEF Call, history, Sleepers, Poppers, Blocked
  <1>10. ASSUME NEW t \in Threads, SpuriousWake(t) \/ Lock(t)
         PROVE  data' = data /\ threw' = threw /\ Sleepers # {} /\ Poppers \subseteq Poppers'
    BY <1>10 DEF SpuriousWake, Lock, history, Sleepers, Poppers, Blocked
  <1>11. ASSUME NEW t \in Threads, LookOnly(t)
         PROVE  data' = data /\ threw' = threw /\ Sleepers # {} /\ Poppers \subseteq Poppers'
    BY <1>11 DEF LookOnly, history, InBody, Sleepers, Poppers, Blocked, TryOps, BlockingOps
  <1>12. ASSUME NEW t \in Threads, AllocFails(t)
         PROVE  Len(data') <= Cardinality(Poppers') + threw'
    <2>1. data' = data /\ Sleepers # {} /\ Poppers \ {t} \subseteq Poppers'
      BY <1>12 DEF AllocFails, Sleepers, Poppers, Blocked
    <2>2. CASE t \in Poppers
      <3>1. threw' = threw + 1
        BY <1>12, <2>2 DEF AllocFails, Poppers, Blocked
      <3>2. Cardinality(Poppers) - 1 <= Cardinality(Poppers')
        BY <1>0, <2>1, <2>2, PoppersSize
      <3> QED
        BY <1>0, <1>1, <1>2, <2>1, <3>1, <3>2, PoppersSize
    <2>3. CASE t \notin Poppers
      <3>1. threw' = threw
        BY <1>12, <2>3 DEF AllocFails, InBody, Poppers, Blocked, Sleepers
      <3>2. Poppers \subseteq Poppers'
        BY <2>1, <2>3
      <3> QED
        BY <2>1, <3>1, <3>2, <1>8
    <2> QED
      BY <2>2, <2>3
  <1>13. ASSUME NEW t \in Threads, Unlock(t)
         PROVE  data' = data /\ threw' = threw /\ Sleepers # {} /\ Poppers \subseteq Poppers'
    BY <1>13 DEF Unlock, history, Sleepers, Poppers, Blocked
  <1>14. CASE UNCHANGED vars
    <2>1. data' = data /\ threw' = threw /\ Sleepers # {} /\ Poppers \subseteq Poppers'
      BY <1>14 DEF vars, Sleepers, Poppers, Blocked
    <2> QED
      BY <2>1, <1>8
  <1> QED
    BY <1>3, <1>4, <1>5, <1>6, <1>7, <1>8, <1>9, <1>10, <1>11, <1>12, <1>13, <1>14
    DEF Next, Step

\* IInv holds of every reachable state.
THEOREM Invariance == Spec => []IInv
  <1>1. Init => IInv
    <2> SUFFICES ASSUME Init PROVE IInv
      OBVIOUS
    <2>1. TypeOK
      <3>1. left \in BOOLEAN /\ threw \in Nat
        BY DEF Init
      <3>2. data \in Seq(Values) /\ pushed \in Seq(Values) /\ popped \in Seq(Takes)
        BY EmptySeq DEF Init
      <3> QED
        BY <3>1, <3>2 DEF Init, TypeOK, PCs, Takes
    <2>2. ExactlyOnceInOrder
      <3>1. PoppedValues = <<>>
        BY DEF Init, PoppedValues
      <3> QED
        BY <3>1 DEF Init, ExactlyOnceInOrder
    <2>3. Sleepers = {}
      BY DEF Init, Sleepers
    <2> QED
      BY <2>1, <2>2, <2>3 DEF IInv, NoStrandedWaiter, SleepersPop, WakeUpPerValue
  <1>2. IInv /\ [Next]_vars => IInv'
    BY TypeStep, OrderStep, WaiterStep, SleeperStep, WakeUpStep DEF IInv
  <1> QED
    BY <1>1, <1>2, PTL DEF Spec

-----------------------------------------------------------------------------
(* The results.                                                          *)

\* The variables of threadsafe_queue and of its callers keep their types.
THEOREM TypeCorrect == Spec => []TypeOK
  <1>1. IInv => TypeOK
    BY DEF IInv
  <1> QED
    BY <1>1, Invariance, PTL

\* Pushed values are popped in order, each once, whatever interleaves.
THEOREM OrderCorrect == Spec => []ExactlyOnceInOrder
  <1>1. IInv => ExactlyOnceInOrder
    BY DEF IInv
  <1> QED
    BY <1>1, Invariance, PTL

\* No thread sleeps in wait_and_pop or pop while the queue holds something.
THEOREM NobodyStranded == Spec => []NoStrandedWaiter
  <1>1. IInv => NoStrandedWaiter
    BY DEF IInv
  <1> QED
    BY <1>1, Invariance, PTL

\* Where one sleeper is notified, there is a popper awake for each value, but for one
\* value for each pop that has thrown.
THEOREM WakeUpsSuffice == Spec => []WakeUpPerValue
  <1>1. IInv => WakeUpPerValue
    BY DEF IInv
  <1> QED
    BY <1>1, Invariance, PTL

\* Every step of a class is a step of the abstract queue, or none, until list
\* 6.3 leaves a value behind.
THEOREM FifoImplemented == Spec => ImplementsFifo
  <1> USE DEF Fifo!Init, Fifo!Next, Fifo!Put, Fifo!Take
  <1>1. Init => Fifo!Init
    BY DEF Init
  <1>2. TypeOK /\ [Next]_vars => [left' \/ Fifo!Next]_<<data, popped>>
    <2> SUFFICES ASSUME TypeOK, [Next]_vars PROVE [left' \/ Fifo!Next]_<<data, popped>>
      OBVIOUS
    <2>1. ASSUME NEW t \in Threads, Push(t) PROVE Fifo!Next
      <3>1. call[t].val \in Values
        BY <2>1, PushHasValue DEF Push
      <3> QED
        BY <2>1, <3>1 DEF Push
    <2>2. ASSUME NEW t \in Threads, TakeFront(t) PROVE Fifo!Next
      BY <2>2 DEF TakeFront
    <2>3. CASE UNCHANGED <<data, popped>>
      BY <2>3
    <2>4. ASSUME NEW t \in Threads, LeaveFront(t) PROVE left'
      BY <2>4 DEF LeaveFront
    <2> QED
      BY <2>1, <2>2, <2>3, <2>4
      DEF Next, Step, vars, Call, SpuriousWake, Lock, Wait, LookOnly, AllocFails,
          Unlock, NotifyAfter, history
  <1> QED
    BY <1>1, <1>2, TypeCorrect, PTL DEF Spec, ImplementsFifo
=============================================================================
