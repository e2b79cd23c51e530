--------------------------- MODULE BarrierProofs ---------------------------
(**************************************************************************)
(* The barrier of list 8.12 holds, and only one thread at a time reopens  *)
(* it, for every number of threads, every number of waits and every width *)
(* of the generation counter.                                             *)
(**************************************************************************)
EXTENDS Barrier, FiniteSetTheorems, TLAPS

-----------------------------------------------------------------------------
(* The inductive invariant.  In each epoch every thread that has not left *)
(* takes one space; `spaces` counts those that still have to.             *)

\* The threads that still have to take a space in this epoch.  One that waits
\* with an old generation has been let through and belongs to them.
Pending == {t \in Threads : \/ pc[t] \in {"work", "read", "arrive", "leave"}
                            \/ pc[t] = "spin" /\ my_gen[t] # generation}

CountInv  == count = Cardinality(Threads \ resigned)
SpacesInv == (\A t \in Threads : pc[t] \notin Opening) => spaces = Cardinality(Pending)

OpeningInv ==
    \A t \in Threads :
        pc[t] \in Opening =>
          /\ Pending = {}
          /\ \A u \in Threads \ {t} : pc[u] \notin Opening
          /\ pc[t] = "store" => loaded[t] = count
          /\ pc[t] = "open" => spaces = count

GenerationInv == \A t \in Threads : pc[t] = "arrive" => my_gen[t] = generation

ResignedInv ==
    \A t \in Threads :
        /\ pc[t] \in {"leave", "gone"} => t \in resigned
        /\ t \in resigned => pc[t] \in {"leave", "gone"} \cup Opening

ArrivalsInv ==
    \A t \in Threads :
        /\ t \in Pending => arrivals[t] = epoch
        /\ pc[t] = "spin" /\ my_gen[t] = generation => arrivals[t] = epoch + 1
        /\ pc[t] \in Opening /\ t \notin resigned => arrivals[t] = epoch + 1
        /\ Departed(t) => arrivals[t] <= epoch

IInv == /\ TypeOK
        /\ CountInv
        /\ SpacesInv
        /\ OpeningInv
        /\ GenerationInv
        /\ ResignedInv
        /\ ArrivalsInv

-----------------------------------------------------------------------------
\* The sets that are counted are finite, and their sizes are numbers.
LEMMA Sizes ==
    /\ IsFiniteSet(Pending) /\ Cardinality(Pending) \in Nat
    /\ IsFiniteSet(Threads \ resigned) /\ Cardinality(Threads \ resigned) \in Nat
  <1>1. Pending \subseteq Threads /\ Threads \ resigned \subseteq Threads
    BY DEF Pending
  <1>2. IsFiniteSet(Pending) /\ IsFiniteSet(Threads \ resigned)
    BY <1>1, ThreadsAssumption, FS_Subset
  <1> QED
    BY <1>2, FS_CardinalityType

\* While a thread has a space to take nobody is opening the barrier, so `spaces`
\* is right, and taking one leaves the right number.
LEMMA TakingASpace ==
    ASSUME IInv, NEW t \in Pending
    PROVE  /\ \A u \in Threads : pc[u] \notin Opening
           /\ spaces = Cardinality(Pending)
           /\ spaces - 1 \in Nat
           /\ Cardinality(Pending \ {t}) = spaces - 1
           /\ spaces - 1 = 0 <=> Pending \ {t} = {}
  <1>1. \A u \in Threads : pc[u] \notin Opening
    BY DEF IInv, OpeningInv
  <1>2. spaces = Cardinality(Pending)
    BY <1>1 DEF IInv, SpacesInv
  <1>3. IsFiniteSet(Pending \ {t}) /\ Cardinality(Pending \ {t}) = Cardinality(Pending) - 1
    BY Sizes, FS_RemoveElement
  <1>4. Cardinality(Pending \ {t}) \in Nat
    BY <1>3, FS_CardinalityType
  <1>5. Cardinality(Pending \ {t}) = 0 <=> Pending \ {t} = {}
    BY <1>3, FS_EmptySet
  <1> QED
    BY <1>1, <1>2, <1>3, <1>4, <1>5

\* The initial states.
LEMMA InitInv == Init => IInv
  <1> SUFFICES ASSUME Init PROVE IInv
    OBVIOUS
  <1> USE DEF Init
  <1>1. Pending = Threads /\ Threads \ resigned = Threads
    BY DEF Pending
  <1>2. TypeOK
    <2>1. Cardinality(Threads) \in Nat
      BY ThreadsAssumption, FS_CardinalityType
    <2> QED
      BY <2>1, ModulusAssumption DEF TypeOK, PCs
  <1>3. CountInv /\ SpacesInv
    BY <1>1 DEF CountInv, SpacesInv
  <1>4. OpeningInv /\ GenerationInv /\ ResignedInv
    BY DEF OpeningInv, GenerationInv, ResignedInv, Opening
  <1>5. ArrivalsInv
    BY DEF ArrivalsInv, Departed, Opening
  <1> QED
    BY <1>2, <1>3, <1>4, <1>5 DEF IInv

\* Calling wait: the thread stays among those that have a space to take.
LEMMA CallWaitInv == ASSUME IInv, NEW t \in Threads, CallWait(t) PROVE IInv'
  <1> USE DEF IInv, CallWait, Goto
  <1>1. TypeOK'
    BY DEF TypeOK, PCs, InWait
  <1>2. Pending' = Pending
    BY DEF Pending, TypeOK
  <1>3. CountInv' /\ GenerationInv'
    BY DEF CountInv, GenerationInv, TypeOK
  <1>4. SpacesInv'
    BY <1>2 DEF SpacesInv, TypeOK, Opening
  <1>5. OpeningInv'
    BY <1>2 DEF OpeningInv, TypeOK, Opening
  <1>6. ResignedInv'
    BY DEF ResignedInv, TypeOK, Opening
  <1>7. ArrivalsInv'
    BY <1>2 DEF ArrivalsInv, Departed, TypeOK, Opening
  <1> QED
    BY <1>1, <1>3, <1>4, <1>5, <1>6, <1>7

\* Reading the generation: it cannot move before this thread has arrived.
LEMMA ReadGenerationInv == ASSUME IInv, NEW t \in Threads, ReadGeneration(t) PROVE IInv'
  <1> USE DEF IInv, ReadGeneration, Goto
  <1>1. TypeOK'
    BY DEF TypeOK, PCs, InWait
  <1>2. Pending' = Pending
    BY DEF Pending, TypeOK
  <1>3. CountInv' /\ GenerationInv'
    BY DEF CountInv, GenerationInv, TypeOK
  <1>4. SpacesInv'
    BY <1>2 DEF SpacesInv, TypeOK, Opening
  <1>5. OpeningInv'
    BY <1>2 DEF OpeningInv, TypeOK, Opening
  <1>6. ResignedInv'
    BY DEF ResignedInv, TypeOK, Opening
  <1>7. ArrivalsInv'
    BY <1>2 DEF ArrivalsInv, Departed, TypeOK, Opening
  <1> QED
    BY <1>1, <1>3, <1>4, <1>5, <1>6, <1>7

\* Arriving: the last of the epoch opens the barrier, the others spin.
LEMMA ArriveInv == ASSUME IInv, NEW t \in Threads, Arrive(t) PROVE IInv'
  <1> USE DEF IInv, Arrive, TakeSpace, Goto
  <1>0. t \in Pending
    BY DEF Pending
  <1>1. /\ \A u \in Threads : pc[u] \notin Opening
        /\ spaces - 1 \in Nat
        /\ Cardinality(Pending \ {t}) = spaces - 1
        /\ spaces - 1 = 0 <=> Pending \ {t} = {}
    BY <1>0, TakingASpace
  <1>2. TypeOK'
    BY <1>1 DEF TypeOK, PCs, InWait, Opening
  <1>3. Pending' = Pending \ {t}
    BY DEF Pending, TypeOK, GenerationInv
  <1>4. CountInv' /\ GenerationInv'
    BY DEF CountInv, GenerationInv, TypeOK
  <1>5. SpacesInv'
    BY <1>1, <1>3 DEF SpacesInv, TypeOK
  <1>6. OpeningInv'
    BY <1>1, <1>3 DEF OpeningInv, TypeOK, Opening
  <1>7. ResignedInv'
    BY DEF ResignedInv, TypeOK, Opening
  <1>8. ArrivalsInv'
    <2>1. t \notin resigned /\ arrivals[t] = epoch
      BY <1>0 DEF ResignedInv, ArrivalsInv, Opening
    <2> QED
      BY <1>1, <1>3, <2>1 DEF ArrivalsInv, Departed, TypeOK, Opening
  <1> QED
    BY <1>2, <1>4, <1>5, <1>6, <1>7, <1>8

\* Leaving the spin loop: the thread had been let through already.
LEMMA SpinInv == ASSUME IInv, NEW t \in Threads, Spin(t) PROVE IInv'
  <1> USE DEF IInv, Spin, Return, Goto
  <1>0. t \notin resigned /\ t \in Pending
    BY DEF ResignedInv, Opening, Pending
  <1>1. TypeOK'
    BY DEF TypeOK, PCs
  <1>2. Pending' = Pending
    BY <1>0 DEF Pending, TypeOK
  <1>3. CountInv' /\ GenerationInv'
    BY <1>0 DEF CountInv, GenerationInv, TypeOK
  <1>4. SpacesInv'
    BY <1>0, <1>2 DEF SpacesInv, TypeOK, Opening
  <1>5. OpeningInv'
    BY <1>0, <1>2 DEF OpeningInv, TypeOK, Opening
  <1>6. ResignedInv'
    BY <1>0 DEF ResignedInv, TypeOK, Opening
  <1>7. ArrivalsInv'
    BY <1>0, <1>2 DEF ArrivalsInv, Departed, TypeOK, Opening
  <1> QED
    BY <1>1, <1>3, <1>4, <1>5, <1>6, <1>7

\* Reducing count: the thread still has its space of this epoch to take.
LEMMA ResignInv == ASSUME IInv, NEW t \in Threads, Resign(t) PROVE IInv'
  <1> USE DEF IInv, Resign, Goto
  <1>0. t \notin resigned /\ t \in Pending
    BY DEF ResignedInv, Opening, Pending
  <1>1. \A u \in Threads : pc[u] \notin Opening
    BY <1>0, TakingASpace
  <1>2. Pending' = Pending
    BY <1>0 DEF Pending, TypeOK
  <1>3. CountInv' /\ count' \in Nat
    <2>1. Threads \ resigned' = (Threads \ resigned) \ {t}
      OBVIOUS
    <2>2. /\ IsFiniteSet((Threads \ resigned) \ {t})
          /\ Cardinality((Threads \ resigned) \ {t}) = Cardinality(Threads \ resigned) - 1
      BY <1>0, Sizes, FS_RemoveElement
    <2>3. Cardinality((Threads \ resigned) \ {t}) \in Nat
      BY <2>2, FS_CardinalityType
    <2> QED
      BY <2>1, <2>2, <2>3 DEF CountInv
  <1>4. TypeOK'
    BY <1>3 DEF TypeOK, PCs, InDone
  <1>5. SpacesInv' /\ GenerationInv'
    BY <1>1, <1>2 DEF SpacesInv, GenerationInv, TypeOK, Opening
  <1>6. OpeningInv'
    BY <1>1 DEF OpeningInv, TypeOK, Opening
  <1>7. ResignedInv'
    BY DEF ResignedInv, TypeOK, Opening
  <1>8. ArrivalsInv'
    BY <1>1, <1>2 DEF ArrivalsInv, Departed, TypeOK, Opening
  <1> QED
    BY <1>3, <1>4, <1>5, <1>6, <1>7, <1>8

\* Taking the last space of a thread that resigns.
LEMMA LeaveInv == ASSUME IInv, NEW t \in Threads, Leave(t) PROVE IInv'
  <1> USE DEF IInv, Leave, TakeSpace, Goto
  <1>0. t \in Pending /\ t \in resigned
    BY DEF Pending, ResignedInv
  <1>1. /\ \A u \in Threads : pc[u] \notin Opening
        /\ spaces - 1 \in Nat
        /\ Cardinality(Pending \ {t}) = spaces - 1
        /\ spaces - 1 = 0 <=> Pending \ {t} = {}
    BY <1>0, TakingASpace
  <1>2. TypeOK'
    BY <1>1 DEF TypeOK, PCs, Opening
  <1>3. Pending' = Pending \ {t}
    BY DEF Pending, TypeOK
  <1>4. CountInv' /\ GenerationInv'
    BY DEF CountInv, GenerationInv, TypeOK
  <1>5. SpacesInv'
    BY <1>1, <1>3 DEF SpacesInv, TypeOK
  <1>6. OpeningInv'
    BY <1>1, <1>3 DEF OpeningInv, TypeOK, Opening
  <1>7. ResignedInv'
    BY <1>0 DEF ResignedInv, TypeOK, Opening
  <1>8. ArrivalsInv'
    <2>1. arrivals[t] = epoch
      BY <1>0 DEF ArrivalsInv
    <2> QED
      BY <1>0, <1>1, <1>3, <2>1 DEF ArrivalsInv, Departed, TypeOK, Opening
  <1> QED
    BY <1>2, <1>4, <1>5, <1>6, <1>7, <1>8

\* The opening thread reads count, which nobody can change now.
LEMMA LoadCountInv == ASSUME IInv, NEW t \in Threads, LoadCount(t) PROVE IInv'
  <1> USE DEF IInv, LoadCount, Goto
  <1>1. TypeOK'
    BY DEF TypeOK, PCs, Opening
  <1>2. Pending' = Pending
    BY DEF Pending, TypeOK
  <1>3. CountInv' /\ GenerationInv' /\ SpacesInv'
    BY DEF CountInv, GenerationInv, SpacesInv, TypeOK, Opening
  <1>4. OpeningInv'
    BY <1>2 DEF OpeningInv, TypeOK, Opening
  <1>5. ResignedInv'
    BY DEF ResignedInv, TypeOK, Opening
  <1>6. ArrivalsInv'
    BY <1>2 DEF ArrivalsInv, Departed, TypeOK, Opening
  <1> QED
    BY <1>1, <1>3, <1>4, <1>5, <1>6

\* It stores count to spaces, which nobody can take from now.
LEMMA StoreSpacesInv == ASSUME IInv, NEW t \in Threads, StoreSpaces(t) PROVE IInv'
  <1> USE DEF IInv, StoreSpaces, Goto
  <1>1. TypeOK'
    BY DEF TypeOK, PCs, Opening
  <1>2. Pending' = Pending
    BY DEF Pending, TypeOK
  <1>3. CountInv' /\ GenerationInv' /\ SpacesInv'
    BY DEF CountInv, GenerationInv, SpacesInv, TypeOK, Opening
  <1>4. OpeningInv'
    BY <1>2 DEF OpeningInv, TypeOK, Opening
  <1>5. ResignedInv'
    BY DEF ResignedInv, TypeOK, Opening
  <1>6. ArrivalsInv'
    BY <1>2 DEF ArrivalsInv, Departed, TypeOK, Opening
  <1> QED
    BY <1>1, <1>3, <1>4, <1>5, <1>6

\* Moving the generation on lets every spinning thread through, and all that
\* have not resigned have a space to take in the new epoch.
LEMMA OpenInv == ASSUME IInv, NEW t \in Threads, Open(t) PROVE IInv'
  <1> USE DEF IInv, Open, Return, Goto
  <1>0. /\ Pending = {} /\ spaces = count
        /\ \A u \in Threads \ {t} : pc[u] \notin Opening
    BY DEF OpeningInv, Opening
  <1>1. \A u \in Threads \ {t} : \/ pc[u] = "gone"
                                 \/ pc[u] = "spin" /\ my_gen[u] = generation
    BY <1>0 DEF Pending, TypeOK, PCs, InWait, InDone
  <1>2. generation' # generation /\ generation' \in 0 .. Modulus - 1
    BY ModulusAssumption DEF TypeOK
  <1>3. TypeOK'
    BY <1>2 DEF TypeOK, PCs
  <1>4. \A u \in Threads \ {t} : pc'[u] = pc[u] /\ my_gen'[u] = my_gen[u]
    BY DEF TypeOK
  <1>5. pc'[t] = IF t \in resigned THEN "gone" ELSE "work"
    BY DEF TypeOK
  <1>6. Pending' = Threads \ resigned
    BY <1>1, <1>2, <1>4, <1>5 DEF Pending, ResignedInv, Opening
  <1>7. \A u \in Threads : pc'[u] \notin Opening
    BY <1>1, <1>4, <1>5 DEF Opening
  <1>8. CountInv' /\ GenerationInv'
    BY <1>1, <1>4, <1>5 DEF CountInv, GenerationInv
  <1>9. SpacesInv'
    BY <1>0, <1>6 DEF SpacesInv, CountInv
  <1>10. OpeningInv'
    BY <1>7 DEF OpeningInv
  <1>11. ResignedInv'
    BY <1>1, <1>4, <1>5 DEF ResignedInv, Opening
  <1>12. ArrivalsInv'
    <2> SUFFICES ASSUME NEW u \in Threads
                 PROVE  /\ u \in Pending' => arrivals'[u] = epoch'
                        /\ pc'[u] = "spin" /\ my_gen'[u] = generation'
                             => arrivals'[u] = epoch' + 1
                        /\ pc'[u] \in Opening /\ u \notin resigned'
                             => arrivals'[u] = epoch' + 1
                        /\ Departed(u)' => arrivals'[u] <= epoch'
      BY DEF ArrivalsInv
    <2>1. u \notin resigned => arrivals[u] = epoch + 1
      BY <1>1 DEF ArrivalsInv, ResignedInv, Opening
    <2>2. u \in resigned => arrivals[u] <= epoch
      BY <1>1 DEF ArrivalsInv, ResignedInv, Opening, Departed
    <2>3. arrivals'[u] = arrivals[u] /\ epoch' = epoch + 1 /\ resigned' = resigned
      OBVIOUS
    <2>4. ~(pc'[u] = "spin" /\ my_gen'[u] = generation')
      BY <1>1, <1>2, <1>4, <1>5
    <2>5. arrivals[u] \in Nat /\ epoch \in Nat
      BY DEF TypeOK
    <2> QED
      BY <1>6, <1>7, <2>1, <2>2, <2>3, <2>4, <2>5 DEF Departed
  <1> QED
    BY <1>3, <1>8, <1>9, <1>10, <1>11, <1>12

\* IInv holds of every reachable state.
THEOREM Invariance == Spec => []IInv
  <1>1. IInv /\ [Next]_vars => IInv'
    <2> SUFFICES ASSUME IInv, [Next]_vars PROVE IInv'
      OBVIOUS
    <2>1. ASSUME NEW t \in Threads, Step(t) PROVE IInv'
      BY <2>1, CallWaitInv, ReadGenerationInv, ArriveInv, SpinInv, ResignInv,
         LeaveInv, LoadCountInv, StoreSpacesInv, OpenInv
      DEF Step, Inside
    <2>2. CASE UNCHANGED vars
      BY <2>2 DEF vars, IInv, TypeOK, CountInv, SpacesInv, OpeningInv, GenerationInv,
         ResignedInv, ArrivalsInv, Pending, Departed
    <2> QED
      BY <2>1, <2>2 DEF Next
  <1> QED
    BY <1>1, InitInv, PTL DEF Spec

-----------------------------------------------------------------------------
(* The results.                                                          *)

\* The atomics and the locals of wait keep their types; in particular spaces
\* and count, which are unsigned, never go below zero.
THEOREM TypeCorrect == Spec => []TypeOK
  <1>1. IInv => TypeOK
    BY DEF IInv
  <1> QED
    BY <1>1, Invariance, PTL

\* Nobody comes back from its n-th wait before everybody has arrived at it.
THEOREM BarrierCorrect == Spec => []BarrierHolds
  <1>1. IInv => BarrierHolds
    <2> SUFFICES ASSUME IInv, NEW t \in Threads, NEW u \in Threads,
                        Outside(t), arrivals[u] < arrivals[t], ~Departed(u)
                 PROVE  FALSE
      BY DEF BarrierHolds
    <2>1. arrivals[t] <= epoch
      BY DEF IInv, TypeOK, ArrivalsInv, ResignedInv, Outside, Departed, Pending
    <2>2. arrivals[u] \in {epoch, epoch + 1}
      BY DEF IInv, TypeOK, PCs, InWait, InDone, Opening, ArrivalsInv, ResignedInv,
         Departed, Pending
    <2>3. arrivals[t] \in Nat /\ epoch \in Nat
      BY DEF IInv, TypeOK
    <2> QED
      BY <2>1, <2>2, <2>3
  <1> QED
    BY <1>1, Invariance, PTL

\* The store to spaces never races with a thread that takes one.
THEOREM OpeningCorrect == Spec => []OpeningIsExclusive
  <1>1. IInv => OpeningIsExclusive
    BY DEF IInv, OpeningIsExclusive, OpeningInv, Pending, TypeOK, PCs, InWait, InDone,
       ResignedInv, Departed
  <1> QED
    BY <1>1, Invariance, PTL
\* While somebody still has to open the barrier, somebody is about to, or opens it.
OpenerInv == Pending = {} => resigned = Threads \/ \E t \in Threads : pc[t] \in Opening

\* The last to take a space opens the barrier, and having opened it lets the others out.
LEMMA OpenerStep == ASSUME IInv, OpenerInv, NEW t \in Threads, Step(t) PROVE OpenerInv'
  <1>1. pc \in [Threads -> PCs]
    BY DEF IInv, TypeOK
  <1>2. CASE \/ CallWait(t) \/ ReadGeneration(t) \/ Spin(t) \/ Resign(t)
    <2>1. t \in Pending /\ pc[t] \notin Opening
      BY <1>2 DEF CallWait, ReadGeneration, Spin, Resign, Pending, Opening
    <2>2. t \in Pending'
      BY <1>1, <1>2, <2>1 DEF CallWait, ReadGeneration, Spin, Resign, Pending, Goto, Return,
         IInv, ResignedInv, Opening
    <2> QED
      BY <2>2 DEF OpenerInv
  <1>3. CASE Arrive(t) \/ Leave(t)
    <2>1. t \in Pending
      BY <1>3 DEF Arrive, Leave, Pending
    <2>2. spaces - 1 = 0 <=> Pending \ {t} = {}
      BY <2>1, TakingASpace
    <2>3. Pending \ {t} \subseteq Pending'
      BY <1>1, <1>3 DEF Arrive, Leave, TakeSpace, Goto, Pending
    <2>4. CASE spaces - 1 = 0
      <3>1. pc'[t] = "load"
        BY <1>1, <1>3, <2>4 DEF Arrive, Leave, TakeSpace, Goto
      <3> QED
        BY <3>1 DEF OpenerInv, Opening
    <2> QED
      BY <2>2, <2>3, <2>4 DEF OpenerInv
  <1>4. CASE LoadCount(t) \/ StoreSpaces(t)
    <2>1. pc'[t] \in Opening
      BY <1>1, <1>4 DEF LoadCount, StoreSpaces, Goto, Opening
    <2> QED
      BY <2>1 DEF OpenerInv
  <1>5. CASE Open(t)
    <2>1. /\ resigned' = resigned /\ generation' # generation
          /\ Pending = {} /\ \A u \in Threads \ {t} : pc[u] \notin Opening
      BY <1>5, ModulusAssumption DEF Open, IInv, TypeOK, OpeningInv, Opening
    <2>2. \A u \in Threads \ {t} : pc'[u] = pc[u] /\ my_gen'[u] = my_gen[u]
      BY <1>1, <1>5 DEF Open, Return, Goto
    <2>3. pc'[t] = IF t \in resigned THEN "gone" ELSE "work"
      BY <1>1, <1>5 DEF Open, Return, Goto
    <2>4. ASSUME NEW u \in Threads, u \notin resigned PROVE u \in Pending'
      <3>1. CASE u = t
        BY <2>3, <2>4, <3>1 DEF Pending
      <3>2. CASE u # t
        <4>1. pc[u] = "spin" /\ my_gen[u] = generation
          BY <1>1, <2>1, <2>4, <3>2 DEF Pending, PCs, InWait, InDone, IInv, ResignedInv
        <4> QED
          BY <2>1, <2>2, <3>2, <4>1 DEF Pending
      <3> QED
        BY <3>1, <3>2
    <2>5. resigned \subseteq Threads
      BY DEF IInv, TypeOK
    <2> QED
      BY <2>1, <2>4, <2>5 DEF OpenerInv
  <1> QED
    BY <1>2, <1>3, <1>4, <1>5 DEF Step, Inside

\* The barrier never leaves all of its threads spinning, whatever they do and in
\* whatever order: nothing is lost from spaces, and nobody misses a generation.
THEOREM NobodyHangs == Spec => []NobodyIsStranded
  <1>1. Init => OpenerInv
    <2> SUFFICES ASSUME Init PROVE OpenerInv
      OBVIOUS
    <2>1. Pending = Threads
      BY DEF Init, Pending
    <2> QED
      BY <2>1, ThreadsAssumption DEF OpenerInv
  <1>2. IInv /\ OpenerInv /\ [Next]_vars => OpenerInv'
    <2>1. IInv /\ OpenerInv /\ UNCHANGED vars => OpenerInv'
      BY DEF vars, OpenerInv, Pending
    <2> QED
      BY <2>1, OpenerStep DEF Next
  <1>3. IInv /\ OpenerInv => NobodyIsStranded
    <2> SUFFICES ASSUME IInv, OpenerInv, NEW t \in Threads, HeldUp(t)
                 PROVE  \E u \in Threads : ~HeldUp(u) /\ pc[u] # "gone"
      BY DEF NobodyIsStranded
    <2>1. t \notin resigned
      BY DEF HeldUp, IInv, ResignedInv, Opening
    <2>2. CASE \E u \in Threads : pc[u] \in Opening
      BY <2>2 DEF HeldUp, Opening
    <2>3. CASE Pending # {}
      BY <2>3 DEF HeldUp, Pending
    <2> QED
      BY <2>1, <2>2, <2>3 DEF OpenerInv
  <1> QED
    BY <1>1, <1>2, <1>3, Invariance, PTL DEF Spec

-----------------------------------------------------------------------------
(* The barrier implements AbstractBarrier.                               *)

\* Where a thread is, in this state and in the next.
LEMMA PlaceIs ==
    ASSUME NEW t \in Threads
    PROVE  /\ Departed(t) => Place(t) = "left"
           /\ ~Departed(t) /\ Waits(t) => Place(t) = "inside"
           /\ ~Departed(t) /\ ~Waits(t) => Place(t) = "outside"
           /\ Departed(t)' => Place(t)' = "left"
           /\ ~Departed(t)' /\ Waits(t)' => Place(t)' = "inside"
           /\ ~Departed(t)' /\ ~Waits(t)' => Place(t)' = "outside"
  BY DEF Place

\* What the abstract barrier sees of a step, thread by thread.
LEMMA AbstractSteps ==
    /\ (\A t \in Threads : Place(t)' = Place(t)) /\ UNCHANGED <<arrivals, epoch>>
         => UNCHANGED Abstract!vars
    /\ \A t \in Threads :
          /\ Place(t) = "outside" /\ Place(t)' = "inside"
          /\ \A u \in Threads \ {t} : Place(u)' = Place(u)
          /\ arrivals' = [arrivals EXCEPT ![t] = @ + 1] /\ epoch' = epoch
          => Abstract!Enter(t)
    /\ \A t \in Threads :
          /\ Place(t) = "outside" /\ Place(t)' = "left"
          /\ \A u \in Threads \ {t} : Place(u)' = Place(u)
          /\ UNCHANGED <<arrivals, epoch>>
          => Abstract!Leave(t)
    /\ /\ \A t \in Threads : \/ Place(t) = "inside" /\ Place(t)' = "outside"
                             \/ Place(t) = "left" /\ Place(t)' = "left"
       /\ arrivals' = arrivals /\ epoch' = epoch + 1
       => Abstract!LetOut
  <1>1. ASSUME \A t \in Threads : Place(t)' = Place(t), UNCHANGED <<arrivals, epoch>>
        PROVE  UNCHANGED Abstract!vars
    BY <1>1 DEF Abstract!vars
  <1>2. ASSUME NEW t \in Threads, Place(t) = "outside",
               \A u \in Threads \ {t} : Place(u)' = Place(u)
        PROVE  \A p : Place(t)' = p =>
                   [u \in Threads |-> Place(u)]' = [[u \in Threads |-> Place(u)] EXCEPT ![t] = p]
    BY <1>2
  <1>3. ASSUME NEW t \in Threads, Place(t) = "outside", Place(t)' = "inside",
               \A u \in Threads \ {t} : Place(u)' = Place(u),
               arrivals' = [arrivals EXCEPT ![t] = @ + 1], epoch' = epoch
        PROVE  Abstract!Enter(t)
    BY <1>2, <1>3 DEF Abstract!Enter
  <1>4. ASSUME NEW t \in Threads, Place(t) = "outside", Place(t)' = "left",
               \A u \in Threads \ {t} : Place(u)' = Place(u), UNCHANGED <<arrivals, epoch>>
        PROVE  Abstract!Leave(t)
    BY <1>2, <1>4 DEF Abstract!Leave
  <1>5. ASSUME \A t \in Threads : \/ Place(t) = "inside" /\ Place(t)' = "outside"
                                  \/ Place(t) = "left" /\ Place(t)' = "left",
               arrivals' = arrivals, epoch' = epoch + 1
        PROVE  Abstract!LetOut
    BY <1>5 DEF Abstract!LetOut
  <1> QED
    BY <1>1, <1>3, <1>4, <1>5

\* The steps inside a call that no other thread learns anything from.
LEMMA QuietStep ==
    ASSUME IInv, NEW t \in Threads,
           \/ CallWait(t) \/ ReadGeneration(t) \/ Spin(t)
           \/ Resign(t) \/ LoadCount(t) \/ StoreSpaces(t)
    PROVE  UNCHANGED Abstract!vars
  <1>1. /\ pc \in [Threads -> PCs] /\ UNCHANGED <<generation, arrivals, epoch>>
        /\ pc[t] = "spin" => my_gen[t] # generation \/ pc'[t] = "spin"
        /\ t \in resigned => pc[t] \in {"leave", "gone"} \cup Opening
    BY DEF IInv, TypeOK, ResignedInv, CallWait, ReadGeneration, Spin, Resign, LoadCount,
           StoreSpaces
  <1>2. ASSUME NEW u \in Threads PROVE Departed(u)' = Departed(u) /\ Waits(u)' = Waits(u)
    <2>1. CASE u # t
      BY <1>1, <2>1 DEF CallWait, ReadGeneration, Spin, Resign, LoadCount, StoreSpaces,
         Return, Goto, Departed, Waits, HeldUp, IInv, TypeOK
    <2>2. CASE u = t
      BY <1>1, <2>2 DEF CallWait, ReadGeneration, Spin, Resign, LoadCount, StoreSpaces,
         Return, Goto, Departed, Waits, HeldUp, Opening
    <2> QED
      BY <2>1, <2>2
  <1>3. \A u \in Threads : Place(u)' = Place(u)
    BY <1>2, PlaceIs
  <1> QED
    BY <1>1, <1>3, AbstractSteps

\* --spaces in wait enters the abstract wait.
LEMMA ArriveEnters == ASSUME IInv, NEW t \in Threads, Arrive(t) PROVE Abstract!Enter(t)
  <1>1. /\ pc[t] = "arrive" /\ my_gen[t] = generation /\ t \notin resigned
        /\ \/ pc' = [pc EXCEPT ![t] = "spin"]
           \/ pc' = [pc EXCEPT ![t] = "load"]
        /\ arrivals' = [arrivals EXCEPT ![t] = @ + 1]
        /\ UNCHANGED <<generation, my_gen, resigned, epoch>>
    BY DEF IInv, GenerationInv, ResignedInv, Opening, Arrive, TakeSpace, Goto
  <1>2. pc \in [Threads -> PCs]
    BY DEF IInv, TypeOK
  <1>3. Place(t) = "outside" /\ Place(t)' = "inside"
    BY <1>1, <1>2, PlaceIs DEF Departed, Waits, HeldUp, Opening
  <1>4. ASSUME NEW u \in Threads \ {t} PROVE Place(u)' = Place(u)
    <2>1. Departed(u)' = Departed(u) /\ Waits(u)' = Waits(u)
      BY <1>1, <1>2 DEF Departed, Waits, HeldUp
    <2> QED
      BY <2>1, PlaceIs
  <1> QED
    BY <1>1, <1>3, <1>4, AbstractSteps

\* --spaces in done_waiting leaves the abstract barrier.
LEMMA LeaveLeaves == ASSUME IInv, NEW t \in Threads, Leave(t) PROVE Abstract!Leave(t)
  <1>1. /\ pc[t] = "leave" /\ t \in resigned
        /\ \/ pc' = [pc EXCEPT ![t] = "gone"]
           \/ pc' = [pc EXCEPT ![t] = "load"]
        /\ UNCHANGED <<generation, my_gen, resigned, arrivals, epoch>>
    BY DEF IInv, ResignedInv, Leave, TakeSpace, Goto
  <1>2. pc \in [Threads -> PCs]
    BY DEF IInv, TypeOK
  <1>3. Place(t) = "outside" /\ Place(t)' = "left"
    BY <1>1, <1>2, PlaceIs DEF Departed, Waits, HeldUp, Opening
  <1>4. ASSUME NEW u \in Threads \ {t} PROVE Place(u)' = Place(u)
    <2>1. Departed(u)' = Departed(u) /\ Waits(u)' = Waits(u)
      BY <1>1, <1>2 DEF Departed, Waits, HeldUp
    <2> QED
      BY <2>1, PlaceIs
  <1> QED
    BY <1>1, <1>3, <1>4, AbstractSteps

\* ++generation lets out every thread that waits, and there is none outside then.
LEMMA OpenLetsOut == ASSUME IInv, NEW t \in Threads, Open(t) PROVE Abstract!LetOut
  <1>1. /\ pc[t] = "open" /\ pc \in [Threads -> PCs]
        /\ \/ t \in resigned /\ pc' = [pc EXCEPT ![t] = "gone"]
           \/ t \notin resigned /\ pc' = [pc EXCEPT ![t] = "work"]
        /\ epoch' = epoch + 1
        /\ UNCHANGED <<my_gen, resigned, arrivals>>
    BY DEF IInv, TypeOK, Open, Return, Goto
  <1>2. generation' # generation
    BY ModulusAssumption DEF IInv, TypeOK, Open
  <1>3. ASSUME NEW u \in Threads \ {t}
        PROVE  \/ pc[u] = "gone" /\ u \in resigned
               \/ pc[u] = "spin" /\ my_gen[u] = generation /\ u \notin resigned
    BY <1>1 DEF IInv, OpeningInv, ResignedInv, Pending, PCs, InWait, InDone, Opening
  <1>4. ASSUME NEW u \in Threads
        PROVE  \/ Place(u) = "inside" /\ Place(u)' = "outside"
               \/ Place(u) = "left" /\ Place(u)' = "left"
    <2>1. CASE u = t
      BY <1>1, <2>1, PlaceIs DEF Departed, Waits, HeldUp, Opening
    <2>2. CASE u # t
      <3>1. pc'[u] = pc[u]
        BY <1>1, <2>2
      <3> QED
        BY <1>1, <1>2, <1>3, <2>2, <3>1, PlaceIs DEF Departed, Waits, HeldUp, Opening
    <2> QED
      BY <2>1, <2>2
  <1> QED
    BY <1>1, <1>4, AbstractSteps

\* The barrier implements the abstract one, whatever the number of its threads, of their
\* waits and the width of its generation counter: the threads that wait are let out
\* together, once every thread has entered its wait or left.
THEOREM BarrierIsImplemented == Spec => ImplementsBarrier
  <1>1. Init => Abstract!Init
    <2> SUFFICES ASSUME Init PROVE Abstract!Init
      OBVIOUS
    <2>1. ASSUME NEW t \in Threads PROVE Place(t) = "outside"
      BY PlaceIs DEF Init, Departed, Waits, HeldUp, Opening
    <2>2. [t \in Threads |-> Place(t)] = [t \in Threads |-> "outside"]
      BY <2>1
    <2> QED
      BY <2>2 DEF Init, Abstract!Init
  <1>2. IInv /\ [Next]_vars => [Abstract!Next]_Abstract!vars
    <2> SUFFICES ASSUME IInv, [Next]_vars PROVE [Abstract!Next]_Abstract!vars
      OBVIOUS
    <2>1. ASSUME NEW t \in Threads, Step(t) PROVE Abstract!Next \/ UNCHANGED Abstract!vars
      BY <2>1, QuietStep, ArriveEnters, LeaveLeaves, OpenLetsOut
      DEF Step, Inside, Abstract!Next
    <2>2. CASE UNCHANGED vars
      <3>1. \A t \in Threads : Place(t)' = Place(t)
        BY <2>2 DEF vars, Place, Departed, Waits, HeldUp
      <3> QED
        BY <2>2, <3>1, AbstractSteps DEF vars
    <2> QED
      BY <2>1, <2>2 DEF Next
  <1> QED
    BY <1>1, <1>2, Invariance, PTL DEF Spec, ImplementsBarrier, Abstract!Spec

\* What the abstract barrier promises: no thread gets ahead of another that has not left
\* by more than the wait it is in.
LEMMA AbstractKeepsStep == Abstract!Spec => []Abstract!InStep
  <1> DEFINE Inv == arrivals \in [Threads -> Nat] /\ epoch \in Nat /\ Abstract!InStep
  <1>1. Abstract!Init => Inv
    BY DEF Abstract!Init, Abstract!InStep
  <1>2. Inv /\ [Abstract!Next]_Abstract!vars => Inv'
    <2> SUFFICES ASSUME Inv, [Abstract!Next]_Abstract!vars PROVE Inv'
      OBVIOUS
    <2>1. CASE UNCHANGED Abstract!vars
      BY <2>1 DEF Abstract!vars, Abstract!InStep
    <2>2. ASSUME NEW t \in Threads, Abstract!Enter(t) PROVE Inv'
      <3>1. /\ Place(t) = "outside" /\ Place(t)' = "inside"
            /\ \A u \in Threads \ {t} : Place(u)' = Place(u)
            /\ arrivals' = [arrivals EXCEPT ![t] = @ + 1] /\ epoch' = epoch
        BY <2>2 DEF Abstract!Enter
      <3> QED
        BY <3>1 DEF Abstract!InStep
    <2>3. ASSUME NEW t \in Threads, Abstract!Leave(t) PROVE Inv'
      <3>1. /\ Place(t)' = "left" /\ UNCHANGED <<arrivals, epoch>>
            /\ \A u \in Threads \ {t} : Place(u)' = Place(u)
        BY <2>3 DEF Abstract!Leave
      <3> QED
        BY <3>1 DEF Abstract!InStep
    <2>4. CASE Abstract!LetOut
      BY <2>4 DEF Abstract!LetOut, Abstract!InStep
    <2> QED
      BY <2>1, <2>2, <2>3, <2>4 DEF Abstract!Next
  <1> QED
    BY <1>1, <1>2, PTL DEF Abstract!Spec

\* The threads of the barrier keep the step of the abstract one.
THEOREM ThreadsKeepStep == Spec => []Abstract!InStep
  BY BarrierIsImplemented, AbstractKeepsStep DEF ImplementsBarrier
=============================================================================
