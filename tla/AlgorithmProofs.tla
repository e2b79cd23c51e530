-------------------------- MODULE AlgorithmProofs --------------------------
(***************************************************************************)
(* The pairwise partial sum of list 8.13, for every input: no data race,   *)
(* and one result whatever the schedule.  The algorithms that divide a     *)
(* range, for ranges of every length: what the tree of their activations   *)
(* is like, that no thread outlives the call, what ends the program, and   *)
(* that a call that returns has done what the sequential algorithm does.   *)
(***************************************************************************)
EXTENDS MC_Algorithms, BarrierProofs, NaturalLemmas, SequenceTheorems

-----------------------------------------------------------------------------
(* The functions that the model defines by recursion.                    *)

\* The stride is 1 at first and doubles with every step.
LEMMA StrideUnfolds ==
    /\ StrideIn[0] = 1
    /\ \A s \in Nat : StrideIn[s + 1] = 2 * StrideIn[s]
  <1> DEFINE F == [x \in Nat \X Nat |-> 2 * x[2]]
             Equation(f) == f = [s \in Nat |-> IF s = 0 THEN 1 ELSE 2 * f[s - 1]]
  <1>1. F \in [Nat \X Nat -> Nat] /\ \A n, k \in Nat : F[<<n, k>>] = 2 * k
    OBVIOUS
  <1> HIDE DEF F
  <1>2. PICK g : RecursiveBy(g, Nat, 1, F)
    BY <1>1, Recursion, 1 \in Nat, Zenon
  <1>3. Equation(g)
    <2>1. ASSUME NEW n \in Nat
          PROVE  g[n] = IF n = 0 THEN 1 ELSE 2 * g[n - 1]
      <3>1. CASE n # 0
        <4>1. n - 1 \in Nat /\ (n - 1) + 1 = n
          BY <3>1
        <4>2. g[(n - 1) + 1] = 2 * g[n - 1]
          BY <1>1, <1>2, <4>1 DEF RecursiveBy
        <4> QED
          BY <3>1, <4>1, <4>2
      <3> QED
        BY <1>2, <3>1 DEF RecursiveBy
    <2>2. g = [n \in Nat |-> g[n]]
      BY <1>2 DEF RecursiveBy
    <2> QED
      BY <2>1, <2>2
  <1>4. Equation(StrideIn)
    BY <1>3, Zenon DEF StrideIn
  <1>5. StrideIn[0] = 1
    BY <1>4
  <1>6. ASSUME NEW s \in Nat
        PROVE  StrideIn[s + 1] = 2 * StrideIn[s]
    <2>1. s + 1 # 0 /\ (s + 1) - 1 = s /\ s + 1 \in Nat
      OBVIOUS
    <2> QED
      BY <1>4, <2>1
  <1> QED
    BY <1>5, <1>6

\* So it is a number, larger than the number of the steps.
LEMMA StrideGrows == \A s \in Nat : StrideIn[s] \in Nat /\ StrideIn[s] > s
  <1> DEFINE S == {s \in Nat : StrideIn[s] \in Nat /\ StrideIn[s] > s}
  <1>1. 0 \in S
    BY StrideUnfolds
  <1>2. ASSUME NEW s \in Nat, s \in S
        PROVE  s + 1 \in S
    BY <1>2, StrideUnfolds
  <1> HIDE DEF S
  <1>3. \A s \in Nat : s \in S
    BY <1>1, <1>2, Induction
  <1> QED
    BY <1>3 DEF S

\* A thread that is past its last step stays so.
LEMMA StrideStaysAbove ==
    ASSUME NEW c \in Nat, NEW t \in Nat, t >= c, NEW i \in Nat, StrideIn[c] > i
    PROVE  StrideIn[t] > i
  <1> DEFINE S == {s \in Nat : s >= c => StrideIn[s] > i}
  <1>1. 0 \in S
    OBVIOUS
  <1>2. ASSUME NEW s \in Nat, s \in S
        PROVE  s + 1 \in S
    <2>1. StrideIn[s + 1] = 2 * StrideIn[s] /\ StrideIn[s] \in Nat /\ StrideIn[s] > s
      BY StrideUnfolds, StrideGrows
    <2>2. CASE s + 1 = c
      BY <2>2
    <2>3. CASE s >= c
      BY <1>2, <2>1, <2>3
    <2> QED
      BY <2>2, <2>3
  <1> HIDE DEF S
  <1>3. t \in S
    BY <1>1, <1>2, Induction
  <1> QED
    BY <1>3 DEF S

\* The cells of all threads.
Memory == [element : [Indices -> Nat], buffer : [Indices -> Nat]]

\* A step of all threads leaves numbers in their cells.
LEMMA AllDoStepType ==
    ASSUME NEW s \in Nat, NEW m \in Memory
    PROVE  AllDoStep(s, m) \in Memory
  <1> DEFINE d == StrideIn[s]
  <1>1. d \in Nat /\ d > 0
    BY StrideGrows
  <1>2. Length \in Nat
    BY InputAssumption DEF Length
  <1>3. ASSUME NEW i \in Indices, d <= i
        PROVE  i - d \in Indices
    BY <1>1, <1>2, <1>3 DEF Indices
  <1>4. m.element \in [Indices -> Nat] /\ m.buffer \in [Indices -> Nat]
    BY DEF Memory
  <1> HIDE DEF d
  <1>5. AllDoStep(s, m).element \in [Indices -> Nat]
    <2>1. ASSUME NEW i \in Indices
          PROVE  (CASE ~(s % 2 = 0) /\ d <= i -> m.buffer[i] + m.buffer[i - d]
                    [] s % 2 = 0 /\ d <= i /\ 2 * d > i -> m.element[i] + m.element[i - d]
                    [] OTHER -> m.element[i]) \in Nat
      BY <1>3, <1>4
    <2> QED
      BY <2>1 DEF AllDoStep, d
  <1>6. AllDoStep(s, m).buffer \in [Indices -> Nat]
    BY <1>3, <1>4 DEF AllDoStep, d
  <1> QED
    BY <1>5, <1>6 DEF AllDoStep, Memory

\* The memory in lockstep begins with the input and goes on by AllDoStep.
LEMMA LockstepUnfolds ==
    /\ Lockstep[0] = [element |-> [i \in Indices |-> Input[i + 1]],
                      buffer  |-> [i \in Indices |-> 0]]
    /\ \A s \in Nat : Lockstep[s] \in Memory /\ Lockstep[s + 1] = AllDoStep(s, Lockstep[s])
  <1> DEFINE M == Memory
             First == [element |-> [i \in Indices |-> Input[i + 1]],
                       buffer  |-> [i \in Indices |-> 0]]
             F == [x \in Nat \X M |-> AllDoStep(x[1], x[2])]
             Equation(f) == f = [s \in Nat |->
                                   IF s = 0 THEN First ELSE AllDoStep(s - 1, f[s - 1])]
  <1>1. First \in M
    BY InputAssumption DEF Memory, Indices, Length
  <1>2. F \in [Nat \X M -> M] /\ \A n \in Nat, m \in M : F[<<n, m>>] = AllDoStep(n, m)
    BY AllDoStepType
  <1> HIDE DEF F, First, M
  <1>3. PICK g : RecursiveBy(g, M, First, F)
    BY <1>1, <1>2, Recursion, Zenon
  <1>4. Equation(g)
    <2>1. ASSUME NEW n \in Nat
          PROVE  g[n] = IF n = 0 THEN First ELSE AllDoStep(n - 1, g[n - 1])
      <3>1. CASE n # 0
        <4>1. n - 1 \in Nat /\ (n - 1) + 1 = n
          BY <3>1
        <4>2. g[(n - 1) + 1] = AllDoStep(n - 1, g[n - 1])
          BY <1>2, <1>3, <4>1 DEF RecursiveBy
        <4> QED
          BY <3>1, <4>1, <4>2
      <3> QED
        BY <1>3, <3>1 DEF RecursiveBy
    <2>2. g = [n \in Nat |-> g[n]]
      BY <1>3 DEF RecursiveBy
    <2> QED
      BY <2>1, <2>2
  <1>5. Equation(Lockstep)
    BY <1>4, Zenon DEF Lockstep, First
  <1>6. Lockstep[0] = First
    BY <1>5
  <1>7. ASSUME NEW s \in Nat
        PROVE  Lockstep[s + 1] = AllDoStep(s, Lockstep[s])
    <2>1. s + 1 # 0 /\ (s + 1) - 1 = s /\ s + 1 \in Nat
      OBVIOUS
    <2> QED
      BY <1>5, <2>1
  <1>8. \A s \in Nat : Lockstep[s] \in M
    <2> DEFINE S == {s \in Nat : Lockstep[s] \in M}
    <2>1. 0 \in S
      BY <1>1, <1>6
    <2>2. ASSUME NEW s \in Nat, s \in S
          PROVE  s + 1 \in S
      BY <1>7, <2>2, AllDoStepType DEF M
    <2> HIDE DEF S
    <2>3. \A s \in Nat : s \in S
      BY <2>1, <2>2, Induction
    <2> QED
      BY <2>3 DEF S
  <1> QED
    BY <1>6, <1>7, <1>8 DEF First, M

-----------------------------------------------------------------------------
(* The memory in lockstep, cell by cell.                                 *)

\* Steps are odd and even in turn.
LEMMA Parity ==
    \A s \in Nat : s % 2 \in {0, 1} /\ ((s + 1) % 2 = 0 <=> s % 2 = 1)
  OBVIOUS

\* The indices are the numbers below the length of the input.
LEMMA IndicesAre ==
    /\ Length \in Nat /\ Length > 1
    /\ \A i : i \in Indices <=> i \in Nat /\ i < Length
    /\ Threads = Indices
  BY InputAssumption DEF Indices, Length

\* What step s writes in lockstep, and what it leaves alone.
LEMMA LockstepStep ==
    ASSUME NEW s \in Nat, NEW i \in Indices
    PROVE  /\ s % 2 = 1 => Lockstep[s + 1].buffer[i] = Lockstep[s].buffer[i]
           /\ s % 2 = 0 /\ StrideIn[s + 1] <= i
                => Lockstep[s + 1].element[i] = Lockstep[s].element[i]
           /\ StrideIn[s] > i
                => /\ Lockstep[s + 1].element[i] = Lockstep[s].element[i]
                   /\ Lockstep[s + 1].buffer[i] = Lockstep[s].buffer[i]
           /\ s % 2 = 1 /\ StrideIn[s] <= i
                => Lockstep[s + 1].element[i]
                     = Lockstep[s].buffer[i] + Lockstep[s].buffer[i - StrideIn[s]]
           /\ s % 2 = 0 /\ StrideIn[s] <= i
                => Lockstep[s + 1].buffer[i]
                     = Lockstep[s].element[i] + Lockstep[s].element[i - StrideIn[s]]
           /\ s % 2 = 0 /\ StrideIn[s] <= i /\ StrideIn[s + 1] > i
                => Lockstep[s + 1].element[i] = Lockstep[s + 1].buffer[i]
  <1> DEFINE d == StrideIn[s]
             m == Lockstep[s]
  <1>1. d \in Nat /\ StrideIn[s + 1] = 2 * d /\ i \in Nat
    BY StrideGrows, StrideUnfolds, IndicesAre
  <1>2. Lockstep[s + 1] = AllDoStep(s, m)
    BY LockstepUnfolds
  <1>3. AllDoStep(s, m).element[i] =
          CASE ~(s % 2 = 0) /\ d <= i -> m.buffer[i] + m.buffer[i - d]
            [] s % 2 = 0 /\ d <= i /\ 2 * d > i -> m.element[i] + m.element[i - d]
            [] OTHER -> m.element[i]
    BY DEF AllDoStep
  <1>4. AllDoStep(s, m).buffer[i] =
          IF s % 2 = 0 /\ d <= i THEN m.element[i] + m.element[i - d] ELSE m.buffer[i]
    BY DEF AllDoStep
  <1>5. s % 2 \in {0, 1}
    BY Parity
  <1> HIDE DEF d, m
  <1>6. s % 2 = 1 => Lockstep[s + 1].buffer[i] = m.buffer[i]
    BY <1>2, <1>4
  <1>7. s % 2 = 0 /\ 2 * d <= i => Lockstep[s + 1].element[i] = m.element[i]
    BY <1>1, <1>2, <1>3
  <1>8. d > i => /\ Lockstep[s + 1].element[i] = m.element[i]
                 /\ Lockstep[s + 1].buffer[i] = m.buffer[i]
    BY <1>1, <1>2, <1>3, <1>4
  <1>9. s % 2 = 1 /\ d <= i => Lockstep[s + 1].element[i] = m.buffer[i] + m.buffer[i - d]
    BY <1>1, <1>2, <1>3
  <1>10. s % 2 = 0 /\ d <= i => Lockstep[s + 1].buffer[i] = m.element[i] + m.element[i - d]
    BY <1>1, <1>2, <1>4
  <1>11. s % 2 = 0 /\ d <= i /\ 2 * d > i
           => Lockstep[s + 1].element[i] = Lockstep[s + 1].buffer[i]
    BY <1>1, <1>2, <1>3, <1>4
  <1> QED
    BY <1>1, <1>6, <1>7, <1>8, <1>9, <1>10, <1>11 DEF d, m

\* The cells of a thread do not change after its last step.
LEMMA LockstepStops ==
    ASSUME NEW i \in Indices, NEW c \in Nat, StrideIn[c] > i, NEW t \in Nat, t >= c
    PROVE  /\ Lockstep[t].element[i] = Lockstep[c].element[i]
           /\ Lockstep[t].buffer[i] = Lockstep[c].buffer[i]
  <1> DEFINE S == {s \in Nat : s >= c => /\ Lockstep[s].element[i] = Lockstep[c].element[i]
                                         /\ Lockstep[s].buffer[i] = Lockstep[c].buffer[i]}
  <1>1. 0 \in S
    OBVIOUS
  <1>2. ASSUME NEW s \in Nat, s \in S
        PROVE  s + 1 \in S
    <2>1. CASE s + 1 = c
      BY <2>1
    <2>2. CASE s >= c
      <3>1. StrideIn[s] > i
        BY <2>2, StrideStaysAbove, IndicesAre
      <3> QED
        BY <1>2, <2>2, <3>1, LockstepStep
    <2> QED
      BY <2>1, <2>2
  <1> HIDE DEF S
  <1>3. t \in S
    BY <1>1, <1>2, Induction
  <1> QED
    BY <1>3 DEF S

-----------------------------------------------------------------------------
(* The inductive invariant: the program's own part of it, next to IInv of *)
(* the barrier.                                                           *)

\* The steps of thread i whose result is stored.
Stored(i) == IF at[i] = "wait" THEN step[i] + 1 ELSE step[i]

\* Elements are written by odd steps: the stored ones that can have written one.
Settled(s) == IF s % 2 = 0 THEN s ELSE s - 1

SumTypeOK ==
    /\ element \in [Indices -> Nat]
    /\ buffer \in [Indices -> Nat]
    /\ at \in [Indices -> {"loop", "store", "wait", "done"}]
    /\ step \in [Indices -> Nat]
    /\ sum \in [Indices -> Nat]

\* A thread is in as many steps as it has arrived at waits, and resigns at its end.
ProgressInv ==
    \A i \in Indices :
        /\ pc[i] \in {"read", "arrive"} => arrivals[i] + 1 = step[i]
        /\ pc[i] \notin {"read", "arrive"} => arrivals[i] = step[i]
        /\ at[i] \in {"store", "wait"} => pc[i] = "work" /\ Stride(i) <= i
        /\ at[i] = "done" => (pc[i] = "work" \/ i \in resigned) /\ Stride(i) > i
        /\ i \in resigned => at[i] = "done"
        /\ step[i] > 0 => StrideIn[step[i] - 1] <= i

\* The cells of a thread hold what they hold in lockstep, after as many steps.
CellsInv ==
    \A i \in Indices :
        /\ buffer[i] = Lockstep[Stored(i)].buffer[i]
        /\ at[i] # "done" => element[i] = Lockstep[Settled(Stored(i))].element[i]
        /\ at[i] = "done" => element[i] = Lockstep[step[i]].element[i]

\* The sum that a thread is about to store is the one it would have in lockstep.
OperandsInv ==
    \A i \in Indices :
        at[i] = "store" =>
          LET m == Lockstep[step[i]]
              j == i - Stride(i)
          IN  sum[i] = IF OddStep(i) THEN m.buffer[i] + m.buffer[j]
                                     ELSE m.element[i] + m.element[j]

SumInv == IInv /\ SumTypeOK /\ ProgressInv /\ CellsInv /\ OperandsInv

\* While thread i works in a step, no thread is elsewhere than in that step, just
\* past it, or past its own last one.
LEMMA NobodyIsAhead ==
    ASSUME SumInv, NEW i \in Indices, pc[i] = "work", NEW j \in Indices
    PROVE  /\ step[i] = epoch
           /\ pc[j] = "work" => step[j] = epoch
           /\ at[j] = "done" => step[j] <= epoch
           /\ at[j] # "done" => Stored(j) \in {epoch, epoch + 1}
           /\ at[j] # "done" /\ Stored(j) = epoch + 1 => StrideIn[epoch] <= j
  <1> USE DEF SumInv, IInv
  <1>1. i \in Threads /\ j \in Threads /\ i \in Pending
    BY IndicesAre DEF Pending
  <1>2. \A k \in Threads : pc[k] \notin Opening
    BY <1>1 DEF OpeningInv
  <1>3. step[i] = epoch
    BY <1>1 DEF ArrivalsInv, ProgressInv
  <1>4. pc[j] = "work" => step[j] = epoch
    BY <1>1 DEF ArrivalsInv, ProgressInv, Pending
  <1>5. epoch \in Nat /\ step[j] \in Nat /\ pc[j] \in PCs
    BY <1>1 DEF TypeOK, SumTypeOK
  <1>6. ASSUME at[j] = "done"
        PROVE  step[j] <= epoch
    <2>1. arrivals[j] <= epoch
      BY <1>1, <1>2, <1>4, <1>5, <1>6
      DEF ArrivalsInv, ProgressInv, ResignedInv, Pending, Departed
    <2>2. arrivals[j] = step[j]
      BY <1>1, <1>2, <1>6 DEF ProgressInv, ResignedInv
    <2> QED
      BY <2>1, <2>2
  <1>7. ASSUME at[j] # "done"
        PROVE  /\ Stored(j) \in {epoch, epoch + 1}
               /\ Stored(j) = epoch + 1 => StrideIn[epoch] <= j
    <2>1. j \notin resigned /\ pc[j] \in {"work", "read", "arrive", "spin"}
      BY <1>1, <1>2, <1>5, <1>7
      DEF ProgressInv, ResignedInv, PCs, InWait, InDone
    <2>2. CASE pc[j] = "work"
      BY <1>4, <1>5, <2>2 DEF Stored, ProgressInv, Stride
    <2>3. CASE pc[j] # "work"
      <3>1. Stored(j) = step[j]
        BY <2>3 DEF ProgressInv, Stored
      <3>2. arrivals[j] \in {epoch, epoch + 1}
        BY <1>1, <2>1, <2>3 DEF ArrivalsInv, Pending
      <3>3. CASE pc[j] = "spin"
        <4>1. step[j] \in {epoch, epoch + 1}
          BY <3>2, <3>3 DEF ProgressInv
        <4>2. step[j] = epoch + 1 => step[j] > 0 /\ step[j] - 1 = epoch
          BY <1>5
        <4> QED
          BY <1>5, <3>1, <4>1, <4>2 DEF ProgressInv
      <3>4. CASE pc[j] \in {"read", "arrive"}
        <4>1. arrivals[j] = epoch
          BY <1>1, <3>4 DEF ArrivalsInv, Pending
        <4>2. step[j] = epoch + 1 /\ step[j] > 0 /\ step[j] - 1 = epoch
          BY <1>5, <3>4, <4>1 DEF ProgressInv
        <4> QED
          BY <3>1, <4>2 DEF ProgressInv
      <3> QED
        BY <2>1, <2>3, <3>3, <3>4
    <2> QED
      BY <2>2, <2>3
  <1> QED
    BY <1>3, <1>4, <1>6, <1>7

\* So the cells that a thread reads in a step hold what they hold in lockstep.
LEMMA SourcesAreSettled ==
    ASSUME SumInv, NEW i \in Indices, pc[i] = "work", NEW j \in Indices
    PROVE  /\ step[i] % 2 = 1 => buffer[j] = Lockstep[step[i]].buffer[j]
           /\ step[i] % 2 = 0 => element[j] = Lockstep[step[i]].element[j]
  <1> DEFINE t == step[i]
  <1>1. /\ t = epoch
        /\ at[j] = "done" => step[j] <= t
        /\ at[j] # "done" => Stored(j) \in {t, t + 1}
        /\ at[j] # "done" /\ Stored(j) = t + 1 => StrideIn[t] <= j
    BY NobodyIsAhead
  <1>2. t \in Nat /\ step[j] \in Nat
    BY DEF SumInv, SumTypeOK
  <1> HIDE DEF t
  <1>3. CASE at[j] = "done"
    <2>1. Stored(j) = step[j] /\ StrideIn[step[j]] > j
      BY <1>3 DEF Stored, SumInv, ProgressInv, Stride
    <2>2. /\ Lockstep[t].element[j] = Lockstep[step[j]].element[j]
          /\ Lockstep[t].buffer[j] = Lockstep[step[j]].buffer[j]
      BY <1>1, <1>2, <1>3, <2>1, LockstepStops
    <2> QED
      BY <1>3, <2>1, <2>2 DEF SumInv, CellsInv, t
  <1>4. CASE at[j] # "done" /\ Stored(j) = t
    BY <1>4 DEF SumInv, CellsInv, Settled, t
  <1>5. CASE at[j] # "done" /\ Stored(j) = t + 1
    <2>1. t % 2 = 1 => Lockstep[t + 1].buffer[j] = Lockstep[t].buffer[j]
      BY <1>2, LockstepStep
    <2>2. t % 2 = 0 => Settled(t + 1) = t
      BY <1>2, Parity DEF Settled
    <2> QED
      BY <1>5, <2>1, <2>2 DEF SumInv, CellsInv, t
  <1> QED
    BY <1>1, <1>3, <1>4, <1>5

-----------------------------------------------------------------------------
(* The steps.                                                            *)

\* The initial states.
LEMMA InitSumInv == InitSum => SumInv
  <1> SUFFICES ASSUME InitSum PROVE SumInv
    OBVIOUS
  <1> USE DEF InitSum
  <1>1. IInv
    BY InitInv
  <1>2. SumTypeOK
    <2>1. ASSUME NEW i \in Indices
          PROVE  Input[i + 1] \in Nat
      BY InputAssumption DEF Indices, Length
    <2> QED
      BY <2>1 DEF SumTypeOK
  <1>3. ProgressInv
    BY IndicesAre DEF ProgressInv, Init
  <1>4. CellsInv
    <2>1. ASSUME NEW i \in Indices
          PROVE  Stored(i) = 0 /\ Settled(0) = 0 /\ at[i] # "done"
      BY DEF Stored, Settled
    <2>2. ASSUME NEW i \in Indices
          PROVE  Lockstep[0].element[i] = element[i] /\ Lockstep[0].buffer[i] = buffer[i]
      BY LockstepUnfolds
    <2> QED
      BY <2>1, <2>2 DEF CellsInv
  <1>5. OperandsInv
    BY DEF OperandsInv
  <1> QED
    BY <1>1, <1>2, <1>3, <1>4, <1>5 DEF SumInv

\* The barrier's part does not change when the program's own variables do.
LEMMA BarrierUnchanged == ASSUME IInv, UNCHANGED vars PROVE IInv'
  BY DEF vars, IInv, TypeOK, CountInv, SpacesInv, OpeningInv, GenerationInv,
     ResignedInv, ArrivalsInv, Pending, Departed

\* Reading the operands: they are what they are in lockstep.
LEMMA ReadOperandsInv == ASSUME SumInv, NEW i \in Indices, ReadOperands(i) PROVE SumInv'
  <1> USE DEF SumInv
  <1> DEFINE t == step[i]
             j == i - Stride(i)
  <1>1. /\ pc[i] = "work" /\ at[i] = "loop" /\ Stride(i) <= i
        /\ sum' = [sum EXCEPT ![i] = IF OddStep(i) THEN buffer[i] + buffer[j]
                                                  ELSE element[i] + element[j]]
        /\ at' = [at EXCEPT ![i] = "store"]
        /\ UNCHANGED <<element, buffer, step>> /\ UNCHANGED vars
    BY DEF ReadOperands, Runs, MoveTo
  <1>2. UNCHANGED <<pc, arrivals, resigned>>
    BY <1>1 DEF vars
  <1>3. t \in Nat /\ Stride(i) \in Nat /\ Stride(i) > 0 /\ j \in Indices
    <2>1. t \in Nat
      BY DEF SumTypeOK
    <2> QED
      BY <1>1, <2>1, StrideGrows, IndicesAre DEF Stride
  <1>4. IInv'
    BY <1>1, BarrierUnchanged
  <1>5. SumTypeOK'
    <2>1. buffer[i] + buffer[j] \in Nat /\ element[i] + element[j] \in Nat
      BY <1>3 DEF SumTypeOK
    <2> HIDE DEF j
    <2> QED
      BY <1>1, <2>1 DEF SumTypeOK
  <1>6. ProgressInv'
    BY <1>1, <1>2 DEF ProgressInv, SumTypeOK, Stride
  <1>7. CellsInv'
    BY <1>1 DEF CellsInv, SumTypeOK, Stored
  <1>8. OperandsInv'
    <2> SUFFICES ASSUME NEW k \in Indices, at'[k] = "store"
                 PROVE  sum'[k] = IF step[k] % 2 = 1
                          THEN Lockstep[step[k]].buffer[k] + Lockstep[step[k]].buffer[k - Stride(k)]
                          ELSE Lockstep[step[k]].element[k] + Lockstep[step[k]].element[k - Stride(k)]
      BY <1>1 DEF OperandsInv, OddStep, Stride
    <2>1. CASE k = i
      <3>1. /\ t % 2 = 1 => /\ buffer[i] = Lockstep[t].buffer[i]
                            /\ buffer[j] = Lockstep[t].buffer[j]
            /\ t % 2 = 0 => /\ element[i] = Lockstep[t].element[i]
                            /\ element[j] = Lockstep[t].element[j]
        BY <1>1, <1>3, SourcesAreSettled
      <3>2. t % 2 \in {0, 1}
        BY <1>3, Parity
      <3>3. sum'[i] = IF t % 2 = 1 THEN buffer[i] + buffer[j] ELSE element[i] + element[j]
        BY <1>1 DEF SumTypeOK, OddStep
      <3> HIDE DEF j
      <3>4. sum'[i] = IF t % 2 = 1 THEN Lockstep[t].buffer[i] + Lockstep[t].buffer[j]
                                   ELSE Lockstep[t].element[i] + Lockstep[t].element[j]
        BY <3>1, <3>2, <3>3
      <3> QED
        BY <2>1, <3>4 DEF j
    <2>2. CASE k # i
      <3>1. at[k] = "store" /\ sum'[k] = sum[k]
        BY <1>1, <2>2 DEF SumTypeOK
      <3> QED
        BY <3>1 DEF OperandsInv, OddStep
    <2> QED
      BY <2>1, <2>2
  <1> QED
    BY <1>4, <1>5, <1>6, <1>7, <1>8

\* Storing the sum: the cell is now as one step later in lockstep.
LEMMA StoreSumInv == ASSUME SumInv, NEW i \in Indices, StoreSum(i) PROVE SumInv'
  <1> USE DEF SumInv
  <1> DEFINE t == step[i]
  <1>1. /\ pc[i] = "work" /\ at[i] = "store"
        /\ at' = [at EXCEPT ![i] = "wait"]
        /\ UNCHANGED <<step, sum>> /\ UNCHANGED vars
        /\ t % 2 = 1 => element' = [element EXCEPT ![i] = sum[i]] /\ buffer' = buffer
        /\ t % 2 # 1 => buffer' = [buffer EXCEPT ![i] = sum[i]] /\ element' = element
    BY DEF StoreSum, Runs, MoveTo, OddStep
  <1>2. UNCHANGED <<pc, arrivals, resigned>>
    BY <1>1 DEF vars
  <1>3. t \in Nat /\ StrideIn[t] <= i /\ t % 2 \in {0, 1}
    BY <1>1, Parity DEF SumTypeOK, ProgressInv, Stride
  <1>4. IInv'
    BY <1>1, BarrierUnchanged
  <1>5. SumTypeOK'
    BY <1>1, <1>3 DEF SumTypeOK
  <1>6. ProgressInv'
    BY <1>1, <1>2 DEF ProgressInv, SumTypeOK, Stride
  <1>7. CellsInv'
    <2> SUFFICES ASSUME NEW k \in Indices
                 PROVE  /\ buffer'[k] = Lockstep[Stored(k)'].buffer[k]
                        /\ at'[k] # "done"
                             => element'[k] = Lockstep[Settled(Stored(k)')].element[k]
                        /\ at'[k] = "done" => element'[k] = Lockstep[step[k]].element[k]
      BY <1>1 DEF CellsInv, Settled
    <2>1. CASE k # i
      <3>1. /\ at'[k] = at[k] /\ Stored(k)' = Stored(k)
            /\ buffer'[k] = buffer[k] /\ element'[k] = element[k]
        BY <1>1, <1>3, <2>1 DEF SumTypeOK, Stored
      <3> QED
        BY <3>1 DEF CellsInv
    <2>2. CASE k = i
      <3>1. Stored(i)' = t + 1 /\ Stored(i) = t /\ at'[i] = "wait"
        BY <1>1 DEF SumTypeOK, Stored
      <3>2. /\ buffer[i] = Lockstep[t].buffer[i]
            /\ element[i] = Lockstep[Settled(t)].element[i]
        BY <1>1, <3>1 DEF CellsInv
      <3>3. sum[i] = IF t % 2 = 1
                     THEN Lockstep[t].buffer[i] + Lockstep[t].buffer[i - StrideIn[t]]
                     ELSE Lockstep[t].element[i] + Lockstep[t].element[i - StrideIn[t]]
        BY <1>1 DEF OperandsInv, OddStep, Stride
      <3>4. CASE t % 2 = 1
        <4>1. Settled(t + 1) = t + 1
          BY <1>3, <3>4, Parity DEF Settled
        <4>2. element'[i] = sum[i] /\ buffer'[i] = buffer[i]
          BY <1>1, <3>4 DEF SumTypeOK
        <4>3. /\ Lockstep[t + 1].buffer[i] = Lockstep[t].buffer[i]
              /\ Lockstep[t + 1].element[i] = sum[i]
          BY <1>3, <3>3, <3>4, LockstepStep
        <4> QED
          BY <2>2, <3>1, <3>2, <4>1, <4>2, <4>3
      <3>5. CASE t % 2 = 0
        <4>1. Settled(t + 1) = t /\ Settled(t) = t
          BY <1>3, <3>5, Parity DEF Settled
        <4>2. element'[i] = element[i] /\ buffer'[i] = sum[i]
          BY <1>1, <3>5 DEF SumTypeOK
        <4>3. Lockstep[t + 1].buffer[i] = sum[i]
          BY <1>3, <3>3, <3>5, LockstepStep
        <4> QED
          BY <2>2, <3>1, <3>2, <4>1, <4>2, <4>3
      <3> QED
        BY <1>3, <3>4, <3>5
    <2> QED
      BY <2>1, <2>2
  <1>8. OperandsInv'
    BY <1>1 DEF OperandsInv, SumTypeOK, OddStep, Stride
  <1> QED
    BY <1>4, <1>5, <1>6, <1>7, <1>8

\* Calling wait: the thread is in its next step.
LEMMA CallBarrierInv == ASSUME SumInv, NEW i \in Indices, CallBarrier(i) PROVE SumInv'
  <1> USE DEF SumInv
  <1>1. /\ pc[i] = "work" /\ at[i] = "wait" /\ CallWait(i)
        /\ pc' = [pc EXCEPT ![i] = "read"]
        /\ step' = [step EXCEPT ![i] = @ + 1]
        /\ at' = [at EXCEPT ![i] = "loop"]
        /\ UNCHANGED <<element, buffer, sum, arrivals, resigned>>
    BY DEF CallBarrier, Runs, MoveTo, CallWait, Goto
  <1>2. IInv'
    BY <1>1, CallWaitInv, IndicesAre
  <1>3. SumTypeOK'
    BY <1>1 DEF SumTypeOK
  <1>4. step[i] \in Nat /\ i \notin resigned /\ StrideIn[step[i]] <= i
    BY <1>1 DEF SumTypeOK, ProgressInv, Stride
  <1>5. \A k \in Indices : /\ pc'[k] = IF k = i THEN "read" ELSE pc[k]
                           /\ at'[k] = IF k = i THEN "loop" ELSE at[k]
                           /\ step'[k] = IF k = i THEN step[i] + 1 ELSE step[k]
    BY <1>1, IndicesAre DEF SumTypeOK, IInv, TypeOK
  <1>6. ProgressInv'
    <2>1. (step[i] + 1) - 1 = step[i]
      BY <1>4
    <2> QED
      BY <1>1, <1>4, <1>5, <2>1 DEF ProgressInv, Stride
  <1>7. \A k \in Indices : Stored(k)' = Stored(k)
    BY <1>1, <1>5 DEF Stored
  <1>8. CellsInv'
    BY <1>1, <1>5, <1>7 DEF CellsInv, Settled
  <1>9. OperandsInv'
    BY <1>1, <1>5 DEF OperandsInv, OddStep, Stride
  <1> QED
    BY <1>2, <1>3, <1>6, <1>8, <1>9

\* Copying back: the element is now the one after this thread's last step.
LEMMA CopyBackInv == ASSUME SumInv, NEW i \in Indices, CopyBack(i) PROVE SumInv'
  <1> USE DEF SumInv
  <1> DEFINE t == step[i]
  <1>1. /\ pc[i] = "work" /\ at[i] = "loop" /\ Stride(i) > i
        /\ at' = [at EXCEPT ![i] = "done"]
        /\ t > 0 /\ t % 2 = 1 => element' = [element EXCEPT ![i] = buffer[i]]
        /\ ~(t > 0 /\ t % 2 = 1) => element' = element
        /\ UNCHANGED <<buffer, step, sum>> /\ UNCHANGED vars
    BY DEF CopyBack, Runs, MoveTo, OddStep
  <1>2. UNCHANGED <<pc, arrivals, resigned>>
    BY <1>1 DEF vars
  <1>3. t \in Nat /\ StrideIn[t] > i /\ t % 2 \in {0, 1}
    BY <1>1, Parity DEF SumTypeOK, Stride
  <1>4. IInv'
    BY <1>1, BarrierUnchanged
  <1>5. SumTypeOK'
    BY <1>1, <1>3 DEF SumTypeOK
  <1>6. ProgressInv'
    BY <1>1, <1>2 DEF ProgressInv, SumTypeOK, Stride
  <1>7. CellsInv'
    <2> SUFFICES ASSUME NEW k \in Indices
                 PROVE  /\ buffer[k] = Lockstep[Stored(k)'].buffer[k]
                        /\ at'[k] # "done"
                             => element'[k] = Lockstep[Settled(Stored(k)')].element[k]
                        /\ at'[k] = "done" => element'[k] = Lockstep[step[k]].element[k]
      BY <1>1 DEF CellsInv, Settled
    <2>1. CASE k # i
      <3>1. at'[k] = at[k] /\ Stored(k)' = Stored(k) /\ element'[k] = element[k]
        BY <1>1, <1>3, <2>1 DEF SumTypeOK, Stored
      <3> QED
        BY <3>1 DEF CellsInv
    <2>2. CASE k = i
      <3>1. Stored(i)' = t /\ Stored(i) = t /\ at'[i] = "done"
        BY <1>1 DEF SumTypeOK, Stored
      <3>2. /\ buffer[i] = Lockstep[t].buffer[i]
            /\ element[i] = Lockstep[Settled(t)].element[i]
        BY <1>1, <3>1 DEF CellsInv
      <3>3. CASE t % 2 = 0
        BY <1>1, <2>2, <3>1, <3>2, <3>3 DEF Settled
      <3>4. CASE t % 2 = 1
        <4>1. t > 0 /\ t - 1 \in Nat /\ (t - 1) + 1 = t
          BY <1>3, <3>4
        <4>2. (t - 1) % 2 = 0 /\ StrideIn[t - 1] <= i
          <5>1. StrideIn[t - 1] <= i
            BY <4>1 DEF ProgressInv
          <5> QED
            BY <3>4, <4>1, <5>1, Parity
        <4>3. Lockstep[t].element[i] = Lockstep[t].buffer[i]
          BY <1>3, <4>1, <4>2, LockstepStep
        <4>4. element'[i] = buffer[i]
          BY <1>1, <3>4, <4>1 DEF SumTypeOK
        <4> QED
          BY <2>2, <3>1, <3>2, <4>3, <4>4
      <3> QED
        BY <1>3, <3>3, <3>4
    <2> QED
      BY <2>1, <2>2
  <1>8. OperandsInv'
    BY <1>1 DEF OperandsInv, SumTypeOK, OddStep, Stride
  <1> QED
    BY <1>4, <1>5, <1>6, <1>7, <1>8

\* Resigning from the barrier.
LEMMA CallDoneInv == ASSUME SumInv, NEW i \in Indices, CallDone(i) PROVE SumInv'
  <1> USE DEF SumInv
  <1>1. /\ pc[i] = "work" /\ at[i] = "done" /\ Resign(i)
        /\ pc' = [pc EXCEPT ![i] = "leave"]
        /\ resigned' = resigned \cup {i}
        /\ UNCHANGED <<element, buffer, at, step, sum, arrivals>>
    BY DEF CallDone, Runs, Resign, Goto, sumVars
  <1>2. IInv'
    BY <1>1, ResignInv, IndicesAre
  <1>3. \A k \in Indices : pc'[k] = IF k = i THEN "leave" ELSE pc[k]
    BY <1>1, IndicesAre DEF IInv, TypeOK
  <1>4. ProgressInv'
    BY <1>1, <1>3 DEF ProgressInv, Stride
  <1>5. SumTypeOK' /\ CellsInv' /\ OperandsInv'
    BY <1>1 DEF SumTypeOK, CellsInv, OperandsInv, Stored, Settled, OddStep, Stride
  <1> QED
    BY <1>2, <1>4, <1>5

\* The barrier's own steps: arriving at a wait completes the step.
LEMMA BarrierStepInv == ASSUME SumInv, NEW i \in Indices, BarrierStep(i) PROVE SumInv'
  <1> USE DEF SumInv
  <1>1. Inside(i) /\ UNCHANGED <<element, buffer, at, step, sum>>
    BY DEF BarrierStep, sumVars
  <1>2. IInv'
    BY <1>1, ReadGenerationInv, ArriveInv, SpinInv, LeaveInv, LoadCountInv,
       StoreSpacesInv, OpenInv, IndicesAre DEF Inside
  <1>3. SumTypeOK' /\ CellsInv' /\ OperandsInv'
    BY <1>1 DEF SumTypeOK, CellsInv, OperandsInv, Stored, Settled, OddStep, Stride
  <1>4. /\ pc[i] # "work" /\ resigned' = resigned
        /\ \A k \in Indices \ {i} : pc'[k] = pc[k] /\ arrivals'[k] = arrivals[k]
    BY <1>1, IndicesAre DEF Inside, ReadGeneration, Arrive, Spin, Leave, LoadCount,
       StoreSpaces, Open, TakeSpace, Return, Goto, IInv, TypeOK
  <1>5. /\ pc'[i] \in {"read", "arrive"} => arrivals'[i] + 1 = step[i]
        /\ pc'[i] \notin {"read", "arrive"} => arrivals'[i] = step[i]
        /\ pc'[i] = "work" \/ i \in resigned \/ at[i] # "done"
    <2>1. /\ pc[i] \in {"read", "arrive"} => arrivals[i] + 1 = step[i]
          /\ pc[i] \notin {"read", "arrive"} => arrivals[i] = step[i]
          /\ i \in resigned \/ at[i] # "done"
      BY <1>4 DEF ProgressInv
    <2>2. pc \in [Indices -> PCs] /\ arrivals \in [Indices -> Nat]
      BY IndicesAre DEF IInv, TypeOK
    <2>3. CASE ReadGeneration(i)
      BY <2>1, <2>2, <2>3 DEF ReadGeneration, Goto
    <2>4. CASE Arrive(i)
      BY <2>1, <2>2, <2>4 DEF Arrive, TakeSpace, Goto
    <2>5. CASE Spin(i) \/ Open(i)
      BY <2>1, <2>2, <2>5 DEF Spin, Open, Return, Goto
    <2>6. CASE Leave(i)
      BY <2>1, <2>2, <2>6 DEF Leave, TakeSpace, Goto
    <2>7. CASE LoadCount(i) \/ StoreSpaces(i)
      BY <2>1, <2>2, <2>7 DEF LoadCount, StoreSpaces, Goto
    <2> QED
      BY <1>1, <2>3, <2>4, <2>5, <2>6, <2>7 DEF Inside
  <1>6. ProgressInv'
    <2> SUFFICES ASSUME NEW k \in Indices
                 PROVE  /\ pc'[k] \in {"read", "arrive"} => arrivals'[k] + 1 = step[k]
                        /\ pc'[k] \notin {"read", "arrive"} => arrivals'[k] = step[k]
                        /\ at[k] \in {"store", "wait"} => pc'[k] = "work" /\ Stride(k) <= k
                        /\ at[k] = "done"
                             => (pc'[k] = "work" \/ k \in resigned) /\ Stride(k) > k
                        /\ k \in resigned => at[k] = "done"
                        /\ step[k] > 0 => StrideIn[step[k] - 1] <= k
      BY <1>1, <1>4 DEF ProgressInv, Stride
    <2>1. CASE k = i
      BY <1>4, <1>5, <2>1 DEF ProgressInv
    <2>2. CASE k # i
      BY <1>4, <2>2 DEF ProgressInv
    <2> QED
      BY <2>1, <2>2
  <1> QED
    BY <1>2, <1>3, <1>6

\* SumInv holds of every reachable state of the partial sum.
THEOREM SumInvariance == SpecSum => []SumInv
  <1>1. SumInv /\ [NextSum]_allVars => SumInv'
    <2> SUFFICES ASSUME SumInv, [NextSum]_allVars PROVE SumInv'
      OBVIOUS
    <2>1. ASSUME NEW i \in Indices, ThreadStep(i) PROVE SumInv'
      BY <2>1, ReadOperandsInv, StoreSumInv, CallBarrierInv, CopyBackInv, CallDoneInv,
         BarrierStepInv DEF ThreadStep
    <2>2. CASE UNCHANGED allVars
      <3>1. IInv'
        BY <2>2, BarrierUnchanged DEF SumInv, allVars
      <3>2. SumTypeOK' /\ ProgressInv' /\ CellsInv' /\ OperandsInv'
        BY <2>2 DEF SumInv, SumTypeOK, ProgressInv, CellsInv, OperandsInv, Stored,
           Settled, OddStep, Stride, allVars, sumVars, vars
      <3> QED
        BY <3>1, <3>2 DEF SumInv
    <2> QED
      BY <2>1, <2>2 DEF NextSum
  <1> QED
    BY <1>1, InitSumInv, PTL DEF SpecSum

-----------------------------------------------------------------------------
(* The results.                                                          *)

\* To its barrier, list 8.13 is one of the clients that Barrier allows.
LEMMA SumUsesTheBarrier == SpecSum => Spec
  <1>1. InitSum => Init
    BY DEF InitSum
  <1>2. [NextSum]_allVars => [Next]_vars
    <2> SUFFICES ASSUME [NextSum]_allVars PROVE [Next]_vars
      OBVIOUS
    <2>1. ASSUME NEW i \in Indices, ThreadStep(i) PROVE [Next]_vars
      BY <2>1, IndicesAre DEF ThreadStep, ReadOperands, StoreSum, CallBarrier, CopyBack,
         CallDone, BarrierStep, Next, Step
    <2>2. CASE UNCHANGED allVars
      BY <2>2 DEF allVars
    <2> QED
      BY <2>1, <2>2 DEF NextSum
  <1> QED
    BY <1>1, <1>2, PTL DEF SpecSum, Spec

\* Under the threads of the partial sum the barrier is the abstract one: those that call
\* b.wait() are let out together, when every thread has called it or b.done_waiting().
THEOREM SumBarrierIsImplemented == SpecSum => ImplementsBarrier
  BY SumUsesTheBarrier, BarrierIsImplemented

\* The barrier of the partial sum holds: nobody is back from its n-th b.wait()
\* before everybody has arrived at it or called b.done_waiting().
THEOREM SumBarrierHolds == SpecSum => []BarrierHolds
  BY SumUsesTheBarrier, BarrierCorrect, PTL

\* No thread writes a cell that another is about to read or to write: two threads
\* at work are in the same step, which reads and writes different arrays.
THEOREM SumHasNoDataRace == SpecSum => []NoDataRace
  <1>1. SumInv => NoDataRace
    <2> SUFFICES ASSUME SumInv, NEW i \in Indices, NEW j \in Indices, i # j,
                        NEW c \in Writes(i), c \in Reads(j) \cup Writes(j)
                 PROVE  FALSE
      BY DEF NoDataRace
    <2>1. /\ pc[i] = "work"
          /\ \/ c = Elem(i) /\ OddStep(i)
             \/ c = Buff(i) /\ ~OddStep(i)
      BY DEF Writes, Runs
    <2>2. Elem(i) # Buff(i) /\ Elem(i) # Elem(j) /\ Elem(i) # Buff(j)
            /\ Buff(i) # Elem(j) /\ Buff(i) # Buff(j)
      BY DEF Elem, Buff
    <2>3. c \notin {Elem(j), Buff(j)}
      BY <2>1, <2>2
    <2>4. Writes(j) \subseteq {Elem(j), Buff(j)}
      BY DEF Writes
    <2>5. /\ pc[j] = "work"
          /\ c \in IF OddStep(j) THEN {Buff(j - Stride(j))} ELSE {Elem(j - Stride(j))}
      BY <2>3, <2>4 DEF Reads, Runs
    <2>6. step[i] = step[j]
      BY <2>1, <2>5, NobodyIsAhead
    <2> QED
      BY <2>1, <2>5, <2>6 DEF OddStep, Elem, Buff
  <1> QED
    BY <1>1, SumInvariance, PTL

\* The elements that parallel_partial_sum leaves are those of the threads run in
\* lockstep, whatever order the operating system has run them in.
THEOREM SumHasOneResult == SpecSum => []SameInEverySchedule
  <1>1. SumInv => SameInEverySchedule
    <2> SUFFICES ASSUME SumInv, Finished PROVE element = Lockstep[Length].element
      BY DEF SameInEverySchedule
    <2>1. ASSUME NEW i \in Indices
          PROVE  element[i] = Lockstep[Length].element[i]
      <3>1. at[i] = "done" /\ StrideIn[step[i]] > i /\ step[i] \in Nat
        BY IndicesAre
        DEF SumInv, IInv, ResignedInv, ProgressInv, SumTypeOK, Stride, Finished
      <3>2. step[i] <= Length
        <4>1. CASE step[i] > 0
          <5>1. step[i] - 1 \in Nat /\ StrideIn[step[i] - 1] <= i
            BY <3>1, <4>1 DEF SumInv, ProgressInv
          <5> QED
            BY <3>1, <5>1, StrideGrows, IndicesAre
        <4> QED
          BY <3>1, <4>1, IndicesAre
      <3>3. Lockstep[Length].element[i] = Lockstep[step[i]].element[i]
        BY <3>1, <3>2, LockstepStops, IndicesAre
      <3> QED
        BY <3>1, <3>3 DEF SumInv, CellsInv
    <2>2. element \in [Indices -> Nat] /\ Lockstep[Length].element \in [Indices -> Nat]
      BY LockstepUnfolds, IndicesAre DEF SumInv, SumTypeOK, Memory
    <2> QED
      BY <2>1, <2>2
  <1> QED
    BY <1>1, SumInvariance, PTL

-----------------------------------------------------------------------------
(* ForkJoin: the tree of the activations.                                *)

LeafSts == {"leaf", "flag", "wait", "set", "rest", "end", "fail"}
Sts     == LeafSts \cup {"fork", "own", "join", "get", "leave", "ready", "ended"}
Fields  == {"lo", "hi", "by", "init", "st", "k", "joined", "res"}
IsNode(n) ==
    /\ n = [f \in Fields |-> n[f]]
    /\ n.lo \in Int /\ n.hi \in Int /\ n.k \in Nat /\ n.joined \in BOOLEAN
    /\ n.st \in Sts /\ n.by \in {"caller", "thread", "inline", "deferred"}

\* A step of p that makes no activation.
Moved(p) ==
    /\ DOMAIN node' = DOMAIN node
    /\ \A q \in DOMAIN node : q # p => node'[q] = node[q]
    /\ IsNode(node'[p])
    /\ node'[p].lo = node[p].lo /\ node'[p].hi = node[p].hi
    /\ node'[p].by = node[p].by /\ node'[p].init = node[p].init
To(p, s, k, r, j) ==
    node'[p].st = s /\ node'[p].k = k /\ node'[p].res = r /\ node'[p].joined = j

\* Go: the activation is in state s, and counts from 0 again.
LEMMA GoMoves ==
    ASSUME NEW p \in DOMAIN node, IsNode(node[p]), NEW s \in Sts, FJ!Go(p, s)
    PROVE  Moved(p) /\ To(p, s, 0, node[p].res, node[p].joined)
  BY DEF FJ!Go, IsNode, Moved, To, Fields

\* Leave: it has its result, and its locals are still to be destroyed.
LEMMA LeaveMoves ==
    ASSUME NEW p \in DOMAIN node, IsNode(node[p]), NEW r, FJ!Leave(p, r)
    PROVE  Moved(p) /\ To(p, "leave", node[p].k, r, node[p].joined)
  BY DEF FJ!Leave, IsNode, Moved, To, Fields, Sts

\* Where an activation is once it has its result.
Gone(n) == IF n.by = "thread" /\ list.task THEN "ready" ELSE "ended"

\* Return: it is over, but for the thread of a future.
LEMMA ReturnMoves ==
    ASSUME NEW p \in DOMAIN node, IsNode(node[p]), NEW r, FJ!Return(p, r)
    PROVE  Moved(p) /\ To(p, Gone(node[p]), node[p].k, r, node[p].joined)
  <1>1. PICK s : s = Gone(node[p])
    OBVIOUS
  <1>2. s \in Sts
    BY <1>1 DEF Sts, Gone
  <1>3. node' = [node EXCEPT ![p].res = r, ![p].st = s]
    BY <1>1 DEF FJ!Return, Gone
  <1>4. Moved(p) /\ To(p, s, node[p].k, r, node[p].joined)
    BY <1>2, <1>3 DEF IsNode, Moved, To, Fields
  <1> QED
    BY <1>1, <1>4

\* NextElement and GetPart: it counts on.
LEMMA CountMoves ==
    ASSUME NEW p \in DOMAIN node, IsNode(node[p]), node' = [node EXCEPT ![p].k = @ + 1]
    PROVE  Moved(p) /\ To(p, node[p].st, node[p].k + 1, node[p].res, node[p].joined)
  BY DEF IsNode, Moved, To, Fields

\* Join: it asks for the results, and has joined its threads.
LEMMA JoinMoves ==
    ASSUME NEW p \in DOMAIN node, IsNode(node[p]),
           node' = [node EXCEPT ![p].st = "get", ![p].joined = TRUE]
    PROVE  Moved(p) /\ To(p, "get", node[p].k, node[p].res, TRUE)
  BY DEF IsNode, Moved, To, Fields, Sts

\* ThreadExits: it is over.
LEMMA ExitMoves ==
    ASSUME NEW p \in DOMAIN node, IsNode(node[p]), node' = [node EXCEPT ![p].st = "ended"]
    PROVE  Moved(p) /\ To(p, "ended", node[p].k, node[p].res, node[p].joined)
  BY DEF IsNode, Moved, To, Fields, Sts

\* The path of the i-th part of p leads to p and to i, and to no other.
LEMMA PathFacts ==
    ASSUME NEW p \in Seq(Nat), NEW i \in Nat
    PROVE  /\ FJ!Front(Append(p, i)) = p /\ FJ!Last(Append(p, i)) = i
           /\ Append(p, i) # FJ!Root /\ Append(p, i) # p /\ Append(p, i) \in Seq(Nat)
           /\ Len(Append(p, i)) = Len(p) + 1
           /\ \A q \in Seq(Nat), j \in Nat : Append(p, i) = Append(q, j) => p = q /\ i = j
  BY AppendProperties, AppendInjective DEF FJ!Front, FJ!Last, FJ!Root

\* A path other than that of the call is the path of a part.
LEMMA PathSplits ==
    ASSUME NEW q \in Seq(Nat), q # FJ!Root
    PROVE  FJ!Front(q) \in Seq(Nat) /\ FJ!Last(q) \in Nat /\ q = Append(FJ!Front(q), FJ!Last(q))
  <1>1. PICK s \in Seq(Nat), i \in Nat : q = Append(s, i)
    BY SequenceEmptyOrAppend DEF FJ!Root
  <1> QED
    BY <1>1, PathFacts

\* A new activation is a leaf or about to start its parts; it has done nothing yet.
LEMMA NewNodeIs ==
    ASSUME NEW p, NEW lo \in Int, NEW hi \in Int, NEW init,
           NEW by \in {"caller", "thread", "inline", "deferred"}, NEW n,
           n = FJ!NewNode(p, lo, hi, by, init)
    PROVE  /\ IsNode(n) /\ n.lo = lo /\ n.hi = hi /\ n.by = by /\ n.init = init
           /\ n.k = 0 /\ n.joined = FALSE /\ n.res = FJ!None
           /\ FJ!IsLeaf(p, lo, hi) => n.st = "leaf"
           /\ ~FJ!IsLeaf(p, lo, hi) => n.st = "fork"
  BY DEF FJ!NewNode, IsNode, Fields, Sts, LeafSts

\* What the call is given.
ChosenOK ==
    /\ list \in FJ!Lists /\ length \in Nat /\ blocks \in Nat \ {0}
    /\ ~FJ!Halves => blocks <= length \/ (length = 0 /\ blocks = 1)
    /\ outcome \in [0 .. length - 1 -> FJ!Outcomes(list)]

\* How many threads an activation starts.
Others == IF FJ!Halves THEN 1 ELSE blocks - 1

\* Forks does not depend on the range.
LEMMA ForksAre ==
    ASSUME ChosenOK, NEW n
    PROVE  FJ!Forks(n) = Others /\ Others \in Nat /\ Others + 1 \in Nat
  BY DEF ChosenOK, FJ!Forks, FJ!Parts, Others

IsKid(p, i) == Append(p, i) \in DOMAIN node
Kid(p, i) == node[Append(p, i)]

\* An activation that is deferred, and has not been asked for.
Unstarted(n) == n.st \in {"leaf", "fork"} /\ n.k = 0

PlaceOK(p) ==
    /\ p \in Seq(Nat) /\ IsNode(node[p])
    /\ p = FJ!Root <=> node[p].by = "caller"
    /\ node[p].by # "thread" => node[p].st # "ready"
    /\ node[p].by = "deferred" => FJ!Halves
    /\ p = FJ!Root => node[p].lo = 0 /\ node[p].hi = length /\ node[p].init = <<"init">>
    /\ p # FJ!Root => \E r \in DOMAIN node : \E i \in 1 .. Others + 1 : p = Append(r, i)
    /\ node[p].st \in LeafSts => FJ!IsLeaf(p, node[p].lo, node[p].hi)
    /\ node[p].st \in {"fork", "own", "join", "get"} => ~FJ!IsLeaf(p, node[p].lo, node[p].hi)
    /\ node[p].st = "leave" =>
           ~FJ!IsLeaf(p, node[p].lo, node[p].hi) \/ (p = FJ!Root /\ list.does = "prefix")
    /\ node[p].st = "fork" => /\ node[p].k <= Others /\ \A i \in 1 .. node[p].k : IsKid(p, i)
                              /\ ~node[p].joined
    /\ node[p].st \in {"own", "join", "get"} => \A i \in 1 .. Others + 1 : IsKid(p, i)

\* What the activation n of p and its i-th child m know of each other, and what is so
\* for ever.
BornOK(p, n, i, m) ==
    /\ i \in 1 .. Others + 1
    /\ ~FJ!IsLeaf(p, n.lo, n.hi)
    /\ m.by = "inline" <=> i = Others + 1
    /\ m.by # "caller"
    /\ m.lo = FJ!Parts(n)[i][1] /\ m.hi = FJ!Parts(n)[i][2]
    /\ m.init = IF FJ!Halves /\ i = 1 THEN n.init ELSE <<>>

AgeOK(n, i, m, asked) ==
    /\ n.st = "fork" => i <= n.k
    /\ m.by = "inline" => n.st = "own" \/ m.st = "ended"
    /\ m.by = "thread" /\ (n.joined \/ n.st \in {"ready", "ended"}) => m.st = "ended"
    /\ m.by = "deferred" => Unstarted(m) \/ m.st = "ended" \/ asked

KidOK(p, i) == BornOK(p, node[p], i, Kid(p, i)) /\ AgeOK(node[p], i, Kid(p, i), FJ!InGet(p, i))

Tree ==
    /\ ChosenOK
    /\ FJ!Root \in DOMAIN node
    /\ \A p \in DOMAIN node : PlaceOK(p)
    /\ \A p \in DOMAIN node : \A i \in Nat : IsKid(p, i) => KidOK(p, i)

\* A step of p is At p.
Moving(p) ==
    /\ p \in DOMAIN node /\ node[p].st # "ended"
    /\ node[p].by = "deferred" =>
           \A r \in DOMAIN node : \A i \in Nat : p = Append(r, i) => FJ!InGet(r, i)

\* An activation that is At a state other than "ended" may move.
LEMMA AtMoves ==
    ASSUME Tree, NEW p \in DOMAIN node, NEW s, s # "ended", FJ!At(p, s)
    PROVE  Moving(p) /\ node[p].st = s /\ ~died
  <1>1. \A r \in DOMAIN node : \A i \in Nat :
            p = Append(r, i) => FJ!Front(p) = r /\ FJ!Last(p) = i
    BY PathFacts DEF Tree, PlaceOK
  <1> QED
    BY <1>1 DEF FJ!At, Moving

\* A get() that another activation is in goes on, since its own part has ended.
LEMMA InGetStays ==
    ASSUME Tree, NEW p \in DOMAIN node, Moving(p), NEW r \in DOMAIN node, NEW i \in Nat, r # p,
           FJ!InGet(r, i), DOMAIN node \subseteq DOMAIN node', UNCHANGED <<list, blocks>>,
           \A q \in DOMAIN node : q # p => node'[q] = node[q],
           node'[p].lo = node[p].lo /\ node'[p].hi = node[p].hi
    PROVE  FJ!InGet(r, i)'
  <1>1. FJ!InlineKid(r) = Append(r, Others + 1) /\ FJ!InlineKid(r)' = Append(r, Others + 1)
    <2>1. FJ!Forks(node[r]) = Others /\ FJ!Forks(node'[r]) = Others
      BY ForksAre DEF Tree
    <2>2. FJ!Forks(node[r])' = FJ!Forks(node'[r])
      BY DEF FJ!Forks, FJ!Parts, FJ!Halves
    <2> QED
      BY <2>1, <2>2 DEF FJ!InlineKid
  <1>2. IsKid(r, Others + 1) /\ Others + 1 \in Nat
    <2>1. node[r].st = "get" /\ PlaceOK(r) /\ Others + 1 \in Nat
      BY ForksAre DEF FJ!InGet, Tree
    <2> QED
      BY <2>1, ForksAre DEF PlaceOK, Tree
  <1>3. KidOK(r, Others + 1)
    BY <1>2 DEF Tree
  <1>4. Kid(r, Others + 1).st = "ended"
    BY <1>3 DEF KidOK, AgeOK, BornOK, FJ!InGet
  <1>5. Append(r, Others + 1) # p
    BY <1>4 DEF Moving, Kid
  <1>6. node'[Append(r, Others + 1)] = node[Append(r, Others + 1)]
    BY <1>2, <1>5 DEF IsKid
  <1> QED
    BY <1>1, <1>6 DEF FJ!InGet

\* The step of an activation changes nothing between the others and their parts, nor
\* between its parent and itself.
LEMMA OthersStay ==
    ASSUME Tree, NEW p \in DOMAIN node, Moving(p), UNCHANGED <<list, blocks>>,
           DOMAIN node \subseteq DOMAIN node',
           \A q \in DOMAIN node : q # p => node'[q] = node[q],
           node'[p].lo = node[p].lo /\ node'[p].hi = node[p].hi,
           node'[p].by = node[p].by /\ node'[p].init = node[p].init,
           NEW r \in DOMAIN node, NEW i \in Nat, r # p, IsKid(r, i)
    PROVE  KidOK(r, i)'
  <1>1. BornOK(r, node[r], i, Kid(r, i)) /\ AgeOK(node[r], i, Kid(r, i), FJ!InGet(r, i))
    BY DEF Tree, KidOK
  <1>2. node'[r] = node[r]
    OBVIOUS
  <1>3. /\ Kid(r, i)'.lo = Kid(r, i).lo /\ Kid(r, i)'.hi = Kid(r, i).hi
        /\ Kid(r, i)'.by = Kid(r, i).by /\ Kid(r, i)'.init = Kid(r, i).init
    BY DEF IsKid, Kid
  <1>4. Others' = Others /\ FJ!Parts(node[r])' = FJ!Parts(node'[r])
        /\ FJ!IsLeaf(r, node[r].lo, node[r].hi)' = FJ!IsLeaf(r, node'[r].lo, node'[r].hi)
        /\ (FJ!Halves' <=> FJ!Halves)
    BY DEF Others, FJ!Parts, FJ!IsLeaf, FJ!Halves
  <1>5. BornOK(r, node[r], i, Kid(r, i))'
    BY <1>1, <1>2, <1>3, <1>4 DEF BornOK
  <1>6. AgeOK(node[r], i, Kid(r, i), FJ!InGet(r, i))'
    <2>1. CASE Append(r, i) # p
      <3>1. Kid(r, i)' = Kid(r, i)
        BY <2>1 DEF Kid, IsKid
      <3>2. FJ!InGet(r, i) => FJ!InGet(r, i)'
        BY InGetStays
      <3> QED
        BY <1>1, <1>2, <3>1, <3>2 DEF AgeOK
    <2>2. CASE Append(r, i) = p
      <3>1. Kid(r, i).st # "ended"
        BY <2>2 DEF Moving, Kid
      <3>2. node[p].by = "deferred" => FJ!InGet(r, i)'
        BY <2>2, InGetStays DEF Moving
      <3>3. Kid(r, i) = node[p] /\ Kid(r, i)'.by = node[p].by
        BY <2>2, <1>3 DEF Kid
      <3> QED
        BY <1>1, <1>2, <3>1, <3>2, <3>3 DEF AgeOK
    <2> QED
      BY <2>1, <2>2
  <1> QED
    BY <1>5, <1>6 DEF KidOK

\* A step that makes no activation keeps the tree, if it keeps what the activation
\* and its own parts know of each other.
LEMMA MovedTree ==
    ASSUME Tree, NEW p \in DOMAIN node, Moving(p), Moved(p), UNCHANGED FJ!chosen,
           PlaceOK(p)',
           \A i \in Nat : IsKid(p, i) => AgeOK(node[p], i, Kid(p, i), FJ!InGet(p, i))'
    PROVE  Tree'
  <1>1. UNCHANGED <<list, length, blocks, outcome>>
    BY DEF FJ!chosen
  <1>2. ChosenOK'
    BY <1>1 DEF Tree, ChosenOK, FJ!Halves
  <1>3. /\ Others' = Others /\ (FJ!Halves' <=> FJ!Halves)
        /\ \A q, lo, hi : FJ!IsLeaf(q, lo, hi)' <=> FJ!IsLeaf(q, lo, hi)
        /\ \A q, i : IsKid(q, i)' <=> IsKid(q, i)
    BY <1>1 DEF Others, FJ!IsLeaf, FJ!Halves, Moved, IsKid
  <1>4. ASSUME NEW q \in DOMAIN node, q # p PROVE PlaceOK(q)'
    <2>1. PlaceOK(q) /\ node'[q] = node[q] /\ DOMAIN node' = DOMAIN node
      BY <1>4 DEF Tree, Moved
    <2> QED
      BY <1>1, <1>3, <2>1 DEF PlaceOK
  <1>5. ASSUME NEW i \in Nat, IsKid(p, i) PROVE KidOK(p, i)'
    <2>1. BornOK(p, node[p], i, Kid(p, i)) /\ Append(p, i) # p
      BY <1>5, PathFacts DEF Tree, KidOK, PlaceOK
    <2>2. Kid(p, i)' = Kid(p, i)
      BY <1>5, <2>1 DEF Moved, Kid, IsKid
    <2>3. FJ!Parts(node[p])' = FJ!Parts(node[p])
      BY <1>1 DEF Moved, FJ!Parts, FJ!Halves
    <2>4. BornOK(p, node[p], i, Kid(p, i))'
      BY <1>3, <2>1, <2>2, <2>3 DEF BornOK, Moved
    <2> QED
      BY <1>5, <2>4 DEF KidOK
  <1>6. ASSUME NEW r \in DOMAIN node, r # p, NEW i \in Nat, IsKid(r, i) PROVE KidOK(r, i)'
    BY <1>1, <1>6, OthersStay DEF Moved
  <1>7. DOMAIN node' = DOMAIN node
    BY DEF Moved
  <1> QED
    BY <1>2, <1>3, <1>4, <1>5, <1>6, <1>7 DEF Tree

\* What a leaf does to the tree.
LeafMove(p) ==
    /\ Moving(p) /\ Moved(p) /\ node[p].st \in LeafSts
    /\ node'[p].joined = node[p].joined
    /\ \/ node'[p].st \in LeafSts
       \/ node'[p].st = Gone(node[p])
       \/ p = FJ!Root /\ list.does = "prefix" /\ node'[p].st = "leave"

\* A leaf has no parts: its steps keep the tree.
LEMMA LeafTree ==
    ASSUME Tree, NEW p \in DOMAIN node, LeafMove(p), UNCHANGED FJ!chosen
    PROVE  Tree'
  <1>1. UNCHANGED <<list, length, blocks, outcome>>
    BY DEF FJ!chosen
  <1>2. \A i \in Nat : ~IsKid(p, i)
    BY DEF Tree, PlaceOK, LeafMove, KidOK, BornOK
  <1>3. \A i \in Nat : ~IsKid(p, i)'
    BY <1>2 DEF IsKid, LeafMove, Moved
  <1>4. PlaceOK(p)'
    <2>1. PlaceOK(p) /\ DOMAIN node' = DOMAIN node /\ FJ!IsLeaf(p, node[p].lo, node[p].hi)
      BY DEF Tree, LeafMove, Moved, PlaceOK
    <2>2. /\ Others' = Others /\ (FJ!Halves' <=> FJ!Halves)
          /\ FJ!IsLeaf(p, node[p].lo, node[p].hi)' <=> FJ!IsLeaf(p, node[p].lo, node[p].hi)
      BY <1>1 DEF Others, FJ!IsLeaf, FJ!Halves, LeafMove, Moved
    <2>3. node'[p].st \notin {"fork", "own", "join", "get"}
      BY DEF LeafMove, LeafSts, Gone
    <2>4. /\ node[p].by # "thread" => node'[p].st # "ready"
          /\ node'[p].st = "leave" => p = FJ!Root /\ list.does = "prefix"
      BY DEF LeafMove, LeafSts, Gone
    <2>5. /\ node'[p].lo = node[p].lo /\ node'[p].hi = node[p].hi /\ IsNode(node'[p])
          /\ node'[p].by = node[p].by /\ node'[p].init = node[p].init
      BY DEF LeafMove, Moved
    <2> QED
      BY <1>1, <2>1, <2>2, <2>3, <2>4, <2>5 DEF PlaceOK
  <1> QED
    BY <1>2, <1>4, MovedTree DEF LeafMove

\* The steps of a leaf.
LeafSteps(p) ==
    \/ FJ!Accumulate(p) \/ FJ!ForEach(p)
    \/ FJ!GiveUp(p) \/ FJ!NextElement(p) \/ FJ!Decide(p) \/ FJ!SetFlag(p) \/ FJ!DecideAsync(p)
    \/ FJ!SumChunk(p) \/ FJ!AddToLast(p) \/ FJ!SetEndValue(p) \/ FJ!AddToRest(p) \/ FJ!EndChunk(p)
    \/ FJ!Fail(p)

\* A leaf only counts, goes on to another phase or comes to its end.
LEMMA LeafGoes ==
    ASSUME Tree, NEW p \in DOMAIN node, NEW s \in LeafSts, FJ!At(p, s),
           \/ \E r : FJ!Return(p, r)
           \/ \E t \in LeafSts : FJ!Go(p, t)
           \/ node' = [node EXCEPT ![p].k = @ + 1]
    PROVE  LeafMove(p)
  <1>1. Moving(p) /\ node[p].st = s /\ IsNode(node[p])
    BY AtMoves DEF LeafSts, Tree, PlaceOK
  <1>2. ASSUME NEW r, FJ!Return(p, r) PROVE LeafMove(p)
    BY <1>1, <1>2, ReturnMoves DEF LeafMove, To
  <1>3. ASSUME NEW t \in LeafSts, FJ!Go(p, t) PROVE LeafMove(p)
    BY <1>1, <1>3, GoMoves DEF LeafMove, To, Sts
  <1>4. CASE node' = [node EXCEPT ![p].k = @ + 1]
    BY <1>1, <1>4, CountMoves DEF LeafMove, To
  <1> QED
    BY <1>2, <1>3, <1>4

\* So do all the steps of a leaf, unless the program ends.
LEMMA LeafStepMoves ==
    ASSUME Tree, NEW p \in DOMAIN node, LeafSteps(p)
    PROVE  UNCHANGED FJ!chosen /\ (LeafMove(p) \/ UNCHANGED node)
  <1> USE DEF LeafSts
  <1>1. CASE FJ!Accumulate(p)
    BY <1>1, LeafGoes DEF FJ!Accumulate, FJ!Throw
  <1>2. CASE FJ!ForEach(p)
    BY <1>2, LeafGoes DEF FJ!ForEach, FJ!Throw
  <1>3. CASE FJ!GiveUp(p) \/ FJ!NextElement(p) \/ FJ!Decide(p) \/ FJ!DecideAsync(p)
    BY <1>3, LeafGoes DEF FJ!GiveUp, FJ!NextElement, FJ!Decide, FJ!DecideAsync, FJ!Looking
  <1>4. CASE FJ!SetFlag(p)
    BY <1>4, LeafGoes DEF FJ!SetFlag
  <1>5. CASE FJ!SumChunk(p)
    BY <1>5, LeafGoes DEF FJ!SumChunk
  <1>6. CASE FJ!AddToLast(p) \/ FJ!SetEndValue(p)
    BY <1>6, LeafGoes DEF FJ!AddToLast, FJ!SetEndValue
  <1>7. CASE FJ!AddToRest(p) \/ FJ!EndChunk(p)
    BY <1>7, LeafGoes DEF FJ!AddToRest, FJ!EndChunk
  <1>8. CASE FJ!Fail(p)
    BY <1>8, LeafGoes DEF FJ!Fail, FJ!Throw
  <1> QED
    BY <1>1, <1>2, <1>3, <1>4, <1>5, <1>6, <1>7, <1>8 DEF LeafSteps

\* What a step of an activation that divides its range does, other than to start a part.
InnerMove(p, st) ==
    /\ Moving(p) /\ Moved(p) /\ UNCHANGED FJ!chosen /\ node[p].st = st /\ st # "ended"
    /\ node'[p].st # "fork" /\ node'[p].st \notin LeafSts

\* Such a step keeps the tree if the parts are as the new state wants them.
LEMMA InnerTree ==
    ASSUME Tree, NEW p \in DOMAIN node, NEW st, InnerMove(p, st),
           node'[p].st = "ready" => node[p].by = "thread",
           node'[p].st \in {"own", "join", "get"} => st \in {"own", "join", "get"},
           node'[p].st = "leave" =>
               st \in {"fork", "own", "join", "get"} \/ (p = FJ!Root /\ list.does = "prefix"),
           \A i \in Nat : IsKid(p, i) =>
               /\ Kid(p, i).by = "inline" => node'[p].st = "own" \/ Kid(p, i).st = "ended"
               /\ Kid(p, i).by = "thread" /\ (node'[p].joined \/ node'[p].st \in {"ready", "ended"})
                      => Kid(p, i).st = "ended"
               /\ Kid(p, i).by = "deferred" =>
                      Unstarted(Kid(p, i)) \/ Kid(p, i).st = "ended" \/ FJ!InGet(p, i)'
    PROVE  Tree'
  <1>1. UNCHANGED <<list, length, blocks, outcome>>
    BY DEF FJ!chosen, InnerMove
  <1>2. PlaceOK(p)'
    <2>1. /\ PlaceOK(p) /\ DOMAIN node' = DOMAIN node /\ IsNode(node'[p])
          /\ node'[p].lo = node[p].lo /\ node'[p].hi = node[p].hi
          /\ node'[p].by = node[p].by /\ node'[p].init = node[p].init
      BY DEF Tree, InnerMove, Moved, PlaceOK
    <2>2. /\ Others' = Others /\ (FJ!Halves' <=> FJ!Halves)
          /\ FJ!IsLeaf(p, node[p].lo, node[p].hi)' <=> FJ!IsLeaf(p, node[p].lo, node[p].hi)
      BY <1>1, <2>1 DEF Others, FJ!IsLeaf, FJ!Halves
    <2> QED
      BY <1>1, <2>1, <2>2 DEF PlaceOK, InnerMove, IsKid
  <1>3. \A i \in Nat : IsKid(p, i) => AgeOK(node[p], i, Kid(p, i), FJ!InGet(p, i))'
    <2> SUFFICES ASSUME NEW i \in Nat, IsKid(p, i)
                 PROVE  AgeOK(node[p], i, Kid(p, i), FJ!InGet(p, i))'
      OBVIOUS
    <2>1. Append(p, i) # p
      BY PathFacts DEF Tree, PlaceOK
    <2>2. Kid(p, i)' = Kid(p, i)
      BY <2>1 DEF InnerMove, Moved, Kid, IsKid
    <2> QED
      BY <2>2 DEF AgeOK, InnerMove
  <1> QED
    BY <1>2, <1>3, MovedTree DEF InnerMove

\* What the tree says of a part.
LEMMA KidsAre ==
    ASSUME Tree, NEW p \in DOMAIN node, NEW i \in Nat, IsKid(p, i)
    PROVE  /\ i \in 1 .. Others + 1 /\ Others \in Nat
           /\ Kid(p, i).by = "inline" <=> i = Others + 1
           /\ node[p].st = "fork" => Kid(p, i).by # "inline"
           /\ Kid(p, i).by = "inline" /\ node[p].st # "own" => Kid(p, i).st = "ended"
           /\ Kid(p, i).by = "thread" /\ (node[p].joined \/ node[p].st \in {"ready", "ended"})
                  => Kid(p, i).st = "ended"
           /\ Kid(p, i).by = "deferred" =>
                  /\ FJ!Halves /\ i = 1 /\ Kid(p, i).st # "ready"
                  /\ Unstarted(Kid(p, i)) \/ Kid(p, i).st = "ended" \/ FJ!InGet(p, i)
  <1>1. BornOK(p, node[p], i, Kid(p, i)) /\ AgeOK(node[p], i, Kid(p, i), FJ!InGet(p, i))
    BY DEF Tree, KidOK
  <1>2. PlaceOK(p) /\ PlaceOK(Append(p, i))
    BY DEF Tree, IsKid
  <1>3. Others \in Nat /\ (FJ!Halves => Others = 1)
    BY ForksAre DEF Tree, Others
  <1>4. i \in 1 .. Others + 1 /\ (Kid(p, i).by = "inline" <=> i = Others + 1)
    BY <1>1 DEF BornOK
  <1>5. ASSUME Kid(p, i).by = "deferred" PROVE FJ!Halves /\ i = 1 /\ Kid(p, i).st # "ready"
    <2>1. FJ!Halves /\ Kid(p, i).st # "ready"
      BY <1>2, <1>5 DEF PlaceOK, Kid
    <2> QED
      BY <1>3, <1>4, <1>5, <2>1
  <1>6. node[p].st = "fork" => node[p].k <= Others /\ node[p].k \in Nat
    BY <1>2 DEF PlaceOK, IsNode
  <1> QED
    BY <1>1, <1>3, <1>4, <1>5, <1>6 DEF AgeOK

\* A part on a thread is one of KidThreads.
LEMMA KidThreadsAre ==
    ASSUME Tree, NEW p \in DOMAIN node, NEW i \in Nat, IsKid(p, i), Kid(p, i).by = "thread"
    PROVE  Append(p, i) \in FJ!KidThreads(p)
  BY PathFacts DEF Tree, PlaceOK, FJ!KidThreads, FJ!Kids, IsKid, Kid

\* All parts have been started once the inline one has been called.
LEMMA InlineKidIs ==
    ASSUME Tree, NEW p \in DOMAIN node, node[p].st \in {"own", "join", "get"}
    PROVE  /\ FJ!InlineKid(p) = Append(p, Others + 1) /\ IsKid(p, Others + 1) /\ Others + 1 \in Nat
           /\ \A i \in 1 .. Others + 1 : IsKid(p, i)
  <1>1. FJ!Forks(node[p]) = Others /\ Others + 1 \in 1 .. Others + 1 /\ Others + 1 \in Nat
    BY ForksAre DEF Tree
  <1> QED
    BY <1>1 DEF Tree, PlaceOK, FJ!InlineKid

\* A thread has made its future ready and ends: its own parts have ended before.
LEMMA ExitsTree ==
    ASSUME Tree, NEW p \in DOMAIN node, FJ!ThreadExits(p)
    PROVE  Tree'
  <1>1. Moving(p) /\ node[p].st = "ready" /\ IsNode(node[p]) /\ node[p].by = "thread"
    BY AtMoves DEF FJ!ThreadExits, Tree, PlaceOK
  <1>2. Moved(p) /\ To(p, "ended", node[p].k, node[p].res, node[p].joined)
    BY <1>1, ExitMoves DEF FJ!ThreadExits
  <1>3. InnerMove(p, "ready")
    BY <1>1, <1>2 DEF InnerMove, FJ!ThreadExits, FJ!shared, FJ!chosen, To, LeafSts
  <1>4. \A i \in Nat : 
            IsKid(p, i) => \/ Kid(p, i).st = "ended"
                           \/ Unstarted(Kid(p, i)) /\ Kid(p, i).by = "deferred"
    <2> SUFFICES ASSUME NEW i \in Nat, IsKid(p, i)
                 PROVE  \/ Kid(p, i).st = "ended"
                        \/ Unstarted(Kid(p, i)) /\ Kid(p, i).by = "deferred"
      OBVIOUS
    <2>1. IsNode(Kid(p, i)) /\ Kid(p, i).by # "caller"
      BY DEF Tree, IsKid, Kid, PlaceOK, KidOK, BornOK
    <2>2. Kid(p, i).by \in {"thread", "inline", "deferred"}
      BY <2>1 DEF IsNode
    <2> QED
      BY <1>1, <2>2, KidsAre DEF FJ!InGet
  <1> QED
    BY <1>1, <1>2, <1>3, <1>4, InnerTree DEF To

\* The inline part has ended.
LEMMA OwnTree ==
    ASSUME Tree, NEW p \in DOMAIN node, FJ!OwnPartDone(p)
    PROVE  Tree'
  <1>1. /\ Moving(p) /\ node[p].st = "own" /\ IsNode(node[p]) /\ UNCHANGED FJ!chosen
        /\ node[FJ!InlineKid(p)].st = "ended"
    BY AtMoves DEF FJ!OwnPartDone, Tree, PlaceOK, FJ!Ended
  <1>2. /\ Moved(p) /\ node'[p].joined = node[p].joined
        /\ node'[p].st \in {"leave", "join", "get"}
    <2>1. \/ FJ!Leave(p, FJ!Exception)
          \/ FJ!Go(p, "join") \/ FJ!Go(p, "get")
      BY DEF FJ!OwnPartDone
    <2> QED
      BY <1>1, <2>1, LeaveMoves, GoMoves DEF To, Sts
  <1>3. InnerMove(p, "own")
    BY <1>1, <1>2 DEF InnerMove, LeafSts
  <1>4. \A i \in Nat : IsKid(p, i) =>
            /\ Kid(p, i).by = "inline" => Kid(p, i).st = "ended"
            /\ Kid(p, i).by = "thread" /\ node[p].joined => Kid(p, i).st = "ended"
            /\ Kid(p, i).by = "deferred" => Unstarted(Kid(p, i)) \/ Kid(p, i).st = "ended"
    BY <1>1, KidsAre, InlineKidIs DEF Kid, FJ!InGet
  <1> QED
    BY <1>1, <1>2, <1>3, <1>4, InnerTree

\* A thread that could not be started leaves the others running.
LEMMA ForkFailsTree ==
    ASSUME Tree, NEW p \in DOMAIN node, FJ!ForkFails(p)
    PROVE  Tree'
  <1>1. Moving(p) /\ node[p].st = "fork" /\ IsNode(node[p]) /\ UNCHANGED FJ!chosen
    BY AtMoves DEF FJ!ForkFails, Tree, PlaceOK
  <1>2. Moved(p) /\ To(p, "leave", node[p].k, FJ!Exception, node[p].joined)
    BY <1>1, LeaveMoves DEF FJ!ForkFails
  <1>3. InnerMove(p, "fork")
    BY <1>1, <1>2 DEF InnerMove, LeafSts, To
  <1>4. \A i \in Nat : IsKid(p, i) =>
            /\ Kid(p, i).by # "inline"
            /\ Kid(p, i).by = "thread" /\ node[p].joined => Kid(p, i).st = "ended"
            /\ Kid(p, i).by = "deferred" => Unstarted(Kid(p, i)) \/ Kid(p, i).st = "ended"
    BY <1>1, KidsAre DEF FJ!InGet
  <1> QED
    BY <1>1, <1>2, <1>3, <1>4, InnerTree DEF To

\* The threads have been joined: they have ended.
LEMMA JoinTree ==
    ASSUME Tree, NEW p \in DOMAIN node, FJ!Join(p)
    PROVE  Tree'
  <1>1. /\ Moving(p) /\ node[p].st = "join" /\ IsNode(node[p]) /\ UNCHANGED FJ!chosen
        /\ \A q \in FJ!KidThreads(p) : node[q].st = "ended"
    BY AtMoves DEF FJ!Join, Tree, PlaceOK, FJ!Ended
  <1>2. Moved(p) /\ To(p, "get", node[p].k, node[p].res, TRUE)
    BY <1>1, JoinMoves DEF FJ!Join
  <1>3. InnerMove(p, "join")
    BY <1>1, <1>2 DEF InnerMove, LeafSts, To
  <1>4. \A i \in Nat : IsKid(p, i) =>
            /\ Kid(p, i).by = "inline" => Kid(p, i).st = "ended"
            /\ Kid(p, i).by = "thread" => Kid(p, i).st = "ended"
            /\ Kid(p, i).by = "deferred" => Unstarted(Kid(p, i)) \/ Kid(p, i).st = "ended"
    BY <1>1, KidsAre, KidThreadsAre DEF Kid, FJ!InGet
  <1> QED
    BY <1>1, <1>2, <1>3, <1>4, InnerTree DEF To

\* A part that is asked for its result has one: a deferred part has ended then.
LEMMA GetTree ==
    ASSUME Tree, NEW p \in DOMAIN node,
           \/ FJ!GetPart(p) \/ FJ!AllGot(p) \/ FJ!TestFlag(p) \/ FJ!Choose(p)
           \/ FJ!NothingToGet(p) /\ node[p].st = "get"
    PROVE  Tree'
  <1>1. /\ Moving(p) /\ node[p].st = "get" /\ IsNode(node[p]) /\ UNCHANGED FJ!chosen
    BY AtMoves DEF FJ!GetPart, FJ!AllGot, FJ!TestFlag, FJ!Choose, FJ!NothingToGet, FJ!Gets,
                   Tree, PlaceOK, FJ!At
  <1>2. /\ Moved(p) /\ node'[p].joined = node[p].joined
        /\ node'[p].st \in {"leave", "get"}
    <2>1. (\E r : FJ!Leave(p, r)) \/ node' = [node EXCEPT ![p].k = @ + 1]
      BY DEF FJ!GetPart, FJ!AllGot, FJ!TestFlag, FJ!Choose, FJ!NothingToGet
    <2> QED
      BY <1>1, <2>1, LeaveMoves, CountMoves DEF To
  <1>3. InnerMove(p, "get")
    BY <1>1, <1>2 DEF InnerMove, LeafSts
  <1>4. ASSUME NEW i \in Nat, IsKid(p, i), Kid(p, i).by = "deferred", FJ!InGet(p, i)
        PROVE  Kid(p, i).st = "ended"
    <2>1. i = 1 /\ FJ!Halves /\ Kid(p, i).st # "ready" /\ node[p].k + 1 = i /\ Others = 1
      BY <1>4, KidsAre DEF FJ!InGet, Others
    <2>2. FJ!Forks(node[p]) = 1 /\ node[p].k = 0
      BY <1>1, <2>1, ForksAre DEF Tree, IsNode
    <2>3. CASE FJ!GetPart(p)
      BY <1>4, <2>1, <2>2, <2>3 DEF FJ!GetPart, FJ!Kid, Kid
    <2>4. CASE FJ!AllGot(p)
      BY <2>2, <2>4 DEF FJ!AllGot
    <2>5. CASE FJ!TestFlag(p)
      BY <2>1, <2>5 DEF FJ!TestFlag
    <2>6. CASE FJ!Choose(p)
      BY <1>4, <2>1, <2>6 DEF FJ!Choose, FJ!Kid, Kid
    <2>7. CASE FJ!NothingToGet(p)
      <3>1. list.does # "prefix"
        BY <2>1 DEF Tree, ChosenOK, FJ!Lists, FJ!Halves, FJ!Algorithm, FJ!List2_9, FJ!List8_2,
              FJ!List8_3, FJ!List8_4, FJ!List8_5, FJ!List8_7, FJ!List8_8, FJ!List8_9,
              FJ!List8_10, FJ!List8_11
      <3> QED
        BY <2>7, <3>1 DEF FJ!NothingToGet
    <2> QED
      BY <2>3, <2>4, <2>5, <2>6, <2>7
  <1>5. \A i \in Nat : IsKid(p, i) =>
            /\ Kid(p, i).by = "inline" => Kid(p, i).st = "ended"
            /\ Kid(p, i).by = "thread" /\ node[p].joined => Kid(p, i).st = "ended"
            /\ Kid(p, i).by = "deferred" => Unstarted(Kid(p, i)) \/ Kid(p, i).st = "ended"
    BY <1>1, <1>4, KidsAre
  <1> QED
    BY <1>1, <1>2, <1>3, <1>5, InnerTree

\* A step that changes no activation leaves the tree as it is.
LEMMA SameTree ==
    ASSUME Tree, UNCHANGED FJ!chosen, UNCHANGED node
    PROVE  Tree'
  <1>1. UNCHANGED <<list, length, blocks, outcome>>
    BY DEF FJ!chosen
  <1>2. ChosenOK'
    BY <1>1 DEF Tree, ChosenOK, FJ!Halves
  <1>3. /\ Others' = Others /\ (FJ!Halves' <=> FJ!Halves)
        /\ \A q, lo, hi : FJ!IsLeaf(q, lo, hi)' <=> FJ!IsLeaf(q, lo, hi)
        /\ \A q, i : IsKid(q, i)' <=> IsKid(q, i)
    BY <1>1 DEF Others, FJ!IsLeaf, FJ!Halves, IsKid
  <1>4. ASSUME NEW q \in DOMAIN node PROVE PlaceOK(q)'
    <2>1. PlaceOK(q)
      BY <1>4 DEF Tree
    <2> QED
      BY <1>1, <1>3, <2>1 DEF PlaceOK
  <1>5. ASSUME NEW r \in DOMAIN node, NEW i \in Nat, IsKid(r, i) PROVE KidOK(r, i)'
    <2>1. BornOK(r, node[r], i, Kid(r, i)) /\ AgeOK(node[r], i, Kid(r, i), FJ!InGet(r, i))
      BY <1>5 DEF Tree, KidOK
    <2>2. Kid(r, i)' = Kid(r, i) /\ node'[r] = node[r]
      BY DEF Kid
    <2>3. FJ!Parts(node[r])' = FJ!Parts(node[r])
      BY <1>1 DEF FJ!Parts, FJ!Halves
    <2>4. BornOK(r, node[r], i, Kid(r, i))'
      BY <1>3, <2>1, <2>2, <2>3 DEF BornOK
    <2>5. FJ!InlineKid(r)' = FJ!InlineKid(r)
      BY <2>2, <2>3 DEF FJ!InlineKid, FJ!Forks
    <2>6. FJ!InGet(r, i)' <=> FJ!InGet(r, i)
      BY <1>1, <2>2, <2>5 DEF FJ!InGet
    <2> QED
      BY <2>1, <2>2, <2>4, <2>6 DEF KidOK, AgeOK
  <1> QED
    BY <1>2, <1>3, <1>4, <1>5 DEF Tree

\* The locals are destroyed after the threads have ended.
LEMMA DepartTree ==
    ASSUME Tree, NEW p \in DOMAIN node, FJ!Depart(p)
    PROVE  Tree'
  <1>1. /\ Moving(p) /\ node[p].st = "leave" /\ IsNode(node[p]) /\ UNCHANGED FJ!chosen
        /\ PlaceOK(p)
    BY AtMoves DEF FJ!Depart, Tree, PlaceOK
  <1>2. CASE UNCHANGED node
    BY <1>1, <1>2, SameTree
  <1>3. ASSUME NEW r, FJ!Return(p, r),
               \/ \A q \in FJ!KidThreads(p) : node[q].st = "ended"
               \/ FJ!KidThreads(p) = {} \/ node[p].joined
        PROVE  Tree'
    <2>1. Moved(p) /\ To(p, Gone(node[p]), node[p].k, r, node[p].joined)
      BY <1>1, <1>3, ReturnMoves
    <2>2. node'[p].st \in {"ready", "ended"} /\ (node'[p].st = "ready" => node[p].by = "thread")
      BY <2>1 DEF To, Gone
    <2>3. InnerMove(p, "leave")
      BY <1>1, <2>1, <2>2 DEF InnerMove, LeafSts
    <2>4. \A i \in Nat : IsKid(p, i) =>
              /\ Kid(p, i).by = "inline" => Kid(p, i).st = "ended"
              /\ Kid(p, i).by = "thread" => Kid(p, i).st = "ended"
              /\ Kid(p, i).by = "deferred" => Unstarted(Kid(p, i)) \/ Kid(p, i).st = "ended"
      BY <1>1, <1>3, KidsAre, KidThreadsAre DEF Kid, FJ!InGet
    <2> QED
      BY <2>1, <2>2, <2>3, <2>4, InnerTree DEF To
  <1> QED
    BY <1>2, <1>3 DEF FJ!Depart, FJ!Ended

\* The ranges of the parts are ranges.
PartsFit(n) ==
    \A i \in 1 .. Others + 1 :
        /\ FJ!Parts(n)[i][1] \in Int /\ FJ!Parts(n)[i][2] \in Int

\* Whatever the blocks and the halves are.
LEMMA PartsAreInts == ASSUME ChosenOK, NEW n, IsNode(n) PROVE PartsFit(n)
  <1>1. n.lo \in Int /\ n.hi \in Int /\ n.hi - n.lo \in Int /\ blocks \in Nat \ {0}
    BY DEF IsNode, ChosenOK
  <1>2. PICK size \in Int : size = (n.hi - n.lo) \div blocks
    BY <1>1
  <1>3. PICK mid \in Int : mid = n.lo + (n.hi - n.lo) \div 2
    BY <1>1
  <1>4. ASSUME ~FJ!Halves, NEW i \in 1 .. Others + 1
        PROVE  FJ!Parts(n)[i][1] \in Int /\ FJ!Parts(n)[i][2] \in Int
    <2>1. i \in 1 .. blocks /\ i \in Int
      BY <1>1, <1>4 DEF Others
    <2>2. FJ!Parts(n)[i] = <<n.lo + (i - 1) * size, IF i = blocks THEN n.hi ELSE n.lo + i * size>>
      BY <1>2, <1>4, <2>1 DEF FJ!Parts
    <2>3. (i - 1) * size \in Int /\ i * size \in Int
      BY <2>1
    <2> QED
      BY <1>1, <2>2, <2>3
  <1>5. CASE FJ!Halves
    <2>1. FJ!Parts(n) \in {<<<<mid, n.hi>>, <<n.lo, mid>>>>, <<<<n.lo, mid>>, <<mid, n.hi>>>>}
      BY <1>3, <1>5 DEF FJ!Parts
    <2> QED
      BY <1>1, <1>5, <2>1 DEF PartsFit, Others
  <1> QED
    BY <1>4, <1>5 DEF PartsFit

\* What the start of a part makes.
Born(p, i, by) ==
    /\ i = node[p].k + 1
    /\ DOMAIN node' = DOMAIN node \cup {Append(p, i)} /\ ~IsKid(p, i)
    /\ i \in Nat \ {0} /\ i <= Others + 1
    /\ \A q \in DOMAIN node : q # p => node'[q] = node[q]
    /\ IsNode(node'[p]) /\ node'[p].k = i
    /\ node'[p].st = IF by = "inline" THEN "own" ELSE "fork"
    /\ node'[p].lo = node[p].lo /\ node'[p].hi = node[p].hi
    /\ node'[p].by = node[p].by /\ node'[p].init = node[p].init
    /\ node'[p].joined = node[p].joined /\ node'[p].res = node[p].res
    /\ IsNode(Kid(p, i)') /\ Unstarted(Kid(p, i)') /\ Kid(p, i)'.by = by
    /\ Kid(p, i)'.lo = FJ!Parts(node[p])[i][1] /\ Kid(p, i)'.hi = FJ!Parts(node[p])[i][2]
    /\ Kid(p, i)'.init = IF FJ!Halves /\ i = 1 THEN node[p].init ELSE <<>>
    /\ Kid(p, i)'.res = FJ!None /\ Kid(p, i)'.joined = FALSE
    /\ FJ!IsLeaf(Append(p, i), Kid(p, i)'.lo, Kid(p, i)'.hi) => Kid(p, i)'.st = "leaf"
    /\ ~FJ!IsLeaf(Append(p, i), Kid(p, i)'.lo, Kid(p, i)'.hi) => Kid(p, i)'.st = "fork"

\* Child starts the next part.
LEMMA ChildIsBorn ==
    ASSUME Tree, NEW p \in DOMAIN node, NEW by \in {"thread", "inline", "deferred"},
           node[p].st = "fork", FJ!Child(p, by), node[p].k < Others \/ node[p].k = Others
    PROVE  \E i \in Nat : Born(p, i, by)
  <1>1. p \in Seq(Nat) /\ IsNode(node[p]) /\ node[p].k \in Nat /\ ChosenOK
    BY DEF Tree, PlaceOK, IsNode
  <1>2. PICK i, q, m : /\ i = node[p].k + 1 /\ q = Append(p, i)
                       /\ m = FJ!NewNode(q, FJ!Parts(node[p])[i][1], FJ!Parts(node[p])[i][2], by,
                                         IF FJ!Halves /\ i = 1 THEN node[p].init ELSE <<>>)
    OBVIOUS
  <1>3. i \in Nat \ {0} /\ i <= Others + 1 /\ i \in 1 .. Others + 1 /\ Others \in Nat
    <2>1. Others \in Nat /\ node[p].k <= Others
      BY <1>1, ForksAre DEF Tree, PlaceOK
    <2> QED
      BY <1>1, <1>2, <2>1
  <1>4. q # p /\ q \notin DOMAIN node
    <2>1. ~IsKid(p, i)
      <3> SUFFICES ASSUME IsKid(p, i) PROVE FALSE
        OBVIOUS
      <3>1. i <= node[p].k
        BY <1>3 DEF Tree, KidOK, AgeOK
      <3> QED
        BY <1>1, <1>2, <3>1
    <2> QED
      BY <1>1, <1>2, <1>3, <2>1, PathFacts DEF IsKid
  <1>5. node' = [c \in DOMAIN node \cup {q} |->
                    CASE c = q -> m
                      [] c = p -> [node[p] EXCEPT !.k = i,
                                                  !.st = IF by = "inline" THEN "own" ELSE @]
                      [] OTHER -> node[c]]
    BY <1>2 DEF FJ!Child
  <1>6. /\ IsNode(m) /\ m.lo = FJ!Parts(node[p])[i][1] /\ m.hi = FJ!Parts(node[p])[i][2]
        /\ m.by = by /\ m.init = (IF FJ!Halves /\ i = 1 THEN node[p].init ELSE <<>>)
        /\ m.k = 0 /\ m.joined = FALSE /\ m.res = FJ!None
        /\ FJ!IsLeaf(q, m.lo, m.hi) => m.st = "leaf"
        /\ ~FJ!IsLeaf(q, m.lo, m.hi) => m.st = "fork"
    <2>1. FJ!Parts(node[p])[i][1] \in Int /\ FJ!Parts(node[p])[i][2] \in Int
      BY <1>1, <1>3, PartsAreInts DEF PartsFit
    <2>2. PICK init : init = IF FJ!Halves /\ i = 1 THEN node[p].init ELSE <<>>
      OBVIOUS
    <2>3. PICK lo, hi : lo = FJ!Parts(node[p])[i][1] /\ hi = FJ!Parts(node[p])[i][2]
      OBVIOUS
    <2>4. lo \in Int /\ hi \in Int /\ m = FJ!NewNode(q, lo, hi, by, init)
      BY <1>2, <2>1, <2>2, <2>3
    <2>5. by \in {"caller", "thread", "inline", "deferred"}
      OBVIOUS
    <2>6. /\ IsNode(m) /\ m.lo = lo /\ m.hi = hi /\ m.by = by /\ m.init = init
          /\ m.k = 0 /\ m.joined = FALSE /\ m.res = FJ!None
          /\ FJ!IsLeaf(q, lo, hi) => m.st = "leaf"
          /\ ~FJ!IsLeaf(q, lo, hi) => m.st = "fork"
      BY ONLY <2>4, <2>5 DEF FJ!NewNode, IsNode, Fields, Sts, LeafSts
    <2> QED
      BY <2>2, <2>3, <2>6
  <1>7. node'[q] = m /\ \A c \in DOMAIN node : c # p => node'[c] = node[c]
    BY <1>4, <1>5
  <1>8. PICK s : s = IF by = "inline" THEN "own" ELSE "fork"
    OBVIOUS
  <1>9. node'[p] = [node[p] EXCEPT !.k = i, !.st = s]
    BY <1>4, <1>5, <1>8
  <1>10. /\ IsNode(node'[p]) /\ node'[p].k = i /\ node'[p].st = s
         /\ node'[p].lo = node[p].lo /\ node'[p].hi = node[p].hi
         /\ node'[p].by = node[p].by /\ node'[p].init = node[p].init
         /\ node'[p].joined = node[p].joined /\ node'[p].res = node[p].res
    BY <1>1, <1>3, <1>8, <1>9 DEF IsNode, Fields, Sts
  <1>11. DOMAIN node' = DOMAIN node \cup {q}
    BY <1>5
  <1>12. Kid(p, i)' = m
    BY <1>2, <1>7 DEF Kid
  <1>13. Unstarted(m) /\ ~IsKid(p, i) /\ Append(p, i) = q
    BY <1>2, <1>4, <1>6 DEF Unstarted, IsKid
  <1>14. Born(p, i, by)
    BY <1>2, <1>3, <1>6, <1>7, <1>8, <1>10, <1>11, <1>12, <1>13 DEF Born
  <1> QED
    BY <1>3, <1>14

\* A new part fits into the tree.
LEMMA BornTree ==
    ASSUME Tree, NEW p \in DOMAIN node, Moving(p), node[p].st = "fork", UNCHANGED FJ!chosen,
           NEW by \in {"thread", "inline", "deferred"}, NEW i, Born(p, i, by),
           (by = "inline") <=> (node[p].k = Others), (by = "deferred") => FJ!Halves
    PROVE  Tree'
  <1>1. UNCHANGED <<list, length, blocks, outcome>>
    BY DEF FJ!chosen
  <1>2. ChosenOK'
    BY <1>1 DEF Tree, ChosenOK, FJ!Halves
  <1>3. /\ Others' = Others /\ (FJ!Halves' <=> FJ!Halves) /\ Others \in Nat
        /\ \A q, lo, hi : FJ!IsLeaf(q, lo, hi)' <=> FJ!IsLeaf(q, lo, hi)
    BY <1>1, ForksAre DEF Others, FJ!IsLeaf, FJ!Halves, Tree
  <1>4. i \in Nat /\ i = node[p].k + 1 /\ i <= Others + 1 /\ node[p].k \in Nat
    BY DEF Born, Tree, PlaceOK, IsNode
  <1>5. PICK q : q = Append(p, i)
    OBVIOUS
  <1>6. /\ p \in Seq(Nat) /\ q \in Seq(Nat) /\ q # p /\ q # FJ!Root /\ q \notin DOMAIN node
        /\ DOMAIN node' = DOMAIN node \cup {q} /\ i \in 1 .. Others + 1
    BY <1>3, <1>4, <1>5, PathFacts DEF Born, Tree, PlaceOK, IsKid
  <1>7. \A r \in DOMAIN node : \A j \in Nat : ~(r = Append(q, j))
    <2> SUFFICES ASSUME NEW r \in DOMAIN node, NEW j \in Nat, r = Append(q, j) PROVE FALSE
      OBVIOUS
    <2>1. r # FJ!Root
      BY <1>6, PathFacts
    <2>2. PICK c \in DOMAIN node : \E k \in 1 .. Others + 1 : r = Append(c, k)
      BY <2>1 DEF Tree, PlaceOK
    <2>3. PICK k \in 1 .. Others + 1 : r = Append(c, k)
      BY <2>2
    <2>4. c \in Seq(Nat) /\ k \in Nat
      BY <1>3 DEF Tree, PlaceOK
    <2>5. Append(c, k) = Append(q, j) /\ q \in Seq(Nat) /\ j \in Nat
      BY <1>6, <2>3
    <2>6. c = q
      BY ONLY <2>4, <2>5, AppendInjective
    <2> QED
      BY <1>6, <2>6
  <1>8. ASSUME NEW r \in DOMAIN node, r # p PROVE PlaceOK(r)'
    <2>1. PlaceOK(r) /\ node'[r] = node[r]
      BY <1>8 DEF Tree, Born
    <2>2. \A j : IsKid(r, j) => IsKid(r, j)'
      BY <1>6 DEF IsKid
    <2> QED
      BY <1>1, <1>3, <1>6, <2>1, <2>2 DEF PlaceOK
  <1>9. PlaceOK(p)'
    <2>1. PlaceOK(p)
      BY DEF Tree
    <2>2. \A j : IsKid(p, j) => IsKid(p, j)'
      BY <1>6 DEF IsKid
    <2>3. IsKid(p, i)'
      BY <1>5, <1>6 DEF IsKid
    <2>4. \A j \in 1 .. i : IsKid(p, j)'
      <3>1. \A j \in 1 .. node[p].k : IsKid(p, j)
        BY <2>1 DEF PlaceOK
      <3>2. \A j \in 1 .. i : j \in 1 .. node[p].k \/ j = i
        BY <1>4, <2>1 DEF PlaceOK, IsNode
      <3> QED
        BY <2>2, <2>3, <3>1, <3>2
    <2>5. /\ by = "inline" => i = Others + 1
          /\ by # "inline" => i <= Others
      BY <1>3, <1>4, <2>1 DEF PlaceOK, IsNode
    <2>6. /\ IsNode(node'[p]) /\ node'[p].k = i
          /\ node'[p].st = IF by = "inline" THEN "own" ELSE "fork"
          /\ node'[p].lo = node[p].lo /\ node'[p].hi = node[p].hi
          /\ node'[p].by = node[p].by /\ node'[p].init = node[p].init
      BY <1>4 DEF Born
    <2>7. node'[p].st \in {"fork", "own"} /\ ~node[p].joined
          /\ ~FJ!IsLeaf(p, node[p].lo, node[p].hi)
      BY <2>1, <2>6 DEF PlaceOK
    <2>8. ~FJ!IsLeaf(p, node[p].lo, node[p].hi)'
      BY <1>3, <2>6, <2>7
    <2>9. p # FJ!Root => \E r \in DOMAIN node' : \E j \in 1 .. Others' + 1 : p = Append(r, j)
      BY <1>3, <1>6, <2>1 DEF PlaceOK
    <2>10. /\ node'[p].st = "fork" => /\ node'[p].k <= Others' /\ ~node'[p].joined
                                      /\ \A j \in 1 .. node'[p].k : IsKid(p, j)'
           /\ node'[p].st = "own" => \A j \in 1 .. Others' + 1 : IsKid(p, j)'
      BY <1>3, <2>4, <2>5, <2>6, <2>7 DEF Born
    <2> QED
      BY <1>1, <1>3, <1>6, <2>1, <2>6, <2>7, <2>8, <2>9, <2>10 DEF PlaceOK, LeafSts
  <1>10. /\ IsNode(node'[q]) /\ Unstarted(node'[q]) /\ node'[q].by = by
         /\ node'[q].lo = FJ!Parts(node[p])[i][1] /\ node'[q].hi = FJ!Parts(node[p])[i][2]
         /\ node'[q].init = IF FJ!Halves /\ i = 1 THEN node[p].init ELSE <<>>
         /\ FJ!IsLeaf(q, node'[q].lo, node'[q].hi) => node'[q].st = "leaf"
         /\ ~FJ!IsLeaf(q, node'[q].lo, node'[q].hi) => node'[q].st = "fork"
         /\ node'[q].k = 0 /\ node'[q].joined = FALSE
    BY <1>4, <1>5 DEF Born, Kid, Unstarted
  <1>11. PlaceOK(q)'
    <2>1. p \in DOMAIN node'
      BY <1>6
    <2>2. \A j \in 1 .. 0 : IsKid(q, j)'
      OBVIOUS
    <2>3. \E r \in DOMAIN node' : \E j \in 1 .. Others' + 1 : q = Append(r, j)
      BY <1>3, <1>5, <1>6, <2>1
    <2>4. /\ node'[q].st \in {"leaf", "fork"} /\ node'[q].k <= Others' /\ ~node'[q].joined
          /\ node'[q].st = "fork" => ~FJ!IsLeaf(q, node[q].lo, node[q].hi)'
          /\ node'[q].st = "leaf" => FJ!IsLeaf(q, node[q].lo, node[q].hi)'
      BY <1>3, <1>10 DEF Unstarted
    <2>5. by # "caller" /\ \A j \in 1 .. node'[q].k : IsKid(q, j)'
      BY <1>10
    <2> QED
      BY <1>3, <1>6, <1>10, <2>3, <2>4, <2>5 DEF PlaceOK, LeafSts
  <1>12. ASSUME NEW r \in DOMAIN node, r # p, NEW j \in Nat, IsKid(r, j) PROVE KidOK(r, j)'
    <2>1. DOMAIN node \subseteq DOMAIN node'
      BY <1>6
    <2> QED
      BY <1>1, <1>12, <2>1, OthersStay DEF Born
  <1>13. ASSUME NEW j \in Nat, IsKid(p, j) PROVE KidOK(p, j)'
    <2>1. BornOK(p, node[p], j, Kid(p, j)) /\ AgeOK(node[p], j, Kid(p, j), FJ!InGet(p, j))
      BY <1>13 DEF Tree, KidOK
    <2>2. Kid(p, j)' = Kid(p, j)
      BY <1>6, <1>13, PathFacts DEF Kid, IsKid, Born
    <2>3. FJ!Parts(node[p])' = FJ!Parts(node[p])
      BY <1>1 DEF Born, FJ!Parts, FJ!Halves
    <2>4. BornOK(p, node[p], j, Kid(p, j))'
      BY <1>3, <2>1, <2>2, <2>3 DEF BornOK, Born
    <2>5. AgeOK(node[p], j, Kid(p, j), FJ!InGet(p, j))'
      <3>1. j <= node[p].k /\ node[p].k \in Nat
        BY <2>1 DEF AgeOK, Tree, PlaceOK, IsNode
      <3>2. j <= i
        BY <1>4, <3>1
      <3>3. Kid(p, j).by # "inline" /\ ~FJ!InGet(p, j)
        BY <1>13, KidsAre DEF FJ!InGet
      <3> QED
        BY <1>4, <2>1, <2>2, <3>2, <3>3 DEF AgeOK, Born
    <2> QED
      BY <2>4, <2>5 DEF KidOK
  <1>14. KidOK(p, i)'
    <2>1. FJ!Parts(node[p])' = FJ!Parts(node[p])
      BY <1>1 DEF Born, FJ!Parts, FJ!Halves
    <2>2. Kid(p, i)' = node'[q]
      BY <1>5 DEF Kid
    <2>3. ~FJ!IsLeaf(p, node[p].lo, node[p].hi)
      BY DEF Tree, PlaceOK
    <2>4. BornOK(p, node[p], i, Kid(p, i))'
      <3>1. by = "inline" <=> i = Others + 1
        BY <1>3, <1>4
      <3> QED
        BY <1>3, <1>4, <1>6, <1>10, <2>1, <2>2, <2>3, <3>1 DEF BornOK, Born
    <2>5. AgeOK(node[p], i, Kid(p, i), FJ!InGet(p, i))'
      <3>1. ~node[p].joined
        BY DEF Tree, PlaceOK
      <3> QED
        BY <1>4, <1>6, <1>10, <2>2, <3>1 DEF AgeOK, Born
    <2> QED
      BY <2>4, <2>5 DEF KidOK
  <1>15. \A r \in DOMAIN node' : \A j \in Nat : IsKid(r, j)' => KidOK(r, j)'
    <2> SUFFICES ASSUME NEW r \in DOMAIN node', NEW j \in Nat, IsKid(r, j)' PROVE KidOK(r, j)'
      OBVIOUS
    <2>1. CASE IsKid(r, j) /\ r \in DOMAIN node
      BY <2>1, <1>12, <1>13
    <2>2. CASE Append(r, j) = q /\ r \in DOMAIN node
      <3>1. r = p /\ j = i
        BY <1>5, <1>6, <2>2, PathFacts DEF Tree, PlaceOK
      <3> QED
        BY <3>1, <1>14
    <2>3. CASE r = q
      BY <1>6, <1>7, <2>3, PathFacts DEF IsKid
    <2> QED
      BY <1>6, <2>1, <2>2, <2>3 DEF IsKid
  <1> QED
    BY <1>2, <1>6, <1>8, <1>9, <1>11, <1>15 DEF Tree

\* A part is started on a thread, deferred, or, the last one, inline.
LEMMA ForkBears ==
    ASSUME Tree, NEW p \in DOMAIN node, FJ!Fork(p) \/ FJ!CallInline(p)
    PROVE  /\ Moving(p) /\ node[p].st = "fork" /\ UNCHANGED FJ!chosen
           /\ \E by \in {"thread", "inline", "deferred"} :
                  /\ \E i \in Nat : Born(p, i, by)
                  /\ (by = "inline") <=> (node[p].k = Others)
                  /\ (by = "deferred") => FJ!Halves
  <1>1. /\ Moving(p) /\ node[p].st = "fork" /\ UNCHANGED FJ!chosen
        /\ FJ!Forks(node[p]) = Others /\ Others \in Nat /\ node[p].k \in Nat
    BY AtMoves, ForksAre DEF FJ!Fork, FJ!CallInline, Tree, PlaceOK, IsNode
  <1>2. PICK by \in {"thread", "inline", "deferred"} :
            /\ FJ!Child(p, by)
            /\ node[p].k < Others \/ node[p].k = Others
            /\ (by = "inline") <=> (node[p].k = Others)
            /\ (by = "deferred") => FJ!Halves
    <2>1. CASE FJ!Fork(p)
      <3>1. PICK by \in {"thread"} \cup (IF FJ!Halves THEN {"deferred"} ELSE {}) : FJ!Child(p, by)
        BY <2>1 DEF FJ!Fork
      <3>2. by \in {"thread", "deferred"} /\ ((by = "deferred") => FJ!Halves)
        OBVIOUS
      <3>3. node[p].k < Others
        BY <1>1, <2>1 DEF FJ!Fork
      <3> QED
        BY <1>1, <3>1, <3>2, <3>3
    <2>2. CASE FJ!CallInline(p)
      BY <1>1, <2>2 DEF FJ!CallInline
    <2> QED
      BY <2>1, <2>2
  <1>3. \E i \in Nat : Born(p, i, by)
    BY <1>1, <1>2, ChildIsBorn
  <1> QED
    BY <1>1, <1>2, <1>3

\* The tree grows by it.
LEMMA ForkTree ==
    ASSUME Tree, NEW p \in DOMAIN node, FJ!Fork(p) \/ FJ!CallInline(p)
    PROVE  Tree'
  <1>1. PICK by \in {"thread", "inline", "deferred"} :
            /\ \E i \in Nat : Born(p, i, by)
            /\ (by = "inline") <=> (node[p].k = Others)
            /\ (by = "deferred") => FJ!Halves
    BY ForkBears
  <1>2. PICK i \in Nat : Born(p, i, by)
    BY <1>1
  <1> QED
    BY <1>1, <1>2, ForkBears, BornTree

\* The call for an empty range returns without dividing it.
LEMMA EmptyTree ==
    ASSUME Tree, NEW p \in DOMAIN node, FJ!NothingToGet(p)
    PROVE  Tree'
  <1>1. CASE node[p].st = "get"
    BY <1>1, GetTree
  <1>2. CASE node[p].st # "get"
    <2>1. /\ p = FJ!Root /\ FJ!At(p, "leaf") /\ list.does = "prefix" /\ UNCHANGED FJ!chosen
          /\ FJ!Leave(p, FJ!Value(<<>>)) /\ IsNode(node[p])
      BY <1>2 DEF FJ!NothingToGet, FJ!At, Tree, PlaceOK
    <2>2. Moving(p) /\ node[p].st = "leaf"
      BY <2>1, AtMoves
    <2>3. Moved(p) /\ To(p, "leave", node[p].k, FJ!Value(<<>>), node[p].joined)
      BY <2>1, LeaveMoves
    <2>4. LeafMove(p)
      BY <2>1, <2>2, <2>3 DEF LeafMove, LeafSts, To
    <2> QED
      BY <2>1, <2>4, LeafTree
  <1> QED
    BY <1>1, <1>2

\* Every step of an activation keeps the tree.
LEMMA NodeStepTree ==
    ASSUME Tree, NEW p \in DOMAIN node, FJ!NodeStep(p)
    PROVE  Tree'
  <1>1. CASE LeafSteps(p)
    <2>1. UNCHANGED FJ!chosen /\ (LeafMove(p) \/ UNCHANGED node)
      BY <1>1, LeafStepMoves
    <2> QED
      BY <2>1, LeafTree, SameTree
  <1>2. CASE FJ!Fork(p) \/ FJ!CallInline(p)
    BY <1>2, ForkTree
  <1>3. CASE FJ!ForkFails(p) \/ FJ!ThreadExits(p) \/ FJ!OwnPartDone(p) \/ FJ!Join(p)
    BY <1>3, ForkFailsTree, ExitsTree, OwnTree, JoinTree
  <1>4. CASE FJ!GetPart(p) \/ FJ!AllGot(p) \/ FJ!TestFlag(p) \/ FJ!Choose(p)
    BY <1>4, GetTree
  <1>5. CASE FJ!NothingToGet(p) \/ FJ!Depart(p)
    BY <1>5, EmptyTree, DepartTree
  <1> QED
    BY <1>1, <1>2, <1>3, <1>4, <1>5 DEF FJ!NodeStep, LeafSteps

\* At first there is the call alone.
LEMMA InitTree == ASSUME FJ!Init PROVE Tree
  <1>1. ChosenOK
    BY DEF FJ!Init, ChosenOK
  <1>2. DOMAIN node = {FJ!Root} /\ length \in Nat /\ Others \in Nat
    BY <1>1, ForksAre DEF FJ!Init, ChosenOK
  <1>3. PICK n : n = FJ!NewNode(FJ!Root, 0, length, "caller", <<"init">>)
    OBVIOUS
  <1>4. /\ IsNode(n) /\ n.lo = 0 /\ n.hi = length /\ n.by = "caller" /\ n.init = <<"init">>
        /\ n.k = 0 /\ n.joined = FALSE /\ n.res = FJ!None
        /\ FJ!IsLeaf(FJ!Root, 0, length) => n.st = "leaf"
        /\ ~FJ!IsLeaf(FJ!Root, 0, length) => n.st = "fork"
    BY <1>2, <1>3 DEF FJ!NewNode, IsNode, Fields, Sts, LeafSts
  <1>5. node[FJ!Root] = n
    BY <1>3 DEF FJ!Init
  <1>6. FJ!Root \in Seq(Nat) /\ \A i \in Nat : ~IsKid(FJ!Root, i)
    BY <1>2, PathFacts DEF FJ!Root, IsKid
  <1>7. n.st \in {"leaf", "fork"} /\ \A i \in 1 .. n.k : IsKid(FJ!Root, i)
    BY <1>4
  <1>8. PlaceOK(FJ!Root)
    BY <1>2, <1>4, <1>5, <1>6, <1>7 DEF PlaceOK, LeafSts
  <1> QED
    BY <1>1, <1>2, <1>6, <1>8 DEF Tree

\* The tree is as described in every state of every algorithm.
LEMMA TreeInvariance == FairParts => []Tree
  <1>1. InitParts => Tree
    BY InitTree DEF InitParts
  <1>2. ASSUME Tree, [(\E i \in Indices : PairwiseStep(i)) \/ ForkStep]_partVars
        PROVE  Tree'
    <2>1. CASE \E i \in Indices : PairwiseStep(i)
      <3>1. UNCHANGED FJ!chosen /\ UNCHANGED node
        BY <2>1 DEF PairwiseStep, forkVars, FJ!chosen
      <3> QED
        BY <1>2, <3>1, SameTree
    <2>2. CASE ForkStep
      <3>1. PICK p \in DOMAIN node : FJ!NodeStep(p)
        BY <2>2 DEF ForkStep, FJ!Next
      <3> QED
        BY <1>2, <3>1, NodeStepTree
    <2>3. CASE UNCHANGED partVars
      <3>1. UNCHANGED FJ!chosen /\ UNCHANGED node
        BY <2>3 DEF partVars, forkVars, FJ!chosen
      <3> QED
        BY <1>2, <3>1, SameTree
    <2> QED
      BY <1>2, <2>1, <2>2, <2>3
  <1> QED
    BY <1>1, <1>2, PTL DEF FairParts

\* What holds for the call, and for a part if it holds for the activation it is a part
\* of, holds in the whole tree: by induction on the depth.
LEMMA TreeInduction ==
    ASSUME Tree, NEW S, FJ!Root \in S,
           \A p \in DOMAIN node, i \in Nat : p \in S /\ IsKid(p, i) => Append(p, i) \in S
    PROVE  DOMAIN node \subseteq S
  <1> DEFINE D == {d \in Nat : \A p \in DOMAIN node : Len(p) = d => p \in S}
  <1>1. \A p \in DOMAIN node : p \in Seq(Nat) /\ Len(p) \in Nat
    BY DEF Tree, PlaceOK
  <1>2. 0 \in D
    <2>1. \A p \in DOMAIN node : Len(p) = 0 => p = FJ!Root
      BY <1>1, EmptySeq DEF FJ!Root
    <2> QED
      BY <2>1
  <1>3. ASSUME NEW d \in Nat, d \in D PROVE d + 1 \in D
    <2> SUFFICES ASSUME NEW p \in DOMAIN node, Len(p) = d + 1 PROVE p \in S
      OBVIOUS
    <2>1. p # FJ!Root
      BY DEF FJ!Root
    <2>2. PICK r \in DOMAIN node : \E i \in 1 .. Others + 1 : p = Append(r, i)
      BY <2>1 DEF Tree, PlaceOK
    <2>3. PICK i \in 1 .. Others + 1 : p = Append(r, i)
      BY <2>2
    <2>4. i \in Nat /\ r \in Seq(Nat) /\ Len(r) \in Nat
      BY <1>1, ForksAre DEF Tree
    <2>5. Len(r) = d
      BY <2>3, <2>4, PathFacts
    <2>6. r \in S
      BY <1>3, <2>5
    <2> QED
      BY <2>3, <2>4, <2>6 DEF IsKid
  <1>4. \A d \in Nat : d \in D
    <2> HIDE DEF D
    <2> QED
      BY <1>2, <1>3, Induction
  <1> QED
    BY <1>1, <1>4

\* An activation that nothing will run any more: it has ended, or it was deferred and
\* nobody has asked for it.
Quiet(n) == n.st = "ended" \/ (n.by = "deferred" /\ Unstarted(n))

\* The parts of a settled activation are settled.
LEMMA SettledKids ==
    ASSUME Tree, NEW p \in DOMAIN node, Quiet(node[p]), NEW i \in Nat, IsKid(p, i)
    PROVE  Quiet(Kid(p, i))
  <1>1. /\ IsNode(Kid(p, i)) /\ Kid(p, i).by # "caller" /\ PlaceOK(p)
        /\ BornOK(p, node[p], i, Kid(p, i)) /\ AgeOK(node[p], i, Kid(p, i), FJ!InGet(p, i))
    BY DEF Tree, IsKid, Kid, PlaceOK, KidOK, BornOK
  <1>2. i \in 1 .. Others + 1 /\ Others \in Nat
    BY KidsAre
  <1>3. CASE Unstarted(node[p])
    <2>1. node[p].st = "fork" => i <= 0
      BY <1>1, <1>3 DEF AgeOK, Unstarted
    <2>2. node[p].st # "leaf"
      BY <1>1 DEF PlaceOK, BornOK, LeafSts
    <2> QED
      BY <1>2, <1>3, <2>1, <2>2 DEF Unstarted
  <1>4. CASE node[p].st = "ended"
    <2>1. Kid(p, i).by \in {"thread", "inline", "deferred"}
      BY <1>1 DEF IsNode
    <2>2. ~FJ!InGet(p, i)
      BY <1>4 DEF FJ!InGet
    <2> QED
      BY <1>1, <1>4, <2>1, <2>2 DEF AgeOK, Quiet
  <1> QED
    BY <1>3, <1>4 DEF Quiet

\* When the call is over, all activations are settled: from the call down the tree.
LEMMA AllSettle ==
    ASSUME Tree, FJ!Over
    PROVE  \A p \in DOMAIN node : Quiet(node[p])
  <1> DEFINE S == {p \in DOMAIN node : Quiet(node[p])}
  <1>1. FJ!Root \in S
    BY DEF FJ!Over, FJ!Ended, Quiet, Tree
  <1>2. \A p \in DOMAIN node, i \in Nat : p \in S /\ IsKid(p, i) => Append(p, i) \in S
    BY SettledKids DEF IsKid, Kid
  <1> HIDE DEF S
  <1>3. DOMAIN node \subseteq S
    BY <1>1, <1>2, TreeInduction
  <1> QED
    BY <1>3 DEF S

\* No thread that an algorithm started outlives the call, whether the call returns or
\* ends by an exception; threads that threads have started are among them.
THEOREM ThreadsEndWithTheCall == FairParts => []NoThreadOutlivesTheCall
  <1>1. Tree => NoThreadOutlivesTheCall
    <2> SUFFICES ASSUME Tree, FJ!Over, NEW p \in DOMAIN node, node[p].by = "thread"
                 PROVE  node[p].st = "ended"
      BY DEF NoThreadOutlivesTheCall, FJ!NoThreadOutlivesTheCall, FJ!Ended
    <2> QED
      BY AllSettle DEF Quiet
  <1> QED
    BY <1>1, TreeInvariance, PTL

\* What the lists have in common.
ListOK(l) ==
    /\ l.does \in {"sum", "each", "find", "prefix"}
    /\ l.join \in {"loop", "destructor", "nobody"} /\ l.task \in BOOLEAN
    /\ l.does = "sum" /\ ~l.task => l.join = "loop"
    /\ l.does = "each" => l.task
    /\ l.does \in {"find", "prefix"} => l.join = "destructor"
    /\ l.does = "prefix" => l.split # "halves"
    /\ l.join = "loop" => l.split # "halves" /\ l.does = "sum"

\* It is so for the list that runs.
LEMMA ListFacts == ASSUME Tree PROVE ListOK(list)
  <1>1. /\ ListOK(FJ!List2_9) /\ ListOK(FJ!List8_2)
    BY DEF ListOK, FJ!Algorithm, FJ!List2_9, FJ!List8_2
  <1>2. ListOK(FJ!List8_3) /\ ListOK(FJ!List8_4)
    BY DEF ListOK, FJ!Algorithm, FJ!List8_3, FJ!List8_4
  <1>3. ListOK(FJ!List8_5) /\ ListOK(FJ!List8_7)
    BY DEF ListOK, FJ!Algorithm, FJ!List8_5, FJ!List8_7
  <1>4. ListOK(FJ!List8_8) /\ ListOK(FJ!List8_9)
    BY DEF ListOK, FJ!Algorithm, FJ!List8_8, FJ!List8_9
  <1>5. ListOK(FJ!List8_10) /\ ListOK(FJ!List8_11)
    BY DEF ListOK, FJ!Algorithm, FJ!List8_10, FJ!List8_11
  <1> QED
    BY <1>1, <1>2, <1>3, <1>4, <1>5 DEF Tree, ChosenOK, FJ!Lists

\* A block lies within the range.
LEMMA BlocksWithin ==
    ASSUME Tree, ~FJ!Halves, NEW p \in DOMAIN node
    PROVE  /\ node[p].lo \in Int /\ node[p].hi \in Int
           /\ 0 <= node[p].lo /\ node[p].hi <= length
           /\ p # FJ!Root => \E i \in 1 .. blocks : p = Append(FJ!Root, i)
  <1>1. /\ ChosenOK /\ PlaceOK(p) /\ length \in Nat /\ blocks \in Nat \ {0} /\ Others = blocks - 1
        /\ node[p].lo \in Int /\ node[p].hi \in Int
    BY DEF Tree, ChosenOK, Others, PlaceOK, IsNode
  <1>2. CASE p = FJ!Root
    BY <1>1, <1>2 DEF PlaceOK
  <1>3. CASE p # FJ!Root
    <2>1. PICK r \in DOMAIN node : \E i \in 1 .. Others + 1 : p = Append(r, i)
      BY <1>1, <1>3 DEF PlaceOK
    <2>2. PICK i \in 1 .. Others + 1 : p = Append(r, i)
      BY <2>1
    <2>3. i \in Nat /\ i \in 1 .. blocks
      BY <1>1
    <2>4. BornOK(r, node[r], i, node[p])
      BY <2>2, <2>3 DEF Tree, IsKid, Kid, KidOK
    <2>5. r = FJ!Root
      BY <2>4 DEF BornOK, FJ!IsLeaf
    <2>6. node[r].lo = 0 /\ node[r].hi = length
      BY <2>5 DEF Tree, PlaceOK
    <2>7. PICK size : size = (node[r].hi - node[r].lo) \div blocks
      OBVIOUS
    <2>8. size \in Nat /\ blocks * size <= length
      BY <1>1, <2>6, <2>7
    <2>9. /\ node[p].lo = node[r].lo + (i - 1) * size
          /\ node[p].hi = IF i = blocks THEN node[r].hi ELSE node[r].lo + i * size
      BY <2>3, <2>4, <2>7 DEF BornOK, FJ!Parts
    <2>10. (i - 1) * size \in Nat /\ i * size \in Nat /\ i * size <= blocks * size
      <3>1. i \in Int /\ blocks \in Int /\ i <= blocks
        BY <1>1, <2>3
      <3>2. PICK d \in Nat : blocks = i + d
        <4>1. blocks - i \in Nat /\ blocks = i + (blocks - i)
          BY ONLY <3>1
        <4> QED
          BY ONLY <4>1
      <3>3. d * size \in Nat /\ i * size \in Nat /\ (i - 1) * size \in Nat
        BY <2>3, <2>8
      <3>4. blocks * size = i * size + d * size
        BY <2>3, <2>8, <3>2
      <3> QED
        BY <3>3, <3>4
    <2>11. node[p].hi <= length
      BY <1>1, <2>6, <2>8, <2>9, <2>10
    <2>12. 0 <= node[p].lo
      BY <2>6, <2>9, <2>10
    <2> QED
      BY <1>1, <2>2, <2>3, <2>5, <2>11, <2>12
  <1> QED
    BY <1>2, <1>3

\* How far an activation has come: a chunk of list 8.11 in its phases, and who has
\* joined the threads when the loop is to do it.
ChunkSts == {"flag", "wait", "set", "rest", "end", "fail"}
StageOK(p) ==
    /\ node[p].st \in ChunkSts \ {"flag"} => p # FJ!Root /\ list.does = "prefix"
    /\ node[p].st = "flag" => list.does = "find"
    /\ list.join = "loop" =>
           /\ node[p].st = "get" => node[p].joined = TRUE
           /\ node[p].st = "leave" => node[p].joined = TRUE \/ node[p].res = FJ!Exception

\* The steps that may end the program are the last ones.
DieInv == (\A p \in DOMAIN node : StageOK(p)) /\ DiesOnlyUnguarded

\* A step of p, seen by its stage.
StagedStep(p) ==
    /\ UNCHANGED FJ!chosen /\ ~died
    /\ \/ Moved(p) /\ StageOK(p)' /\ ~died'
       \/ UNCHANGED node /\ DiesOnlyUnguarded'

\* Such a step keeps the invariant.
LEMMA StagedInv ==
    ASSUME DieInv, NEW p \in DOMAIN node, StagedStep(p)
    PROVE  DieInv'
  <1>1. list' = list
    BY DEF StagedStep, FJ!chosen
  <1>2. DiesOnlyUnguarded'
    BY DEF StagedStep, DiesOnlyUnguarded, FJ!DiesOnlyUnguarded
  <1>3. DOMAIN node' = DOMAIN node
    BY DEF StagedStep, Moved
  <1>4. ASSUME NEW q \in DOMAIN node PROVE StageOK(q)'
    <2>1. StageOK(q)
      BY DEF DieInv
    <2>2. node'[q] = node[q] \/ StageOK(q)'
      BY DEF StagedStep, Moved
    <2> QED
      BY <1>1, <2>1, <2>2 DEF StageOK
  <1> QED
    BY <1>2, <1>3, <1>4 DEF DieInv

\* An activation that comes to its end is past all stages.
LEMMA ReturnStaged ==
    ASSUME Tree, NEW p \in DOMAIN node, NEW s \in Sts \ {"ended"}, FJ!At(p, s), NEW r,
           FJ!Return(p, r), UNCHANGED FJ!chosen, UNCHANGED died
    PROVE  StagedStep(p)
  <1>1. IsNode(node[p]) /\ ~died
    BY AtMoves DEF Tree, PlaceOK
  <1>2. Moved(p) /\ To(p, Gone(node[p]), node[p].k, r, node[p].joined)
    BY <1>1, ReturnMoves
  <1>3. node'[p].st \in {"ready", "ended"}
    BY <1>2 DEF To, Gone
  <1> QED
    BY <1>1, <1>2, <1>3 DEF StagedStep, StageOK, ChunkSts

\* A leaf goes on to its next phase, which is one of a chunk of list 8.11 only there.
LEMMA GoStaged ==
    ASSUME Tree, NEW p \in DOMAIN node, NEW s \in Sts \ {"ended"}, FJ!At(p, s),
           NEW t \in ChunkSts, t # "flag" => p # FJ!Root /\ list.does = "prefix",
           t = "flag" => list.does = "find",
           FJ!Go(p, t), UNCHANGED FJ!chosen, UNCHANGED died
    PROVE  StagedStep(p)
  <1>1. IsNode(node[p]) /\ ~died /\ t \in Sts
    BY AtMoves DEF Tree, PlaceOK, ChunkSts, Sts, LeafSts
  <1>2. Moved(p) /\ To(p, t, 0, node[p].res, node[p].joined)
    BY <1>1, GoMoves
  <1>3. node'[p].st = t /\ list' = list
    BY <1>2 DEF To, FJ!chosen
  <1> QED
    BY <1>1, <1>2, <1>3 DEF StagedStep, StageOK, ChunkSts

\* An exception leaves a leaf; out of a thread it ends the program.
LEMMA ThrowStaged ==
    ASSUME Tree, NEW p \in DOMAIN node, NEW s \in Sts \ {"ended"}, FJ!At(p, s),
           FJ!Throw(p), UNCHANGED FJ!chosen,
           node[p].by = "thread" /\ ~list.task /\ UNCHANGED node => DiesOnlyUnguarded'
    PROVE  StagedStep(p)
  <1>1. CASE node[p].by = "thread" /\ ~list.task
    <2>1. UNCHANGED node /\ ~died
      BY <1>1, AtMoves DEF FJ!Throw
    <2> QED
      BY <1>1, <2>1 DEF StagedStep
  <1>2. CASE ~(node[p].by = "thread" /\ ~list.task)
    <2>1. FJ!Return(p, FJ!Exception) /\ UNCHANGED died
      BY <1>2 DEF FJ!Throw
    <2> QED
      BY <2>1, ReturnStaged
  <1> QED
    BY <1>1, <1>2

\* A block of a sum that throws on a thread without a future: the program ends, since
\* one of the elements of the range throws.
LEMMA AccumulateStaged ==
    ASSUME Tree, NEW p \in DOMAIN node, FJ!Accumulate(p)
    PROVE  StagedStep(p)
  <1>1. FJ!At(p, "leaf") /\ UNCHANGED FJ!chosen /\ list.does = "sum" /\ "leaf" \in Sts \ {"ended"}
    BY DEF FJ!Accumulate, Sts, LeafSts
  <1>2. CASE FJ!Throwing(node[p]) # {}
    <2>1. FJ!Throw(p)
      BY <1>2 DEF FJ!Accumulate
    <2>2. ASSUME node[p].by = "thread", ~list.task, UNCHANGED node PROVE DiesOnlyUnguarded'
      <3>1. list.join = "loop" /\ ~FJ!Halves
        BY <1>1, <2>2, ListFacts DEF ListOK, FJ!Halves
      <3>2. PICK e \in FJ!Throwing(node[p]) : TRUE
        BY <1>2
      <3>3. /\ node[p].lo \in Int /\ node[p].hi \in Int /\ 0 <= node[p].lo /\ node[p].hi <= length
            /\ length \in Nat /\ node[FJ!Root].lo = 0 /\ node[FJ!Root].hi = length
        BY <3>1, BlocksWithin DEF Tree, ChosenOK, PlaceOK
      <3>4. e \in FJ!Throwing(node[FJ!Root])
        BY <3>2, <3>3 DEF FJ!Throwing, FJ!Span
      <3>5. FJ!Throwing(node[FJ!Root])' = FJ!Throwing(node[FJ!Root]) /\ list' = list
        BY <1>1, <2>2 DEF FJ!Throwing, FJ!Span, FJ!chosen
      <3> QED
        BY <3>1, <3>4, <3>5 DEF DiesOnlyUnguarded, FJ!DiesOnlyUnguarded
    <2> QED
      BY <1>1, <2>1, <2>2, ThrowStaged
  <1>3. CASE FJ!Throwing(node[p]) = {}
    <2>1. (\E r : FJ!Return(p, r)) /\ UNCHANGED died
      BY <1>3 DEF FJ!Accumulate
    <2> QED
      BY <1>1, <2>1, ReturnStaged
  <1> QED
    BY <1>2, <1>3

\* A block of a for_each has a future for what f throws.
LEMMA ForEachStaged ==
    ASSUME Tree, NEW p \in DOMAIN node, FJ!ForEach(p)
    PROVE  StagedStep(p)
  <1>1. /\ FJ!At(p, "leaf") /\ UNCHANGED FJ!chosen /\ list.task /\ "leaf" \in Sts \ {"ended"}
    BY ListFacts DEF FJ!ForEach, Sts, LeafSts, ListOK
  <1>2. (\E r : FJ!Return(p, r)) /\ UNCHANGED died
    BY <1>1 DEF FJ!ForEach, FJ!Throw
  <1> QED
    BY <1>1, <1>2, ReturnStaged

\* The steps of a search: nothing leaves them but the result.
LEMMA FindStaged ==
    ASSUME Tree, NEW p \in DOMAIN node,
           \/ FJ!GiveUp(p) \/ FJ!NextElement(p) \/ FJ!Decide(p) \/ FJ!SetFlag(p)
           \/ FJ!DecideAsync(p)
    PROVE  StagedStep(p)
  <1>1. {"leaf", "flag"} \subseteq Sts \ {"ended"} /\ "flag" \in ChunkSts
    BY DEF Sts, LeafSts, ChunkSts
  <1>2. CASE FJ!GiveUp(p) \/ FJ!DecideAsync(p)
    BY <1>1, <1>2, ReturnStaged DEF FJ!GiveUp, FJ!DecideAsync, FJ!Looking
  <1>3. CASE FJ!SetFlag(p)
    BY <1>1, <1>3, ReturnStaged DEF FJ!SetFlag
  <1>4. CASE FJ!Decide(p)
    <2>1. /\ FJ!At(p, "leaf") /\ UNCHANGED FJ!chosen /\ UNCHANGED died /\ list.does = "find"
          /\ (\E r : FJ!Return(p, r)) \/ FJ!Go(p, "flag")
      BY <1>4 DEF FJ!Decide, FJ!Looking
    <2> QED
      BY <1>1, <2>1, ReturnStaged, GoStaged
  <1>5. CASE FJ!NextElement(p)
    <2>1. /\ FJ!At(p, "leaf") /\ node[p].st = "leaf" /\ UNCHANGED FJ!chosen /\ UNCHANGED died
          /\ node' = [node EXCEPT ![p].k = @ + 1]
      BY <1>5 DEF FJ!NextElement, FJ!Looking, FJ!At
    <2>2. IsNode(node[p]) /\ ~died
      BY <2>1 DEF Tree, PlaceOK, FJ!At
    <2>3. Moved(p) /\ To(p, "leaf", node[p].k + 1, node[p].res, node[p].joined)
      BY <2>1, <2>2, CountMoves
    <2> QED
      BY <2>1, <2>2, <2>3 DEF StagedStep, StageOK, To, ChunkSts
  <1> QED
    BY <1>2, <1>3, <1>4, <1>5

\* The phases of a chunk of list 8.11.
LEMMA ChunkStaged ==
    ASSUME Tree, DieInv, NEW p \in DOMAIN node,
           \/ FJ!SumChunk(p) \/ FJ!AddToLast(p) \/ FJ!SetEndValue(p) \/ FJ!AddToRest(p)
           \/ FJ!EndChunk(p)
    PROVE  StagedStep(p)
  <1>1. /\ {"leaf", "wait", "set", "rest", "end"} \subseteq Sts \ {"ended"}
        /\ {"wait", "set", "rest", "end", "fail"} \subseteq ChunkSts
    BY DEF Sts, LeafSts, ChunkSts
  <1>2. StageOK(p)
    BY DEF DieInv
  <1>3. CASE FJ!SumChunk(p)
    <2>1. /\ FJ!At(p, "leaf") /\ UNCHANGED FJ!chosen /\ UNCHANGED died
          /\ p # FJ!Root /\ list.does = "prefix"
          /\ \E t \in {"wait", "set", "end", "fail"} : FJ!Go(p, t)
      BY <1>3 DEF FJ!SumChunk
    <2> QED
      BY <1>1, <2>1, GoStaged
  <1>4. CASE FJ!AddToLast(p)
    <2>1. /\ FJ!At(p, "wait") /\ node[p].st = "wait" /\ UNCHANGED FJ!chosen /\ UNCHANGED died
          /\ \E t \in {"set", "rest", "fail"} : FJ!Go(p, t)
      BY <1>4 DEF FJ!AddToLast, FJ!At
    <2>2. p # FJ!Root /\ list.does = "prefix"
      BY <1>2, <2>1 DEF StageOK, ChunkSts
    <2> QED
      BY <1>1, <2>1, <2>2, GoStaged
  <1>5. CASE FJ!SetEndValue(p)
    <2>1. /\ FJ!At(p, "set") /\ node[p].st = "set" /\ UNCHANGED FJ!chosen /\ UNCHANGED died
          /\ \E t \in {"rest", "end"} : FJ!Go(p, t)
      BY <1>5 DEF FJ!SetEndValue, FJ!At
    <2>2. p # FJ!Root /\ list.does = "prefix"
      BY <1>2, <2>1 DEF StageOK, ChunkSts
    <2> QED
      BY <1>1, <2>1, <2>2, GoStaged
  <1>6. CASE FJ!AddToRest(p)
    <2>1. /\ FJ!At(p, "rest") /\ node[p].st = "rest" /\ UNCHANGED FJ!chosen /\ UNCHANGED died
          /\ \E t \in {"fail", "end"} : FJ!Go(p, t)
      BY <1>6 DEF FJ!AddToRest, FJ!At
    <2>2. p # FJ!Root /\ list.does = "prefix"
      BY <1>2, <2>1 DEF StageOK, ChunkSts
    <2> QED
      BY <1>1, <2>1, <2>2, GoStaged
  <1>7. CASE FJ!EndChunk(p)
    BY <1>1, <1>7, ReturnStaged DEF FJ!EndChunk
  <1> QED
    BY <1>3, <1>4, <1>5, <1>6, <1>7

\* The handler of a chunk ends the program only when the end value has been set: the
\* last chunk, which has none, runs on the caller's thread.
LEMMA FailStaged ==
    ASSUME Tree, DieInv, NEW p \in DOMAIN node, FJ!Fail(p)
    PROVE  StagedStep(p)
  <1>1. /\ FJ!At(p, "fail") /\ node[p].st = "fail" /\ UNCHANGED FJ!chosen
        /\ "fail" \in Sts \ {"ended"}
    BY DEF FJ!Fail, FJ!At, Sts, LeafSts
  <1>2. StageOK(p)
    BY DEF DieInv
  <1>3. p # FJ!Root /\ list.does = "prefix" /\ ~FJ!Halves
    BY <1>1, <1>2, ListFacts DEF StageOK, ChunkSts, FJ!Halves, ListOK
  <1>4. CASE FJ!HasNext(p) /\ promise[FJ!Last(p)] = FJ!None
    <2>1. (\E r : FJ!Return(p, r)) /\ UNCHANGED died
      BY <1>4 DEF FJ!Fail
    <2> QED
      BY <1>1, <2>1, ReturnStaged
  <1>5. CASE ~(FJ!HasNext(p) /\ promise[FJ!Last(p)] = FJ!None)
    <2>1. FJ!Throw(p) /\ UNCHANGED promise
      BY <1>5 DEF FJ!Fail
    <2>2. ASSUME node[p].by = "thread", UNCHANGED node PROVE DiesOnlyUnguarded'
      <3>1. PICK i \in 1 .. blocks : p = Append(FJ!Root, i)
        BY <1>3, BlocksWithin
      <3>2. i \in Nat /\ blocks \in Nat /\ Others + 1 = blocks /\ FJ!Root \in Seq(Nat)
        BY <1>3 DEF Tree, ChosenOK, Others, PlaceOK
      <3>3. FJ!Last(p) = i
        BY <3>1, <3>2, PathFacts
      <3>4. i # blocks
        <4>1. FJ!Root \in DOMAIN node /\ IsKid(FJ!Root, i) /\ Kid(FJ!Root, i) = node[p]
          BY <3>1 DEF IsKid, Kid, Tree
        <4> QED
          BY <2>2, <3>2, <4>1, KidsAre
      <3>5. FJ!HasNext(p)
        BY <3>2, <3>3, <3>4 DEF FJ!HasNext
      <3>6. promise[FJ!Last(p)] # FJ!None
        BY <1>5, <3>5
      <3>7. /\ p \in DOMAIN node' \ {FJ!Root} /\ node'[p].st = "fail" /\ list'.does = "prefix"
            /\ promise'[FJ!Last(p)] # FJ!None
        BY <1>1, <1>3, <2>1, <2>2, <3>6 DEF FJ!chosen
      <3> QED
        BY <3>7 DEF DiesOnlyUnguarded, FJ!DiesOnlyUnguarded
    <2> QED
      BY <1>1, <2>1, <2>2, ThrowStaged
  <1> QED
    BY <1>4, <1>5

\* The steps that collect the results: with a loop that joins, the results are asked
\* for when all threads have been joined, and the call is left before that only by an
\* exception.
LEMMA CollectStaged ==
    ASSUME Tree, DieInv, NEW p \in DOMAIN node,
           \/ FJ!ForkFails(p) \/ FJ!ThreadExits(p) \/ FJ!OwnPartDone(p) \/ FJ!Join(p)
           \/ FJ!GetPart(p) \/ FJ!AllGot(p) \/ FJ!NothingToGet(p) \/ FJ!TestFlag(p)
           \/ FJ!Choose(p)
    PROVE  StagedStep(p)
  <1>1. /\ IsNode(node[p]) /\ StageOK(p) /\ ListOK(list)
    BY ListFacts DEF Tree, PlaceOK, DieInv
  <1>2. /\ UNCHANGED FJ!chosen /\ list' = list /\ UNCHANGED died /\ ~died
    BY DEF FJ!ForkFails, FJ!ThreadExits, FJ!OwnPartDone, FJ!Join, FJ!GetPart, FJ!AllGot,
           FJ!NothingToGet, FJ!TestFlag, FJ!Choose, FJ!At, FJ!Gets, FJ!chosen
  <1>3. CASE FJ!ForkFails(p)
    <2>1. Moved(p) /\ To(p, "leave", node[p].k, FJ!Exception, node[p].joined)
      BY <1>1, <1>3, LeaveMoves DEF FJ!ForkFails
    <2> QED
      BY <1>2, <2>1 DEF StagedStep, StageOK, To, ChunkSts
  <1>4. CASE FJ!ThreadExits(p)
    <2>1. Moved(p) /\ To(p, "ended", node[p].k, node[p].res, node[p].joined)
      BY <1>1, <1>4, ExitMoves DEF FJ!ThreadExits
    <2> QED
      BY <1>2, <2>1 DEF StagedStep, StageOK, To, ChunkSts
  <1>5. CASE FJ!OwnPartDone(p)
    <2>1. CASE FJ!Leave(p, FJ!Exception)
      <3>1. Moved(p) /\ To(p, "leave", node[p].k, FJ!Exception, node[p].joined)
        BY <1>1, <2>1, LeaveMoves
      <3> QED
        BY <1>2, <3>1 DEF StagedStep, StageOK, To, ChunkSts
    <2>2. CASE ~FJ!Leave(p, FJ!Exception)
      <3>1. PICK t \in {"join", "get"} : FJ!Go(p, t) /\ (list.join = "loop" => t = "join")
        BY <1>5, <2>2 DEF FJ!OwnPartDone
      <3>2. t \in Sts
        BY DEF Sts
      <3>3. Moved(p) /\ To(p, t, 0, node[p].res, node[p].joined)
        BY <1>1, <3>1, <3>2, GoMoves
      <3> QED
        BY <1>2, <3>1, <3>3 DEF StagedStep, StageOK, To, ChunkSts
    <2> QED
      BY <2>1, <2>2
  <1>6. CASE FJ!Join(p)
    <2>1. Moved(p) /\ To(p, "get", node[p].k, node[p].res, TRUE)
      BY <1>1, <1>6, JoinMoves DEF FJ!Join
    <2> QED
      BY <1>2, <2>1 DEF StagedStep, StageOK, To, ChunkSts
  <1>7. CASE FJ!GetPart(p) \/ FJ!AllGot(p) \/ FJ!NothingToGet(p) \/ FJ!TestFlag(p) \/ FJ!Choose(p)
    <2>1. list.join = "loop" => node[p].st = "get"
      BY <1>1, <1>7 DEF FJ!GetPart, FJ!AllGot, FJ!NothingToGet, FJ!TestFlag, FJ!Choose, FJ!Gets,
                        FJ!At, ListOK
    <2>2. list.join = "loop" => node[p].joined = TRUE
      BY <1>1, <2>1 DEF StageOK
    <2>3. (\E r : FJ!Leave(p, r)) \/ (node' = [node EXCEPT ![p].k = @ + 1] /\ node[p].st = "get")
      BY <1>7 DEF FJ!GetPart, FJ!AllGot, FJ!NothingToGet, FJ!TestFlag, FJ!Choose, FJ!Gets, FJ!At
    <2>4. Moved(p) /\ node'[p].st \in {"leave", "get"} /\ node'[p].joined = node[p].joined
      BY <1>1, <2>3, LeaveMoves, CountMoves DEF To
    <2> QED
      BY <1>2, <2>2, <2>4 DEF StagedStep, StageOK, ChunkSts
  <1> QED
    BY <1>3, <1>4, <1>5, <1>6, <1>7

\* A call is left with a thread that is still joinable by list 8.7, or by an exception.
LEMMA DepartStaged ==
    ASSUME Tree, DieInv, NEW p \in DOMAIN node, FJ!Depart(p)
    PROVE  StagedStep(p)
  <1>1. /\ FJ!At(p, "leave") /\ node[p].st = "leave" /\ UNCHANGED FJ!chosen /\ ~died
        /\ "leave" \in Sts \ {"ended"} /\ StageOK(p) /\ ListOK(list)
    BY ListFacts DEF FJ!Depart, FJ!At, Sts, DieInv
  <1>2. CASE (\E r : FJ!Return(p, r)) /\ UNCHANGED died
    BY <1>1, <1>2, ReturnStaged
  <1>3. CASE list.join # "destructor" /\ ~node[p].joined /\ UNCHANGED node
    <2>1. CASE list.join = "loop"
      <3>1. node[p].res = FJ!Exception /\ ~FJ!Halves /\ list.does = "sum"
        BY <1>1, <1>3, <2>1 DEF StageOK, ListOK, FJ!Halves
      <3>2. p = FJ!Root
        BY <1>1, <3>1 DEF Tree, PlaceOK, FJ!IsLeaf
      <3> QED
        BY <1>1, <1>3, <2>1, <3>1, <3>2
        DEF StagedStep, DiesOnlyUnguarded, FJ!DiesOnlyUnguarded, FJ!chosen
    <2>2. CASE list.join = "nobody"
      BY <1>1, <1>3, <2>2 DEF StagedStep, DiesOnlyUnguarded, FJ!DiesOnlyUnguarded, FJ!chosen
    <2> QED
      BY <1>1, <1>3, <2>1, <2>2 DEF ListOK
  <1> QED
    BY <1>2, <1>3 DEF FJ!Depart

\* Every step of an activation keeps the invariant.
LEMMA NodeStepDie ==
    ASSUME Tree, DieInv, NEW p \in DOMAIN node, FJ!NodeStep(p)
    PROVE  DieInv'
  <1>1. CASE FJ!Fork(p) \/ FJ!CallInline(p)
    <2>1. list' = list /\ ~died /\ died' = died
      BY <1>1 DEF FJ!Fork, FJ!CallInline, FJ!At, FJ!chosen
    <2>2. PICK by \in {"thread", "inline", "deferred"} : \E i \in Nat : Born(p, i, by)
      BY <1>1, ForkBears
    <2>3. PICK i \in Nat : Born(p, i, by)
      BY <2>2
    <2>4. PICK q : q = Append(p, i)
      OBVIOUS
    <2>5. /\ DOMAIN node' = DOMAIN node \cup {q}
          /\ node'[q].st \in {"leaf", "fork"} /\ node'[p].st \in {"own", "fork"}
          /\ \A c \in DOMAIN node : c # p => node'[c] = node[c]
      BY <2>4, <2>3 DEF Born, Kid, Unstarted
    <2>6. ASSUME NEW c \in DOMAIN node' PROVE StageOK(c)'
      <3>1. CASE node'[c].st \in {"leaf", "fork", "own"}
        BY <3>1 DEF StageOK, ChunkSts
      <3>2. CASE c \in DOMAIN node /\ node'[c] = node[c]
        BY <2>1, <3>2 DEF DieInv, StageOK
      <3> QED
        BY <2>5, <3>1, <3>2
    <2>7. DiesOnlyUnguarded'
      BY <2>1 DEF DiesOnlyUnguarded, FJ!DiesOnlyUnguarded
    <2> QED
      BY <2>6, <2>7 DEF DieInv
  <1>2. CASE StagedStep(p)
    BY <1>2, StagedInv
  <1> QED
    BY <1>1, <1>2, AccumulateStaged, ForEachStaged, FindStaged, ChunkStaged, FailStaged,
       CollectStaged, DepartStaged DEF FJ!NodeStep

\* It holds in every state of every algorithm.
LEMMA DieInvariance == FairParts => []DieInv
  <1>1. InitParts => DieInv
    <2> SUFFICES ASSUME InitParts PROVE DieInv
      OBVIOUS
    <2>1. /\ FJ!Init /\ died = FALSE /\ DOMAIN node = {FJ!Root}
          /\ node[FJ!Root] = FJ!NewNode(FJ!Root, 0, length, "caller", <<"init">>)
      BY DEF InitParts, FJ!Init
    <2>2. node[FJ!Root].st \in {"leaf", "fork"}
      BY <2>1 DEF FJ!NewNode
    <2> QED
      BY <2>1, <2>2 DEF DieInv, StageOK, ChunkSts, DiesOnlyUnguarded, FJ!DiesOnlyUnguarded
  <1>2. ASSUME Tree, DieInv, [(\E i \in Indices : PairwiseStep(i)) \/ ForkStep]_partVars
        PROVE  DieInv'
    <2>1. CASE UNCHANGED forkVars
      BY <1>2, <2>1 DEF forkVars, DieInv, StageOK, DiesOnlyUnguarded, FJ!DiesOnlyUnguarded,
                        FJ!Throwing, FJ!Span
    <2>2. CASE ForkStep
      <3>1. PICK p \in DOMAIN node : FJ!NodeStep(p)
        BY <2>2 DEF ForkStep, FJ!Next
      <3> QED
        BY <1>2, <3>1, NodeStepDie
    <2> QED
      BY <1>2, <2>1, <2>2 DEF PairwiseStep, partVars
  <1> QED
    BY <1>1, <1>2, TreeInvariance, PTL DEF FairParts

\* std::terminate is called by list 8.7, by the lists without a guard when something
\* throws, and by list 8.11 when an addition throws after the end value was set; no
\* other algorithm and no other schedule ends the program.
THEOREM DiesForTheKnownReasons == FairParts => []DiesOnlyUnguarded
  BY DieInvariance, PTL DEF DieInv

-----------------------------------------------------------------------------
(* ForkJoin: the ranges of the activations.                              *)

\* The ranges of parts follow on each other, and make up the range of n: the blocks in
\* their order, the halves in theirs or, for a search, the other way round.
Follow(P, b, lo, hi) ==
    /\ P[1][1] = lo /\ P[b][2] = hi
    /\ \A i \in 1 .. b : P[i][1] \in Int /\ P[i][2] \in Int /\ P[i][1] <= P[i][2]
    /\ \A i, j \in 1 .. b : i < j => P[i][2] <= P[j][1]
    /\ \A i \in 1 .. b - 1 : P[i][2] = P[i + 1][1]

\* The first of two halves ends where the second one begins.
LEMMA HalvesAre ==
    ASSUME ChosenOK, FJ!Halves, NEW n, IsNode(n), n.lo <= n.hi
    PROVE  \E mid \in Int :
               /\ n.lo <= mid /\ mid <= n.hi /\ Others = 1
               /\ FJ!Parts(n) = IF list.does = "find" THEN <<<<mid, n.hi>>, <<n.lo, mid>>>>
                                                      ELSE <<<<n.lo, mid>>, <<mid, n.hi>>>>
               /\ n.hi - n.lo > 1 => n.lo < mid /\ mid < n.hi
  <1>1. n.lo \in Int /\ n.hi \in Int /\ n.hi - n.lo \in Nat
    BY DEF IsNode
  <1>2. PICK mid \in Int : mid = n.lo + (n.hi - n.lo) \div 2
    BY <1>1
  <1>3. n.lo <= mid /\ mid <= n.hi /\ (n.hi - n.lo > 1 => n.lo < mid /\ mid < n.hi)
    BY <1>1, <1>2
  <1> QED
    BY <1>2, <1>3 DEF FJ!Parts, Others

\* The blocks follow on each other.
LEMMA BlocksFollow ==
    ASSUME ChosenOK, ~FJ!Halves, NEW n, IsNode(n), n.lo = 0, n.hi = length
    PROVE  Follow(FJ!Parts(n), blocks, n.lo, n.hi) /\ Others + 1 = blocks
  <1>1. n.lo \in Int /\ n.hi \in Int /\ blocks \in Nat \ {0} /\ length \in Nat
    BY DEF IsNode, ChosenOK
  <1>2. PICK size \in Nat : size = (n.hi - n.lo) \div blocks /\ blocks * size <= length
    BY <1>1
  <1>3. PICK P : P = FJ!Parts(n)
    OBVIOUS
  <1>4. \A i \in 1 .. blocks : /\ P[i][1] = (i - 1) * size
                               /\ P[i][2] = IF i = blocks THEN length ELSE i * size
    <2>1. P = [i \in 1 .. blocks |->
                  <<n.lo + (i - 1) * size, IF i = blocks THEN n.hi ELSE n.lo + i * size>>]
      BY <1>2, <1>3 DEF FJ!Parts
    <2>2. \A i \in 1 .. blocks : (i - 1) * size \in Int /\ i * size \in Int
      BY <1>1
    <2> QED
      BY <1>1, <2>1, <2>2
  <1>5. ASSUME NEW i \in Nat, NEW j \in Nat, i <= j PROVE i * size <= j * size
    <2>1. PICK d \in Nat : j = i + d
      <3>1. j - i \in Nat /\ j = i + (j - i)
        BY <1>5
      <3> QED
        BY <3>1
    <2>2. j * size = i * size + d * size /\ d * size \in Nat /\ i * size \in Nat
      BY <2>1
    <2> QED
      BY <2>2
  <1>6. ASSUME NEW i \in 1 .. blocks, NEW j \in 1 .. blocks, i < j PROVE P[i][2] <= P[j][1]
    <2>1. i \in Nat /\ j - 1 \in Nat /\ i <= j - 1 /\ i # blocks
      BY <1>1, <1>6
    <2> QED
      BY <1>4, <1>5, <2>1
  <1>7. ASSUME NEW i \in 1 .. blocks
        PROVE  P[i][1] \in Int /\ P[i][2] \in Int /\ P[i][1] <= P[i][2]
    <2>1. i \in Nat /\ i - 1 \in Nat /\ i - 1 <= i /\ i <= blocks /\ blocks \in Nat
      BY <1>1
    <2>2. (i - 1) * size <= i * size /\ i * size <= blocks * size
      BY <1>5, <2>1
    <2>3. (i - 1) * size \in Int /\ i * size \in Int /\ blocks * size \in Int
      BY <2>1
    <2>4. PICK x \in Int, y \in Int, z \in Int :
              x = (i - 1) * size /\ y = i * size /\ z = blocks * size
      BY <2>3
    <2>5. x <= y /\ y <= z /\ z <= length
      BY <1>2, <2>2, <2>4
    <2>6. P[i][1] = x /\ (P[i][2] = length \/ P[i][2] = y)
      BY <1>4, <2>4
    <2> QED
      BY <1>1, <2>5, <2>6
  <1>8. ASSUME NEW i \in 1 .. blocks - 1 PROVE P[i][2] = P[i + 1][1]
    <2>1. i \in 1 .. blocks /\ i + 1 \in 1 .. blocks /\ i # blocks /\ (i + 1) - 1 = i
      BY <1>1
    <2> QED
      BY <1>4, <2>1
  <1>9. P[1][1] = 0 /\ P[blocks][2] = length
    BY <1>1, <1>4
  <1> QED
    BY <1>1, <1>3, <1>6, <1>7, <1>8, <1>9 DEF Follow, Others

\* The ranges of b parts are disjoint and make up lo .. hi - 1.
Splits(P, b, lo, hi) ==
    /\ \A i \in 1 .. b : /\ P[i][1] \in Int /\ P[i][2] \in Int
                         /\ lo <= P[i][1] /\ P[i][1] <= P[i][2] /\ P[i][2] <= hi
    /\ \A i, j \in 1 .. b : i # j => P[i][2] <= P[j][1] \/ P[j][2] <= P[i][1]
    /\ \A e \in lo .. hi - 1 : \E i \in 1 .. b : P[i][1] <= e /\ e < P[i][2]

\* Parts that follow on each other do.
LEMMA FollowSplits ==
    ASSUME NEW b \in Nat \ {0}, NEW lo \in Int, NEW hi \in Int, NEW P, Follow(P, b, lo, hi)
    PROVE  Splits(P, b, lo, hi)
  <1>1. \A i \in 1 .. b : P[i][1] \in Int /\ P[i][2] \in Int /\ P[i][1] <= P[i][2]
    BY DEF Follow
  <1>2. ASSUME NEW i \in 1 .. b PROVE lo <= P[i][1] /\ P[i][2] <= hi
    <2>1. 1 \in 1 .. b /\ b \in 1 .. b /\ P[1][1] = lo /\ P[b][2] = hi
      BY DEF Follow
    <2>2. i = 1 \/ P[1][2] <= P[i][1]
      BY <2>1 DEF Follow
    <2>3. i = b \/ P[i][2] <= P[b][1]
      BY <2>1 DEF Follow
    <2> QED
      BY <1>1, <2>1, <2>2, <2>3
  <1>3. ASSUME NEW i \in 1 .. b, NEW j \in 1 .. b, i # j
        PROVE  P[i][2] <= P[j][1] \/ P[j][2] <= P[i][1]
    <2>1. i < j \/ j < i
      BY <1>3
    <2> QED
      BY <2>1 DEF Follow
  <1>4. ASSUME NEW e \in lo .. hi - 1, \A i \in 1 .. b : ~(P[i][1] <= e /\ e < P[i][2])
        PROVE  FALSE
    <2> DEFINE S == {i \in Nat : i + 1 \in 1 .. b => P[i + 1][2] <= e}
    <2>1. 0 \in S
      <3>1. 1 \in 1 .. b /\ 0 + 1 = 1 /\ P[1][1] = lo /\ P[1][2] \in Int
        BY <1>1 DEF Follow
      <3> QED
        BY <1>4, <3>1
    <2>2. ASSUME NEW i \in Nat, i \in S PROVE i + 1 \in S
      <3> SUFFICES ASSUME (i + 1) + 1 \in 1 .. b PROVE P[(i + 1) + 1][2] <= e
        OBVIOUS
      <3>1. PICK k \in 1 .. b - 1 : k = i + 1
        OBVIOUS
      <3>2. k + 1 \in 1 .. b /\ k \in 1 .. b
        OBVIOUS
      <3>3. P[k][2] <= e /\ P[k + 1][1] = P[k][2] /\ P[k + 1][2] \in Int
        BY <1>1, <2>2, <3>1, <3>2 DEF Follow
      <3>4. P[k + 1][2] <= e
        BY <1>4, <3>2, <3>3
      <3> QED
        BY <3>1, <3>4
    <2>3. \A i \in Nat : i \in S
      <3> HIDE DEF S
      <3> QED
        BY <2>1, <2>2, Induction
    <2>4. b - 1 \in Nat /\ (b - 1) + 1 = b /\ b \in 1 .. b
      OBVIOUS
    <2>5. P[b][2] <= e /\ P[b][2] = hi
      BY <2>3, <2>4 DEF Follow
    <2> QED
      BY <2>5
  <1> QED
    BY <1>1, <1>2, <1>3, <1>4 DEF Splits

\* So do the parts of an activation.
LEMMA NodeSplits ==
    ASSUME ChosenOK, NEW n, IsNode(n), n.lo <= n.hi,
           FJ!Halves \/ (n.lo = 0 /\ n.hi = length)
    PROVE  Splits(FJ!Parts(n), Others + 1, n.lo, n.hi)
  <1>1. n.lo \in Int /\ n.hi \in Int
    BY DEF IsNode
  <1>2. CASE FJ!Halves
    <2>1. PICK mid \in Int :
              /\ n.lo <= mid /\ mid <= n.hi /\ Others = 1
              /\ FJ!Parts(n) \in {<<<<mid, n.hi>>, <<n.lo, mid>>>>,
                                  <<<<n.lo, mid>>, <<mid, n.hi>>>>}
      BY <1>2, HalvesAre
    <2>2. PICK P, lo, hi : lo = n.lo /\ hi = n.hi /\ P = FJ!Parts(n)
      OBVIOUS
    <2>3. 1 .. Others + 1 = {1, 2} /\ Others + 1 = 2
      BY <2>1
    <2>4. \/ P[1][1] = mid /\ P[1][2] = hi /\ P[2][1] = lo /\ P[2][2] = mid
          \/ P[1][1] = lo /\ P[1][2] = mid /\ P[2][1] = mid /\ P[2][2] = hi
      BY <2>1, <2>2
    <2>5. lo <= mid /\ mid <= hi
      BY <2>1, <2>2
    <2>6. Splits(P, 2, lo, hi)
      <3>1. lo \in Int /\ hi \in Int
        BY <1>1, <2>2
      <3> QED
        BY <2>4, <2>5, <3>1 DEF Splits
    <2> QED
      BY <2>2, <2>3, <2>6
  <1>3. CASE ~FJ!Halves
    <2>1. Follow(FJ!Parts(n), blocks, n.lo, n.hi) /\ Others + 1 = blocks
      BY <1>3, BlocksFollow
    <2>2. blocks \in Nat \ {0}
      BY DEF ChosenOK
    <2> QED
      BY <1>1, <2>1, <2>2, FollowSplits
  <1> QED
    BY <1>2, <1>3

\* For blocks, the only one that has parts is the call.
LEMMA PartsSplit ==
    ASSUME Tree, NEW p \in DOMAIN node, ~FJ!IsLeaf(p, node[p].lo, node[p].hi),
           node[p].lo <= node[p].hi
    PROVE  Splits(FJ!Parts(node[p]), Others + 1, node[p].lo, node[p].hi)
  <1>1. ChosenOK /\ IsNode(node[p])
    BY DEF Tree, PlaceOK
  <1>2. FJ!Halves \/ (node[p].lo = 0 /\ node[p].hi = length)
    BY DEF FJ!IsLeaf, Tree, PlaceOK
  <1> QED
    BY <1>1, <1>2, NodeSplits

\* Every range lies within the one of the call.
RangeOK(n) ==
    /\ n.lo \in Int /\ n.hi \in Int
    /\ 0 <= n.lo /\ n.lo <= n.hi /\ n.hi <= length

\* So it is, from the call down the tree.
LEMMA RangesOK == ASSUME Tree PROVE \A p \in DOMAIN node : RangeOK(node[p])
  <1> DEFINE S == {p \in DOMAIN node : RangeOK(node[p])}
  <1>1. FJ!Root \in S
    BY DEF Tree, PlaceOK, RangeOK, ChosenOK
  <1>2. ASSUME NEW p \in DOMAIN node, NEW i \in Nat, p \in S, IsKid(p, i)
        PROVE  Append(p, i) \in S
    <2>1. BornOK(p, node[p], i, Kid(p, i)) /\ RangeOK(node[p])
      BY <1>2 DEF Tree, KidOK
    <2>2. Splits(FJ!Parts(node[p]), Others + 1, node[p].lo, node[p].hi)
      BY <2>1, PartsSplit DEF BornOK, RangeOK
    <2>3. RangeOK(Kid(p, i))
      <3>1. PICK a, z : a = Kid(p, i).lo /\ z = Kid(p, i).hi
        OBVIOUS
      <3>2. a \in Int /\ z \in Int /\ node[p].lo <= a /\ a <= z /\ z <= node[p].hi
        BY <2>1, <2>2, <3>1 DEF BornOK, Splits
      <3>3. length \in Int
        BY DEF Tree, ChosenOK
      <3> QED
        BY <2>1, <3>1, <3>2, <3>3 DEF RangeOK
    <2> QED
      BY <1>2, <2>3 DEF IsKid, Kid
  <1> HIDE DEF S
  <1>3. DOMAIN node \subseteq S
    BY <1>1, <1>2, TreeInduction
  <1> QED
    BY <1>3 DEF S

-----------------------------------------------------------------------------
(* ForkJoin: which activation an element belongs to.                     *)

\* e is in the range of a leaf, or in one of a part that has not been started.
Within(r, e)   == r[1] <= e /\ e < r[2]
InSpan(n, e)   == n.lo <= e /\ e < n.hi
Unborn(p, e)   == \E i \in 1 .. Others + 1 : ~IsKid(p, i) /\ Within(FJ!Parts(node[p])[i], e)
Belongs(p, e)  == InSpan(node[p], e) /\ (FJ!IsLeaf(p, node[p].lo, node[p].hi) \/ Unborn(p, e))

\* Every element belongs to exactly one activation.
Owned(e) == \E p \in DOMAIN node : Belongs(p, e) /\ \A q \in DOMAIN node : Belongs(q, e) => q = p
Parcels  == \A e \in 0 .. length - 1 : Owned(e)

\* A step that makes no activation leaves the elements where they are.
LEMMA BelongsStays ==
    ASSUME UNCHANGED FJ!chosen, DOMAIN node' = DOMAIN node, NEW q \in DOMAIN node,
           node'[q].lo = node[q].lo /\ node'[q].hi = node[q].hi, NEW e
    PROVE  Belongs(q, e)' <=> Belongs(q, e)
  <1>1. UNCHANGED <<list, length, blocks, outcome>>
    BY DEF FJ!chosen
  <1>2. /\ FJ!Parts(node[q])' = FJ!Parts(node[q]) /\ Others' = Others
        /\ FJ!IsLeaf(q, node[q].lo, node[q].hi)' <=> FJ!IsLeaf(q, node[q].lo, node[q].hi)
    BY <1>1 DEF FJ!Parts, FJ!Halves, Others, FJ!IsLeaf
  <1>3. \A i : IsKid(q, i)' <=> IsKid(q, i)
    BY DEF IsKid
  <1>4. Unborn(q, e)' <=> Unborn(q, e)
    BY <1>2, <1>3 DEF Unborn, Within
  <1> QED
    BY <1>2, <1>4 DEF Belongs, InSpan

\* So the parcels stay.
LEMMA ParcelsStay ==
    ASSUME Tree, Parcels, UNCHANGED FJ!chosen, DOMAIN node' = DOMAIN node,
           \A q \in DOMAIN node : node'[q].lo = node[q].lo /\ node'[q].hi = node[q].hi
    PROVE  Parcels'
  <1>1. length' = length
    BY DEF FJ!chosen
  <1>2. \A q \in DOMAIN node, e \in 0 .. length - 1 : Belongs(q, e)' <=> Belongs(q, e)
    BY BelongsStays
  <1>3. ASSUME NEW e \in 0 .. length - 1 PROVE Owned(e)'
    BY <1>2 DEF Parcels, Owned
  <1> QED
    BY <1>1, <1>3 DEF Parcels

\* A part that is started takes its range from the activation that starts it.
LEMMA BornBelongs ==
    ASSUME Tree, UNCHANGED FJ!chosen, NEW p \in DOMAIN node, node[p].st = "fork",
           NEW i \in Nat, NEW by, Born(p, i, by)
    PROVE  /\ \A e : \A r \in DOMAIN node : r # p => (Belongs(r, e)' <=> Belongs(r, e))
           /\ \A e \in Int : /\ Belongs(p, e)' => Belongs(p, e)
                             /\ Belongs(Append(p, i), e)' => Belongs(p, e)
                             /\ Belongs(p, e) => (Belongs(p, e)' <=> ~Belongs(Append(p, i), e)')
           /\ Append(p, i) \notin DOMAIN node /\ DOMAIN node' = DOMAIN node \cup {Append(p, i)}
  <1>1. UNCHANGED <<list, length, blocks, outcome>>
    BY DEF FJ!chosen
  <1>2. PICK q, P : q = Append(p, i) /\ P = FJ!Parts(node[p])
    OBVIOUS
  <1>3. /\ p \in Seq(Nat) /\ q # p /\ q \notin DOMAIN node /\ q # FJ!Root
        /\ DOMAIN node' = DOMAIN node \cup {q} /\ Others \in Nat /\ i \in 1 .. Others + 1
    <2>1. Others \in Nat /\ p \in Seq(Nat) /\ ~IsKid(p, i) /\ i \in Nat \ {0} /\ i <= Others + 1
      BY ForksAre DEF Born, Tree, PlaceOK
    <2>2. DOMAIN node' = DOMAIN node \cup {q}
      BY <1>2 DEF Born
    <2> QED
      BY <1>2, <2>1, <2>2, PathFacts DEF IsKid
  <1>4. /\ Others' = Others /\ (FJ!Halves' <=> FJ!Halves)
        /\ \A r, lo, hi : FJ!IsLeaf(r, lo, hi)' <=> FJ!IsLeaf(r, lo, hi)
    BY <1>1 DEF Others, FJ!IsLeaf, FJ!Halves
  <1>5. \A r \in DOMAIN node : /\ node'[r].lo = node[r].lo /\ node'[r].hi = node[r].hi
                               /\ FJ!Parts(node[r])' = FJ!Parts(node[r])
    <2>1. \A r \in DOMAIN node : node'[r].lo = node[r].lo /\ node'[r].hi = node[r].hi
      BY DEF Born
    <2> QED
      BY <1>1, <2>1 DEF FJ!Parts, FJ!Halves
  <1>6. ~FJ!IsLeaf(p, node[p].lo, node[p].hi) /\ RangeOK(node[p]) /\ ChosenOK
    BY RangesOK DEF Tree, PlaceOK
  <1>7. Splits(P, Others + 1, node[p].lo, node[p].hi)
    BY <1>2, <1>6, PartsSplit DEF RangeOK
  <1>8. PICK lo, hi : lo = P[i][1] /\ hi = P[i][2]
    OBVIOUS
  <1>9. /\ lo \in Int /\ hi \in Int /\ node[p].lo <= lo /\ lo <= hi /\ hi <= node[p].hi
        /\ node'[q].lo = lo /\ node'[q].hi = hi /\ IsNode(node'[q])
    BY <1>2, <1>3, <1>7, <1>8 DEF Splits, Born, Kid
  <1>10. ASSUME NEW r \in DOMAIN node, r # p, NEW e PROVE Belongs(r, e)' <=> Belongs(r, e)
    <2>1. \A j \in 1 .. Others + 1 : Append(r, j) # q
      BY <1>2, <1>3, <1>10, PathFacts DEF Tree, PlaceOK
    <2>2. \A j \in 1 .. Others + 1 : IsKid(r, j)' <=> IsKid(r, j)
      BY <1>3, <2>1 DEF IsKid
    <2>3. Unborn(r, e)' <=> Unborn(r, e)
      BY <1>4, <1>5, <2>2 DEF Unborn, Within
    <2> QED
      BY <1>4, <1>5, <2>3 DEF Belongs, InSpan
  <1>11. ASSUME NEW e \in Int PROVE Belongs(p, e)' <=> Belongs(p, e) /\ ~(lo <= e /\ e < hi)
    <2>1. \A j \in 1 .. Others + 1 : IsKid(p, j)' <=> IsKid(p, j) \/ j = i
      BY <1>2, <1>3, PathFacts DEF IsKid
    <2>2. \A j \in 1 .. Others + 1 :
              j # i => ~(Within(P[j], e) /\ Within(P[i], e))
      <3> SUFFICES ASSUME NEW j \in 1 .. Others + 1, j # i, Within(P[j], e), Within(P[i], e)
                   PROVE  FALSE
        OBVIOUS
      <3>1. /\ P[i][1] \in Int /\ P[i][2] \in Int /\ P[j][1] \in Int /\ P[j][2] \in Int
            /\ P[i][2] <= P[j][1] \/ P[j][2] <= P[i][1]
        BY <1>3, <1>7 DEF Splits
      <3> QED
        BY <3>1 DEF Within
    <2>3. Within(P[i], e) <=> lo <= e /\ e < hi
      BY <1>8 DEF Within
    <2>4. ~IsKid(p, i)
      BY <1>2, <1>3 DEF IsKid
    <2>5. Unborn(p, e)' <=> \E j \in 1 .. Others + 1 : ~IsKid(p, j)' /\ Within(P[j], e)
      BY <1>2, <1>4, <1>5 DEF Unborn, Within
    <2>6. Unborn(p, e) <=> \E j \in 1 .. Others + 1 : ~IsKid(p, j) /\ Within(P[j], e)
      BY <1>2 DEF Unborn
    <2>7. Unborn(p, e)' <=> Unborn(p, e) /\ ~Within(P[i], e)
      BY <1>3, <2>1, <2>2, <2>4, <2>5, <2>6
    <2> QED
      BY <1>4, <1>5, <1>6, <2>3, <2>7 DEF Belongs, InSpan
  <1>12. ASSUME NEW e \in Int PROVE Belongs(q, e)' <=> lo <= e /\ e < hi
    <2>1. CASE FJ!IsLeaf(q, lo, hi)
      BY <1>4, <1>9, <2>1 DEF Belongs, InSpan
    <2>2. CASE ~FJ!IsLeaf(q, lo, hi)
      <3>1. PICK n : n = node'[q]
        OBVIOUS
      <3>2. FJ!Halves /\ n.lo = lo /\ n.hi = hi
        BY <1>3, <1>9, <2>2, <3>1 DEF FJ!IsLeaf
      <3>3. Splits(FJ!Parts(n), Others + 1, lo, hi)
        BY <1>6, <1>9, <3>1, <3>2, NodeSplits
      <3>4. FJ!Parts(node[q])' = FJ!Parts(n)
        BY <1>1, <3>1 DEF FJ!Parts, FJ!Halves
      <3>5. \A j \in 1 .. Others + 1 : ~IsKid(q, j)'
        <4> SUFFICES ASSUME NEW j \in 1 .. Others + 1, IsKid(q, j)' PROVE FALSE
          OBVIOUS
        <4>1. q \in Seq(Nat) /\ j \in Nat
          BY <1>2, <1>3, PathFacts
        <4>2. Append(q, j) \in DOMAIN node \/ Append(q, j) = q
          BY <1>3 DEF IsKid
        <4>3. Append(q, j) \in DOMAIN node
          BY <4>1, <4>2, PathFacts
        <4>4. Append(q, j) # FJ!Root
          BY <4>1, PathFacts
        <4>5. PICK c \in DOMAIN node : \E k \in 1 .. Others + 1 : Append(q, j) = Append(c, k)
          BY <4>3, <4>4 DEF Tree, PlaceOK
        <4>6. c \in Seq(Nat) /\ \E k \in Nat : Append(q, j) = Append(c, k)
          BY <1>3, <4>5 DEF Tree, PlaceOK
        <4>7. q = c
          BY <4>1, <4>6, AppendInjective
        <4> QED
          BY <1>3, <4>7
      <3>6. Unborn(q, e)' <=> \E j \in 1 .. Others + 1 : Within(FJ!Parts(n)[j], e)
        BY <1>4, <3>4, <3>5 DEF Unborn, Within
      <3>7. (lo <= e /\ e < hi) => \E j \in 1 .. Others + 1 : Within(FJ!Parts(n)[j], e)
        <4>1. (lo <= e /\ e < hi) => e \in lo .. hi - 1
          BY <1>9
        <4> QED
          BY <3>3, <4>1 DEF Splits, Within
      <3> QED
        BY <1>4, <1>9, <2>2, <3>6, <3>7 DEF Belongs, InSpan
    <2> QED
      BY <2>1, <2>2
  <1>13. ASSUME NEW e \in Int, lo <= e, e < hi PROVE Belongs(p, e)
    <2>1. ~IsKid(p, i) /\ Within(P[i], e)
      BY <1>2, <1>3, <1>8, <1>13 DEF IsKid, Within
    <2>2. Unborn(p, e)
      BY <1>2, <1>3, <2>1 DEF Unborn
    <2>3. InSpan(node[p], e)
      BY <1>6, <1>9, <1>13 DEF InSpan, RangeOK
    <2> QED
      BY <2>2, <2>3 DEF Belongs
  <1> QED
    BY <1>2, <1>3, <1>10, <1>11, <1>12, <1>13

\* Every element still belongs to exactly one.
LEMMA BornParcels ==
    ASSUME Tree, Parcels, UNCHANGED FJ!chosen, NEW p \in DOMAIN node, node[p].st = "fork",
           NEW i \in Nat, NEW by, Born(p, i, by)
    PROVE  Parcels'
  <1>1. length' = length
    BY DEF FJ!chosen
  <1>2. PICK q : q = Append(p, i)
    OBVIOUS
  <1>3. q \notin DOMAIN node /\ DOMAIN node' = DOMAIN node \cup {q}
    BY <1>2, BornBelongs
  <1>4. \A e : \A r \in DOMAIN node : r # p => (Belongs(r, e)' <=> Belongs(r, e))
    BY BornBelongs
  <1>5. \A e \in Int : /\ Belongs(p, e)' => Belongs(p, e)
                       /\ Belongs(q, e)' => Belongs(p, e)
                       /\ Belongs(p, e) => (Belongs(p, e)' <=> ~Belongs(q, e)')
    BY <1>2, BornBelongs
  <1>6. ASSUME NEW e \in 0 .. length - 1 PROVE Owned(e)'
    <2>1. e \in Int
      OBVIOUS
    <2>2. PICK o \in DOMAIN node : Belongs(o, e) /\ \A r \in DOMAIN node : Belongs(r, e) => r = o
      BY <1>6 DEF Parcels, Owned
    <2>3. CASE Belongs(q, e)'
      <3>1. o = p /\ ~Belongs(p, e)'
        BY <1>5, <2>1, <2>2, <2>3
      <3>2. \A r \in DOMAIN node : ~Belongs(r, e)'
        BY <1>4, <2>2, <3>1
      <3> QED
        BY <1>3, <2>3, <3>2 DEF Owned
    <2>4. CASE ~Belongs(q, e)'
      <3>1. \A r \in DOMAIN node : Belongs(r, e)' <=> Belongs(r, e)
        BY <1>4, <1>5, <2>1, <2>4
      <3> QED
        BY <1>3, <2>2, <2>4, <3>1 DEF Owned
    <2> QED
      BY <2>3, <2>4
  <1> QED
    BY <1>1, <1>6 DEF Parcels

\* An activation has its result; it has ended, but for the exit of its thread.
HasRes(n) == n.st \in {"leave", "ready", "ended"}
Done(n)   == n.st \in {"ready", "ended"}

\* A step that makes no activation; a result stays what it is.
Kept(p) ==
    /\ DOMAIN node' = DOMAIN node
    /\ \A q \in DOMAIN node : q # p => node'[q] = node[q]
    /\ node'[p].lo = node[p].lo /\ node'[p].hi = node[p].hi
    /\ node'[p].by = node[p].by /\ node'[p].init = node[p].init
    /\ HasRes(node[p]) => HasRes(node'[p]) /\ node'[p].res = node[p].res
    /\ Done(node[p]) => Done(node'[p])

\* A leaf, or an activation that waits, has no result yet.
LEMMA MovedKept ==
    ASSUME NEW p \in DOMAIN node, Moved(p), ~HasRes(node[p])
    PROVE  Kept(p)
  BY DEF Moved, Kept, HasRes, Done

\* What a step of an activation is, seen from the others.
LEMMA StepIs ==
    ASSUME Tree, NEW p \in DOMAIN node, FJ!NodeStep(p)
    PROVE  /\ UNCHANGED FJ!chosen
           /\ \/ Kept(p)
              \/ node[p].st = "fork" /\ \E i \in Nat : \E by : Born(p, i, by)
  <1> USE DEF HasRes, Done
  <1>0. IsNode(node[p])
    BY DEF Tree, PlaceOK
  <1>1. CASE FJ!Fork(p) \/ FJ!CallInline(p)
    <2>1. PICK by \in {"thread", "inline", "deferred"} : \E i \in Nat : Born(p, i, by)
      BY <1>1, ForkBears
    <2> QED
      BY <1>1, <2>1, ForkBears
  <1>2. CASE LeafSteps(p)
    <2>1. UNCHANGED FJ!chosen /\ (LeafMove(p) \/ UNCHANGED node)
      BY <1>2, LeafStepMoves
    <2>2. CASE LeafMove(p)
      BY <2>1, <2>2, MovedKept DEF LeafMove, LeafSts
    <2> QED
      BY <2>1, <2>2 DEF Kept
  <1>3. CASE FJ!ForkFails(p)
    <2>1. Moved(p)
      BY <1>0, <1>3, LeaveMoves DEF FJ!ForkFails
    <2> QED
      BY <1>3, <2>1, MovedKept DEF FJ!ForkFails, FJ!At
  <1>4. CASE FJ!ThreadExits(p)
    <2>1. Moved(p) /\ To(p, "ended", node[p].k, node[p].res, node[p].joined)
      BY <1>0, <1>4, ExitMoves DEF FJ!ThreadExits
    <2> QED
      BY <1>4, <2>1 DEF Kept, Moved, To, FJ!ThreadExits, FJ!At
  <1>5. CASE FJ!OwnPartDone(p)
    <2>1. \/ FJ!Leave(p, FJ!Exception)
          \/ FJ!Go(p, "join") \/ FJ!Go(p, "get")
      BY <1>5 DEF FJ!OwnPartDone
    <2>2. Moved(p)
      BY <1>0, <2>1, LeaveMoves, GoMoves DEF Sts
    <2> QED
      BY <1>5, <2>2, MovedKept DEF FJ!OwnPartDone, FJ!At
  <1>6. CASE FJ!Join(p)
    <2>1. Moved(p)
      BY <1>0, <1>6, JoinMoves DEF FJ!Join
    <2> QED
      BY <1>6, <2>1, MovedKept DEF FJ!Join, FJ!At
  <1>7. CASE FJ!GetPart(p) \/ FJ!AllGot(p) \/ FJ!TestFlag(p) \/ FJ!Choose(p) \/ FJ!NothingToGet(p)
    <2>1. (\E r : FJ!Leave(p, r)) \/ node' = [node EXCEPT ![p].k = @ + 1]
      BY <1>7 DEF FJ!GetPart, FJ!AllGot, FJ!TestFlag, FJ!Choose, FJ!NothingToGet
    <2>2. Moved(p)
      BY <1>0, <2>1, LeaveMoves, CountMoves
    <2>3. node[p].st \in {"get", "leaf"} /\ UNCHANGED FJ!chosen
      BY <1>7 DEF FJ!GetPart, FJ!AllGot, FJ!TestFlag, FJ!Choose, FJ!NothingToGet, FJ!Gets, FJ!At
    <2> QED
      BY <2>2, <2>3, MovedKept
  <1>8. CASE FJ!Depart(p)
    <2>1. /\ UNCHANGED FJ!chosen /\ node[p].st = "leave"
          /\ FJ!Return(p, node[p].res) \/ UNCHANGED node
      BY <1>8 DEF FJ!Depart, FJ!At
    <2>2. CASE FJ!Return(p, node[p].res)
      <3>1. PICK r : r = node[p].res
        OBVIOUS
      <3>2. Moved(p) /\ To(p, Gone(node[p]), node[p].k, r, node[p].joined)
        BY <1>0, <2>2, <3>1, ReturnMoves
      <3>3. node'[p].st \in {"ready", "ended"} /\ node'[p].res = node[p].res
        BY <3>1, <3>2 DEF To, Gone
      <3> QED
        BY <2>1, <3>2, <3>3 DEF Kept, Moved
    <2> QED
      BY <2>1, <2>2 DEF Kept
  <1> QED
    BY <1>1, <1>2, <1>3, <1>4, <1>5, <1>6, <1>7, <1>8 DEF FJ!NodeStep, LeafSteps

\* Every step keeps the parcels.
LEMMA NodeStepParcels ==
    ASSUME Tree, Parcels, NEW p \in DOMAIN node, FJ!NodeStep(p)
    PROVE  Parcels'
  <1>1. UNCHANGED FJ!chosen
    BY StepIs
  <1>2. CASE Kept(p)
    BY <1>1, <1>2, ParcelsStay DEF Kept
  <1>3. CASE node[p].st = "fork" /\ \E i \in Nat : \E by : Born(p, i, by)
    BY <1>1, <1>3, BornParcels
  <1> QED
    BY <1>2, <1>3, StepIs

\* At first all elements belong to the call.
LEMMA InitParcels == ASSUME FJ!Init PROVE Parcels
  <1>1. Tree /\ DOMAIN node = {FJ!Root}
    BY InitTree DEF FJ!Init
  <1>2. node[FJ!Root].lo = 0 /\ node[FJ!Root].hi = length /\ ChosenOK /\ length \in Nat
        /\ IsNode(node[FJ!Root]) /\ FJ!Root \in Seq(Nat) /\ Others \in Nat
    BY <1>1, ForksAre DEF Tree, PlaceOK, ChosenOK
  <1>3. \A i \in 1 .. Others + 1 : ~IsKid(FJ!Root, i)
    BY <1>1, <1>2, PathFacts DEF IsKid
  <1>4. ASSUME NEW e \in 0 .. length - 1 PROVE Belongs(FJ!Root, e)
    <2>1. CASE FJ!IsLeaf(FJ!Root, node[FJ!Root].lo, node[FJ!Root].hi)
      BY <1>2, <2>1 DEF Belongs, InSpan
    <2>2. CASE ~FJ!IsLeaf(FJ!Root, node[FJ!Root].lo, node[FJ!Root].hi)
      <3>1. Splits(FJ!Parts(node[FJ!Root]), Others + 1, 0, length)
        BY <1>1, <1>2, <2>2, PartsSplit
      <3>2. Unborn(FJ!Root, e)
        BY <1>3, <3>1 DEF Splits, Unborn, Within
      <3> QED
        BY <1>2, <3>2 DEF Belongs, InSpan
    <2> QED
      BY <2>1, <2>2
  <1> QED
    BY <1>1, <1>4 DEF Parcels, Owned

-----------------------------------------------------------------------------
(* ForkJoin: what the activations of a search find.                      *)

\* The three kinds of results are told apart.
LEMMA ResultsDiffer ==
    /\ FJ!None # FJ!Exception
    /\ \A v : FJ!Value(v) # FJ!None /\ FJ!Value(v) # FJ!Exception /\ FJ!Value(v).of = v
    /\ \A v, w : FJ!Value(v) = FJ!Value(w) => v = w
  BY DEF FJ!None, FJ!Exception, FJ!Value

\* A search returns a match of its range, the end of its range, or an exception; a block
\* of list 8.9 that has decided the search leaves its result in the promise.
FoundRes(p, n) ==
    \/ n.res = FJ!Exception
    \/ n.res = FJ!None /\ ~FJ!Halves /\ p # FJ!Root
    \/ \E v \in n.lo .. n.hi : n.res = FJ!Value(v) /\ (v < n.hi => outcome[v] = "match")
Plain(lo, hi) == \A e \in lo .. hi - 1 : outcome[e] = "plain"

FoundOK(p) ==
    /\ node[p].st = "leaf" => /\ node[p].lo + node[p].k <= node[p].hi
                              /\ Plain(node[p].lo, node[p].lo + node[p].k)
    /\ node[p].st \in {"join", "get"} => node[p].k = 0
    /\ HasRes(node[p]) => FoundRes(p, node[p])
    /\ FJ!IsLeaf(p, node[p].lo, node[p].hi) /\ HasRes(node[p])
          /\ node[p].res = FJ!Value(node[p].hi)
          => done = TRUE \/ Plain(node[p].lo, node[p].hi)
    /\ node[p].st = "flag" => ~FJ!Halves /\ p # FJ!Root /\ promise[0] # FJ!None

\* What the flag and the promise say: the promise of list 8.9 holds a match or an
\* exception, and is set before the flag; in list 8.10 somebody has not come to the end
\* of his range.
FlagOK ==
    /\ ~FJ!Halves =>
           /\ \/ promise[0] \in {FJ!None, FJ!Exception}
              \/ \E v \in 0 .. length - 1 : promise[0] = FJ!Value(v) /\ outcome[v] = "match"
           /\ done = TRUE => promise[0] # FJ!None
    /\ FJ!Halves /\ done = TRUE =>
           \E p \in DOMAIN node : HasRes(node[p]) /\ node[p].res # FJ!Value(node[p].hi)

FoundInv == list.does = "find" => (\A p \in DOMAIN node : FoundOK(p)) /\ FlagOK

\* The flag and the promise, once set, stay so.
FlagsStay == (done = TRUE => done' = TRUE) /\ (promise[0] # FJ!None => promise'[0] # FJ!None)

\* What an activation has found stays as it is when another one takes a step.
LEMMA FoundStays ==
    ASSUME UNCHANGED FJ!chosen, FlagsStay, NEW q \in DOMAIN node, FoundOK(q), node'[q] = node[q]
    PROVE  FoundOK(q)'
  <1>1. UNCHANGED <<list, length, blocks, outcome>>
    BY DEF FJ!chosen
  <1>2. /\ FJ!IsLeaf(q, node[q].lo, node[q].hi)' <=> FJ!IsLeaf(q, node[q].lo, node[q].hi)
        /\ (FJ!Halves' <=> FJ!Halves)
        /\ FoundRes(q, node[q])' <=> FoundRes(q, node[q])
        /\ HasRes(node[q])' <=> HasRes(node[q])
        /\ Plain(node[q].lo, node[q].lo + node[q].k)' <=> Plain(node[q].lo, node[q].lo + node[q].k)
        /\ Plain(node[q].lo, node[q].hi)' <=> Plain(node[q].lo, node[q].hi)
    BY <1>1 DEF FJ!IsLeaf, FJ!Halves, FoundRes, HasRes, Plain
  <1> QED
    BY <1>2 DEF FoundOK, FlagsStay

\* So do the flag and the promise themselves, if the step is not about them.
LEMMA FlagStays ==
    ASSUME Tree, FlagOK, UNCHANGED FJ!chosen, UNCHANGED <<promise, done>>,
           DOMAIN node \subseteq DOMAIN node',
           \A q \in DOMAIN node : /\ node'[q].hi = node[q].hi
                                  /\ HasRes(node[q]) =>
                                         HasRes(node'[q]) /\ node'[q].res = node[q].res
    PROVE  FlagOK'
  <1>1. UNCHANGED <<list, length, blocks, outcome>>
    BY DEF FJ!chosen
  <1>2. FJ!Halves' <=> FJ!Halves
    BY <1>1 DEF FJ!Halves
  <1>3. ASSUME NEW p \in DOMAIN node, HasRes(node[p]), node[p].res # FJ!Value(node[p].hi)
        PROVE  /\ p \in DOMAIN node' /\ HasRes(node'[p]) 
               /\ node'[p].res # FJ!Value(node'[p].hi)
    BY <1>3
  <1> QED
    BY <1>1, <1>2, <1>3 DEF FlagOK, HasRes

\* A step of a search: what it leaves behind is in order.
FoundStep(p) ==
    /\ UNCHANGED FJ!chosen /\ FlagsStay
    /\ DOMAIN node' = DOMAIN node
    /\ \A q \in DOMAIN node : q # p => node'[q] = node[q]
    /\ FoundOK(p)' /\ FlagOK'

\* Such a step keeps the invariant.
LEMMA FoundStepInv ==
    ASSUME FoundInv, list.does = "find", NEW p \in DOMAIN node, FoundStep(p)
    PROVE  FoundInv'
  <1>1. ASSUME NEW q \in DOMAIN node PROVE FoundOK(q)'
    <2>1. CASE q = p
      BY <2>1 DEF FoundStep
    <2>2. CASE q # p
      BY <2>2, FoundStays DEF FoundStep, FoundInv
    <2> QED
      BY <2>1, <2>2
  <1> QED
    BY <1>1 DEF FoundInv, FoundStep

\* What the algorithms share keeps its shape.
StoreOK ==
    /\ cell = [e \in 0 .. length - 1 |-> cell[e]]
    /\ promise = [i \in 0 .. blocks - 1 |-> promise[i]]
    /\ done \in BOOLEAN

\* Every step leaves it so.
LEMMA StoreStays == ASSUME Tree, StoreOK, FJ!Next PROVE StoreOK'
  <1>1. PICK p \in DOMAIN node : FJ!NodeStep(p)
    BY DEF FJ!Next
  <1>2. UNCHANGED <<length, blocks>>
    BY <1>1, StepIs DEF FJ!chosen
  <1> USE DEF StoreOK
  <1>3. CASE FJ!Fork(p) \/ FJ!ForkFails(p) \/ FJ!CallInline(p) \/ FJ!Accumulate(p)
    BY <1>2, <1>3 DEF FJ!Fork, FJ!ForkFails, FJ!CallInline, FJ!Accumulate, FJ!shared
  <1>4. CASE FJ!ForEach(p)
    BY <1>2, <1>4 DEF FJ!ForEach
  <1>5. CASE FJ!GiveUp(p) \/ FJ!NextElement(p)
    BY <1>2, <1>5 DEF FJ!GiveUp, FJ!NextElement, FJ!shared
  <1>6. CASE FJ!Decide(p)
    BY <1>2, <1>6 DEF FJ!Decide
  <1>7. CASE FJ!SetFlag(p) \/ FJ!DecideAsync(p)
    BY <1>2, <1>7 DEF FJ!SetFlag, FJ!DecideAsync
  <1>8. CASE FJ!SumChunk(p) \/ FJ!AddToLast(p) \/ FJ!AddToRest(p)
    BY <1>2, <1>8 DEF FJ!SumChunk, FJ!AddToLast, FJ!AddToRest, FJ!Prefixed
  <1>9. CASE FJ!SetEndValue(p) \/ FJ!Fail(p)
    BY <1>2, <1>9 DEF FJ!SetEndValue, FJ!Fail
  <1>10. CASE FJ!EndChunk(p) \/ FJ!ThreadExits(p) \/ FJ!OwnPartDone(p) \/ FJ!Join(p)
    BY <1>2, <1>10 DEF FJ!EndChunk, FJ!ThreadExits, FJ!OwnPartDone, FJ!Join, FJ!shared
  <1>11. CASE FJ!GetPart(p) \/ FJ!AllGot(p) \/ FJ!NothingToGet(p) \/ FJ!TestFlag(p)
    BY <1>2, <1>11 DEF FJ!GetPart, FJ!AllGot, FJ!NothingToGet, FJ!TestFlag, FJ!shared
  <1>12. CASE FJ!Choose(p)
    BY <1>2, <1>12 DEF FJ!Choose, FJ!shared
  <1>13. CASE FJ!Depart(p)
    BY <1>2, <1>13 DEF FJ!Depart
  <1> QED
    BY <1>1, <1>3, <1>4, <1>5, <1>6, <1>7, <1>8, <1>9, <1>10, <1>11, <1>12, <1>13
    DEF FJ!NodeStep

\* What is known of a leaf that looks at its elements.
Search(p) == Tree /\ StoreOK /\ FoundInv /\ list.does = "find" /\ p \in DOMAIN node

\* A step that leaves the flag and the promise, and keeps what p has found, is in order.
LEMMA QuietFoundStep ==
    ASSUME NEW p, Search(p), UNCHANGED FJ!chosen, UNCHANGED <<promise, done>>, Kept(p),
           FoundOK(p)'
    PROVE  FoundStep(p)
  <1>1. FlagOK'
    <2>1. \A q \in DOMAIN node :
              /\ node'[q].hi = node[q].hi
              /\ HasRes(node[q]) => HasRes(node'[q]) /\ node'[q].res = node[q].res
      BY DEF Kept
    <2>2. DOMAIN node \subseteq DOMAIN node'
      BY DEF Kept
    <2> QED
      BY <2>1, <2>2, FlagStays DEF Search, FoundInv
  <1> QED
    BY <1>1 DEF FoundStep, FlagsStay, Kept

\* The loop of a leaf.
LEMMA LookFound ==
    ASSUME NEW p, Search(p), FJ!GiveUp(p) \/ FJ!NextElement(p)
    PROVE  FoundStep(p)
  <1>1. /\ node[p].st = "leaf" /\ UNCHANGED FJ!chosen /\ UNCHANGED <<promise, done>>
        /\ IsNode(node[p]) /\ ~HasRes(node[p]) /\ RangeOK(node[p]) /\ node[p].k \in Nat
    BY RangesOK DEF FJ!GiveUp, FJ!NextElement, FJ!Looking, FJ!At, FJ!shared, Search, Tree, PlaceOK,
                    HasRes, IsNode
  <1>2. /\ node[p].lo + node[p].k <= node[p].hi
        /\ Plain(node[p].lo, node[p].lo + node[p].k)
    BY <1>1 DEF Search, FoundInv, FoundOK
  <1>3. outcome' = outcome /\ done' = done
    BY <1>1 DEF FJ!chosen
  <1>4. CASE FJ!GiveUp(p)
    <2>1. PICK r : r = FJ!Value(node[p].hi)
      OBVIOUS
    <2>2. Moved(p) /\ To(p, Gone(node[p]), node[p].k, r, node[p].joined)
      BY <1>1, <1>4, <2>1, ReturnMoves DEF FJ!GiveUp, Search
    <2>3. Kept(p)
      BY <1>1, <2>2, MovedKept DEF Search
    <2>4. node'[p].st \in {"ready", "ended"} /\ node'[p].res = FJ!Value(node'[p].hi)
          /\ node'[p].lo = node[p].lo /\ node'[p].hi = node[p].hi
      BY <2>1, <2>2 DEF To, Gone, Moved
    <2>5. FoundRes(p, node[p])'
      BY <1>1, <2>4 DEF FoundRes, RangeOK
    <2>6. done = TRUE \/ Plain(node[p].lo, node[p].hi)
      BY <1>2, <1>4 DEF FJ!GiveUp, FJ!Finished, Search, StoreOK
    <2>7. done' = TRUE \/ Plain(node[p].lo, node[p].hi)'
      BY <1>3, <2>4, <2>6 DEF Plain
    <2>8. FoundOK(p)'
      BY <2>4, <2>5, <2>7 DEF FoundOK
    <2> QED
      BY <1>1, <2>3, <2>8, QuietFoundStep
  <1>5. CASE FJ!NextElement(p)
    <2>1. Moved(p) /\ To(p, node[p].st, node[p].k + 1, node[p].res, node[p].joined)
      BY <1>1, <1>5, CountMoves DEF FJ!NextElement, Search
    <2>2. Kept(p)
      BY <1>1, <2>1, MovedKept DEF Search
    <2>3. /\ node'[p].st = "leaf" /\ node'[p].k = node[p].k + 1
          /\ node'[p].lo = node[p].lo /\ node'[p].hi = node[p].hi
      BY <1>1, <2>1 DEF To, Moved
    <2>4. PICK lo \in Int, hi \in Int, k \in Nat :
              lo = node[p].lo /\ hi = node[p].hi /\ k = node[p].k
      BY <1>1 DEF RangeOK
    <2>5. lo + k # hi /\ outcome[lo + k] = "plain"
      BY <1>5, <2>4 DEF FJ!NextElement, FJ!Finished, FJ!LookedAt
    <2>6. lo + (k + 1) <= hi /\ Plain(lo, lo + (k + 1))
      BY <1>2, <2>4, <2>5 DEF Plain
    <2>7. FoundOK(p)'
      BY <1>3, <2>3, <2>4, <2>6 DEF FoundOK, Plain, HasRes
    <2> QED
      BY <1>1, <2>2, <2>7, QuietFoundStep
  <1> QED
    BY <1>4, <1>5

\* The element a leaf looks at is one of its range.
LEMMA LookingAt ==
    ASSUME NEW p, Search(p), FJ!Looking(p), ~FJ!Finished(p)
    PROVE  /\ node[p].st = "leaf" /\ IsNode(node[p]) /\ RangeOK(node[p]) /\ ~HasRes(node[p])
           /\ FJ!LookedAt(p) \in node[p].lo .. node[p].hi - 1
           /\ FJ!LookedAt(p) \in 0 .. length - 1
           /\ ~FJ!Halves => p # FJ!Root
           /\ done = FALSE /\ 0 \in DOMAIN promise
  <1>1. /\ node[p].st = "leaf" /\ IsNode(node[p]) /\ RangeOK(node[p]) /\ node[p].k \in Nat
        /\ FJ!IsLeaf(p, node[p].lo, node[p].hi)
    BY RangesOK DEF FJ!Looking, FJ!At, Search, Tree, PlaceOK, IsNode, LeafSts
  <1>2. node[p].lo + node[p].k <= node[p].hi
    BY <1>1 DEF Search, FoundInv, FoundOK
  <1>3. PICK lo \in Int, hi \in Int, k \in Nat : lo = node[p].lo /\ hi = node[p].hi /\ k = node[p].k
    BY <1>1 DEF RangeOK
  <1>4. lo + k \in lo .. hi - 1 /\ lo + k \in 0 .. length - 1 /\ FJ!LookedAt(p) = lo + k
    <2>1. length \in Nat /\ 0 <= lo /\ hi <= length /\ lo + k <= hi /\ lo + k # hi
      BY <1>1, <1>2, <1>3 DEF Search, Tree, ChosenOK, RangeOK, FJ!Finished
    <2> QED
      BY <1>3, <2>1 DEF FJ!LookedAt
  <1>5. ~FJ!Halves => p # FJ!Root
    BY <1>1, <1>3, <1>4 DEF FJ!IsLeaf
  <1>6. done = FALSE /\ 0 \in DOMAIN promise
    BY DEF FJ!Finished, Search, StoreOK, Tree, ChosenOK
  <1> QED
    BY <1>1, <1>3, <1>4, <1>5, <1>6 DEF HasRes

\* A block of list 8.9 sets the promise, or finds it set.
LEMMA DecideFound ==
    ASSUME NEW p, Search(p), FJ!Decide(p)
    PROVE  FoundStep(p)
  <1>1. /\ UNCHANGED FJ!chosen /\ done' = done /\ outcome' = outcome /\ length' = length
        /\ (FJ!Halves' <=> FJ!Halves) /\ ~FJ!Halves /\ p # FJ!Root
        /\ IsNode(node[p]) /\ ~HasRes(node[p]) /\ done = FALSE /\ "flag" \in Sts
        /\ p \in DOMAIN node
    BY LookingAt DEF FJ!Decide, FJ!chosen, FJ!Halves, Sts, LeafSts, Search
  <1>2. PICK x \in 0 .. length - 1 : x = FJ!LookedAt(p)
    BY LookingAt DEF FJ!Decide
  <1>3. CASE promise[0] = FJ!None
    <2>1. FJ!Go(p, "flag")
          /\ promise'[0] = IF outcome[x] = "match" THEN FJ!Value(x) ELSE FJ!Exception
      BY <1>2, <1>3, LookingAt DEF FJ!Decide
    <2>2. Moved(p) /\ To(p, "flag", 0, node[p].res, node[p].joined)
      BY <1>1, <2>1, GoMoves
    <2>3. /\ promise'[0] # FJ!None
          /\ \/ promise'[0] = FJ!Exception
             \/ \E v \in 0 .. length - 1 : promise'[0] = FJ!Value(v) /\ outcome[v] = "match"
      BY <1>2, <2>1, ResultsDiffer
    <2>4. FoundOK(p)'
      BY <1>1, <2>2, <2>3 DEF FoundOK, To, HasRes
    <2>5. FlagOK'
      BY <1>1, <2>3 DEF FlagOK
    <2> QED
      BY <1>1, <1>3, <2>2, <2>4, <2>5 DEF FoundStep, FlagsStay, Moved
  <1>4. CASE promise[0] # FJ!None
    <2>1. FJ!Return(p, FJ!None) /\ promise' = promise
      BY <1>4 DEF FJ!Decide
    <2>2. PICK r : r = FJ!None
      OBVIOUS
    <2>3. Moved(p) /\ To(p, Gone(node[p]), node[p].k, r, node[p].joined)
      BY <1>1, <2>1, <2>2, ReturnMoves
    <2>4. Kept(p)
      BY <1>1, <2>3, MovedKept
    <2>5. node'[p].st \in {"ready", "ended"} /\ node'[p].res = FJ!None
      BY <2>2, <2>3 DEF To, Gone
    <2>6. FoundRes(p, node[p])'
      BY <1>1, <2>5 DEF FoundRes
    <2>7. FoundOK(p)'
      BY <2>5, <2>6, ResultsDiffer DEF FoundOK
    <2> QED
      BY <1>1, <2>1, <2>4, <2>7, QuietFoundStep
  <1> QED
    BY <1>3, <1>4

\* Then it sets the flag.
LEMMA SetFlagFound ==
    ASSUME NEW p, Search(p), FJ!SetFlag(p)
    PROVE  FoundStep(p)
  <1>1. /\ UNCHANGED FJ!chosen /\ done' = TRUE /\ promise' = promise
        /\ outcome' = outcome /\ length' = length /\ (FJ!Halves' <=> FJ!Halves)
        /\ node[p].st = "flag" /\ IsNode(node[p]) /\ FoundOK(p) /\ FlagOK
        /\ p \in DOMAIN node
    BY DEF FJ!SetFlag, FJ!At, FJ!chosen, FJ!Halves, Search, Tree, PlaceOK, FoundInv
  <1>2. ~FJ!Halves /\ p # FJ!Root /\ promise[0] # FJ!None
    BY <1>1 DEF FoundOK
  <1>3. PICK r : r = FJ!None
    OBVIOUS
  <1>4. Moved(p) /\ To(p, Gone(node[p]), node[p].k, r, node[p].joined)
    BY <1>1, <1>3, ReturnMoves DEF FJ!SetFlag
  <1>5. node'[p].st \in {"ready", "ended"} /\ node'[p].res = FJ!None
    BY <1>3, <1>4 DEF To, Gone
  <1>6. FoundRes(p, node[p])'
    BY <1>1, <1>2, <1>5 DEF FoundRes
  <1>7. FoundOK(p)'
    BY <1>5, <1>6, ResultsDiffer DEF FoundOK
  <1>8. FlagOK'
    BY <1>1, <1>2 DEF FlagOK
  <1> QED
    BY <1>1, <1>4, <1>7, <1>8 DEF FoundStep, FlagsStay, Moved

\* A half of list 8.10 has come to a match, or to an element that throws.
LEMMA DecideAsyncFound ==
    ASSUME NEW p, Search(p), FJ!DecideAsync(p)
    PROVE  FoundStep(p)
  <1>1. /\ UNCHANGED FJ!chosen /\ done' = TRUE /\ promise' = promise /\ outcome' = outcome
        /\ (FJ!Halves' <=> FJ!Halves) /\ FJ!Halves /\ IsNode(node[p]) /\ p \in DOMAIN node
    BY LookingAt DEF FJ!DecideAsync, FJ!chosen, FJ!Halves, Search
  <1>2. PICK x \in node[p].lo .. node[p].hi - 1 : x = FJ!LookedAt(p)
    BY LookingAt DEF FJ!DecideAsync
  <1>3. PICK r : r = IF outcome[x] = "match" THEN FJ!Value(x) ELSE FJ!Exception
    OBVIOUS
  <1>4. Moved(p) /\ To(p, Gone(node[p]), node[p].k, r, node[p].joined)
    BY <1>1, <1>2, <1>3, ReturnMoves DEF FJ!DecideAsync
  <1>5. /\ node'[p].st \in {"ready", "ended"} /\ node'[p].res = r
        /\ node'[p].lo = node[p].lo /\ node'[p].hi = node[p].hi
        /\ node[p].lo \in Int /\ node[p].hi \in Int
    BY <1>1, <1>4 DEF To, Gone, Moved, IsNode
  <1>6. \/ r = FJ!Exception
        \/ r = FJ!Value(x) /\ outcome'[x] = "match" /\ x \in node[p].lo .. node[p].hi
    BY <1>1, <1>3, <1>5
  <1>7. FoundRes(p, node[p])'
    BY <1>5, <1>6 DEF FoundRes
  <1>8. r # FJ!Value(node[p].hi)
    <2>1. x # node[p].hi
      BY <1>5
    <2> QED
      BY <1>6, <2>1, ResultsDiffer
  <1>9. FoundOK(p)'
    BY <1>1, <1>5, <1>7 DEF FoundOK
  <1>10. FlagOK'
    <2>1. p \in DOMAIN node' /\ HasRes(node'[p]) /\ node'[p].res # FJ!Value(node'[p].hi)
      BY <1>1, <1>4, <1>5, <1>8 DEF HasRes, Moved
    <2> QED
      BY <1>1, <2>1 DEF FlagOK, HasRes
  <1> QED
    BY <1>1, <1>4, <1>9, <1>10 DEF FoundStep, FlagsStay, Moved

\* A result is that of an activation that looks no longer.
LEMMA LeaveFound ==
    ASSUME NEW p, Search(p), UNCHANGED FJ!chosen, UNCHANGED <<promise, done>>,
           NEW r, FJ!Leave(p, r), ~HasRes(node[p]),
           ~FJ!IsLeaf(p, node[p].lo, node[p].hi),
           \/ r = FJ!Exception
           \/ \E v \in node[p].lo .. node[p].hi :
                  r = FJ!Value(v) /\ (v < node[p].hi => outcome[v] = "match")
    PROVE  FoundStep(p)
  <1>1. p \in DOMAIN node /\ IsNode(node[p]) /\ list' = list /\ outcome' = outcome
    BY DEF Search, Tree, PlaceOK, FJ!chosen
  <1>2. Moved(p) /\ To(p, "leave", node[p].k, r, node[p].joined)
    BY <1>1, LeaveMoves
  <1>3. Kept(p)
    BY <1>1, <1>2, MovedKept
  <1>4. /\ node'[p].st = "leave" /\ node'[p].res = r
        /\ node'[p].lo = node[p].lo /\ node'[p].hi = node[p].hi
    BY <1>2 DEF To, Moved
  <1>5. FoundRes(p, node[p])'
    BY <1>1, <1>4 DEF FoundRes
  <1>6. ~FJ!IsLeaf(p, node[p].lo, node[p].hi)'
    BY <1>1, <1>4 DEF FJ!IsLeaf, FJ!Halves
  <1>7. FoundOK(p)'
    BY <1>4, <1>5, <1>6 DEF FoundOK
  <1> QED
    BY <1>3, <1>7, QuietFoundStep

\* List 8.9 returns what the promise holds, if the flag has been set.
LEMMA TestFlagFound ==
    ASSUME NEW p, Search(p), FJ!TestFlag(p)
    PROVE  FoundStep(p)
  <1>1. /\ UNCHANGED FJ!chosen /\ UNCHANGED <<promise, done>> /\ node[p].st = "get" /\ ~FJ!Halves
        /\ p \in DOMAIN node /\ ~HasRes(node[p]) /\ FlagOK
    BY DEF FJ!TestFlag, FJ!At, FJ!shared, Search, HasRes, FoundInv
  <1>2. ~FJ!IsLeaf(p, node[p].lo, node[p].hi)
    BY <1>1 DEF Search, Tree, PlaceOK
  <1>3. p = FJ!Root /\ length \in Nat
    BY <1>1, <1>2 DEF FJ!IsLeaf, Search, Tree, ChosenOK
  <1>4. node[p].lo = 0 /\ node[p].hi = length
    BY <1>3 DEF Search, Tree, PlaceOK
  <1>5. PICK r : r = IF done THEN promise[0] ELSE FJ!Value(node[p].hi)
    OBVIOUS
  <1>6. \/ r = FJ!Exception
        \/ \E v \in node[p].lo .. node[p].hi :
               r = FJ!Value(v) /\ (v < node[p].hi => outcome[v] = "match")
    <2>1. CASE done = TRUE
      BY <1>1, <1>3, <1>4, <1>5, <2>1 DEF FlagOK
    <2>2. CASE done = FALSE
      BY <1>3, <1>4, <1>5, <2>2
    <2> QED
      BY <2>1, <2>2 DEF Search, StoreOK
  <1>7. FJ!Leave(p, r)
    BY <1>5 DEF FJ!TestFlag
  <1> QED
    BY <1>1, <1>2, <1>6, <1>7, LeaveFound

\* The halves of a search in list 8.10.
LEMMA SearchHalves ==
    ASSUME NEW p, Search(p), FJ!Halves, node[p].st = "get"
    PROVE  /\ IsKid(p, 1) /\ IsKid(p, 2) /\ FJ!InlineKid(p) = Append(p, 2) /\ Others = 1
           /\ Kid(p, 2).lo = node[p].lo /\ Kid(p, 2).hi = Kid(p, 1).lo
           /\ Kid(p, 1).hi = node[p].hi
           /\ node[p].lo <= Kid(p, 1).lo /\ Kid(p, 1).lo <= node[p].hi
           /\ Kid(p, 1).lo \in Int /\ node[p].lo \in Int /\ node[p].hi \in Int
           /\ Kid(p, 2).st = "ended"
           /\ FJ!InGet(p, 1) <=> Kid(p, 2).res = FJ!Value(Kid(p, 2).hi)
  <1>1. /\ p \in DOMAIN node /\ IsNode(node[p]) /\ RangeOK(node[p]) /\ ChosenOK /\ Others = 1
        /\ list.does = "find" /\ Tree
    BY RangesOK DEF Search, Tree, PlaceOK, Others
  <1>2. /\ FJ!InlineKid(p) = Append(p, 2) /\ \A i \in 1 .. 2 : IsKid(p, i)
    BY <1>1, InlineKidIs
  <1>3. IsKid(p, 1) /\ IsKid(p, 2)
    BY <1>2
  <1>4. PICK mid \in Int :
            /\ node[p].lo <= mid /\ mid <= node[p].hi
            /\ FJ!Parts(node[p]) = <<<<mid, node[p].hi>>, <<node[p].lo, mid>>>>
    BY <1>1, HalvesAre DEF RangeOK
  <1>5. BornOK(p, node[p], 1, Kid(p, 1)) /\ BornOK(p, node[p], 2, Kid(p, 2))
    BY <1>1, <1>3 DEF Tree, KidOK
  <1>6. /\ Kid(p, 1).lo = mid /\ Kid(p, 1).hi = node[p].hi
        /\ Kid(p, 2).lo = node[p].lo /\ Kid(p, 2).hi = mid
    BY <1>4, <1>5 DEF BornOK
  <1>7. Kid(p, 2).st = "ended"
    BY <1>1, <1>3, KidsAre
  <1>8. node[p].k = 0
    BY <1>1 DEF Search, FoundInv, FoundOK
  <1>9. FJ!InGet(p, 1) <=> Kid(p, 2).res = FJ!Value(Kid(p, 2).hi)
    BY <1>1, <1>2, <1>8 DEF FJ!InGet, Kid
  <1> QED
    BY <1>1, <1>2, <1>3, <1>4, <1>6, <1>7, <1>9 DEF RangeOK

\* List 8.10 returns what its own half has found, or else what the other half has.
LEMMA ChooseFound ==
    ASSUME NEW p, Search(p), FJ!Choose(p)
    PROVE  FoundStep(p)
  <1>1. /\ UNCHANGED FJ!chosen /\ UNCHANGED <<promise, done>> /\ node[p].st = "get" /\ FJ!Halves
        /\ p \in DOMAIN node /\ ~HasRes(node[p])
    BY DEF FJ!Choose, FJ!At, FJ!shared, Search, HasRes
  <1>2. ~FJ!IsLeaf(p, node[p].lo, node[p].hi)
    BY <1>1 DEF Search, Tree, PlaceOK
  <1>3. PICK lo \in Int, mid \in Int, hi \in Int :
            lo = node[p].lo /\ mid = Kid(p, 1).lo /\ hi = node[p].hi /\ lo <= mid /\ mid <= hi
    BY <1>1, SearchHalves
  <1>4. CASE FJ!InGet(p, 1)
    <2>1. PICK r : r = Kid(p, 1).res
      OBVIOUS
    <2>2. FJ!Leave(p, r) /\ HasRes(Kid(p, 1))
      BY <1>4, <2>1 DEF FJ!Choose, FJ!Kid, Kid, HasRes
    <2>3. FoundRes(Append(p, 1), Kid(p, 1)) /\ Kid(p, 1).hi = hi /\ Kid(p, 1).lo = mid
      BY <1>1, <1>3, <2>2, SearchHalves DEF Search, FoundInv, FoundOK, IsKid, Kid
    <2>4. \/ r = FJ!Exception
          \/ \E v \in mid .. hi : r = FJ!Value(v) /\ (v < hi => outcome[v] = "match")
      BY <1>1, <2>1, <2>3 DEF FoundRes
    <2>5. mid .. hi \subseteq lo .. hi
      BY <1>3
    <2>6. \/ r = FJ!Exception
          \/ \E v \in lo .. hi : r = FJ!Value(v) /\ (v < hi => outcome[v] = "match")
      BY <2>4, <2>5
    <2> QED
      BY <1>1, <1>2, <1>3, <2>2, <2>6, LeaveFound
  <1>5. CASE ~FJ!InGet(p, 1)
    <2>1. PICK r : r = Kid(p, 2).res
      OBVIOUS
    <2>2. FJ!Leave(p, r)
      BY <1>1, <1>5, <2>1, SearchHalves DEF FJ!Choose, Kid
    <2>3. /\ FoundRes(Append(p, 2), Kid(p, 2)) /\ Kid(p, 2).hi = mid /\ Kid(p, 2).lo = lo
          /\ r # FJ!Value(mid)
      BY <1>1, <1>3, <1>5, <2>1, SearchHalves DEF Search, FoundInv, FoundOK, IsKid, Kid, HasRes
    <2>4. \/ r = FJ!Exception
          \/ \E v \in lo .. mid : r = FJ!Value(v) /\ (v < mid => outcome[v] = "match")
      BY <1>1, <2>1, <2>3 DEF FoundRes
    <2>5. \/ r = FJ!Exception
          \/ \E v \in lo .. hi : r = FJ!Value(v) /\ (v < hi => outcome[v] = "match")
      <3>1. ASSUME NEW v \in lo .. mid, r = FJ!Value(v), v < mid => outcome[v] = "match"
            PROVE  v \in lo .. hi /\ outcome[v] = "match"
        <4>1. v # mid
          BY <2>3, <3>1
        <4> QED
          BY <1>3, <3>1, <4>1
      <3> QED
        BY <2>4, <3>1
    <2> QED
      BY <1>1, <1>2, <1>3, <2>2, <2>5, LeaveFound
  <1> QED
    BY <1>4, <1>5

\* A thread could not be started, a part has ended, the threads have been joined: the
\* search has no result by it.
LEMMA CollectFound ==
    ASSUME NEW p, Search(p), FJ!ForkFails(p) \/ FJ!OwnPartDone(p) \/ FJ!Join(p)
    PROVE  FoundStep(p)
  <1>1. /\ UNCHANGED FJ!chosen /\ UNCHANGED <<promise, done>> /\ p \in DOMAIN node
        /\ node[p].st \in {"fork", "own", "join"} /\ ~HasRes(node[p]) /\ IsNode(node[p])
    BY DEF FJ!ForkFails, FJ!OwnPartDone, FJ!Join, FJ!At, FJ!shared, Search, HasRes, Tree, PlaceOK
  <1>2. ~FJ!IsLeaf(p, node[p].lo, node[p].hi)
    BY <1>1 DEF Search, Tree, PlaceOK
  <1>3. ASSUME FJ!Leave(p, FJ!Exception) PROVE FoundStep(p)
    <2>1. PICK r : r = FJ!Exception
      OBVIOUS
    <2> QED
      BY <1>1, <1>2, <1>3, <2>1, LeaveFound
  <1>4. ASSUME Moved(p), node'[p].st \in {"join", "get"}, node'[p].k = 0 PROVE FoundStep(p)
    <2>1. Kept(p)
      BY <1>1, <1>4, MovedKept
    <2>2. FoundOK(p)'
      BY <1>4 DEF FoundOK, HasRes
    <2> QED
      BY <1>1, <2>1, <2>2, QuietFoundStep
  <1>5. CASE FJ!ForkFails(p)
    BY <1>3, <1>5 DEF FJ!ForkFails
  <1>6. CASE FJ!OwnPartDone(p)
    <2>1. \/ FJ!Leave(p, FJ!Exception)
          \/ FJ!Go(p, "join") \/ FJ!Go(p, "get")
      BY <1>6 DEF FJ!OwnPartDone
    <2>2. ASSUME NEW t \in {"join", "get"}, FJ!Go(p, t)
          PROVE  Moved(p) /\ node'[p].st \in {"join", "get"} /\ node'[p].k = 0
      <3>1. t \in Sts
        BY DEF Sts
      <3> QED
        BY <1>1, <2>2, <3>1, GoMoves DEF To
    <2> QED
      BY <1>3, <1>4, <2>1, <2>2
  <1>7. CASE FJ!Join(p)
    <2>1. Moved(p) /\ To(p, "get", node[p].k, node[p].res, TRUE) /\ node[p].st = "join"
      BY <1>1, <1>7, JoinMoves DEF FJ!Join, FJ!At
    <2>2. node[p].k = 0
      BY <2>1 DEF Search, FoundInv, FoundOK
    <2> QED
      BY <1>4, <2>1, <2>2 DEF To
  <1> QED
    BY <1>5, <1>6, <1>7

\* A thread ends with the result its future has.
LEMMA ExitFound ==
    ASSUME NEW p, Search(p), FJ!ThreadExits(p)
    PROVE  FoundStep(p)
  <1>1. /\ UNCHANGED FJ!chosen /\ UNCHANGED <<promise, done>> /\ p \in DOMAIN node
        /\ node[p].st = "ready" /\ HasRes(node[p]) /\ IsNode(node[p]) /\ FoundOK(p)
        /\ list' = list /\ outcome' = outcome
    BY DEF FJ!ThreadExits, FJ!At, FJ!shared, Search, HasRes, Tree, PlaceOK, FoundInv, FJ!chosen
  <1>2. Moved(p) /\ To(p, "ended", node[p].k, node[p].res, node[p].joined)
    BY <1>1, ExitMoves DEF FJ!ThreadExits
  <1>3. /\ node'[p].st = "ended" /\ node'[p].res = node[p].res
        /\ node'[p].lo = node[p].lo /\ node'[p].hi = node[p].hi
    BY <1>2 DEF To, Moved
  <1>4. Kept(p)
    BY <1>1, <1>2, <1>3 DEF Kept, Moved, HasRes, Done
  <1>5. /\ FoundRes(p, node[p])' <=> FoundRes(p, node[p])
        /\ FJ!IsLeaf(p, node[p].lo, node[p].hi)' <=> FJ!IsLeaf(p, node[p].lo, node[p].hi)
        /\ Plain(node[p].lo, node[p].hi)' <=> Plain(node[p].lo, node[p].hi)
    BY <1>1, <1>3 DEF FoundRes, FJ!IsLeaf, FJ!Halves, Plain
  <1>6. FoundOK(p)'
    BY <1>1, <1>3, <1>5 DEF FoundOK
  <1> QED
    BY <1>1, <1>4, <1>6, QuietFoundStep

\* The search is left; list 8.10 sets the flag when it is by an exception.
LEMMA DepartFound ==
    ASSUME NEW p, Search(p), FJ!Depart(p)
    PROVE  FoundStep(p)
  <1>1. /\ UNCHANGED FJ!chosen /\ promise' = promise /\ p \in DOMAIN node
        /\ node[p].st = "leave" /\ HasRes(node[p]) /\ IsNode(node[p]) /\ FoundOK(p) /\ FlagOK
        /\ list' = list /\ outcome' = outcome /\ length' = length /\ Tree
        /\ done' = (done \/ (list = FJ!List8_10 /\ node[p].res = FJ!Exception))
        /\ list.join = "destructor" /\ list.does = "find"
        /\ list = FJ!List8_10 => FJ!Halves
    <2>1. /\ list.does = "find" => list.join = "destructor"
          /\ list = FJ!List8_10 => FJ!Halves
      BY DEF Search, Tree, ChosenOK, FJ!Lists, FJ!List2_9, FJ!List8_2, FJ!List8_3, FJ!List8_4,
             FJ!List8_5, FJ!List8_7, FJ!List8_8, FJ!List8_9, FJ!List8_10, FJ!List8_11,
             FJ!Algorithm, FJ!Halves
    <2> QED
      BY <2>1 DEF FJ!Depart, FJ!At, Search, HasRes, Tree, PlaceOK, FoundInv, FJ!chosen
  <1>2. PICK r : r = node[p].res
    OBVIOUS
  <1>3. Moved(p) /\ To(p, Gone(node[p]), node[p].k, r, node[p].joined)
    BY <1>1, <1>2, ReturnMoves DEF FJ!Depart
  <1>4. /\ node'[p].st \in {"ready", "ended"} /\ node'[p].res = node[p].res
        /\ node'[p].lo = node[p].lo /\ node'[p].hi = node[p].hi
    BY <1>2, <1>3 DEF To, Gone, Moved
  <1>5. Kept(p)
    BY <1>1, <1>3, <1>4 DEF Kept, Moved, HasRes, Done
  <1>6. /\ FoundRes(p, node[p])' <=> FoundRes(p, node[p])
        /\ FJ!IsLeaf(p, node[p].lo, node[p].hi)' <=> FJ!IsLeaf(p, node[p].lo, node[p].hi)
        /\ Plain(node[p].lo, node[p].hi)' <=> Plain(node[p].lo, node[p].hi)
    BY <1>1, <1>4 DEF FoundRes, FJ!IsLeaf, FJ!Halves, Plain
  <1>7. done = TRUE => done' = TRUE
    BY <1>1
  <1>8. FoundOK(p)'
    BY <1>1, <1>4, <1>6, <1>7 DEF FoundOK
  <1>9. CASE done' = done
    BY <1>1, <1>5, <1>8, <1>9, QuietFoundStep
  <1>10. CASE done' # done
    <2>1. FJ!Halves /\ node[p].res = FJ!Exception
      BY <1>1, <1>10 DEF Search, StoreOK
    <2>2. (FJ!Halves' <=> FJ!Halves) /\ p \in DOMAIN node' /\ HasRes(node'[p])
          /\ node'[p].res # FJ!Value(node'[p].hi)
      BY <1>1, <1>3, <1>4, <2>1, ResultsDiffer DEF FJ!Halves, Moved, HasRes
    <2>3. FlagOK'
      BY <2>1, <2>2 DEF FlagOK, HasRes
    <2> QED
      BY <1>1, <1>5, <1>7, <1>8, <2>3 DEF FoundStep, FlagsStay, Kept
  <1> QED
    BY <1>9, <1>10

\* A part that is started has found nothing yet.
LEMMA BornFound ==
    ASSUME NEW p, Search(p), node[p].st = "fork", UNCHANGED FJ!chosen,
           UNCHANGED <<promise, done>>, NEW i \in Nat, NEW by, Born(p, i, by)
    PROVE  FoundInv'
  <1>1. /\ p \in DOMAIN node /\ list' = list /\ outcome' = outcome /\ Tree /\ FlagOK
        /\ \A c \in DOMAIN node : FoundOK(c)
    BY DEF Search, FJ!chosen, FoundInv
  <1>2. PICK q, m : q = Append(p, i) /\ m = node'[q]
    OBVIOUS
  <1>3. /\ DOMAIN node' = DOMAIN node \cup {q} /\ q \notin DOMAIN node
        /\ \A c \in DOMAIN node : c # p => node'[c] = node[c]
        /\ node'[p].st \in {"own", "fork"} /\ node'[p].hi = node[p].hi
    BY <1>2 DEF Born, IsKid
  <1>4. /\ m.st \in {"leaf", "fork"} /\ m.k = 0 /\ m.lo \in Int /\ m.hi \in Int
        /\ m.lo = FJ!Parts(node[p])[i][1] /\ m.hi = FJ!Parts(node[p])[i][2]
    BY <1>2 DEF Born, Kid, Unstarted, IsNode
  <1>5. m.lo <= m.hi
    <2>1. ~FJ!IsLeaf(p, node[p].lo, node[p].hi) /\ node[p].lo <= node[p].hi
      BY <1>1, RangesOK DEF Tree, PlaceOK, RangeOK
    <2>2. Splits(FJ!Parts(node[p]), Others + 1, node[p].lo, node[p].hi)
      BY <1>1, <2>1, PartsSplit
    <2>3. i \in 1 .. Others + 1
      BY <1>1, ForksAre DEF Born, Tree
    <2> QED
      BY <1>4, <2>2, <2>3 DEF Splits
  <1>6. ASSUME NEW c \in DOMAIN node' PROVE FoundOK(c)'
    <2>1. CASE c = q
      <3>1. node'[c].lo + node'[c].k = m.lo /\ m.lo <= m.hi
        BY <1>2, <1>4, <1>5, <2>1
      <3>2. Plain(node[c].lo, node[c].lo + node[c].k)'
        BY <1>2, <1>4, <2>1 DEF Plain
      <3> QED
        BY <1>2, <1>4, <2>1, <3>1, <3>2 DEF FoundOK, HasRes
    <2>2. CASE c = p
      BY <1>3, <2>2 DEF FoundOK, HasRes
    <2>3. CASE c # p /\ c # q
      <3>1. c \in DOMAIN node /\ node'[c] = node[c]
        BY <1>3, <2>3
      <3> QED
        BY <1>1, <3>1, FoundStays DEF FlagsStay
    <2> QED
      BY <2>1, <2>2, <2>3
  <1>7. FlagOK'
    <2>1. \A c \in DOMAIN node :
              /\ node'[c].hi = node[c].hi
              /\ HasRes(node[c]) => HasRes(node'[c]) /\ node'[c].res = node[c].res
      BY <1>3 DEF HasRes
    <2> QED
      BY <1>1, <1>3, <2>1, FlagStays
  <1> QED
    BY <1>6, <1>7 DEF FoundInv

\* Every step keeps what the activations of a search have found.
LEMMA NodeStepFound ==
    ASSUME Tree, DieInv, StoreOK, FoundInv, NEW p \in DOMAIN node, FJ!NodeStep(p)
    PROVE  FoundInv'
  <1>1. list' = list /\ UNCHANGED FJ!chosen
    BY StepIs DEF FJ!chosen
  <1> SUFFICES ASSUME list.does = "find" PROVE FoundInv'
    BY <1>1 DEF FoundInv
  <1>2. Search(p)
    BY DEF Search
  <1>3. node[p].st \notin ChunkSts \ {"flag"}
    BY DEF DieInv, StageOK
  <1>4. CASE FJ!Fork(p) \/ FJ!CallInline(p)
    <2>1. node[p].st = "fork" /\ UNCHANGED <<promise, done>>
      BY <1>4, ForkBears DEF FJ!Fork, FJ!CallInline, FJ!shared
    <2>2. PICK by \in {"thread", "inline", "deferred"} : \E i \in Nat : Born(p, i, by)
      BY <1>4, ForkBears
    <2> QED
      BY <1>1, <1>2, <2>1, <2>2, BornFound
  <1>5. CASE FoundStep(p)
    BY <1>5, FoundStepInv
  <1>6. ~FJ!Accumulate(p) /\ ~FJ!ForEach(p) /\ ~FJ!SumChunk(p) /\ ~FJ!GetPart(p) /\ ~FJ!AllGot(p)
        /\ ~FJ!NothingToGet(p)
    BY DEF FJ!Accumulate, FJ!ForEach, FJ!SumChunk, FJ!GetPart, FJ!AllGot, FJ!Gets, FJ!NothingToGet
  <1>7. ~FJ!AddToLast(p) /\ ~FJ!SetEndValue(p) /\ ~FJ!AddToRest(p) /\ ~FJ!EndChunk(p) /\ ~FJ!Fail(p)
    BY <1>3 DEF FJ!AddToLast, FJ!SetEndValue, FJ!AddToRest, FJ!EndChunk, FJ!Fail, FJ!At, ChunkSts
  <1> QED
    BY <1>2, <1>4, <1>5, <1>6, <1>7, LookFound, DecideFound, SetFlagFound, DecideAsyncFound,
       TestFlagFound, ChooseFound, CollectFound, ExitFound, DepartFound DEF FJ!NodeStep

-----------------------------------------------------------------------------
(* ForkJoin: what an activation collects from its parts.                 *)

\* No exception has left it; in a search, it has come to the end of its range.
Good(n) == IF list.does = "find" THEN n.res = FJ!Value(n.hi) ELSE n.res # FJ!Exception

\* The i-th part of p has come to a good end.
Given(p, i) == IsKid(p, i) /\ Done(Kid(p, i)) /\ Good(Kid(p, i))
OwnDone(p) ==
    IsKid(p, Others + 1) /\ Done(Kid(p, Others + 1)) /\ Kid(p, Others + 1).res # FJ!Exception
Gathers == list.does \in {"sum", "each"}

\* What a result that is good says of the parts.  In list 8.9 the other blocks may
\* still be looking, and in list 8.11 it is for the end values to tell.
Gathered(p) ==
    /\ Gathers \/ (list.does = "find" /\ FJ!Halves) => \A i \in 1 .. Others + 1 : Given(p, i)
    /\ list.does = "prefix" => Given(p, Others + 1) /\ \A i \in 1 .. Others : IsKid(p, i)
Whole(p) == ~FJ!IsLeaf(p, node[p].lo, node[p].hi) /\ HasRes(node[p]) /\ Good(node[p])

CollectOK(p) ==
    /\ node[p].st \in {"join", "get"} => OwnDone(p)
    /\ node[p].st = "join" => node[p].k = 0
    /\ node[p].st = "get" /\ Gathers =>
           node[p].k <= Others /\ \A i \in 1 .. node[p].k : Given(p, i)
    /\ Whole(p) => Gathered(p)
CollectInv == \A p \in DOMAIN node : CollectOK(p)

\* What has been collected is for ever.
Lasts ==
    /\ UNCHANGED FJ!chosen
    /\ DOMAIN node \subseteq DOMAIN node'
    /\ \A q \in DOMAIN node :
           /\ node'[q].lo = node[q].lo /\ node'[q].hi = node[q].hi
           /\ HasRes(node[q]) => HasRes(node'[q]) /\ node'[q].res = node[q].res
           /\ Done(node[q]) => Done(node'[q])

\* Every step is one by which it lasts.
LEMMA StepLasts ==
    ASSUME Tree, NEW p \in DOMAIN node, FJ!NodeStep(p)
    PROVE  Lasts
  <1>1. UNCHANGED FJ!chosen
    BY StepIs
  <1>2. CASE Kept(p)
    BY <1>1, <1>2 DEF Kept, Lasts, HasRes, Done
  <1>3. ASSUME node[p].st = "fork", NEW i \in Nat, NEW by, Born(p, i, by) PROVE Lasts
    BY <1>1, <1>3 DEF Born, Lasts, HasRes, Done
  <1> QED
    BY <1>2, <1>3, StepIs

\* What has been given, gathered or done by oneself lasts then.
LEMMA GatheredLasts ==
    ASSUME Lasts, NEW p \in DOMAIN node
    PROVE  /\ \A i : Given(p, i) => Given(p, i)'
           /\ Gathered(p) => Gathered(p)'
           /\ OwnDone(p) => OwnDone(p)'
           /\ Others' = Others /\ (Gathers' <=> Gathers)
           /\ FJ!IsLeaf(p, node[p].lo, node[p].hi)' <=> FJ!IsLeaf(p, node[p].lo, node[p].hi)
  <1>1. list' = list /\ blocks' = blocks
    BY DEF Lasts, FJ!chosen
  <1>2. ASSUME NEW i, IsKid(p, i), Done(Kid(p, i))
        PROVE  IsKid(p, i)' /\ Done(Kid(p, i))' /\ Kid(p, i)'.res = Kid(p, i).res
               /\ Kid(p, i)'.hi = Kid(p, i).hi
    BY <1>2 DEF Lasts, IsKid, Kid, Done, HasRes
  <1>3. \A i : Given(p, i) => Given(p, i)'
    BY <1>1, <1>2 DEF Given, Good
  <1>4. Others' = Others /\ (FJ!Halves' <=> FJ!Halves)
    BY <1>1 DEF Others, FJ!Halves
  <1>5. \A i : IsKid(p, i) => IsKid(p, i)'
    BY DEF IsKid, Lasts
  <1>6. Gathered(p) => Gathered(p)'
    BY <1>1, <1>3, <1>4, <1>5 DEF Gathered, Gathers
  <1>7. OwnDone(p) => OwnDone(p)'
    BY <1>2, <1>4 DEF OwnDone
  <1>8. FJ!IsLeaf(p, node[p].lo, node[p].hi)' <=> FJ!IsLeaf(p, node[p].lo, node[p].hi)
    BY <1>4 DEF FJ!IsLeaf, Lasts
  <1> QED
    BY <1>1, <1>3, <1>4, <1>6, <1>7, <1>8 DEF Gathers

\* Another activation takes a step, or this one exits.
LEMMA CollectStays ==
    ASSUME Lasts, NEW q \in DOMAIN node, CollectOK(q),
           \/ node'[q] = node[q]
           \/ HasRes(node[q]) /\ Done(node'[q])
    PROVE  CollectOK(q)'
  <1>1. list' = list
    BY DEF Lasts, FJ!chosen
  <1>2. CASE node'[q] = node[q]
    <2>1. Whole(q)' <=> Whole(q)
      BY <1>1, <1>2, GatheredLasts DEF Whole, HasRes, Good
    <2> QED
      BY <1>2, <2>1, GatheredLasts DEF CollectOK
  <1>3. CASE HasRes(node[q]) /\ Done(node'[q])
    <2>1. node'[q].res = node[q].res /\ node'[q].hi = node[q].hi
          /\ node'[q].st \notin {"join", "get"}
      BY <1>3 DEF Lasts, Done
    <2>2. Whole(q)' => Whole(q)
      BY <1>1, <1>3, <2>1, GatheredLasts DEF Whole, Good
    <2> QED
      BY <2>1, <2>2, GatheredLasts DEF CollectOK
  <1> QED
    BY <1>2, <1>3

\* A step that makes no activation keeps the invariant if it does for the one it is of.
LEMMA CollectStep ==
    ASSUME Lasts, CollectInv, NEW p \in DOMAIN node, DOMAIN node' = DOMAIN node,
           \A q \in DOMAIN node : q # p => node'[q] = node[q], CollectOK(p)'
    PROVE  CollectInv'
  BY CollectStays DEF CollectInv

\* An activation has a result: good if all that is needed has been given.
LEMMA LeaveCollect ==
    ASSUME Tree, Lasts, CollectInv, NEW p \in DOMAIN node, NEW r, FJ!Leave(p, r),
           \/ list.does # "find" /\ r = FJ!Exception
           \/ list.does = "find" /\ r # FJ!Value(node[p].hi)
           \/ Gathered(p)
    PROVE  CollectInv'
  <1>1. IsNode(node[p]) /\ list' = list
    BY DEF Tree, PlaceOK, Lasts, FJ!chosen
  <1>2. Moved(p) /\ To(p, "leave", node[p].k, r, node[p].joined)
    BY <1>1, LeaveMoves
  <1>3. node'[p].st = "leave" /\ node'[p].res = r /\ node'[p].hi = node[p].hi
    BY <1>2 DEF To, Moved
  <1>4. Whole(p)' => Gathered(p)
    BY <1>1, <1>3 DEF Whole, Good
  <1>5. CollectOK(p)'
    BY <1>3, <1>4, GatheredLasts DEF CollectOK
  <1> QED
    BY <1>2, <1>5, CollectStep DEF Moved

\* A leaf has no parts to collect from.
LEMMA LeafCollect ==
    ASSUME Tree, Lasts, CollectInv, NEW p \in DOMAIN node,
           LeafMove(p) \/ UNCHANGED node
    PROVE  CollectInv'
  <1>1. CASE UNCHANGED node
    BY <1>1, CollectStays DEF CollectInv
  <1>2. CASE LeafMove(p)
    <2>1. FJ!IsLeaf(p, node[p].lo, node[p].hi)
      BY <1>2 DEF LeafMove, Tree, PlaceOK
    <2>2. node'[p].st \notin {"join", "get"}
      BY <1>2 DEF LeafMove, LeafSts, Gone
    <2>3. ~Whole(p)'
      BY <2>1, GatheredLasts DEF Whole
    <2>4. CollectOK(p)'
      BY <2>2, <2>3 DEF CollectOK
    <2> QED
      BY <1>2, <2>4, CollectStep DEF LeafMove, Moved
  <1> QED
    BY <1>1, <1>2

\* Nor has an activation that still starts them.
LEMMA ForkCollect ==
    ASSUME Tree, Lasts, CollectInv, NEW p \in DOMAIN node, FJ!Fork(p) \/ FJ!CallInline(p)
    PROVE  CollectInv'
  <1>1. PICK by \in {"thread", "inline", "deferred"} : \E i \in Nat : Born(p, i, by)
    BY ForkBears
  <1>2. PICK i \in Nat : Born(p, i, by)
    BY <1>1
  <1>3. PICK q : q = Append(p, i)
    OBVIOUS
  <1>4. /\ DOMAIN node' = DOMAIN node \cup {q}
        /\ \A c \in DOMAIN node : c # p => node'[c] = node[c]
        /\ node'[p].st \in {"own", "fork"} /\ node'[q].st \in {"leaf", "fork"}
    BY <1>2, <1>3 DEF Born, Kid, Unstarted
  <1>5. ASSUME NEW c \in DOMAIN node' PROVE CollectOK(c)'
    <2>1. CASE c = p \/ c = q
      BY <1>4, <2>1 DEF CollectOK, Whole, HasRes
    <2>2. CASE c # p /\ c # q
      BY <1>4, <2>2, CollectStays DEF CollectInv
    <2> QED
      BY <2>1, <2>2
  <1> QED
    BY <1>5 DEF CollectInv

\* The inline part is over: it has been given, or its exception goes on.
LEMMA OwnCollect ==
    ASSUME Tree, Lasts, CollectInv, NEW p \in DOMAIN node, FJ!OwnPartDone(p)
    PROVE  CollectInv'
  <1>1. node[p].st = "own" /\ IsNode(node[p])
    BY DEF FJ!OwnPartDone, FJ!At, Tree, PlaceOK
  <1>2. /\ FJ!InlineKid(p) = Append(p, Others + 1) /\ IsKid(p, Others + 1)
    BY <1>1, InlineKidIs
  <1>3. CASE Kid(p, Others + 1).res = FJ!Exception
    <2>1. PICK r : r = FJ!Exception
      OBVIOUS
    <2>2. FJ!Leave(p, r)
      BY <1>2, <1>3, <2>1 DEF FJ!OwnPartDone, Kid
    <2> QED
      BY <2>1, <2>2, LeaveCollect, ResultsDiffer
  <1>4. CASE Kid(p, Others + 1).res # FJ!Exception
    <2>1. OwnDone(p)
      BY <1>2, <1>4 DEF FJ!OwnPartDone, FJ!Ended, OwnDone, Done, Kid
    <2>2. FJ!Go(p, "join") \/ FJ!Go(p, "get")
      BY <1>2, <1>4 DEF FJ!OwnPartDone, Kid
    <2>3. PICK t \in {"join", "get"} : FJ!Go(p, t)
      BY <2>2
    <2>4. Moved(p) /\ To(p, t, 0, node[p].res, node[p].joined)
      BY <1>1, <2>3, GoMoves DEF Sts
    <2>5. node'[p].st \in {"join", "get"} /\ node'[p].k = 0
      BY <2>4 DEF To
    <2>6. Others' \in Nat
      BY ForksAre, GatheredLasts DEF Tree
    <2>7. CollectOK(p)'
      BY <2>1, <2>5, <2>6, GatheredLasts DEF CollectOK, Whole, HasRes
    <2> QED
      BY <2>4, <2>7, CollectStep DEF Moved
  <1> QED
    BY <1>3, <1>4

\* The threads are joined; then the futures are asked one by one.
LEMMA JoinCollect ==
    ASSUME Tree, Lasts, CollectInv, NEW p \in DOMAIN node, FJ!Join(p)
    PROVE  CollectInv'
  <1>1. node[p].st = "join" /\ IsNode(node[p]) /\ CollectOK(p)
    BY DEF FJ!Join, FJ!At, Tree, PlaceOK, CollectInv
  <1>2. Moved(p) /\ To(p, "get", node[p].k, node[p].res, TRUE)
    BY <1>1, JoinMoves DEF FJ!Join
  <1>3. node'[p].st = "get" /\ node'[p].k = 0 /\ OwnDone(p)
    BY <1>1, <1>2 DEF To, CollectOK
  <1>4. Others' \in Nat
    BY ForksAre, GatheredLasts DEF Tree
  <1>5. CollectOK(p)'
    BY <1>3, <1>4, GatheredLasts DEF CollectOK, Whole, HasRes
  <1> QED
    BY <1>2, <1>5, CollectStep DEF Moved

\* The next future gives its result, or its exception.
LEMMA GetPartCollect ==
    ASSUME Tree, Lasts, CollectInv, NEW p \in DOMAIN node, FJ!GetPart(p)
    PROVE  CollectInv'
  <1>1. /\ node[p].st = "get" /\ IsNode(node[p]) /\ CollectOK(p) /\ Gathers
        /\ FJ!Forks(node[p]) = Others /\ Others \in Nat
    BY ForksAre DEF FJ!GetPart, FJ!Gets, FJ!At, Tree, PlaceOK, CollectInv, Gathers
  <1>2. PICK k \in Nat : k = node[p].k
    BY <1>1 DEF IsNode
  <1>3. k < Others /\ k + 1 \in 1 .. Others + 1
    BY <1>1, <1>2 DEF FJ!GetPart
  <1>4. IsKid(p, k + 1) /\ Done(Kid(p, k + 1))
    BY <1>1, <1>2, <1>3, InlineKidIs DEF FJ!GetPart, FJ!Kid, Kid, Done
  <1>5. CASE Kid(p, k + 1).res = FJ!Exception
    <2>1. PICK r : r = FJ!Exception
      OBVIOUS
    <2>2. FJ!Leave(p, r)
      BY <1>2, <1>5, <2>1 DEF FJ!GetPart, FJ!Kid, Kid
    <2> QED
      BY <1>1, <2>1, <2>2, LeaveCollect DEF Gathers
  <1>6. CASE Kid(p, k + 1).res # FJ!Exception
    <2>1. Given(p, k + 1)
      BY <1>1, <1>4, <1>6 DEF Given, Good, Gathers
    <2>2. node' = [node EXCEPT ![p].k = @ + 1]
      BY <1>2, <1>6 DEF FJ!GetPart, FJ!Kid, Kid
    <2>3. Moved(p) /\ To(p, node[p].st, node[p].k + 1, node[p].res, node[p].joined)
      BY <1>1, <2>2, CountMoves
    <2>4. node'[p].st = "get" /\ node'[p].k = k + 1 /\ OwnDone(p)
      BY <1>1, <1>2, <2>3 DEF To, CollectOK
    <2>5. ASSUME NEW i \in 1 .. k + 1 PROVE Given(p, i)'
      <3>1. i \in 1 .. k \/ i = k + 1
        BY <1>2
      <3>2. Given(p, i)
        BY <1>1, <1>2, <2>1, <3>1 DEF CollectOK
      <3> QED
        BY <3>2, GatheredLasts
    <2>6. CollectOK(p)'
      BY <1>1, <1>3, <2>4, <2>5, GatheredLasts DEF CollectOK, Whole, HasRes
    <2> QED
      BY <2>3, <2>6, CollectStep DEF Moved
  <1> QED
    BY <1>5, <1>6

\* All have been asked, or there is nothing to ask for.
LEMMA AllGotCollect ==
    ASSUME Tree, Lasts, CollectInv, NEW p \in DOMAIN node,
           FJ!AllGot(p) \/ (FJ!NothingToGet(p) /\ node[p].st = "get")
    PROVE  CollectInv'
  <1>1. /\ node[p].st = "get" /\ IsNode(node[p]) /\ CollectOK(p)
        /\ FJ!Forks(node[p]) = Others /\ Others \in Nat
    BY ForksAre DEF FJ!AllGot, FJ!Gets, FJ!At, Tree, PlaceOK, CollectInv
  <1>2. list.does # "find" => Given(p, Others + 1)
    BY <1>1 DEF CollectOK, OwnDone, Given, Good
  <1>3. \A i \in 1 .. Others + 1 : IsKid(p, i)
    BY <1>1, InlineKidIs
  <1>4. CASE FJ!AllGot(p)
    <2>1. Gathers /\ node[p].k = Others /\ list.does \notin {"find", "prefix"}
      BY <1>1, <1>4 DEF FJ!AllGot, FJ!Gets, Gathers
    <2>2. \A i \in 1 .. Others : Given(p, i)
      BY <1>1, <2>1 DEF CollectOK
    <2>3. Gathered(p)
      BY <1>1, <1>2, <2>1, <2>2 DEF Gathered
    <2>4. PICK r : r = FJ!Value(FJ!Total(p))
      OBVIOUS
    <2> QED
      BY <1>4, <2>3, <2>4, LeaveCollect DEF FJ!AllGot
  <1>5. CASE FJ!NothingToGet(p)
    <2>1. list.does = "prefix" /\ FJ!Leave(p, FJ!Value(<<>>)) /\ ~Gathers
      BY <1>5 DEF FJ!NothingToGet, Gathers
    <2>2. Gathered(p)
      BY <1>1, <1>2, <1>3, <2>1 DEF Gathered
    <2>3. PICK r : r = FJ!Value(<<>>)
      OBVIOUS
    <2> QED
      BY <2>1, <2>2, <2>3, LeaveCollect
  <1> QED
    BY <1>4, <1>5

\* A half that has not been asked was not needed: the result is not the end of the range.
LEMMA ChooseCollect ==
    ASSUME NEW p, Search(p), Lasts, CollectInv, FJ!Choose(p)
    PROVE  CollectInv'
  <1>1. node[p].st = "get" /\ FJ!Halves /\ p \in DOMAIN node /\ Tree /\ list.does = "find"
    BY DEF FJ!Choose, FJ!At, Search
  <1>2. PICK lo \in Int, mid \in Int, hi \in Int :
            lo = node[p].lo /\ mid = Kid(p, 1).lo /\ hi = node[p].hi /\ lo <= mid /\ mid <= hi
    BY <1>1, SearchHalves
  <1>3. CASE FJ!InGet(p, 1)
    <2>1. PICK r : r = Kid(p, 1).res
      OBVIOUS
    <2>2. FJ!Leave(p, r) /\ Done(Kid(p, 1))
      BY <1>3, <2>1 DEF FJ!Choose, FJ!Kid, Kid, Done
    <2>3. Given(p, 2)
      BY <1>1, <1>3, SearchHalves DEF Given, Good, Done
    <2>4. r = FJ!Value(node[p].hi) => Given(p, 1)
      BY <1>1, <2>1, <2>2, SearchHalves DEF Given, Good
    <2>5. Others + 1 = 2
      BY <1>1, SearchHalves
    <2>6. r = FJ!Value(node[p].hi) => Gathered(p)
      <3>1. \A i \in 1 .. 2 : i = 1 \/ i = 2
        OBVIOUS
      <3> QED
        BY <1>1, <2>3, <2>4, <2>5, <3>1 DEF Gathered
    <2> QED
      BY <1>1, <2>2, <2>6, LeaveCollect
  <1>4. CASE ~FJ!InGet(p, 1)
    <2>1. PICK r : r = Kid(p, 2).res
      OBVIOUS
    <2>2. FJ!Leave(p, r)
      BY <1>1, <1>4, <2>1, SearchHalves DEF FJ!Choose, Kid
    <2>3. /\ FoundRes(Append(p, 2), Kid(p, 2)) /\ Kid(p, 2).hi = mid /\ Kid(p, 2).lo = lo
          /\ r # FJ!Value(mid)
      BY <1>1, <1>2, <1>4, <2>1, SearchHalves DEF Search, FoundInv, FoundOK, IsKid, Kid, HasRes
    <2>4. \/ r = FJ!Exception
          \/ \E v \in lo .. mid : r = FJ!Value(v)
      BY <1>1, <2>1, <2>3 DEF FoundRes
    <2>5. r # FJ!Value(hi)
      <3>1. \A v \in lo .. mid : v = hi => v = mid
        BY <1>2
      <3> QED
        BY <2>3, <2>4, <3>1, ResultsDiffer
    <2> QED
      BY <1>1, <1>2, <2>2, <2>5, LeaveCollect
  <1> QED
    BY <1>3, <1>4

\* Every step keeps what the activations have collected.
LEMMA NodeStepCollect ==
    ASSUME Tree, StoreOK, FoundInv, CollectInv, NEW p \in DOMAIN node, FJ!NodeStep(p)
    PROVE  CollectInv'
  <1>1. Lasts /\ IsNode(node[p])
    BY StepLasts DEF Tree, PlaceOK
  <1>2. CASE LeafSteps(p)
    BY <1>1, <1>2, LeafStepMoves, LeafCollect
  <1>3. CASE FJ!ForkFails(p)
    <2>1. PICK r : r = FJ!Exception
      OBVIOUS
    <2>2. FJ!Leave(p, r)
      BY <1>3, <2>1 DEF FJ!ForkFails
    <2> QED
      BY <1>1, <2>1, <2>2, LeaveCollect, ResultsDiffer
  <1>4. CASE FJ!ThreadExits(p)
    <2>1. Moved(p) /\ To(p, "ended", node[p].k, node[p].res, node[p].joined) /\ HasRes(node[p])
      BY <1>1, <1>4, ExitMoves DEF FJ!ThreadExits, FJ!At, HasRes
    <2>2. CollectOK(p)'
      BY <1>1, <2>1, CollectStays DEF CollectInv, To, Done
    <2> QED
      BY <1>1, <2>1, <2>2, CollectStep DEF Moved
  <1>5. CASE FJ!Depart(p)
    <2>1. HasRes(node[p]) /\ (FJ!Return(p, node[p].res) \/ UNCHANGED node)
      BY <1>5 DEF FJ!Depart, FJ!At, HasRes
    <2>2. PICK r : r = node[p].res
      OBVIOUS
    <2>3. CASE FJ!Return(p, r)
      <3>1. Moved(p) /\ To(p, Gone(node[p]), node[p].k, r, node[p].joined)
        BY <1>1, <2>3, ReturnMoves
      <3>2. Done(node'[p])
        BY <3>1 DEF To, Gone, Done
      <3>3. CollectOK(p)'
        BY <1>1, <2>1, <3>2, CollectStays DEF CollectInv
      <3> QED
        BY <1>1, <3>1, <3>3, CollectStep DEF Moved
    <2> QED
      BY <1>1, <2>1, <2>2, <2>3, LeafCollect
  <1>6. CASE FJ!TestFlag(p)
    <2>1. PICK r : FJ!Leave(p, r)
      BY <1>6 DEF FJ!TestFlag
    <2>2. Gathered(p)
      BY <1>6 DEF FJ!TestFlag, Gathered, Gathers
    <2> QED
      BY <1>1, <2>1, <2>2, LeaveCollect
  <1>7. CASE FJ!Choose(p)
    <2>1. Search(p)
      BY <1>7 DEF FJ!Choose, Search
    <2> QED
      BY <1>1, <1>7, <2>1, ChooseCollect
  <1>8. CASE FJ!NothingToGet(p)
    <2>1. CASE node[p].st = "get"
      BY <1>1, <1>8, <2>1, AllGotCollect
    <2>2. CASE node[p].st # "get"
      <3>1. p = FJ!Root /\ node[p].st = "leaf" /\ FJ!Leave(p, FJ!Value(<<>>))
        BY <1>8, <2>2 DEF FJ!NothingToGet, FJ!At
      <3>2. FJ!IsLeaf(p, node[p].lo, node[p].hi)
        BY <3>1 DEF Tree, PlaceOK, LeafSts
      <3>3. PICK r : r = FJ!Value(<<>>)
        OBVIOUS
      <3>4. Moved(p) /\ To(p, "leave", node[p].k, r, node[p].joined)
        BY <1>1, <3>1, <3>3, LeaveMoves
      <3>5. node'[p].st = "leave" /\ ~Whole(p)'
        BY <1>1, <3>2, <3>4, GatheredLasts DEF Whole, To
      <3>6. CollectOK(p)'
        BY <3>5 DEF CollectOK
      <3> QED
        BY <1>1, <3>4, <3>6, CollectStep DEF Moved
    <2> QED
      BY <2>1, <2>2
  <1> QED
    BY <1>1, <1>2, <1>3, <1>4, <1>5, <1>6, <1>7, <1>8, ForkCollect, OwnCollect, JoinCollect,
       GetPartCollect, AllGotCollect DEF FJ!NodeStep, LeafSteps

-----------------------------------------------------------------------------
(* ForkJoin: the sums.                                                   *)

Summands == Int \cup {"init"}

\* The elements of two ranges that follow on each other are those of the whole.
LEMMA UpToJoins ==
    ASSUME NEW lo \in Int, NEW mid \in Int, NEW hi \in Int, lo <= mid, mid <= hi
    PROVE  /\ FJ!UpTo(lo, mid) \o FJ!UpTo(mid, hi) = FJ!UpTo(lo, hi)
           /\ FJ!UpTo(lo, mid) \in Seq(Summands) /\ FJ!UpTo(mid, hi) \in Seq(Summands)
           /\ FJ!UpTo(lo, hi) \in Seq(Summands)
  <1>1. ASSUME NEW a \in Int, NEW z \in Int, a <= z
        PROVE  FJ!UpTo(a, z) \in Seq(Summands) /\ Len(FJ!UpTo(a, z)) = z - a
    <2>1. z - a \in Nat /\ \A i \in 1 .. z - a : a + i - 1 \in Summands
      BY <1>1 DEF Summands
    <2> QED
      BY <2>1 DEF FJ!UpTo
  <1>2. PICK s, t, u : s = FJ!UpTo(lo, mid) /\ t = FJ!UpTo(mid, hi) /\ u = FJ!UpTo(lo, hi)
    OBVIOUS
  <1>3. /\ s \in Seq(Summands) /\ t \in Seq(Summands) /\ u \in Seq(Summands)
        /\ Len(s) = mid - lo /\ Len(t) = hi - mid /\ Len(u) = hi - lo
    <2>1. s \in Seq(Summands) /\ Len(s) = mid - lo
      BY <1>1, <1>2
    <2>2. t \in Seq(Summands) /\ Len(t) = hi - mid
      BY <1>1, <1>2
    <2>3. lo <= hi
      OBVIOUS
    <2>4. u \in Seq(Summands) /\ Len(u) = hi - lo
      BY <1>1, <1>2, <2>3
    <2> QED
      BY <2>1, <2>2, <2>4
  <1>4. /\ s \o t \in Seq(Summands) /\ Len(s \o t) = Len(s) + Len(t)
        /\ \A i \in 1 .. Len(s) + Len(t) :
               (s \o t)[i] = IF i <= Len(s) THEN s[i] ELSE t[i - Len(s)]
    BY <1>3, ConcatProperties
  <1>5. ASSUME NEW i \in 1 .. hi - lo PROVE (s \o t)[i] = u[i]
    <2>1. u[i] = lo + i - 1
      BY <1>2 DEF FJ!UpTo
    <2>2. CASE i <= mid - lo
      <3>1. i \in 1 .. mid - lo /\ s[i] = lo + i - 1
        BY <1>2, <2>2 DEF FJ!UpTo
      <3> QED
        BY <1>3, <1>4, <2>1, <2>2, <3>1
    <2>3. CASE ~(i <= mid - lo)
      <3>1. i - (mid - lo) \in 1 .. hi - mid
        BY <2>3
      <3>2. t[i - (mid - lo)] = mid + (i - (mid - lo)) - 1
        BY <1>2, <3>1 DEF FJ!UpTo
      <3> QED
        BY <1>3, <1>4, <2>1, <2>3, <3>2
    <2> QED
      BY <2>2, <2>3
  <1>6. Len(s \o t) = hi - lo
    BY <1>3, <1>4
  <1>7. s \o t = u
    BY <1>3, <1>4, <1>5, <1>6, SeqEqual
  <1> QED
    BY <1>2, <1>3, <1>7

\* Concatenating all sequences of seqs is adding one after the other.
LEMMA FlattenIs ==
    ASSUME NEW n \in Nat \ {0}, NEW seqs, Len(seqs) = n, NEW h,
           h[1] = seqs[1], \A i \in 1 .. n - 1 : h[i + 1] = h[i] \o seqs[i + 1]
    PROVE  FJ!FlattenSeq(seqs) = h[n]
  <1> DEFINE Eq(f) == f = [i \in 1 .. Len(seqs) |-> IF i = 1 THEN seqs[i] ELSE f[i - 1] \o seqs[i]]
             g == CHOOSE f : Eq(f)
             k == [i \in 1 .. Len(seqs) |-> h[i]]
  <1>1. Eq(k)
    <2>1. ASSUME NEW i \in 1 .. Len(seqs)
          PROVE  k[i] = IF i = 1 THEN seqs[i] ELSE k[i - 1] \o seqs[i]
      <3>1. CASE i = 1
        BY <3>1
      <3>2. CASE i # 1
        <4>1. i - 1 \in 1 .. n - 1 /\ (i - 1) + 1 = i /\ i - 1 \in 1 .. Len(seqs)
          BY <3>2
        <4>2. h[i] = h[i - 1] \o seqs[i]
          BY <4>1
        <4> QED
          BY <3>2, <4>1, <4>2
      <3> QED
        BY <3>1, <3>2
    <2> QED
      BY <2>1
  <1>2. Eq(g)
    <2> HIDE DEF k
    <2> QED
      BY <1>1, Zenon
  <1>3. FJ!FlattenSeq(seqs) = g[n]
    BY n # 0 DEF FJ!FlattenSeq
  <1>4. \A i \in 1 .. n : g[i] = IF i = 1 THEN seqs[i] ELSE g[i - 1] \o seqs[i]
    <2> HIDE DEF g
    <2> QED
      BY <1>2
  <1> HIDE DEF g
  <1> DEFINE S == {i \in Nat : i + 1 \in 1 .. n => g[i + 1] = h[i + 1]}
  <1>5. 0 \in S
    <2>1. 1 \in 1 .. n /\ 0 + 1 = 1
      OBVIOUS
    <2>2. g[1] = h[1]
      BY <1>4, <2>1
    <2> QED
      BY <2>1, <2>2
  <1>6. ASSUME NEW i \in Nat, i \in S PROVE i + 1 \in S
    <2> SUFFICES ASSUME (i + 1) + 1 \in 1 .. n PROVE g[(i + 1) + 1] = h[(i + 1) + 1]
      OBVIOUS
    <2>1. PICK j \in 1 .. n - 1 : j = i + 1
      OBVIOUS
    <2>2. g[j] = h[j] /\ j + 1 \in 1 .. n /\ j + 1 # 1 /\ (j + 1) - 1 = j
      BY <1>6, <2>1
    <2>3. g[j + 1] = g[j] \o seqs[j + 1]
      BY <1>4, <2>2
    <2>4. h[j + 1] = h[j] \o seqs[j + 1]
      BY <2>1
    <2> QED
      BY <2>1, <2>2, <2>3, <2>4
  <1>7. \A i \in Nat : i \in S
    <2> HIDE DEF S
    <2> QED
      BY <1>5, <1>6, Induction
  <1>8. n - 1 \in Nat /\ (n - 1) + 1 = n /\ n \in 1 .. n
    OBVIOUS
  <1>9. g[n] = h[n]
    BY <1>7, <1>8
  <1> QED
    BY <1>3, <1>9

\* A part starts from nothing, but for the first half: it starts from what its parent
\* does.
LEMMA InitsAre ==
    ASSUME Tree
    PROVE  \A p \in DOMAIN node : node[p].init \in {<<>>, <<"init">>}
  <1> DEFINE S == {p \in DOMAIN node : node[p].init \in {<<>>, <<"init">>}}
  <1>1. FJ!Root \in S
    BY DEF Tree, PlaceOK
  <1>2. ASSUME NEW p \in DOMAIN node, NEW i \in Nat, p \in S, IsKid(p, i)
        PROVE  Append(p, i) \in S
    BY <1>2 DEF Tree, KidOK, BornOK, IsKid, Kid
  <1> HIDE DEF S
  <1>3. DOMAIN node \subseteq S
    BY <1>1, <1>2, TreeInduction
  <1> QED
    BY <1>3 DEF S

\* An activation of a sum that is not left by an exception has added its elements in
\* their order, and none of them throws.
SumOK(p) ==
    list.does = "sum" /\ HasRes(node[p]) /\ Good(node[p]) =>
        /\ node[p].res = FJ!Value(node[p].init \o FJ!UpTo(node[p].lo, node[p].hi))
        /\ \A e \in node[p].lo .. node[p].hi - 1 : outcome[e] # "throws"
SumsInv == \A p \in DOMAIN node : SumOK(p)


\* The parts that a sum has got, one after the other, make up its range.
LEMMA TotalIs ==
    ASSUME Tree, SumsInv, list.does = "sum", NEW p \in DOMAIN node,
           ~FJ!IsLeaf(p, node[p].lo, node[p].hi), \A i \in 1 .. Others + 1 : Given(p, i)
    PROVE  /\ FJ!Total(p) = node[p].init \o FJ!UpTo(node[p].lo, node[p].hi)
           /\ \A e \in node[p].lo .. node[p].hi - 1 : outcome[e] # "throws"
  <1>1. PICK P, n, lo, hi, init : /\ P = FJ!Parts(node[p]) /\ n = Others + 1 /\ lo = node[p].lo
                                  /\ hi = node[p].hi /\ init = node[p].init
    OBVIOUS
  <1>2. /\ ChosenOK /\ IsNode(node[p]) /\ lo \in Int /\ hi \in Int /\ lo <= hi
        /\ n \in Nat \ {0} /\ FJ!Forks(node[p]) + 1 = n /\ init \in {<<>>, <<"init">>}
    BY <1>1, ForksAre, RangesOK, InitsAre DEF Tree, PlaceOK, RangeOK
  <1>3. Splits(P, n, lo, hi)
    BY <1>1, <1>2, PartsSplit
  <1>4. \A i \in 1 .. n : /\ P[i][1] \in Int /\ P[i][2] \in Int /\ lo <= P[i][1]
                          /\ P[i][1] <= P[i][2] /\ P[i][2] <= hi
    BY <1>3 DEF Splits
  <1>5. ASSUME NEW i \in 1 .. n
        PROVE  /\ Kid(p, i).res.of = (IF FJ!Halves /\ i = 1 THEN init ELSE <<>>)
                                         \o FJ!UpTo(P[i][1], P[i][2])
               /\ \A e \in P[i][1] .. P[i][2] - 1 : outcome[e] # "throws"
    <2>1. IsKid(p, i) /\ Done(Kid(p, i)) /\ Good(Kid(p, i)) /\ i \in Nat
      BY <1>1, <1>2 DEF Given
    <2>2. SumOK(Append(p, i)) /\ BornOK(p, node[p], i, Kid(p, i))
      BY <2>1 DEF SumsInv, IsKid, Tree, KidOK
    <2>3. PICK m : m = Kid(p, i)
      OBVIOUS
    <2>4. m.lo = P[i][1] /\ m.hi = P[i][2] /\ m.init = IF FJ!Halves /\ i = 1 THEN init ELSE <<>>
      BY <1>1, <2>2, <2>3 DEF BornOK
    <2>5. /\ m.res = FJ!Value(m.init \o FJ!UpTo(m.lo, m.hi))
          /\ \A e \in m.lo .. m.hi - 1 : outcome[e] # "throws"
      BY <2>1, <2>2, <2>3 DEF SumOK, Done, HasRes, Kid
    <2> QED
      BY <2>3, <2>4, <2>5, ResultsDiffer
  <1>6. \A e \in lo .. hi - 1 : outcome[e] # "throws"
    <2> SUFFICES ASSUME NEW e \in lo .. hi - 1 PROVE outcome[e] # "throws"
      OBVIOUS
    <2>1. PICK i \in 1 .. n : P[i][1] <= e /\ e < P[i][2]
      BY <1>3 DEF Splits
    <2>2. e \in P[i][1] .. P[i][2] - 1
      BY <1>2, <1>4, <2>1
    <2> QED
      BY <1>5, <2>2
  <1>7. PICK seqs : seqs = [i \in 1 .. n |-> Kid(p, i).res.of]
    OBVIOUS
  <1>8. FJ!Total(p) = (IF FJ!Halves THEN <<>> ELSE init) \o FJ!FlattenSeq(seqs)
        /\ Len(seqs) = n
    <2>1. FJ!Total(p) = (IF FJ!Halves THEN <<>> ELSE node[p].init)
              \o FJ!FlattenSeq([i \in 1 .. FJ!Forks(node[p]) + 1 |-> Kid(p, i).res.of])
      BY DEF FJ!Total, FJ!Kid, Kid
    <2>2. Len(seqs) = n
      BY <1>2, <1>7
    <2> QED
      BY <1>1, <1>2, <1>7, <2>1, <2>2
  <1>9. /\ init \in Seq(Summands)
        /\ \A a, z \in Int : a <= z => FJ!UpTo(a, z) \in Seq(Summands)
    <2>1. init \in Seq(Summands)
      <3>1. <<>> \in Seq(Summands)
        OBVIOUS
      <3>2. "init" \in Summands
        BY DEF Summands
      <3>3. <<"init">> \in Seq(Summands)
        BY <3>2
      <3> QED
        BY <1>2, <3>1, <3>3
    <2>2. ASSUME NEW a \in Int, NEW z \in Int, a <= z PROVE FJ!UpTo(a, z) \in Seq(Summands)
      BY <2>2, UpToJoins
    <2> QED
      BY <2>1, <2>2
  <1>10. \A s \in Seq(Summands) : <<>> \o s = s
    BY ConcatEmptySeq
  <1>11. CASE ~FJ!Halves
    <2>1. Follow(P, n, lo, hi)
      <3>1. node[p].lo = 0 /\ node[p].hi = length
        BY <1>11 DEF FJ!IsLeaf, Tree, PlaceOK
      <3> QED
        BY <1>1, <1>2, <1>11, <3>1, BlocksFollow
    <2>2. PICK h : h = [i \in 1 .. n |-> FJ!UpTo(lo, P[i][2])]
      OBVIOUS
    <2>3. ASSUME NEW i \in 1 .. n PROVE seqs[i] = FJ!UpTo(P[i][1], P[i][2])
      BY <1>4, <1>5, <1>7, <1>9, <1>10, <1>11
    <2>4. h[1] = seqs[1]
      <3>1. 1 \in 1 .. n /\ P[1][1] = lo
        BY <1>2, <2>1 DEF Follow
      <3> QED
        BY <2>2, <2>3, <3>1
    <2>5. ASSUME NEW i \in 1 .. n - 1 PROVE h[i + 1] = h[i] \o seqs[i + 1]
      <3>1. i \in 1 .. n /\ i + 1 \in 1 .. n /\ P[i + 1][1] = P[i][2]
        BY <1>2, <2>1 DEF Follow
      <3>2. PICK a \in Int, z \in Int : a = P[i][2] /\ z = P[i + 1][2] /\ lo <= a /\ a <= z
        <4>1. /\ P[i][2] \in Int /\ P[i + 1][2] \in Int /\ P[i][2] <= P[i + 1][2]
              /\ P[i][1] \in Int /\ lo <= P[i][1] /\ P[i][1] <= P[i][2]
          BY <1>4, <3>1
        <4>2. lo <= P[i][2]
          BY <1>2, <4>1
        <4> QED
          BY <4>1, <4>2
      <3>3. FJ!UpTo(lo, a) \o FJ!UpTo(a, z) = FJ!UpTo(lo, z)
        BY <1>2, <3>2, UpToJoins
      <3> QED
        BY <2>2, <2>3, <3>1, <3>2, <3>3
    <2>6. FJ!FlattenSeq(seqs) = h[n]
      BY <1>2, <1>8, <2>4, <2>5, FlattenIs
    <2>7. n \in 1 .. n /\ P[n][2] = hi
      BY <1>2, <2>1 DEF Follow
    <2>8. FJ!FlattenSeq(seqs) = FJ!UpTo(lo, hi)
      BY <2>2, <2>6, <2>7
    <2> QED
      BY <1>1, <1>6, <1>8, <1>11, <2>8
  <1>12. CASE FJ!Halves
    <2>1. PICK mid \in Int : lo <= mid /\ mid <= hi /\ n = 2 /\ P = <<<<lo, mid>>, <<mid, hi>>>>
      BY <1>1, <1>2, <1>12, HalvesAre
    <2>2. PICK s \in Seq(Summands), t \in Seq(Summands), u \in Seq(Summands) :
              s = FJ!UpTo(lo, mid) /\ t = FJ!UpTo(mid, hi) /\ u = FJ!UpTo(lo, hi) /\ s \o t = u
      BY <1>2, <2>1, UpToJoins
    <2>3. 1 \in 1 .. n /\ 2 \in 1 .. n /\ P[1][1] = lo /\ P[1][2] = mid /\ P[2][1] = mid
          /\ P[2][2] = hi
      BY <2>1
    <2>4. seqs[1] = init \o s
      BY <1>5, <1>7, <1>12, <2>2, <2>3
    <2>5. seqs[2] = t
      <3>1. seqs[2] = <<>> \o FJ!UpTo(P[2][1], P[2][2])
        <4>1. PICK k \in 1 .. n : k = 2 /\ k # 1
          BY <2>3
        <4>2. Kid(p, k).res.of = <<>> \o FJ!UpTo(P[k][1], P[k][2])
          BY <1>5, <4>1
        <4> QED
          BY <1>7, <4>1, <4>2
      <3> QED
        BY <1>10, <2>2, <2>3, <3>1
    <2>6. PICK h : h = <<init \o s, (init \o s) \o t>>
      OBVIOUS
    <2>7. h[1] = seqs[1] /\ \A i \in 1 .. n - 1 : h[i + 1] = h[i] \o seqs[i + 1]
      <3>1. \A i \in 1 .. n - 1 : i = 1
        BY <2>1
      <3>2. h[1] = seqs[1] /\ h[2] = h[1] \o seqs[2] /\ 1 + 1 = 2
        BY <2>4, <2>5, <2>6
      <3> QED
        BY <3>1, <3>2
    <2>8. FJ!FlattenSeq(seqs) = h[n]
      BY <1>2, <1>8, <2>7, FlattenIs
    <2>9. (init \o s) \o t = init \o u
      <3>1. init \in Seq(Summands)
        BY <1>9
      <3>2. (init \o s) \o t = init \o (s \o t)
        BY <3>1, ConcatAssociative
      <3> QED
        BY <2>2, <3>2
    <2>10. init \o u \in Seq(Summands)
      BY <1>9, ConcatProperties
    <2>11. FJ!FlattenSeq(seqs) = init \o u
      BY <2>1, <2>6, <2>8, <2>9
    <2> QED
      BY <1>1, <1>6, <1>8, <1>10, <1>12, <2>2, <2>10, <2>11
  <1> QED
    BY <1>11, <1>12

\* The last get() of an activation, which gives it its result.
Settles(p) == FJ!AllGot(p) \/ FJ!NothingToGet(p) \/ FJ!TestFlag(p) \/ FJ!Choose(p)

\* Steps other than those of a leaf, and other than the last get(), leave the elements
\* alone, and bring no result but an exception.
LEMMA InnerQuiet ==
    ASSUME Tree, NEW p \in DOMAIN node, FJ!NodeStep(p), ~LeafSteps(p), ~Settles(p)
    PROVE  /\ UNCHANGED <<cell, promise>>
           /\ HasRes(node[p]) \/ ~HasRes(node'[p]) \/ node'[p].res = FJ!Exception
  <1> USE DEF HasRes
  <1>0. IsNode(node[p])
    BY DEF Tree, PlaceOK
  <1>1. ASSUME FJ!Leave(p, FJ!Exception) PROVE node'[p].res = FJ!Exception
    <2>1. PICK r : r = FJ!Exception
      OBVIOUS
    <2> QED
      BY <1>0, <1>1, <2>1, LeaveMoves DEF To
  <1>2. CASE FJ!Fork(p) \/ FJ!CallInline(p)
    <2>1. PICK by \in {"thread", "inline", "deferred"} : \E i \in Nat : Born(p, i, by)
      BY <1>2, ForkBears
    <2> QED
      BY <1>2, <2>1 DEF FJ!Fork, FJ!CallInline, FJ!shared, Born
  <1>3. CASE FJ!ForkFails(p)
    BY <1>1, <1>3 DEF FJ!ForkFails, FJ!shared
  <1>4. CASE FJ!ThreadExits(p) \/ FJ!Depart(p)
    BY <1>4 DEF FJ!ThreadExits, FJ!Depart, FJ!shared, FJ!At
  <1>5. CASE FJ!OwnPartDone(p)
    <2>1. \/ FJ!Leave(p, FJ!Exception)
          \/ FJ!Go(p, "join") \/ FJ!Go(p, "get")
      BY <1>5 DEF FJ!OwnPartDone
    <2>2. ASSUME NEW t \in {"join", "get"}, FJ!Go(p, t) PROVE node'[p].st = t
      BY <1>0, <2>2, GoMoves DEF Sts, To
    <2> QED
      BY <1>1, <1>5, <2>1, <2>2 DEF FJ!OwnPartDone, FJ!shared
  <1>6. CASE FJ!Join(p)
    BY <1>0, <1>6, JoinMoves DEF FJ!Join, FJ!shared, To
  <1>7. CASE FJ!GetPart(p)
    <2>1. FJ!Leave(p, FJ!Exception) \/ node' = [node EXCEPT ![p].k = @ + 1]
      BY <1>7 DEF FJ!GetPart
    <2>2. node[p].st = "get"
      BY <1>7 DEF FJ!GetPart, FJ!Gets, FJ!At
    <2>3. ASSUME node' = [node EXCEPT ![p].k = @ + 1] PROVE node'[p].st = "get"
      BY <1>0, <2>2, <2>3, CountMoves DEF To
    <2> QED
      BY <1>1, <1>7, <2>1, <2>3 DEF FJ!GetPart, FJ!shared
  <1> QED
    BY <1>2, <1>3, <1>4, <1>5, <1>6, <1>7 DEF FJ!NodeStep, LeafSteps, Settles

\* What a leaf of a sum or of a for_each does is one step, and no other leaf is there.
LEMMA OneLeafStep ==
    ASSUME Tree, DieInv, NEW p \in DOMAIN node, LeafSteps(p)
    PROVE  /\ list.does = "sum" => FJ!Accumulate(p)
           /\ list.does = "each" => FJ!ForEach(p)
  <1>1. node[p].st \in ChunkSts \ {"flag"} => list.does = "prefix"
    BY DEF DieInv, StageOK
  <1>2. node[p].st = "flag" => list.does = "find"
    BY DEF DieInv, StageOK
  <1>3. FJ!GiveUp(p) \/ FJ!NextElement(p) \/ FJ!Decide(p) \/ FJ!DecideAsync(p) => list.does = "find"
    BY DEF FJ!GiveUp, FJ!NextElement, FJ!Decide, FJ!DecideAsync, FJ!Looking
  <1>4. FJ!SetFlag(p) => list.does = "find"
    BY <1>2 DEF FJ!SetFlag, FJ!At
  <1>5. \/ FJ!SumChunk(p) \/ FJ!AddToLast(p) \/ FJ!SetEndValue(p) \/ FJ!AddToRest(p)
        \/ FJ!EndChunk(p) \/ FJ!Fail(p)
        => list.does = "prefix"
    BY <1>1 DEF FJ!SumChunk, FJ!AddToLast, FJ!SetEndValue, FJ!AddToRest, FJ!EndChunk, FJ!Fail,
                FJ!At, ChunkSts
  <1> QED
    BY <1>3, <1>4, <1>5 DEF LeafSteps, FJ!Accumulate, FJ!ForEach

\* A sum that has its result keeps it.
LEMMA SumStays ==
    ASSUME UNCHANGED FJ!chosen, NEW q \in DOMAIN node, SumOK(q),
           \/ node'[q] = node[q]
           \/ /\ HasRes(node[q]) /\ node'[q].res = node[q].res /\ node'[q].init = node[q].init
              /\ node'[q].lo = node[q].lo /\ node'[q].hi = node[q].hi
    PROVE  SumOK(q)'
  <1>1. list' = list /\ outcome' = outcome
    BY DEF FJ!chosen
  <1>2. FJ!UpTo(node[q].lo, node[q].hi)' = FJ!UpTo(node[q].lo, node[q].hi)
        /\ node'[q].res = node[q].res /\ node'[q].init = node[q].init
        /\ node'[q].lo = node[q].lo /\ node'[q].hi = node[q].hi
    BY DEF FJ!UpTo
  <1>3. (HasRes(node[q]) /\ Good(node[q]))' => HasRes(node[q]) /\ Good(node[q])
    BY <1>1, <1>2 DEF HasRes, Good
  <1>4. FJ!Value(node[q].init \o FJ!UpTo(node[q].lo, node[q].hi))'
            = FJ!Value(node[q].init \o FJ!UpTo(node[q].lo, node[q].hi))
    BY <1>2 DEF FJ!Value, FJ!UpTo
  <1> QED
    BY <1>1, <1>2, <1>3, <1>4 DEF SumOK

\* Every step keeps what the sums are.
LEMMA NodeStepSums ==
    ASSUME Tree, DieInv, CollectInv, SumsInv, NEW p \in DOMAIN node, FJ!NodeStep(p)
    PROVE  SumsInv'
  <1>1. UNCHANGED FJ!chosen /\ list' = list /\ outcome' = outcome /\ IsNode(node[p])
    BY StepIs DEF FJ!chosen, Tree, PlaceOK
  <1> SUFFICES ASSUME list.does = "sum" PROVE SumsInv'
    BY <1>1 DEF SumsInv, SumOK
  <1>2. CASE node[p].st = "fork" /\ \E i \in Nat : \E by : Born(p, i, by)
    <2>1. PICK i \in Nat : \E by : Born(p, i, by)
      BY <1>2
    <2>2. PICK q : q = Append(p, i)
      OBVIOUS
    <2>3. /\ DOMAIN node' = DOMAIN node \cup {q}
          /\ \A c \in DOMAIN node : c # p => node'[c] = node[c]
          /\ ~HasRes(node'[p]) /\ ~HasRes(node'[q])
      BY <2>1, <2>2 DEF Born, Kid, Unstarted, HasRes
    <2>4. ASSUME NEW c \in DOMAIN node' PROVE SumOK(c)'
      <3>1. CASE c = p \/ c = q
        BY <2>3, <3>1 DEF SumOK, HasRes
      <3>2. CASE c # p /\ c # q
        BY <1>1, <2>3, <3>2, SumStays DEF SumsInv
      <3> QED
        BY <3>1, <3>2
    <2> QED
      BY <2>4 DEF SumsInv
  <1>3. ASSUME Kept(p), SumOK(p)' \/ HasRes(node[p]) \/ UNCHANGED node PROVE SumsInv'
    <2>1. \A q \in DOMAIN node : q # p => SumOK(q)'
      BY <1>1, <1>3, SumStays DEF SumsInv, Kept
    <2>2. SumOK(p)'
      BY <1>1, <1>3, SumStays DEF SumsInv, Kept
    <2> QED
      BY <1>3, <2>1, <2>2 DEF SumsInv, Kept
  <1>4. ASSUME node'[p].res = FJ!Exception \/ ~HasRes(node'[p]) PROVE SumOK(p)'
    BY <1>1, <1>4 DEF SumOK, Good, HasRes
  <1>5. ASSUME Kept(p) PROVE SumsInv'
    <2>1. CASE LeafSteps(p)
      <3>1. FJ!Accumulate(p)
        BY <2>1, OneLeafStep
      <3>2. CASE FJ!Throwing(node[p]) # {}
        <4>1. UNCHANGED node \/ FJ!Return(p, FJ!Exception)
          BY <3>1, <3>2 DEF FJ!Accumulate, FJ!Throw
        <4>2. PICK r : r = FJ!Exception
          OBVIOUS
        <4>3. FJ!Return(p, r) => node'[p].res = r
          BY <1>1, ReturnMoves DEF To
        <4> QED
          BY <1>3, <1>4, <1>5, <4>1, <4>2, <4>3
      <3>3. CASE FJ!Throwing(node[p]) = {}
        <4>1. PICK r : r = FJ!Value(node[p].init \o FJ!UpTo(node[p].lo, node[p].hi))
          OBVIOUS
        <4>2. FJ!Return(p, r)
          BY <3>1, <3>3, <4>1 DEF FJ!Accumulate
        <4>3. node'[p].res = r /\ node'[p].lo = node[p].lo /\ node'[p].hi = node[p].hi
              /\ node'[p].init = node[p].init
          BY <1>1, <4>2, ReturnMoves DEF To, Moved
        <4>4. \A e \in node[p].lo .. node[p].hi - 1 : outcome[e] # "throws"
          BY <3>3 DEF FJ!Throwing, FJ!Span
        <4>5. node'[p].res = FJ!Value(node[p].init \o FJ!UpTo(node[p].lo, node[p].hi))'
          BY <4>1, <4>3 DEF FJ!Value, FJ!UpTo
        <4>6. SumOK(p)'
          BY <1>1, <4>3, <4>4, <4>5 DEF SumOK
        <4> QED
          BY <1>3, <1>5, <4>6
      <3> QED
        BY <3>2, <3>3
    <2>2. CASE Settles(p)
      <3>1. FJ!AllGot(p)
        BY <2>2 DEF Settles, FJ!NothingToGet, FJ!TestFlag, FJ!Choose
      <3>2. node[p].st = "get" /\ node[p].k = Others /\ Others \in Nat
        BY <3>1, ForksAre DEF FJ!AllGot, FJ!Gets, FJ!At, Tree
      <3>3. CollectOK(p)
        BY DEF CollectInv
      <3>4. (\A i \in 1 .. Others : Given(p, i)) /\ Given(p, Others + 1)
        BY <3>2, <3>3 DEF CollectOK, Gathers, OwnDone, Given, Good
      <3>5. \A i \in 1 .. Others + 1 : Given(p, i)
        BY <3>2, <3>4
      <3>6. ~FJ!IsLeaf(p, node[p].lo, node[p].hi)
        BY <3>2 DEF Tree, PlaceOK
      <3>7. /\ FJ!Total(p) = node[p].init \o FJ!UpTo(node[p].lo, node[p].hi)
            /\ \A e \in node[p].lo .. node[p].hi - 1 : outcome[e] # "throws"
        BY <3>5, <3>6, TotalIs
      <3>8. PICK r : r = FJ!Value(FJ!Total(p))
        OBVIOUS
      <3>9. FJ!Leave(p, r)
        BY <3>1, <3>8 DEF FJ!AllGot
      <3>10. node'[p].res = r /\ node'[p].lo = node[p].lo /\ node'[p].hi = node[p].hi
             /\ node'[p].init = node[p].init
        BY <1>1, <3>9, LeaveMoves DEF To, Moved
      <3>11. node'[p].res = FJ!Value(node[p].init \o FJ!UpTo(node[p].lo, node[p].hi))'
        BY <3>7, <3>8, <3>10 DEF FJ!Value, FJ!UpTo
      <3>12. SumOK(p)'
        BY <1>1, <3>7, <3>10, <3>11 DEF SumOK
      <3> QED
        BY <1>3, <1>5, <3>12
    <2>3. CASE ~LeafSteps(p) /\ ~Settles(p)
      BY <1>3, <1>4, <1>5, <2>3, InnerQuiet
    <2> QED
      BY <2>1, <2>2, <2>3
  <1> QED
    BY <1>2, <1>5, StepIs

-----------------------------------------------------------------------------
(* ForkJoin: the for_each.                                               *)

\* f has not touched an element as long as the leaf it belongs to has not run; it has
\* been applied once if that leaf has come to a good end.
Ran(p) == FJ!IsLeaf(p, node[p].lo, node[p].hi) /\ HasRes(node[p])
EachOK(p, e) ==
    /\ ~Ran(p) => cell[e] = <<e>>
    /\ Ran(p) /\ node[p].res # FJ!Exception => cell[e] = <<e, "f">> /\ outcome[e] # "throws"
EachInv ==
    list.does = "each" =>
        \A p \in DOMAIN node : \A e \in 0 .. length - 1 : Belongs(p, e) => EachOK(p, e)

\* Nothing changes for an element that is not touched, and whose leaf does not run.
LEMMA EachStays ==
    ASSUME UNCHANGED FJ!chosen, NEW q \in DOMAIN node, NEW e, EachOK(q, e), cell'[e] = cell[e],
           node'[q].lo = node[q].lo /\ node'[q].hi = node[q].hi,
           \/ node'[q] = node[q]
           \/ HasRes(node[q]) /\ HasRes(node'[q]) /\ node'[q].res = node[q].res
           \/ ~FJ!IsLeaf(q, node[q].lo, node[q].hi)
    PROVE  EachOK(q, e)'
  <1>1. list' = list /\ outcome' = outcome
    BY DEF FJ!chosen
  <1>2. FJ!IsLeaf(q, node[q].lo, node[q].hi)' <=> FJ!IsLeaf(q, node[q].lo, node[q].hi)
    BY <1>1 DEF FJ!IsLeaf, FJ!Halves
  <1>3. (Ran(q)' <=> Ran(q)) /\ (Ran(q) => node'[q].res = node[q].res)
    BY <1>2 DEF Ran, HasRes
  <1> QED
    BY <1>1, <1>3 DEF EachOK

\* Applying f to an element is noted behind it.
LEMMA AppendPair == ASSUME NEW x, NEW y PROVE Append(<<x>>, y) = <<x, y>>
  <1>1. <<x>> \in Seq({x, y}) /\ Len(<<x>>) = 1
    OBVIOUS
  <1>2. <<x, y>> \in Seq({x, y}) /\ Len(<<x, y>>) = 2
    OBVIOUS
  <1>3. PICK s, t : s = Append(<<x>>, y) /\ t = <<x, y>>
    OBVIOUS
  <1>4. s \in Seq({x, y}) /\ Len(s) = 2
    BY <1>1, <1>3, AppendProperties
  <1>5. s[1] = x /\ s[2] = y
    BY <1>1, <1>3, AppendProperties
  <1>6. t[1] = x /\ t[2] = y
    BY <1>3
  <1>7. \A i \in 1 .. Len(s) : s[i] = t[i]
    <2>1. \A i \in 1 .. 2 : i = 1 \/ i = 2
      OBVIOUS
    <2> QED
      BY <1>4, <1>5, <1>6, <2>1
  <1>8. t \in Seq({x, y}) /\ Len(t) = 2
    BY <1>2, <1>3
  <1>9. s = t
    BY <1>4, <1>7, <1>8, SeqEqual
  <1> QED
    BY <1>3, <1>9

\* A block is run: its own elements are touched, and no others.
LEMMA ForEachRuns ==
    ASSUME Tree, StoreOK, Parcels, EachInv, NEW p \in DOMAIN node, FJ!ForEach(p)
    PROVE  EachInv'
  <1>1. /\ list.does = "each" /\ node[p].st = "leaf" /\ IsNode(node[p]) /\ list.task
        /\ UNCHANGED FJ!chosen /\ list' = list /\ outcome' = outcome /\ length' = length
        /\ FJ!IsLeaf(p, node[p].lo, node[p].hi) /\ ~HasRes(node[p]) /\ RangeOK(node[p])
    BY ListFacts, RangesOK DEF FJ!ForEach, FJ!At, FJ!chosen, Tree, PlaceOK, LeafSts, ListOK, HasRes
  <1>2. PICK r : r = IF FJ!Throwing(node[p]) # {} THEN FJ!Exception ELSE FJ!Value(<<>>)
    OBVIOUS
  <1>3. FJ!Return(p, r)
    BY <1>1, <1>2 DEF FJ!ForEach, FJ!Throw
  <1>4. Moved(p) /\ To(p, Gone(node[p]), node[p].k, r, node[p].joined)
    BY <1>1, <1>3, ReturnMoves
  <1>5. /\ HasRes(node'[p]) /\ node'[p].res = r /\ DOMAIN node' = DOMAIN node
        /\ \A q \in DOMAIN node : node'[q].lo = node[q].lo /\ node'[q].hi = node[q].hi
        /\ \A q \in DOMAIN node : q # p => node'[q] = node[q]
    BY <1>4 DEF To, Moved, Gone, HasRes
  <1>6. \A e \in 0 .. length - 1 :
            cell'[e] = IF e \in FJ!Span(node[p]) /\ \A d \in FJ!Throwing(node[p]) : e < d
                       THEN Append(cell[e], "f") ELSE cell[e]
    BY DEF FJ!ForEach, StoreOK
  <1>7. ASSUME NEW q \in DOMAIN node, NEW e \in 0 .. length - 1, Belongs(q, e)' PROVE EachOK(q, e)'
    <2>1. Belongs(q, e)
      BY <1>1, <1>5, <1>7, BelongsStays
    <2>2. EachOK(q, e)
      BY <1>1, <2>1 DEF EachInv
    <2>3. CASE q = p
      <3>1. cell[e] = <<e>> /\ e \in FJ!Span(node[p])
        BY <1>1, <2>1, <2>2, <2>3 DEF EachOK, Ran, Belongs, InSpan, FJ!Span, RangeOK
      <3>2. CASE FJ!Throwing(node[p]) = {}
        <4>1. cell'[e] = <<e, "f">>
          <5>1. cell'[e] = Append(<<e>>, "f")
            BY <1>6, <3>1, <3>2
          <5> QED
            BY <5>1, AppendPair
        <4>2. outcome[e] # "throws"
          BY <3>1, <3>2 DEF FJ!Throwing
        <4>3. Ran(p)'
          BY <1>1, <1>5 DEF Ran, FJ!IsLeaf, FJ!Halves
        <4> QED
          BY <1>1, <2>3, <4>1, <4>2, <4>3 DEF EachOK
      <3>3. CASE FJ!Throwing(node[p]) # {}
        <4>1. node'[p].res = FJ!Exception /\ Ran(p)'
          BY <1>1, <1>2, <1>5, <3>3 DEF Ran, FJ!IsLeaf, FJ!Halves
        <4> QED
          BY <2>3, <4>1 DEF EachOK
      <3> QED
        BY <3>2, <3>3
    <2>4. CASE q # p
      <3>1. ~Belongs(p, e)
        BY <2>1, <2>4 DEF Parcels, Owned
      <3>2. e \notin FJ!Span(node[p])
        BY <1>1, <3>1 DEF Belongs, InSpan, FJ!Span, RangeOK
      <3>3. cell'[e] = cell[e]
        BY <1>6, <3>2
      <3> QED
        BY <1>1, <1>5, <2>2, <2>4, <3>3, EachStays
    <2> QED
      BY <2>3, <2>4
  <1> QED
    BY <1>1, <1>5, <1>7 DEF EachInv

\* Every step keeps what f has been applied to.
LEMMA NodeStepEach ==
    ASSUME Tree, DieInv, StoreOK, Parcels, EachInv, NEW p \in DOMAIN node, FJ!NodeStep(p)
    PROVE  EachInv'
  <1>1. UNCHANGED FJ!chosen /\ list' = list /\ length' = length
    BY StepIs DEF FJ!chosen
  <1> SUFFICES ASSUME list.does = "each" PROVE EachInv'
    BY <1>1 DEF EachInv
  <1>2. CASE LeafSteps(p)
    BY <1>2, OneLeafStep, ForEachRuns
  <1>3. CASE ~LeafSteps(p)
    <2>1. cell' = cell
      <3>1. CASE Settles(p)
        BY <3>1 DEF Settles, FJ!AllGot, FJ!NothingToGet, FJ!TestFlag, FJ!Choose, FJ!shared
      <3> QED
        BY <1>3, <3>1, InnerQuiet
    <2>2. HasRes(node[p]) \/ ~FJ!IsLeaf(p, node[p].lo, node[p].hi)
      <3>1. node[p].st \in {"fork", "own", "join", "get", "leave", "ready"}
        BY <1>3 DEF FJ!NodeStep, LeafSteps, FJ!Fork, FJ!ForkFails, FJ!CallInline, FJ!ThreadExits,
               FJ!OwnPartDone, FJ!Join, FJ!GetPart, FJ!AllGot, FJ!NothingToGet, FJ!TestFlag,
               FJ!Choose, FJ!Depart, FJ!Gets, FJ!At
      <3> QED
        BY <3>1 DEF Tree, PlaceOK, HasRes
    <2>3. CASE Kept(p)
      <3>1. ASSUME NEW q \in DOMAIN node, NEW e \in 0 .. length - 1, Belongs(q, e)'
            PROVE  EachOK(q, e)'
        <4>1. node'[q].lo = node[q].lo /\ node'[q].hi = node[q].hi /\ DOMAIN node' = DOMAIN node
          BY <2>3 DEF Kept
        <4>2. EachOK(q, e)
          BY <1>1, <3>1, <4>1, BelongsStays DEF EachInv
        <4>3. \/ node'[q] = node[q]
              \/ HasRes(node[q]) /\ HasRes(node'[q]) /\ node'[q].res = node[q].res
              \/ ~FJ!IsLeaf(q, node[q].lo, node[q].hi)
          BY <2>2, <2>3 DEF Kept
        <4> QED
          BY <1>1, <2>1, <4>1, <4>2, <4>3, EachStays
      <3> QED
        BY <1>1, <2>3, <3>1 DEF EachInv, Kept
    <2>4. CASE node[p].st = "fork" /\ \E i \in Nat : \E by : Born(p, i, by)
      <3>1. PICK i \in Nat : \E by : Born(p, i, by)
        BY <2>4
      <3>2. PICK q : q = Append(p, i)
        OBVIOUS
      <3>3. /\ DOMAIN node' = DOMAIN node \cup {q} /\ q \notin DOMAIN node
            /\ \A c \in DOMAIN node : c # p => node'[c] = node[c]
            /\ node'[p].lo = node[p].lo /\ node'[p].hi = node[p].hi
            /\ ~HasRes(node'[q]) /\ ~FJ!IsLeaf(p, node[p].lo, node[p].hi)
        BY <2>4, <3>1, <3>2 DEF Born, Kid, Unstarted, HasRes, IsKid, Tree, PlaceOK
      <3>4. ASSUME NEW c \in DOMAIN node', NEW e \in 0 .. length - 1, Belongs(c, e)'
            PROVE  EachOK(c, e)'
        <4>1. CASE c = q
          <5>1. Belongs(p, e)
            <6>1. \A d \in Int : Belongs(q, d)' => Belongs(p, d)
              BY <1>1, <2>4, <3>1, <3>2, BornBelongs
            <6> QED
              BY <3>4, <4>1, <6>1
          <5>2. cell[e] = <<e>>
            BY <3>3, <5>1 DEF EachInv, EachOK, Ran
          <5>3. ~Ran(c)'
            BY <3>3, <4>1 DEF Ran, HasRes
          <5> QED
            BY <2>1, <5>2, <5>3 DEF EachOK
        <4>2. CASE c # q
          <5>1. c \in DOMAIN node /\ Belongs(c, e)
            BY <1>1, <2>4, <3>1, <3>3, <3>4, <4>2, BornBelongs
          <5>2. EachOK(c, e) /\ cell'[e] = cell[e]
            BY <2>1, <5>1 DEF EachInv
          <5> QED
            BY <1>1, <3>3, <5>1, <5>2, EachStays
        <4> QED
          BY <4>1, <4>2
      <3> QED
        BY <1>1, <3>4 DEF EachInv
    <2> QED
      BY <2>3, <2>4, StepIs
  <1> QED
    BY <1>2, <1>3

-----------------------------------------------------------------------------
(* ForkJoin: the chunks of list 8.11.                                    *)

\* Where the chunks begin and end, and what the promise of one is to hold.
Cuts     == FJ!Parts([lo |-> 0, hi |-> length])
Bottom(i) == Cuts[i][1]
Top(i)   == Cuts[i][2]
EndOf(i) == FJ!Value(FJ!UpTo(0, Top(i)))

\* The chunks follow on each other; no chunk is empty.
LEMMA CutsAre ==
    ASSUME Tree, list.does = "prefix"
    PROVE  /\ ~FJ!Halves /\ Others + 1 = blocks /\ blocks \in Nat \ {0} /\ length \in Nat
           /\ FJ!Parts(node[FJ!Root]) = Cuts
           /\ Splits(Cuts, blocks, 0, length) /\ Follow(Cuts, blocks, 0, length)
           /\ length # 0 => \A i \in 1 .. blocks : Bottom(i) < Top(i)
  <1>1. /\ ~FJ!Halves /\ ChosenOK /\ IsNode(node[FJ!Root]) /\ node[FJ!Root].lo = 0
        /\ node[FJ!Root].hi = length /\ length \in Nat /\ blocks \in Nat \ {0}
        /\ length = 0 \/ blocks <= length
    BY ListFacts DEF ListOK, FJ!Halves, Tree, PlaceOK, ChosenOK
  <1>2. FJ!Parts(node[FJ!Root]) = Cuts
    BY <1>1 DEF Cuts, FJ!Parts
  <1>3. Follow(Cuts, blocks, 0, length) /\ Others + 1 = blocks
    BY <1>1, <1>2, BlocksFollow
  <1>4. Splits(Cuts, blocks, 0, length)
    BY <1>1, <1>3, FollowSplits
  <1>5. ASSUME length # 0, NEW i \in 1 .. blocks PROVE Bottom(i) < Top(i)
    <2>1. PICK b \in Nat, l \in Nat : b = blocks /\ l = length /\ b # 0 /\ b <= l
      BY <1>1, <1>5
    <2>2. PICK size \in Nat : size = l \div b /\ b * size <= l /\ size >= 1
      <3>1. l \div b \in Nat /\ b * (l \div b) <= l
        BY <2>1
      <3>2. l \div b >= 1
        BY <2>1
      <3> QED
        BY <3>1, <3>2
    <2>3. i \in Nat /\ i >= 1 /\ i <= b
      BY <2>1
    <2>4. PICK x \in Nat, y \in Nat, z \in Nat :
              /\ x = (i - 1) * size /\ y = i * size /\ z = b * size
              /\ y = x + size /\ y <= z
      <3>1. (i - 1) * size \in Nat /\ i * size \in Nat /\ b * size \in Nat
        BY <2>3
      <3>2. i * size = (i - 1) * size + size
        BY <2>3
      <3>3. PICK d \in Nat : b = i + d
        <4>1. b - i \in Nat /\ b = i + (b - i)
          BY <2>3
        <4> QED
          BY <4>1
      <3>4. b * size = i * size + d * size /\ d * size \in Nat
        BY <2>3, <3>3
      <3> QED
        BY <3>1, <3>2, <3>4
    <2>5. /\ Cuts[i][1] = 0 + (i - 1) * size
          /\ Cuts[i][2] = IF i = blocks THEN length ELSE 0 + i * size
      <3>1. (length - 0) \div blocks = size
        BY <2>1, <2>2
      <3> QED
        BY <1>1, <3>1 DEF Cuts, FJ!Parts
    <2>6. Cuts[i][1] = x /\ (Cuts[i][2] = y \/ Cuts[i][2] = l)
      BY <2>1, <2>4, <2>5
    <2> QED
      BY <2>2, <2>4, <2>6 DEF Bottom, Top
  <1> QED
    BY <1>1, <1>2, <1>3, <1>4, <1>5

\* The same, for one chunk.
ChunkFacts(i) ==
    /\ i \in Nat /\ i >= 1 /\ i <= blocks
    /\ Bottom(i) \in Int /\ Top(i) \in Int
    /\ 0 <= Bottom(i) /\ Bottom(i) < Top(i) /\ Top(i) <= length
    /\ i = 1 => Bottom(i) = 0
    /\ i > 1 => Bottom(i) = Top(i - 1)

\* It is so for all chunks, which do not overlap.
LEMMA ChunksAre ==
    ASSUME Tree, list.does = "prefix", length # 0
    PROVE  /\ \A i \in 1 .. blocks : ChunkFacts(i)
           /\ \A i, j \in 1 .. blocks : i # j => Top(i) <= Bottom(j) \/ Top(j) <= Bottom(i)
  <1>1. /\ blocks \in Nat \ {0} /\ length \in Nat /\ Splits(Cuts, blocks, 0, length)
        /\ Follow(Cuts, blocks, 0, length) /\ \A i \in 1 .. blocks : Bottom(i) < Top(i)
    BY CutsAre
  <1>2. ASSUME NEW i \in 1 .. blocks PROVE ChunkFacts(i)
    <2>1. /\ i \in Nat /\ i >= 1 /\ i <= blocks
          /\ Bottom(i) \in Int /\ Top(i) \in Int /\ 0 <= Bottom(i) /\ Top(i) <= length
      BY <1>1 DEF Splits, Bottom, Top
    <2>2. i = 1 => Bottom(i) = 0
      BY <1>1 DEF Follow, Bottom
    <2>3. ASSUME i > 1 PROVE Bottom(i) = Top(i - 1)
      <3>1. PICK j \in 1 .. blocks - 1 : j = i - 1 /\ j + 1 = i
        BY <1>1, <2>1, <2>3
      <3>2. Cuts[j][2] = Cuts[j + 1][1]
        BY <1>1 DEF Follow
      <3> QED
        BY <3>1, <3>2 DEF Bottom, Top
    <2> QED
      BY <1>1, <2>1, <2>2, <2>3 DEF ChunkFacts
  <1>3. ASSUME NEW i \in 1 .. blocks, NEW j \in 1 .. blocks, i # j
        PROVE  Top(i) <= Bottom(j) \/ Top(j) <= Bottom(i)
    BY <1>1, <1>3 DEF Splits, Bottom, Top
  <1> QED
    BY <1>2, <1>3

\* The phase of a chunk; one that has not been started has done nothing yet.
Phase(i) == IF IsKid(FJ!Root, i) THEN Kid(FJ!Root, i).st ELSE "leaf"

\* What the elements are: untouched; summed up within the chunk, up to z; the last one
\* summed up; all of them.
Raw(i)        == \A e \in Bottom(i) .. Top(i) - 1 : cell[e] = <<e>>
Partial(i, z) == \A e \in Bottom(i) .. z - 1 : cell[e] = FJ!UpTo(Bottom(i), e + 1)
LastSum(i)    == cell[Top(i) - 1] = FJ!UpTo(0, Top(i))
Final(i)      == \A e \in Bottom(i) .. Top(i) - 1 : cell[e] = FJ!UpTo(0, e + 1)

\* The end value of the chunk before this one has been got.
Asked(i)  == i > 1 => promise[i - 1] = EndOf(i - 1)
Failed(i) == \/ IsKid(FJ!Root, i) /\ Kid(FJ!Root, i).res = FJ!Exception
             \/ i < blocks /\ promise[i] = FJ!Exception
PromiseOK(i) ==
    /\ promise[i] \in {FJ!None, FJ!Exception, EndOf(i)}
    /\ Phase(i) \in {"leaf", "wait", "set"} => promise[i] = FJ!None
    /\ Phase(i) = "ended" => Kid(FJ!Root, i).res = FJ!Value(<<>>)

\* A chunk that has ended is summed up, unless an exception has ended it; the exception
\* is its result, or in its promise.
ChunkOK(i) ==
    /\ Phase(i) \in {"leaf", "wait", "set", "rest", "end", "fail", "ended"}
    /\ Phase(i) = "leaf" => Raw(i)
    /\ Phase(i) = "wait" => i > 1 /\ Partial(i, Top(i))
    /\ Phase(i) \in {"set", "rest"} => LastSum(i) /\ (i > 1 => Asked(i) /\ Partial(i, Top(i) - 1))
    /\ Phase(i) = "set" => i < blocks /\ (i = 1 => Final(i))
    /\ Phase(i) = "rest" => i > 1
    /\ Phase(i) = "end" => Final(i) /\ Asked(i)
    /\ Phase(i) = "ended" /\ ~Failed(i) => Final(i) /\ Asked(i)
    /\ i < blocks => PromiseOK(i)
ChunksInv == list.does = "prefix" /\ length # 0 => \A i \in 1 .. blocks : ChunkOK(i)

\* A promise, once set, stays.
PromisesStay == \A j \in 1 .. blocks - 1 : promise[j] # FJ!None => promise'[j] = promise[j]

\* A chunk is not concerned by the steps of the others.
LEMMA ChunkStays ==
    ASSUME UNCHANGED FJ!chosen, PromisesStay, NEW i \in 1 .. blocks, blocks \in Nat, ChunkOK(i),
           ChunkFacts(i), Phase(i)' = Phase(i),
           IsKid(FJ!Root, i) => IsKid(FJ!Root, i)' /\ Kid(FJ!Root, i)'.res = Kid(FJ!Root, i).res,
           \A e \in Bottom(i) .. Top(i) - 1 : cell'[e] = cell[e],
           i < blocks => promise'[i] = promise[i]
    PROVE  ChunkOK(i)'
  <1>1. length' = length /\ blocks' = blocks /\ list' = list
    BY DEF FJ!chosen
  <1>2. Cuts' = Cuts
    BY <1>1 DEF Cuts, FJ!Parts, FJ!Halves
  <1>3. Bottom(i)' = Bottom(i) /\ Top(i)' = Top(i) /\ EndOf(i)' = EndOf(i)
    BY <1>2 DEF Bottom, Top, EndOf, FJ!UpTo, FJ!Value
  <1>4. Asked(i) => Asked(i)'
    <2>1. EndOf(i - 1)' = EndOf(i - 1)
      BY <1>2 DEF Top, EndOf, FJ!UpTo, FJ!Value
    <2>2. EndOf(i - 1) # FJ!None
      BY ResultsDiffer DEF EndOf
    <2>3. i > 1 => i - 1 \in 1 .. blocks - 1
      OBVIOUS
    <2> QED
      BY <2>1, <2>2, <2>3 DEF Asked, PromisesStay
  <1>5. /\ Raw(i) => Raw(i)'
        /\ Partial(i, Top(i)) => Partial(i, Top(i))'
        /\ Final(i) => Final(i)'
    BY <1>3 DEF Raw, Partial, Final, FJ!UpTo
  <1>6. /\ Partial(i, Top(i) - 1) => Partial(i, Top(i) - 1)'
        /\ LastSum(i) => LastSum(i)'
    <2>1. PICK a \in Int, z \in Int : a = Bottom(i) /\ z = Top(i) /\ a < z
      BY DEF ChunkFacts
    <2>2. a .. (z - 1) - 1 \subseteq a .. z - 1 /\ z - 1 \in a .. z - 1
      BY <2>1
    <2> QED
      BY <1>3, <2>1, <2>2 DEF Partial, LastSum, FJ!UpTo
  <1>7. i < blocks => PromiseOK(i)'
    <2>1. ASSUME i < blocks PROVE PromiseOK(i)'
      <3>1. PromiseOK(i)
        BY <2>1 DEF ChunkOK
      <3>2. Phase(i) = "ended" => IsKid(FJ!Root, i)
        BY DEF Phase
      <3> QED
        BY <1>3, <2>1, <3>1, <3>2 DEF PromiseOK
    <2> QED
      BY <2>1
  <1>8. Phase(i) = "ended" /\ Failed(i) => Failed(i)'
    BY <1>1 DEF Failed, Phase
  <1> QED
    BY <1>1, <1>4, <1>5, <1>6, <1>7, <1>8 DEF ChunkOK

\* Activation p is the i-th chunk.
IsChunk(p, i) ==
    /\ Tree /\ StoreOK /\ ChunksInv /\ list.does = "prefix" /\ length # 0
    /\ i \in 1 .. blocks /\ p \in DOMAIN node /\ p = Append(FJ!Root, i) /\ FJ!Last(p) = i
    /\ node[p].lo = Bottom(i) /\ node[p].hi = Top(i)
    /\ node[p].by = "thread" <=> i < blocks
    /\ FJ!HasNext(p) <=> i < blocks

\* Every activation but the call is one.
LEMMA ChunkIs ==
    ASSUME Tree, StoreOK, ChunksInv, list.does = "prefix", NEW p \in DOMAIN node, p # FJ!Root
    PROVE  \E i \in 1 .. blocks : IsChunk(p, i)
  <1>1. /\ ~FJ!Halves /\ Others + 1 = blocks /\ blocks \in Nat \ {0} /\ length \in Nat
        /\ FJ!Parts(node[FJ!Root]) = Cuts /\ FJ!Root \in DOMAIN node /\ FJ!Root \in Seq(Nat)
    BY CutsAre DEF Tree, PlaceOK
  <1>2. PICK i \in 1 .. blocks : p = Append(FJ!Root, i)
    BY <1>1, BlocksWithin
  <1>3. i \in Nat /\ IsKid(FJ!Root, i) /\ Kid(FJ!Root, i) = node[p]
    BY <1>1, <1>2 DEF IsKid, Kid
  <1>4. BornOK(FJ!Root, node[FJ!Root], i, node[p])
    BY <1>1, <1>3 DEF Tree, KidOK
  <1>5. node[p].lo = Bottom(i) /\ node[p].hi = Top(i)
    BY <1>1, <1>4 DEF BornOK, Bottom, Top
  <1>6. length # 0
    BY <1>1, <1>4 DEF BornOK, FJ!IsLeaf, Tree, PlaceOK
  <1>7. FJ!Last(p) = i
    BY <1>1, <1>2, <1>3, PathFacts
  <1>8. node[p].by = "thread" <=> i < blocks
    <2>1. /\ node[p].by \in {"thread", "inline", "deferred"} /\ node[p].by # "deferred"
          /\ node[p].by = "inline" <=> i = blocks
      BY <1>1, <1>3, <1>4 DEF BornOK, Tree, PlaceOK, IsNode
    <2> QED
      BY <1>1, <2>1
  <1>9. FJ!HasNext(p) <=> i < blocks
    BY <1>7 DEF FJ!HasNext
  <1> QED
    BY <1>2, <1>5, <1>6, <1>7, <1>8, <1>9 DEF IsChunk

\* What is known of the chunk that takes a step.
LEMMA ChunkKnown ==
    ASSUME NEW p, NEW i, IsChunk(p, i), UNCHANGED FJ!chosen
    PROVE  /\ ChunkOK(i) /\ ChunkFacts(i) /\ Phase(i) = node[p].st
           /\ IsNode(node[p]) /\ IsKid(FJ!Root, i) /\ Kid(FJ!Root, i) = node[p]
           /\ p \in DOMAIN node /\ blocks \in Nat /\ length \in Nat /\ ~list.task
           /\ length' = length /\ blocks' = blocks /\ list' = list
           /\ \A j : Bottom(j)' = Bottom(j) /\ Top(j)' = Top(j) /\ EndOf(j)' = EndOf(j)
  <1>1. /\ Tree /\ ChunksInv /\ list.does = "prefix" /\ length # 0 /\ i \in 1 .. blocks
        /\ p \in DOMAIN node /\ p = Append(FJ!Root, i)
    BY DEF IsChunk
  <1>2. ChunkOK(i) /\ ChunkFacts(i)
    BY <1>1, ChunksAre DEF ChunksInv
  <1>3. IsKid(FJ!Root, i) /\ Kid(FJ!Root, i) = node[p] /\ Phase(i) = node[p].st
    BY <1>1 DEF IsKid, Kid, Phase
  <1>4. length' = length /\ blocks' = blocks /\ list' = list
    BY DEF FJ!chosen
  <1>5. Cuts' = Cuts
    BY <1>4 DEF Cuts, FJ!Parts, FJ!Halves
  <1>6. \A j : Bottom(j)' = Bottom(j) /\ Top(j)' = Top(j) /\ EndOf(j)' = EndOf(j)
    BY <1>5 DEF Bottom, Top, EndOf, FJ!UpTo, FJ!Value
  <1>7. IsNode(node[p]) /\ blocks \in Nat /\ length \in Nat
    BY <1>1 DEF Tree, PlaceOK, ChosenOK
  <1>8. ~list.task
    BY <1>1 DEF Tree, ChosenOK, FJ!Lists, FJ!List2_9, FJ!List8_2, FJ!List8_3, FJ!List8_4,
           FJ!List8_5, FJ!List8_7, FJ!List8_8, FJ!List8_9, FJ!List8_10, FJ!List8_11, FJ!Algorithm
  <1> QED
    BY <1>1, <1>2, <1>3, <1>4, <1>6, <1>7, <1>8

\* A step of the i-th chunk touches its own elements, and sets its own promise once.
Touches(i) ==
    /\ \A e \in 0 .. length - 1 : ~(Bottom(i) <= e /\ e < Top(i)) => cell'[e] = cell[e]
    /\ \A j \in 0 .. blocks - 1 : j # i \/ promise[j] # FJ!None => promise'[j] = promise[j]

\* The other chunks stay in their phases.
LEMMA OtherChunks ==
    ASSUME NEW p, NEW i, IsChunk(p, i), Moved(p), NEW j \in 1 .. blocks, j # i
    PROVE  /\ IsKid(FJ!Root, j)' <=> IsKid(FJ!Root, j)
           /\ IsKid(FJ!Root, j) => Kid(FJ!Root, j)' = Kid(FJ!Root, j)
           /\ Phase(j)' = Phase(j)
  <1>1. j \in Nat /\ i \in Nat /\ FJ!Root \in Seq(Nat) /\ p = Append(FJ!Root, i)
    BY DEF IsChunk, Tree, PlaceOK, ChosenOK
  <1>2. Append(FJ!Root, j) # p
    BY <1>1, PathFacts
  <1> QED
    BY <1>2 DEF IsKid, Kid, Moved, Phase

\* It keeps the invariant if it does so for this chunk.
LEMMA ChunkStep ==
    ASSUME NEW p, NEW i, IsChunk(p, i), UNCHANGED FJ!chosen, Moved(p), Touches(i), ChunkOK(i)'
    PROVE  ChunksInv'
  <1>1. /\ blocks \in Nat /\ length \in Nat /\ length' = length /\ blocks' = blocks /\ list' = list
        /\ i \in 1 .. blocks /\ Tree /\ list.does = "prefix" /\ length # 0 /\ p = Append(FJ!Root, i)
        /\ ChunksInv /\ p \in DOMAIN node
    BY ChunkKnown DEF IsChunk
  <1>2. PromisesStay
    <2>1. \A j \in 1 .. blocks - 1 : j \in 0 .. blocks - 1
      BY <1>1
    <2> QED
      BY <2>1 DEF PromisesStay, Touches
  <1>3. ASSUME NEW j \in 1 .. blocks, j # i PROVE ChunkOK(j)'
    <2>1. ChunkOK(j) /\ ChunkFacts(j) /\ ChunkFacts(i)
      BY <1>1, ChunksAre DEF ChunksInv
    <2>2. \A e \in Bottom(j) .. Top(j) - 1 : cell'[e] = cell[e]
      <3> SUFFICES ASSUME NEW e \in Bottom(j) .. Top(j) - 1 PROVE cell'[e] = cell[e]
        OBVIOUS
      <3>1. Top(i) <= Bottom(j) \/ Top(j) <= Bottom(i)
        BY <1>1, <1>3, ChunksAre
      <3>2. e \in 0 .. length - 1 /\ ~(Bottom(i) <= e /\ e < Top(i))
        BY <1>1, <2>1, <3>1 DEF ChunkFacts
      <3> QED
        BY <3>2 DEF Touches
    <2>3. /\ IsKid(FJ!Root, j)' <=> IsKid(FJ!Root, j)
          /\ IsKid(FJ!Root, j) => Kid(FJ!Root, j)' = Kid(FJ!Root, j)
          /\ Phase(j)' = Phase(j)
      BY <1>3, OtherChunks
    <2>4. j < blocks => promise'[j] = promise[j]
      BY <1>1, <1>3 DEF Touches
    <2> QED
      BY <1>1, <1>2, <2>1, <2>2, <2>3, <2>4, ChunkStays
  <1>4. \A j \in 1 .. blocks : ChunkOK(j)'
    BY <1>3
  <1> QED
    BY <1>1, <1>4 DEF ChunksInv

\* It goes on to its next phase.
LEMMA ChunkGoes ==
    ASSUME NEW p, NEW i, IsChunk(p, i), UNCHANGED FJ!chosen, Touches(i),
           NEW t \in {"wait", "set", "rest", "end", "fail"}, FJ!Go(p, t),
           t = "wait" => i > 1 /\ Partial(i, Top(i))',
           t \in {"set", "rest"} => LastSum(i)' /\ (i > 1 => Asked(i)' /\ Partial(i, Top(i) - 1)'),
           t = "set" => i < blocks /\ (i = 1 => Final(i)'),
           t = "rest" => i > 1,
           t = "end" => Final(i)' /\ Asked(i)',
           i < blocks => /\ promise'[i] \in {FJ!None, FJ!Exception, EndOf(i)}
                         /\ t \in {"wait", "set"} => promise'[i] = FJ!None
    PROVE  ChunksInv'
  <1>1. /\ IsNode(node[p]) /\ p \in DOMAIN node /\ blocks' = blocks
        /\ EndOf(i)' = EndOf(i) /\ p = Append(FJ!Root, i) /\ t \in Sts
    BY ChunkKnown DEF IsChunk, Sts, LeafSts
  <1>2. Moved(p) /\ To(p, t, 0, node[p].res, node[p].joined)
    BY <1>1, GoMoves
  <1>3. Phase(i)' = t
    BY <1>1, <1>2 DEF Phase, IsKid, Kid, Moved, To
  <1>4. i < blocks => PromiseOK(i)'
    BY <1>1, <1>3 DEF PromiseOK
  <1>5. ChunkOK(i)'
    BY <1>1, <1>3, <1>4 DEF ChunkOK
  <1> QED
    BY <1>2, <1>5, ChunkStep

\* It comes to its end.
LEMMA ChunkEnds ==
    ASSUME NEW p, NEW i, IsChunk(p, i), UNCHANGED FJ!chosen, Touches(i),
           NEW r, FJ!Return(p, r),
           r # FJ!Exception /\ (i < blocks => promise'[i] # FJ!Exception) => Final(i)' /\ Asked(i)',
           i < blocks => /\ promise'[i] \in {FJ!None, FJ!Exception, EndOf(i)}
                         /\ r = FJ!Value(<<>>)
    PROVE  ChunksInv'
  <1>1. /\ IsNode(node[p]) /\ p \in DOMAIN node /\ blocks' = blocks /\ ~list.task
        /\ EndOf(i)' = EndOf(i) /\ p = Append(FJ!Root, i)
    BY ChunkKnown DEF IsChunk
  <1>2. Moved(p) /\ To(p, Gone(node[p]), node[p].k, r, node[p].joined)
    BY <1>1, ReturnMoves
  <1>3. Phase(i)' = "ended" /\ IsKid(FJ!Root, i)' /\ Kid(FJ!Root, i)'.res = r
    BY <1>1, <1>2 DEF Phase, IsKid, Kid, Moved, To, Gone
  <1>4. i < blocks => PromiseOK(i)'
    BY <1>1, <1>3 DEF PromiseOK, FJ!Value
  <1>5. ~Failed(i)' => Final(i)' /\ Asked(i)'
    BY <1>1, <1>3 DEF Failed, FJ!Exception
  <1>6. ChunkOK(i)'
    BY <1>1, <1>3, <1>4, <1>5 DEF ChunkOK
  <1> QED
    BY <1>2, <1>6, ChunkStep

\* The elements of a chunk lie within the range.
LEMMA ChunkCells ==
    ASSUME NEW p, NEW i, IsChunk(p, i), UNCHANGED FJ!chosen
    PROVE  \E a \in Int, z \in Int :
               /\ a = Bottom(i) /\ z = Top(i) /\ 0 <= a /\ a < z
               /\ a = Bottom(i)' /\ z = Top(i)'
               /\ FJ!Span(node[p]) = a .. z - 1 /\ node[p].lo = a /\ node[p].hi = z
               /\ a .. z - 1 \subseteq 0 .. length - 1 /\ DOMAIN cell = 0 .. length - 1
               /\ z - 1 \in a .. z - 1
               /\ \A e : e \in a .. z - 1 <=> e \in 0 .. length - 1 /\ Bottom(i) <= e /\ e < Top(i)
               /\ i > 1 => EndOf(i - 1) = FJ!Value(FJ!UpTo(0, a))
  <1>1. /\ ChunkFacts(i) /\ length \in Nat /\ Bottom(i)' = Bottom(i) /\ Top(i)' = Top(i)
    BY ChunkKnown
  <1>2. node[p].lo = Bottom(i) /\ node[p].hi = Top(i) /\ StoreOK
    BY DEF IsChunk
  <1>3. PICK a \in Int, z \in Int : a = Bottom(i) /\ z = Top(i) /\ 0 <= a /\ a < z /\ z <= length
    BY <1>1 DEF ChunkFacts
  <1>4. a .. z - 1 \subseteq 0 .. length - 1 /\ z - 1 \in a .. z - 1
    BY <1>1, <1>3
  <1>5. \A e : e \in a .. z - 1 <=> e \in 0 .. length - 1 /\ Bottom(i) <= e /\ e < Top(i)
    BY <1>1, <1>3, <1>4
  <1>6. i > 1 => EndOf(i - 1) = FJ!Value(FJ!UpTo(0, a))
    BY <1>1, <1>3 DEF ChunkFacts, EndOf
  <1>7. DOMAIN cell = 0 .. length - 1
    BY <1>2 DEF StoreOK
  <1> QED
    BY <1>1, <1>2, <1>3, <1>4, <1>5, <1>6, <1>7 DEF FJ!Span

\* std::partial_sum over the chunk.
LEMMA SumChunkOK ==
    ASSUME NEW p, NEW i, IsChunk(p, i), FJ!SumChunk(p)
    PROVE  ChunksInv'
  <1>1. UNCHANGED FJ!chosen /\ promise' = promise /\ node[p].st = "leaf"
        /\ FJ!Last(p) = i /\ i \in 1 .. blocks /\ (FJ!HasNext(p) <=> i < blocks)
    BY DEF FJ!SumChunk, FJ!At, IsChunk
  <1>2. Phase(i) = "leaf" /\ ChunkOK(i) /\ blocks \in Nat
    BY <1>1, ChunkKnown
  <1>3. i < blocks => promise'[i] = FJ!None
    BY <1>1, <1>2 DEF ChunkOK, PromiseOK
  <1>4. PICK a \in Int, z \in Int :
            /\ a = Bottom(i) /\ z = Top(i) /\ 0 <= a /\ a < z
            /\ a = Bottom(i)' /\ z = Top(i)'
            /\ FJ!Span(node[p]) = a .. z - 1 /\ node[p].lo = a
            /\ a .. z - 1 \subseteq 0 .. length - 1 /\ DOMAIN cell = 0 .. length - 1
            /\ z - 1 \in a .. z - 1
            /\ \A e : e \in a .. z - 1 <=> e \in 0 .. length - 1 /\ Bottom(i) <= e /\ e < Top(i)
    BY <1>1, ChunkCells
  <1>5. \/ FJ!Go(p, "fail") /\ UNCHANGED cell
        \/ /\ cell' = [e \in DOMAIN cell |-> IF e \in FJ!Span(node[p])
                                            THEN FJ!UpTo(node[p].lo, e + 1) ELSE cell[e]]
           /\ FJ!Go(p, IF FJ!Last(p) > 1 THEN "wait" ELSE IF FJ!HasNext(p) THEN "set" ELSE "end")
    BY DEF FJ!SumChunk
  <1>6. CASE FJ!Go(p, "fail") /\ UNCHANGED cell
    <2>1. Touches(i)
      BY <1>1, <1>6 DEF Touches
    <2> QED
      BY <1>1, <1>3, <1>6, <2>1, ChunkGoes
  <1>7. CASE /\ cell' = [e \in DOMAIN cell |-> IF e \in FJ!Span(node[p])
                                              THEN FJ!UpTo(node[p].lo, e + 1) ELSE cell[e]]
             /\ FJ!Go(p, IF FJ!Last(p) > 1 THEN "wait" ELSE IF FJ!HasNext(p) THEN "set" ELSE "end")
    <2>1. /\ \A e \in a .. z - 1 : cell'[e] = FJ!UpTo(a, e + 1)
          /\ \A e \in 0 .. length - 1 : e \notin a .. z - 1 => cell'[e] = cell[e]
      BY <1>4, <1>7
    <2>2. Touches(i)
      BY <1>1, <1>4, <2>1 DEF Touches
    <2>3. Partial(i, Top(i))'
      BY <1>4, <2>1 DEF Partial, FJ!UpTo
    <2>4. CASE i > 1
      <3>1. FJ!Go(p, "wait")
        BY <1>1, <1>7, <2>4
      <3> QED
        BY <1>1, <1>3, <2>2, <2>3, <2>4, <3>1, ChunkGoes
    <2>5. CASE i = 1
      <3>1. a = 0
        BY <1>1, <1>4, <2>5, ChunkKnown DEF ChunkFacts
      <3>2. Final(i)'
        BY <1>4, <2>1, <3>1 DEF Final, FJ!UpTo
      <3>3. LastSum(i)'
        <4>1. cell'[z - 1] = FJ!UpTo(0, (z - 1) + 1) /\ (z - 1) + 1 = z
          BY <1>4, <2>1, <3>1
        <4> QED
          BY <1>4, <4>1 DEF LastSum, FJ!UpTo
      <3>4. Asked(i)'
        BY <2>5 DEF Asked
      <3>5. CASE i < blocks
        <4>1. FJ!Go(p, "set")
          BY <1>1, <1>7, <2>5, <3>5
        <4> QED
          BY <1>1, <1>3, <2>2, <2>5, <3>2, <3>3, <3>5, <4>1, ChunkGoes
      <3>6. CASE ~(i < blocks)
        <4>1. FJ!Go(p, "end")
          BY <1>1, <1>7, <2>5, <3>6
        <4> QED
          BY <1>1, <2>2, <3>2, <3>4, <3>6, <4>1, ChunkGoes
      <3> QED
        BY <3>5, <3>6
    <2> QED
      BY <1>1, <1>2, <2>4, <2>5
  <1> QED
    BY <1>5, <1>6, <1>7

\* The end value of the chunk before is got, and added to the last element.
LEMMA AddToLastOK ==
    ASSUME NEW p, NEW i, IsChunk(p, i), FJ!AddToLast(p)
    PROVE  ChunksInv'
  <1>1. UNCHANGED FJ!chosen /\ promise' = promise /\ node[p].st = "wait"
        /\ FJ!Last(p) = i /\ i \in 1 .. blocks /\ (FJ!HasNext(p) <=> i < blocks)
        /\ promise[i - 1] # FJ!None
    BY DEF FJ!AddToLast, FJ!At, IsChunk
  <1>2. Phase(i) = "wait" /\ ChunkOK(i) /\ blocks \in Nat
    BY <1>1, ChunkKnown
  <1>3. i > 1 /\ Partial(i, Top(i)) /\ (i < blocks => promise'[i] = FJ!None)
    BY <1>1, <1>2 DEF ChunkOK, PromiseOK
  <1>4. PICK a \in Int, z \in Int :
            /\ a = Bottom(i) /\ z = Top(i) /\ 0 <= a /\ a < z
            /\ a = Bottom(i)' /\ z = Top(i)'
            /\ node[p].hi = z
            /\ a .. z - 1 \subseteq 0 .. length - 1 /\ DOMAIN cell = 0 .. length - 1
            /\ z - 1 \in a .. z - 1
            /\ \A e : e \in a .. z - 1 <=> e \in 0 .. length - 1 /\ Bottom(i) <= e /\ e < Top(i)
            /\ i > 1 => EndOf(i - 1) = FJ!Value(FJ!UpTo(0, a))
    BY <1>1, ChunkCells
  <1>5. promise[i - 1] = FJ!Exception \/ promise[i - 1] = FJ!Value(FJ!UpTo(0, a))
    <2>1. PICK j \in 1 .. blocks : j = i - 1 /\ j < blocks
      BY <1>1, <1>2, <1>3
    <2>2. PromiseOK(j)
      BY <2>1 DEF IsChunk, ChunksInv, ChunkOK
    <2> QED
      BY <1>1, <1>3, <1>4, <2>1, <2>2 DEF PromiseOK
  <1>6. \/ FJ!Go(p, "fail") /\ UNCHANGED cell
        \/ /\ promise[i - 1] # FJ!Exception
           /\ cell' = FJ!Prefixed(p, {z - 1}, promise[i - 1].of)
           /\ FJ!Go(p, IF FJ!HasNext(p) THEN "set" ELSE "rest")
    BY <1>1, <1>4 DEF FJ!AddToLast
  <1>7. CASE FJ!Go(p, "fail") /\ UNCHANGED cell
    <2>1. Touches(i)
      BY <1>1, <1>7 DEF Touches
    <2> QED
      BY <1>1, <1>3, <1>7, <2>1, ChunkGoes
  <1>8. CASE /\ promise[i - 1] # FJ!Exception
             /\ cell' = FJ!Prefixed(p, {z - 1}, promise[i - 1].of)
             /\ FJ!Go(p, IF FJ!HasNext(p) THEN "set" ELSE "rest")
    <2>1. promise[i - 1].of = FJ!UpTo(0, a)
      BY <1>5, <1>8, ResultsDiffer
    <2>2. cell[z - 1] = FJ!UpTo(a, z)
      <3>1. cell[z - 1] = FJ!UpTo(a, (z - 1) + 1) /\ (z - 1) + 1 = z
        BY <1>3, <1>4 DEF Partial
      <3> QED
        BY <3>1
    <2>3. /\ cell'[z - 1] = FJ!UpTo(0, a) \o cell[z - 1]
          /\ \A e \in 0 .. length - 1 : e # z - 1 => cell'[e] = cell[e]
      <3>1. z - 1 \in DOMAIN cell
        BY <1>4
      <3> QED
        BY <1>4, <1>8, <2>1, <3>1 DEF FJ!Prefixed
    <2>4. LastSum(i)'
      <3>1. cell'[z - 1] = FJ!UpTo(0, z)
        <4>1. 0 \in Int /\ a \in Int /\ z \in Int /\ 0 <= a /\ a <= z
          BY <1>4
        <4>2. FJ!UpTo(0, a) \o FJ!UpTo(a, z) = FJ!UpTo(0, z)
          BY <4>1, UpToJoins
        <4> QED
          BY <2>2, <2>3, <4>2
      <3> QED
        BY <1>4, <3>1 DEF LastSum, FJ!UpTo
    <2>5. Touches(i)
      BY <1>1, <1>4, <2>3 DEF Touches
    <2>6. Partial(i, Top(i) - 1)'
      <3>1. ASSUME NEW e \in a .. (z - 1) - 1 PROVE cell'[e] = FJ!UpTo(a, e + 1)
        <4>1. e \in a .. z - 1 /\ e # z - 1
          BY <1>4
        <4>2. e \in 0 .. length - 1 /\ cell[e] = FJ!UpTo(a, e + 1)
          BY <1>3, <1>4, <4>1 DEF Partial
        <4> QED
          BY <2>3, <4>1, <4>2
      <3> QED
        BY <1>4, <3>1 DEF Partial, FJ!UpTo
    <2>7. Asked(i)'
      BY <1>1, <1>3, <1>4, <1>5, <1>8 DEF Asked, EndOf, Top, Cuts, FJ!Parts, FJ!Halves, FJ!chosen,
                                          FJ!UpTo, FJ!Value
    <2>8. CASE i < blocks
      <3>1. FJ!Go(p, "set")
        BY <1>1, <1>8, <2>8
      <3> QED
        BY <1>1, <1>3, <2>4, <2>5, <2>6, <2>7, <2>8, <3>1, ChunkGoes
    <2>9. CASE ~(i < blocks)
      <3>1. FJ!Go(p, "rest")
        BY <1>1, <1>8, <2>9
      <3> QED
        BY <1>1, <1>3, <2>4, <2>5, <2>6, <2>7, <2>9, <3>1, ChunkGoes
    <2> QED
      BY <2>8, <2>9
  <1> QED
    BY <1>6, <1>7, <1>8

\* Steps that leave the elements, the promises and the chunks alone.
LEMMA ChunksQuiet ==
    ASSUME Tree, ChunksInv, UNCHANGED FJ!chosen, UNCHANGED <<cell, promise>>,
           \A i \in 1 .. blocks :
               /\ Phase(i)' = Phase(i)
               /\ IsKid(FJ!Root, i) =>
                      IsKid(FJ!Root, i)' /\ Kid(FJ!Root, i)'.res = Kid(FJ!Root, i).res
    PROVE  ChunksInv'
  <1>1. list' = list /\ length' = length /\ blocks' = blocks /\ blocks \in Nat
    BY DEF FJ!chosen, Tree, ChosenOK
  <1>2. ASSUME list.does = "prefix", length # 0, NEW i \in 1 .. blocks PROVE ChunkOK(i)'
    BY <1>1, <1>2, ChunksAre, ChunkStays DEF ChunksInv, PromisesStay
  <1> QED
    BY <1>1, <1>2 DEF ChunksInv

\* The promise is set to the last element.
LEMMA SetEndValueOK ==
    ASSUME NEW p, NEW i, IsChunk(p, i), FJ!SetEndValue(p)
    PROVE  ChunksInv'
  <1>1. UNCHANGED FJ!chosen /\ cell' = cell /\ node[p].st = "set"
        /\ FJ!Last(p) = i /\ i \in 1 .. blocks
        /\ promise' = [promise EXCEPT ![i] = FJ!Value(cell[node[p].hi - 1])]
        /\ FJ!Go(p, IF i > 1 THEN "rest" ELSE "end")
        /\ promise = [j \in 0 .. blocks - 1 |-> promise[j]]
    BY DEF FJ!SetEndValue, FJ!At, IsChunk, StoreOK
  <1>2. Phase(i) = "set" /\ ChunkOK(i) /\ blocks \in Nat
    BY <1>1, ChunkKnown
  <1>3. /\ i < blocks /\ promise[i] = FJ!None /\ LastSum(i) /\ (i = 1 => Final(i))
        /\ (i > 1 => Asked(i) /\ Partial(i, Top(i) - 1)) /\ i \in DOMAIN promise
    BY <1>1, <1>2 DEF ChunkOK, PromiseOK
  <1>4. PICK a \in Int, z \in Int :
            /\ a = Bottom(i) /\ z = Top(i) /\ 0 <= a /\ a < z
            /\ a = Bottom(i)' /\ z = Top(i)'
            /\ node[p].hi = z
    BY <1>1, ChunkCells
  <1>5. promise'[i] = EndOf(i) /\ \A j \in 0 .. blocks - 1 : j # i => promise'[j] = promise[j]
    <2>1. cell[node[p].hi - 1] = FJ!UpTo(0, Top(i))
      BY <1>3, <1>4 DEF LastSum
    <2> QED
      BY <1>1, <1>3, <2>1 DEF EndOf
  <1>6. Touches(i)
    BY <1>1, <1>3, <1>5 DEF Touches
  <1>7. Asked(i) => Asked(i)'
    <2>1. i > 1 => i - 1 \in 0 .. blocks - 1 /\ i - 1 # i
      BY <1>1, <1>2
    <2>2. EndOf(i - 1)' = EndOf(i - 1)
      BY <1>1, ChunkKnown
    <2> QED
      BY <1>5, <2>1, <2>2 DEF Asked
  <1>8. LastSum(i)' /\ (i > 1 => Partial(i, Top(i) - 1)') /\ (i = 1 => Final(i)')
    BY <1>1, <1>3, <1>4 DEF LastSum, Partial, Final, FJ!UpTo
  <1>9. CASE i > 1
    <2>1. FJ!Go(p, "rest")
      BY <1>1, <1>9
    <2> QED
      BY <1>1, <1>3, <1>5, <1>6, <1>7, <1>8, <1>9, <2>1, ChunkGoes
  <1>10. CASE i = 1
    <2>1. FJ!Go(p, "end") /\ Asked(i)'
      BY <1>1, <1>10 DEF Asked
    <2> QED
      BY <1>1, <1>5, <1>6, <1>8, <1>10, <2>1, ChunkGoes
  <1> QED
    BY <1>1, <1>9, <1>10

\* It is added to the elements before the last one.
LEMMA AddToRestOK ==
    ASSUME NEW p, NEW i, IsChunk(p, i), FJ!AddToRest(p)
    PROVE  ChunksInv'
  <1>1. UNCHANGED FJ!chosen /\ promise' = promise /\ node[p].st = "rest"
        /\ FJ!Last(p) = i /\ i \in 1 .. blocks
    BY DEF FJ!AddToRest, FJ!At, IsChunk
  <1>2. Phase(i) = "rest" /\ ChunkOK(i) /\ blocks \in Nat
    BY <1>1, ChunkKnown
  <1>3. i > 1 /\ LastSum(i) /\ Asked(i) /\ Partial(i, Top(i) - 1)
    BY <1>2 DEF ChunkOK
  <1>4. PICK a \in Int, z \in Int :
            /\ a = Bottom(i) /\ z = Top(i) /\ 0 <= a /\ a < z
            /\ a = Bottom(i)' /\ z = Top(i)'
            /\ FJ!Span(node[p]) = a .. z - 1 /\ node[p].hi = z
            /\ a .. z - 1 \subseteq 0 .. length - 1 /\ DOMAIN cell = 0 .. length - 1
            /\ z - 1 \in a .. z - 1
            /\ \A e : e \in a .. z - 1 <=> e \in 0 .. length - 1 /\ Bottom(i) <= e /\ e < Top(i)
            /\ i > 1 => EndOf(i - 1) = FJ!Value(FJ!UpTo(0, a))
    BY <1>1, ChunkCells
  <1>5. promise[i - 1].of = FJ!UpTo(0, a)
    BY <1>3, <1>4, ResultsDiffer DEF Asked
  <1>6. i < blocks => promise'[i] \in {FJ!None, FJ!Exception, EndOf(i)}
    BY <1>1, <1>2 DEF ChunkOK, PromiseOK
  <1>7. \/ FJ!Go(p, "fail") /\ UNCHANGED cell
        \/ /\ cell' = FJ!Prefixed(p, (a .. z - 1) \ {z - 1}, promise[i - 1].of)
           /\ FJ!Go(p, "end")
    BY <1>1, <1>4 DEF FJ!AddToRest
  <1>8. CASE FJ!Go(p, "fail") /\ UNCHANGED cell
    <2>1. Touches(i)
      BY <1>1, <1>8 DEF Touches
    <2> QED
      BY <1>1, <1>6, <1>8, <2>1, ChunkGoes
  <1>9. CASE /\ cell' = FJ!Prefixed(p, (a .. z - 1) \ {z - 1}, promise[i - 1].of)
             /\ FJ!Go(p, "end")
    <2>1. \A e \in 0 .. length - 1 :
              cell'[e] = IF e \in (a .. z - 1) \ {z - 1} THEN FJ!UpTo(0, a) \o cell[e] ELSE cell[e]
      BY <1>4, <1>5, <1>9 DEF FJ!Prefixed
    <2>2. Touches(i)
      BY <1>1, <1>4, <2>1 DEF Touches
    <2>3. ASSUME NEW e \in a .. z - 1 PROVE cell'[e] = FJ!UpTo(0, e + 1)
      <3>1. e \in 0 .. length - 1 /\ e \in Int
        BY <1>4
      <3>2. CASE e = z - 1
        <4>1. cell'[e] = cell[e] /\ e + 1 = z
          BY <1>4, <2>1, <3>1, <3>2
        <4>2. cell[e] = FJ!UpTo(0, z)
          BY <1>3, <1>4, <3>2 DEF LastSum
        <4> QED
          BY <4>1, <4>2
      <3>3. CASE e # z - 1
        <4>1. cell'[e] = FJ!UpTo(0, a) \o cell[e]
          BY <2>1, <3>1, <3>3
        <4>2. e \in a .. (z - 1) - 1
          BY <1>4, <3>3
        <4>3. cell[e] = FJ!UpTo(a, e + 1)
          BY <1>3, <1>4, <4>2 DEF Partial
        <4>4. 0 \in Int /\ a \in Int /\ e + 1 \in Int /\ 0 <= a /\ a <= e + 1
          BY <1>4, <4>2
        <4>5. FJ!UpTo(0, a) \o FJ!UpTo(a, e + 1) = FJ!UpTo(0, e + 1)
          BY <4>4, UpToJoins
        <4> QED
          BY <4>1, <4>3, <4>5
      <3> QED
        BY <3>2, <3>3
    <2>4. Final(i)'
      BY <1>4, <2>3 DEF Final, FJ!UpTo
    <2>5. Asked(i)'
      <3>1. EndOf(i - 1)' = EndOf(i - 1)
        BY <1>1, ChunkKnown
      <3> QED
        BY <1>1, <1>3, <3>1 DEF Asked
    <2> QED
      BY <1>1, <1>6, <1>9, <2>2, <2>4, <2>5, ChunkGoes
  <1> QED
    BY <1>7, <1>8, <1>9

\* The chunk returns, or its handler passes the exception on.
LEMMA EndChunkOK ==
    ASSUME NEW p, NEW i, IsChunk(p, i), FJ!EndChunk(p) \/ FJ!Fail(p)
    PROVE  ChunksInv'
  <1>1. UNCHANGED FJ!chosen /\ cell' = cell /\ node[p].st \in {"end", "fail"}
        /\ FJ!Last(p) = i /\ i \in 1 .. blocks
        /\ promise = [j \in 0 .. blocks - 1 |-> promise[j]]
        /\ (FJ!HasNext(p) <=> i < blocks) /\ (node[p].by = "thread" <=> i < blocks)
    BY DEF FJ!EndChunk, FJ!Fail, FJ!At, FJ!shared, IsChunk, StoreOK
  <1>2. /\ Phase(i) = node[p].st /\ ChunkOK(i) /\ blocks \in Nat /\ ~list.task
        /\ Bottom(i)' = Bottom(i) /\ Top(i)' = Top(i) /\ EndOf(i - 1)' = EndOf(i - 1)
    BY <1>1, ChunkKnown
  <1>3. i < blocks => promise[i] \in {FJ!None, FJ!Exception, EndOf(i)} /\ i \in DOMAIN promise
    BY <1>1, <1>2 DEF ChunkOK, PromiseOK
  <1>4. CASE FJ!EndChunk(p)
    <2>1. PICK r : r = FJ!Value(<<>>)
      OBVIOUS
    <2>2. FJ!Return(p, r) /\ promise' = promise /\ node[p].st = "end"
      BY <1>4, <2>1 DEF FJ!EndChunk, FJ!shared, FJ!At
    <2>3. Touches(i)
      BY <1>1, <2>2 DEF Touches
    <2>4. Final(i)' /\ Asked(i)'
      BY <1>1, <1>2, <2>2 DEF ChunkOK, Final, Asked, FJ!UpTo
    <2> QED
      BY <1>1, <1>3, <2>1, <2>2, <2>3, <2>4, ChunkEnds
  <1>5. CASE FJ!Fail(p)
    <2>1. CASE i < blocks /\ promise[i] = FJ!None
      <3>1. PICK r : r = FJ!Value(<<>>)
        OBVIOUS
      <3>2. FJ!Return(p, r) /\ promise' = [promise EXCEPT ![i] = FJ!Exception]
        BY <1>1, <1>5, <2>1, <3>1 DEF FJ!Fail
      <3>3. /\ promise'[i] = FJ!Exception
            /\ \A j \in 0 .. blocks - 1 : j # i => promise'[j] = promise[j]
        BY <1>1, <1>3, <2>1, <3>2
      <3>4. Touches(i)
        BY <1>1, <2>1, <3>3 DEF Touches
      <3> QED
        BY <1>1, <2>1, <3>1, <3>2, <3>3, <3>4, ChunkEnds
    <2>2. CASE i < blocks /\ promise[i] # FJ!None
      <3>1. UNCHANGED node /\ promise' = promise
        BY <1>1, <1>2, <1>5, <2>2 DEF FJ!Fail, FJ!Throw
      <3> QED
        BY <1>1, <3>1, ChunksQuiet DEF IsChunk, Phase, IsKid, Kid
    <2>3. CASE ~(i < blocks)
      <3>1. PICK r : r = FJ!Exception
        OBVIOUS
      <3>2. FJ!Return(p, r) /\ promise' = promise
        BY <1>1, <1>2, <1>5, <2>3, <3>1 DEF FJ!Fail, FJ!Throw
      <3>3. Touches(i)
        BY <1>1, <3>2 DEF Touches
      <3> QED
        BY <1>1, <2>3, <3>1, <3>2, <3>3, ChunkEnds
    <2> QED
      BY <2>1, <2>2, <2>3
  <1> QED
    BY <1>4, <1>5

\* A step of a chunk is one of these.
LEMMA ChunkSteps ==
    ASSUME NEW p, NEW i, IsChunk(p, i), FJ!NodeStep(p)
    PROVE  \/ FJ!SumChunk(p) \/ FJ!AddToLast(p) \/ FJ!SetEndValue(p) \/ FJ!AddToRest(p)
           \/ FJ!EndChunk(p) \/ FJ!Fail(p)
  <1>1. /\ p # FJ!Root /\ p \in DOMAIN node /\ Tree /\ list.does = "prefix"
        /\ ~FJ!Halves /\ UNCHANGED FJ!chosen
    BY CutsAre, StepIs, PathFacts DEF IsChunk, Tree, PlaceOK
  <1>2. Phase(i) = node[p].st /\ ChunkOK(i)
    BY <1>1, ChunkKnown
  <1>3. node[p].st \in {"leaf", "wait", "set", "rest", "end", "fail", "ended"}
    BY <1>2 DEF ChunkOK
  <1> QED
    BY <1>1, <1>3 DEF FJ!NodeStep, FJ!Fork, FJ!ForkFails, FJ!CallInline, FJ!Accumulate,
       FJ!ForEach, FJ!GiveUp, FJ!NextElement, FJ!Decide, FJ!SetFlag, FJ!DecideAsync, FJ!Looking,
       FJ!ThreadExits, FJ!OwnPartDone, FJ!Join, FJ!GetPart, FJ!AllGot, FJ!Gets, FJ!NothingToGet,
       FJ!TestFlag, FJ!Choose, FJ!Depart, FJ!At

\* A step of the call itself leaves the chunks, and what they share, as they are.
LEMMA CallLeavesChunks ==
    ASSUME Tree, DieInv, list.does = "prefix", length # 0, FJ!NodeStep(FJ!Root)
    PROVE  /\ UNCHANGED <<cell, promise>>
           /\ \A i \in 1 .. blocks :
                  /\ Phase(i)' = Phase(i)
                  /\ IsKid(FJ!Root, i) =>
                         IsKid(FJ!Root, i)' /\ Kid(FJ!Root, i)'.res = Kid(FJ!Root, i).res
  <1>1. /\ ~FJ!Halves /\ FJ!Root \in Seq(Nat) /\ FJ!Root \in DOMAIN node /\ PlaceOK(FJ!Root)
        /\ blocks \in Nat
    BY CutsAre DEF Tree, PlaceOK
  <1>2. ~FJ!IsLeaf(FJ!Root, node[FJ!Root].lo, node[FJ!Root].hi)
    BY <1>1 DEF PlaceOK, FJ!IsLeaf
  <1>3. node[FJ!Root].st \notin LeafSts
    BY <1>1, <1>2 DEF PlaceOK
  <1>4. UNCHANGED <<cell, promise>>
    <2>1. ~LeafSteps(FJ!Root)
      BY <1>3 DEF LeafSteps, LeafSts, FJ!Accumulate, FJ!ForEach, FJ!GiveUp, FJ!NextElement,
             FJ!Decide, FJ!SetFlag, FJ!DecideAsync, FJ!Looking, FJ!SumChunk, FJ!AddToLast,
             FJ!SetEndValue, FJ!AddToRest, FJ!EndChunk, FJ!Fail, FJ!At
    <2>2. Settles(FJ!Root) => UNCHANGED <<cell, promise>>
      BY DEF Settles, FJ!AllGot, FJ!NothingToGet, FJ!TestFlag, FJ!Choose, FJ!shared
    <2> QED
      BY <1>1, <2>1, <2>2, InnerQuiet
  <1>5. \A i \in 1 .. blocks : Append(FJ!Root, i) # FJ!Root
    BY <1>1, PathFacts
  <1>6. CASE Kept(FJ!Root)
    <2>1. \A i \in 1 .. blocks :
              /\ IsKid(FJ!Root, i)' <=> IsKid(FJ!Root, i)
              /\ IsKid(FJ!Root, i) => Kid(FJ!Root, i)' = Kid(FJ!Root, i)
      BY <1>5, <1>6 DEF Kept, IsKid, Kid
    <2> QED
      BY <1>4, <2>1 DEF Phase
  <1>7. CASE node[FJ!Root].st = "fork" /\ \E i \in Nat : \E by : Born(FJ!Root, i, by)
    <2>1. PICK k \in Nat : \E by : Born(FJ!Root, k, by)
      BY <1>7
    <2>2. PICK q : q = Append(FJ!Root, k)
      OBVIOUS
    <2>3. /\ DOMAIN node' = DOMAIN node \cup {q} /\ q \notin DOMAIN node
          /\ \A c \in DOMAIN node : c # FJ!Root => node'[c] = node[c]
          /\ node'[q].st = "leaf"
      <3>1. /\ DOMAIN node' = DOMAIN node \cup {q} /\ q \notin DOMAIN node
            /\ \A c \in DOMAIN node : c # FJ!Root => node'[c] = node[c]
            /\ \A lo, hi : FJ!IsLeaf(q, lo, hi)
        BY <1>1, <2>1, <2>2, PathFacts DEF Born, IsKid, FJ!IsLeaf
      <3> QED
        BY <2>1, <2>2, <3>1 DEF Born, Kid
    <2>4. ASSUME NEW i \in 1 .. blocks
          PROVE  /\ Phase(i)' = Phase(i)
                 /\ IsKid(FJ!Root, i) =>
                        IsKid(FJ!Root, i)' /\ Kid(FJ!Root, i)'.res = Kid(FJ!Root, i).res
      <3>1. CASE IsKid(FJ!Root, i)
        BY <1>5, <2>3, <3>1 DEF IsKid, Kid, Phase
      <3>2. CASE ~IsKid(FJ!Root, i)
        BY <2>3, <3>2 DEF IsKid, Kid, Phase
      <3> QED
        BY <3>1, <3>2
    <2> QED
      BY <1>4, <2>4
  <1> QED
    BY <1>1, <1>6, <1>7, StepIs

\* Every step keeps what the chunks are.
LEMMA NodeStepChunks ==
    ASSUME Tree, DieInv, StoreOK, ChunksInv, NEW p \in DOMAIN node, FJ!NodeStep(p)
    PROVE  ChunksInv'
  <1>1. UNCHANGED FJ!chosen /\ list' = list /\ length' = length
    BY StepIs DEF FJ!chosen
  <1> SUFFICES ASSUME list.does = "prefix", length # 0 PROVE ChunksInv'
    BY <1>1 DEF ChunksInv
  <1>2. CASE p # FJ!Root
    <2>1. PICK i \in 1 .. blocks : IsChunk(p, i)
      BY <1>2, ChunkIs
    <2> QED
      BY <2>1, ChunkSteps, SumChunkOK, AddToLastOK, SetEndValueOK, AddToRestOK, EndChunkOK
  <1>3. CASE p = FJ!Root
    BY <1>1, <1>3, CallLeavesChunks, ChunksQuiet
  <1> QED
    BY <1>2, <1>3

-----------------------------------------------------------------------------
(* ForkJoin: what a call returns.                                        *)

\* At first there is the call, which has found, collected and added nothing yet.
Fresh(n) ==
    /\ n.st \in {"leaf", "fork"} /\ n.k = 0 /\ n.res = FJ!None
    /\ n.lo = 0 /\ n.hi = length
FirstState ==
    /\ Tree /\ DOMAIN node = {FJ!Root} /\ Fresh(node[FJ!Root]) /\ length \in Nat /\ blocks \in Nat
    /\ \A e \in 0 .. length - 1 : cell[e] = <<e>>
    /\ \A i \in 0 .. blocks - 1 : promise[i] = FJ!None
    /\ StoreOK /\ done = FALSE /\ \A i \in Nat : ~IsKid(FJ!Root, i)

\* That is what the initial state says.
LEMMA InitIsFirst == ASSUME FJ!Init PROVE FirstState
  <1>1. Tree /\ DOMAIN node = {FJ!Root}
    BY InitTree DEF FJ!Init
  <1>2. length \in Nat /\ blocks \in Nat
    BY <1>1 DEF Tree, ChosenOK
  <1>3. PICK n : n = FJ!NewNode(FJ!Root, 0, length, "caller", <<"init">>)
    OBVIOUS
  <1>4. node[FJ!Root] = n
    BY <1>3 DEF FJ!Init
  <1>5. Fresh(n)
    BY <1>3 DEF FJ!NewNode, Fresh
  <1>6. /\ \A e \in 0 .. length - 1 : cell[e] = <<e>>
        /\ \A i \in 0 .. blocks - 1 : promise[i] = FJ!None
        /\ StoreOK /\ done = FALSE
    BY DEF FJ!Init, StoreOK
  <1>7. \A i \in Nat : ~IsKid(FJ!Root, i)
    BY <1>1, PathFacts DEF IsKid, FJ!Root
  <1> QED
    BY <1>1, <1>2, <1>4, <1>5, <1>6, <1>7 DEF FirstState

\* Nothing has been found or collected then, and no sum is there.
LEMMA FirstFound == ASSUME FirstState PROVE FoundInv /\ CollectInv /\ SumsInv
  <1>1. /\ Fresh(node[FJ!Root]) /\ length \in Nat /\ ~HasRes(node[FJ!Root])
        /\ DOMAIN node = {FJ!Root} /\ ChosenOK
    BY DEF FirstState, Fresh, HasRes, Tree
  <1>2. FoundOK(FJ!Root)
    BY <1>1 DEF FoundOK, Fresh, Plain
  <1>3. ~FJ!Halves => 0 \in 0 .. blocks - 1
    BY <1>1 DEF ChosenOK
  <1>4. FlagOK
    BY <1>3 DEF FlagOK, FirstState
  <1>5. CollectOK(FJ!Root)
    BY <1>1 DEF CollectOK, Fresh, Whole
  <1>6. SumOK(FJ!Root)
    BY <1>1 DEF SumOK
  <1> QED
    BY <1>1, <1>2, <1>4, <1>5, <1>6 DEF FoundInv, CollectInv, SumsInv

\* No element has been touched, and no chunk has been started.
LEMMA FirstCells == ASSUME FirstState PROVE EachInv /\ ChunksInv
  <1>1. /\ ~HasRes(node[FJ!Root]) /\ DOMAIN node = {FJ!Root}
        /\ \A e \in 0 .. length - 1 : cell[e] = <<e>>
        /\ length \in Nat /\ blocks \in Nat /\ Tree
    BY DEF FirstState, Fresh, HasRes
  <1>2. EachInv
    BY <1>1 DEF EachInv, EachOK, Ran
  <1>3. ASSUME list.does = "prefix", length # 0, NEW i \in 1 .. blocks PROVE ChunkOK(i)
    <2>1. ChunkFacts(i)
      BY <1>1, <1>3, ChunksAre
    <2>2. Phase(i) = "leaf"
      BY <1>1, <1>3 DEF Phase, FirstState
    <2>3. Raw(i)
      <3>1. PICK a, z : a = Bottom(i) /\ z = Top(i)
        OBVIOUS
      <3>2. a \in Int /\ z \in Int /\ 0 <= a /\ z <= length
        BY <2>1, <3>1 DEF ChunkFacts
      <3>3. a .. z - 1 \subseteq 0 .. length - 1
        BY <1>1, <3>2
      <3> QED
        BY <1>1, <3>1, <3>3 DEF Raw
    <2>4. i < blocks => PromiseOK(i)
      BY <1>1, <2>2 DEF PromiseOK, FirstState
    <2> QED
      BY <2>2, <2>3, <2>4 DEF ChunkOK
  <1> QED
    BY <1>2, <1>3 DEF ChunksInv

\* All that is known of the way to the result.
SeqInv == Parcels /\ StoreOK /\ FoundInv /\ CollectInv /\ SumsInv /\ EachInv /\ ChunksInv

\* A step that changes nothing keeps it.
LEMMA SeqStays ==
    ASSUME Tree, SeqInv, UNCHANGED forkVars
    PROVE  SeqInv'
  <1>1. /\ UNCHANGED FJ!chosen /\ UNCHANGED <<cell, promise, done, node>>
        /\ list' = list /\ length' = length /\ blocks' = blocks /\ outcome' = outcome
    BY DEF forkVars, FJ!chosen
  <1>2. Parcels'
    BY <1>1, ParcelsStay DEF SeqInv
  <1>3. StoreOK'
    BY <1>1 DEF SeqInv, StoreOK
  <1>4. FoundInv'
    <2> SUFFICES ASSUME list.does = "find" PROVE FoundInv'
      BY <1>1 DEF FoundInv
    <2>1. FlagsStay /\ FlagOK /\ \A q \in DOMAIN node : FoundOK(q)
      BY <1>1 DEF FlagsStay, SeqInv, FoundInv
    <2>2. \A q \in DOMAIN node : FoundOK(q)'
      BY <1>1, <2>1, FoundStays
    <2>3. FlagOK'
      BY <1>1, <2>1, FlagStays
    <2> QED
      BY <1>1, <2>2, <2>3 DEF FoundInv
  <1>5. CollectInv'
    <2>1. Lasts
      BY <1>1 DEF Lasts
    <2>2. \A q \in DOMAIN node : CollectOK(q) /\ node'[q] = node[q]
      BY <1>1 DEF SeqInv, CollectInv
    <2>3. \A q \in DOMAIN node : CollectOK(q)'
      BY <2>1, <2>2, CollectStays
    <2> QED
      BY <1>1, <2>3 DEF CollectInv
  <1>6. SumsInv'
    <2>1. \A q \in DOMAIN node : SumOK(q) /\ node'[q] = node[q]
      BY <1>1 DEF SeqInv, SumsInv
    <2>2. \A q \in DOMAIN node : SumOK(q)'
      BY <1>1, <2>1, SumStays
    <2> QED
      BY <1>1, <2>2 DEF SumsInv
  <1>7. EachInv'
    <2> SUFFICES ASSUME list.does = "each", NEW q \in DOMAIN node, NEW e \in 0 .. length - 1,
                        Belongs(q, e)'
                 PROVE  EachOK(q, e)'
      BY <1>1 DEF EachInv
    <2>1. Belongs(q, e)
      BY <1>1, BelongsStays
    <2>2. EachOK(q, e)
      BY <2>1 DEF SeqInv, EachInv
    <2> QED
      BY <1>1, <2>2, EachStays
  <1>8. ChunksInv'
    BY <1>1, ChunksQuiet DEF SeqInv, Phase, IsKid, Kid
  <1> QED
    BY <1>2, <1>3, <1>4, <1>5, <1>6, <1>7, <1>8 DEF SeqInv

\* Every step of an activation keeps it.
LEMMA NodeStepSeq ==
    ASSUME Tree, DieInv, SeqInv, NEW p \in DOMAIN node, FJ!NodeStep(p)
    PROVE  SeqInv'
  <1>1. FJ!Next
    BY DEF FJ!Next
  <1>2. Parcels /\ StoreOK /\ FoundInv /\ CollectInv /\ SumsInv /\ EachInv /\ ChunksInv
    BY DEF SeqInv
  <1>3. Parcels' /\ StoreOK' /\ FoundInv' /\ CollectInv'
    BY <1>1, <1>2, NodeStepParcels, StoreStays, NodeStepFound, NodeStepCollect
  <1>4. SumsInv' /\ EachInv' /\ ChunksInv'
    BY <1>2, NodeStepSums, NodeStepEach, NodeStepChunks
  <1> QED
    BY <1>3, <1>4 DEF SeqInv

\* It holds in every state of every algorithm.
LEMMA SeqInvariance == FairParts => []SeqInv
  <1>1. InitParts => SeqInv
    <2> SUFFICES ASSUME FJ!Init PROVE SeqInv
      BY DEF InitParts
    <2>1. FirstState /\ Parcels
      BY InitIsFirst, InitParcels
    <2>2. StoreOK
      BY <2>1 DEF FirstState
    <2> QED
      BY <2>1, <2>2, FirstFound, FirstCells DEF SeqInv
  <1>2. ASSUME Tree, DieInv, SeqInv, [(\E i \in Indices : PairwiseStep(i)) \/ ForkStep]_partVars
        PROVE  SeqInv'
    <2>1. CASE UNCHANGED forkVars
      BY <1>2, <2>1, SeqStays
    <2>2. CASE ForkStep
      <3>1. PICK p \in DOMAIN node : FJ!NodeStep(p)
        BY <2>2 DEF ForkStep, FJ!Next
      <3> QED
        BY <1>2, <3>1, NodeStepSeq
    <2> QED
      BY <1>2, <2>1, <2>2 DEF PairwiseStep, partVars
  <1> QED
    BY <1>1, <1>2, TreeInvariance, DieInvariance, PTL DEF FairParts

\* A call that returns a good result has got one from every part, down to the leaves.
LEMMA AllGood ==
    ASSUME Tree, SeqInv, FJ!Over, Good(node[FJ!Root]), Gathers \/ (list.does = "find" /\ FJ!Halves)
    PROVE  \A p \in DOMAIN node :
               /\ Done(node[p]) /\ Good(node[p])
               /\ ~FJ!IsLeaf(p, node[p].lo, node[p].hi) => \A i \in 1 .. Others + 1 : IsKid(p, i)
  <1> DEFINE S == {p \in DOMAIN node : Done(node[p]) /\ Good(node[p])}
  <1>1. FJ!Root \in S
    BY DEF FJ!Over, FJ!Ended, Done, Tree
  <1>2. ASSUME NEW p \in DOMAIN node, Done(node[p]), Good(node[p]),
               ~FJ!IsLeaf(p, node[p].lo, node[p].hi)
        PROVE  \A i \in 1 .. Others + 1 : Given(p, i)
    BY <1>2 DEF SeqInv, CollectInv, CollectOK, Whole, Gathered, HasRes, Done
  <1>3. ASSUME NEW p \in DOMAIN node, NEW i \in Nat, p \in S, IsKid(p, i)
        PROVE  Append(p, i) \in S
    <2>1. ~FJ!IsLeaf(p, node[p].lo, node[p].hi) /\ i \in 1 .. Others + 1
      BY <1>3 DEF Tree, KidOK, BornOK
    <2>2. Given(p, i)
      BY <1>2, <1>3, <2>1
    <2> QED
      BY <2>2 DEF Given, IsKid, Kid
  <1> HIDE DEF S
  <1>4. DOMAIN node \subseteq S
    BY <1>1, <1>3, TreeInduction
  <1> QED
    BY <1>2, <1>4 DEF S, Given

\* Every element has been in the range of a leaf that has come to a good end.
LEMMA LeafOfElement ==
    ASSUME Tree, SeqInv, FJ!Over, Good(node[FJ!Root]), Gathers \/ (list.does = "find" /\ FJ!Halves),
           NEW e \in 0 .. length - 1
    PROVE  \E p \in DOMAIN node :
               /\ FJ!IsLeaf(p, node[p].lo, node[p].hi) /\ Belongs(p, e) /\ InSpan(node[p], e)
               /\ HasRes(node[p]) /\ Good(node[p])
  <1>1. PICK p \in DOMAIN node : Belongs(p, e)
    BY DEF SeqInv, Parcels, Owned
  <1>2. FJ!IsLeaf(p, node[p].lo, node[p].hi)
    BY <1>1, AllGood DEF Belongs, Unborn
  <1>3. Done(node[p]) /\ Good(node[p])
    BY AllGood
  <1> QED
    BY <1>1, <1>2, <1>3 DEF Belongs, Done, HasRes

\* The sum of a call that returns is that of the elements in their order, from init.
LEMMA SumIsSequential ==
    ASSUME Tree, SeqInv, FJ!Returned, list.does = "sum"
    PROVE  /\ FJ!Result = <<"init">> \o FJ!UpTo(0, length)
           /\ FJ!Throwing(node[FJ!Root]) = {}
  <1>1. /\ FJ!Root \in DOMAIN node /\ HasRes(node[FJ!Root]) /\ Good(node[FJ!Root])
        /\ node[FJ!Root].lo = 0 /\ node[FJ!Root].hi = length /\ node[FJ!Root].init = <<"init">>
    BY DEF Tree, PlaceOK, FJ!Returned, FJ!Over, FJ!Ended, HasRes, Good
  <1>2. /\ node[FJ!Root].res = FJ!Value(<<"init">> \o FJ!UpTo(0, length))
        /\ \A e \in 0 .. length - 1 : outcome[e] # "throws"
    <2>1. SumOK(FJ!Root)
      BY <1>1 DEF SeqInv, SumsInv
    <2> QED
      BY <1>1, <2>1 DEF SumOK
  <1> QED
    BY <1>1, <1>2, ResultsDiffer DEF FJ!Result, FJ!Throwing, FJ!Span

\* f has been applied to every element once, and did not throw.
LEMMA EachIsSequential ==
    ASSUME Tree, SeqInv, FJ!Returned, list.does = "each", NEW e \in 0 .. length - 1
    PROVE  cell[e] = <<e, "f">> /\ outcome[e] # "throws"
  <1>1. FJ!Over /\ Good(node[FJ!Root]) /\ Gathers
    BY DEF FJ!Returned, Good, Gathers
  <1>2. PICK p \in DOMAIN node :
            /\ FJ!IsLeaf(p, node[p].lo, node[p].hi) /\ Belongs(p, e)
            /\ HasRes(node[p]) /\ Good(node[p])
    BY <1>1, LeafOfElement
  <1>3. EachOK(p, e)
    BY <1>2 DEF SeqInv, EachInv
  <1> QED
    BY <1>2, <1>3 DEF EachOK, Ran, Good

\* The chunks of a call that returns have been started, and have ended.
LEMMA ChunksEnd ==
    ASSUME Tree, SeqInv, FJ!Returned, list.does = "prefix", length # 0
    PROVE  /\ \A i \in 1 .. blocks : IsKid(FJ!Root, i) /\ Phase(i) = "ended"
           /\ Kid(FJ!Root, blocks).res # FJ!Exception
  <1>1. ~FJ!Halves /\ Others + 1 = blocks /\ blocks \in Nat \ {0} /\ length \in Nat
    BY CutsAre
  <1>2. /\ FJ!Root \in DOMAIN node /\ HasRes(node[FJ!Root]) /\ Good(node[FJ!Root])
        /\ node[FJ!Root].lo = 0 /\ node[FJ!Root].hi = length /\ FJ!Over
    BY DEF Tree, PlaceOK, FJ!Returned, FJ!Over, FJ!Ended, HasRes, Good
  <1>3. Whole(FJ!Root)
    BY <1>1, <1>2 DEF Whole, FJ!IsLeaf
  <1>4. Gathered(FJ!Root)
    BY <1>2, <1>3 DEF SeqInv, CollectInv, CollectOK
  <1>5. Given(FJ!Root, blocks) /\ \A i \in 1 .. Others : IsKid(FJ!Root, i)
    BY <1>1, <1>4 DEF Gathered
  <1>6. ASSUME NEW i \in 1 .. blocks PROVE IsKid(FJ!Root, i) /\ Phase(i) = "ended"
    <2>1. IsKid(FJ!Root, i)
      <3>1. i \in 1 .. Others \/ i = blocks
        <4>1. PICK n : n = Others
          OBVIOUS
        <4>2. n + 1 = blocks /\ n \in Int /\ i \in 1 .. blocks
          BY <1>1, <4>1 DEF Others
        <4>3. i \in 1 .. n \/ i = blocks
          BY ONLY <4>2
        <4> QED
          BY <4>1, <4>3
      <3> QED
        BY <1>5, <3>1 DEF Given
    <2>2. Kid(FJ!Root, i).by # "deferred"
      BY <1>1, <1>2, <2>1, KidsAre
    <2>3. Quiet(Kid(FJ!Root, i))
      BY <1>2, <2>1, AllSettle DEF IsKid, Kid
    <2> QED
      BY <2>1, <2>2, <2>3 DEF Quiet, Phase
  <1> QED
    BY <1>5, <1>6 DEF Given, Good

\* No chunk has failed: the last one has not, and the others have given their end values.
LEMMA PrefixIsSequential ==
    ASSUME Tree, SeqInv, FJ!Returned, list.does = "prefix", NEW e \in 0 .. length - 1
    PROVE  cell[e] = FJ!UpTo(0, e + 1)
  <1>1. length # 0 /\ blocks \in Nat \ {0} /\ length \in Nat /\ Splits(Cuts, blocks, 0, length)
    BY CutsAre
  <1>2. ASSUME NEW i \in 1 .. blocks
        PROVE  /\ ChunkOK(i) /\ IsKid(FJ!Root, i) /\ Phase(i) = "ended"
    BY <1>1, ChunksEnd DEF SeqInv, ChunksInv
  <1> DEFINE G(i) == Final(i) /\ Asked(i)
             D == {d \in Nat : d < blocks => G(blocks - d)}
  <1>3. 0 \in D
    <2>1. blocks \in 1 .. blocks /\ blocks - 0 = blocks /\ ~(blocks < blocks)
      BY <1>1
    <2>2. ~Failed(blocks)
      BY <1>1, <2>1, ChunksEnd DEF Failed
    <2> QED
      BY <1>2, <2>1, <2>2 DEF ChunkOK
  <1>4. ASSUME NEW d \in Nat, d \in D PROVE d + 1 \in D
    <2> SUFFICES ASSUME d + 1 < blocks PROVE G(blocks - (d + 1))
      OBVIOUS
    <2>1. PICK i : i = blocks - (d + 1)
      OBVIOUS
    <2>2. i \in 1 .. blocks /\ i < blocks /\ i + 1 = blocks - d /\ i + 1 > 1 /\ d < blocks
          /\ (i + 1) - 1 = i
      BY <1>1, <2>1
    <2>3. Asked(i + 1)
      BY <1>4, <2>2
    <2>4. promise[i] = EndOf(i)
      BY <2>2, <2>3 DEF Asked
    <2>5. promise[i] # FJ!Exception
      BY <2>4, ResultsDiffer DEF EndOf
    <2>6. Kid(FJ!Root, i).res # FJ!Exception
      BY <1>2, <2>2, ResultsDiffer DEF ChunkOK, PromiseOK
    <2>7. ~Failed(i)
      BY <2>5, <2>6 DEF Failed
    <2>8. G(i)
      BY <1>2, <2>2, <2>7 DEF ChunkOK
    <2> QED
      BY <2>1, <2>8
  <1>5. \A d \in Nat : d \in D
    <2> HIDE DEF D
    <2> QED
      BY <1>3, <1>4, Induction
  <1>6. PICK i \in 1 .. blocks : Bottom(i) <= e /\ e < Top(i)
    BY <1>1 DEF Splits, Bottom, Top
  <1>7. Final(i)
    <2>1. PICK d \in Nat : blocks - d = i /\ d < blocks
      <3>1. i \in Int /\ blocks \in Int /\ 1 <= i /\ i <= blocks
        BY <1>1, <1>6
      <3>2. blocks - i \in Nat /\ blocks - (blocks - i) = i /\ blocks - i < blocks
        BY ONLY <3>1
      <3> QED
        BY ONLY <3>2
    <2> QED
      BY <1>5, <2>1
  <1>8. PICK a, z : a = Bottom(i) /\ z = Top(i)
    OBVIOUS
  <1>9. a \in Int /\ z \in Int /\ e \in a .. z - 1
    BY <1>1, <1>6, <1>8, ChunksAre DEF ChunkFacts
  <1> QED
    BY <1>7, <1>8, <1>9 DEF Final

\* What is found matches; list 8.10 reports nothing missing that is there.
LEMMA FindIsSequential ==
    ASSUME Tree, SeqInv, FJ!Returned, list.does = "find"
    PROVE  IF FJ!Result < length THEN outcome[FJ!Result] = "match"
           ELSE FJ!Halves => \A e \in 0 .. length - 1 : outcome[e] = "plain"
  <1>1. /\ FJ!Root \in DOMAIN node /\ HasRes(node[FJ!Root]) /\ FJ!Over /\ length \in Nat
        /\ node[FJ!Root].lo = 0 /\ node[FJ!Root].hi = length
        /\ node[FJ!Root].res # FJ!Exception
    BY DEF Tree, PlaceOK, ChosenOK, FJ!Returned, FJ!Over, FJ!Ended, HasRes
  <1>2. /\ \A p \in DOMAIN node : FoundOK(p)
        /\ FlagOK
    BY DEF SeqInv, FoundInv
  <1>3. FoundRes(FJ!Root, node[FJ!Root])
    BY <1>1, <1>2 DEF FoundOK
  <1>4. PICK v \in 0 .. length : /\ node[FJ!Root].res = FJ!Value(v)
                                 /\ v < length => outcome[v] = "match"
    BY <1>1, <1>3 DEF FoundRes
  <1>5. FJ!Result = v
    BY <1>4, ResultsDiffer DEF FJ!Result
  <1>6. ASSUME v = length, FJ!Halves, NEW e \in 0 .. length - 1 PROVE outcome[e] = "plain"
    <2>1. Good(node[FJ!Root])
      BY <1>1, <1>4, <1>6 DEF Good
    <2>2. done # TRUE
      <3>1. \A p \in DOMAIN node : node[p].res = FJ!Value(node[p].hi)
        BY <1>1, <1>6, <2>1, AllGood DEF Good
      <3> QED
        BY <1>2, <1>6, <3>1 DEF FlagOK
    <2>3. PICK p \in DOMAIN node :
              /\ FJ!IsLeaf(p, node[p].lo, node[p].hi) /\ InSpan(node[p], e)
              /\ HasRes(node[p]) /\ Good(node[p])
      BY <1>1, <1>6, <2>1, LeafOfElement
    <2>4. Plain(node[p].lo, node[p].hi)
      BY <1>2, <2>2, <2>3 DEF FoundOK, Good
    <2>5. node[p].lo \in Int /\ node[p].hi \in Int
      BY RangesOK DEF RangeOK
    <2> QED
      BY <2>3, <2>4, <2>5 DEF Plain, InSpan
  <1> QED
    BY <1>1, <1>4, <1>5, <1>6

\* Whatever the length of the range, the number of blocks, the elements that throw or
\* match and the schedule: a sum that is returned is made from init and the elements in
\* their order, and a for_each that returns has applied f once to each, both without
\* losing an exception; a partial_sum that returns has completed every prefix sum; an
\* element that a find returns matches, and list 8.10 says that there is none only if no
\* element matches or throws.  Nothing is said of list 8.9's answer that there is none,
\* which may be wrong, nor of what throws while a match is found elsewhere.
THEOREM ResultIsSequential == FairParts => []ReturnsTheSequentialResult
  <1>1. ASSUME Tree, SeqInv PROVE ReturnsTheSequentialResult
    <2> SUFFICES ASSUME FJ!Returned PROVE ReturnsTheSequentialResult
      BY DEF ReturnsTheSequentialResult, FJ!ReturnsTheSequentialResult
    <2>1. list.does \in {"sum", "each", "find", "prefix"}
      BY <1>1, ListFacts DEF ListOK
    <2>2. CASE list.does = "sum"
      BY <1>1, <2>2, SumIsSequential
      DEF ReturnsTheSequentialResult, FJ!ReturnsTheSequentialResult
    <2>3. CASE list.does = "each"
      BY <1>1, <2>3, EachIsSequential
      DEF ReturnsTheSequentialResult, FJ!ReturnsTheSequentialResult, FJ!Elements
    <2>4. CASE list.does = "prefix"
      BY <1>1, <2>4, PrefixIsSequential
      DEF ReturnsTheSequentialResult, FJ!ReturnsTheSequentialResult, FJ!Elements
    <2>5. CASE list.does = "find"
      BY <1>1, <2>5, FindIsSequential
      DEF ReturnsTheSequentialResult, FJ!ReturnsTheSequentialResult, FJ!Elements
    <2> QED
      BY <2>1, <2>2, <2>3, <2>4, <2>5
  <1> QED
    BY <1>1, TreeInvariance, SeqInvariance, PTL

-----------------------------------------------------------------------------
(* ForkJoin: until a call is over, somebody can go on.                   *)

\* Parts are started in turn, and the tree has a depth.
GrowthInv ==
    /\ \A p \in DOMAIN node, i \in Nat : i > 1 /\ IsKid(p, i) => IsKid(p, i - 1)
    /\ \E d \in Nat : \A p \in DOMAIN node : Len(p) <= d

\* A chunk of list 8.11 has set its end value, or an exception, before it ends.
PastSet(i)  == i \in 1 .. blocks - 1 /\ Phase(i) \in {"rest", "end", "ended"}
PromisedInv == list.does = "prefix" => \A i \in Nat : PastSet(i) => promise[i] # FJ!None

\* At first there is the call alone.
LEMMA FirstGrowth == ASSUME FirstState PROVE GrowthInv /\ PromisedInv
  <1>1. DOMAIN node = {FJ!Root} /\ Len(FJ!Root) <= 0 /\ \A i \in Nat : ~IsKid(FJ!Root, i)
    BY DEF FirstState, FJ!Root
  <1> QED
    BY <1>1 DEF GrowthInv, PromisedInv, PastSet, Phase

\* A step starts at most the next part.
LEMMA NodeStepGrowth ==
    ASSUME Tree, GrowthInv, NEW p \in DOMAIN node, FJ!NodeStep(p)
    PROVE  GrowthInv'
  <1>1. CASE Kept(p)
    BY <1>1 DEF Kept, GrowthInv, IsKid
  <1>2. CASE node[p].st = "fork" /\ \E i \in Nat : \E by : Born(p, i, by)
    <2>1. PICK i \in Nat : \E by : Born(p, i, by)
      BY <1>2
    <2>2. PICK q : q = Append(p, i)
      OBVIOUS
    <2>3. DOMAIN node' = DOMAIN node \cup {q} /\ q \notin DOMAIN node /\ i = node[p].k + 1
      BY <2>1, <2>2 DEF Born, IsKid
    <2>4. \A r \in DOMAIN node : r \in Seq(Nat) /\ Len(r) \in Nat
      BY DEF Tree, PlaceOK
    <2>5. q \in Seq(Nat) /\ Len(q) = Len(p) + 1
      BY <2>2, <2>4, PathFacts
    <2>6. ASSUME NEW r \in DOMAIN node', NEW j \in Nat, j > 1, Append(r, j) \in DOMAIN node'
          PROVE  Append(r, j - 1) \in DOMAIN node'
      <3>1. CASE r \in DOMAIN node /\ Append(r, j) \in DOMAIN node
        BY <2>3, <2>6, <3>1 DEF GrowthInv, IsKid
      <3>2. CASE Append(r, j) = q
        <4>1. r = p /\ j = i
          BY <2>2, <2>3, <2>4, <2>5, <3>2, PathFacts
        <4>2. IsNode(node[p]) /\ \A h \in 1 .. node[p].k : IsKid(p, h)
          BY <1>2 DEF Tree, PlaceOK
        <4>3. j - 1 \in 1 .. node[p].k
          BY <2>3, <2>6, <4>1, <4>2 DEF IsNode
        <4> QED
          BY <2>3, <4>1, <4>2, <4>3 DEF IsKid
      <3>3. CASE r = q /\ Append(r, j) \in DOMAIN node
        <4>1. Append(q, j) # FJ!Root
          BY <2>5, PathFacts
        <4>2. PICK c \in DOMAIN node : \E h \in 1 .. Others + 1 : Append(q, j) = Append(c, h)
          BY <3>3, <4>1 DEF Tree, PlaceOK
        <4>3. Others + 1 \in Nat
          BY ForksAre DEF Tree
        <4>4. q = c
          BY <2>4, <2>5, <4>2, <4>3, PathFacts
        <4> QED
          BY <2>3, <4>4
      <3> QED
        BY <2>3, <2>6, <3>1, <3>2, <3>3
    <2>7. PICK d \in Nat : \A r \in DOMAIN node : Len(r) <= d
      BY DEF GrowthInv
    <2>8. d + 1 \in Nat /\ \A r \in DOMAIN node' : Len(r) <= d + 1
      BY <2>3, <2>4, <2>5, <2>7
    <2> QED
      BY <2>6, <2>8 DEF GrowthInv, IsKid
  <1> QED
    BY <1>1, <1>2, StepIs

\* A chunk keeps to it: only the last one, which has no end value, comes to its end
\* without setting it.
LEMMA ChunkPromises ==
    ASSUME NEW p, NEW i, IsChunk(p, i), FJ!NodeStep(p), PromisedInv
    PROVE  PromisedInv'
  <1>1. /\ Tree /\ StoreOK /\ list.does = "prefix" /\ i \in 1 .. blocks /\ p \in DOMAIN node
        /\ FJ!Last(p) = i /\ (FJ!HasNext(p) <=> i < blocks) /\ p = Append(FJ!Root, i)
        /\ (node[p].by = "thread" <=> i < blocks)
    BY DEF IsChunk
  <1>2. UNCHANGED FJ!chosen
    BY <1>1, StepIs
  <1>3. /\ Phase(i) = node[p].st /\ IsNode(node[p]) /\ ~list.task /\ ChunkOK(i)
        /\ list' = list /\ blocks' = blocks /\ blocks \in Nat /\ i \in Nat
    BY <1>1, <1>2, ChunkKnown DEF ChunkFacts
  <1>4. promise = [j \in 0 .. blocks - 1 |-> promise[j]] /\ (i < blocks => i \in DOMAIN promise)
    BY <1>1, <1>3 DEF StoreOK
  <1>5. \A j \in 1 .. blocks - 1 : j # i => promise'[j] = promise[j]
    <2>1. promise' = promise \/ \E v : promise' = [promise EXCEPT ![i] = v]
      BY <1>1, ChunkSteps DEF FJ!SumChunk, FJ!AddToLast, FJ!SetEndValue, FJ!AddToRest,
         FJ!EndChunk, FJ!Fail, FJ!shared
    <2>2. \A j \in 1 .. blocks - 1 : j \in 0 .. blocks - 1
      BY <1>3
    <2> QED
      BY <1>4, <2>1, <2>2
  <1>6. ASSUME NEW t \in Sts, FJ!Go(p, t) PROVE Moved(p) /\ Phase(i)' = t
    <2>1. Moved(p) /\ node'[p].st = t
      BY <1>1, <1>3, <1>6, GoMoves DEF To
    <2> QED
      BY <1>1, <2>1 DEF Moved, Phase, IsKid, Kid
  <1>7. ASSUME NEW r, FJ!Return(p, r) PROVE Moved(p) /\ Phase(i)' = "ended"
    <2>1. Moved(p) /\ node'[p].st = "ended"
      BY <1>1, <1>3, <1>7, ReturnMoves DEF To, Gone
    <2> QED
      BY <1>1, <2>1 DEF Moved, Phase, IsKid, Kid
  <1>8. /\ Moved(p) \/ UNCHANGED node
        /\ i < blocks /\ Phase(i)' \in {"rest", "end", "ended"} =>
               \/ promise'[i] # FJ!None
               \/ promise'[i] = promise[i] /\ Phase(i) \in {"rest", "end"}
    <2> USE DEF Sts, LeafSts
    <2>1. CASE FJ!SumChunk(p)
      <3>1. \/ FJ!Go(p, "fail") \/ FJ!Go(p, "wait") \/ FJ!Go(p, "set")
            \/ FJ!Go(p, "end") /\ ~FJ!HasNext(p)
        BY <2>1 DEF FJ!SumChunk
      <3> QED
        BY <1>1, <1>6, <3>1
    <2>2. CASE FJ!AddToLast(p)
      <3>1. \/ FJ!Go(p, "fail") \/ FJ!Go(p, "set")
            \/ FJ!Go(p, "rest") /\ ~FJ!HasNext(p)
        BY <2>2 DEF FJ!AddToLast
      <3> QED
        BY <1>1, <1>6, <3>1
    <2>3. CASE FJ!SetEndValue(p)
      <3>1. /\ FJ!Go(p, "rest") \/ FJ!Go(p, "end")
            /\ promise' = [promise EXCEPT ![i] = FJ!Value(cell[node[p].hi - 1])]
        BY <1>1, <2>3 DEF FJ!SetEndValue
      <3>2. i < blocks => promise'[i] # FJ!None
        BY <1>4, <3>1, ResultsDiffer
      <3> QED
        BY <1>6, <3>1, <3>2
    <2>4. CASE FJ!AddToRest(p)
      <3>1. /\ FJ!Go(p, "fail") \/ FJ!Go(p, "end")
            /\ promise' = promise /\ Phase(i) = "rest"
        BY <1>3, <2>4 DEF FJ!AddToRest, FJ!At
      <3> QED
        BY <1>6, <3>1
    <2>5. CASE FJ!EndChunk(p)
      <3>1. (\E r : FJ!Return(p, r)) /\ promise' = promise /\ Phase(i) = "end"
        BY <1>3, <2>5 DEF FJ!EndChunk, FJ!At, FJ!shared
      <3> QED
        BY <1>7, <3>1
    <2>6. CASE FJ!Fail(p)
      <3>1. CASE i < blocks /\ promise[i] = FJ!None
        <4>1. (\E r : FJ!Return(p, r)) /\ promise' = [promise EXCEPT ![i] = FJ!Exception]
          BY <1>1, <2>6, <3>1 DEF FJ!Fail
        <4>2. promise'[i] # FJ!None
          BY <1>4, <3>1, <4>1, ResultsDiffer
        <4> QED
          BY <1>7, <4>1, <4>2
      <3>2. CASE i < blocks /\ promise[i] # FJ!None
        <4>1. UNCHANGED node /\ promise' = promise
          BY <1>1, <1>3, <2>6, <3>2 DEF FJ!Fail, FJ!Throw
        <4> QED
          BY <3>2, <4>1
      <3>3. CASE ~(i < blocks)
        <4>1. \E r : FJ!Return(p, r)
          BY <1>1, <1>3, <2>6, <3>3 DEF FJ!Fail, FJ!Throw
        <4> QED
          BY <1>7, <3>3, <4>1
      <3> QED
        BY <3>1, <3>2, <3>3
    <2> QED
      BY ChunkSteps, <2>1, <2>2, <2>3, <2>4, <2>5, <2>6
  <1> SUFFICES ASSUME NEW j \in Nat, PastSet(j)' PROVE promise'[j] # FJ!None
    BY <1>3 DEF PromisedInv
  <1>9. j \in 1 .. blocks - 1 /\ j \in 1 .. blocks /\ Phase(j)' \in {"rest", "end", "ended"}
    BY <1>3 DEF PastSet
  <1>10. CASE j = i
    BY <1>1, <1>3, <1>8, <1>9, <1>10 DEF PromisedInv, PastSet
  <1>11. CASE j # i
    <2>1. Phase(j)' = Phase(j)
      <3>1. CASE Moved(p)
        BY <1>9, <1>11, <3>1, OtherChunks
      <3>2. CASE UNCHANGED node
        BY <3>2 DEF Phase, IsKid, Kid
      <3> QED
        BY <1>8, <3>1, <3>2
    <2> QED
      BY <1>1, <1>5, <1>9, <1>11, <2>1 DEF PromisedInv, PastSet
  <1> QED
    BY <1>10, <1>11

\* Every step keeps to it.
LEMMA NodeStepPromises ==
    ASSUME Tree, DieInv, SeqInv, PromisedInv, NEW p \in DOMAIN node, FJ!NodeStep(p)
    PROVE  PromisedInv'
  <1>1. UNCHANGED FJ!chosen /\ list' = list /\ length' = length /\ blocks' = blocks
    BY StepIs DEF FJ!chosen
  <1> SUFFICES ASSUME list.does = "prefix" PROVE PromisedInv'
    BY <1>1 DEF PromisedInv
  <1>2. CASE p # FJ!Root
    <2>1. PICK i \in 1 .. blocks : IsChunk(p, i)
      BY <1>2, ChunkIs DEF SeqInv
    <2> QED
      BY <2>1, ChunkPromises
  <1>3. CASE p = FJ!Root /\ length # 0
    <2>1. promise' = promise /\ \A i \in 1 .. blocks : Phase(i)' = Phase(i)
      BY <1>3, CallLeavesChunks
    <2>2. \A i \in Nat : PastSet(i)' => PastSet(i)
      BY <1>1, <2>1 DEF PastSet, Tree, ChosenOK
    <2> QED
      BY <2>1, <2>2 DEF PromisedInv
  <1>4. CASE length = 0
    <2>1. ChosenOK /\ ListOK(list)
      BY ListFacts DEF Tree
    <2>2. blocks = 1
      BY <1>4, <2>1 DEF ChosenOK, ListOK, FJ!Halves
    <2> QED
      BY <1>1, <2>2 DEF PromisedInv, PastSet
  <1> QED
    BY <1>2, <1>3, <1>4

\* An activation on its way has a step to take, waits for an end value, or waits for a
\* part that is on its way: its own, a thread's, or the deferred one that it runs now.
LEMMA GoesOrHasPart ==
    ASSUME Tree, CollectInv, NEW p \in DOMAIN node, Moving(p), node[p].st # "wait"
    PROVE  FJ!CanGo(p) \/ \E i \in Nat : IsKid(p, i) /\ Moving(Append(p, i))
  <1>1. PlaceOK(p) /\ p \in Seq(Nat) /\ node[p].st \in Sts \ {"ended", "wait"} /\ node[p].k \in Nat
    BY DEF Tree, PlaceOK, IsNode, Moving
  <1>2. node[p].by = "deferred" => FJ!InGet(FJ!Front(p), FJ!Last(p))
    <2> SUFFICES ASSUME node[p].by = "deferred" PROVE FJ!InGet(FJ!Front(p), FJ!Last(p))
      OBVIOUS
    <2>1. PICK r \in DOMAIN node : \E i \in 1 .. Others + 1 : p = Append(r, i)
      BY <1>1 DEF PlaceOK
    <2>2. PICK i \in 1 .. Others + 1 : p = Append(r, i)
      BY <2>1
    <2>3. i \in Nat /\ r \in Seq(Nat)
      BY ForksAre DEF Tree, PlaceOK
    <2> QED
      BY <2>2, <2>3, PathFacts DEF Moving
  <1>3. ASSUME NEW i \in Nat, IsKid(p, i), Kid(p, i).st # "ended",
               Kid(p, i).by = "deferred" => FJ!InGet(p, i)
        PROVE  Moving(Append(p, i))
    <2>1. \A r \in DOMAIN node : \A j \in Nat : Append(p, i) = Append(r, j) => r = p /\ j = i
      BY <1>1, PathFacts DEF Tree, PlaceOK
    <2> QED
      BY <1>3, <2>1 DEF Moving, IsKid, Kid
  <1>4. ASSUME NEW q \in FJ!KidThreads(p), ~FJ!Ended(q)
        PROVE  \E i \in Nat : IsKid(p, i) /\ Moving(Append(p, i))
    <2>1. q \in DOMAIN node /\ q # FJ!Root /\ FJ!Front(q) = p /\ node[q].by = "thread"
          /\ node[q].st # "ended"
      BY <1>4 DEF FJ!KidThreads, FJ!Kids, FJ!Ended
    <2>2. PICK i \in Nat : q = Append(p, i)
      BY <2>1, PathSplits DEF Tree, PlaceOK
    <2>3. IsKid(p, i) /\ Kid(p, i) = node[q]
      BY <2>1, <2>2 DEF IsKid, Kid
    <2> QED
      BY <1>3, <2>1, <2>3
  <1>5. CASE node[p].st = "own"
    <2>1. FJ!InlineKid(p) = Append(p, Others + 1) /\ IsKid(p, Others + 1) /\ Others + 1 \in Nat
      BY <1>5, InlineKidIs
    <2>2. Kid(p, Others + 1).by = "inline"
      BY <2>1, KidsAre
    <2>3. CASE Kid(p, Others + 1).st = "ended"
      BY <1>2, <1>5, <2>1, <2>3 DEF FJ!CanGo, FJ!Ended, Kid
    <2>4. CASE Kid(p, Others + 1).st # "ended"
      BY <1>3, <2>1, <2>2, <2>4
    <2> QED
      BY <2>3, <2>4
  <1>6. CASE node[p].st \in {"join", "leave"}
    BY <1>2, <1>4, <1>6 DEF FJ!CanGo
  <1>7. CASE node[p].st = "get"
    <2>1. /\ FJ!Forks(node[p]) = Others /\ Others \in Nat /\ \A i \in 1 .. Others + 1 : IsKid(p, i)
      BY <1>7, InlineKidIs, ForksAre DEF Tree
    <2>2. \A i : FJ!Told(p, i) <=> Kid(p, i).st \in {"ready", "ended"}
      BY DEF FJ!Told, FJ!Kid, Kid
    <2>3. CASE Gathers
      <3>1. node[p].k <= Others /\ list.does # "find"
        BY <1>7, <2>3 DEF CollectInv, CollectOK, Gathers
      <3>2. CASE node[p].k = Others
        BY <1>2, <1>7, <2>1, <3>1, <3>2 DEF FJ!CanGo
      <3>3. CASE node[p].k < Others
        <4>1. PICK i \in 1 .. Others + 1 : i = node[p].k + 1 /\ i \in Nat
          BY <1>1, <2>1, <3>3
        <4>2. FJ!InGet(p, i)
          BY <1>7, <3>1, <4>1 DEF FJ!InGet
        <4>3. CASE FJ!Told(p, i)
          BY <1>2, <1>7, <2>1, <3>1, <3>3, <4>1, <4>3 DEF FJ!CanGo
        <4>4. CASE ~FJ!Told(p, i)
          BY <1>3, <2>1, <2>2, <4>1, <4>2, <4>4
        <4> QED
          BY <4>3, <4>4
      <3> QED
        BY <1>1, <2>1, <3>1, <3>2, <3>3
    <2>4. CASE list.does = "find" /\ FJ!Halves /\ FJ!InGet(p, 1)
      <3>1. IsKid(p, 1) /\ 1 \in Nat
        BY <2>1
      <3>2. CASE FJ!Told(p, 1)
        BY <1>2, <1>7, <2>4, <3>2 DEF FJ!CanGo
      <3>3. CASE ~FJ!Told(p, 1)
        BY <1>3, <2>2, <2>4, <3>1, <3>3
      <3> QED
        BY <3>2, <3>3
    <2>5. CASE ~Gathers /\ ~(list.does = "find" /\ FJ!Halves /\ FJ!InGet(p, 1))
      BY <1>2, <1>7, <2>5 DEF FJ!CanGo, Gathers
    <2> QED
      BY <2>3, <2>4, <2>5
  <1>8. CASE node[p].st \notin {"own", "join", "leave", "get"}
    BY <1>1, <1>2, <1>8 DEF FJ!CanGo, Sts, LeafSts
  <1> QED
    BY <1>5, <1>6, <1>7, <1>8

\* If a chunk waits for the end value of the one before it, somebody can go on: the
\* first chunk does not wait, and each has set its end value by the time it ends.
LEMMA WaiterGoesOn ==
    ASSUME Tree, DieInv, SeqInv, GrowthInv, PromisedInv,
           NEW p \in DOMAIN node, node[p].st = "wait"
    PROVE  \E q \in DOMAIN node : FJ!CanGo(q)
  <1>1. p # FJ!Root /\ list.does = "prefix"
    BY DEF DieInv, StageOK, ChunkSts
  <1>2. PICK c \in 1 .. blocks : IsChunk(p, c)
    BY <1>1, ChunkIs DEF SeqInv
  <1>3. /\ length # 0 /\ p = Append(FJ!Root, c) /\ IsKid(FJ!Root, c) /\ Phase(c) = "wait"
        /\ c \in Nat
    BY <1>2 DEF IsChunk, IsKid, Kid, Phase, Tree, ChosenOK
  <1>4. /\ ~FJ!Halves /\ Others + 1 = blocks /\ blocks \in Nat
        /\ FJ!Root \in DOMAIN node /\ FJ!Root \in Seq(Nat)
    BY <1>1, <1>3, CutsAre DEF Tree, PlaceOK
  <1> DEFINE Someone == \E q \in DOMAIN node : FJ!CanGo(q)
             D == {i \in Nat : i \in 1 .. blocks /\ IsKid(FJ!Root, i) /\ Phase(i) = "wait" => Someone}
  <1>5. 0 \in D
    OBVIOUS
  <1>6. ASSUME NEW n \in Nat, n \in D PROVE n + 1 \in D
    <2> SUFFICES ASSUME n + 1 \in 1 .. blocks, IsKid(FJ!Root, n + 1), Phase(n + 1) = "wait"
                 PROVE  Someone
      OBVIOUS
    <2>1. PICK i \in 1 .. blocks : i = n + 1 /\ i \in Nat
      OBVIOUS
    <2>2. i > 1
      BY <1>1, <1>3, <2>1 DEF SeqInv, ChunksInv, ChunkOK
    <2>3. n \in 1 .. blocks /\ n < blocks /\ n \in 1 .. blocks - 1 /\ i - 1 = n
      BY <1>4, <2>1, <2>2
    <2>4. IsKid(FJ!Root, n)
      BY <1>4, <2>1, <2>2, <2>3 DEF GrowthInv
    <2>5. Kid(FJ!Root, n).by # "deferred" /\ Kid(FJ!Root, i).by # "deferred"
      BY <1>4, <2>1, <2>4, KidsAre
    <2>6. CASE promise[n] # FJ!None
      <3>1. PICK q \in DOMAIN node : q = Append(FJ!Root, i)
        BY <2>1 DEF IsKid
      <3>2. FJ!Last(q) = i /\ node[q].st = "wait" /\ node[q].by # "deferred"
        BY <1>4, <2>1, <2>5, <3>1, PathFacts DEF Phase, Kid
      <3>3. FJ!CanGo(q)
        BY <2>3, <2>6, <3>2 DEF FJ!CanGo
      <3> QED
        BY <3>3
    <2>7. CASE promise[n] = FJ!None
      <3>1. ~PastSet(n)
        BY <1>1, <2>7 DEF PromisedInv
      <3>2. Phase(n) \in {"leaf", "wait", "set", "fail"}
        BY <1>1, <1>3, <2>3, <3>1 DEF PastSet, SeqInv, ChunksInv, ChunkOK
      <3>3. CASE Phase(n) = "wait"
        BY <1>6, <2>3, <2>4, <3>3
      <3>4. CASE Phase(n) \in {"leaf", "set", "fail"}
        <4>1. PICK q \in DOMAIN node : q = Append(FJ!Root, n)
          BY <2>4 DEF IsKid
        <4>2. node[q].st \in {"leaf", "set", "fail"} /\ node[q].by # "deferred"
          BY <2>4, <2>5, <3>4, <4>1 DEF Phase, Kid
        <4> QED
          BY <4>2 DEF FJ!CanGo
      <3> QED
        BY <3>2, <3>3, <3>4
    <2> QED
      BY <2>6, <2>7
  <1>7. \A n \in Nat : n \in D
    <2> HIDE DEF D
    <2> QED
      BY <1>5, <1>6, Induction
  <1> QED
    BY <1>3, <1>7

\* From the call down the tree: an activation that cannot go on has a part on its way,
\* and the tree has a depth.
LEMMA SomebodyGoes ==
    ASSUME Tree, DieInv, SeqInv, GrowthInv, PromisedInv, ~FJ!Over
    PROVE  \E p \in DOMAIN node : FJ!CanGo(p)
  <1> SUFFICES ASSUME \A p \in DOMAIN node : ~FJ!CanGo(p) PROVE FALSE
    OBVIOUS
  <1>1. \A p \in DOMAIN node : p \in Seq(Nat) /\ Len(p) \in Nat /\ node[p].st # "wait"
    BY WaiterGoesOn DEF Tree, PlaceOK
  <1> DEFINE E == {n \in Nat : \E p \in DOMAIN node : Moving(p) /\ Len(p) = n}
  <1>2. 0 \in E
    <2>1. /\ FJ!Root \in DOMAIN node /\ node[FJ!Root].by = "caller" /\ node[FJ!Root].st # "ended"
          /\ Len(FJ!Root) = 0
      BY DEF Tree, PlaceOK, FJ!Over, FJ!Ended, FJ!Root
    <2> QED
      BY <2>1 DEF Moving
  <1>3. ASSUME NEW n \in Nat, n \in E PROVE n + 1 \in E
    <2>1. PICK p \in DOMAIN node : Moving(p) /\ Len(p) = n
      BY <1>3
    <2>2. PICK i \in Nat : IsKid(p, i) /\ Moving(Append(p, i))
      BY <1>1, <2>1, GoesOrHasPart DEF SeqInv
    <2>3. PICK q \in DOMAIN node : q = Append(p, i)
      BY <2>2 DEF IsKid
    <2>4. Len(q) = n + 1 /\ Moving(q)
      BY <1>1, <2>1, <2>2, <2>3, PathFacts
    <2> QED
      BY <2>4
  <1>4. \A n \in Nat : n \in E
    <2> HIDE DEF E
    <2> QED
      BY <1>2, <1>3, Induction
  <1>5. PICK d \in Nat : \A p \in DOMAIN node : Len(p) <= d
    BY DEF GrowthInv
  <1>6. d + 1 \in E
    BY <1>4
  <1> QED
    BY <1>5, <1>6

\* No call of the ten algorithms is ever stuck, whatever the length of the range, the
\* number of blocks, what is deferred or thrown, and the schedule: until it is over or
\* std::terminate has been called, some thread can go on.
THEOREM CallsGoOn == FairParts => []FJ!CallGoesOn
  <1>1. InitParts => GrowthInv /\ PromisedInv
    BY InitIsFirst, FirstGrowth DEF InitParts
  <1>2. ASSUME Tree, DieInv, SeqInv, GrowthInv /\ PromisedInv,
               [(\E i \in Indices : PairwiseStep(i)) \/ ForkStep]_partVars
        PROVE  (GrowthInv /\ PromisedInv)'
    <2>1. CASE UNCHANGED forkVars
      BY <1>2, <2>1 DEF forkVars, GrowthInv, PromisedInv, PastSet, Phase, IsKid, Kid
    <2>2. CASE ForkStep
      <3>1. PICK p \in DOMAIN node : FJ!NodeStep(p)
        BY <2>2 DEF ForkStep, FJ!Next
      <3> QED
        BY <1>2, <3>1, NodeStepGrowth, NodeStepPromises
    <2> QED
      BY <1>2, <2>1, <2>2 DEF PairwiseStep, partVars
  <1>3. Tree /\ DieInv /\ SeqInv /\ GrowthInv /\ PromisedInv => FJ!CallGoesOn
    BY SomebodyGoes DEF FJ!CallGoesOn
  <1> QED
    BY <1>1, <1>2, <1>3, TreeInvariance, DieInvariance, SeqInvariance, PTL DEF FairParts
=============================================================================
