------------------------- MODULE PairwisePartialSum -------------------------
(**************************************************************************)
(* parallel_partial_sum of list 8.13 in                                   *)
(* src/Chapter8-DesigingConcurrentCode/DesigingConcurrentCode.h: one      *)
(* thread per element, in step with the others by means of a Barrier.  In *)
(* step s thread i adds the value 2^s places before its own; even steps   *)
(* read the elements and write buffer, odd steps the other way round.     *)
(*                                                                        *)
(* The two reads and the write of a step are steps of their own, so that  *)
(* what the barrier does and does not order can be seen.                  *)
(**************************************************************************)
EXTENDS Barrier, Sequences, FiniteSetsExt

CONSTANT Input                       \* the range to sum, a sequence

Length  == Len(Input)
Indices == 0 .. Length - 1

ASSUME InputAssumption ==
    /\ Input \in Seq(Nat) /\ Length > 1     \* length <= 1 returns at once
    /\ Threads = Indices

VARIABLES element,   \* *(first + i)
          buffer,
          at,        \* where each process_element is, between its calls of b
          step,      \* its loop counter
          sum        \* source + addend, computed and not yet stored

sumVars == <<element, buffer, at, step, sum>>
allVars == <<vars, sumVars>>

InitSum ==
    /\ Init
    /\ element = [i \in Indices |-> Input[i + 1]]
    /\ buffer = [i \in Indices |-> 0]
    /\ at = [i \in Indices |-> "loop"]
    /\ step = [i \in Indices |-> 0]
    /\ sum = [i \in Indices |-> 0]

\* stride in each step: 1 at first, and doubled after every step.
StrideIn[s \in Nat] == IF s = 0 THEN 1 ELSE 2 * StrideIn[s - 1]

Stride(i)  == StrideIn[step[i]]
OddStep(i) == step[i] % 2 = 1
MoveTo(i, l) == at' = [at EXCEPT ![i] = l]

\* Thread i runs its own code and not the barrier's.
Runs(i, l) == pc[i] = "work" /\ at[i] = l

\* The loop condition holds: read source and addend.
ReadOperands(i) ==
    /\ Runs(i, "loop") /\ Stride(i) <= i
    /\ sum' = [sum EXCEPT ![i] = IF OddStep(i)
                                 THEN buffer[i] + buffer[i - Stride(i)]
                                 ELSE element[i] + element[i - Stride(i)]]
    /\ MoveTo(i, "store")
    /\ UNCHANGED <<vars, element, buffer, step>>

\* dest = source + addend
StoreSum(i) ==
    /\ Runs(i, "store")
    /\ IF OddStep(i)
       THEN element' = [element EXCEPT ![i] = sum[i]] /\ UNCHANGED buffer
       ELSE buffer' = [buffer EXCEPT ![i] = sum[i]] /\ UNCHANGED element
    /\ MoveTo(i, "wait")
    /\ UNCHANGED <<vars, step, sum>>

\* Mutant of CallBarrier: the loop goes on without waiting.
SkipBarrier(i) ==
    /\ Runs(i, "wait")
    /\ step' = [step EXCEPT ![i] = @ + 1]
    /\ MoveTo(i, "loop")
    /\ UNCHANGED <<vars, element, buffer, sum>>

\* b.wait(), and ++step once it returns.
CallBarrier(i) ==
    /\ Runs(i, "wait")
    /\ CallWait(i)
    /\ step' = [step EXCEPT ![i] = @ + 1]
    /\ MoveTo(i, "loop")
    /\ UNCHANGED <<element, buffer, sum>>

\* The loop is over; update_source says that the last step was an even one.
CopyBack(i) ==
    /\ Runs(i, "loop") /\ Stride(i) > i
    /\ element' = IF step[i] > 0 /\ OddStep(i)
                  THEN [element EXCEPT ![i] = buffer[i]] ELSE element
    /\ MoveTo(i, "done")
    /\ UNCHANGED <<vars, buffer, step, sum>>

\* b.done_waiting()
CallDone(i) ==
    /\ Runs(i, "done")
    /\ Resign(i)
    /\ UNCHANGED sumVars

\* The barrier's own steps.
BarrierStep(i) == Inside(i) /\ UNCHANGED sumVars

ThreadStep(i) == \/ ReadOperands(i) \/ StoreSum(i) \/ CallBarrier(i)
                 \/ CopyBack(i) \/ CallDone(i) \/ BarrierStep(i)

NextSum == \E i \in Indices : ThreadStep(i)

SpecSum == InitSum /\ [][NextSum]_allVars

\* Every thread is run; the spinning ones cannot keep the others from it.
FairSpecSum == SpecSum /\ \A i \in Indices : WF_allVars(ThreadStep(i))

-----------------------------------------------------------------------------
(* The memory each thread is about to read and to write, as cells.       *)

Elem(i) == <<"element", i>>
Buff(i) == <<"buffer", i>>

Reads(i) ==
    CASE Runs(i, "loop") /\ Stride(i) <= i ->
           IF OddStep(i) THEN {Buff(i), Buff(i - Stride(i))}
                         ELSE {Elem(i), Elem(i - Stride(i))}
      [] Runs(i, "loop") /\ Stride(i) > i /\ step[i] > 0 /\ OddStep(i) -> {Buff(i)}
      [] OTHER -> {}

Writes(i) ==
    CASE Runs(i, "store") -> IF OddStep(i) THEN {Elem(i)} ELSE {Buff(i)}
      [] Runs(i, "loop") /\ Stride(i) > i /\ step[i] > 0 /\ OddStep(i) -> {Elem(i)}
      [] OTHER -> {}

(***************************************************************************)
(* The barrier separates every write of an element or of buffer from every *)
(* access of another thread to the same cell, the copy that a thread makes *)
(* after its last wait included.                                           *)
(***************************************************************************)
NoDataRace ==
    \A i, j \in Indices : i # j => Writes(i) \cap (Reads(j) \cup Writes(j)) = {}

Finished == \A i \in Indices : pc[i] = "gone"

\* The sum of the first i + 1 elements of the input.
Prefix(i) == MapThenSumSet(LAMBDA k : Input[k + 1], 0 .. i)

(***************************************************************************)
(* The threads as one would run them by hand: all of them do step s, and   *)
(* those that step s was the last of copy their result back, before any of *)
(* them does step s + 1.                                                   *)
(***************************************************************************)
AllDoStep(s, m) ==
    LET d    == StrideIn[s]
        even == s % 2 = 0
    IN  [element |-> [i \in Indices |->
            CASE ~even /\ d <= i -> m.buffer[i] + m.buffer[i - d]
              [] even /\ d <= i /\ 2 * d > i -> m.element[i] + m.element[i - d]
              [] OTHER -> m.element[i]],
         buffer |-> [i \in Indices |->
            IF even /\ d <= i THEN m.element[i] + m.element[i - d] ELSE m.buffer[i]]]

\* The memory before step s.
Lockstep[s \in Nat] ==
    IF s = 0
    THEN [element |-> [i \in Indices |-> Input[i + 1]],
          buffer  |-> [i \in Indices |-> 0]]
    ELSE AllDoStep(s - 1, Lockstep[s - 1])

(**************************************************************************)
(* The result does not depend on the schedule: when all threads are       *)
(* through, the elements are those of the threads run in lockstep.  (That *)
(* these are not the partial sums is the finding of ComputesPartialSums.) *)
(**************************************************************************)
SameInEverySchedule == Finished => element = Lockstep[Length].element

(*************************************************************************)
(* "A parallel implementation of partial_sum by pairwise updates": once  *)
(* all threads are through, element i holds the sum of elements 0 to i.  *)
(*************************************************************************)
ComputesPartialSums == Finished => \A i \in Indices : element[i] = Prefix(i)

\* All threads get through their steps and the function returns.
Terminates == <>Finished
=============================================================================
