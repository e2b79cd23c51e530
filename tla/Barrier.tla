------------------------------ MODULE Barrier ------------------------------
(***************************************************************************)
(* The barrier of list 8.12 (and, word for word, of list 8.13) in          *)
(* src/Chapter8-DesigingConcurrentCode/DesigingConcurrentCode.h: a barrier *)
(* made of three atomics, reusable, from which a thread may resign with    *)
(* done_waiting.  Every operation on an atomic is a step of its own.       *)
(*                                                                         *)
(* The callers are arbitrary: between two calls a thread works, and then   *)
(* it waits again or resigns.  generation is an unsigned and wraps: it     *)
(* counts modulo Modulus, 2^32 in the code.                                *)
(***************************************************************************)
EXTENDS Integers, FiniteSets

CONSTANTS Threads,     \* the threads the barrier was constructed for
          Modulus,     \* generation counts modulo this
          MaxWaits     \* bound: waits of one thread

ASSUME ThreadsAssumption == IsFiniteSet(Threads) /\ Threads # {}
ASSUME ModulusAssumption == Modulus \in Nat /\ Modulus > 1

VARIABLES count, spaces, generation,   \* the atomics of the class
          pc,          \* where each thread is
          my_gen,      \* wait's local my_generation, of each thread
          loaded,      \* what each thread's last count.load() returned
          resigned,    \* the threads that have reduced count
          arrivals,    \* history: the waits each thread has arrived at
          epoch        \* history: the times the barrier has opened

vars == <<count, spaces, generation, pc, my_gen, loaded, resigned, arrivals, epoch>>

\* Where a thread is: at work between two calls, in wait, in done_waiting, in
\* the branch that the last to arrive takes in either ("opening"), or gone.
InWait  == {"read", "arrive", "spin"}
InDone  == {"leave"}
Opening == {"load", "store", "open"}
PCs     == {"work", "gone"} \cup InWait \cup InDone \cup Opening

Init ==
    /\ count = Cardinality(Threads)
    /\ spaces = Cardinality(Threads)
    /\ generation = 0
    /\ pc = [t \in Threads |-> "work"]
    /\ my_gen = [t \in Threads |-> 0]
    /\ loaded = [t \in Threads |-> 0]
    /\ resigned = {}
    /\ arrivals = [t \in Threads |-> 0]
    /\ epoch = 0

Goto(t, l) == pc' = [pc EXCEPT ![t] = l]

\* Where a call returns to.
Return(t) == Goto(t, IF t \in resigned THEN "gone" ELSE "work")

\* A thread calls wait.
CallWait(t) ==
    /\ pc[t] = "work"
    /\ arrivals[t] < MaxWaits
    /\ Goto(t, "read")
    /\ UNCHANGED <<count, spaces, generation, my_gen, loaded, resigned, arrivals, epoch>>

\* unsigned const my_generation = generation
ReadGeneration(t) ==
    /\ pc[t] = "read"
    /\ my_gen' = [my_gen EXCEPT ![t] = generation]
    /\ Goto(t, "arrive")
    /\ UNCHANGED <<count, spaces, generation, loaded, resigned, arrivals, epoch>>

\* --spaces, and the branch on its result.
TakeSpace(t, other) ==
    /\ spaces' = spaces - 1
    /\ Goto(t, IF spaces - 1 = 0 THEN "load" ELSE other)

\* Mutant of Arrive: the last but one to arrive opens the barrier.
ArriveOneShort(t) ==
    /\ pc[t] = "arrive"
    /\ spaces' = spaces - 1
    /\ Goto(t, IF spaces - 1 <= 1 THEN "load" ELSE "spin")
    /\ arrivals' = [arrivals EXCEPT ![t] = @ + 1]
    /\ UNCHANGED <<count, generation, my_gen, loaded, resigned, epoch>>

\* if (!--spaces), in wait
Arrive(t) ==
    /\ pc[t] = "arrive"
    /\ TakeSpace(t, "spin")
    /\ arrivals' = [arrivals EXCEPT ![t] = @ + 1]
    /\ UNCHANGED <<count, generation, my_gen, loaded, resigned, epoch>>

\* while (generation == my_generation): leave the loop.
Spin(t) ==
    /\ pc[t] = "spin"
    /\ generation # my_gen[t]
    /\ Return(t)
    /\ UNCHANGED <<count, spaces, generation, my_gen, loaded, resigned, arrivals, epoch>>

\* --count, the first statement of done_waiting.
Resign(t) ==
    /\ pc[t] = "work"
    /\ count' = count - 1
    /\ resigned' = resigned \cup {t}
    /\ Goto(t, "leave")
    /\ UNCHANGED <<spaces, generation, my_gen, loaded, arrivals, epoch>>

\* if (!--spaces), in done_waiting
Leave(t) ==
    /\ pc[t] = "leave"
    /\ TakeSpace(t, "gone")
    /\ UNCHANGED <<count, generation, my_gen, loaded, resigned, arrivals, epoch>>

\* spaces = count.load(): the load ...
LoadCount(t) ==
    /\ pc[t] = "load"
    /\ loaded' = [loaded EXCEPT ![t] = count]
    /\ Goto(t, "store")
    /\ UNCHANGED <<count, spaces, generation, my_gen, resigned, arrivals, epoch>>

\* ... and the store.
StoreSpaces(t) ==
    /\ pc[t] = "store"
    /\ spaces' = loaded[t]
    /\ Goto(t, "open")
    /\ UNCHANGED <<count, generation, my_gen, loaded, resigned, arrivals, epoch>>

\* ++generation
Open(t) ==
    /\ pc[t] = "open"
    /\ generation' = IF generation + 1 = Modulus THEN 0 ELSE generation + 1
    /\ epoch' = epoch + 1
    /\ Return(t)
    /\ UNCHANGED <<count, spaces, my_gen, loaded, resigned, arrivals>>

\* The steps of a thread inside wait or done_waiting.
Inside(t) == \/ ReadGeneration(t) \/ Arrive(t) \/ Spin(t)
             \/ Leave(t)
             \/ LoadCount(t) \/ StoreSpaces(t) \/ Open(t)

Step(t) == CallWait(t) \/ Resign(t) \/ Inside(t)

Next == \E t \in Threads : Step(t)

Spec == Init /\ [][Next]_vars

-----------------------------------------------------------------------------
TypeOK ==
    /\ count \in Nat
    /\ spaces \in Nat
    /\ generation \in 0 .. Modulus - 1
    /\ pc \in [Threads -> PCs]
    /\ my_gen \in [Threads -> 0 .. Modulus - 1]
    /\ loaded \in [Threads -> Nat]
    /\ resigned \subseteq Threads
    /\ arrivals \in [Threads -> Nat]
    /\ epoch \in Nat

\* t is not inside a wait it has arrived at.
Outside(t) == pc[t] \in {"work", "read", "arrive", "leave", "gone"}

\* t has given up its place: its done_waiting has passed --spaces.
Departed(t) == t \in resigned /\ pc[t] # "leave"

(***************************************************************************)
(* The barrier holds: when a thread has come back from its n-th wait every *)
(* other thread has arrived at its own n-th wait or resigned.              *)
(***************************************************************************)
BarrierHolds ==
    \A t, u \in Threads :
        Outside(t) /\ arrivals[u] < arrivals[t] => Departed(u)

(***************************************************************************)
(* At most one thread at a time runs the branch of the last to arrive, and *)
(* it runs it while nobody else can take a space: otherwise its plain      *)
(* store to spaces would erase a decrement, and the barrier would hang.    *)
(***************************************************************************)
OpeningIsExclusive ==
    \A t, u \in Threads :
        /\ pc[t] \in Opening
        /\ t # u
        => \/ Departed(u) /\ pc[u] = "gone"
           \/ pc[u] = "spin" /\ my_gen[u] = generation

(***************************************************************************)
(* The barrier does not hang: while it holds a thread up, some other is at *)
(* work or inside a call, and not held up.  A decrement of spaces that got *)
(* lost would leave all of them spinning.                                  *)
(***************************************************************************)
HeldUp(t) == pc[t] = "spin" /\ my_gen[t] = generation

NobodyIsStranded ==
    \A t \in Threads : HeldUp(t) => \E u \in Threads : ~HeldUp(u) /\ pc[u] # "gone"

(***************************************************************************)
(* The barrier implements AbstractBarrier.  A wait is entered at --spaces, *)
(* done_waiting leaves there; ++generation lets all waiting threads out at *)
(* once, though each still has to see it: one that spins with an older     *)
(* generation than the barrier's is outside.                               *)
(***************************************************************************)
Waits(t) == HeldUp(t) \/ (t \notin resigned /\ pc[t] \in Opening)
Place(t) == IF Departed(t) THEN "left" ELSE IF Waits(t) THEN "inside" ELSE "outside"

Abstract == INSTANCE AbstractBarrier WITH
                place <- [t \in Threads |-> Place(t)], opened <- epoch

ImplementsBarrier == Abstract!Spec
=============================================================================
