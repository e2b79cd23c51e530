---------------------------- MODULE TasksProofs ----------------------------
(***************************************************************************)
(* The programs that MC_Tasks composes: the interruptible wait, the        *)
(* generators, the coroutines of sync_wait, the thread pools, the locked   *)
(* list and the pool's quicksort, for any number of threads, tasks and     *)
(* values.  A behaviour runs one of them, so the inductive invariant of    *)
(* each is proved under part = "its name".                                 *)
(***************************************************************************)
EXTENDS MC_Tasks, NaturalLemmas

-----------------------------------------------------------------------------
(* The step of one program is the step of its module.                    *)

\* No step changes which program runs.
LEMMA PartStays == [Next]_partVars => part' = part
  BY DEF Next, FreeStep, OwnersStep, Step, QuicksortOnly, PoolsOnly, ProgramsOnly,
         CoroutinesOnly, GeneratorsOnly, ListOnly, InterruptsOnly, partVars

-----------------------------------------------------------------------------
(* Interruptible: what its waiter and its interrupters have reached.     *)

\* Intr!Next is all that happens to an interruptible wait.
LEMMA InterruptsMove ==
    [Next]_partVars /\ part = "interrupts" => Intr!Next \/ UNCHANGED interruptsVars
  BY DEF Next, FreeStep, OwnersStep, Step, QuicksortOnly, PoolsOnly, ProgramsOnly,
         CoroutinesOnly, GeneratorsOnly, ListOnly, InterruptsOnly, partVars, Intr!Next

\* Where the waiter is in its call, and where it holds its own mutex.
Guarded == {"test", "wait", "asleep", "relock", "point2", "clear"}
InCall  == Guarded \cup {"point1", "set_cv", "return"}

IntrTypeOK ==
    /\ {flag, thread_cond, cvAlive, pred, throwing} \subseteq BOOLEAN
    /\ set_clear_mutex \in Interrupters \cup {Null}
    /\ iPc \in [Intr!Threads -> InCall \cup {"call", "interrupted", "start", "lock", "notify",
                                            "unlock", "done"}]

\* thread_cond points to the condition variable from set_condition_variable to the
\* guard's destructor, and neither falls between an interrupter's lock and its unlock.
ConditionInv ==
    /\ thread_cond <=> iPc[waiter] \in Guarded
    /\ cvAlive <=> iPc[waiter] \in InCall
    /\ \A u \in Interrupters : /\ iPc[u] \in {"notify", "unlock"} <=> set_clear_mutex = u
                               /\ iPc[u] = "notify" => thread_cond

\* Why the waiter goes on: the flag, which is never reset, or the predicate.
ReasonInv ==
    /\ iPc[waiter] = "point2" => flag \/ pred
    /\ iPc[waiter] \in {"clear", "return"} => throwing \/ pred

IntrInv == IntrTypeOK /\ ConditionInv /\ ReasonInv

\* No call has been made.
LEMMA IntrInitInv == Intr!Init => IntrInv
  BY ThreadsAssumption DEF Intr!Init, Intr!Threads, IntrInv, IntrTypeOK, ConditionInv, ReasonInv,
     Guarded, InCall

\* The interrupters' steps, and the notifier's.
LEMMA SetInv ==
    ASSUME IntrInv, (\E u \in Interrupters : Intr!Set(u)) \/ Intr!MakeTrue
    PROVE  IntrInv'
  <1> USE ThreadsAssumption DEF IntrInv, IntrTypeOK, Intr!Threads, Intr!At, Intr!Go, Intr!Awake
  <1>1. CASE Intr!MakeTrue
    BY <1>1 DEF Intr!MakeTrue, ConditionInv, ReasonInv, Guarded, InCall
  <1>2. ASSUME NEW u \in Interrupters, Intr!SetFlag(u)
        PROVE  IntrInv'
    BY <1>2 DEF Intr!SetFlag, ConditionInv, ReasonInv, Guarded, InCall
  <1>3. ASSUME NEW u \in Interrupters, Intr!LockToSet(u)
        PROVE  IntrInv'
    BY <1>3 DEF Intr!LockToSet, ConditionInv, ReasonInv, Guarded, InCall
  <1>4. ASSUME NEW u \in Interrupters, Intr!NotifyAll(u)
        PROVE  IntrInv'
    BY <1>4 DEF Intr!NotifyAll, ConditionInv, ReasonInv, Guarded, InCall
  <1>5. ASSUME NEW u \in Interrupters, Intr!UnlockSet(u)
        PROVE  IntrInv'
    BY <1>5 DEF Intr!UnlockSet, ConditionInv, ReasonInv, Guarded, InCall
  <1> QED
    BY <1>1, <1>2, <1>3, <1>4, <1>5 DEF Intr!Set

\* The waiter's steps.
LEMMA WaiterInv == ASSUME IntrInv, Intr!WaiterStep PROVE IntrInv'
  <1> USE ThreadsAssumption DEF IntrInv, IntrTypeOK, Intr!Threads, Intr!At, Intr!Go
  <1>1. CASE Intr!CallWait
    BY <1>1 DEF Intr!CallWait, ConditionInv, ReasonInv, Guarded, InCall
  <1>2. CASE Intr!FirstPoint
    BY <1>2 DEF Intr!FirstPoint, ConditionInv, ReasonInv, Guarded, InCall
  <1>3. CASE Intr!set_condition_variable
    BY <1>3 DEF Intr!set_condition_variable, ConditionInv, ReasonInv, Guarded, InCall
  <1>4. CASE Intr!Test
    BY <1>4 DEF Intr!Test, ConditionInv, ReasonInv, Guarded, InCall
  <1>5. CASE Intr!Wait \/ Intr!Timeout \/ Intr!Relock
    BY <1>5 DEF Intr!Wait, Intr!Timeout, Intr!Relock, ConditionInv, ReasonInv, Guarded, InCall
  <1>6. CASE Intr!LastPoint
    BY <1>6 DEF Intr!LastPoint, ConditionInv, ReasonInv, Guarded, InCall
  <1>7. CASE Intr!ClearOnDestruct
    BY <1>7 DEF Intr!ClearOnDestruct, Intr!ClearAllowed, ConditionInv, ReasonInv, Guarded, InCall
  <1>8. CASE Intr!Return
    BY <1>8 DEF Intr!Return, ConditionInv, ReasonInv, Guarded, InCall
  <1> QED
    BY <1>1, <1>2, <1>3, <1>4, <1>5, <1>6, <1>7, <1>8 DEF Intr!WaiterStep

\* IntrInv holds of every reachable state of the interruptible wait.
LEMMA InterruptsInvariance == FairParts => [](part = "interrupts" => IntrInv)
  <1> DEFINE Inv == part = "interrupts" => IntrInv
  <1>1. InitParts => Inv
    BY IntrInitInv DEF InitParts
  <1>2. Inv /\ [Next]_partVars => Inv'
    <2> SUFFICES ASSUME Inv, [Next]_partVars, part' = "interrupts" PROVE IntrInv'
      OBVIOUS
    <2>1. IntrInv /\ (Intr!Next \/ UNCHANGED interruptsVars)
      BY PartStays, InterruptsMove
    <2>2. CASE Intr!Next
      BY <2>1, <2>2, SetInv, WaiterInv DEF Intr!Next
    <2>3. CASE UNCHANGED interruptsVars
      BY <2>1, <2>3 DEF interruptsVars, IntrInv, IntrTypeOK, ConditionInv, ReasonInv
    <2> QED
      BY <2>1, <2>2, <2>3
  <1> QED
    BY <1>1, <1>2, PTL DEF FairParts

\* A wait that returns without throwing does so because its predicate holds.
THEOREM WaitsReturnForAReason == FairParts => []ReturnsForAReason
  <1>1. (part = "interrupts" => IntrInv) => ReturnsForAReason
    BY DEF ReturnsForAReason, Intr!ReturnsForAReason, Intr!At, IntrInv, ReasonInv
  <1> QED
    BY <1>1, InterruptsInvariance, PTL

\* An interrupter that is about to notify has a condition variable to notify.
LEMMA ConditionIsAlive == IntrInv => Intr!NotifiesLiveCondition
  BY DEF IntrInv, ConditionInv, Intr!NotifiesLiveCondition, Intr!At, InCall

-----------------------------------------------------------------------------
(* Generators: how far the body is ahead of the consumer.                *)

\* Gen!Next is all that happens to a generator.
LEMMA GeneratorsMove ==
    [Next]_partVars /\ part = "generators" => Gen!Next \/ UNCHANGED generatorsVars
  BY DEF Next, FreeStep, OwnersStep, Step, QuicksortOnly, PoolsOnly, ProgramsOnly,
         CoroutinesOnly, GeneratorsOnly, ListOnly, InterruptsOnly, partVars

\* The classes whose consumer reads each value, and those of which it reads none.
Yielding == {"generator", "CoroTask", "Genertor", "Generator"}
Silent   == {"coro", "cppref_coro", "tunable_coro"}

GenTypeOK ==
    /\ gClass \in Yielding \cup Silent \cup {"CoGen"}
    /\ limit \in Nat /\ fails \in BOOLEAN
    /\ body \in Nat /\ body <= limit
    /\ gAt \in {"suspended", "done", "destroyed"}
    /\ mark \in BOOLEAN /\ gAlive \in Nat
    /\ phase \in {"resume", "test", "read", "end", "caught", "left"}

\* The values of a coroutine are numbered as it produces them.
InOrder(s) == s \in Seq(Nat) /\ \A k \in 1 .. Len(s) : s[k] = k

\* The next value goes to its place.
LEMMA NextInOrder ==
    ASSUME NEW s, InOrder(s), NEW v \in Nat, v = Len(s) + 1
    PROVE  InOrder(Append(s, v)) /\ Len(Append(s, v)) = v
  BY DEF InOrder

\* The consumer has been given all values but one that it is about to test for or read.
Behind ==
    /\ InOrder(got)
    /\ gClass \in Yielding =>
           /\ phase = "resume" => gAt = "suspended" /\ Len(got) = body
           /\ phase = "test" => \/ gAt = "suspended" /\ mark /\ body = Len(got) + 1
                                \/ gAt = "done" /\ body = limit /\ Len(got) = body
           /\ phase = "read" => gAt = "suspended" /\ body = Len(got) + 1
           /\ phase = "end" => gAt # "suspended" /\ Len(got) = limit
    /\ gClass \in Silent => got = <<>> /\ phase \in {"resume", "end", "left"}
    /\ gClass = "CoGen" =>
           /\ phase \in {"resume", "read", "end", "left"}
           /\ phase = "read" => gAt = "done"
           /\ phase = "end" => got = <<1>>

\* Only two classes can throw, at once, and their consumer is told before anything else.
Throws ==
    /\ fails => gClass \in {"generator", "Generator"} /\ limit = 0
    /\ fails => \/ phase = "resume" /\ gAt = "suspended"
                \/ phase = "caught" /\ gAt # "suspended"
    /\ phase = "caught" => fails

\* generator holds a value when it says so and has not been destroyed; Generator says
\* that it is full when its value is to be read.
Holds ==
    /\ gClass = "generator" =>
           /\ phase = "read" => mark
           /\ \/ gAt # "destroyed" /\ mark /\ gAlive = 1
              \/ (gAt = "destroyed" \/ ~mark) /\ gAlive = 0
    /\ gClass # "generator" => gAlive = 0
    /\ gClass = "Generator" => /\ phase = "resume" => ~mark
                               /\ phase \in {"read", "end"} => mark
    /\ gAt = "destroyed" => phase \in {"end", "caught", "left"}
    /\ ~misused

GenInv == GenTypeOK /\ Behind /\ Throws /\ Holds

\* What Init leaves to each behaviour: the class, how often its body suspends, if it throws.
LEMMA GenInitInv == Gen!Init => GenInv
  <1> SUFFICES ASSUME Gen!Init PROVE GenInv
    OBVIOUS
  <1>1. PICK n \in 0 .. MaxN, f \in BOOLEAN :
            \E b \in IF f THEN Gen!Throwing ELSE Gen!Bodies(n) :
                gClass = b[1] /\ limit = b[2] /\ fails = f
    BY DEF Gen!Init
  <1>2. n \in Nat /\ MaxLoops \in Nat /\ Gen!gen_icebag[n] \in Nat
    BY GeneratorsAssumption
  <1>3. InOrder(<<>>)
    BY DEF InOrder
  <1>4. CASE f
    <2>1. gClass \in {"generator", "Generator"} /\ limit = 0 /\ fails = TRUE
      BY <1>1, <1>4 DEF Gen!Throwing
    <2>2. /\ body = 0 /\ gAt = "suspended" /\ misused = FALSE /\ gAlive = 0
          /\ mark = FALSE /\ got = <<>> /\ phase = "resume"
      BY <2>1 DEF Gen!Init
    <2> QED
      <3>1. fails \in BOOLEAN /\ mark \in BOOLEAN
        BY <2>1, <2>2
      <3>2. gClass \in Yielding
        BY <2>1 DEF Yielding
      <3>3. limit \in Nat /\ body \in Nat /\ body <= limit /\ gAlive \in Nat
        BY <2>1, <2>2
      <3>4. GenTypeOK
        BY <2>1, <2>2, <3>1, <3>2, <3>3 DEF GenTypeOK, Yielding, Silent
      <3>5. Behind
        BY <2>1, <2>2, <1>3 DEF Behind, Yielding, Silent
      <3>6. Throws
        BY <2>1, <2>2 DEF Throws
      <3>7. Holds
        BY <2>1, <2>2 DEF Holds
      <3> QED
        BY <3>4, <3>5, <3>6, <3>7 DEF GenInv
  <1>5. CASE ~f
    <2>1. PICK b \in Gen!Bodies(n) : gClass = b[1] /\ limit = b[2] /\ fails = f
      BY <1>1, <1>5
    <2>2. gClass \in Yielding \cup Silent \cup {"CoGen"} /\ limit \in Nat /\ ~fails
      BY <1>2, <1>5, <2>1
         DEF Gen!Bodies, Gen!gen_ints, Gen!gen_fibonacci, Gen!coro_max, Gen!fibonacci,
             Gen!fibonacci_sequence, Gen!hello, Gen!generate, Gen!Forever, Yielding, Silent
    <2> QED
      BY <2>2, <1>3 DEF Gen!Init, GenInv, GenTypeOK, Behind, Throws, Holds, Yielding, Silent
  <1> QED
    BY <1>4, <1>5

\* The consumer's loop over a generator.
LEMMA AdvanceInv ==
    ASSUME GenInv, Gen!Advance \/ Gen!NotEnd \/ Gen!Dereference PROVE GenInv'
  <1> USE DEF GenInv, GenTypeOK, Throws, Holds, Yielding, Silent, Gen!In, Gen!Be, Gen!coroutine
  <1>1. CASE Gen!Advance
    <2>1. /\ gClass = "generator" /\ phase = "resume" /\ gAt = "suspended" /\ Len(got) = body
          /\ UNCHANGED <<gClass, limit, fails, got, misused>>
      BY <1>1 DEF Behind, Gen!Advance, Gen!Resume
    <2>2. phase' = IF fails THEN "caught" ELSE "test"
      BY <1>1 DEF Gen!Advance
    <2>3. CASE body < limit
      <3>1. mark' = TRUE
        BY <1>1, <2>3 DEF Gen!Advance, Gen!HasMore
      <3>2. phase' = "test"
        BY <2>1, <2>2, <2>3
      <3>3. gAlive' = 1
        BY <1>1, <2>1, <2>3 DEF Gen!Advance, Gen!HasMore, Gen!clear_value
      <3>4. gAt' = "suspended" /\ body' = body + 1
        BY <1>1, <2>1, <2>3 DEF Gen!Advance, Gen!Resume, Gen!HasMore
      <3>5. /\ gAt' = "suspended" /\ body' = body + 1 /\ mark' = TRUE /\ gAlive' = 1
            /\ phase' = "test"
        BY <3>1, <3>2, <3>3, <3>4
      <3> QED
        BY <2>1, <2>3, <3>5 DEF Behind
    <2>4. CASE ~(body < limit)
      <3>1. gAt' = "done" /\ body' = body
        BY <1>1, <2>1, <2>4 DEF Gen!Advance, Gen!Resume, Gen!HasMore
      <3>2. mark' = FALSE
        <4>1. mark' = (body < limit)
          BY <1>1 DEF Gen!Advance, Gen!HasMore
        <4>2. (body < limit) = FALSE
          BY <2>4
        <4> QED
          BY <4>1, <4>2
      <3>3. gAlive' = 0
        BY <1>1, <2>1, <2>4 DEF Gen!Advance, Gen!HasMore, Gen!clear_value
      <3>4. GenTypeOK'
        BY <2>1, <2>2, <2>4, <3>1, <3>2, <3>3
      <3>5. Behind'
        BY <2>1, <2>2, <2>4, <3>1 DEF Behind
      <3>6. Throws'
        BY <2>1, <2>2, <2>4, <3>1
      <3>7. Holds'
        BY <2>1, <2>2, <2>4, <3>1, <3>2, <3>3
      <3> QED
        BY <3>4, <3>5, <3>6, <3>7
    <2> QED
      BY <2>3, <2>4
  <1>2. CASE Gen!NotEnd
    BY <1>2 DEF Behind, Gen!NotEnd
  <1>3. CASE Gen!Dereference
    <2>1. InOrder(got') /\ Len(got') = body
      BY <1>3, NextInOrder DEF Behind, Gen!Dereference, Gen!Take
    <2> QED
      BY <1>3, <2>1 DEF Behind, Gen!Dereference
  <1> QED
    BY <1>1, <1>2, <1>3

\* The loops over CoroTask, Genertor and Generator.
LEMMA ReadInv ==
    ASSUME GenInv, \/ Gen!NextValue \/ Gen!Get
                   \/ Gen!BoolOperator \/ Gen!Call \/ Gen!CallUntested
    PROVE  GenInv'
  <1> USE DEF GenInv, GenTypeOK, Throws, Holds, Yielding, Silent, Gen!In, Gen!Be, Gen!coroutine
  <1>1. CASE Gen!NextValue
    BY <1>1 DEF Behind, Gen!NextValue, Gen!Resume, Gen!HasMore
  <1>2. CASE Gen!Get
    <2>1. InOrder(got') /\ Len(got') = body
      BY <1>2, NextInOrder DEF Behind, Gen!Get, Gen!Take
    <2> QED
      BY <1>2, <2>1 DEF Behind, Gen!Get
  <1>3. CASE Gen!BoolOperator /\ phase # "resume"
    <2>1. /\ gClass = "Generator" /\ phase \in {"read", "end"} /\ gAt # "destroyed"
          /\ mark /\ fails = FALSE
      BY <1>3 DEF Gen!BoolOperator
    <2>2. /\ UNCHANGED <<gClass, limit, fails, body, gAt, misused, gAlive, got>>
          /\ mark' = TRUE /\ phase' = IF gAt = "done" THEN "end" ELSE "read"
      BY <1>3, <2>1 DEF Gen!BoolOperator, Gen!fill
    <2>3. gAt = "done" <=> phase = "end"
      BY <2>1 DEF Behind
    <2>4. phase' = phase
      BY <2>1, <2>2, <2>3
    <2> QED
      BY <2>1, <2>2, <2>4 DEF Behind
  <1>4. CASE Gen!BoolOperator /\ phase = "resume"
    <2>1. /\ gClass = "Generator" /\ phase = "resume" /\ gAt = "suspended" /\ Len(got) = body
          /\ UNCHANGED <<gClass, limit, fails, got, gAlive>>
          /\ misused' = misused /\ mark' = ~fails /\ mark = FALSE
      BY <1>4 DEF Behind, Gen!BoolOperator, Gen!fill, Gen!Resume
    <2>2. CASE body < limit
      <3>1. gAt' = "suspended" /\ body' = body + 1 /\ fails = FALSE /\ phase' = "read"
        BY <1>4, <2>1, <2>2 DEF Gen!BoolOperator, Gen!fill, Gen!Resume, Gen!HasMore
      <3>2. mark' = TRUE
        BY <2>1, <3>1
      <3> QED
        BY <2>1, <2>2, <3>1, <3>2 DEF Behind
    <2>3. CASE ~(body < limit)
      <3>1. gAt' = "done" /\ body' = body /\ phase' = IF fails THEN "caught" ELSE "end"
        BY <1>4, <2>1, <2>3 DEF Gen!BoolOperator, Gen!fill, Gen!Resume, Gen!HasMore
      <3>2. CASE fails
        BY <2>1, <2>3, <3>1, <3>2 DEF Behind
      <3>3. CASE ~fails
        <4>1. mark' = TRUE /\ phase' = "end"
          BY <2>1, <3>1, <3>3
        <4> QED
          BY <2>1, <2>3, <3>1, <3>3, <4>1 DEF Behind
      <3> QED
        BY <3>2, <3>3
    <2> QED
      BY <2>2, <2>3
  <1>5. CASE Gen!Call
    <2>1. fails = FALSE /\ mark = TRUE
      BY <1>5 DEF Gen!Call
    <2>2. body' = body /\ got' = Append(got, body)
      BY <1>5, <2>1 DEF Gen!Call, Gen!CallOperator, Gen!fill
    <2>3. InOrder(got') /\ Len(got') = body
      BY <1>5, <2>2, NextInOrder DEF Behind, Gen!Call
    <2> QED
      BY <1>5, <2>1, <2>2, <2>3 DEF Behind, Gen!Call, Gen!CallOperator, Gen!fill
  <1>6. CASE Gen!CallUntested
    <2>1. /\ gClass = "Generator" /\ phase = "resume" /\ gAt = "suspended" /\ Len(got) = body
          /\ UNCHANGED <<gClass, limit, fails, gAlive, misused>>
          /\ mark' = FALSE /\ mark = FALSE
      BY <1>6 DEF Behind, Gen!CallUntested, Gen!CallOperator, Gen!fill, Gen!Resume
    <2>2. CASE fails
      <3>1. gAt' = "done" /\ body' = body /\ got' = got /\ phase' = "caught"
        BY <1>6, <2>1, <2>2
           DEF Gen!CallUntested, Gen!CallOperator, Gen!fill, Gen!Resume, Gen!HasMore
      <3> QED
        BY <2>1, <2>2, <3>1 DEF Behind
    <2>3. CASE ~fails
      <3>1. /\ body < limit /\ gAt' = "suspended" /\ body' = body + 1
            /\ got' = Append(got, body + 1) /\ phase' = "resume"
        BY <1>6, <2>1, <2>3
           DEF Gen!CallUntested, Gen!CallOperator, Gen!fill, Gen!Resume, Gen!HasMore
      <3>2. InOrder(got') /\ Len(got') = body + 1
        BY <2>1, <3>1, NextInOrder DEF Behind
      <3>3. GenTypeOK'
        <4>1. /\ body \in Nat /\ limit \in Nat /\ gAlive \in Nat
              /\ fails \in BOOLEAN /\ gClass \in Yielding
          BY <2>1
        <4>2. limit' \in Nat /\ body' \in Nat /\ body' <= limit' /\ gAlive' \in Nat
          BY <2>1, <3>1, <4>1
        <4>3. fails' \in BOOLEAN /\ mark' \in BOOLEAN
          BY <2>1, <4>1
        <4>4. /\ gClass' \in Yielding
              /\ gAt' \in {"suspended", "done", "destroyed"}
              /\ phase' \in {"resume", "test", "read", "end", "caught", "left"}
          BY <2>1, <3>1, <4>1
        <4> QED
          BY <4>2, <4>3, <4>4
      <3>4. Behind'
        BY <2>1, <3>1, <3>2 DEF Behind
      <3>5. Throws' /\ Holds'
        BY <2>1, <2>3, <3>1
      <3> QED
        BY <3>3, <3>4, <3>5
    <2> QED
      BY <2>2, <2>3
  <1> QED
    BY <1>1, <1>2, <1>3, <1>4, <1>5, <1>6

\* The loops that read no value, the result of CoGen, and the end of every loop.
LEMMA SilentInv ==
    ASSUME GenInv, \/ Gen!ResumeCoro \/ Gen!getResult \/ Gen!CallTunable
                   \/ Gen!disable_suspension \/ Gen!Leave \/ Gen!Destroy
    PROVE  GenInv'
  <1> USE DEF GenInv, GenTypeOK, Throws, Holds, Yielding, Silent, Gen!In, Gen!Be, Gen!coroutine
  <1>1. CASE Gen!ResumeCoro
    BY <1>1 DEF Behind, Gen!ResumeCoro, Gen!Resume, Gen!HasMore
  <1>2. CASE Gen!getResult
    <2>1. InOrder(<<1>>) /\ Len(<<1>>) = 1
      BY DEF InOrder
    <2> QED
      BY <1>2, <2>1 DEF Behind, Gen!getResult
  <1>3. CASE Gen!CallTunable
    BY <1>3 DEF Behind, Gen!CallTunable, Gen!Resume, Gen!HasMore
  <1>4. CASE Gen!disable_suspension
    BY <1>4 DEF Behind, Gen!disable_suspension
  <1>5. CASE Gen!Leave
    BY <1>5 DEF Behind, Gen!Leave
  <1>6. CASE Gen!Destroy
    BY <1>6 DEF Behind, Gen!Destroy, Gen!clear_value
  <1> QED
    BY <1>1, <1>2, <1>3, <1>4, <1>5, <1>6

\* GenInv holds of every reachable state of the loops over coroutines.
LEMMA GeneratorsInvariance == FairParts => [](part = "generators" => GenInv)
  <1> DEFINE Inv == part = "generators" => GenInv
  <1>1. InitParts => Inv
    BY GenInitInv DEF InitParts
  <1>2. Inv /\ [Next]_partVars => Inv'
    <2> SUFFICES ASSUME Inv, [Next]_partVars, part' = "generators" PROVE GenInv'
      OBVIOUS
    <2>1. GenInv /\ (Gen!Next \/ UNCHANGED generatorsVars)
      BY PartStays, GeneratorsMove
    <2>2. CASE Gen!Next
      BY <2>1, <2>2, AdvanceInv, ReadInv, SilentInv DEF Gen!Next, Gen!Turn
    <2>3. CASE UNCHANGED generatorsVars
      BY <2>1, <2>3 DEF generatorsVars, GenInv, GenTypeOK, Behind, Throws, Holds
    <2> QED
      BY <2>1, <2>2, <2>3
  <1> QED
    BY <1>1, <1>2, PTL DEF FairParts

\* The consumer of a coroutine gets its values in order, each once, and all of them if
\* it stays to the end; and it is told of an exception.
THEOREM ValuesComeInOrder == FairParts => []DeliversInOrder
  <1>1. ASSUME part = "generators" => GenInv PROVE DeliversInOrder
    <2> SUFFICES ASSUME part = "generators" PROVE Gen!DeliversInOrder
      BY DEF DeliversInOrder
    <2> USE <1>1 DEF GenInv
    <2>1. \A k \in DOMAIN got : got[k] = k
      BY DEF Behind, InOrder
    <2>2. phase = "caught" <=> fails /\ gAt \in {"done", "destroyed"}
      BY DEF GenTypeOK, Throws
    <2>3. phase = "end" =>
              Len(got) = (CASE gClass \in Yielding -> limit [] gClass = "CoGen" -> 1 [] OTHER -> 0)
      BY DEF GenTypeOK, Behind, Yielding, Silent
    <2> QED
      BY <2>1, <2>2, <2>3 DEF Gen!DeliversInOrder, Yielding
  <1> QED
    BY <1>1, GeneratorsInvariance, PTL

\* A coroutine that is done is not resumed, and a value is read and destroyed once.
LEMMA CoroutineIsUsedAsAllowed == GenInv => Gen!UsedAsAllowed
  BY DEF GenInv, GenTypeOK, Holds, Gen!UsedAsAllowed

-----------------------------------------------------------------------------
(* CoroutineTasks: one thread at a time runs the coroutines.             *)

\* Coro!Next is all that happens to the coroutines.
LEMMA CoroutinesMove ==
    [Next]_partVars /\ part = "coroutines" => Coro!Next \/ UNCHANGED coroutinesVars
  BY DEF Next, FreeStep, OwnersStep, Step, QuicksortOnly, PoolsOnly, ProgramsOnly,
         CoroutinesOnly, GeneratorsOnly, ListOnly, InterruptsOnly, partVars, Coro!Next

\* What a thread does that is in no coroutine, and what one does that is in one.
Outside == {"unborn", "call", "back", "gone", "wait", "returned", "failed", "end"}
Inside  == {"run", "launch", "terminate", "resume", "transfer", "throw", "resumed", "notify",
            "unlock"}

CoroTypeOK ==
    /\ frame \in [Coro!Frames -> {"absent", "suspended", "running", "final"}]
    /\ thread \in [Coro!Threads -> [at : Outside \cup Inside, f : Coro!Frames \cup {Null}]]
    /\ continuation_ \in [Coro!Tasks -> Coro!Frames \cup {Null}]
    /\ state_ \in [Coro!Frames -> {"empty", "value", "error"}]
    /\ mtx_ \in Coro!Threads \cup {Null}
    /\ {hopped, done_, threw} \subseteq BOOLEAN

\* s tells how the task, and the tasks it has awaited, ended.
Outcome(s) == s # "empty" /\ (threw <=> s = "error")

\* What is so when a thread is in S, in R or in C: who is awaited by whom is there, and
\* an exception on its way to sync_wait's caller is in the coroutine the thread is in.
InS(a) ==
    /\ frame["S"] # "absent"
    /\ \/ a = "run" /\ ~threw
       \/ a = "resumed" /\ Outcome(state_["R"])
       \/ a \in {"notify", "unlock"} /\ state_["R"] # "empty" /\ Outcome(state_["S"])
InR(a) ==
    /\ frame["S"] # "absent" /\ frame["R"] # "absent" /\ continuation_["R"] = "S"
    /\ \/ a = "run" /\ ~threw
       \/ a = "throw" /\ threw
       \/ a = "resumed" /\ Outcome(state_["C"])
       \/ a = "transfer" /\ Outcome(state_["R"])
InC(a) ==
    /\ \A f \in Coro!Frames : frame[f] # "absent"
    /\ continuation_["R"] = "S" /\ continuation_["C"] = "R"
    /\ \/ a \in {"run", "launch", "resume", "terminate"} /\ ~threw
       \/ a = "transfer" /\ Outcome(state_["C"])

Placed(x) == \/ x.at \in Outside /\ x.f = Null
             \/ x.at \in Inside /\ x.f = "S" /\ InS(x.at)
             \/ x.at \in Inside /\ x.f = "R" /\ InR(x.at)
             \/ x.at \in Inside /\ x.f = "C" /\ InC(x.at)

\* At most one thread is in a coroutine, and it is in its place.
OneRunner ==
    \A t1 \in Coro!Threads :
        /\ Placed(thread[t1])
        /\ \A t2 \in Coro!Threads : thread[t1].f # Null /\ thread[t2].f # Null => t1 = t2

\* S's promise: once its flag is set all is over but for the notifier's unlock, and
\* the waiter, who needs the mutex, goes on after that.
PromiseInv ==
    /\ \A t1 \in Coro!Threads : thread[t1].at = "unlock" <=> mtx_ = t1
    /\ done_ => /\ state_["R"] # "empty" /\ Outcome(state_["S"])
                /\ \A t1 \in Coro!Threads : thread[t1].f # Null => thread[t1].at = "unlock"

\* sync_wait's caller, before the call and after it: no thread is in a coroutine.
CallerInv ==
    /\ thread[main].at \in {"call", "returned", "failed", "end"} =>
           \A t1 \in Coro!Threads : thread[t1].f = Null
    /\ thread[main].at = "call" => ~threw /\ ~done_ /\ frame["R"] # "absent"
    /\ thread[main].at \in {"returned", "failed", "end"} => done_
    /\ thread[main].at = "failed" => threw

CoroInv == CoroTypeOK /\ OneRunner /\ PromiseInv /\ CallerInv

\* The invariant holds before sync_wait is called.
LEMMA CoroInitInv == Coro!Init => CoroInv
  <1> SUFFICES ASSUME Coro!Init PROVE CoroInv
    OBVIOUS
  <1>1. CoroTypeOK
    BY DEF Coro!Init, Coro!Frames, Coro!Tasks, CoroTypeOK, Outside
  <1>2. main \in Coro!Threads /\ Null \notin Coro!Threads
    BY NullAssumption DEF Coro!Threads
  <1>3. \A t1 \in Coro!Threads : thread[t1].f = Null /\ thread[t1].at \in {"call", "unborn"}
    BY DEF Coro!Init
  <1>4. OneRunner
    BY <1>3 DEF OneRunner, Placed, Outside
  <1>5. mtx_ = Null /\ done_ = FALSE /\ threw = FALSE /\ frame["R"] # "absent"
    BY DEF Coro!Init, Coro!Frames, Coro!Tasks
  <1> QED
    BY <1>1, <1>2, <1>3, <1>4, <1>5 DEF CoroInv, PromiseInv, CallerInv
\* What a step of a thread that is in a coroutine must leave to the others.
LEMMA RunnerKeeps ==
    ASSUME CoroInv, CoroTypeOK', NEW t1 \in Coro!Threads, NEW x, thread[t1].f # Null,
           thread' = [thread EXCEPT ![t1] = x], Placed(x)',
           x.at = "unlock" <=> mtx_' = t1,
           x.at # "unlock" => mtx_' = (IF thread[t1].at = "unlock" THEN Null ELSE mtx_),
           done_' => /\ (state_["R"] # "empty" /\ Outcome(state_["S"]))'
                     /\ x.f # Null => x.at = "unlock",
           x.at \notin {"call", "returned", "failed", "end"}
    PROVE  CoroInv'
  <1> USE DEF CoroInv
  <1>1. thread'[t1] = x /\ \A t2 \in Coro!Threads \ {t1} : thread'[t2] = thread[t2]
    BY DEF CoroTypeOK
  <1>2. \A t2 \in Coro!Threads \ {t1} : thread[t2].at \in Outside /\ thread[t2].f = Null
    BY NullAssumption DEF OneRunner, Placed, Coro!Frames, Coro!Tasks
  <1>3. OneRunner'
    BY <1>1, <1>2 DEF OneRunner, Placed
  <1>4. PromiseInv'
    BY <1>1, <1>2, NullAssumption DEF PromiseInv, CoroTypeOK, Outside
  <1>5. main \in Coro!Threads
    BY DEF Coro!Threads
  <1>6. CallerInv'
    BY <1>1, <1>5 DEF CallerInv
  <1> QED
    BY <1>3, <1>4, <1>6

\* The coroutines are three names, and one of them is awaited by another.
LEMMA FrameNames == Coro!Frames = {"S", "R", "C"} /\ Coro!Tasks = {"R", "C"}
  BY DEF Coro!Frames, Coro!Tasks

\* A thread that is in a coroutine is in its place there.
LEMMA WhereRunnerIs ==
    ASSUME CoroInv, NEW t1 \in Coro!Threads, NEW a \in Inside, thread[t1].at = a
    PROVE  /\ thread[t1].f # Null
           /\ \/ thread[t1].f = "S" /\ InS(a)
              \/ thread[t1].f = "R" /\ InR(a)
              \/ thread[t1].f = "C" /\ InC(a)
           /\ done_ => a = "unlock"
           /\ a = "unlock" <=> mtx_ = t1
  BY NullAssumption, FrameNames DEF CoroInv, OneRunner, PromiseInv, Placed, Outside, Inside

\* So a step that neither sets the flag nor takes the mutex need only be in its place.
LEMMA RunnerMoves ==
    ASSUME CoroInv, CoroTypeOK', NEW t1 \in Coro!Threads, NEW a \in Inside \ {"unlock"}, NEW f,
           thread[t1].f # Null, ~done_, mtx_ # t1, done_' = done_, mtx_' = mtx_,
           thread' = [thread EXCEPT ![t1] = [at |-> a, f |-> f]], Placed([at |-> a, f |-> f])'
    PROVE  CoroInv'
  <1> DEFINE x == [at |-> a, f |-> f]
  <1>1. x.at = a /\ a # "unlock" /\ a \notin {"call", "returned", "failed", "end"}
    BY DEF Inside
  <1>2. thread[t1].at # "unlock"
    BY DEF CoroInv, PromiseInv
  <1>3. thread' = [thread EXCEPT ![t1] = x] /\ Placed(x)'
    OBVIOUS
  <1> HIDE DEF x
  <1> QED
    BY <1>1, <1>2, <1>3, RunnerKeeps

\* One coroutine awaits another.
LEMMA AwaitInv ==
    ASSUME CoroInv, NEW t1 \in Coro!Threads, Coro!AwaitR(t1) \/ Coro!AwaitNewC(t1)
    PROVE  CoroInv'
  <1> USE FrameNames DEF CoroInv, CoroTypeOK, Coro!In, Coro!Go, Outside, Inside
  <1>1. CASE Coro!AwaitR(t1)
    <2>1. thread[t1].at = "run" /\ thread[t1].f = "S"
      BY <1>1 DEF Coro!AwaitR, Coro!Await
    <2>2. InS("run") /\ ~done_ /\ mtx_ # t1 /\ thread[t1].f # Null
      BY <2>1, WhereRunnerIs, NullAssumption DEF Inside, InR, InC
    <2>3. CoroTypeOK'
      BY <1>1 DEF Coro!AwaitR, Coro!Await
    <2>4. Placed([at |-> "run", f |-> "R"])'
      BY <1>1, <2>2 DEF Placed, InS, InR, Coro!AwaitR, Coro!Await
    <2> QED
      BY <1>1, <2>1, <2>2, <2>3, <2>4, RunnerMoves DEF Coro!AwaitR, Coro!Await
  <1>2. CASE Coro!AwaitNewC(t1)
    <2>1. thread[t1].at = "run" /\ thread[t1].f = "R"
      BY <1>2 DEF Coro!AwaitNewC, Coro!Await
    <2>2. InR("run") /\ ~done_ /\ mtx_ # t1 /\ thread[t1].f # Null
      BY <2>1, WhereRunnerIs, NullAssumption DEF Inside, InS, InC
    <2>3. CoroTypeOK'
      BY <1>2 DEF Coro!AwaitNewC, Coro!Await
    <2>4. Placed([at |-> "run", f |-> "C"])'
      BY <1>2, <2>2 DEF Placed, InR, InC, Coro!AwaitNewC, Coro!Await
    <2> QED
      BY <1>2, <2>1, <2>2, <2>3, <2>4, RunnerMoves DEF Coro!AwaitNewC, Coro!Await
  <1> QED
    BY <1>1, <1>2

\* C moves to a new thread, up to where the thread is started, and runs there.
LEMMA ScheduleInv ==
    ASSUME CoroInv, NEW t1 \in Coro!Threads,
           Coro!Schedule(t1) \/ Coro!LaunchFails(t1) \/ Coro!Resume(t1)
    PROVE  CoroInv'
  <1> USE FrameNames DEF CoroInv, CoroTypeOK, Coro!In, Coro!At, Coro!Go, Outside, Inside
  <1>1. CASE Coro!Schedule(t1) \/ Coro!LaunchFails(t1)
    <2>1. thread[t1].at \in {"run", "launch"} /\ thread[t1].f = "C"
      BY <1>1 DEF Coro!Schedule, Coro!LaunchFails
    <2>2. InC("run") /\ ~done_ /\ mtx_ # t1 /\ thread[t1].f # Null
      BY <2>1, WhereRunnerIs, NullAssumption DEF InC
    <2>3. CoroTypeOK'
      <3>1. CASE Coro!Schedule(t1)
        BY <3>1 DEF Coro!Schedule
      <3>2. CASE Coro!LaunchFails(t1)
        BY <3>2 DEF Coro!LaunchFails
      <3> QED
        BY <1>1, <3>1, <3>2
    <2>4. PICK a \in {"launch", "terminate"} :
              thread' = [thread EXCEPT ![t1] = [at |-> a, f |-> "C"]]
      <3>1. \/ thread' = [thread EXCEPT ![t1] = [at |-> "launch", f |-> "C"]]
            \/ thread' = [thread EXCEPT ![t1] = [at |-> "terminate", f |-> "C"]]
        BY <1>1 DEF Coro!Schedule, Coro!LaunchFails
      <3> QED
        BY <3>1
    <2>5. Placed([at |-> a, f |-> "C"])'
      BY <1>1, <2>2 DEF Placed, InC, Coro!Schedule, Coro!LaunchFails
    <2> QED
      <3>1. done_' = done_ /\ mtx_' = mtx_ /\ a \in Inside \ {"unlock"}
        BY <1>1 DEF Coro!Schedule, Coro!LaunchFails
      <3> QED
        BY ONLY CoroInv, t1 \in Coro!Threads, <2>2, <2>3, <2>4, <2>5, <3>1, RunnerMoves
  <1>2. CASE Coro!Resume(t1)
    <2>1. thread[t1].at = "resume" /\ "resume" \in Inside
      BY <1>2 DEF Coro!Resume
    <2>2. ~InS("resume") /\ ~InR("resume") /\ (InC("resume") => InC("run"))
      BY DEF InS, InR, InC
    <2>3. PICK f \in Coro!Frames : thread[t1].f = f /\ InC("run") /\ f = "C"
      BY <2>1, <2>2, WhereRunnerIs
    <2>4. ~done_ /\ mtx_ # t1 /\ f # Null
      BY <1>2, WhereRunnerIs, NullAssumption DEF Coro!Resume
    <2>5. CoroTypeOK'
      BY <1>2, <2>3 DEF Coro!Resume
    <2>6. Placed([at |-> "run", f |-> "C"])'
      BY <1>2, <2>3 DEF Placed, InC, Coro!Resume
    <2> QED
      BY <1>2, <2>3, <2>4, <2>5, <2>6, RunnerMoves DEF Coro!Resume
  <1> QED
    BY <1>1, <1>2

\* The new thread has the coroutine, and the one that started it has none.
LEMMA LaunchInv ==
    ASSUME CoroInv, NEW t1 \in Coro!Threads, NEW u \in Workers, Coro!Launch(t1, u)
    PROVE  CoroInv'
  <1> USE FrameNames DEF CoroInv
  <1>1. u \in Coro!Threads /\ main \in Coro!Threads
    BY DEF Coro!Threads
  <1>2. thread[t1].at = "launch" /\ thread[t1].f = "C" /\ thread[u].at = "unborn" /\ u # t1
    BY DEF Coro!Launch, Coro!In, Coro!At
  <1>3. InC("launch") /\ ~done_ /\ mtx_ # t1 /\ thread[t1].f # Null
    BY <1>2, WhereRunnerIs, NullAssumption DEF InS, InR, Inside
  <1>4. \A t2 \in Coro!Threads \ {t1} : thread[t2].at \in Outside /\ thread[t2].f = Null
    BY <1>3, NullAssumption DEF OneRunner, Placed
  <1>5. /\ thread'[t1] = [at |-> "back", f |-> Null] /\ thread'[u] = [at |-> "resume", f |-> "C"]
        /\ \A t2 \in Coro!Threads \ {t1, u} : thread'[t2] = thread[t2]
    BY <1>1, <1>2 DEF Coro!Launch, CoroTypeOK
  <1>6. /\ UNCHANGED <<frame, continuation_, state_, hopped, done_, mtx_, threw>>
        /\ thread' = [thread EXCEPT ![t1] = [at |-> "back", f |-> Null],
                                    ![u] = [at |-> "resume", f |-> "C"]]
    BY DEF Coro!Launch
  <1>7. CoroTypeOK'
    BY <1>6 DEF CoroTypeOK, Outside, Inside
  <1>8. OneRunner'
    <2>1. Placed(thread[t1])' /\ Placed(thread[u])'
      BY <1>3, <1>5, <1>6 DEF Placed, InC, Outside, Inside
    <2>2. \A t2 \in Coro!Threads \ {t1, u} : Placed(thread[t2])'
      BY <1>4, <1>5 DEF Placed
    <2>3. \A t2 \in Coro!Threads : t2 # u => thread'[t2].f = Null
      BY <1>4, <1>5
    <2> QED
      BY <2>1, <2>2, <2>3, <1>5 DEF OneRunner
  <1>9. PromiseInv'
    <2>1. \A t2 \in Coro!Threads : thread'[t2].at = "unlock" <=> thread[t2].at = "unlock"
      BY <1>2, <1>5
    <2> QED
      BY <2>1, <1>3, <1>6 DEF PromiseInv
  <1>10. CallerInv'
    <2>1. thread[main].at \notin {"call", "returned", "failed", "end"}
      BY <1>3 DEF CallerInv
    <2>2. thread'[main].at \notin {"call", "returned", "failed", "end"}
      BY <2>1, <1>1, <1>5
    <2> QED
      BY <2>2 DEF CallerInv
  <1> QED
    BY <1>7, <1>8, <1>9, <1>10

\* Task f ends with s, a value or an error; a is where the thread was in it.
Ends(t1, f, s, a) ==
    /\ thread[t1].f = f /\ thread[t1].at = a
    /\ Coro!End(t1, f, s)
    /\ \/ a = "run" /\ s = "value" /\ threw' = threw
       \/ a = "run" /\ s = "error" /\ threw' = TRUE
       \/ a = "throw" /\ s = "error" /\ threw' = threw

\* What its continuation will find is how it ended.
LEMMA EndInv ==
    ASSUME CoroInv, NEW t1 \in Coro!Threads,
           Coro!Return(t1) \/ Coro!Throw(t1) \/ Coro!Rethrow(t1)
    PROVE  CoroInv'
  <1> USE FrameNames DEF CoroInv, CoroTypeOK, Coro!In, Coro!At, Coro!Go, Outside, Inside
  <1>1. PICK f \in {"R", "C"}, s \in {"value", "error"}, a \in Inside : Ends(t1, f, s, a)
    <2>1. CASE Coro!Return(t1)
      <3>1. PICK f \in {"R", "C"} : Ends(t1, f, "value", "run")
        BY <2>1 DEF Coro!Return, Ends
      <3> QED
        BY <3>1
    <2>2. CASE Coro!Throw(t1)
      <3>1. PICK f \in {"R", "C"} : Ends(t1, f, "error", "run")
        BY <2>2 DEF Coro!Throw, Ends
      <3> QED
        BY <3>1
    <2>3. CASE Coro!Rethrow(t1)
      <3>1. thread[t1].at = "throw" /\ "throw" \in Inside
        BY <2>3 DEF Coro!Rethrow
      <3>2. thread[t1].f = "R"
        BY <3>1, WhereRunnerIs DEF InS, InC
      <3>3. Ends(t1, "R", "error", "throw")
        BY <2>3, <3>1, <3>2 DEF Coro!Rethrow, Ends
      <3> QED
        BY <3>1, <3>3
    <2> QED
      BY <2>1, <2>2, <2>3
  <1>2. \/ f = "R" /\ InR(a)
        \/ f = "C" /\ InC(a)
    BY <1>1, WhereRunnerIs DEF Ends
  <1>3. ~done_ /\ mtx_ # t1 /\ f # Null /\ thread[t1].f = f
    BY <1>1, WhereRunnerIs, NullAssumption DEF Ends
  <1>4. threw' <=> s = "error"
    BY <1>1, <1>2 DEF Ends, InR, InC
  <1>5. CoroTypeOK'
    BY <1>1 DEF Ends, Coro!End
  <1>6. thread' = [thread EXCEPT ![t1] = [at |-> "transfer", f |-> f]]
    BY <1>1 DEF Ends, Coro!End
  <1>7. Placed([at |-> "transfer", f |-> f])'
    BY <1>1, <1>2, <1>4 DEF Placed, InR, InC, Outcome, Ends, Coro!End
  <1>8. mtx_' = mtx_ /\ done_' = done_
    BY <1>1 DEF Ends, Coro!End
  <1> QED
    BY <1>3, <1>5, <1>6, <1>7, <1>8, RunnerMoves

\* Who awaited a task gets its thread, and then the task's value or error.
LEMMA ResumedInv ==
    ASSUME CoroInv, NEW t1 \in Coro!Threads,
           Coro!Transfer(t1) \/ Coro!GetC(t1) \/ Coro!GetR(t1)
    PROVE  CoroInv'
  <1> USE FrameNames DEF CoroInv, CoroTypeOK, Coro!In, Coro!At, Coro!Go, Outside, Inside
  <1>1. CASE Coro!Transfer(t1)
    <2>1. thread[t1].at = "transfer" /\ "transfer" \in Inside
      BY <1>1 DEF Coro!Transfer
    <2>2. /\ ~InS("transfer")
          /\ InR("transfer") => continuation_["R"] = "S"
          /\ InC("transfer") => continuation_["C"] = "R"
      BY DEF InS, InR, InC
    <2>3. PICK f \in {"R", "C"}, g \in {"S", "R"} :
              /\ thread[t1].f = f /\ continuation_[f] = g
              /\ \/ f = "R" /\ g = "S" /\ InR("transfer")
                 \/ f = "C" /\ g = "R" /\ InC("transfer")
      BY <2>1, <2>2, WhereRunnerIs
    <2>4. ~done_ /\ mtx_ # t1 /\ f # Null
      BY <1>1, <2>3, WhereRunnerIs, NullAssumption DEF Coro!Transfer
    <2>5. /\ frame' = [frame EXCEPT ![g] = "running"]
          /\ thread' = [thread EXCEPT ![t1] = [at |-> "resumed", f |-> g]]
          /\ UNCHANGED <<continuation_, state_, hopped, done_, mtx_, threw>>
      BY <1>1, <2>3 DEF Coro!Transfer
    <2>6. CoroTypeOK'
      BY <2>5
    <2>7. Placed([at |-> "resumed", f |-> g])'
      BY <2>3, <2>5 DEF Placed, InS, InR, InC, Outcome
    <2> QED
      BY <2>3, <2>4, <2>5, <2>6, <2>7, RunnerMoves
  <1>2. CASE Coro!GetC(t1)
    <2>1. thread[t1].at = "resumed" /\ thread[t1].f = "R"
      BY <1>2 DEF Coro!GetC
    <2>2. InR("resumed") /\ ~done_ /\ mtx_ # t1 /\ thread[t1].f # Null
      BY <2>1, WhereRunnerIs, NullAssumption
    <2>3. CoroTypeOK'
      BY <1>2 DEF Coro!GetC
    <2>4. PICK a \in {"throw", "run"} :
              /\ thread' = [thread EXCEPT ![t1] = [at |-> a, f |-> "R"]]
              /\ a = "throw" <=> state_["C"] = "error"
      BY <1>2 DEF Coro!GetC
    <2>5. Placed([at |-> a, f |-> "R"])'
      BY <1>2, <2>2, <2>4 DEF Placed, InR, Outcome, Coro!GetC
    <2> QED
      BY <1>2, <2>1, <2>2, <2>3, <2>4, <2>5, RunnerMoves DEF Coro!GetC
  <1>3. CASE Coro!GetR(t1)
    <2>1. thread[t1].at = "resumed" /\ thread[t1].f = "S"
      BY <1>3 DEF Coro!GetR
    <2>2. InS("resumed") /\ ~done_ /\ mtx_ # t1 /\ thread[t1].f # Null
      BY <2>1, WhereRunnerIs, NullAssumption
    <2>3. CoroTypeOK'
      BY <1>3 DEF Coro!GetR, Coro!End
    <2>4. Placed([at |-> "notify", f |-> "S"])'
      BY <1>3, <2>2 DEF Placed, InS, Outcome, Coro!GetR, Coro!End
    <2> QED
      BY <1>3, <2>1, <2>2, <2>3, <2>4, RunnerMoves DEF Coro!GetR, Coro!End
  <1> QED
    BY <1>1, <1>2, <1>3

\* The thread that ended S sets its flag, under the mutex, and leaves.
LEMMA NotifyInv ==
    ASSUME CoroInv, NEW t1 \in Coro!Threads, Coro!Notify(t1) \/ Coro!UnlockNotifier(t1)
    PROVE  CoroInv'
  <1> USE FrameNames DEF CoroInv, CoroTypeOK, Coro!In, Coro!At, Coro!Go, Outside, Inside
  <1>1. thread[t1].at \in {"notify", "unlock"} /\ thread[t1].f = "S"
    BY DEF Coro!Notify, Coro!UnlockNotifier
  <1>2. InS("notify") /\ thread[t1].f # Null
    BY <1>1, WhereRunnerIs, NullAssumption DEF InS
  <1>3. CASE Coro!Notify(t1)
    <2>1. /\ thread' = [thread EXCEPT ![t1] = [at |-> "unlock", f |-> "S"]]
          /\ mtx_' = t1 /\ mtx_ = Null /\ done_' = TRUE /\ thread[t1].at = "notify"
          /\ UNCHANGED <<frame, continuation_, state_, hopped, threw>>
      BY <1>3 DEF Coro!Notify
    <2>2. CoroTypeOK'
      BY <2>1
    <2>3. Placed([at |-> "unlock", f |-> "S"])'
      BY <1>2, <2>1 DEF Placed, InS, Outcome
    <2>4. state_["R"] # "empty" /\ Outcome(state_["S"])
      BY <1>2 DEF InS
    <2>5. state_'["R"] # "empty" /\ Outcome(state_["S"])'
      BY <2>1, <2>4 DEF Outcome
    <2> DEFINE x == [at |-> "unlock", f |-> "S"]
    <2>6. x.at = "unlock"
      OBVIOUS
    <2> HIDE DEF x, CoroInv, CoroTypeOK
    <2> QED
      BY <1>2, <2>1, <2>2, <2>3, <2>5, <2>6, RunnerKeeps DEF x
  <1>4. CASE Coro!UnlockNotifier(t1)
    <2>1. /\ thread' = [thread EXCEPT ![t1] = [at |-> "back", f |-> Null]]
          /\ mtx_' = Null /\ done_' = done_ /\ thread[t1].at = "unlock"
          /\ UNCHANGED <<frame, continuation_, state_, hopped, threw>>
      BY <1>4 DEF Coro!UnlockNotifier
    <2>2. CoroTypeOK'
      BY <2>1
    <2>3. Placed([at |-> "back", f |-> Null])'
      BY DEF Placed
    <2>4. state_["R"] # "empty" /\ Outcome(state_["S"])
      BY <1>2 DEF InS
    <2>5. state_'["R"] # "empty" /\ Outcome(state_["S"])'
      BY <2>1, <2>4 DEF Outcome
    <2> DEFINE x == [at |-> "back", f |-> Null]
    <2>6. x.at = "back" /\ x.f = Null /\ Null # t1
      BY NullAssumption
    <2> HIDE DEF x, CoroInv, CoroTypeOK
    <2> QED
      BY <1>2, <2>1, <2>2, <2>3, <2>5, <2>6, RunnerKeeps DEF x
  <1> QED
    BY <1>3, <1>4

\* The thread that has left the coroutines, and sync_wait's caller.
LEMMA OutsideInv ==
    ASSUME CoroInv, (\E t1 \in Coro!Threads : Coro!Leave(t1)) \/ Coro!MainStep
    PROVE  CoroInv'
  <1> USE FrameNames DEF CoroInv, Coro!At, Coro!Go
  <1>0. main \in Coro!Threads /\ Null # main
    BY NullAssumption DEF Coro!Threads
  <1>1. ASSUME NEW t1 \in Coro!Threads, Coro!Leave(t1)
        PROVE  CoroInv'
    <2>1. PICK a \in {"wait", "gone"} :
              thread' = [thread EXCEPT ![t1] = [at |-> a, f |-> Null]]
      BY <1>1 DEF Coro!Leave
    <2>2. /\ thread[t1].at = "back" /\ thread[t1].f = Null
          /\ UNCHANGED <<frame, continuation_, state_, hopped, done_, mtx_, threw>>
      BY <1>1, NullAssumption
         DEF Coro!Leave, OneRunner, Placed, InS, InR, InC, Inside
    <2>3. /\ thread'[t1] = [at |-> a, f |-> Null]
          /\ \A t2 \in Coro!Threads \ {t1} : thread'[t2] = thread[t2]
      BY <2>1 DEF CoroTypeOK
    <2>4. CoroTypeOK'
      BY <2>1, <2>2 DEF CoroTypeOK, Outside
    <2>5. OneRunner'
      <3>1. \A t2 \in Coro!Threads : Placed(thread[t2])'
        <4>1. \A t2 \in Coro!Threads \ {t1} : Placed(thread[t2])'
          BY <2>2, <2>3 DEF OneRunner, Placed, InS, InR, InC, Outcome
        <4>2. Placed(thread[t1])'
          BY <2>3 DEF Placed, Outside
        <4> QED
          BY <4>1, <4>2
      <3>2. \A t2 \in Coro!Threads : thread'[t2].f = thread[t2].f
        BY <2>2, <2>3
      <3> QED
        BY <3>1, <3>2 DEF OneRunner
    <2>6. PromiseInv'
      BY <2>2, <2>3 DEF PromiseInv, Outcome
    <2>7. CallerInv'
      <3>1. \A t2 \in Coro!Threads : thread'[t2].f = thread[t2].f
        BY <2>2, <2>3
      <3>2. thread'[main].at \in {"call", "returned", "failed", "end"} => thread'[main] = thread[main]
        BY <1>0, <2>3
      <3> QED
        BY <3>1, <3>2, <2>2, <1>0 DEF CallerInv
    <2> QED
      BY <2>4, <2>5, <2>6, <2>7
  <1>2. CASE Coro!SyncWait
    <2>1. /\ thread[main].at = "call" /\ frame' = [frame EXCEPT !["S"] = "running"]
          /\ thread' = [thread EXCEPT ![main] = [at |-> "run", f |-> "S"]]
          /\ UNCHANGED <<continuation_, state_, hopped, done_, mtx_, threw>>
      BY <1>2 DEF Coro!SyncWait
    <2>2. /\ \A t2 \in Coro!Threads : thread[t2].f = Null /\ thread[t2].at \in Outside
          /\ ~threw /\ ~done_
      BY <2>1, NullAssumption DEF CallerInv, OneRunner, Placed
    <2>3. /\ thread'[main] = [at |-> "run", f |-> "S"]
          /\ \A t2 \in Coro!Threads \ {main} : thread'[t2] = thread[t2]
      BY <2>1, <1>0 DEF CoroTypeOK
    <2>4. CoroTypeOK'
      BY <2>1, <1>0 DEF CoroTypeOK, Inside
    <2>5. Placed(thread[main])'
      BY <2>1, <2>2, <2>3 DEF Placed, InS, Inside, CoroTypeOK
    <2>6. \A t2 \in Coro!Threads \ {main} : Placed(thread[t2])'
      BY <2>2, <2>3 DEF Placed
    <2>7. OneRunner'
      BY <2>2, <2>3, <2>5, <2>6 DEF OneRunner
    <2>8. PromiseInv'
      BY <2>1, <2>2, <2>3 DEF PromiseInv
    <2>9. CallerInv'
      BY <2>3 DEF CallerInv
    <2> QED
      BY <2>4, <2>7, <2>8, <2>9
  <1>3. CASE Coro!WaitReturns \/ Coro!DestroyContext
    <2>1. PICK a \in {"failed", "returned", "end"} :
              thread' = [thread EXCEPT ![main] = [at |-> a, f |-> Null]]
      BY <1>3 DEF Coro!WaitReturns, Coro!DestroyContext
    <2>2. /\ a = "failed" => state_["S"] = "error"
          /\ thread[main].at \in {"wait", "returned", "failed"}
          /\ thread[main].at = "wait" => mtx_ = Null /\ done_
          /\ UNCHANGED <<frame, continuation_, state_, hopped, done_, mtx_, threw>>
      <3>1. CASE Coro!WaitReturns
        BY <2>1, <3>1, <1>0 DEF Coro!WaitReturns, CoroTypeOK
      <3>2. CASE Coro!DestroyContext
        BY <2>1, <3>2, <1>0 DEF Coro!DestroyContext, CoroTypeOK
      <3> QED
        BY <1>3, <3>1, <3>2
    <2>3. done_ /\ \A t2 \in Coro!Threads : thread[t2].f = Null
      <3>1. CASE thread[main].at = "wait"
        BY <2>2, <3>1, NullAssumption DEF PromiseInv
      <3>2. CASE thread[main].at # "wait"
        BY <2>2, <3>2 DEF CallerInv
      <3> QED
        BY <3>1, <3>2
    <2>4. \A t2 \in Coro!Threads : thread[t2].at \in Outside
      BY <2>3, NullAssumption DEF OneRunner, Placed
    <2>5. /\ thread'[main] = [at |-> a, f |-> Null]
          /\ \A t2 \in Coro!Threads \ {main} : thread'[t2] = thread[t2]
      BY <2>1, <1>0 DEF CoroTypeOK
    <2>6. CoroTypeOK'
      BY <2>1, <2>2 DEF CoroTypeOK, Outside
    <2>7. OneRunner'
      BY <2>3, <2>4, <2>5 DEF OneRunner, Placed, Outside
    <2>8. PromiseInv'
      BY <2>2, <2>3, <2>5, <1>0 DEF PromiseInv, Outcome
    <2>9. CallerInv'
      BY <2>2, <2>3, <2>5, <1>0 DEF CallerInv, PromiseInv, Outcome
    <2> QED
      BY <2>6, <2>7, <2>8, <2>9
  <1>4. CASE Coro!DestroyFrames
    <2>1. /\ UNCHANGED <<thread, continuation_, state_, hopped, done_, mtx_, threw>>
          /\ frame' = [f \in Coro!Frames |-> "absent"]
          /\ thread[main].at \in {"returned", "failed"}
      BY <1>4 DEF Coro!DestroyFrames
    <2>2. \A t2 \in Coro!Threads : thread[t2].f = Null /\ thread[t2].at \in Outside
      BY <2>1, NullAssumption DEF CallerInv, OneRunner, Placed
    <2>3. CoroTypeOK'
      BY <2>1 DEF CoroTypeOK
    <2>4. OneRunner'
      BY <2>1, <2>2 DEF OneRunner, Placed
    <2>5. PromiseInv' /\ CallerInv'
      BY <2>1 DEF PromiseInv, CallerInv, Outcome
    <2> QED
      BY <2>3, <2>4, <2>5
  <1> QED
    BY <1>1, <1>2, <1>3, <1>4 DEF Coro!MainStep

\* CoroInv holds of every reachable state of the coroutines.
LEMMA CoroutinesInvariance == FairParts => [](part = "coroutines" => CoroInv)
  <1> DEFINE Inv == part = "coroutines" => CoroInv
  <1>1. InitParts => Inv
    BY CoroInitInv DEF InitParts
  <1>2. Inv /\ [Next]_partVars => Inv'
    <2> SUFFICES ASSUME Inv, [Next]_partVars, part' = "coroutines" PROVE CoroInv'
      OBVIOUS
    <2>1. CoroInv /\ (Coro!Next \/ UNCHANGED coroutinesVars)
      BY PartStays, CoroutinesMove
    <2>2. ASSUME NEW t1 \in Coro!Threads, Coro!Step(t1)
          PROVE  CoroInv'
      BY <2>1, <2>2, AwaitInv, ScheduleInv, LaunchInv, EndInv, ResumedInv, NotifyInv, OutsideInv
         DEF Coro!Step
    <2>3. CASE UNCHANGED coroutinesVars
      BY <2>1, <2>3
         DEF coroutinesVars, CoroInv, CoroTypeOK, OneRunner, PromiseInv, CallerInv, Placed, Outcome,
             InS, InR, InC
    <2> QED
      BY <2>1, <2>2, <2>3, OutsideInv DEF Coro!Next
  <1> QED
    BY <1>1, <1>2, PTL DEF FairParts

\* sync_wait returns when the task has ended, and throws exactly when it or a task it
\* awaited has thrown, on whichever thread that was.
THEOREM WaitTellsWhatHappened == FairParts => []WaitTellsTheOutcome
  <1>1. (part = "coroutines" => CoroInv) => WaitTellsTheOutcome
    BY DEF WaitTellsTheOutcome, Coro!WaitTellsTheOutcome, Coro!At, CoroInv, PromiseInv,
           CallerInv, Outcome
  <1> QED
    BY <1>1, CoroutinesInvariance, PTL

\* No thread is in a frame that has been destroyed, and no two are in one.
LEMMA NobodyIsInAFreedFrame == CoroInv => Coro!FramesAreSafe
  BY NullAssumption, FrameNames
     DEF CoroInv, CoroTypeOK, OneRunner, Placed, InS, InR, InC, Coro!FramesAreSafe

-----------------------------------------------------------------------------
(* Queues and stacks whose elements differ: their elements are a set.    *)

Elems(s)  == {s[i] : i \in DOMAIN s}
Differ(s) == \A i, j \in DOMAIN s : s[i] = s[j] => i = j

\* push to a queue.
LEMMA ElemsOfAppend ==
    ASSUME NEW S, NEW s \in Seq(S), NEW x \in S
    PROVE  /\ Append(s, x) \in Seq(S) /\ Elems(Append(s, x)) = Elems(s) \cup {x}
           /\ Differ(s) /\ x \notin Elems(s) => Differ(Append(s, x))
  <1> DEFINE q == Append(s, x)
  <1>1. q \in Seq(S) /\ Len(q) = Len(s) + 1
    OBVIOUS
  <1>2. DOMAIN s = 1 .. Len(s) /\ DOMAIN q = 1 .. Len(s) + 1 /\ Len(s) \in Nat
    BY <1>1
  <1>3. q[Len(s) + 1] = x /\ \A i \in DOMAIN s : q[i] = s[i]
    BY <1>2
  <1>4. Elems(q) = Elems(s) \cup {x}
    BY <1>2, <1>3 DEF Elems
  <1>5. ASSUME Differ(s), x \notin Elems(s) PROVE Differ(q)
    <2> HIDE DEF q
    <2> SUFFICES ASSUME NEW i \in DOMAIN q, NEW j \in DOMAIN q, q[i] = q[j] PROVE i = j
      BY DEF Differ
    <2>1. \A k \in DOMAIN s : q[k] # x
      BY <1>3, <1>5 DEF Elems
    <2>2. i \in DOMAIN s \/ i = Len(s) + 1
      BY <1>2
    <2>3. j \in DOMAIN s \/ j = Len(s) + 1
      BY <1>2
    <2> QED
      BY <2>1, <2>2, <2>3, <1>3, <1>5 DEF Differ
  <1> QED
    BY <1>1, <1>4, <1>5

\* pop from a queue, and from a stack.
LEMMA ElemsOfTail ==
    ASSUME NEW S, NEW s \in Seq(S), s # <<>>
    PROVE  /\ Head(s) \in S /\ Tail(s) \in Seq(S) /\ Elems(s) \subseteq S
           /\ Elems(s) = Elems(Tail(s)) \cup {Head(s)}
           /\ Differ(s) => Differ(Tail(s)) /\ Head(s) \notin Elems(Tail(s))
  <1> DEFINE q == Tail(s)
  <1>1. Head(s) = s[1] /\ q \in Seq(S) /\ Len(q) = Len(s) - 1 /\ Len(s) \in Nat /\ Len(s) > 0
    OBVIOUS
  <1>2. /\ DOMAIN s = 1 .. Len(s) /\ DOMAIN q = 1 .. Len(s) - 1
        /\ \A i \in 1 .. Len(s) : s[i] \in S
    BY <1>1
  <1>3. \A i \in DOMAIN q : q[i] = s[i + 1] /\ i + 1 \in DOMAIN s
    BY <1>1, <1>2
  <1>4. Elems(s) = Elems(q) \cup {Head(s)}
    <2> HIDE DEF q
    <2>1. \A i \in DOMAIN s : i = 1 \/ (i - 1 \in DOMAIN q /\ q[i - 1] = s[i])
      BY <1>1, <1>2, <1>3
    <2>2. 1 \in DOMAIN s
      BY <1>1, <1>2
    <2> QED
      BY <2>1, <2>2, <1>1, <1>3 DEF Elems
  <1>5. ASSUME Differ(s) PROVE Differ(q) /\ Head(s) \notin Elems(q)
    <2> HIDE DEF q
    <2>1. \A i, j \in DOMAIN q : q[i] = q[j] => i + 1 = j + 1
      BY <1>3, <1>5 DEF Differ
    <2>2. Differ(q)
      BY <2>1, <1>2 DEF Differ
    <2>3. \A i \in DOMAIN q : i + 1 # 1 /\ 1 \in DOMAIN s
      BY <1>1, <1>2
    <2> QED
      BY <2>2, <2>3, <1>1, <1>3, <1>5 DEF Elems, Differ
  <1>6. Head(s) \in S /\ Elems(s) \subseteq S
    BY <1>1, <1>2 DEF Elems
  <1> QED
    BY <1>1, <1>4, <1>5, <1>6

\* push to a stack.
LEMMA ElemsOfPush ==
    ASSUME NEW S, NEW s \in Seq(S), NEW x \in S
    PROVE  /\ <<x>> \o s \in Seq(S) /\ <<x>> \o s # <<>>
           /\ Elems(<<x>> \o s) = Elems(s) \cup {x}
           /\ Differ(s) /\ x \notin Elems(s) => Differ(<<x>> \o s)
  <1> DEFINE q == <<x>> \o s
  <1>1. q \in Seq(S) /\ Len(q) = Len(s) + 1 /\ Len(s) \in Nat
    OBVIOUS
  <1>2. DOMAIN s = 1 .. Len(s) /\ DOMAIN q = 1 .. Len(s) + 1
    BY <1>1
  <1>3. q[1] = x /\ \A i \in 1 .. Len(s) : q[i + 1] = s[i]
    OBVIOUS
  <1> HIDE DEF q
  <1>4. \A i \in DOMAIN q : i = 1 \/ (i - 1 \in DOMAIN s /\ q[i] = s[i - 1])
    <2> SUFFICES ASSUME NEW i \in DOMAIN q, i # 1 PROVE i - 1 \in DOMAIN s /\ q[i] = s[i - 1]
      OBVIOUS
    <2>1. i - 1 \in 1 .. Len(s) /\ (i - 1) + 1 = i
      BY <1>1, <1>2
    <2> QED
      BY <2>1, <1>2, <1>3
  <1>5. Elems(q) = Elems(s) \cup {x}
    <2>1. 1 \in DOMAIN q /\ \A i \in DOMAIN s : i + 1 \in DOMAIN q /\ q[i + 1] = s[i]
      BY <1>1, <1>2, <1>3
    <2> QED
      BY <2>1, <1>3, <1>4 DEF Elems
  <1>6. ASSUME Differ(s), x \notin Elems(s) PROVE Differ(q)
    <2>1. \A i \in DOMAIN s : s[i] # x
      BY <1>6 DEF Elems
    <2>2. ASSUME NEW i \in DOMAIN q, NEW j \in DOMAIN q, q[i] = q[j], i # 1, j # 1
          PROVE  i = j
      <3>1. i - 1 = j - 1
        BY <2>2, <1>4, <1>6 DEF Differ
      <3> QED
        BY <3>1, <1>2
    <2> QED
      BY <2>1, <2>2, <1>3, <1>4 DEF Differ
  <1>7. q # <<>>
    BY <1>1
  <1> QED
    BY <1>1, <1>5, <1>6, <1>7 DEF q

\* Where x is in a queue.
PlacesIn(s, x) == {j \in DOMAIN s : s[j] = x}

\* An element has one place in a queue, and what is no element has none.
LEMMA OnePlace ==
    ASSUME NEW s, Differ(s), NEW x
    PROVE  /\ x \in Elems(s) => \E i : PlacesIn(s, x) = {i}
           /\ x \notin Elems(s) => PlacesIn(s, x) = {}
  <1>1. ASSUME x \in Elems(s) PROVE \E i : PlacesIn(s, x) = {i}
    <2>1. PICK i \in DOMAIN s : s[i] = x
      BY <1>1 DEF Elems
    <2>2. PlacesIn(s, x) = {i}
      BY <2>1 DEF Differ, PlacesIn
    <2> QED
      BY <2>2
  <1>2. ASSUME x \notin Elems(s) PROVE PlacesIn(s, x) = {}
    BY <1>2 DEF Elems, PlacesIn
  <1> QED
    BY <1>1, <1>2

-----------------------------------------------------------------------------
(* ThreadPools: where its tasks are.  P is what is in the pool's queue,  *)
(* L[w] what is in w's, F[t] the frames on t's stack; st is the state    *)
(* and ow the owner of each task.                                        *)

PoolFrames == [task : Pools!Tasks \cup {Pools!None}, waits : Pools!Tasks \cup {Pools!None}]

PlacesTyped(P, L, F, ow) ==
    /\ P \subseteq Pools!Tasks /\ \A w \in Workers : L[w] \subseteq Pools!Tasks
    /\ \A t \in Pools!Threads : F[t] \subseteq PoolFrames
    /\ \A k \in Pools!Tasks : ow[k] \in Pools!Tasks \cup {Pools!None, Pools!Nobody}

\* A task is in one queue when it is queued, and in one frame when it is running; main's
\* own frame is the only one without a task.
InOnePlace(P, L, F, st) ==
    /\ \A w \in Workers : L[w] \cap P = {}
    /\ \A w, v \in Workers : w # v => L[w] \cap L[v] = {}
    /\ \A k \in Pools!Tasks : st[k] = "queued" <=> k \in P \/ \E w \in Workers : k \in L[w]
    /\ \A t, u \in Pools!Threads : \A x \in F[t], y \in F[u] : x.task = y.task => t = u /\ x = y
    /\ \A k \in Pools!Tasks :
           st[k] = "running" <=> \E t \in Pools!Threads : \E x \in F[t] : x.task = k
    /\ \A w \in Workers : \A x \in F[w] : x.task # Pools!None

\* A task is submitted by one that runs, to its thread's own queue or the pool's, and is
\* waited for by no other; while the pool's queue lives (al) none is dropped whose
\* submitter is there to wait for it.
InOrderOfSubmission(L, F, st, ow, al) ==
    /\ \A k \in Pools!Tasks : ow[k] \in Pools!Tasks => st[ow[k]] \in {"running", "done"}
    /\ \A w \in Workers : \A k \in L[w] :
           /\ ow[k] \in Pools!Tasks
           /\ \A t \in Pools!Threads : \A x \in F[t] : x.task = ow[k] => t = w
    /\ \A t \in Pools!Threads : \A x \in F[t] :
           x.waits # Pools!None => ow[x.waits] = x.task /\ st[x.waits] # "new"
    /\ al => \A t \in Pools!Threads : \A x \in F[t] : \A k \in Pools!Tasks :
                 ow[k] = x.task => st[k] # "dropped"

PlacesOK(P, L, F, st, ow, al) ==
    PlacesTyped(P, L, F, ow) /\ InOnePlace(P, L, F, st) /\ InOrderOfSubmission(L, F, st, ow, al)

\* g is f but for the value v at x.
OnlyAt(f, g, D, x, v) == g[x] = v /\ \A y \in D \ {x} : g[y] = f[y]

\* The three that own a future are not confused.
LEMMA PoolNames ==
    /\ Pools!None \notin Pools!Tasks
    /\ Pools!Nobody \notin Pools!Tasks /\ Pools!Nobody # Pools!None
    /\ Pools!Threads = Workers \cup {main} /\ main \notin Workers
  BY PoolsAssumption DEF Pools!Tasks, Pools!None, Pools!Nobody, Pools!Threads

\* A new task in a queue: w's own, if its thread has one.
LEMMA PlacesSubmit ==
    ASSUME NEW P, NEW L, NEW F, NEW st, NEW ow, NEW al, PlacesOK(P, L, F, st, ow, al),
           NEW P2, NEW L2, NEW st2, NEW ow2,
           NEW t1 \in Pools!Threads, NEW x \in F[t1], NEW k \in Pools!Tasks, st[k] = "new",
           \/ P2 = P \cup {k} /\ L2 = L
           \/ t1 \in Workers /\ P2 = P /\ OnlyAt(L, L2, Workers, t1, L[t1] \cup {k}),
           OnlyAt(st, st2, Pools!Tasks, k, "queued"),
           OnlyAt(ow, ow2, Pools!Tasks, k, x.task)
    PROVE  PlacesOK(P2, L2, F, st2, ow2, al)
  <1> USE PoolNames DEF PlacesOK, OnlyAt
  <1>1. x \in PoolFrames /\ x.task \in Pools!Tasks \cup {Pools!None}
    BY DEF PlacesTyped, PoolFrames
  <1>2. PlacesTyped(P2, L2, F, ow2)
    BY <1>1 DEF PlacesTyped
  <1>3. k \notin P /\ \A w \in Workers : k \notin L[w]
    BY DEF InOnePlace
  <1>4. InOnePlace(P2, L2, F, st2)
    BY <1>3 DEF InOnePlace
  <1>5. x.task \in Pools!Tasks => st[x.task] = "running"
    BY DEF InOnePlace
  <1>6. InOrderOfSubmission(L2, F, st2, ow2, al)
    <2>1. \A j \in Pools!Tasks : ow2[j] \in Pools!Tasks => st2[ow2[j]] \in {"running", "done"}
      BY <1>1, <1>5 DEF InOrderOfSubmission
    <2>2. ASSUME NEW w \in Workers, NEW j \in L2[w]
          PROVE  /\ ow2[j] \in Pools!Tasks
                 /\ \A t \in Pools!Threads : \A y \in F[t] : y.task = ow2[j] => t = w
      <3>1. CASE j \in L[w]
        BY <3>1, <1>3 DEF InOrderOfSubmission, PlacesTyped
      <3>2. CASE j \notin L[w]
        <4>1. j = k /\ t1 = w /\ ow2[j] = x.task /\ x.task # Pools!None
          BY <2>2, <3>2, <1>1 DEF InOnePlace
        <4> QED
          BY <4>1, <1>1 DEF InOnePlace
      <3> QED
        BY <3>1, <3>2
    <2>3. \A t \in Pools!Threads : \A y \in F[t] :
              y.waits # Pools!None => ow2[y.waits] = y.task /\ st2[y.waits] # "new"
      <3> SUFFICES ASSUME NEW t \in Pools!Threads, NEW y \in F[t], y.waits # Pools!None
                   PROVE  ow2[y.waits] = y.task /\ st2[y.waits] # "new"
        OBVIOUS
      <3>1. y.waits \in Pools!Tasks /\ y.task \in Pools!Tasks \cup {Pools!None}
        BY DEF PlacesTyped, PoolFrames
      <3>2. ow[y.waits] = y.task /\ st[y.waits] # "new"
        BY DEF InOrderOfSubmission
      <3>3. y.waits # k
        BY DEF InOrderOfSubmission
      <3> QED
        BY <3>1, <3>2, <3>3
    <2>4. al => \A t \in Pools!Threads : \A y \in F[t] : \A j \in Pools!Tasks :
                    ow2[j] = y.task => st2[j] # "dropped"
      BY DEF InOrderOfSubmission
    <2> QED
      BY <2>1, <2>2, <2>3, <2>4 DEF InOrderOfSubmission
  <1> QED
    BY <1>2, <1>4, <1>6

\* A frame begins to wait for a task its own task has submitted, or has its future.
LEMMA PlacesWait ==
    ASSUME NEW P, NEW L, NEW F, NEW st, NEW ow, NEW al, PlacesOK(P, L, F, st, ow, al),
           NEW F2, NEW ow2,
           NEW t1 \in Pools!Threads, NEW x \in F[t1], NEW y \in PoolFrames, y.task = x.task,
           OnlyAt(F, F2, Pools!Threads, t1, (F[t1] \ {x}) \cup {y}),
           NEW k \in Pools!Tasks,
           \/ y.waits = k /\ ow[k] = x.task /\ st[k] # "new" /\ ow2 = ow
           \/ /\ y.waits = Pools!None /\ x.waits = k /\ st[k] \in {"done", "dropped"}
              /\ OnlyAt(ow, ow2, Pools!Tasks, k, Pools!Nobody)
    PROVE  PlacesOK(P, L, F2, st, ow2, al)
  <1> USE PoolNames DEF PlacesOK, OnlyAt
  <1>1. x \in PoolFrames /\ x.task \in Pools!Tasks \cup {Pools!None}
    BY DEF PlacesTyped, PoolFrames
  <1>2. PlacesTyped(P, L, F2, ow2)
    BY DEF PlacesTyped
  <1>3. \A t \in Pools!Threads : \A z \in F2[t] :
            \/ z \in F[t] /\ z # x
            \/ t = t1 /\ z = y
    BY DEF InOnePlace
  <1>4. \A t \in Pools!Threads : \A z \in F[t] : \/ z \in F2[t]
                                                 \/ z = x /\ t = t1 /\ y \in F2[t]
    BY DEF InOnePlace
  <1>5. InOnePlace(P, L, F2, st)
    <2>1. \A t, u \in Pools!Threads : \A a \in F2[t], b \in F2[u] :
              a.task = b.task => t = u /\ a = b
      BY <1>3 DEF InOnePlace
    <2>2. \A j \in Pools!Tasks :
              st[j] = "running" <=> \E t \in Pools!Threads : \E a \in F2[t] : a.task = j
      BY <1>3, <1>4 DEF InOnePlace
    <2>3. \A w \in Workers : \A a \in F2[w] : a.task # Pools!None
      BY <1>3 DEF InOnePlace
    <2> QED
      BY <2>1, <2>2, <2>3 DEF InOnePlace
  <1>6. InOrderOfSubmission(L, F2, st, ow2, al)
    <2>1. \A j \in Pools!Tasks : ow2[j] \in Pools!Tasks => st[ow2[j]] \in {"running", "done"}
      BY DEF InOrderOfSubmission
    <2>2. ASSUME NEW w \in Workers, NEW j \in L[w]
          PROVE  /\ ow2[j] \in Pools!Tasks
                 /\ \A t \in Pools!Threads : \A z \in F2[t] : z.task = ow2[j] => t = w
      <3>1. j \in Pools!Tasks /\ st[j] = "queued"
        BY DEF PlacesTyped, InOnePlace
      <3>2. ow2[j] = ow[j]
        BY <3>1
      <3> QED
        BY <1>3, <3>1, <3>2 DEF InOrderOfSubmission
    <2>3. \A t \in Pools!Threads : \A z \in F2[t] :
              z.waits # Pools!None => ow2[z.waits] = z.task /\ st[z.waits] # "new"
      <3> SUFFICES ASSUME NEW t \in Pools!Threads, NEW z \in F2[t], z.waits # Pools!None
                   PROVE  ow2[z.waits] = z.task /\ st[z.waits] # "new"
        OBVIOUS
      <3>1. CASE z = y
        BY <3>1, <1>1
      <3>2. CASE z # y
        <4>1. z \in F[t] /\ z # x /\ z.task # x.task
          BY <3>2, <1>3 DEF InOnePlace
        <4>2. z.waits \in Pools!Tasks
          BY <4>1 DEF PlacesTyped, PoolFrames
        <4>3. ow[z.waits] = z.task /\ st[z.waits] # "new"
          BY <4>1 DEF InOrderOfSubmission
        <4>4. x.waits # Pools!None => ow[x.waits] = x.task
          BY DEF InOrderOfSubmission
        <4> QED
          BY <4>1, <4>2, <4>3, <4>4
      <3> QED
        BY <3>1, <3>2
    <2>4. al => \A t \in Pools!Threads : \A z \in F2[t] : \A j \in Pools!Tasks :
                    ow2[j] = z.task => st[j] # "dropped"
      <3> SUFFICES ASSUME al, NEW t \in Pools!Threads, NEW z \in F2[t], NEW j \in Pools!Tasks,
                          ow2[j] = z.task
                   PROVE  st[j] # "dropped"
        OBVIOUS
      <3>1. PICK a \in F[t] : a.task = z.task
        BY <1>3
      <3>2. a.task \in Pools!Tasks \cup {Pools!None}
        BY DEF PlacesTyped, PoolFrames
      <3> QED
        BY <3>1, <3>2 DEF InOrderOfSubmission
    <2> QED
      BY <2>1, <2>2, <2>3, <2>4 DEF InOrderOfSubmission
  <1> QED
    BY <1>2, <1>5, <1>6

\* A task's frame is popped when it is done.
LEMMA PlacesFinish ==
    ASSUME NEW P, NEW L, NEW F, NEW st, NEW ow, NEW al, PlacesOK(P, L, F, st, ow, al),
           NEW F2, NEW st2, NEW t1 \in Pools!Threads, NEW x \in F[t1], x.task # Pools!None,
           OnlyAt(F, F2, Pools!Threads, t1, F[t1] \ {x}),
           OnlyAt(st, st2, Pools!Tasks, x.task, "done")
    PROVE  PlacesOK(P, L, F2, st2, ow, al)
  <1> USE PoolNames DEF PlacesOK, OnlyAt
  <1>1. x.task \in Pools!Tasks /\ st[x.task] = "running"
    BY DEF PlacesTyped, PoolFrames, InOnePlace
  <1>2. PlacesTyped(P, L, F2, ow)
    BY DEF PlacesTyped
  <1>3. \A t \in Pools!Threads : \A z : z \in F2[t] <=> z \in F[t] /\ z # x
    BY DEF InOnePlace
  <1>4. InOnePlace(P, L, F2, st2)
    <2>1. \A t, u \in Pools!Threads : \A a \in F2[t], b \in F2[u] :
              a.task = b.task => t = u /\ a = b
      BY <1>3 DEF InOnePlace
    <2>2. \A j \in Pools!Tasks :
              st2[j] = "running" <=> \E t \in Pools!Threads : \E a \in F2[t] : a.task = j
      BY <1>1, <1>3 DEF InOnePlace
    <2>3. \A w \in Workers : \A a \in F2[w] : a.task # Pools!None
      BY <1>3 DEF InOnePlace
    <2>4. \A j \in Pools!Tasks : st2[j] = "queued" <=> st[j] = "queued"
      BY <1>1
    <2> QED
      BY <2>1, <2>2, <2>3, <2>4 DEF InOnePlace
  <1>5. InOrderOfSubmission(L, F2, st2, ow, al)
    <2>1. \A j \in Pools!Tasks : st[j] = "new" <=> st2[j] = "new"
      BY <1>1
    <2>2. \A j \in Pools!Tasks : st[j] = "dropped" <=> st2[j] = "dropped"
      BY <1>1
    <2>3. \A t \in Pools!Threads : \A z \in F2[t] : z.waits \in Pools!Tasks \cup {Pools!None}
      BY <1>2 DEF PlacesTyped, PoolFrames
    <2> QED
      BY <1>1, <1>3, <2>1, <2>2, <2>3 DEF InOrderOfSubmission
  <1> QED
    BY <1>2, <1>4, <1>5

\* run_pending_task takes a task off a queue and runs it in a frame of its own.
LEMMA PlacesRun ==
    ASSUME NEW P, NEW L, NEW F, NEW st, NEW ow, NEW al, PlacesOK(P, L, F, st, ow, al),
           NEW P2, NEW L2, NEW F2, NEW st2, NEW t1 \in Pools!Threads, NEW k \in Pools!Tasks,
           \/ k \in P /\ P2 = P \ {k} /\ L2 = L
           \/ t1 \in Workers /\ k \in L[t1] /\ P2 = P /\ OnlyAt(L, L2, Workers, t1, L[t1] \ {k}),
           NEW x \in PoolFrames, x.task = k, x.waits = Pools!None,
           OnlyAt(F, F2, Pools!Threads, t1, F[t1] \cup {x}),
           OnlyAt(st, st2, Pools!Tasks, k, "running")
    PROVE  PlacesOK(P2, L2, F2, st2, ow, al)
  <1> USE PoolNames DEF PlacesOK, OnlyAt
  <1>1. st[k] = "queued"
    BY DEF InOnePlace
  <1>2. PlacesTyped(P2, L2, F2, ow)
    BY DEF PlacesTyped
  <1>3. \A t \in Pools!Threads : \A z : z \in F2[t] <=> z \in F[t] \/ (t = t1 /\ z = x)
    OBVIOUS
  <1>4. \A t \in Pools!Threads : \A z \in F[t] : z.task # k
    BY <1>1 DEF InOnePlace
  <1>5. \A w \in Workers : \A j : j \in L2[w] <=> j \in L[w] /\ j # k
    BY DEF InOnePlace
  <1>6. \A j : j \in P2 <=> j \in P /\ j # k
    BY DEF InOnePlace
  <1>7. InOnePlace(P2, L2, F2, st2)
    <2>1. \A t, u \in Pools!Threads : \A a \in F2[t], b \in F2[u] :
              a.task = b.task => t = u /\ a = b
      BY <1>3, <1>4 DEF InOnePlace
    <2>2. \A j \in Pools!Tasks :
              st2[j] = "running" <=> \E t \in Pools!Threads : \E a \in F2[t] : a.task = j
      <3>1. x \in F2[t1]
        BY <1>3
      <3>2. \A j \in Pools!Tasks \ {k} :
                (\E t \in Pools!Threads : \E a \in F2[t] : a.task = j)
                  <=> (\E t \in Pools!Threads : \E a \in F[t] : a.task = j)
        BY <1>3
      <3> QED
        BY <3>1, <3>2 DEF InOnePlace
    <2>3. \A w \in Workers : \A a \in F2[w] : a.task # Pools!None
      BY <1>3 DEF InOnePlace
    <2>4. \A j \in Pools!Tasks :
              st2[j] = "queued" <=> j \in P2 \/ \E w \in Workers : j \in L2[w]
      BY <1>5, <1>6 DEF InOnePlace
    <2>5. \A w \in Workers : L2[w] \cap P2 = {}
      BY <1>5, <1>6 DEF InOnePlace
    <2>6. \A w, v \in Workers : w # v => L2[w] \cap L2[v] = {}
      BY <1>5 DEF InOnePlace
    <2> QED
      BY <2>1, <2>2, <2>3, <2>4, <2>5, <2>6 DEF InOnePlace
  <1>8. InOrderOfSubmission(L2, F2, st2, ow, al)
    <2>1. \A j \in Pools!Tasks : ow[j] # k
      BY <1>1 DEF InOrderOfSubmission
    <2>2. \A j \in Pools!Tasks : ow[j] \in Pools!Tasks => st2[ow[j]] \in {"running", "done"}
      BY DEF InOrderOfSubmission
    <2>3. ASSUME NEW w \in Workers, NEW j \in L2[w]
          PROVE  /\ ow[j] \in Pools!Tasks
                 /\ \A t \in Pools!Threads : \A z \in F2[t] : z.task = ow[j] => t = w
      <3>1. j \in L[w] /\ j \in Pools!Tasks
        BY <1>2, <1>5 DEF PlacesTyped
      <3> QED
        BY <3>1, <1>3, <2>1 DEF InOrderOfSubmission
    <2>4. \A t \in Pools!Threads : \A z \in F2[t] :
              z.waits # Pools!None => ow[z.waits] = z.task /\ st2[z.waits] # "new"
      <3> SUFFICES ASSUME NEW t \in Pools!Threads, NEW z \in F2[t], z.waits # Pools!None
                   PROVE  ow[z.waits] = z.task /\ st2[z.waits] # "new"
        OBVIOUS
      <3>1. z \in F[t]
        BY <1>3
      <3>2. z.waits \in Pools!Tasks
        BY <3>1 DEF PlacesTyped, PoolFrames
      <3> QED
        BY <3>1, <3>2 DEF InOrderOfSubmission
    <2>5. al => \A t \in Pools!Threads : \A z \in F2[t] : \A j \in Pools!Tasks :
                    ow[j] = z.task => st2[j] # "dropped"
      BY <1>3, <2>1 DEF InOrderOfSubmission
    <2> QED
      BY <2>2, <2>3, <2>4, <2>5 DEF InOrderOfSubmission
  <1> QED
    BY <1>2, <1>7, <1>8

\* What is left in a queue that is destroyed is dropped.
Dropped(D, st, st2) == \A k \in Pools!Tasks : st2[k] = IF k \in D THEN "dropped" ELSE st[k]

\* The queue is the pool's, which is not alive then, or that of a worker that is in no task.
QueueEnds(D, P, L, F, al, P2, L2, al2) ==
    \/ D = P /\ P2 = {} /\ L2 = L /\ ~al2
    \/ \E w \in Workers : /\ D = L[w] /\ P2 = P /\ OnlyAt(L, L2, Workers, w, {})
                          /\ F[w] = {} /\ al2 = al

\* A queue is destroyed with what is left in it.
LEMMA PlacesDrop ==
    ASSUME NEW P, NEW L, NEW F, NEW st, NEW ow, NEW al, PlacesOK(P, L, F, st, ow, al),
           NEW P2, NEW L2, NEW st2, NEW al2, NEW D,
           QueueEnds(D, P, L, F, al, P2, L2, al2), Dropped(D, st, st2)
    PROVE  PlacesOK(P2, L2, F, st2, ow, al2)
  <1> USE PoolNames DEF PlacesOK, Dropped, QueueEnds
  <1>1. \A k \in Pools!Tasks : /\ k \in D => st2[k] = "dropped" /\ st[k] = "queued"
                               /\ k \notin D => st2[k] = st[k]
    BY DEF InOnePlace
  <1>2. PlacesTyped(P2, L2, F, ow)
    BY DEF PlacesTyped, OnlyAt
  <1>3. /\ \A j : j \in P2 <=> j \in P /\ j \notin D
        /\ \A w \in Workers : \A j : j \in L2[w] <=> j \in L[w] /\ j \notin D
    BY DEF InOnePlace, OnlyAt
  <1>4. InOnePlace(P2, L2, F, st2)
    <2>1. \A j \in Pools!Tasks :
              st2[j] = "running" <=> \E t \in Pools!Threads : \E a \in F[t] : a.task = j
      BY <1>1 DEF InOnePlace
    <2>2. \A j \in Pools!Tasks :
              st2[j] = "queued" <=> j \in P2 \/ \E w \in Workers : j \in L2[w]
      BY <1>1, <1>3 DEF InOnePlace
    <2>3. \A w \in Workers : L2[w] \cap P2 = {}
      BY <1>3 DEF InOnePlace
    <2>4. \A w, v \in Workers : w # v => L2[w] \cap L2[v] = {}
      BY <1>3 DEF InOnePlace
    <2> QED
      BY <2>1, <2>2, <2>3, <2>4 DEF InOnePlace
  <1>5. InOrderOfSubmission(L2, F, st2, ow, al2)
    <2>1. \A k \in Pools!Tasks : ow[k] \in Pools!Tasks => st2[ow[k]] \in {"running", "done"}
      BY <1>1 DEF InOrderOfSubmission
    <2>2. \A t \in Pools!Threads : \A x \in F[t] :
              x.waits # Pools!None => ow[x.waits] = x.task /\ st2[x.waits] # "new"
      <3> SUFFICES ASSUME NEW t \in Pools!Threads, NEW x \in F[t], x.waits # Pools!None
                   PROVE  ow[x.waits] = x.task /\ st2[x.waits] # "new"
        OBVIOUS
      <3>1. x.waits \in Pools!Tasks
        BY DEF PlacesTyped, PoolFrames
      <3> QED
        BY <3>1, <1>1 DEF InOrderOfSubmission
    <2>3. \A w \in Workers : \A k \in L2[w] :
              /\ ow[k] \in Pools!Tasks
              /\ \A t \in Pools!Threads : \A x \in F[t] : x.task = ow[k] => t = w
      BY <1>3 DEF InOrderOfSubmission
    <2>4. ASSUME al2, NEW t \in Pools!Threads, NEW x \in F[t], NEW k \in Pools!Tasks,
                 ow[k] = x.task
          PROVE  st2[k] # "dropped"
      <3>1. PICK w \in Workers : D = L[w] /\ F[w] = {} /\ al2 = al
        BY <2>4
      <3>2. k \notin D
        BY <2>4, <3>1 DEF InOrderOfSubmission
      <3> QED
        BY <2>4, <3>1, <3>2, <1>1 DEF InOrderOfSubmission
    <2> QED
      BY <2>1, <2>2, <2>3, <2>4 DEF InOrderOfSubmission
  <1> QED
    BY <1>2, <1>4, <1>5

\* Pools!Next is all that happens to the pools.
LEMMA PoolsMove ==
    [Next]_partVars /\ part = "pools" => Pools!Next \/ UNCHANGED poolsVars
  BY DEF Next, FreeStep, OwnersStep, Step, QuicksortOnly, PoolsOnly, ProgramsOnly,
         CoroutinesOnly, GeneratorsOnly, ListOnly, InterruptsOnly, partVars, Pools!Next

InPool  == Elems(pool_work_queue)
InLocal == [w \in Workers |-> Elems(local_work_queue[w])]
OnStack == [t1 \in Pools!Threads |-> Elems(stack[t1])]

WorkersAt == {"not started", "loop", "look", "ended"}
MainAt    == {"constructor", "client", "destructor", "joiner", "queue", "destroyed"}
NoThread  == {"not started", "ended"}

AllDiffer == /\ Differ(pool_work_queue) /\ \A w \in Workers : Differ(local_work_queue[w])
             /\ \A t1 \in Pools!Threads : Differ(stack[t1])

Places == PlacesOK(InPool, InLocal, OnStack, state, owner, alive)

\* A worker whose loop has not begun or has ended is in no task; main is in its own frame,
\* above which there is nothing but while it uses the pool.
ThreadsInv ==
    /\ at \in [Pools!Threads -> WorkersAt \cup MainAt] /\ at[main] \in MainAt
    /\ \A w \in Workers : at[w] \in WorkersAt /\ (at[w] \in NoThread => stack[w] = <<>>)
    /\ \E x \in OnStack[main] : x.task = Pools!None
    /\ at[main] # "client" => stack[main] = <<Pools!Frame(Pools!None)>>

\* A pool whose members are in the right order joins its workers before the queue goes.
MembersInv ==
    /\ crashed => ~alive
    /\ ~class.queueFirst =>
           /\ ~crashed /\ at[main] # "joiner"
           /\ ~alive => at[main] = "destroyed"
           /\ at[main] \in {"queue", "destroyed"} => \A w \in Workers : at[w] \in NoThread

PoolInv == Pools!TypeOK /\ AllDiffer /\ Places /\ ThreadsInv /\ MembersInv

\* The invariant holds of a pool that is about to be constructed.
LEMMA PoolInitInv == Pools!Init => PoolInv
  <1> SUFFICES ASSUME Pools!Init PROVE PoolInv
    OBVIOUS
  <1> USE PoolNames
  <1> DEFINE fr == Pools!Frame(Pools!None)
  <1>1. /\ fr \in PoolFrames /\ fr.task = Pools!None /\ fr.waits = Pools!None
        /\ <<fr>> \in Seq(PoolFrames)
    BY DEF PoolFrames, Pools!Frame
  <1>2. Elems(<<fr>>) = {fr} /\ Differ(<<fr>>) /\ Elems(<<>>) = {} /\ Differ(<<>>)
    BY DEF Elems, Differ
  <1> HIDE DEF fr
  <1>3. /\ pool_work_queue = <<>> /\ local_work_queue = [w \in Workers |-> <<>>]
        /\ state = [k \in Pools!Tasks |-> "new"] /\ owner = [k \in Pools!Tasks |-> Pools!None]
        /\ stack = [t1 \in Pools!Threads |-> IF t1 = main THEN <<fr>> ELSE <<>>]
        /\ at = [t1 \in Pools!Threads |-> IF t1 = main THEN "constructor" ELSE "not started"]
        /\ class \in Pools!Classes /\ done = FALSE /\ alive = TRUE /\ crashed = FALSE
    BY DEF Pools!Init, fr
  <1>4. Pools!TypeOK
    <2>1. <<>> \in Seq(Pools!Tasks) /\ <<>> \in Seq(PoolFrames)
      OBVIOUS
    <2>4. done \in BOOLEAN /\ alive \in BOOLEAN /\ crashed \in BOOLEAN
      BY <1>3
    <2>2. stack \in [Pools!Threads -> Seq(PoolFrames)]
      BY <1>1, <1>3, <2>1
    <2>3. /\ state \in [Pools!Tasks -> {"new", "queued", "running", "done", "dropped"}]
          /\ owner \in [Pools!Tasks -> Pools!Tasks \cup {Pools!None, Pools!Nobody}]
          /\ local_work_queue \in [Workers -> Seq(Pools!Tasks)]
      BY <1>3, <2>1
    <2> QED
      BY <1>3, <2>1, <2>2, <2>3, <2>4 DEF Pools!TypeOK, PoolFrames
  <1>5. AllDiffer
    BY <1>2, <1>3 DEF AllDiffer
  <1>6. /\ InPool = {} /\ \A w \in Workers : InLocal[w] = {}
        /\ OnStack[main] = {fr} /\ \A w \in Workers : OnStack[w] = {}
    BY <1>2, <1>3 DEF InPool, InLocal, OnStack
  <1>7. Places
    <2>1. PlacesTyped(InPool, InLocal, OnStack, owner)
      BY <1>1, <1>3, <1>6 DEF PlacesTyped
    <2>2. InOnePlace(InPool, InLocal, OnStack, state)
      <3>1. \A t1 \in Pools!Threads : \A x \in OnStack[t1] : t1 = main /\ x = fr
        BY <1>6
      <3>2. \A k \in Pools!Tasks : state[k] = "new" /\ k # fr.task
        BY <1>1, <1>3
      <3> QED
        BY <1>6, <3>1, <3>2 DEF InOnePlace
    <2>3. InOrderOfSubmission(InLocal, OnStack, state, owner, alive)
      BY <1>1, <1>3, <1>6 DEF InOrderOfSubmission
    <2> QED
      BY <2>1, <2>2, <2>3 DEF Places, PlacesOK
  <1>8. ThreadsInv
    BY <1>1, <1>3, <1>6 DEF ThreadsInv, WorkersAt, MainAt, NoThread, fr
  <1>9. MembersInv
    BY <1>3 DEF MembersInv
  <1> QED
    BY <1>4, <1>5, <1>7, <1>8, <1>9 DEF PoolInv

\* What TypeOK says of the functions, and of the sequences in them.
LEMMA PoolTypes ==
    ASSUME Pools!TypeOK
    PROVE  /\ pool_work_queue \in Seq(Pools!Tasks)
           /\ \A w \in Workers : local_work_queue[w] \in Seq(Pools!Tasks)
           /\ \A t1 \in Pools!Threads : stack[t1] \in Seq(PoolFrames)
           /\ \A w \in Workers : InLocal[w] = Elems(local_work_queue[w])
           /\ \A t1 \in Pools!Threads : OnStack[t1] = Elems(stack[t1])
  BY DEF Pools!TypeOK, PoolFrames, InLocal, OnStack

\* The top of a stack is one of its frames, and those below it are the others.
LEMMA PoolTop ==
    ASSUME PoolInv, NEW t1 \in Pools!Threads, stack[t1] # <<>>
    PROVE  /\ Pools!Top(t1) \in OnStack[t1] /\ Pools!Top(t1) \in PoolFrames
           /\ Pools!Top(t1).task \in Pools!Tasks \cup {Pools!None}
           /\ Pools!Top(t1).waits \in Pools!Tasks \cup {Pools!None}
           /\ Pools!Below(t1) \in Seq(PoolFrames) /\ Differ(Pools!Below(t1))
           /\ Elems(Pools!Below(t1)) = OnStack[t1] \ {Pools!Top(t1)}
  <1>1. stack[t1] \in Seq(PoolFrames) /\ OnStack[t1] = Elems(stack[t1]) /\ Differ(stack[t1])
    BY PoolTypes DEF PoolInv, AllDiffer
  <1>2. Pools!Top(t1) \in PoolFrames
    BY <1>1, ElemsOfTail DEF Pools!Top
  <1> QED
    BY <1>1, <1>2, ElemsOfTail DEF Pools!Top, Pools!Below, PoolFrames

\* Only the stack of t1 changes, or nobody's.
LEMMA StacksMove ==
    ASSUME PoolInv, NEW t1 \in Pools!Threads, NEW s \in Seq(PoolFrames), Differ(s),
           stack' = [stack EXCEPT ![t1] = s]
    PROVE  /\ stack' \in [Pools!Threads -> Seq(PoolFrames)]
           /\ \A t2 \in Pools!Threads : Differ(stack'[t2])
           /\ stack'[t1] = s /\ \A t2 \in Pools!Threads \ {t1} : stack'[t2] = stack[t2]
           /\ OnlyAt(OnStack, OnStack', Pools!Threads, t1, Elems(s))
  <1>1. stack \in [Pools!Threads -> Seq(PoolFrames)]
    BY DEF PoolInv, Pools!TypeOK, PoolFrames
  <1>2. \A t2 \in Pools!Threads : Differ(stack[t2])
    BY DEF PoolInv, AllDiffer
  <1>3. \A t2 \in Pools!Threads : OnStack[t2] = Elems(stack[t2]) /\ OnStack'[t2] = Elems(stack'[t2])
    BY DEF OnStack
  <1> QED
    BY <1>1, <1>2, <1>3 DEF OnlyAt

\* submit, to the pool's queue or to the thread's own.
LEMMA SubmitInv ==
    ASSUME PoolInv, ~crashed, NEW t1 \in Pools!Threads, NEW k \in Pools!Tasks, Pools!Submit(t1, k)
    PROVE  PoolInv'
  <1> USE PoolNames
  <1>1. /\ stack[t1] # <<>> /\ (t1 = main => at[main] = "client") /\ state[k] = "new"
        /\ state' = [state EXCEPT ![k] = "queued"]
        /\ owner' = [owner EXCEPT ![k] = Pools!Top(t1).task]
        /\ UNCHANGED <<class, done, alive, stack, at>>
    BY DEF Pools!Submit, Pools!Runs, Pools!Become
  <1>2. PICK x \in OnStack[t1] : /\ x = Pools!Top(t1) /\ x \in PoolFrames
                                 /\ x.task \in Pools!Tasks \cup {Pools!None}
    BY <1>1, PoolTop
  <1>3. /\ OnlyAt(state, state', Pools!Tasks, k, "queued")
        /\ OnlyAt(owner, owner', Pools!Tasks, k, x.task)
        /\ state' \in [Pools!Tasks -> {"new", "queued", "running", "done", "dropped"}]
        /\ owner' \in [Pools!Tasks -> Pools!Tasks \cup {Pools!None, Pools!Nobody}]
    BY <1>1, <1>2 DEF OnlyAt, PoolInv, Pools!TypeOK
  <1>4. OnStack' = OnStack
    BY <1>1 DEF OnStack
  <1>5. k \notin InPool /\ \A w \in Workers : k \notin InLocal[w]
    BY <1>1 DEF PoolInv, Places, PlacesOK, InOnePlace
  <1>6. CASE class.local /\ t1 # main
    <2>1. /\ local_work_queue' = [local_work_queue EXCEPT ![t1] = Append(@, k)]
          /\ UNCHANGED <<pool_work_queue, crashed>>
      BY <1>6 DEF Pools!Submit
    <2>2. t1 \in Workers
      BY <1>6
    <2>3. /\ Append(local_work_queue[t1], k) \in Seq(Pools!Tasks)
          /\ Elems(Append(local_work_queue[t1], k)) = InLocal[t1] \cup {k}
          /\ Differ(Append(local_work_queue[t1], k))
      BY <1>5, <2>2, PoolTypes, ElemsOfAppend DEF PoolInv, AllDiffer
    <2>4. /\ OnlyAt(InLocal, InLocal', Workers, t1, InLocal[t1] \cup {k})
          /\ local_work_queue' \in [Workers -> Seq(Pools!Tasks)]
          /\ \A w \in Workers : Differ(local_work_queue'[w])
      BY <2>1, <2>2, <2>3 DEF OnlyAt, InLocal, PoolInv, Pools!TypeOK, AllDiffer
    <2>5. InPool' = InPool
      BY <2>1 DEF InPool
    <2>6. PlacesOK(InPool', InLocal', OnStack', state', owner', alive')
      BY <1>1, <1>3, <1>4, <2>2, <2>4, <2>5, PlacesSubmit DEF PoolInv, Places
    <2>7. Pools!TypeOK' /\ AllDiffer'
      BY <1>1, <1>3, <2>1, <2>4 DEF PoolInv, Pools!TypeOK, AllDiffer
    <2>8. ThreadsInv' /\ MembersInv'
      BY <1>1, <1>4, <2>1 DEF PoolInv, ThreadsInv, MembersInv
    <2> QED
      BY <2>6, <2>7, <2>8 DEF PoolInv, Places
  <1>7. CASE ~(class.local /\ t1 # main)
    <2>1. /\ pool_work_queue' = Append(pool_work_queue, k) /\ crashed' = ~alive
          /\ UNCHANGED local_work_queue
      BY <1>7 DEF Pools!Submit
    <2>2. /\ pool_work_queue' \in Seq(Pools!Tasks) /\ Differ(pool_work_queue')
          /\ InPool' = InPool \cup {k}
      BY <1>5, <2>1, PoolTypes, ElemsOfAppend DEF PoolInv, AllDiffer, InPool
    <2>3. InLocal' = InLocal
      BY <2>1 DEF InLocal
    <2>4. PlacesOK(InPool', InLocal', OnStack', state', owner', alive')
      <3>1. /\ PlacesOK(InPool, InLocal, OnStack, state, owner, alive)
            /\ state[k] = "new" /\ alive' = alive
        BY <1>1 DEF PoolInv, Places
      <3>2. PICK P2 : P2 = InPool' /\ P2 = InPool \cup {k}
        BY <2>2
      <3>3. PlacesOK(P2, InLocal, OnStack, state', owner', alive)
        BY ONLY t1 \in Pools!Threads, k \in Pools!Tasks, x \in OnStack[t1], <3>1, <3>2, <1>3,
           PlacesSubmit
      <3> QED
        BY <1>4, <2>3, <3>1, <3>2, <3>3
    <2>5. Pools!TypeOK' /\ AllDiffer'
      BY <1>1, <1>3, <2>1, <2>2 DEF PoolInv, Pools!TypeOK, AllDiffer
    <2>6. ThreadsInv'
      BY <1>1, <1>4 DEF PoolInv, ThreadsInv
    <2>7. MembersInv'
      <3>1. ASSUME ~class.queueFirst PROVE alive
        <4>1. t1 \in Workers => at[t1] \notin NoThread
          BY <1>1 DEF PoolInv, ThreadsInv
        <4> QED
          BY <3>1, <4>1, <1>1 DEF PoolInv, MembersInv
      <3>2. crashed' => ~alive'
        BY <1>1, <2>1
      <3>3. ~class.queueFirst => ~crashed'
        BY <2>1, <3>1
      <3> QED
        BY <1>1, <3>2, <3>3 DEF PoolInv, MembersInv
    <2> QED
      BY <2>4, <2>5, <2>6, <2>7 DEF PoolInv, Places
  <1> QED
    BY <1>6, <1>7

\* A thread that is not at its end changes its stack, or goes to its loop again.
LEMMA RunningThread ==
    ASSUME PoolInv, NEW t1 \in Pools!Threads, NEW s \in Seq(PoolFrames), Differ(s),
           stack' = [stack EXCEPT ![t1] = s],
           UNCHANGED <<class, alive, crashed>>,
           at' = at \/ (at' = [at EXCEPT ![t1] = "loop"] /\ t1 \in Workers),
           t1 = main => at[main] = "client" /\ \E x \in Elems(s) : x.task = Pools!None,
           t1 \in Workers => at[t1] \notin NoThread
    PROVE  ThreadsInv' /\ MembersInv'
  <1> USE PoolNames
  <1>1. /\ OnlyAt(OnStack, OnStack', Pools!Threads, t1, Elems(s))
        /\ stack'[t1] = s /\ \A t2 \in Pools!Threads \ {t1} : stack'[t2] = stack[t2]
    BY StacksMove
  <1>2. /\ at' \in [Pools!Threads -> WorkersAt \cup MainAt]
        /\ \A t2 \in Pools!Threads \ {t1} : at'[t2] = at[t2]
        /\ at'[t1] = at[t1] \/ (at'[t1] = "loop" /\ t1 \in Workers)
    BY DEF PoolInv, ThreadsInv, WorkersAt
  <1>3. at'[main] = at[main] /\ \A w \in Workers : at'[w] \in NoThread <=> at[w] \in NoThread
    BY <1>2 DEF NoThread
  <1>4. ThreadsInv'
    <2>1. at'[main] \in MainAt /\ \A w \in Workers : at'[w] \in WorkersAt
      BY <1>2, <1>3 DEF PoolInv, ThreadsInv, WorkersAt
    <2>2. \A w \in Workers : at'[w] \in NoThread => stack'[w] = <<>>
      BY <1>1, <1>3 DEF PoolInv, ThreadsInv
    <2>3. \E x \in OnStack'[main] : x.task = Pools!None
      BY <1>1 DEF PoolInv, ThreadsInv, OnlyAt
    <2>4. at'[main] # "client" => stack'[main] = <<Pools!Frame(Pools!None)>>
      BY <1>1, <1>3 DEF PoolInv, ThreadsInv
    <2> QED
      BY <1>2, <2>1, <2>2, <2>3, <2>4 DEF ThreadsInv
  <1>5. MembersInv'
    BY <1>3 DEF PoolInv, MembersInv
  <1> QED
    BY <1>4, <1>5

\* Another frame of the same task on top.
LEMMA NewTop ==
    ASSUME PoolInv, NEW t1 \in Pools!Threads, stack[t1] # <<>>,
           NEW y \in PoolFrames, y.task = Pools!Top(t1).task
    PROVE  /\ <<y>> \o Pools!Below(t1) \in Seq(PoolFrames)
           /\ Differ(<<y>> \o Pools!Below(t1))
           /\ Elems(<<y>> \o Pools!Below(t1)) = (OnStack[t1] \ {Pools!Top(t1)}) \cup {y}
  <1>1. PICK x \in OnStack[t1], s \in Seq(PoolFrames) :
            /\ x = Pools!Top(t1) /\ s = Pools!Below(t1)
            /\ Differ(s) /\ Elems(s) = OnStack[t1] \ {x}
    BY PoolTop
  <1>2. y \notin Elems(s)
    <2>1. \A z \in OnStack[t1] : z.task = x.task => z = x
      BY DEF PoolInv, Places, PlacesOK, InOnePlace
    <2> QED
      BY <1>1, <2>1
  <1> QED
    BY <1>1, <1>2, ElemsOfPush

\* main is out of its own code only when it uses the pool, and a worker that has a task
\* is neither before its loop nor after it.
LEMMA WhereRunning ==
    ASSUME PoolInv, NEW t1 \in Pools!Threads, stack[t1] # <<>>,
           t1 = main => at[main] = "client" \/ Pools!Top(main).waits # Pools!None
    PROVE  /\ t1 = main => at[main] = "client"
           /\ t1 \in Workers => at[t1] \notin NoThread
  <1>1. Head(<<Pools!Frame(Pools!None)>>).waits = Pools!None
    BY DEF Pools!Frame
  <1> QED
    BY <1>1 DEF PoolInv, ThreadsInv, Pools!Top

\* A thread waits for a future, and gets it.
LEMMA WaitInv ==
    ASSUME PoolInv, NEW t1 \in Pools!Threads, NEW k \in Pools!Tasks,
           Pools!Wait(t1, k) \/ Pools!Get(t1, k)
    PROVE  PoolInv'
  <1> USE PoolNames
  <1>1. /\ stack[t1] # <<>>
        /\ UNCHANGED <<class, done, pool_work_queue, alive, local_work_queue, state, at, crashed>>
        /\ t1 = main => at[main] = "client" \/ Pools!Top(main).waits # Pools!None
    BY DEF Pools!Wait, Pools!Get, Pools!Runs, Pools!Waiting, Pools!queues
  <1>2. PICK x \in OnStack[t1] : /\ x = Pools!Top(t1) /\ x \in PoolFrames
                                 /\ x.task \in Pools!Tasks \cup {Pools!None}
    BY <1>1, PoolTop
  <1>3. PICK y \in PoolFrames :
            /\ y.task = x.task /\ stack' = [stack EXCEPT ![t1] = <<y>> \o Pools!Below(t1)]
            /\ \/ y.waits = k /\ owner[k] = x.task /\ state[k] # "new" /\ owner' = owner
               \/ /\ y.waits = Pools!None /\ x.waits = k /\ state[k] \in {"done", "dropped"}
                  /\ owner' = [owner EXCEPT ![k] = Pools!Nobody]
    <2>1. CASE Pools!Wait(t1, k)
      <3>1. PICK y : y = [x EXCEPT !.waits = k]
        OBVIOUS
      <3>2. y \in PoolFrames /\ y.task = x.task /\ y.waits = k
        BY <1>2, <3>1 DEF PoolFrames
      <3> QED
        BY <1>2, <2>1, <3>1, <3>2 DEF Pools!Wait
    <2>2. CASE Pools!Get(t1, k)
      <3>1. PICK y : y = Pools!Frame(x.task)
        OBVIOUS
      <3>2. y \in PoolFrames /\ y.task = x.task /\ y.waits = Pools!None
        BY <1>2, <3>1 DEF PoolFrames, Pools!Frame
      <3> QED
        BY <1>2, <2>2, <3>1, <3>2 DEF Pools!Get, Pools!Waiting, Pools!Ready
    <2> QED
      BY <2>1, <2>2
  <1>4. PICK s \in Seq(PoolFrames) :
            /\ stack' = [stack EXCEPT ![t1] = s] /\ Differ(s)
            /\ Elems(s) = (OnStack[t1] \ {x}) \cup {y}
    BY <1>1, <1>2, <1>3, NewTop
  <1>5. /\ OnlyAt(OnStack, OnStack', Pools!Threads, t1, (OnStack[t1] \ {x}) \cup {y})
        /\ stack' \in [Pools!Threads -> Seq(PoolFrames)]
        /\ \A t2 \in Pools!Threads : Differ(stack'[t2])
    <2>1. /\ OnlyAt(OnStack, OnStack', Pools!Threads, t1, Elems(s))
          /\ stack' \in [Pools!Threads -> Seq(PoolFrames)]
          /\ \A t2 \in Pools!Threads : Differ(stack'[t2])
      BY <1>4, StacksMove
    <2> QED
      BY <1>4, <2>1
  <1>6. owner' = owner \/ OnlyAt(owner, owner', Pools!Tasks, k, Pools!Nobody)
    BY <1>3 DEF PoolInv, Pools!TypeOK, OnlyAt
  <1>7. Places'
    <2>1. InPool' = InPool /\ InLocal' = InLocal
      BY <1>1 DEF InPool, InLocal
    <2>2. PICK F2, ow2 : F2 = OnStack' /\ ow2 = owner'
      OBVIOUS
    <2>3. OnlyAt(OnStack, F2, Pools!Threads, t1, (OnStack[t1] \ {x}) \cup {y})
      BY <1>5, <2>2
    <2>4. \/ y.waits = k /\ owner[k] = x.task /\ state[k] # "new" /\ ow2 = owner
          \/ /\ y.waits = Pools!None /\ x.waits = k /\ state[k] \in {"done", "dropped"}
             /\ OnlyAt(owner, ow2, Pools!Tasks, k, Pools!Nobody)
      BY <1>3, <2>2 DEF PoolInv, Pools!TypeOK, OnlyAt
    <2>5. PlacesOK(InPool, InLocal, OnStack, state, owner, alive)
      BY DEF PoolInv, Places
    <2>6. PlacesOK(InPool, InLocal, F2, state, ow2, alive)
      BY ONLY t1 \in Pools!Threads, k \in Pools!Tasks, x \in OnStack[t1], y \in PoolFrames,
              <1>3, <2>3, <2>4, <2>5, PlacesWait
    <2> QED
      BY <1>1, <2>1, <2>2, <2>6 DEF Places
  <1>8. Pools!TypeOK' /\ AllDiffer'
    <2>1. owner' \in [Pools!Tasks -> Pools!Tasks \cup {Pools!None, Pools!Nobody}]
      BY <1>3 DEF PoolInv, Pools!TypeOK
    <2> QED
      BY <1>1, <1>5, <2>1 DEF PoolInv, Pools!TypeOK, AllDiffer, PoolFrames
  <1>9. ThreadsInv' /\ MembersInv'
    <2>1. t1 = main => \E z \in Elems(s) : z.task = Pools!None
      BY <1>3, <1>4 DEF PoolInv, ThreadsInv
    <2> QED
      BY <1>1, <1>4, <2>1, WhereRunning, RunningThread
  <1> QED
    BY <1>7, <1>8, <1>9 DEF PoolInv

\* A task returns.
LEMMA FinishInv ==
    ASSUME PoolInv, NEW t1 \in Pools!Threads, Pools!Finish(t1)
    PROVE  PoolInv'
  <1> USE PoolNames
  <1>1. /\ stack[t1] # <<>> /\ (t1 = main => at[main] = "client")
        /\ UNCHANGED <<class, done, pool_work_queue, alive, local_work_queue, owner, at, crashed>>
    BY DEF Pools!Finish, Pools!Runs, Pools!queues
  <1>2. PICK x \in OnStack[t1] : /\ x = Pools!Top(t1) /\ x.task \in Pools!Tasks
                                 /\ x.task # Pools!None
    BY <1>1, PoolTop DEF Pools!Finish
  <1>3. PICK s \in Seq(PoolFrames) :
            /\ stack' = [stack EXCEPT ![t1] = s] /\ Differ(s) /\ Elems(s) = OnStack[t1] \ {x}
    BY <1>1, <1>2, PoolTop DEF Pools!Finish
  <1>4. /\ OnlyAt(OnStack, OnStack', Pools!Threads, t1, Elems(s))
        /\ stack' \in [Pools!Threads -> Seq(PoolFrames)]
        /\ \A t2 \in Pools!Threads : Differ(stack'[t2])
    BY <1>3, StacksMove
  <1>5. OnlyAt(state, state', Pools!Tasks, x.task, "done")
    BY <1>2 DEF Pools!Finish, Pools!Become, PoolInv, Pools!TypeOK, OnlyAt
  <1>6. Places'
    <2>1. InPool' = InPool /\ InLocal' = InLocal
      BY <1>1 DEF InPool, InLocal
    <2>2. PICK F2, st2 : F2 = OnStack' /\ st2 = state'
      OBVIOUS
    <2>3. /\ OnlyAt(OnStack, F2, Pools!Threads, t1, OnStack[t1] \ {x})
          /\ OnlyAt(state, st2, Pools!Tasks, x.task, "done")
          /\ PlacesOK(InPool, InLocal, OnStack, state, owner, alive)
      BY <1>3, <1>4, <1>5, <2>2 DEF PoolInv, Places
    <2>4. PlacesOK(InPool, InLocal, F2, st2, owner, alive)
      BY ONLY t1 \in Pools!Threads, x \in OnStack[t1], <1>2, <2>3, PlacesFinish
    <2> QED
      BY <1>1, <2>1, <2>2, <2>4 DEF Places
  <1>7. Pools!TypeOK' /\ AllDiffer'
    <2>1. state' \in [Pools!Tasks -> {"new", "queued", "running", "done", "dropped"}]
      BY <1>2 DEF Pools!Finish, Pools!Become, PoolInv, Pools!TypeOK
    <2> QED
      BY <1>1, <1>4, <2>1 DEF PoolInv, Pools!TypeOK, AllDiffer, PoolFrames
  <1>8. ThreadsInv' /\ MembersInv'
    <2>1. t1 = main => \E z \in Elems(s) : z.task = Pools!None
      BY <1>2, <1>3 DEF PoolInv, ThreadsInv
    <2> QED
      BY <1>1, <1>3, <2>1, WhereRunning, RunningThread
  <1> QED
    BY <1>6, <1>7, <1>8 DEF PoolInv

\* run_pending_task finds a task, in the thread's own queue or in the pool's.
LEMMA RunInv ==
    ASSUME PoolInv, NEW t1 \in Pools!Threads, Pools!RunLocal(t1) \/ Pools!RunFromPool(t1)
    PROVE  PoolInv'
  <1> USE PoolNames
  <1>1. PICK k : /\ Pools!Run(t1, k)
                 /\ \/ Pools!RunLocal(t1) /\ k = Head(local_work_queue[t1])
                    \/ Pools!RunFromPool(t1) /\ k = Head(pool_work_queue)
    BY DEF Pools!RunLocal, Pools!RunFromPool
  <1>2. PICK P2, L2 :
            /\ P2 = InPool' /\ L2 = InLocal' /\ k \in Pools!Tasks
            /\ \/ k \in InPool /\ P2 = InPool \ {k} /\ L2 = InLocal
               \/ /\ t1 \in Workers /\ k \in InLocal[t1] /\ P2 = InPool
                  /\ OnlyAt(InLocal, L2, Workers, t1, InLocal[t1] \ {k})
            /\ pool_work_queue' \in Seq(Pools!Tasks) /\ Differ(pool_work_queue')
            /\ local_work_queue' \in [Workers -> Seq(Pools!Tasks)]
            /\ \A w \in Workers : Differ(local_work_queue'[w])
    <2>1. CASE Pools!RunLocal(t1) /\ k = Head(local_work_queue[t1])
      <3>1. /\ t1 \in Workers /\ local_work_queue[t1] # <<>> /\ pool_work_queue' = pool_work_queue
            /\ local_work_queue' = [local_work_queue EXCEPT ![t1] = Tail(@)]
        BY <2>1 DEF Pools!RunLocal, Pools!HasLocal
      <3>2. PICK s \in Seq(Pools!Tasks) :
                /\ s = Tail(local_work_queue[t1]) /\ Differ(s)
                /\ k \in InLocal[t1] /\ Elems(s) = InLocal[t1] \ {k} /\ k \in Pools!Tasks
        <4>1. PICK q \in Seq(Pools!Tasks) :
                  /\ q = local_work_queue[t1] /\ q # <<>> /\ Differ(q) /\ InLocal[t1] = Elems(q)
          BY <3>1, PoolTypes DEF PoolInv, AllDiffer
        <4>2. /\ Tail(q) \in Seq(Pools!Tasks) /\ Differ(Tail(q)) /\ Head(q) \in Pools!Tasks
              /\ Elems(q) = Elems(Tail(q)) \cup {Head(q)} /\ Head(q) \notin Elems(Tail(q))
          BY <4>1, ElemsOfTail
        <4>3. Elems(Tail(q)) = Elems(q) \ {k} /\ k \in Elems(q) /\ k = Head(q)
          BY <2>1, <4>1, <4>2
        <4> QED
          BY <4>1, <4>2, <4>3
      <3>3. /\ OnlyAt(InLocal, InLocal', Workers, t1, Elems(s))
            /\ local_work_queue' \in [Workers -> Seq(Pools!Tasks)]
            /\ \A w \in Workers : Differ(local_work_queue'[w])
        BY <3>1, <3>2 DEF OnlyAt, InLocal, PoolInv, Pools!TypeOK, AllDiffer
      <3>4. /\ InPool' = InPool /\ pool_work_queue' \in Seq(Pools!Tasks)
            /\ Differ(pool_work_queue')
        BY <3>1 DEF InPool, PoolInv, Pools!TypeOK, AllDiffer
      <3> QED
        BY <3>1, <3>2, <3>3, <3>4
    <2>2. CASE Pools!RunFromPool(t1) /\ k = Head(pool_work_queue)
      <3>1. /\ pool_work_queue # <<>> /\ pool_work_queue' = Tail(pool_work_queue)
            /\ local_work_queue' = local_work_queue
        BY <2>2 DEF Pools!RunFromPool
      <3>2. /\ pool_work_queue' \in Seq(Pools!Tasks) /\ Differ(pool_work_queue')
            /\ k \in InPool /\ InPool' = InPool \ {k} /\ k \in Pools!Tasks
        BY <2>2, <3>1, PoolTypes, ElemsOfTail DEF PoolInv, AllDiffer, InPool
      <3>3. /\ InLocal' = InLocal /\ local_work_queue' \in [Workers -> Seq(Pools!Tasks)]
            /\ \A w \in Workers : Differ(local_work_queue'[w])
        BY <3>1 DEF InLocal, PoolInv, Pools!TypeOK, AllDiffer
      <3> QED
        BY <3>2, <3>3
    <2> QED
      BY <1>1, <2>1, <2>2
  <1>3. PICK x \in PoolFrames : x = Pools!Frame(k) /\ x.task = k /\ x.waits = Pools!None
    <2>1. /\ Pools!Frame(k) \in PoolFrames
          /\ Pools!Frame(k).task = k /\ Pools!Frame(k).waits = Pools!None
      BY <1>2 DEF Pools!Frame, PoolFrames
    <2> QED
      BY <2>1
  <1>4. /\ stack' = [stack EXCEPT ![t1] = <<x>> \o stack[t1]]
        /\ state' = [state EXCEPT ![k] = "running"]
        /\ at' = [at EXCEPT ![t1] = IF stack[t1] = <<>> THEN "loop" ELSE @]
        /\ UNCHANGED <<class, done, alive, owner, crashed>>
    BY <1>1, <1>3 DEF Pools!Run, Pools!Become
  <1>5. state[k] = "queued"
    BY <1>2 DEF PoolInv, Places, PlacesOK, InOnePlace
  <1>6. PICK s \in Seq(PoolFrames) :
            /\ stack' = [stack EXCEPT ![t1] = s] /\ Differ(s) /\ Elems(s) = OnStack[t1] \cup {x}
    <2>1. /\ stack[t1] \in Seq(PoolFrames) /\ Differ(stack[t1])
          /\ OnStack[t1] = Elems(stack[t1])
      BY PoolTypes DEF PoolInv, AllDiffer
    <2>2. x \notin OnStack[t1]
      BY <1>2, <1>3, <1>5 DEF PoolInv, Places, PlacesOK, InOnePlace
    <2> QED
      <3>1. /\ <<x>> \o stack[t1] \in Seq(PoolFrames) /\ Differ(<<x>> \o stack[t1])
            /\ Elems(<<x>> \o stack[t1]) = OnStack[t1] \cup {x}
        BY <2>1, <2>2, ElemsOfPush
      <3> QED
        BY <1>4, <3>1
  <1>7. /\ OnlyAt(OnStack, OnStack', Pools!Threads, t1, Elems(s))
        /\ stack' \in [Pools!Threads -> Seq(PoolFrames)]
        /\ \A t2 \in Pools!Threads : Differ(stack'[t2])
    BY <1>6, StacksMove
  <1>8. /\ OnlyAt(state, state', Pools!Tasks, k, "running")
        /\ state' \in [Pools!Tasks -> {"new", "queued", "running", "done", "dropped"}]
    BY <1>2, <1>4 DEF OnlyAt, PoolInv, Pools!TypeOK
  <1>9. Places'
    <2>1. PICK F2, st2 : F2 = OnStack' /\ st2 = state'
      OBVIOUS
    <2>2. /\ OnlyAt(OnStack, F2, Pools!Threads, t1, OnStack[t1] \cup {x})
          /\ OnlyAt(state, st2, Pools!Tasks, k, "running")
          /\ PlacesOK(InPool, InLocal, OnStack, state, owner, alive)
      BY <1>6, <1>7, <1>8, <2>1 DEF PoolInv, Places
    <2>3. PlacesOK(P2, L2, F2, st2, owner, alive)
      BY ONLY t1 \in Pools!Threads, x \in PoolFrames, <1>2, <1>3, <2>2, PlacesRun
    <2> QED
      BY <1>2, <1>4, <2>1, <2>3 DEF Places
  <1>10. Pools!TypeOK' /\ AllDiffer'
    BY <1>2, <1>4, <1>7, <1>8 DEF PoolInv, Pools!TypeOK, AllDiffer, PoolFrames
  <1>11. ThreadsInv' /\ MembersInv'
    <2>1. Pools!Looks(t1)
      BY DEF Pools!RunLocal, Pools!RunFromPool
    <2>2. t1 = main => stack[t1] # <<>>
      BY DEF PoolInv, ThreadsInv, OnStack, Elems
    <2>3. CASE stack[t1] = <<>>
      <3>1. at[t1] = "look" /\ t1 \in Workers
        BY <2>1, <2>2, <2>3 DEF Pools!Looks, Pools!Waiting
      <3>2. at' = [at EXCEPT ![t1] = "loop"] /\ at[t1] \notin NoThread
        BY <1>4, <2>3, <3>1 DEF NoThread
      <3> QED
        BY <1>4, <1>6, <3>1, <3>2, RunningThread
    <2>4. CASE stack[t1] # <<>>
      <3>1. Pools!Top(t1).waits # Pools!None
        BY <2>1, <2>4 DEF Pools!Looks, Pools!Waiting
      <3>2. at' = at
        BY <1>4, <2>4 DEF PoolInv, ThreadsInv
      <3>3. t1 = main => \E z \in Elems(s) : z.task = Pools!None
        BY <1>6 DEF PoolInv, ThreadsInv
      <3> QED
        BY <1>4, <1>6, <2>4, <3>1, <3>2, <3>3, WhereRunning, RunningThread
    <2> QED
      BY <2>3, <2>4
  <1> QED
    BY <1>9, <1>10, <1>11 DEF PoolInv

\* Steps that touch no queue, stack or task.
LEMMA SamePlaces ==
    ASSUME PoolInv, UNCHANGED <<class, Pools!queues, Pools!tasks>>,
           done' \in BOOLEAN, crashed' \in BOOLEAN
    PROVE  Pools!TypeOK' /\ AllDiffer' /\ Places' /\ OnStack' = OnStack
  <1>1. UNCHANGED <<class, pool_work_queue, alive, local_work_queue, state, owner, stack>>
    BY DEF Pools!queues, Pools!tasks
  <1>2. InPool' = InPool /\ InLocal' = InLocal /\ OnStack' = OnStack
    BY <1>1 DEF InPool, InLocal, OnStack
  <1> QED
    BY <1>1, <1>2 DEF PoolInv, Pools!TypeOK, AllDiffer, Places

\* The constructor and the destructor's body, run_pending_task when it finds no task, and
\* the destruction of joiner.
LEMMA ControlInv ==
    ASSUME PoolInv,
           \/ \E w \in Workers : Pools!StartThread(w)
           \/ Pools!Constructed \/ Pools!ConstructorThrows \/ Pools!Destroy
           \/ \E t1 \in Pools!Threads : Pools!Yield(t1) \/ Pools!PopDestroyed(t1)
           \/ Pools!Join("joiner", "destroyed") /\ class.queueFirst
           \/ Pools!Join("destructor", "queue") /\ ~class.queueFirst
    PROVE  PoolInv'
  <1> USE PoolNames DEF PoolInv, Pools!Goto
  <1>0. main \in Pools!Threads
    OBVIOUS
  <1>1. ASSUME NEW w \in Workers, Pools!StartThread(w) PROVE PoolInv'
    <2>1. Pools!TypeOK' /\ AllDiffer' /\ Places' /\ OnStack' = OnStack
      BY <1>1, SamePlaces DEF Pools!StartThread, Pools!TypeOK
    <2> QED
      BY <1>1, <2>1
         DEF Pools!StartThread, Pools!queues, Pools!tasks, ThreadsInv, MembersInv, WorkersAt,
             MainAt, NoThread
  <1>2. CASE Pools!Constructed \/ Pools!ConstructorThrows \/ Pools!Destroy
    <2>1. Pools!TypeOK' /\ AllDiffer' /\ Places' /\ OnStack' = OnStack
      <3>1. UNCHANGED <<class, Pools!queues, Pools!tasks>> /\ done' \in BOOLEAN /\ crashed' \in BOOLEAN
        BY <1>2 DEF Pools!Constructed, Pools!ConstructorThrows, Pools!Destroy, Pools!TypeOK
      <3> QED
        BY <3>1, SamePlaces
    <2>2. PICK l \in {"client", "destructor"} :
              /\ at' = [at EXCEPT ![main] = l] /\ at[main] \in {"constructor", "client"}
              /\ at[main] = "client" => stack[main] = <<Pools!Frame(Pools!None)>>
              /\ UNCHANGED <<class, alive, stack, crashed>>
      BY <1>2
         DEF Pools!Constructed, Pools!ConstructorThrows, Pools!Destroy, Pools!queues, Pools!tasks
    <2>3. at' \in [Pools!Threads -> WorkersAt \cup MainAt] /\ at'[main] = l
          /\ \A w \in Workers : at'[w] = at[w]
      BY <2>2, <1>0 DEF ThreadsInv, MainAt
    <2> QED
      BY <2>1, <2>2, <2>3, <1>0 DEF ThreadsInv, MembersInv, WorkersAt, MainAt
  <1>3. ASSUME NEW t1 \in Pools!Threads, Pools!Yield(t1) \/ Pools!PopDestroyed(t1)
        PROVE  PoolInv'
    <2>1. Pools!TypeOK' /\ AllDiffer' /\ Places' /\ OnStack' = OnStack
      <3>1. UNCHANGED <<class, Pools!queues, Pools!tasks>> /\ done' \in BOOLEAN /\ crashed' \in BOOLEAN
        BY <1>3 DEF Pools!Yield, Pools!PopDestroyed, Pools!TypeOK
      <3> QED
        BY <3>1, SamePlaces
    <2>2. t1 = main => stack[t1] # <<>>
      BY DEF ThreadsInv, OnStack, Elems
    <2>3. t1 \in Workers => at[t1] \notin NoThread
      BY <1>3 DEF Pools!Yield, Pools!PopDestroyed, Pools!Looks, Pools!Waiting, ThreadsInv, NoThread
    <2>4. at' = at \/ (at' = [at EXCEPT ![t1] = "loop"] /\ t1 \in Workers)
      <3>1. CASE stack[t1] = <<>>
        BY <1>3, <2>2, <3>1 DEF Pools!Yield, Pools!PopDestroyed
      <3>2. CASE stack[t1] # <<>>
        BY <1>3, <3>2 DEF Pools!Yield, Pools!PopDestroyed, ThreadsInv
      <3> QED
        BY <3>1, <3>2
    <2>5. UNCHANGED <<class, alive, stack>>
      BY <1>3 DEF Pools!Yield, Pools!PopDestroyed, Pools!queues, Pools!tasks
    <2>6. \A w \in Workers : at'[w] \in WorkersAt /\ (at'[w] \in NoThread <=> at[w] \in NoThread)
      BY <2>3, <2>4 DEF ThreadsInv, WorkersAt, NoThread
    <2>7. at' \in [Pools!Threads -> WorkersAt \cup MainAt] /\ at'[main] = at[main]
      BY <2>4 DEF ThreadsInv, WorkersAt
    <2>8. ThreadsInv'
      BY <2>1, <2>5, <2>6, <2>7 DEF ThreadsInv
    <2>9. MembersInv'
      <3>1. ASSUME Pools!PopDestroyed(t1), ~class.queueFirst PROVE FALSE
        <4>1. ~alive /\ at[main] = "destroyed"
          BY <3>1 DEF Pools!PopDestroyed, MembersInv
        <4>2. t1 = main /\ stack[main] = <<Pools!Frame(Pools!None)>>
          BY <2>3, <3>1, <4>1 DEF MembersInv, ThreadsInv
        <4>3. Head(<<Pools!Frame(Pools!None)>>).waits = Pools!None
          BY DEF Pools!Frame
        <4> QED
          BY <3>1, <4>2, <4>3, <2>2
             DEF Pools!PopDestroyed, Pools!Looks, Pools!Waiting, Pools!Top
      <3>2. ~class.queueFirst => crashed' = crashed
        BY <1>3, <3>1 DEF Pools!Yield
      <3>3. crashed' => ~alive'
        BY <1>3, <2>5 DEF Pools!Yield, Pools!PopDestroyed, MembersInv
      <3> QED
        BY <2>5, <2>6, <2>7, <3>2, <3>3 DEF MembersInv
    <2> QED
      BY <2>1, <2>8, <2>9
  <1>4. ASSUME NEW from, NEW to, Pools!Join(from, to),
               \/ from = "joiner" /\ to = "destroyed" /\ class.queueFirst
               \/ from = "destructor" /\ to = "queue" /\ ~class.queueFirst
        PROVE  PoolInv'
    <2>1. Pools!TypeOK' /\ AllDiffer' /\ Places' /\ OnStack' = OnStack
      BY <1>4, SamePlaces DEF Pools!Join, Pools!TypeOK
    <2>2. /\ at' = [at EXCEPT ![main] = to] /\ at[main] = from
          /\ \A w \in Workers : at[w] \in NoThread
          /\ UNCHANGED <<class, alive, stack, crashed>>
      BY <1>4 DEF Pools!Join, Pools!queues, Pools!tasks, NoThread
    <2>3. at' \in [Pools!Threads -> WorkersAt \cup MainAt] /\ at'[main] = to
          /\ \A w \in Workers : at'[w] = at[w]
      BY <1>4, <2>2, <1>0 DEF ThreadsInv, MainAt
    <2> QED
      BY <1>4, <2>1, <2>2, <2>3, <1>0 DEF ThreadsInv, MembersInv, WorkersAt, MainAt
  <1> QED
    BY <1>1, <1>2, <1>3, <1>4

\* What a queue's destruction does to the states.
LEMMA DropStates ==
    ASSUME PoolInv, NEW s, NEW D, D = Elems(s), state' = Pools!Drop(s)
    PROVE  /\ \A k \in Pools!Tasks : state'[k] = IF k \in D THEN "dropped" ELSE state[k]
           /\ state' \in [Pools!Tasks -> {"new", "queued", "running", "done", "dropped"}]
  BY DEF Pools!Drop, Elems, PoolInv, Pools!TypeOK

\* A worker looks at done; it ends, with its queue, or looks for a task.
LEMMA LoopInv ==
    ASSUME PoolInv, NEW w \in Workers, Pools!Loop(w)
    PROVE  PoolInv'
  <1> USE PoolNames DEF PoolInv, Pools!Goto
  <1>1. /\ stack[w] = <<>> /\ at[w] = "loop"
        /\ UNCHANGED <<class, done, pool_work_queue, alive, owner, stack, crashed>>
    BY DEF Pools!Loop
  <1>2. InPool' = InPool /\ OnStack' = OnStack
    BY <1>1 DEF InPool, OnStack
  <1>3. PICK l \in {"ended", "look"} : at' = [at EXCEPT ![w] = l]
    BY DEF Pools!Loop
  <1>4. /\ at' \in [Pools!Threads -> WorkersAt \cup MainAt] /\ at'[w] = l
        /\ \A t1 \in Pools!Threads \ {w} : at'[t1] = at[t1]
    BY <1>3 DEF ThreadsInv, WorkersAt
  <1>5. ThreadsInv'
    BY <1>1, <1>2, <1>4 DEF ThreadsInv, WorkersAt, MainAt
  <1>6. MembersInv'
    BY <1>1, <1>4 DEF MembersInv, NoThread
  <1>7. CASE done
    <2>1. /\ state' = Pools!Drop(local_work_queue[w])
          /\ local_work_queue' = [local_work_queue EXCEPT ![w] = <<>>]
      BY <1>7 DEF Pools!Loop
    <2>2. /\ \A k \in Pools!Tasks : state'[k] = IF k \in InLocal[w] THEN "dropped" ELSE state[k]
          /\ state' \in [Pools!Tasks -> {"new", "queued", "running", "done", "dropped"}]
      BY <2>1, DropStates, PoolTypes
    <2>3. Elems(<<>>) = {} /\ Differ(<<>>) /\ <<>> \in Seq(Pools!Tasks)
      BY DEF Elems, Differ
    <2>4. /\ OnlyAt(InLocal, InLocal', Workers, w, {})
          /\ local_work_queue' \in [Workers -> Seq(Pools!Tasks)]
          /\ \A v \in Workers : Differ(local_work_queue'[v])
      BY <2>1, <2>3 DEF OnlyAt, InLocal, Pools!TypeOK, AllDiffer
    <2>5. OnStack[w] = {}
      BY <1>1, <2>3 DEF OnStack
    <2>6. Places'
      <3>1. PICK L2, st2 : L2 = InLocal' /\ st2 = state'
        OBVIOUS
      <3>2. PICK D : D = InLocal[w]
        OBVIOUS
      <3>3. QueueEnds(D, InPool, InLocal, OnStack, alive, InPool, L2, alive)
        BY <2>4, <2>5, <3>1, <3>2 DEF QueueEnds
      <3>4. Dropped(D, state, st2)
        BY <2>2, <3>1, <3>2 DEF Dropped
      <3>5. PlacesOK(InPool, InLocal, OnStack, state, owner, alive)
        BY DEF Places
      <3>6. PlacesOK(InPool, L2, OnStack, st2, owner, alive)
        BY ONLY <3>3, <3>4, <3>5, PlacesDrop
      <3> QED
        BY <1>1, <1>2, <3>1, <3>6 DEF Places
    <2>7. Pools!TypeOK' /\ AllDiffer'
      BY <1>1, <2>2, <2>4 DEF Pools!TypeOK, AllDiffer
    <2> QED
      BY <1>5, <1>6, <2>6, <2>7
  <1>8. CASE ~done
    <2>1. UNCHANGED <<state, local_work_queue>>
      BY <1>8 DEF Pools!Loop
    <2>2. Pools!TypeOK' /\ AllDiffer' /\ Places'
      BY <1>1, <2>1, SamePlaces DEF Pools!queues, Pools!tasks, Pools!TypeOK
    <2> QED
      BY <1>5, <1>6, <2>2
  <1> QED
    BY <1>7, <1>8

\* pool_work_queue is destroyed: after joiner, in a pool whose members are in order.
LEMMA DestroyQueueInv ==
    ASSUME PoolInv, NEW from, NEW to, Pools!DestroyQueue(from, to),
           \/ from = "destructor" /\ to = "joiner" /\ class.queueFirst
           \/ from = "queue" /\ to = "destroyed" /\ ~class.queueFirst
    PROVE  PoolInv'
  <1> USE PoolNames DEF PoolInv, Pools!Goto
  <1>1. /\ at[main] = from /\ alive' = FALSE /\ pool_work_queue' = <<>>
        /\ state' = Pools!Drop(pool_work_queue) /\ at' = [at EXCEPT ![main] = to]
        /\ UNCHANGED <<class, done, local_work_queue, owner, stack, crashed>>
    BY DEF Pools!DestroyQueue
  <1>2. InLocal' = InLocal /\ OnStack' = OnStack
    BY <1>1 DEF InLocal, OnStack
  <1>3. /\ at' \in [Pools!Threads -> WorkersAt \cup MainAt] /\ at'[main] = to
        /\ \A w \in Workers : at'[w] = at[w]
    BY <1>1 DEF ThreadsInv, MainAt
  <1>4. ThreadsInv' /\ MembersInv'
    BY <1>1, <1>2, <1>3 DEF ThreadsInv, MembersInv, WorkersAt, MainAt
  <1>5. /\ \A k \in Pools!Tasks : state'[k] = IF k \in InPool THEN "dropped" ELSE state[k]
        /\ state' \in [Pools!Tasks -> {"new", "queued", "running", "done", "dropped"}]
    BY <1>1, DropStates DEF InPool
  <1>6. Elems(<<>>) = {} /\ Differ(<<>>) /\ <<>> \in Seq(Pools!Tasks)
    BY DEF Elems, Differ
  <1>7. Places'
    <2>1. PICK P2, st2, al2 : P2 = InPool' /\ st2 = state' /\ al2 = alive'
      OBVIOUS
    <2>2. QueueEnds(InPool, InPool, InLocal, OnStack, alive, P2, InLocal, al2)
      BY <1>1, <1>6, <2>1 DEF QueueEnds, InPool
    <2>3. Dropped(InPool, state, st2)
      BY <1>5, <2>1 DEF Dropped
    <2>4. PlacesOK(InPool, InLocal, OnStack, state, owner, alive)
      BY DEF Places
    <2>5. PlacesOK(P2, InLocal, OnStack, st2, owner, al2)
      BY ONLY <2>2, <2>3, <2>4, PlacesDrop
    <2> QED
      BY <1>1, <1>2, <2>1, <2>5 DEF Places
  <1>8. Pools!TypeOK' /\ AllDiffer'
    BY <1>1, <1>5, <1>6 DEF Pools!TypeOK, AllDiffer
  <1> QED
    BY <1>4, <1>7, <1>8

\* PoolInv holds of every reachable state of the pools.
LEMMA PoolsInvariance == FairParts => [](part = "pools" => PoolInv)
  <1> DEFINE Inv == part = "pools" => PoolInv
  <1>1. InitParts => Inv
    BY PoolInitInv DEF InitParts
  <1>2. Inv /\ [Next]_partVars => Inv'
    <2> SUFFICES ASSUME Inv, [Next]_partVars, part' = "pools" PROVE PoolInv'
      OBVIOUS
    <2>1. PoolInv /\ (Pools!Next \/ UNCHANGED poolsVars)
      BY PartStays, PoolsMove
    <2>2. ASSUME ~crashed, NEW t1 \in Pools!Threads, NEW k \in Pools!Tasks,
                 Pools!Submit(t1, k) \/ Pools!Wait(t1, k)
          PROVE  PoolInv'
      BY <2>1, <2>2, SubmitInv, WaitInv
    <2>3. ASSUME NEW t1 \in Pools!Threads, Pools!Step(t1)
          PROVE  PoolInv'
      <3>1. CASE Pools!RunLocal(t1) \/ Pools!RunFromPool(t1) \/ Pools!Finish(t1)
        BY <2>1, <3>1, RunInv, FinishInv
      <3>2. CASE Pools!Yield(t1) \/ Pools!PopDestroyed(t1)
        BY <2>1, <3>2, ControlInv
      <3>3. CASE \E k \in Pools!Tasks : Pools!Get(t1, k)
        BY <2>1, <3>3, WaitInv
      <3>4. CASE t1 # main /\ Pools!Loop(t1)
        BY <2>1, <3>4, LoopInv DEF Pools!Threads
      <3>5. CASE t1 = main /\ Pools!DestroyMembers
        BY <2>1, <3>5, ControlInv, DestroyQueueInv DEF Pools!DestroyMembers
      <3> QED
        BY <2>3, <3>1, <3>2, <3>3, <3>4, <3>5 DEF Pools!Step
    <2>4. CASE \/ \E w \in Workers : Pools!StartThread(w)
               \/ Pools!Constructed \/ Pools!ConstructorThrows \/ Pools!Destroy
      BY <2>1, <2>4, ControlInv
    <2>5. CASE UNCHANGED poolsVars
      <3>1. /\ UNCHANGED <<class, Pools!queues, Pools!tasks>> /\ UNCHANGED <<done, crashed, at>>
        BY <2>5 DEF poolsVars, Pools!queues, Pools!tasks
      <3>2. Pools!TypeOK' /\ AllDiffer' /\ Places' /\ OnStack' = OnStack
        BY <2>1, <3>1, SamePlaces DEF PoolInv, Pools!TypeOK
      <3>3. ThreadsInv' /\ MembersInv'
        BY <2>1, <3>1, <3>2 DEF PoolInv, ThreadsInv, MembersInv, Pools!queues, Pools!tasks
      <3> QED
        BY <3>2, <3>3 DEF PoolInv
    <2> QED
      BY <2>1, <2>2, <2>3, <2>4, <2>5 DEF Pools!Next
  <1> QED
    BY <1>1, <1>2, PTL DEF FairParts

\* The Cardinality that ThreadPools sees is the one of the library's theorems.
LEMMA PoolsCardinality == ASSUME NEW S PROVE Pools!Cardinality(S) = Cardinality(S)
  BY DEF Pools!Cardinality, Cardinality

\* The places of a task in the queues are as many as its state says: one or none.
LEMMA PlacesAreCounted ==
    ASSUME PoolInv, NEW k \in Pools!Tasks
    PROVE  Cardinality(Pools!PlacesInPool(k)) + Cardinality(Pools!PlacesInLocal(k))
             = IF state[k] = "queued" THEN 1 ELSE 0
  <1> DEFINE LocalPlaces(w) == {i \in DOMAIN local_work_queue[w] : local_work_queue[w][i] = k}
  <1>1. /\ k \in InPool => \E i : Pools!PlacesInPool(k) = {i}
        /\ k \notin InPool => Pools!PlacesInPool(k) = {}
    <2>1. Differ(pool_work_queue) /\ Pools!PlacesInPool(k) = PlacesIn(pool_work_queue, k)
      BY DEF PoolInv, AllDiffer, Pools!PlacesInPool, PlacesIn
    <2> QED
      BY <2>1, OnePlace DEF InPool
  <1>2. ASSUME NEW w \in Workers
        PROVE  /\ k \in InLocal[w] => \E i : LocalPlaces(w) = {i}
               /\ k \notin InLocal[w] => LocalPlaces(w) = {}
    <2>1. PICK q : q = local_work_queue[w]
      OBVIOUS
    <2>2. Differ(q) /\ LocalPlaces(w) = PlacesIn(q, k) /\ InLocal[w] = Elems(q)
      BY <2>1 DEF PoolInv, AllDiffer, PlacesIn, InLocal
    <2> HIDE DEF LocalPlaces
    <2> QED
      BY <2>2, OnePlace
  <1>3. Pools!PlacesInLocal(k) = UNION {{w} \X LocalPlaces(w) : w \in Workers}
    BY DEF Pools!PlacesInLocal
  <1> HIDE DEF LocalPlaces
  <1>4. /\ \A w \in Workers : k \in InLocal[w] => k \notin InPool
        /\ \A w, v \in Workers : k \in InLocal[w] /\ k \in InLocal[v] => w = v
        /\ state[k] = "queued" <=> k \in InPool \/ \E w \in Workers : k \in InLocal[w]
    BY DEF PoolInv, Places, PlacesOK, InOnePlace
  <1>5. /\ \A x : IsFiniteSet({x}) /\ Cardinality({x}) = 1
        /\ IsFiniteSet({}) /\ Cardinality({}) = 0
    BY FS_Singleton, FS_EmptySet
  <1>6. CASE \E w \in Workers : k \in InLocal[w]
    <2>1. PICK w \in Workers : k \in InLocal[w]
      BY <1>6
    <2>2. PICK i : LocalPlaces(w) = {i}
      BY <1>2, <2>1
    <2>3. \A v \in Workers : v # w => LocalPlaces(v) = {}
      BY <1>2, <1>4, <2>1
    <2>4. Pools!PlacesInLocal(k) = {<<w, i>>}
      BY <1>3, <2>2, <2>3
    <2>5. Pools!PlacesInPool(k) = {}
      BY <1>1, <1>4, <2>1
    <2>6. Cardinality(Pools!PlacesInLocal(k)) = 1 /\ Cardinality(Pools!PlacesInPool(k)) = 0
      BY <1>5, <2>4, <2>5
    <2> QED
      BY <1>4, <1>6, <2>6
  <1>7. CASE ~\E w \in Workers : k \in InLocal[w]
    <2>1. Pools!PlacesInLocal(k) = {}
      BY <1>2, <1>3, <1>7
    <2>2. Cardinality(Pools!PlacesInLocal(k)) = 0
      BY <1>5, <2>1
    <2>3. CASE k \in InPool
      <3>1. Cardinality(Pools!PlacesInPool(k)) = 1
        BY <1>1, <1>5, <2>3
      <3> QED
        BY <1>4, <2>2, <2>3, <3>1
    <2>4. CASE k \notin InPool
      <3>1. Cardinality(Pools!PlacesInPool(k)) = 0
        BY <1>1, <1>5, <2>4
      <3> QED
        BY <1>4, <1>7, <2>2, <2>4, <3>1
    <2> QED
      BY <2>3, <2>4
  <1> QED
    BY <1>6, <1>7

\* So are its frames.
LEMMA FramesAreCounted ==
    ASSUME PoolInv, NEW k \in Pools!Tasks
    PROVE  Cardinality(Pools!Running(k)) = IF state[k] = "running" THEN 1 ELSE 0
  <1> DEFINE FramesOn(t1) == {i \in DOMAIN stack[t1] : stack[t1][i].task = k}
  <1>1. Pools!Running(k) = UNION {{t1} \X FramesOn(t1) : t1 \in Pools!Threads}
    BY DEF Pools!Running
  <1>2. \A t1 \in Pools!Threads : \A i \in DOMAIN stack[t1] : stack[t1][i] \in OnStack[t1]
    BY DEF OnStack, Elems
  <1>3. \A t1 \in Pools!Threads : \A x \in OnStack[t1] : \E i \in DOMAIN stack[t1] : stack[t1][i] = x
    BY DEF OnStack, Elems
  <1>4. /\ \A t1, t2 \in Pools!Threads : \A x \in OnStack[t1], y \in OnStack[t2] :
               x.task = y.task => t1 = t2 /\ x = y
        /\ state[k] = "running" <=> \E t1 \in Pools!Threads : \E x \in OnStack[t1] : x.task = k
    BY DEF PoolInv, Places, PlacesOK, InOnePlace
  <1>5. \A t1 \in Pools!Threads : \A i, j \in DOMAIN stack[t1] : stack[t1][i] = stack[t1][j] => i = j
    BY DEF PoolInv, AllDiffer, Differ
  <1>6. /\ \A x : Cardinality({x}) = 1
        /\ Cardinality({}) = 0
    BY FS_Singleton, FS_EmptySet
  <1>7. CASE state[k] = "running"
    <2>1. PICK t1 \in Pools!Threads : \E i \in DOMAIN stack[t1] : stack[t1][i].task = k
      BY <1>3, <1>4, <1>7
    <2>2. PICK i \in DOMAIN stack[t1] : stack[t1][i].task = k
      BY <2>1
    <2>3. \A t2 \in Pools!Threads : \A j \in DOMAIN stack[t2] :
              stack[t2][j].task = k => t2 = t1 /\ j = i
      BY <1>2, <1>4, <1>5, <2>2
    <2>4. FramesOn(t1) = {i} /\ \A t2 \in Pools!Threads : t2 # t1 => FramesOn(t2) = {}
      BY <2>2, <2>3
    <2> HIDE DEF FramesOn
    <2>5. Pools!Running(k) = {<<t1, i>>}
      BY <1>1, <2>4
    <2> QED
      BY <1>6, <1>7, <2>5
  <1>8. CASE state[k] # "running"
    <2>1. \A t1 \in Pools!Threads : FramesOn(t1) = {}
      BY <1>2, <1>4, <1>8
    <2> HIDE DEF FramesOn
    <2>2. Pools!Running(k) = {}
      BY <1>1, <2>1
    <2> QED
      BY <1>6, <1>8, <2>2
  <1> QED
    BY <1>7, <1>8

\* A task that is waited for is not dropped while the queue lives; when a pool in order
\* has destroyed its queue, nobody waits.
LEMMA AwaitedIsNotDropped == PoolInv => Pools!AwaitedIsKept
  <1> USE PoolNames
  <1> SUFFICES ASSUME PoolInv, ~class.queueFirst \/ alive,
                      NEW t1 \in Pools!Threads, NEW i \in DOMAIN stack[t1],
                      stack[t1][i].waits # Pools!None
               PROVE  state[stack[t1][i].waits] # "dropped"
    BY DEF Pools!AwaitedIsKept
  <1>1. PICK x \in OnStack[t1] : x = stack[t1][i]
    BY DEF OnStack, Elems
  <1>2. x.waits \in Pools!Tasks
    BY <1>1 DEF PoolInv, Places, PlacesOK, PlacesTyped, PoolFrames
  <1>3. owner[x.waits] = x.task
    BY <1>1 DEF PoolInv, Places, PlacesOK, InOrderOfSubmission
  <1>4. alive
    <2> SUFFICES ASSUME ~alive PROVE FALSE
      OBVIOUS
    <2>1. at[main] = "destroyed" /\ \A w \in Workers : stack[w] = <<>>
      BY DEF PoolInv, MembersInv, ThreadsInv
    <2>2. stack[main] = <<Pools!Frame(Pools!None)>>
      BY <2>1 DEF PoolInv, ThreadsInv
    <2>3. t1 = main /\ i = 1
      BY <2>1, <2>2
    <2> QED
      BY <2>2, <2>3 DEF Pools!Frame
  <1> QED
    BY <1>1, <1>2, <1>3, <1>4 DEF PoolInv, Places, PlacesOK, InOrderOfSubmission

\* Each task of a pool is in one place: queued once, running once, or nowhere any more;
\* and a task that is waited for is never dropped.
THEOREM TasksRunOnce == FairParts => []RunsOnce
  <1>1. ASSUME part = "pools" => PoolInv PROVE RunsOnce
    <2> SUFFICES ASSUME PoolInv PROVE Pools!RunsOnce /\ Pools!AwaitedIsKept
      BY <1>1 DEF RunsOnce
    <2>1. Pools!TypeOK
      BY DEF PoolInv
    <2>2. ASSUME NEW k \in Pools!Tasks
          PROVE  /\ Cardinality(Pools!PlacesInPool(k)) + Cardinality(Pools!PlacesInLocal(k))
                       = IF state[k] = "queued" THEN 1 ELSE 0
                 /\ Cardinality(Pools!Running(k)) = IF state[k] = "running" THEN 1 ELSE 0
      BY PlacesAreCounted, FramesAreCounted
    <2>3. Pools!RunsOnce
      BY ONLY <2>1, <2>2, PoolsCardinality, Zenon DEF Pools!RunsOnce
    <2> QED
      BY <2>3, AwaitedIsNotDropped
  <1> QED
    BY <1>1, PoolsInvariance, PTL

\* A pool's queue is not used after its destruction, except in list 9.6.
LEMMA QueueIsNotUsedAfterItsEnd == PoolInv => Pools!QueueOutlivesWorkers
  BY DEF PoolInv, MembersInv, NoThread, Pools!QueueOutlivesWorkers

-----------------------------------------------------------------------------
(* LockedList: the nodes in the order of the list.                       *)

\* The list's head is not a node, and Null is neither.
LEMMA ListNames ==
    /\ List!head = "head" /\ List!Addresses = Nodes \cup {"head"}
    /\ "head" \notin Nodes /\ Null \notin Nodes /\ Null # "head"
    /\ Walkers # {} /\ Null \notin Walkers
  BY ListAssumption DEF List!head, List!Addresses

\* L is the head and the nodes on the list, nx is next; r falls along the list, and it
\* is how the proof knows what is in front of what.
Sorted(L, nx, r) ==
    /\ "head" \in L /\ L \subseteq List!Addresses /\ r \in [List!Addresses -> Nat]
    /\ \A n \in L : r[n] <= r["head"]
    /\ \A m, n \in L : r[m] = r[n] => m = n
    /\ \A n \in L : nx[n] # Null => nx[n] \in L /\ r[nx[n]] < r[n]
    /\ \A m, n \in L : r[m] < r[n] => nx[n] # Null /\ r[m] <= r[nx[n]]

\* A node has one predecessor, the head none.
LEMMA OnePredecessor ==
    ASSUME NEW L, NEW nx, NEW r, Sorted(L, nx, r), NEW m \in L, NEW n \in L, nx[n] # Null
    PROVE  nx[n] # "head" /\ (nx[m] = nx[n] => m = n)
  <1>1. r[m] \in Nat /\ r[n] \in Nat /\ r[nx[n]] \in Nat /\ r["head"] \in Nat
    BY DEF Sorted
  <1>2. r[nx[n]] < r[n] /\ r[n] <= r["head"]
    BY DEF Sorted
  <1>3. ASSUME nx[m] = nx[n], m # n PROVE FALSE
    <2>1. r[m] < r[n] \/ r[n] < r[m]
      BY <1>1, <1>3 DEF Sorted
    <2>2. r[nx[n]] < r[m]
      BY <1>3 DEF Sorted
    <2> QED
      BY <2>1, <2>2, <1>1, <1>2, <1>3 DEF Sorted
  <1> QED
    BY <1>1, <1>2, <1>3

\* A node is linked behind the head.
LEMMA SortedLink ==
    ASSUME NEW L, NEW nx, NEW r, Sorted(L, nx, r), NEW n \in Nodes, n \notin L,
           NEW nx2, nx2[n] = nx["head"], nx2["head"] = n,
           \A m \in L : m # "head" => nx2[m] = nx[m],
           NEW r2, r2 = [r EXCEPT ![n] = r["head"], !["head"] = r["head"] + 1]
    PROVE  Sorted(L \cup {n}, nx2, r2)
  <1> USE ListNames
  <1> DEFINE h == r["head"]
  <1>1. /\ h \in Nat /\ n # "head" /\ n # Null /\ r \in [List!Addresses -> Nat]
        /\ "head" \in L /\ L \subseteq List!Addresses
        /\ \A m \in L : r[m] \in Nat /\ r[m] <= h /\ (m # "head" => r[m] < h)
    BY DEF Sorted
  <1>2. /\ r2 \in [List!Addresses -> Nat] /\ r2["head"] = h + 1 /\ r2[n] = h
        /\ \A m \in L : m # "head" => r2[m] = r[m]
    BY <1>1
  <1> HIDE DEF h
  <1>3. \A m \in L : nx[m] # Null => nx[m] \in L /\ nx[m] # "head" /\ r[nx[m]] < r[m]
    BY OnePredecessor DEF Sorted
  <1>4. \A m \in L \cup {n} : r2[m] \in Nat /\ r2[m] <= h + 1
    BY <1>1, <1>2
  <1>5. \A m, k \in L \cup {n} : r2[m] = r2[k] => m = k
    <2>1. \A m, k \in L : r[m] = r[k] => m = k
      BY DEF Sorted
    <2> QED
      BY <2>1, <1>1, <1>2
  <1>6. ASSUME NEW k \in L \cup {n}, nx2[k] # Null
        PROVE  nx2[k] \in L \cup {n} /\ r2[nx2[k]] < r2[k]
    <2>1. CASE k = "head"
      BY <2>1, <1>1, <1>2
    <2>2. CASE k = n
      BY <2>2, <1>6, <1>1, <1>2, <1>3 DEF h
    <2>3. CASE k # n /\ k # "head"
      BY <2>3, <1>6, <1>1, <1>2, <1>3
    <2> QED
      BY <2>1, <2>2, <2>3
  <1>7. ASSUME NEW m \in L \cup {n}, NEW k \in L \cup {n}, r2[m] < r2[k]
        PROVE  nx2[k] # Null /\ r2[m] <= r2[nx2[k]]
    <2>1. CASE k = "head"
      BY <2>1, <1>7, <1>1, <1>2
    <2>2. CASE k # "head"
      <3>1. m # "head" /\ m # n /\ m \in L /\ r2[m] = r[m] /\ r[m] \in Nat
        BY <2>2, <1>7, <1>1, <1>2
      <3>2. PICK c \in L : nx2[k] = nx[c] /\ r[m] < r[c]
        <4>1. CASE k = n
          BY <4>1, <3>1, <1>1, <1>2, <1>7 DEF h
        <4>2. CASE k # n
          BY <4>2, <2>2, <3>1, <1>2, <1>7
        <4> QED
          BY <4>1, <4>2
      <3>3. nx[c] # Null /\ r[m] <= r[nx[c]]
        BY <3>1, <3>2 DEF Sorted
      <3> QED
        BY <3>1, <3>2, <3>3, <1>2, <1>3
    <2> QED
      BY <2>1, <2>2
  <1> QED
    BY <1>1, <1>2, <1>4, <1>5, <1>6, <1>7 DEF Sorted

\* A node is unlinked.
LEMMA SortedUnlink ==
    ASSUME NEW L, NEW nx, NEW r, Sorted(L, nx, r), NEW c \in L, NEW a, a = nx[c], a # Null,
           NEW nx2, nx2[c] = nx[a], \A m \in L : m # c => nx2[m] = nx[m]
    PROVE  Sorted(L \ {a}, nx2, r)
  <1> USE DEF Sorted
  <1>1. /\ a \in L /\ a # c /\ a # "head" /\ r[a] < r[c]
        /\ \A m \in L : r[m] \in Nat /\ (m # c => nx[m] # a)
    BY OnePredecessor
  <1>2. ASSUME NEW k \in L \ {a}, nx2[k] # Null
        PROVE  nx2[k] \in L \ {a} /\ r[nx2[k]] < r[k]
    <2>1. CASE k = c
      <3>1. nx[a] \in L /\ r[nx[a]] < r[a]
        BY <2>1, <1>1, <1>2
      <3> QED
        BY <3>1, <2>1, <1>1
    <2>2. CASE k # c
      BY <2>2, <1>1, <1>2
    <2> QED
      BY <2>1, <2>2
  <1>3. ASSUME NEW m \in L \ {a}, NEW k \in L \ {a}, r[m] < r[k]
        PROVE  nx2[k] # Null /\ r[m] <= r[nx2[k]]
    <2>1. CASE k = c
      <3>1. r[m] <= r[a] /\ r[m] # r[a]
        BY <2>1, <1>1, <1>3
      <3>2. r[m] < r[a]
        BY <3>1, <1>1
      <3> QED
        BY <3>2, <2>1, <1>1
    <2>2. CASE k # c
      BY <2>2, <1>3
    <2> QED
      BY <2>1, <2>2
  <1> QED
    BY <1>1, <1>2, <1>3

\* Contents is made with a function that gives the head and the nodes after it.
Length == Cardinality(Nodes)
IsNth(f, nx) ==
    f = [k \in 0 .. Length |->
            IF k = 0 THEN "head" ELSE IF f[k - 1] = Null THEN Null ELSE nx[f[k - 1]]]
Nth(nx) == CHOOSE f : IsNth(f, nx)
Carries(f, dt) == {dt[n] : n \in {f[k] : k \in 1 .. Length} \ {Null}}

\* There is such a function.
LEMMA NthExists ==
    ASSUME NEW nx \in [List!Addresses -> Nodes \cup {Null}]
    PROVE  \E f : IsNth(f, nx)
  <1> USE ListNames
  <1> DEFINE S == List!Addresses \cup {Null}
             F == [x \in Nat \X S |-> IF x[2] = Null THEN Null ELSE nx[x[2]]]
  <1>1. /\ F \in [Nat \X S -> S]
        /\ \A n \in Nat, p \in S : F[<<n, p>>] = IF p = Null THEN Null ELSE nx[p]
    OBVIOUS
  <1>2. "head" \in S
    OBVIOUS
  <1> HIDE DEF F, S
  <1>3. PICK g : RecursiveBy(g, S, "head", F)
    BY <1>1, <1>2, Recursion, Zenon
  <1>4. /\ \A k \in Nat : g[k] \in S
        /\ g[0] = "head" /\ \A k \in Nat : g[k + 1] = IF g[k] = Null THEN Null ELSE nx[g[k]]
    BY <1>1, <1>3 DEF RecursiveBy
  <1>5. Length \in Nat
    BY FS_CardinalityType, ListAssumption DEF Length
  <1> DEFINE f == [k \in 0 .. Length |-> g[k]]
  <1>6. ASSUME NEW k \in 0 .. Length
        PROVE  g[k] = IF k = 0 THEN "head" ELSE IF f[k - 1] = Null THEN Null ELSE nx[f[k - 1]]
    <2>1. CASE k = 0
      BY <2>1, <1>4
    <2>2. CASE k # 0
      <3>1. k - 1 \in Nat /\ k - 1 \in 0 .. Length /\ (k - 1) + 1 = k
        BY <2>2, <1>5
      <3>2. f[k - 1] = g[k - 1] /\ g[k] = IF g[k - 1] = Null THEN Null ELSE nx[g[k - 1]]
        BY <3>1, <1>4
      <3> QED
        BY <3>2, <2>2
    <2> QED
      BY <2>1, <2>2
  <1>7. IsNth(f, nx)
    BY <1>6 DEF IsNth
  <1> QED
    BY <1>7

\* The head, then a node's next.
LEMMA NthUnfolds ==
    ASSUME NEW nx \in [List!Addresses -> Nodes \cup {Null}]
    PROVE  /\ Length \in Nat /\ Nth(nx)[0] = "head"
           /\ \A k \in Nat : k + 1 <= Length =>
                  /\ Nth(nx)[k] = Null => Nth(nx)[k + 1] = Null
                  /\ Nth(nx)[k] # Null => Nth(nx)[k + 1] = nx[Nth(nx)[k]]
  <1>1. PICK f : f = Nth(nx)
    OBVIOUS
  <1>2. IsNth(f, nx)
    BY <1>1, NthExists, Zenon DEF Nth
  <1>3. Length \in Nat
    BY FS_CardinalityType, ListAssumption DEF Length
  <1>4. \A k \in 0 .. Length :
            f[k] = IF k = 0 THEN "head" ELSE IF f[k - 1] = Null THEN Null ELSE nx[f[k - 1]]
    BY <1>2 DEF IsNth
  <1>5. f[0] = "head"
    BY <1>3, <1>4
  <1>6. ASSUME NEW k \in Nat, k + 1 <= Length
        PROVE  f[k + 1] = IF f[k] = Null THEN Null ELSE nx[f[k]]
    <2>1. k + 1 \in 0 .. Length /\ k + 1 # 0 /\ (k + 1) - 1 = k
      BY <1>3, <1>6
    <2> QED
      BY <2>1, <1>4
  <1> QED
    BY <1>1, <1>3, <1>5, <1>6

\* It stays in the list, and comes by every node of it.
LEMMA NthIsInList ==
    ASSUME NEW nx \in [List!Addresses -> Nodes \cup {Null}], NEW L, NEW r, Sorted(L, nx, r)
    PROVE  \A k \in 0 .. Length : /\ Nth(nx)[k] # Null => Nth(nx)[k] \in L
                                  /\ k # 0 => Nth(nx)[k] # "head"
  <1> USE ListNames
  <1>1. PICK f : f = Nth(nx)
    OBVIOUS
  <1>2. /\ Length \in Nat /\ f[0] = "head"
        /\ \A k \in Nat : k + 1 <= Length => /\ f[k] = Null => f[k + 1] = Null
                                             /\ f[k] # Null => f[k + 1] = nx[f[k]]
    BY <1>1, NthUnfolds
  <1> DEFINE Good(k) == f[k] # Null => f[k] \in L
             T == {k \in Nat : k <= Length => Good(k)}
  <1>3. 0 \in T
    BY <1>2 DEF Sorted
  <1>4. ASSUME NEW k \in Nat, k \in T PROVE k + 1 \in T
    <2> SUFFICES ASSUME k + 1 <= Length PROVE Good(k + 1)
      OBVIOUS
    <2>1. k <= Length
      BY <1>2
    <2>2. Good(k)
      BY <1>4, <2>1
    <2> QED
      BY <2>2, <1>2 DEF Sorted
  <1>5. \A k \in Nat : k \in T
    <2> HIDE DEF T
    <2> QED
      BY <1>3, <1>4, Induction
  <1>6. ASSUME NEW k \in 0 .. Length, k # 0 PROVE f[k] # "head"
    <2>1. k - 1 \in Nat /\ (k - 1) + 1 <= Length /\ (k - 1) + 1 = k
      BY <1>2, <1>6
    <2>2. \/ f[k] = Null
          \/ f[k - 1] # Null /\ f[k] = nx[f[k - 1]]
      BY <2>1, <1>2
    <2>3. f[k - 1] # Null => f[k - 1] \in L
      BY <2>1, <1>2, <1>5
    <2> QED
      BY <2>2, <2>3, OnePredecessor
  <1> QED
    BY <1>1, <1>2, <1>5, <1>6

\* The part of the list behind a node is no longer than what the function has to come.
LEMMA NthComesBy ==
    ASSUME NEW nx \in [List!Addresses -> Nodes \cup {Null}], NEW L, NEW r, Sorted(L, nx, r),
           NEW m \in L, m # "head"
    PROVE  \E j \in 1 .. Length : Nth(nx)[j] = m
  <1> USE ListNames
  <1>1. PICK f : f = Nth(nx)
    OBVIOUS
  <1>2. /\ Length \in Nat /\ f[0] = "head"
        /\ \A k \in Nat : k + 1 <= Length => /\ f[k] = Null => f[k + 1] = Null
                                             /\ f[k] # Null => f[k + 1] = nx[f[k]]
    BY <1>1, NthUnfolds
  <1> SUFFICES ASSUME ~\E j \in 1 .. Length : f[j] = m PROVE FALSE
    BY <1>1
  <1> DEFINE Rest(x) == {n \in L : r[n] < r[x]}
             Ahead(k) == /\ f[k] \in L /\ r[m] < r[f[k]]
                         /\ IsFiniteSet(Rest(f[k])) /\ Cardinality(Rest(f[k])) <= Length - k
             T == {k \in Nat : k <= Length => Ahead(k)}
  <1>3. \A n \in L : r[n] \in Nat
    BY DEF Sorted
  <1>4. 0 \in T
    <2>1. Rest("head") \subseteq Nodes /\ r[m] < r["head"] /\ "head" \in L
      BY <1>3 DEF Sorted
    <2> HIDE DEF Rest
    <2>2. IsFiniteSet(Rest("head")) /\ Cardinality(Rest("head")) <= Length
      BY <2>1, FS_Subset, ListAssumption DEF Length
    <2> QED
      BY <2>1, <2>2, <1>2
  <1>5. ASSUME NEW k \in Nat, k \in T PROVE k + 1 \in T
    <2> SUFFICES ASSUME k + 1 <= Length PROVE Ahead(k + 1)
      OBVIOUS
    <2>1. Ahead(k) /\ k + 1 \in 1 .. Length
      BY <1>2, <1>5
    <2>2. PICK p, q : p = f[k] /\ q = f[k + 1]
      OBVIOUS
    <2>3. p \in L /\ r[m] < r[p] /\ q = nx[p] /\ q # m
      BY <2>1, <2>2, <1>2 DEF Sorted
    <2>4. q \in L /\ r[q] < r[p] /\ r[m] < r[q]
      <3>1. q \in L /\ r[q] < r[p] /\ r[m] <= r[q]
        BY <2>3 DEF Sorted
      <3>2. r[m] # r[q]
        BY <2>3, <3>1 DEF Sorted
      <3> QED
        BY <3>1, <3>2, <1>3
    <2>5. Rest(q) \subseteq Rest(p) \ {q} /\ q \in Rest(p)
      BY <2>3, <2>4, <1>3
    <2>6. IsFiniteSet(Rest(p)) /\ Cardinality(Rest(p)) <= Length - k
      BY <2>1, <2>2
    <2> HIDE DEF Rest
    <2>7. /\ IsFiniteSet(Rest(p) \ {q})
          /\ Cardinality(Rest(p) \ {q}) = Cardinality(Rest(p)) - 1
      BY <2>5, <2>6, FS_RemoveElement
    <2>8. /\ IsFiniteSet(Rest(q)) /\ Cardinality(Rest(q)) <= Cardinality(Rest(p) \ {q})
      BY <2>5, <2>7, FS_Subset
    <2>9. Cardinality(Rest(p)) \in Nat /\ Cardinality(Rest(q)) \in Nat
      BY <2>6, <2>8, FS_CardinalityType
    <2>10. Cardinality(Rest(q)) <= Length - (k + 1)
      BY <2>6, <2>7, <2>8, <2>9, <1>2
    <2> QED
      BY <2>2, <2>4, <2>8, <2>10
  <1>6. Length \in T
    <2> HIDE DEF T
    <2> QED
      BY <1>2, <1>4, <1>5, Induction
  <1>7. PICK B : B = Rest(f[Length])
    OBVIOUS
  <1>8. m \in B /\ IsFiniteSet(B) /\ Cardinality(B) <= 0
    BY <1>2, <1>6, <1>7
  <1> QED
    BY <1>8, FS_CardinalityType, FS_EmptySet

\* What the nodes of a list carry.
ValuesIn(L, dt) == {dt[n] : n \in L \ {"head"}}

\* So it finds what is in the list.
LEMMA ContentsAre ==
    ASSUME NEW nx \in [List!Addresses -> Nodes \cup {Null}], NEW L, NEW r, Sorted(L, nx, r),
           NEW dt
    PROVE  Carries(Nth(nx), dt) = ValuesIn(L, dt)
  <1> USE ListNames
  <1>1. PICK f : f = Nth(nx)
    OBVIOUS
  <1>2. Length \in Nat
    BY NthUnfolds
  <1>3. \A k \in 1 .. Length : f[k] # Null => f[k] \in L \ {"head"}
    BY <1>1, <1>2, NthIsInList
  <1>4. \A m \in L \ {"head"} : m # Null /\ \E j \in 1 .. Length : f[j] = m
    <2>1. Null \notin L
      BY DEF Sorted
    <2> QED
      BY <2>1, <1>1, NthComesBy
  <1>5. {f[k] : k \in 1 .. Length} \ {Null} = L \ {"head"}
    BY <1>3, <1>4
  <1> QED
    BY <1>1, <1>5 DEF Carries, ValuesIn

\* The Cardinality that LockedList sees is the one of the library's theorems.
LEMMA ListCardinality == ASSUME NEW S PROVE List!Cardinality(S) = Cardinality(S)
  BY DEF List!Cardinality, Cardinality

\* Contents is what the linked nodes carry.
LEMMA ContentsIsCarried == List!Contents = Carries(Nth(next), data)
  BY ListCardinality, ListNames DEF List!Contents, Carries, Nth, IsNth, Length

-----------------------------------------------------------------------------
(* LockedList: where its threads stand, what they hold, what they have   *)
(* still to come by.                                                     *)

ListTypeOK ==
    /\ next \in [List!Addresses -> Nodes \cup {Null}] /\ data \in [Nodes -> ListValues]
    /\ live \in SUBSET List!Addresses /\ pushed \in SUBSET ListValues
    /\ mtx \in [List!Addresses -> Walkers \cup {Null}]
    /\ lPc \in [Walkers -> {"call", "new", "lockHead", "link", "look", "lockNext", "decide",
                            "visit", "delete", "returned", "joined"}]
    /\ op \in [Walkers -> {"none", "push_front", "for_each", "remove_if"}]
    /\ current \in [Walkers -> List!Addresses] /\ ahead \in [Walkers -> Nodes \cup {Null}]
    /\ seen \in [Walkers -> Seq(ListValues)] /\ present \in [Walkers -> SUBSET ListValues]

AtNode  == {"look", "lockNext", "decide", "delete"}
Walking == AtNode \cup {"visit"}

\* A node that is new, or has been removed, is its thread's own.
Loose(w) == \/ lPc[w] = "delete"
            \/ op[w] = "push_front" /\ lPc[w] \in {"lockHead", "link"}
LooseApart ==
    \A u, w \in Walkers : Loose(u) /\ Loose(w) /\ ahead[u] = ahead[w] => u = w

\* The head and the nodes on the list.
InList == {n \in live : \A w \in Walkers : Loose(w) => ahead[w] # n}

\* The mutexes that w holds.
HoldsIt(w, n) ==
    \/ lPc[w] = "link" /\ n = "head"
    \/ lPc[w] \in AtNode /\ n = current[w]
    \/ lPc[w] \in {"decide", "visit"} /\ n = ahead[w]
LocksInv == \A n \in List!Addresses : \A w \in Walkers : mtx[n] = w <=> HoldsIt(w, n)

StandsInv(w) ==
    /\ lPc[w] \in {"new", "link"} => op[w] = "push_front"
    /\ lPc[w] \in Walking => op[w] \in {"for_each", "remove_if"}
    /\ lPc[w] \in {"call", "new", "lockHead"} => current[w] = "head"
    /\ lPc[w] = "lockHead" => op[w] # "none"
    /\ lPc[w] \in AtNode => current[w] \in InList
    /\ lPc[w] \in {"lockNext", "decide"} => ahead[w] = next[current[w]] /\ ahead[w] # Null
    /\ lPc[w] = "visit" => ahead[w] \in InList /\ ahead[w] \in Nodes
    /\ Loose(w) => ahead[w] \in live /\ ahead[w] \in Nodes

\* No value is in two nodes, and what has not been pushed is in none.
DataInv ==
    /\ \A n \in live : n # "head" => data[n] \in pushed
    /\ \A m, n \in live : m # "head" /\ n # "head" /\ data[m] = data[n] => m = n

\* The nodes that w has still to come by.
ToCome(r, w) ==
    {m \in InList : /\ m # "head"
                    /\ \/ lPc[w] \in AtNode /\ r[m] < r[current[w]]
                       \/ lPc[w] = "visit" /\ r[m] <= r[ahead[w]]}

\* They carry what for_each has not been called with, and not what it has been called
\* with; they carry what remove_if has not removed.
WalkOK(o, p, C, dt, a, s, q) ==
    /\ o = "for_each" => /\ \A v \in q : v \in Elems(s) \/ \E m \in C : dt[m] = v
                         /\ Differ(s)
                         /\ \A m \in C : dt[m] \notin Elems(s)
    /\ o = "remove_if" => /\ \A v \in q : v \in Doomed => \E m \in C : dt[m] = v
                          /\ p = "visit" => dt[a] \notin Doomed
WalkInv(r, w) ==
    /\ lPc[w] \in Walking \cup {"returned"} =>
           WalkOK(op[w], lPc[w], ToCome(r, w), data, ahead[w], seen[w], present[w])
    /\ lPc[w] \in {"call", "new", "lockHead"} => seen[w] = <<>>

OrderInv(r) == Sorted(InList, next, r) /\ \A w \in Walkers : WalkInv(r, w)

ListRuns ==
    /\ \A w \in Walkers : lPc[w] # "joined"
    /\ "head" \in live
    /\ LooseApart /\ LocksInv /\ DataInv
    /\ \A w \in Walkers : StandsInv(w)
    /\ \E r : OrderInv(r)

ListInv == ListTypeOK /\ (ListRuns \/ ((\A w \in Walkers : lPc[w] = "joined") /\ live = {}))

\* A step of w leaves the others where they are.
Alone(w) ==
    \A u \in Walkers : u # w => /\ lPc'[u] = lPc[u] /\ op'[u] = op[u] /\ current'[u] = current[u]
                                /\ ahead'[u] = ahead[u] /\ seen'[u] = seen[u]

\* It leaves alone what the others hold, and the nodes that are theirs.
Respects(w) ==
    /\ \A n \in InList : mtx[n] \notin {Null, w} => n \in InList' /\ next'[n] = next[n]
    /\ \A u \in Walkers : u # w /\ Loose(u) =>
           /\ ahead[u] \in live'
           /\ Loose(w)' => ahead'[w] # ahead[u]
    /\ \A n \in List!Addresses : \/ mtx'[n] = mtx[n]
                                 \/ mtx[n] \in {w, Null} /\ mtx'[n] \in {w, Null}

\* Then the others stand as well as before.
LEMMA OthersStand ==
    ASSUME ListTypeOK, ListRuns, NEW w \in Walkers, Alone(w), Respects(w),
           \A n \in List!Addresses : mtx'[n] = w <=> HoldsIt(w, n)'
    PROVE  LocksInv' /\ LooseApart' /\ \A u \in Walkers : u # w => StandsInv(u)'
  <1> USE ListNames
  <1>1. LocksInv'
    <2> SUFFICES ASSUME NEW n \in List!Addresses, NEW u \in Walkers, u # w
                 PROVE  mtx'[n] = u <=> HoldsIt(u, n)'
      BY DEF LocksInv
    <2>1. HoldsIt(u, n)' <=> HoldsIt(u, n)
      BY DEF Alone, HoldsIt
    <2>2. mtx'[n] = u <=> mtx[n] = u
      BY DEF Respects
    <2> QED
      BY <2>1, <2>2 DEF ListRuns, LocksInv
  <1>2. \A u \in Walkers : u # w => (Loose(u)' <=> Loose(u)) /\ ahead'[u] = ahead[u]
    BY DEF Alone, Loose
  <1>3. LooseApart'
    <2> SUFFICES ASSUME NEW u \in Walkers, NEW v \in Walkers, Loose(u)', Loose(v)',
                        ahead'[u] = ahead'[v], u # v
                 PROVE  FALSE
      BY DEF LooseApart
    <2> QED
      BY <1>2 DEF ListRuns, LooseApart, Respects
  <1>4. ASSUME NEW u \in Walkers, u # w PROVE StandsInv(u)'
    <2>1. StandsInv(u) /\ (Loose(u)' <=> Loose(u))
      BY <1>2, <1>4 DEF ListRuns
    <2>2. /\ lPc'[u] = lPc[u] /\ op'[u] = op[u] /\ current'[u] = current[u]
          /\ ahead'[u] = ahead[u]
      BY <1>4 DEF Alone
    <2>3. Loose(u) => ahead[u] \in live'
      BY <1>4 DEF Respects
    <2>4. ASSUME NEW n \in InList, HoldsIt(u, n) PROVE n \in InList' /\ next'[n] = next[n]
      <3>1. n \in List!Addresses
        BY DEF InList, ListTypeOK
      <3>2. mtx[n] = u
        BY <2>4, <3>1 DEF ListRuns, LocksInv
      <3> QED
        BY <3>2, <1>4 DEF Respects
    <2>5. lPc[u] \in AtNode => current[u] \in InList' /\ next'[current[u]] = next[current[u]]
      BY <2>1, <2>4 DEF StandsInv, HoldsIt
    <2>6. lPc[u] = "visit" => ahead[u] \in InList'
      BY <2>1, <2>4 DEF StandsInv, HoldsIt
    <2> QED
      BY <2>1, <2>2, <2>3, <2>5, <2>6 DEF StandsInv, AtNode
  <1> QED
    BY <1>1, <1>3, <1>4

\* The nodes on the list are the same, and so are their values.
SameList ==
    /\ InList' = InList
    /\ \A n \in InList : next'[n] = next[n] /\ (n # "head" => data'[n] = data[n])

\* Some values are removed from the list, and none are added to the rest of a walk.
LEMMA WalkShrinks ==
    ASSUME NEW o, NEW p, NEW C, NEW dt, NEW a, NEW s, NEW q, WalkOK(o, p, C, dt, a, s, q),
           NEW E, NEW C2 \in SUBSET C, \A m \in C : dt[m] \notin E => m \in C2,
           NEW dt2, \A m \in C : dt2[m] = dt[m], p = "visit" => dt2[a] = dt[a]
    PROVE  WalkOK(o, p, C2, dt2, a, s, q \ E)
  BY DEF WalkOK

\* So the walks of the others go on.
LEMMA OthersWalk ==
    ASSUME ListTypeOK, ListRuns, NEW w \in Walkers, Alone(w), SameList,
           \A u \in Walkers : u # w => present'[u] = present[u],
           NEW r, OrderInv(r)
    PROVE  Sorted(InList, next, r)' /\ \A u \in Walkers : u # w => WalkInv(r, u)'
  <1>1. Sorted(InList', next', r)
    BY DEF OrderInv, SameList, Sorted
  <1>2. ASSUME NEW u \in Walkers, u # w PROVE WalkInv(r, u)'
    <2>1. /\ lPc'[u] = lPc[u] /\ op'[u] = op[u] /\ current'[u] = current[u]
          /\ ahead'[u] = ahead[u] /\ seen'[u] = seen[u] /\ present'[u] = present[u]
      BY <1>2 DEF Alone
    <2>2. WalkInv(r, u) /\ StandsInv(u)
      BY DEF OrderInv, ListRuns
    <2>3. ToCome(r, u)' = ToCome(r, u)
      BY <2>1 DEF ToCome, SameList
    <2>4. \A m \in ToCome(r, u) : data'[m] = data[m]
      BY DEF ToCome, SameList
    <2>5. lPc[u] = "visit" => data'[ahead[u]] = data[ahead[u]]
      BY <2>2, ListNames DEF StandsInv, SameList
    <2>6. ASSUME lPc[u] \in Walking \cup {"returned"}
          PROVE  WalkOK(op[u], lPc[u], ToCome(r, u), data', ahead[u], seen[u], present[u])
      BY <2>2, <2>4, <2>5, <2>6 DEF WalkInv, WalkOK
    <2> QED
      BY <2>1, <2>2, <2>3, <2>6 DEF WalkInv
  <1> QED
    BY <1>1, <1>2

\* What a step of w owes to what comes next.
LEMMA RunsOn ==
    ASSUME ListTypeOK, ListRuns, ListTypeOK', NEW w \in Walkers, Alone(w), Respects(w),
           \A n \in List!Addresses : mtx'[n] = w <=> HoldsIt(w, n)',
           lPc'[w] # "joined", "head" \in live', StandsInv(w)', DataInv',
           NEW r, OrderInv(r)'
    PROVE  ListInv'
  <1>1. LocksInv' /\ LooseApart' /\ \A u \in Walkers : u # w => StandsInv(u)'
    BY OthersStand
  <1>2. \A u \in Walkers : lPc'[u] # "joined"
    BY DEF Alone, ListRuns
  <1> QED
    BY <1>1, <1>2 DEF ListInv, ListRuns

\* A step that changes no node.
Quiet(w) ==
    /\ UNCHANGED <<next, data, live, pushed>>
    /\ Loose(w)' <=> Loose(w)
    /\ Loose(w) => ahead'[w] = ahead[w]
    /\ \A u \in Walkers : u # w => present'[u] = present[u]
    /\ \A n \in List!Addresses : \/ mtx'[n] = mtx[n]
                                 \/ mtx[n] \in {w, Null} /\ mtx'[n] \in {w, Null}

\* It leaves the list as it is.
LEMMA QuietList == ASSUME NEW w \in Walkers, Alone(w), Quiet(w) PROVE InList' = InList /\ SameList
  <1>1. \A u \in Walkers : (Loose(u)' <=> Loose(u)) /\ (Loose(u) => ahead'[u] = ahead[u])
    BY DEF Alone, Quiet, Loose
  <1>2. InList' = InList
    BY <1>1 DEF InList, Quiet
  <1> QED
    BY <1>2 DEF SameList, Quiet

\* So all that is to show is about w.
LEMMA QuietStep ==
    ASSUME ListTypeOK, ListRuns, ListTypeOK', NEW w \in Walkers, Alone(w), Quiet(w),
           \A n \in List!Addresses : mtx'[n] = w <=> HoldsIt(w, n)',
           lPc'[w] # "joined", StandsInv(w)', NEW r, OrderInv(r), WalkInv(r, w)'
    PROVE  ListInv'
  <1>1. InList' = InList /\ SameList
    BY QuietList
  <1>2. Respects(w)
    <2>1. \A u \in Walkers : u # w /\ Loose(u) => ahead[u] \in live
      BY DEF ListRuns, StandsInv
    <2>2. \A u \in Walkers : u # w /\ Loose(u) /\ Loose(w) => ahead[w] # ahead[u]
      BY DEF ListRuns, LooseApart
    <2> QED
      BY <1>1, <2>1, <2>2 DEF Respects, Quiet, SameList
  <1>3. "head" \in live' /\ DataInv'
    BY DEF ListRuns, DataInv, Quiet
  <1>4. OrderInv(r)'
    <2>1. Sorted(InList, next, r)' /\ \A u \in Walkers : u # w => WalkInv(r, u)'
      BY <1>1, OthersWalk DEF Quiet
    <2> QED
      BY <2>1 DEF OrderInv
  <1> QED
    BY <1>2, <1>3, <1>4, RunsOn

\* A call begins.
LEMMA CallInv ==
    ASSUME ListTypeOK, ListRuns, NEW w \in Walkers,
           NEW f \in {"push_front", "for_each", "remove_if"}, List!Call(w, f)
    PROVE  ListInv'
  <1> USE ListNames
  <1>1. /\ lPc[w] = "call" /\ op' = [op EXCEPT ![w] = f]
        /\ lPc' = [lPc EXCEPT ![w] = IF f = "push_front" THEN "new" ELSE "lockHead"]
        /\ UNCHANGED <<next, data, live, pushed, present, mtx, current, ahead, seen>>
    BY DEF List!Call, List!At, List!Go, List!list
  <1>2. ListTypeOK' /\ Alone(w)
    BY <1>1 DEF ListTypeOK, Alone
  <1>3. op'[w] = f /\ lPc'[w] = IF f = "push_front" THEN "new" ELSE "lockHead"
    BY <1>1 DEF ListTypeOK
  <1>4. Quiet(w)
    BY <1>1, <1>3 DEF Quiet, Loose
  <1>5. InList' = InList
    BY <1>2, <1>4, QuietList
  <1>6. \A n \in List!Addresses : mtx'[n] = w <=> HoldsIt(w, n)'
    BY <1>1, <1>3 DEF ListRuns, LocksInv, HoldsIt, AtNode
  <1>7. StandsInv(w)'
    BY <1>1, <1>3 DEF ListRuns, StandsInv, Loose, AtNode, Walking
  <1>8. PICK r : OrderInv(r)
    BY DEF ListRuns
  <1>9. WalkInv(r, w)'
    BY <1>1, <1>3, <1>8 DEF OrderInv, WalkInv, Walking, AtNode
  <1>10. lPc'[w] # "joined"
    BY <1>3
  <1> QED
    BY ONLY ListTypeOK, ListRuns, w \in Walkers, <1>2, <1>4, <1>6, <1>7, <1>8, <1>9,
            <1>10, QuietStep

\* A thread locks the head and sees the whole list before it.
LEMMA LockHeadInv ==
    ASSUME ListTypeOK, ListRuns, NEW w \in Walkers, List!LockHead(w)
    PROVE  ListInv'
  <1> USE ListNames
  <1>1. /\ lPc[w] = "lockHead" /\ mtx["head"] = Null /\ mtx' = [mtx EXCEPT !["head"] = w]
        /\ present' = [present EXCEPT ![w] = List!Contents]
        /\ lPc' = [lPc EXCEPT ![w] = IF op[w] = "push_front" THEN "link" ELSE "look"]
        /\ UNCHANGED <<next, data, live, pushed, op, current, ahead, seen>>
    BY DEF List!LockHead, List!At, List!Go
  <1>2. PICK r : OrderInv(r)
    BY DEF ListRuns
  <1>3. List!Contents = ValuesIn(InList, data)
    BY <1>2, ContentsAre, ContentsIsCarried DEF OrderInv, ListTypeOK
  <1>4. List!Contents \in SUBSET ListValues
    <2>1. \A n \in InList : n # "head" => n \in Nodes
      BY DEF InList, ListTypeOK
    <2> QED
      BY <1>3, <2>1 DEF ListTypeOK, ValuesIn
  <1>5. ListTypeOK' /\ Alone(w)
    BY <1>1, <1>4 DEF ListTypeOK, Alone
  <1>6. /\ lPc'[w] = IF op[w] = "push_front" THEN "link" ELSE "look"
        /\ present'[w] = List!Contents
        /\ mtx'["head"] = w /\ \A n \in List!Addresses : n # "head" => mtx'[n] = mtx[n]
        /\ \A u \in Walkers : u # w => present'[u] = present[u]
    BY <1>1 DEF ListTypeOK
  <1>7. Quiet(w)
    BY <1>1, <1>6 DEF Quiet, Loose
  <1>8. InList' = InList
    BY <1>5, <1>7, QuietList
  <1>9. current[w] = "head" /\ "head" \in InList
    BY <1>1, <1>2 DEF ListRuns, StandsInv, OrderInv, Sorted
  <1>10. \A n \in List!Addresses : mtx'[n] = w <=> HoldsIt(w, n)'
    BY <1>1, <1>6, <1>9 DEF ListRuns, LocksInv, HoldsIt, AtNode
  <1>11. StandsInv(w)'
    BY <1>1, <1>6, <1>8, <1>9 DEF ListRuns, ListTypeOK, StandsInv, Loose, AtNode, Walking
  <1>12. WalkInv(r, w)'
    <2> SUFFICES ASSUME op[w] # "push_front"
                 PROVE  WalkOK(op[w], "look", ToCome(r, w)', data, ahead[w], <<>>, List!Contents)
      BY <1>1, <1>2, <1>6 DEF OrderInv, WalkInv, Walking, AtNode
    <2>1. ToCome(r, w)' = InList \ {"head"}
      <3>1. \A m \in InList : m # "head" => r[m] < r["head"]
        <4>1. \A m \in InList :
                  r[m] \in Nat /\ r[m] <= r["head"] /\ (r[m] = r["head"] => m = "head")
          BY <1>2 DEF OrderInv, Sorted
        <4> QED
          BY <4>1, <1>9
      <3> QED
        BY <1>1, <1>6, <1>8, <1>9, <3>1 DEF ToCome, AtNode
    <2>2. Elems(<<>>) = {} /\ Differ(<<>>)
      BY DEF Elems, Differ
    <2> QED
      BY <1>3, <2>1, <2>2 DEF WalkOK, ValuesIn
  <1>13. lPc'[w] # "joined"
    BY <1>6
  <1> QED
    BY ONLY ListTypeOK, ListRuns, w \in Walkers, <1>2, <1>5, <1>7, <1>10, <1>11, <1>12,
            <1>13, QuietStep

\* A thread looks for the next node, and returns if there is none.
LEMMA LookInv ==
    ASSUME ListTypeOK, ListRuns, NEW w \in Walkers, List!Look(w)
    PROVE  ListInv'
  <1> USE ListNames
  <1>1. PICK c, a : c = current[w] /\ a = next[c]
    OBVIOUS
  <1>2. /\ lPc[w] = "look" /\ ahead' = [ahead EXCEPT ![w] = a]
        /\ \/ /\ a = Null /\ lPc' = [lPc EXCEPT ![w] = "returned"]
              /\ mtx' = [mtx EXCEPT ![c] = Null]
           \/ a # Null /\ lPc' = [lPc EXCEPT ![w] = "lockNext"] /\ mtx' = mtx
        /\ UNCHANGED <<next, data, live, pushed, present, op, current, seen>>
    BY <1>1 DEF List!Look, List!At, List!Go, List!list
  <1>3. PICK r : OrderInv(r)
    BY DEF ListRuns
  <1>4. c \in InList /\ c \in List!Addresses /\ a \in Nodes \cup {Null}
    BY <1>1, <1>2 DEF ListRuns, ListTypeOK, StandsInv, AtNode
  <1>5. ListTypeOK' /\ Alone(w)
    <2>1. /\ mtx' \in [List!Addresses -> Walkers \cup {Null}]
          /\ lPc' = [lPc EXCEPT ![w] = "returned"] \/ lPc' = [lPc EXCEPT ![w] = "lockNext"]
      BY <1>2, <1>4 DEF ListTypeOK
    <2> QED
      BY <2>1, <1>2, <1>4 DEF ListTypeOK, Alone
  <1>6. /\ ahead'[w] = a /\ current'[w] = c
        /\ \/ /\ a = Null /\ lPc'[w] = "returned" /\ mtx'[c] = Null
              /\ \A n \in List!Addresses : n # c => mtx'[n] = mtx[n]
           \/ a # Null /\ lPc'[w] = "lockNext" /\ mtx' = mtx
    BY <1>1, <1>2, <1>4 DEF ListTypeOK
  <1>7. mtx[c] = w /\ \A n \in List!Addresses : mtx[n] = w => n = c
    BY <1>1, <1>2, <1>4 DEF ListRuns, LocksInv, HoldsIt, AtNode
  <1>8. Quiet(w)
    BY <1>2, <1>6, <1>7 DEF Quiet, Loose
  <1>9. InList' = InList
    BY <1>5, <1>8, QuietList
  <1>10. \A n \in List!Addresses : mtx'[n] = w <=> HoldsIt(w, n)'
    BY <1>6, <1>7 DEF HoldsIt, AtNode
  <1>11. op[w] \in {"for_each", "remove_if"}
    BY <1>2 DEF ListRuns, StandsInv, Walking, AtNode
  <1>12. StandsInv(w)'
    BY <1>1, <1>2, <1>4, <1>6, <1>9, <1>11 DEF StandsInv, Loose, AtNode, Walking
  <1>13. WalkInv(r, w)'
    <2>1. WalkOK(op[w], "look", ToCome(r, w), data, ahead[w], seen[w], present[w])
      BY <1>2, <1>3 DEF OrderInv, WalkInv, Walking, AtNode
    <2>2. ToCome(r, w)' = ToCome(r, w)
      <3>1. CASE a = Null
        <4>1. \A m \in InList : ~(r[m] < r[c])
          BY <1>1, <1>3, <1>4, <3>1 DEF OrderInv, Sorted
        <4> QED
          BY <1>1, <1>2, <1>6, <3>1, <4>1 DEF ToCome, AtNode
      <3>2. CASE a # Null
        BY <1>1, <1>2, <1>6, <1>9, <3>2 DEF ToCome, AtNode
      <3> QED
        BY <3>1, <3>2
    <2>3. lPc'[w] # "visit" /\ lPc'[w] \notin {"call", "new", "lockHead"}
      BY <1>6
    <2>4. WalkOK(op[w], lPc'[w], ToCome(r, w), data, a, seen[w], present[w])
      BY <2>1, <2>3 DEF WalkOK
    <2> QED
      BY <1>2, <1>6, <2>2, <2>3, <2>4 DEF WalkInv
  <1>14. lPc'[w] # "joined"
    BY <1>6
  <1> QED
    BY ONLY ListTypeOK, ListRuns, w \in Walkers, <1>3, <1>5, <1>8, <1>10, <1>12, <1>13,
            <1>14, QuietStep

\* Hand over hand: the next node is locked before the one behind is unlocked.
LEMMA LockNextInv ==
    ASSUME ListTypeOK, ListRuns, NEW w \in Walkers, List!LockNext(w)
    PROVE  ListInv'
  <1> USE ListNames
  <1>1. PICK c, a : c = current[w] /\ a = ahead[w]
    OBVIOUS
  <1>2. /\ lPc[w] = "lockNext" /\ mtx[a] = Null /\ mtx' = [mtx EXCEPT ![a] = w]
        /\ lPc' = [lPc EXCEPT ![w] = "decide"]
        /\ UNCHANGED <<next, data, live, pushed, present, op, current, ahead, seen>>
    BY <1>1 DEF List!LockNext, List!At, List!Go, List!list
  <1>3. PICK r : OrderInv(r)
    BY DEF ListRuns
  <1>4. /\ c \in InList /\ a = next[c] /\ a # Null
        /\ op[w] \in {"for_each", "remove_if"}
    BY <1>1, <1>2 DEF ListRuns, StandsInv, AtNode, Walking
  <1>5. a \in InList /\ a \in List!Addresses /\ c \in List!Addresses
    BY <1>3, <1>4 DEF OrderInv, Sorted
  <1>6. ListTypeOK' /\ Alone(w)
    BY <1>2 DEF ListTypeOK, Alone
  <1>7. /\ lPc'[w] = "decide" /\ mtx'[a] = w
        /\ \A n \in List!Addresses : n # a => mtx'[n] = mtx[n]
    BY <1>2, <1>5 DEF ListTypeOK
  <1>8. Quiet(w)
    BY <1>2, <1>7 DEF Quiet, Loose
  <1>9. InList' = InList
    BY <1>6, <1>8, QuietList
  <1>10. \A n \in List!Addresses : mtx[n] = w <=> n = c
    BY <1>1, <1>2 DEF ListRuns, LocksInv, HoldsIt, AtNode
  <1>11. \A n \in List!Addresses : mtx'[n] = w <=> HoldsIt(w, n)'
    BY <1>1, <1>2, <1>7, <1>10 DEF HoldsIt, AtNode
  <1>12. StandsInv(w)'
    BY <1>1, <1>2, <1>4, <1>7, <1>9 DEF StandsInv, Loose, AtNode, Walking
  <1>13. WalkInv(r, w)'
    <2>1. WalkOK(op[w], "lockNext", ToCome(r, w), data, a, seen[w], present[w])
      BY <1>1, <1>2, <1>3 DEF OrderInv, WalkInv, Walking, AtNode
    <2>2. ToCome(r, w)' = ToCome(r, w)
      BY <1>2, <1>7, <1>9 DEF ToCome, AtNode
    <2>3. WalkOK(op[w], "decide", ToCome(r, w), data, a, seen[w], present[w])
      BY <2>1 DEF WalkOK
    <2> QED
      BY <1>1, <1>2, <1>7, <2>2, <2>3 DEF WalkInv
  <1>14. lPc'[w] # "joined"
    BY <1>7
  <1> QED
    BY ONLY ListTypeOK, ListRuns, w \in Walkers, <1>3, <1>6, <1>8, <1>11, <1>12, <1>13,
            <1>14, QuietStep

\* The node behind is let go: what w has to come by is the same, counted from the next.
LEMMA HandOverInv ==
    ASSUME ListTypeOK, ListRuns, NEW w \in Walkers, List!HandOver(w)
    PROVE  ListInv'
  <1> USE ListNames
  <1>1. PICK c, a : c = current[w] /\ a = ahead[w]
    OBVIOUS
  <1>2. /\ lPc[w] = "decide" /\ ~(op[w] = "remove_if" /\ data[a] \in Doomed)
        /\ mtx' = [n \in List!Addresses |-> IF n = c /\ mtx[n] = w THEN Null ELSE mtx[n]]
        /\ lPc' = [lPc EXCEPT ![w] = "visit"]
        /\ UNCHANGED <<next, data, live, pushed, present, op, current, ahead, seen>>
    BY <1>1 DEF List!HandOver, List!Removes, List!At, List!Go, List!list
  <1>3. PICK r : OrderInv(r)
    BY DEF ListRuns
  <1>4. /\ c \in InList /\ a = next[c] /\ a # Null
        /\ op[w] \in {"for_each", "remove_if"}
    BY <1>1, <1>2 DEF ListRuns, StandsInv, AtNode, Walking
  <1>5. /\ a \in InList /\ a \in List!Addresses /\ c \in List!Addresses /\ r[a] < r[c]
        /\ \A m \in InList : r[m] < r[c] => r[m] <= r[a]
        /\ \A m \in InList : r[m] \in Nat
    BY <1>3, <1>4 DEF OrderInv, Sorted
  <1>6. ListTypeOK' /\ Alone(w)
    BY <1>2 DEF ListTypeOK, Alone
  <1>7. /\ lPc'[w] = "visit"
        /\ \A n \in List!Addresses : mtx'[n] = IF n = c /\ mtx[n] = w THEN Null ELSE mtx[n]
    BY <1>2 DEF ListTypeOK
  <1>8. Quiet(w)
    BY <1>2, <1>7 DEF Quiet, Loose
  <1>9. InList' = InList
    BY <1>6, <1>8, QuietList
  <1>10. c # a /\ a \in Nodes /\ \A n \in List!Addresses : mtx[n] = w <=> n = c \/ n = a
    <2>1. \A n \in List!Addresses : mtx[n] = w <=> n = c \/ n = a
      BY <1>1, <1>2 DEF ListRuns, LocksInv, HoldsIt, AtNode
    <2>2. a # "head"
      BY <1>3, <1>4, OnePredecessor DEF OrderInv
    <2> QED
      BY <2>1, <2>2, <1>5
  <1>11. \A n \in List!Addresses : mtx'[n] = w <=> HoldsIt(w, n)'
    BY <1>1, <1>2, <1>7, <1>10 DEF HoldsIt, AtNode
  <1>12. StandsInv(w)'
    BY <1>1, <1>2, <1>4, <1>5, <1>7, <1>9, <1>10 DEF StandsInv, Loose, AtNode, Walking
  <1>13. WalkInv(r, w)'
    <2>1. WalkOK(op[w], "decide", ToCome(r, w), data, a, seen[w], present[w])
      BY <1>1, <1>2, <1>3 DEF OrderInv, WalkInv, Walking, AtNode
    <2>2. ToCome(r, w)' = ToCome(r, w)
      <3>1. \A m \in InList : r[m] <= r[a] <=> r[m] < r[c]
        BY <1>4, <1>5
      <3> QED
        BY <1>1, <1>2, <1>7, <1>9, <3>1 DEF ToCome, AtNode
    <2>3. WalkOK(op[w], "visit", ToCome(r, w), data, a, seen[w], present[w])
      BY <2>1, <1>2 DEF WalkOK
    <2> QED
      BY <1>1, <1>2, <1>7, <2>2, <2>3 DEF WalkInv
  <1>14. lPc'[w] # "joined"
    BY <1>7
  <1> QED
    BY ONLY ListTypeOK, ListRuns, w \in Walkers, <1>3, <1>6, <1>8, <1>11, <1>12, <1>13,
            <1>14, QuietStep

\* fn is called with the node's value, which w has then come by.
LEMMA VisitInv ==
    ASSUME ListTypeOK, ListRuns, NEW w \in Walkers, List!Visit(w)
    PROVE  ListInv'
  <1> USE ListNames
  <1>1. PICK a : a = ahead[w]
    OBVIOUS
  <1>2. /\ lPc[w] = "visit" /\ current' = [current EXCEPT ![w] = a]
        /\ \/ op[w] = "for_each" /\ seen' = [seen EXCEPT ![w] = Append(seen[w], data[a])]
           \/ op[w] # "for_each" /\ seen' = seen
        /\ lPc' = [lPc EXCEPT ![w] = "look"]
        /\ UNCHANGED <<next, data, live, pushed, present, mtx, op, ahead>>
    BY <1>1 DEF List!Visit, List!At, List!Go, List!list
  <1>3. PICK r : OrderInv(r)
    BY DEF ListRuns
  <1>4. /\ a \in InList /\ a \in Nodes /\ a \in List!Addresses
        /\ op[w] \in {"for_each", "remove_if"}
    BY <1>1, <1>2 DEF ListRuns, StandsInv, AtNode, Walking
  <1>5. PICK s, v : s = seen[w] /\ v = data[a]
    OBVIOUS
  <1>6. /\ s \in Seq(ListValues) /\ v \in ListValues /\ Append(s, v) \in Seq(ListValues)
        /\ Elems(Append(s, v)) = Elems(s) \cup {v}
        /\ Differ(s) /\ v \notin Elems(s) => Differ(Append(s, v))
    <2>1. s \in Seq(ListValues) /\ v \in ListValues
      BY <1>4, <1>5 DEF ListTypeOK
    <2> QED
      BY <2>1, ElemsOfAppend
  <1>7. ListTypeOK' /\ Alone(w)
    <2>1. CASE seen' = seen
      BY <2>1, <1>2, <1>4 DEF ListTypeOK, Alone
    <2>2. CASE seen' = [seen EXCEPT ![w] = Append(s, v)]
      <3>1. seen' \in [Walkers -> Seq(ListValues)]
        BY <2>2, <1>6 DEF ListTypeOK
      <3>2. \A u \in Walkers : u # w => seen'[u] = seen[u]
        BY <2>2 DEF ListTypeOK
      <3> QED
        BY <3>1, <3>2, <1>2, <1>4 DEF ListTypeOK, Alone
    <2> QED
      BY <2>1, <2>2, <1>2, <1>5
  <1>8. /\ lPc'[w] = "look" /\ current'[w] = a
        /\ seen'[w] = IF op[w] = "for_each" THEN Append(s, v) ELSE s
    BY <1>2, <1>5 DEF ListTypeOK
  <1>9. Quiet(w)
    BY <1>2, <1>8 DEF Quiet, Loose
  <1>10. InList' = InList
    BY <1>7, <1>9, QuietList
  <1>11. \A n \in List!Addresses : mtx'[n] = w <=> HoldsIt(w, n)'
    BY <1>1, <1>2, <1>8 DEF ListRuns, LocksInv, HoldsIt, AtNode
  <1>12. StandsInv(w)'
    BY <1>1, <1>2, <1>4, <1>8, <1>10 DEF StandsInv, Loose, AtNode, Walking
  <1>13. WalkInv(r, w)'
    <2>1. PICK C, D : C = ToCome(r, w) /\ D = ToCome(r, w)'
      OBVIOUS
    <2>2. WalkOK(op[w], "visit", C, data, a, s, present[w])
      BY <1>1, <1>2, <1>3, <1>5, <2>1 DEF OrderInv, WalkInv, Walking, AtNode
    <2>3. C = D \cup {a} /\ a \notin D
      <3>1. \A m \in InList : /\ r[m] <= r[a] <=> r[m] < r[a] \/ m = a
                              /\ m = a => ~(r[m] < r[a])
        <4>1. \A m \in InList : r[m] \in Nat /\ (r[m] = r[a] => m = a)
          BY <1>3, <1>4 DEF OrderInv, Sorted
        <4> QED
          BY <4>1, <1>4
      <3>2. C = {m \in InList : m # "head" /\ r[m] <= r[a]}
        BY <1>1, <1>2, <2>1 DEF ToCome, AtNode
      <3>3. D = {m \in InList : m # "head" /\ r[m] < r[a]}
        BY <1>8, <1>10, <2>1 DEF ToCome, AtNode
      <3> QED
        BY <1>4, <3>1, <3>2, <3>3
    <2>4. \A m \in D : data[m] # v
      <3>1. \A m \in D : m \in live /\ m # "head"
        BY <1>8, <1>10, <2>1 DEF ToCome, InList
      <3>2. a \in live /\ a # "head"
        BY <1>4 DEF InList
      <3> QED
        BY <2>3, <3>1, <3>2, <1>5 DEF ListRuns, DataInv
    <2>5. CASE op[w] = "for_each"
      <3>1. v \notin Elems(s) /\ Differ(s)
        BY <2>2, <2>3, <2>5, <1>5 DEF WalkOK
      <3>2. WalkOK("for_each", "look", D, data, a, Append(s, v), present[w])
        BY <2>2, <2>3, <2>4, <2>5, <3>1, <1>5, <1>6 DEF WalkOK
      <3> QED
        BY <1>1, <1>2, <1>8, <2>1, <2>5, <3>2 DEF WalkInv
    <2>6. CASE op[w] = "remove_if"
      <3>1. WalkOK("remove_if", "look", D, data, a, s, present[w])
        BY <2>2, <2>3, <2>6, <1>5 DEF WalkOK
      <3> QED
        BY <1>1, <1>2, <1>8, <2>1, <2>6, <3>1 DEF WalkInv
    <2> QED
      BY <1>4, <2>5, <2>6
  <1>14. lPc'[w] # "joined"
    BY <1>8
  <1> QED
    BY ONLY ListTypeOK, ListRuns, w \in Walkers, <1>3, <1>7, <1>9, <1>11, <1>12, <1>13,
            <1>14, QuietStep

\* There is an address for a value that has not been pushed: the live nodes carry values
\* that differ.
LEMMA FreeNode ==
    ASSUME ListTypeOK, DataInv, NEW v \in ListValues, v \notin pushed
    PROVE  \E n \in Nodes : n \notin live
  <1> SUFFICES ASSUME Nodes \subseteq live PROVE FALSE
    OBVIOUS
  <1>1. data \in [Nodes -> pushed] /\ \A m, n \in Nodes : data[m] = data[n] => m = n
    BY ListNames DEF ListTypeOK, DataInv
  <1>2. pushed \in SUBSET ListValues /\ pushed # ListValues
    BY DEF ListTypeOK
  <1>3. /\ IsFiniteSet(pushed) /\ Cardinality(pushed) <= Cardinality(ListValues)
        /\ Cardinality(pushed) # Cardinality(ListValues)
    BY <1>2, FS_Subset, ListAssumption
  <1>4. Cardinality(pushed) \in Nat /\ Cardinality(ListValues) \in Nat /\ Cardinality(Nodes) \in Nat
    BY <1>3, FS_CardinalityType, ListAssumption
  <1>5. Cardinality(pushed) < Cardinality(Nodes)
    BY <1>3, <1>4, ListAssumption
  <1> QED
    BY <1>1, <1>3, <1>5, FS_PigeonHole, ListAssumption

\* push_front makes a node, which is its own yet.
LEMMA NewNodeInv ==
    ASSUME ListTypeOK, ListRuns, NEW w \in Walkers, NEW v \in ListValues, List!NewNode(w, v)
    PROVE  ListInv'
  <1> USE ListNames
  <1>1. PICK n \in Nodes :
            /\ n \notin live /\ v \notin pushed /\ lPc[w] = "new"
            /\ pushed' = pushed \cup {v} /\ live' = live \cup {n}
            /\ data' = [data EXCEPT ![n] = v] /\ next' = [next EXCEPT ![n] = Null]
            /\ ahead' = [ahead EXCEPT ![w] = n] /\ lPc' = [lPc EXCEPT ![w] = "lockHead"]
            /\ UNCHANGED <<present, mtx, op, current, seen>>
    <2>1. v \notin pushed
      BY DEF List!NewNode
    <2>2. \E n \in Nodes : n \notin live
      BY <2>1, FreeNode DEF ListRuns
    <2>3. PICK n : n = CHOOSE m \in Nodes : m \notin live
      OBVIOUS
    <2>4. n \in Nodes /\ n \notin live
      BY <2>2, <2>3
    <2> QED
      BY <2>3, <2>4 DEF List!NewNode, List!At, List!Go
  <1>2. n \in List!Addresses /\ n # "head"
    BY <1>1
  <1>3. ListTypeOK' /\ Alone(w)
    BY <1>1, <1>2 DEF ListTypeOK, Alone
  <1>4. /\ lPc'[w] = "lockHead" /\ ahead'[w] = n /\ data'[n] = v
        /\ \A m \in List!Addresses : m # n => next'[m] = next[m]
        /\ \A m \in Nodes : m # n => data'[m] = data[m]
    BY <1>1 DEF ListTypeOK
  <1>5. op[w] = "push_front"
    BY <1>1 DEF ListRuns, StandsInv
  <1>6. /\ ~Loose(w) /\ Loose(w)'
        /\ \A u \in Walkers : u # w => (Loose(u)' <=> Loose(u)) /\ ahead'[u] = ahead[u]
    BY <1>1, <1>3, <1>4, <1>5 DEF Loose, Alone
  <1>7. InList' = InList
    BY <1>1, <1>4, <1>6 DEF InList
  <1>8. \A m \in InList : m # n /\ m \in List!Addresses /\ (m # "head" => m \in Nodes)
    BY <1>1 DEF InList, ListTypeOK
  <1>9. SameList
    BY <1>4, <1>7, <1>8 DEF SameList
  <1>10. \A u \in Walkers : u # w /\ Loose(u) => ahead[u] \in live /\ ahead[u] # n
    BY <1>1 DEF ListRuns, StandsInv
  <1>11. Respects(w)
    BY <1>1, <1>4, <1>7, <1>8, <1>10 DEF Respects
  <1>12. \A m \in List!Addresses : mtx'[m] = w <=> HoldsIt(w, m)'
    BY <1>1, <1>4 DEF ListRuns, LocksInv, HoldsIt, AtNode
  <1>13. lPc'[w] # "joined" /\ "head" \in live'
    BY <1>1, <1>4 DEF ListRuns
  <1>14. StandsInv(w)'
    <2>1. lPc'[w] \notin {"new", "link", "call", "visit"} /\ lPc'[w] \notin Walking
      BY <1>4 DEF Walking, AtNode
    <2>2. op'[w] = "push_front" /\ ahead'[w] \in live' /\ ahead'[w] \in Nodes
      BY <1>1, <1>4, <1>5
    <2>3. current'[w] = "head"
      BY <1>1 DEF ListRuns, StandsInv
    <2> QED
      BY <2>1, <2>2, <2>3 DEF StandsInv, Walking, AtNode
  <1>15. DataInv'
    <2>1. \A m \in live : m # "head" => data'[m] = data[m] /\ data[m] \in pushed
      BY <1>1, <1>4 DEF ListRuns, DataInv, ListTypeOK
    <2>2. \A m \in live' : m \in live \/ m = n
      BY <1>1
    <2> QED
      BY <1>1, <1>4, <2>1, <2>2 DEF ListRuns, DataInv
  <1>16. PICK r : OrderInv(r)
    BY DEF ListRuns
  <1>17. WalkInv(r, w)'
    BY <1>1, <1>4, <1>16 DEF OrderInv, WalkInv, Walking, AtNode
  <1>18. OrderInv(r)'
    <2>1. Sorted(InList, next, r)' /\ \A u \in Walkers : u # w => WalkInv(r, u)'
      BY <1>1, <1>3, <1>9, <1>16, OthersWalk
    <2> QED
      BY <2>1, <1>17 DEF OrderInv
  <1> QED
    BY ONLY ListTypeOK, ListRuns, w \in Walkers, <1>3, <1>11, <1>12, <1>13, <1>14, <1>15,
            <1>18, RunsOn

\* A removed node is deleted.
LEMMA DeleteNodeInv ==
    ASSUME ListTypeOK, ListRuns, NEW w \in Walkers, List!DeleteNode(w)
    PROVE  ListInv'
  <1> USE ListNames
  <1>1. PICK a : a = ahead[w]
    OBVIOUS
  <1>2. /\ lPc[w] = "delete" /\ live' = live \ {a} /\ lPc' = [lPc EXCEPT ![w] = "look"]
        /\ UNCHANGED <<next, data, pushed, present, mtx, op, current, ahead, seen>>
    BY <1>1 DEF List!DeleteNode, List!At, List!Go
  <1>3. ListTypeOK' /\ Alone(w)
    BY <1>2 DEF ListTypeOK, Alone
  <1>4. lPc'[w] = "look"
    BY <1>2 DEF ListTypeOK
  <1>5. /\ op[w] \in {"for_each", "remove_if"} /\ current[w] \in InList
        /\ Loose(w) /\ ~Loose(w)' /\ a \in Nodes
        /\ \A u \in Walkers : u # w => (Loose(u)' <=> Loose(u))
    BY <1>1, <1>2, <1>3, <1>4 DEF ListRuns, StandsInv, Loose, Alone, Walking, AtNode
  <1>6. InList' = InList
    BY <1>1, <1>2, <1>5 DEF InList
  <1>7. SameList
    BY <1>2, <1>6 DEF SameList
  <1>8. \A u \in Walkers : u # w /\ Loose(u) => ahead[u] \in live /\ ahead[u] # a
    BY <1>1, <1>5 DEF ListRuns, StandsInv, LooseApart
  <1>9. Respects(w)
    BY <1>2, <1>5, <1>6, <1>8 DEF Respects
  <1>10. \A m \in List!Addresses : mtx'[m] = w <=> HoldsIt(w, m)'
    BY <1>2, <1>4 DEF ListRuns, LocksInv, HoldsIt, AtNode
  <1>11. lPc'[w] # "joined" /\ "head" \in live'
    BY <1>2, <1>4, <1>5 DEF ListRuns
  <1>12. StandsInv(w)'
    BY <1>2, <1>4, <1>5, <1>6 DEF StandsInv, Walking, AtNode
  <1>13. DataInv'
    BY <1>2 DEF ListRuns, DataInv
  <1>14. PICK r : OrderInv(r)
    BY DEF ListRuns
  <1>15. WalkInv(r, w)'
    <2>1. WalkOK(op[w], "delete", ToCome(r, w), data, a, seen[w], present[w])
      BY <1>1, <1>2, <1>14 DEF OrderInv, WalkInv, Walking, AtNode
    <2>2. ToCome(r, w)' = ToCome(r, w)
      BY <1>2, <1>4, <1>6 DEF ToCome, AtNode
    <2>3. WalkOK(op[w], "look", ToCome(r, w), data, a, seen[w], present[w])
      BY <2>1 DEF WalkOK
    <2> QED
      BY <1>1, <1>2, <1>4, <2>2, <2>3 DEF WalkInv
  <1>16. OrderInv(r)'
    <2>1. Sorted(InList, next, r)' /\ \A u \in Walkers : u # w => WalkInv(r, u)'
      BY <1>2, <1>3, <1>7, <1>14, OthersWalk
    <2> QED
      BY <2>1, <1>15 DEF OrderInv
  <1> QED
    BY ONLY ListTypeOK, ListRuns, w \in Walkers, <1>3, <1>9, <1>10, <1>11, <1>12, <1>13,
            <1>16, RunsOn

\* The new node is linked behind the head, where every walk has gone by.
LEMMA LinkFrontInv ==
    ASSUME ListTypeOK, ListRuns, NEW w \in Walkers, List!LinkFront(w)
    PROVE  ListInv'
  <1> USE ListNames
  <1>1. PICK n : n = ahead[w]
    OBVIOUS
  <1>2. /\ lPc[w] = "link" /\ next' = [next EXCEPT ![n] = next["head"], !["head"] = n]
        /\ mtx' = [mtx EXCEPT !["head"] = Null] /\ lPc' = [lPc EXCEPT ![w] = "returned"]
        /\ UNCHANGED <<data, live, pushed, present, op, current, ahead, seen>>
    BY <1>1 DEF List!LinkFront, List!At, List!Go
  <1>3. PICK r : OrderInv(r)
    BY DEF ListRuns
  <1>4. op[w] = "push_front" /\ Loose(w) /\ n \in live /\ n \in Nodes
    BY <1>1, <1>2 DEF ListRuns, StandsInv, Loose
  <1>5. ListTypeOK' /\ Alone(w)
    BY <1>2, <1>4 DEF ListTypeOK, Alone
  <1>6. /\ lPc'[w] = "returned" /\ mtx'["head"] = Null
        /\ \A m \in List!Addresses : m # "head" => mtx'[m] = mtx[m]
        /\ next'[n] = next["head"] /\ next'["head"] = n
        /\ \A m \in List!Addresses : m # "head" /\ m # n => next'[m] = next[m]
    BY <1>2, <1>4 DEF ListTypeOK
  <1>7. ~Loose(w)' /\ \A u \in Walkers : u # w => (Loose(u)' <=> Loose(u)) /\ ahead'[u] = ahead[u]
    BY <1>5, <1>6 DEF Loose, Alone
  <1>8. \A u \in Walkers : u # w /\ Loose(u) => ahead[u] \in live /\ ahead[u] # n
    BY <1>1, <1>4 DEF ListRuns, StandsInv, LooseApart
  <1>9. n \notin InList /\ InList' = InList \cup {n}
    BY <1>1, <1>2, <1>4, <1>7, <1>8 DEF InList
  <1>10. \A m \in List!Addresses : mtx[m] = w <=> m = "head"
    BY <1>2 DEF ListRuns, LocksInv, HoldsIt, AtNode
  <1>11. \A m \in InList : m # n /\ m \in List!Addresses
    BY <1>9 DEF InList, ListTypeOK
  <1>12. Respects(w)
    BY <1>2, <1>6, <1>7, <1>8, <1>9, <1>10, <1>11 DEF Respects
  <1>13. \A m \in List!Addresses : mtx'[m] = w <=> HoldsIt(w, m)'
    BY <1>6, <1>10 DEF HoldsIt, AtNode
  <1>14. lPc'[w] # "joined" /\ "head" \in live' /\ DataInv'
    BY <1>2, <1>6 DEF ListRuns, DataInv
  <1>15. StandsInv(w)'
    BY <1>6, <1>7 DEF StandsInv, Walking, AtNode
  <1>16. PICK r2 : r2 = [r EXCEPT ![n] = r["head"], !["head"] = r["head"] + 1]
    OBVIOUS
  <1>17. Sorted(InList', next', r2)
    <2>1. PICK L, nx, nx2 : L = InList /\ nx = next /\ nx2 = next'
      OBVIOUS
    <2>2. Sorted(L, nx, r) /\ n \in Nodes /\ n \notin L
      BY <1>3, <1>4, <1>9, <2>1 DEF OrderInv
    <2>3. /\ nx2[n] = nx["head"] /\ nx2["head"] = n
          /\ \A m \in L : m # "head" => nx2[m] = nx[m]
      BY <1>6, <1>11, <2>1
    <2>4. Sorted(L \cup {n}, nx2, r2)
      BY ONLY <2>2, <2>3, <1>16, SortedLink
    <2> QED
      BY <1>9, <2>1, <2>4
  <1>18. /\ \A m \in InList : /\ r[m] \in Nat /\ r[m] <= r["head"]
                              /\ m # "head" => r2[m] = r[m]
         /\ r2[n] = r["head"] /\ r["head"] \in Nat
    BY <1>3, <1>4, <1>9, <1>11, <1>16 DEF OrderInv, Sorted
  <1>19. ASSUME NEW u \in Walkers, u # w PROVE WalkInv(r2, u)'
    <2>1. /\ lPc'[u] = lPc[u] /\ op'[u] = op[u] /\ current'[u] = current[u]
          /\ ahead'[u] = ahead[u] /\ seen'[u] = seen[u] /\ present'[u] = present[u]
      BY <1>2, <1>5, <1>19 DEF Alone
    <2>2. WalkInv(r, u) /\ StandsInv(u)
      BY <1>3 DEF OrderInv, ListRuns
    <2>3. lPc[u] \in AtNode => current[u] \in InList /\ current[u] # "head"
      <3>1. lPc[u] \in AtNode => current[u] \in InList /\ HoldsIt(u, current[u])
        BY <2>2 DEF StandsInv, HoldsIt
      <3>2. ~HoldsIt(u, "head")
        BY <1>10, <1>19 DEF ListRuns, LocksInv
      <3> QED
        BY <3>1, <3>2
    <2>4. lPc[u] = "visit" => ahead[u] \in InList /\ ahead[u] # "head"
      BY <2>2 DEF StandsInv
    <2>5. ToCome(r2, u)' = ToCome(r, u)
      <3>1. ASSUME NEW c \in InList, c # "head"
            PROVE  /\ \A m \in InList : m # "head" => /\ r2[m] < r2[c] <=> r[m] < r[c]
                                                      /\ r2[m] <= r2[c] <=> r[m] <= r[c]
                   /\ ~(r2[n] < r2[c])
                   /\ r2[n] <= r2[c] => r[c] = r["head"]
        BY <1>18, <3>1
      <3>2. \A c \in InList : r[c] = r["head"] => c = "head"
        BY <1>3 DEF OrderInv, Sorted
      <3> QED
        BY <1>9, <2>1, <2>3, <2>4, <3>1, <3>2 DEF ToCome
    <2> QED
      BY <1>2, <2>1, <2>2, <2>5 DEF WalkInv
  <1>20. WalkInv(r2, w)'
    BY <1>2, <1>4, <1>6 DEF WalkInv, WalkOK
  <1>21. OrderInv(r2)'
    BY <1>17, <1>19, <1>20 DEF OrderInv
  <1> QED
    BY ONLY ListTypeOK, ListRuns, w \in Walkers, <1>5, <1>12, <1>13, <1>14, <1>15, <1>21, RunsOn

\* A node is unlinked behind one that is locked, and its value is no longer in the list.
LEMMA RemoveInv ==
    ASSUME ListTypeOK, ListRuns, NEW w \in Walkers, List!Remove(w)
    PROVE  ListInv'
  <1> USE ListNames
  <1>1. PICK c, a : c = current[w] /\ a = ahead[w]
    OBVIOUS
  <1>2. /\ lPc[w] = "decide" /\ op[w] = "remove_if" /\ next' = [next EXCEPT ![c] = next[a]]
        /\ mtx' = [mtx EXCEPT ![a] = Null] /\ lPc' = [lPc EXCEPT ![w] = "delete"]
        /\ present' = [u \in Walkers |-> present[u] \ {data[a]}]
        /\ UNCHANGED <<data, live, pushed, op, current, ahead, seen>>
    BY <1>1 DEF List!Remove, List!Removes, List!Unlink, List!At, List!Go
  <1>3. PICK r : OrderInv(r)
    BY DEF ListRuns
  <1>4. c \in InList /\ a = next[c] /\ a # Null
    BY <1>1, <1>2 DEF ListRuns, StandsInv, AtNode
  <1>5. /\ a \in InList /\ a \in List!Addresses /\ c \in List!Addresses /\ a # c /\ a # "head"
        /\ a \in Nodes
    <2>1. /\ a \in InList /\ a \in List!Addresses /\ c \in List!Addresses
          /\ r[a] < r[c] /\ r[c] \in Nat
      BY <1>3, <1>4 DEF OrderInv, Sorted
    <2>2. a # "head"
      BY <1>3, <1>4, OnePredecessor DEF OrderInv
    <2> QED
      BY <2>1, <2>2
  <1>6. ListTypeOK' /\ Alone(w)
    <2>1. present' \in [Walkers -> SUBSET ListValues]
      BY <1>2 DEF ListTypeOK
    <2>2. next' \in [List!Addresses -> Nodes \cup {Null}]
      BY <1>2, <1>5 DEF ListTypeOK
    <2> QED
      BY <2>1, <2>2, <1>2 DEF ListTypeOK, Alone
  <1>7. /\ lPc'[w] = "delete" /\ mtx'[a] = Null
        /\ \A m \in List!Addresses : m # a => mtx'[m] = mtx[m]
        /\ next'[c] = next[a] /\ \A m \in List!Addresses : m # c => next'[m] = next[m]
        /\ \A u \in Walkers : present'[u] = present[u] \ {data[a]}
    BY <1>2, <1>5 DEF ListTypeOK
  <1>8. /\ Loose(w)' /\ ahead'[w] = a
        /\ \A u \in Walkers : u # w => (Loose(u)' <=> Loose(u)) /\ ahead'[u] = ahead[u]
    BY <1>1, <1>2, <1>6, <1>7 DEF Loose, Alone
  <1>9. ~Loose(w)
    BY <1>2 DEF Loose
  <1>10. InList' = InList \ {a}
    BY <1>2, <1>8, <1>9 DEF InList
  <1>11. \A m \in List!Addresses : mtx[m] = w <=> m = c \/ m = a
    BY <1>1, <1>2 DEF ListRuns, LocksInv, HoldsIt, AtNode
  <1>12. \A m \in InList : m \in List!Addresses
    BY DEF InList, ListTypeOK
  <1>13. \A u \in Walkers : u # w /\ Loose(u) => ahead[u] \in live /\ ahead[u] # a
    BY <1>5 DEF ListRuns, StandsInv, InList
  <1>14. Respects(w)
    BY <1>2, <1>7, <1>8, <1>10, <1>11, <1>12, <1>13 DEF Respects
  <1>15. \A m \in List!Addresses : mtx'[m] = w <=> HoldsIt(w, m)'
    BY <1>1, <1>2, <1>5, <1>7, <1>11 DEF HoldsIt, AtNode
  <1>16. lPc'[w] # "joined" /\ "head" \in live' /\ DataInv'
    BY <1>2, <1>7 DEF ListRuns, DataInv
  <1>17. StandsInv(w)'
    <2>1. current'[w] = c /\ c \in InList' /\ op'[w] = "remove_if" /\ a \in live'
      BY <1>1, <1>2, <1>4, <1>5, <1>10 DEF InList
    <2> QED
      BY <2>1, <1>5, <1>7, <1>8 DEF StandsInv, Walking, AtNode
  <1>18. Sorted(InList', next', r)
    <2>1. PICK L, nx, nx2 : L = InList /\ nx = next /\ nx2 = next'
      OBVIOUS
    <2>2. Sorted(L, nx, r) /\ c \in L /\ a = nx[c] /\ a # Null
      BY <1>3, <1>4, <2>1 DEF OrderInv
    <2>3. nx2[c] = nx[a] /\ \A m \in L : m # c => nx2[m] = nx[m]
      BY <1>7, <1>12, <2>1
    <2>4. Sorted(L \ {a}, nx2, r)
      BY ONLY <2>2, <2>3, SortedUnlink
    <2> QED
      BY <1>10, <2>1, <2>4
  <1>19. ASSUME NEW u \in Walkers, lPc[u] \in Walking \cup {"returned"}
         PROVE  WalkOK(op[u], lPc[u], ToCome(r, u) \ {a}, data, ahead[u], seen[u],
                       present[u] \ {data[a]})
    <2>1. WalkOK(op[u], lPc[u], ToCome(r, u), data, ahead[u], seen[u], present[u])
      BY <1>3, <1>19 DEF OrderInv, WalkInv
    <2>2. \A m \in ToCome(r, u) : data[m] \notin {data[a]} => m \in ToCome(r, u) \ {a}
      OBVIOUS
    <2> QED
      BY <2>1, <2>2, WalkShrinks
  <1>20. ASSUME NEW u \in Walkers, u # w PROVE WalkInv(r, u)'
    <2>1. /\ lPc'[u] = lPc[u] /\ op'[u] = op[u] /\ current'[u] = current[u]
          /\ ahead'[u] = ahead[u] /\ seen'[u] = seen[u]
      BY <1>6, <1>20 DEF Alone
    <2>2. ToCome(r, u)' = ToCome(r, u) \ {a}
      BY <1>10, <2>1 DEF ToCome
    <2>3. lPc[u] \in {"call", "new", "lockHead"} => seen[u] = <<>>
      BY <1>3 DEF OrderInv, WalkInv
    <2> QED
      BY <1>2, <1>7, <1>19, <2>1, <2>2, <2>3 DEF WalkInv
  <1>21. WalkInv(r, w)'
    <2>1. ToCome(r, w)' = ToCome(r, w) \ {a}
      BY <1>2, <1>7, <1>10 DEF ToCome, AtNode
    <2>2. WalkOK(op[w], "decide", ToCome(r, w) \ {a}, data, a, seen[w], present[w] \ {data[a]})
      BY <1>1, <1>2, <1>19 DEF Walking, AtNode
    <2>3. WalkOK(op[w], "delete", ToCome(r, w) \ {a}, data, a, seen[w], present[w] \ {data[a]})
      BY <2>2 DEF WalkOK
    <2> QED
      BY <1>1, <1>2, <1>7, <2>1, <2>3 DEF WalkInv
  <1>22. OrderInv(r)'
    BY <1>18, <1>20, <1>21 DEF OrderInv
  <1> QED
    BY ONLY ListTypeOK, ListRuns, w \in Walkers, <1>6, <1>14, <1>15, <1>16, <1>17, <1>22, RunsOn

\* When all calls have returned, every node that lives is on the list, and the
\* destructor finds it.
LEMMA DestroyListInv == ASSUME ListTypeOK, ListRuns, List!DestroyList PROVE ListInv'
  <1> USE ListNames
  <1>1. /\ \A w \in Walkers : lPc[w] = "returned"
        /\ lPc' = [w \in Walkers |-> "joined"]
        /\ live' = {n \in live : n # "head" /\ data[n] \notin List!Contents}
        /\ next' = [next EXCEPT !["head"] = Null]
        /\ UNCHANGED <<data, pushed, present, mtx, op, current, ahead, seen>>
    BY DEF List!DestroyList, List!At
  <1>2. PICK r : OrderInv(r)
    BY DEF ListRuns
  <1>3. List!Contents = ValuesIn(InList, data)
    BY <1>2, ContentsAre, ContentsIsCarried DEF OrderInv, ListTypeOK
  <1>4. InList = live
    BY <1>1 DEF InList, Loose
  <1>5. live' = {}
    BY <1>1, <1>3, <1>4 DEF ValuesIn
  <1>6. ListTypeOK'
    BY <1>1, <1>5 DEF ListTypeOK
  <1> QED
    BY <1>1, <1>5, <1>6 DEF ListInv

\* The threads start with a list of two values: there are two addresses.
LEMMA ListInitInv == List!Init => ListInv
  <1> USE ListNames
  <1> SUFFICES ASSUME List!Init PROVE ListInv
    OBVIOUS
  <1> DEFINE a == CHOOSE n \in Nodes : TRUE
             b == CHOOSE n \in Nodes \ {a} : TRUE
  <1>1. PICK v \in ListValues, w \in ListValues :
            /\ v # w
            /\ next = [n \in List!Addresses |->
                          CASE n = "head" -> a [] n = a -> b [] OTHER -> Null]
            /\ data = [n \in Nodes |-> IF n = b THEN w ELSE v]
            /\ live = {"head", a, b} /\ pushed = {v, w}
            /\ mtx = [n \in List!Addresses |-> Null]
            /\ lPc = [t \in Walkers |-> "call"] /\ op = [t \in Walkers |-> "none"]
            /\ current = [t \in Walkers |-> "head"] /\ ahead = [t \in Walkers |-> Null]
            /\ seen = [t \in Walkers |-> <<>>] /\ present = [t \in Walkers |-> {}]
    BY DEF List!Init, List!head
  <1>2. a \in Nodes /\ b \in Nodes /\ a # b
    <2>1. Cardinality({v, w}) <= Cardinality(ListValues)
      <3>1. {v, w} \subseteq ListValues
        BY <1>1
      <3> QED
        BY <3>1, FS_Subset, ListAssumption
    <2>2. Cardinality({v, w}) = 2
      <3>1. IsFiniteSet({v}) /\ Cardinality({v}) = 1
        BY FS_Singleton
      <3>2. Cardinality({v} \cup {w}) = Cardinality({v}) + 1
        BY <1>1, <3>1, FS_AddElement
      <3>3. {v, w} = {v} \cup {w}
        OBVIOUS
      <3> QED
        BY <3>1, <3>2, <3>3
    <2>3. Cardinality(Nodes) \in Nat /\ Cardinality(ListValues) \in Nat
      BY FS_CardinalityType, ListAssumption
    <2>4. 2 <= Cardinality(Nodes)
      BY <2>1, <2>2, <2>3, ListAssumption
    <2>5. \E n \in Nodes : n # a
      <3> SUFFICES ASSUME Nodes \subseteq {a} PROVE FALSE
        OBVIOUS
      <3>1. Cardinality(Nodes) <= Cardinality({a}) /\ Cardinality({a}) = 1
        BY FS_Singleton, FS_Subset
      <3> QED
        BY <2>3, <2>4, <3>1
    <2> QED
      BY <1>1, <2>5
  <1> HIDE DEF a, b
  <1>3. ListTypeOK
    BY <1>1, <1>2 DEF ListTypeOK
  <1>4. /\ \A t \in Walkers : /\ lPc[t] = "call" /\ op[t] = "none" /\ current[t] = "head"
                              /\ seen[t] = <<>> /\ ~Loose(t)
        /\ \A n \in List!Addresses : mtx[n] = Null
        /\ next["head"] = a /\ next[a] = b /\ next[b] = Null
        /\ data[a] = v /\ data[b] = w
    BY <1>1, <1>2 DEF Loose
  <1>5. InList = {"head", a, b}
    BY <1>1, <1>4 DEF InList
  <1>6. LooseApart /\ LocksInv /\ DataInv /\ \A t \in Walkers : StandsInv(t)
    BY <1>1, <1>4 DEF LooseApart, LocksInv, HoldsIt, DataInv, StandsInv, AtNode, Walking
  <1>7. PICK r : r = [n \in List!Addresses |-> IF n = "head" THEN 2 ELSE IF n = a THEN 1 ELSE 0]
    OBVIOUS
  <1>8. Sorted(InList, next, r)
    <2>1. r \in [List!Addresses -> Nat] /\ r["head"] = 2 /\ r[a] = 1 /\ r[b] = 0
      BY <1>2, <1>7
    <2> QED
      BY <1>2, <1>4, <1>5, <2>1 DEF Sorted
  <1>9. \A t \in Walkers : WalkInv(r, t)
    BY <1>4 DEF WalkInv, Walking, AtNode
  <1> QED
    BY <1>1, <1>3, <1>4, <1>6, <1>8, <1>9 DEF ListInv, ListRuns, OrderInv

\* List!Next is all that happens to the list.
LEMMA ListMove ==
    [Next]_partVars /\ part = "list" => List!Next \/ UNCHANGED listVars
  BY DEF Next, FreeStep, OwnersStep, Step, QuicksortOnly, PoolsOnly, ProgramsOnly,
         CoroutinesOnly, GeneratorsOnly, ListOnly, InterruptsOnly, partVars, List!Next

\* ListInv holds of every reachable state of the list.
LEMMA ListInvariance == FairParts => [](part = "list" => ListInv)
  <1> DEFINE Inv == part = "list" => ListInv
  <1>1. InitParts => Inv
    BY ListInitInv DEF InitParts
  <1>2. Inv /\ [Next]_partVars => Inv'
    <2> SUFFICES ASSUME Inv, [Next]_partVars, part' = "list" PROVE ListInv'
      OBVIOUS
    <2>1. ListInv /\ (List!Next \/ UNCHANGED listVars)
      BY PartStays, ListMove
    <2>2. ASSUME ListTypeOK, ListRuns, NEW w \in Walkers, List!Step(w) PROVE ListInv'
      <3>1. CASE \E f \in {"push_front", "for_each", "remove_if"} : List!Call(w, f)
        BY <2>2, <3>1, CallInv
      <3>2. CASE \E v \in ListValues : List!NewNode(w, v)
        BY <2>2, <3>2, NewNodeInv
      <3>3. CASE List!LockHead(w) \/ List!LinkFront(w) \/ List!Look(w) \/ List!LockNext(w)
        BY <2>2, <3>3, LockHeadInv, LinkFrontInv, LookInv, LockNextInv
      <3>4. CASE \/ List!HandOver(w) \/ List!Visit(w) \/ List!Remove(w) \/ List!DeleteNode(w)
        BY <2>2, <3>4, HandOverInv, VisitInv, RemoveInv, DeleteNodeInv
      <3> QED
        BY <2>2, <3>1, <3>2, <3>3, <3>4 DEF List!Step
    <2>3. CASE List!Next /\ ListTypeOK /\ ListRuns
      BY <2>2, <2>3, DestroyListInv DEF List!Next
    <2>4. CASE List!Next /\ \A w \in Walkers : lPc[w] = "joined"
      <3>1. \A w \in Walkers : ~List!Step(w)
        BY <2>4 DEF List!Step, List!At, List!Call, List!NewNode, List!LockHead, List!LinkFront,
                    List!Look, List!LockNext, List!HandOver, List!Visit, List!Remove,
                    List!DeleteNode
      <3>2. ~List!DestroyList
        BY <2>4, ListNames DEF List!DestroyList, List!At
      <3> QED
        BY <2>4, <3>1, <3>2 DEF List!Next
    <2>5. CASE UNCHANGED listVars
      <3>1. UNCHANGED <<next, data, live, mtx, lPc, op, current, ahead, pushed, seen, present>>
        BY <2>5 DEF listVars
      <3>2. ListTypeOK' <=> ListTypeOK
        BY <3>1 DEF ListTypeOK
      <3>3. ListRuns' <=> ListRuns
        BY <3>1 DEF ListRuns, LooseApart, LocksInv, DataInv, StandsInv, OrderInv, WalkInv, ToCome,
                    InList, HoldsIt, Loose
      <3> QED
        BY <2>1, <3>1, <3>2, <3>3 DEF ListInv
    <2> QED
      BY <2>1, <2>3, <2>4, <2>5 DEF ListInv
  <1> QED
    BY <1>1, <1>2, PTL DEF FairParts

\* A walk that has returned has come by all that stayed in the list, and by nothing twice.
THEOREM WalksMissNothing == FairParts => []WalksAreComplete
  <1>1. ASSUME part = "list" => ListInv PROVE WalksAreComplete
    <2> SUFFICES ASSUME ListInv, NEW w \in Walkers, lPc[w] = "returned"
                 PROVE  /\ op[w] = "for_each" =>
                               /\ present[w] \subseteq {seen[w][k] : k \in DOMAIN seen[w]}
                               /\ \A j, k \in DOMAIN seen[w] : seen[w][j] = seen[w][k] => j = k
                        /\ op[w] = "remove_if" => present[w] \cap Doomed = {}
      BY <1>1 DEF WalksAreComplete, List!WalksAreComplete, List!At
    <2>1. PICK r : WalkInv(r, w)
      BY DEF ListInv, ListRuns, OrderInv
    <2>2. ToCome(r, w) = {}
      BY DEF ToCome, AtNode
    <2>3. WalkOK(op[w], "returned", {}, data, ahead[w], seen[w], present[w])
      BY <2>1, <2>2 DEF WalkInv
    <2> QED
      BY <2>3 DEF WalkOK, Elems, Differ
  <1> QED
    BY <1>1, ListInvariance, PTL

\* A thread uses no node that has been deleted, and none is deleted under a lock.
LEMMA NodesStaySafe == ListInv => List!NodesAreSafe
  <1> USE ListNames
  <1>1. ASSUME ListTypeOK, ListRuns PROVE List!NodesAreSafe
    <2>1. PICK r : OrderInv(r)
      BY <1>1 DEF ListRuns
    <2>2. ASSUME NEW w \in Walkers
          PROVE  /\ lPc[w] \in {"look", "lockNext", "decide"} => current[w] \in live
                 /\ lPc[w] \in {"link", "lockNext", "decide", "visit", "delete"} =>
                        ahead[w] \in live
                 /\ lPc[w] = "delete" => mtx[ahead[w]] = Null
      <3>1. StandsInv(w) /\ \A n \in InList : n \in live
        BY <1>1 DEF ListRuns, InList
      <3>2. lPc[w] \in {"lockNext", "decide"} => ahead[w] \in InList
        BY <2>1, <3>1 DEF StandsInv, AtNode, OrderInv, Sorted
      <3>3. ASSUME lPc[w] = "delete" PROVE mtx[ahead[w]] = Null
        <4>1. Loose(w) /\ ahead[w] \in Nodes /\ ahead[w] \in List!Addresses
          BY <3>1, <3>3 DEF StandsInv, Loose
        <4>2. ASSUME NEW u \in Walkers, HoldsIt(u, ahead[w]) PROVE FALSE
          <5>1. StandsInv(u) /\ ahead[w] # "head"
            BY <1>1, <4>1 DEF ListRuns
          <5>2. lPc[u] = "decide" => ahead[u] \in InList
            BY <2>1, <5>1 DEF StandsInv, AtNode, OrderInv, Sorted
          <5>3. ahead[w] \in InList
            BY <4>2, <5>1, <5>2 DEF HoldsIt, StandsInv
          <5> QED
            BY <4>1, <5>3 DEF InList
        <4> QED
          BY <1>1, <4>1, <4>2 DEF ListRuns, LocksInv, ListTypeOK
      <3> QED
        BY <3>1, <3>2, <3>3 DEF StandsInv, Loose, AtNode
    <2> QED
      BY <1>1, <2>2 DEF List!NodesAreSafe, List!At, ListRuns
  <1>2. ASSUME \A w \in Walkers : lPc[w] = "joined", live = {} PROVE List!NodesAreSafe
    BY <1>2 DEF List!NodesAreSafe, List!At
  <1> QED
    BY <1>1, <1>2 DEF ListInv

\* Nobody stands at a locked node and waits for the next one: the one who holds that one
\* would stand further on in the list, and wait too.
LEMMA NobodyWaitsForNext ==
    ASSUME ListTypeOK, ListRuns, \A u \in Walkers : ~List!CanGo(u)
    PROVE  \A u \in Walkers : lPc[u] # "lockNext"
  <1> USE ListNames
  <1>1. PICK r : Sorted(InList, next, r)
    BY DEF ListRuns, OrderInv
  <1>2. /\ r \in [List!Addresses -> Nat] /\ InList \subseteq List!Addresses
        /\ \A n \in InList : next[n] # Null => next[n] \in InList /\ r[next[n]] < r[n]
    BY <1>1 DEF Sorted
  <1> DEFINE E == {n \in Nat : \A u \in Walkers : lPc[u] = "lockNext" => r[current[u]] > n}
  <1>3. ASSUME NEW u \in Walkers, lPc[u] = "lockNext"
        PROVE  \E v \in Walkers : /\ lPc[v] = "lockNext" /\ r[current[v]] < r[current[u]]
                                  /\ r[current[v]] \in Nat /\ r[current[u]] \in Nat
    <2>1. current[u] \in InList /\ ahead[u] = next[current[u]] /\ ahead[u] # Null
      BY <1>3 DEF ListRuns, StandsInv, AtNode
    <2>2. ahead[u] \in InList /\ r[ahead[u]] < r[current[u]] /\ ahead[u] \in List!Addresses
      BY <1>2, <2>1
    <2>3. mtx[ahead[u]] # Null
      BY <1>3 DEF List!CanGo, List!At
    <2>4. PICK v \in Walkers : mtx[ahead[u]] = v
      BY <2>2, <2>3 DEF ListTypeOK
    <2>5. HoldsIt(v, ahead[u])
      BY <2>2, <2>4 DEF ListRuns, LocksInv
    <2>6. lPc[v] = "lockNext" /\ current[v] = ahead[u]
      BY <2>5 DEF HoldsIt, AtNode, List!CanGo, List!At
    <2> QED
      BY <1>2, <2>1, <2>2, <2>6
  <1>4. 0 \in E
    BY <1>3
  <1>5. ASSUME NEW n \in Nat, n \in E PROVE n + 1 \in E
    BY <1>3, <1>5
  <1>6. \A n \in Nat : n \in E
    <2> HIDE DEF E
    <2> QED
      BY <1>4, <1>5, Induction
  <1> QED
    BY <1>3, <1>6

\* The mutexes of the list never deadlock its threads, for any number of threads and
\* nodes: they are locked hand over hand, in the order of the list.
THEOREM WalksDoNotDeadlock == FairParts => [](part = "list" => List!NobodyIsStuck)
  <1>1. ListInv => List!NobodyIsStuck
    <2> SUFFICES ASSUME ListTypeOK, ListRuns, \A u \in Walkers : ~List!CanGo(u),
                        NEW w \in Walkers, lPc[w] # "returned"
                 PROVE  FALSE
      BY DEF ListInv, ListRuns, List!NobodyIsStuck
    <2>1. \A u \in Walkers : lPc[u] \in {"returned", "lockHead"}
      BY NobodyWaitsForNext DEF List!CanGo, List!At, ListRuns
    <2>2. lPc[w] = "lockHead" /\ mtx["head"] # Null
      BY <2>1, ListNames DEF List!CanGo, List!At
    <2>3. PICK v \in Walkers : mtx["head"] = v
      BY <2>2, ListNames DEF ListTypeOK
    <2>4. HoldsIt(v, "head")
      BY <2>3, ListNames DEF ListRuns, LocksInv
    <2> QED
      BY <2>1, <2>4 DEF HoldsIt, AtNode
  <1> QED
    BY <1>1, ListInvariance, PTL

-----------------------------------------------------------------------------
(* PoolQuicksort: where its tasks are, and what its activations know.    *)

\* s lists the elements of C in order, each once.
Lists(s, C) ==
    /\ s \in Seq(Elements) /\ Elems(s) = C /\ Differ(s)
    /\ \A i, j \in DOMAIN s : i < j => Key[s[i]] <= Key[s[j]]

\* What do_sort does to the elements of C with the pivot p.
LowerPart(C, p)  == {e \in C : Key[e] < Key[p]}
HigherPart(C, p) == C \ (LowerPart(C, p) \cup {p})

\* A stack counted from its bottom, so that what is on top moves nothing.
FromBottom(s, h) == s[Len(s) - h + 1]
Height(t) == Len(sStack[t])
Act(t, h) == FromBottom(sStack[t], h)

Activations == [task : Nat, chunk : SUBSET Elements, at : {"start", "wait", "help"},
                pivot : Elements \cup {NotReady}, lower : Nat, higher : Seq(Elements)]

Submitted   == 1 .. Len(chunkOf)
IsReady(k)  == future[k] # NotReady
Queue       == Elems(work_queue)

SortPhases == {"sorting", "destroy", "join", "returned", "loop", "pop", "ended"}
SortTypes ==
    /\ work_queue \in Seq(Nat) /\ chunkOf \in Seq(SUBSET Elements)
    /\ future \in Seq(Seq(Elements) \cup {NotReady}) /\ Len(future) = Len(chunkOf)
    /\ sStack \in [Sort!Threads -> Seq(Activations)]
    /\ sPc \in [Sort!Threads -> SortPhases]
    /\ sPc[main] \in {"sorting", "destroy", "join", "returned"}
    /\ \A w \in Workers : sPc[w] \in {"loop", "pop", "ended"}

\* An activation runs a task that is not ready, or was called; only one on top does not
\* wait; the bottom of a worker's stack is a task, which is older than all that its
\* activations wait for.
ActOK(t, h) ==
    /\ Act(t, h).task \in 0 .. Len(chunkOf) /\ Act(t, h).lower \in 0 .. Len(chunkOf)
    /\ Act(t, h).task # 0 => Act(t, h).chunk = chunkOf[Act(t, h).task] /\ ~IsReady(Act(t, h).task)
    /\ h < Height(t) => Act(t, h).at = "wait"
    /\ Act(t, h).at = "start" => Act(t, h).lower = 0
    /\ Act(t, h).at # "start" =>
           /\ Act(t, h).pivot \in Act(t, h).chunk /\ Act(t, h).lower # 0
           /\ chunkOf[Act(t, h).lower] = LowerPart(Act(t, h).chunk, Act(t, h).pivot)
    /\ h = 1 /\ t = main => Act(t, h).task = 0 /\ Act(t, h).chunk = Elements
    /\ h = 1 /\ t # main => Act(t, h).task # 0
    /\ t # main /\ Act(t, h).lower # 0 => Act(t, 1).task < Act(t, h).lower

\* An activation has its higher part, or has called the one above for it.
PartOK(t, h) ==
    /\ h < Height(t) /\ Act(t, h + 1).task = 0 =>
           Act(t, h + 1).chunk = HigherPart(Act(t, h).chunk, Act(t, h).pivot)
    /\ Act(t, h).at # "start" /\ (h = Height(t) \/ Act(t, h + 1).task # 0) =>
           Lists(Act(t, h).higher, HigherPart(Act(t, h).chunk, Act(t, h).pivot))

StacksInv == \A t \in Sort!Threads : \A h \in 1 .. Height(t) : ActOK(t, h) /\ PartOK(t, h)

\* A task that is not ready is in the queue or on a stack, in one place; and somebody
\* waits for it.
Runs(k)   == \E t \in Sort!Threads : \E h \in 1 .. Height(t) : Act(t, h).task = k
Wanted(k) == \E t \in Sort!Threads : \E h \in 1 .. Height(t) : Act(t, h).lower = k
PlaceInv ==
    /\ Differ(work_queue)
    /\ \A k \in Queue : k \in Submitted /\ ~IsReady(k) /\ ~Runs(k)
    /\ \A t, u \in Sort!Threads : \A h \in 1 .. Height(t), g \in 1 .. Height(u) :
           Act(t, h).task # 0 /\ Act(t, h).task = Act(u, g).task => t = u /\ h = g
    /\ \A k \in Submitted : ~IsReady(k) => (k \in Queue \/ Runs(k)) /\ Wanted(k)

ResultsInv ==
    /\ \A k \in Submitted : IsReady(k) => Lists(future[k], chunkOf[k])
    /\ result # NotReady => Lists(result, Elements) /\ sStack[main] = <<>>

SortInv == SortTypes /\ StacksInv /\ PlaceInv /\ ResultsInv

-----------------------------------------------------------------------------
(* PoolQuicksort: sequences that are stacks and lists.                   *)

\* A frame is pushed onto a stack.
LEMMA PushOnTop ==
    ASSUME NEW S, NEW s \in Seq(S), NEW x \in S, NEW n \in Nat, n = Len(s)
    PROVE  /\ <<x>> \o s \in Seq(S) /\ Len(<<x>> \o s) = n + 1
           /\ FromBottom(<<x>> \o s, n + 1) = x
           /\ \A h \in 1 .. n : FromBottom(<<x>> \o s, h) = FromBottom(s, h)
  <1>0. PICK q : q = <<x>> \o s
    OBVIOUS
  <1>1. q \in Seq(S) /\ Len(q) = n + 1 /\ n \in Nat
    BY <1>0
  <1>2. q[1] = x /\ \A i \in 1 .. n : q[i + 1] = s[i]
    BY <1>0
  <1>3. FromBottom(q, n + 1) = x
    <2>1. (n + 1) - (n + 1) + 1 = 1
      BY <1>1
    <2> QED
      BY <1>1, <1>2, <2>1 DEF FromBottom
  <1>4. ASSUME NEW h \in 1 .. n PROVE FromBottom(q, h) = FromBottom(s, h)
    <2>1. PICK i : i = n - h + 1
      OBVIOUS
    <2>2. i \in 1 .. n /\ (n + 1) - h + 1 = i + 1
      BY <1>1, <2>1
    <2>3. q[i + 1] = s[i]
      BY <1>2, <2>2
    <2> QED
      BY <1>1, <2>1, <2>2, <2>3 DEF FromBottom
  <1> QED
    BY <1>0, <1>1, <1>3, <1>4

\* A frame is popped.
LEMMA PopFromTop ==
    ASSUME NEW S, NEW s \in Seq(S), s # <<>>
    PROVE  \E m \in Nat :
               /\ Tail(s) \in Seq(S) /\ Len(Tail(s)) = m /\ Len(s) = m + 1
               /\ Head(s) = FromBottom(s, m + 1) /\ Head(s) \in S
               /\ \A h \in 1 .. m : FromBottom(Tail(s), h) = FromBottom(s, h)
               /\ \A h \in 1 .. m + 1 : FromBottom(s, h) \in S
  <1>0. PICK r : r = Tail(s)
    OBVIOUS
  <1>1. /\ r \in Seq(S) /\ Len(r) = Len(s) - 1 /\ Len(s) \in Nat \ {0}
        /\ Head(s) = s[1] /\ \A i \in 1 .. Len(s) - 1 : r[i] = s[i + 1]
        /\ \A i \in 1 .. Len(s) : s[i] \in S
    BY <1>0
  <1>2. PICK m \in Nat : Len(s) = m + 1 /\ Len(r) = m
    <2>1. Len(s) - 1 \in Nat /\ (Len(s) - 1) + 1 = Len(s)
      BY <1>1
    <2> QED
      BY <1>1, <2>1
  <1>3. FromBottom(s, m + 1) = s[1] /\ 1 \in 1 .. m + 1
    <2>1. (m + 1) - (m + 1) + 1 = 1
      OBVIOUS
    <2> QED
      BY <1>2, <2>1 DEF FromBottom
  <1>4. ASSUME NEW h \in 1 .. m PROVE FromBottom(r, h) = FromBottom(s, h)
    <2>1. PICK i : i = m - h + 1
      OBVIOUS
    <2>2. i \in 1 .. m /\ (m + 1) - h + 1 = i + 1
      BY <2>1
    <2>3. r[i] = s[i + 1]
      BY <1>1, <1>2, <2>2
    <2> QED
      BY <1>1, <1>2, <2>1, <2>2, <2>3 DEF FromBottom
  <1>5. ASSUME NEW h \in 1 .. m + 1 PROVE FromBottom(s, h) \in S
    <2>1. (m + 1) - h + 1 \in 1 .. m + 1
      OBVIOUS
    <2> QED
      BY <1>1, <1>2, <2>1 DEF FromBottom
  <1> QED
    BY <1>0, <1>1, <1>2, <1>3, <1>4, <1>5

\* The lower part, the pivot and the higher part are spliced.
LEMMA SpliceLists ==
    ASSUME NEW C \in SUBSET Elements, NEW p \in C, NEW lo, NEW hi,
           Lists(lo, LowerPart(C, p)), Lists(hi, HigherPart(C, p))
    PROVE  Lists(lo \o <<p>> \o hi, C)
  <1>1. PICK s : s = lo \o <<p>> \o hi
    OBVIOUS
  <1>2. PICK m \in Nat, n \in Nat : m = Len(lo) /\ n = Len(hi)
    BY DEF Lists
  <1>3. /\ lo \in Seq(Elements) /\ hi \in Seq(Elements) /\ p \in Elements
        /\ DOMAIN lo = 1 .. m /\ DOMAIN hi = 1 .. n
    BY <1>2 DEF Lists
  <1>4. /\ s \in Seq(Elements) /\ Len(s) = m + 1 + n /\ DOMAIN s = 1 .. m + 1 + n
        /\ \A i \in 1 .. m : s[i] = lo[i]
        /\ s[m + 1] = p
        /\ \A i \in 1 .. n : s[m + 1 + i] = hi[i]
    <2>1. PICK q : q = lo \o <<p>>
      OBVIOUS
    <2>2. /\ q \in Seq(Elements) /\ Len(q) = m + 1
          /\ \A i \in 1 .. m : q[i] = lo[i]
          /\ q[m + 1] = p
      BY <1>2, <1>3, <2>1
    <2>3. s = q \o hi
      BY <1>1, <2>1
    <2>4. /\ s \in Seq(Elements) /\ Len(s) = m + 1 + n
          /\ \A i \in 1 .. m + 1 : s[i] = q[i]
          /\ \A i \in 1 .. n : s[m + 1 + i] = hi[i]
      <3>1. /\ Len(q \o hi) = Len(q) + Len(hi) /\ q \o hi \in Seq(Elements)
            /\ \A i \in 1 .. Len(q) : (q \o hi)[i] = q[i]
        BY <1>3, <2>2
      <3>2. \A i \in 1 .. Len(hi) : (q \o hi)[Len(q) + i] = hi[i]
        BY <1>3, <2>2
      <3> QED
        BY <1>2, <2>2, <2>3, <3>1, <3>2
    <2> QED
      BY <2>2, <2>4
  <1>5. /\ \A i \in 1 .. m : s[i] \in C /\ Key[s[i]] < Key[p]
        /\ \A i \in 1 .. n : /\ s[m + 1 + i] \in C /\ s[m + 1 + i] # p
                             /\ ~(Key[s[m + 1 + i]] < Key[p])
        /\ p \in C
    <2>1. \A i \in 1 .. m : lo[i] \in LowerPart(C, p)
      BY <1>3 DEF Lists, Elems
    <2>2. \A i \in 1 .. n : hi[i] \in HigherPart(C, p)
      BY <1>3 DEF Lists, Elems
    <2>3. \A i \in 1 .. m : s[i] \in LowerPart(C, p)
      BY <1>4, <2>1
    <2>4. \A i \in 1 .. n : s[m + 1 + i] \in HigherPart(C, p)
      BY <1>4, <2>2
    <2> QED
      BY <2>3, <2>4 DEF LowerPart, HigherPart
  <1>6. \A e \in C : Key[e] \in Nat
    BY SortAssumption
  <1>7. ASSUME NEW i \in DOMAIN s
        PROVE  \/ i \in 1 .. m
               \/ i = m + 1
               \/ \E j \in 1 .. n : i = m + 1 + j
    <2>1. i \in Int /\ 1 <= i /\ i <= m + 1 + n
      BY <1>4
    <2>2. CASE i > m + 1
      <3>1. i - (m + 1) \in 1 .. n /\ i = m + 1 + (i - (m + 1))
        BY <2>1, <2>2
      <3> QED
        BY <3>1
    <2> QED
      BY <2>1, <2>2
  <1>8. Elems(s) = C
    <2>1. \A i \in DOMAIN s : s[i] \in C
      BY <1>4, <1>5, <1>7
    <2>2. ASSUME NEW e \in C PROVE \E i \in DOMAIN s : s[i] = e
      <3>1. e \in Elems(lo) \/ e = p \/ e \in Elems(hi)
        BY DEF Lists, LowerPart, HigherPart
      <3>2. CASE e \in Elems(lo)
        <4>1. PICK i \in 1 .. m : lo[i] = e
          BY <1>3, <3>2 DEF Elems
        <4> QED
          BY <1>4, <4>1
      <3>3. CASE e \in Elems(hi)
        <4>1. PICK i \in 1 .. n : hi[i] = e
          BY <1>3, <3>3 DEF Elems
        <4>2. m + 1 + i \in 1 .. m + 1 + n
          OBVIOUS
        <4> QED
          BY <1>4, <4>1, <4>2
      <3> QED
        BY <1>4, <3>1, <3>2, <3>3
    <2> QED
      BY <2>1, <2>2 DEF Elems
  <1>9. ASSUME NEW i \in DOMAIN s, NEW j \in DOMAIN s, i < j
        PROVE  s[i] # s[j] /\ Key[s[i]] <= Key[s[j]]
    <2>0. i \in 1 .. m + 1 + n /\ j \in 1 .. m + 1 + n
      BY <1>4
    <2>1. CASE j \in 1 .. m
      <3>1. i \in 1 .. m
        BY <1>9, <2>0, <2>1
      <3> QED
        BY <1>3, <1>4, <1>9, <2>1, <3>1 DEF Lists, Differ
    <2>2. CASE j = m + 1
      <3>1. i \in 1 .. m
        BY <1>9, <2>0, <2>2
      <3>2. Key[s[i]] \in Nat /\ Key[s[i]] < Key[s[j]] /\ Key[s[j]] \in Nat
        BY <1>4, <1>5, <1>6, <2>2, <3>1
      <3> QED
        BY <3>2
    <2>3. ASSUME NEW l \in 1 .. n, j = m + 1 + l PROVE s[i] # s[j] /\ Key[s[i]] <= Key[s[j]]
      <3>0. s[j] \in C /\ s[j] # p /\ ~(Key[s[j]] < Key[p]) /\ Key[s[j]] \in Nat /\ Key[p] \in Nat
        BY <1>5, <1>6, <2>3
      <3>1. CASE i \in 1 .. m
        <4>1. Key[s[i]] \in Nat /\ Key[s[i]] < Key[p]
          BY <1>5, <1>6, <3>1
        <4> QED
          BY <3>0, <4>1
      <3>2. CASE i = m + 1
        BY <1>4, <3>0, <3>2
      <3>3. ASSUME NEW k \in 1 .. n, i = m + 1 + k PROVE s[i] # s[j] /\ Key[s[i]] <= Key[s[j]]
        <4>1. k < l /\ s[i] = hi[k] /\ s[j] = hi[l]
          BY <1>4, <1>9, <2>3, <3>3
        <4> QED
          BY <1>3, <4>1 DEF Lists, Differ
      <3> QED
        BY <1>7, <3>1, <3>2, <3>3
    <2> QED
      BY <1>7, <2>1, <2>2, <2>3
  <1>10. Differ(s)
    <2> SUFFICES ASSUME NEW i \in DOMAIN s, NEW j \in DOMAIN s, s[i] = s[j], i # j PROVE FALSE
      BY DEF Differ
    <2>1. i < j \/ j < i
      BY <1>4
    <2> QED
      BY <1>9, <2>1
  <1> QED
    BY <1>1, <1>4, <1>8, <1>9, <1>10 DEF Lists

\* Nothing is spliced from nothing.
LEMMA EmptyLists == Lists(<<>>, {})
  BY DEF Lists, Elems, Differ

-----------------------------------------------------------------------------
(* PoolQuicksort: what a step does to the stacks.                        *)

\* The thread that sorts is none of the pool's.
LEMMA SortNames ==
    Sort!Threads = Workers \cup {main} /\ main \in Sort!Threads /\ main \notin Workers
  BY PoolsAssumption DEF Sort!Threads

\* An activation is one, and a stack that is not empty has one on top.
LEMMA ActTypes ==
    ASSUME SortTypes, NEW t \in Sort!Threads
    PROVE  /\ sStack[t] \in Seq(Activations) /\ Height(t) \in Nat
           /\ \A h \in 1 .. Height(t) : Act(t, h) \in Activations
           /\ sStack[t] # <<>> =>
                  /\ Height(t) \in Nat \ {0} /\ Height(t) \in 1 .. Height(t)
                  /\ Sort!Top(t) = Act(t, Height(t))
           /\ sStack[t] = <<>> <=> Height(t) = 0
  <1>1. sStack[t] \in Seq(Activations)
    BY DEF SortTypes
  <1>2. Height(t) \in Nat /\ (sStack[t] = <<>> <=> Height(t) = 0)
    BY <1>1 DEF Height
  <1>3. CASE sStack[t] = <<>>
    BY <1>1, <1>2, <1>3
  <1>4. CASE sStack[t] # <<>>
    <2>1. PICK m \in Nat :
             /\ Len(sStack[t]) = m + 1
             /\ Head(sStack[t]) = FromBottom(sStack[t], m + 1)
             /\ \A h \in 1 .. m + 1 : FromBottom(sStack[t], h) \in Activations
      BY <1>1, <1>4, PopFromTop
    <2> QED
      BY <1>1, <1>2, <1>4, <2>1 DEF Act, Height, Sort!Top
  <1> QED
    BY <1>3, <1>4

\* t's stack is n high after the step, and is what it was below m.
Changed(t, m, n) ==
    /\ sStack' \in [Sort!Threads -> Seq(Activations)]
    /\ \A u \in Sort!Threads : u # t => sStack'[u] = sStack[u]
    /\ Height(t)' = n /\ n \in Nat
    /\ \A h \in 1 .. n : h < m => Act(t, h)' = Act(t, h)

\* What becomes of a stack becomes of its activations.
LEMMA StackBecomes ==
    ASSUME SortTypes, NEW t \in Sort!Threads, NEW s \in Seq(Activations), NEW n \in Nat,
           n = Len(s), sStack' = [sStack EXCEPT ![t] = s], NEW m,
           \A h \in 1 .. n : h < m => FromBottom(s, h) = Act(t, h)
    PROVE  /\ Changed(t, m, n)
           /\ \A h : Act(t, h)' = FromBottom(s, h)
  <1>1. sStack'[t] = s
    BY DEF SortTypes
  <1>2. sStack' \in [Sort!Threads -> Seq(Activations)]
    BY DEF SortTypes
  <1>3. \A u \in Sort!Threads : u # t => sStack'[u] = sStack[u]
    BY DEF SortTypes
  <1>4. Height(t)' = n /\ \A h : Act(t, h)' = FromBottom(s, h)
    BY <1>1 DEF Height, Act, FromBottom
  <1> QED
    BY <1>2, <1>3, <1>4 DEF Changed

\* The top activation becomes b, and calls a or starts it as a task.
LEMMA CallsOnTop ==
    ASSUME SortTypes, NEW t \in Sort!Threads, sStack[t] # <<>>,
           NEW b \in Activations, NEW a \in Activations,
           sStack' = [sStack EXCEPT ![t] = <<a>> \o (<<b>> \o Sort!Below(t))]
    PROVE  \E n \in Nat \ {0} :
               /\ n = Height(t) /\ Changed(t, n, n + 1)
               /\ Act(t, n)' = b /\ Act(t, n + 1)' = a
  <1>1. PICK s \in Seq(Activations) : s = sStack[t]
    BY ActTypes
  <1>2. PICK p : p = Tail(s)
    OBVIOUS
  <1>3. PICK m \in Nat :
           /\ p \in Seq(Activations) /\ Len(p) = m /\ Len(s) = m + 1
           /\ \A h \in 1 .. m : FromBottom(p, h) = FromBottom(s, h)
    <2>1. \E i \in Nat :
             /\ Tail(s) \in Seq(Activations) /\ Len(Tail(s)) = i /\ Len(s) = i + 1
             /\ \A h \in 1 .. i : FromBottom(Tail(s), h) = FromBottom(s, h)
      BY <1>1, PopFromTop
    <2> QED
      BY <1>2, <2>1
  <1>4. PICK q : q = <<b>> \o p
    OBVIOUS
  <1>5. PICK r : r = <<a>> \o q
    OBVIOUS
  <1>6. PICK n \in Nat \ {0} : n = m + 1
    OBVIOUS
  <1>7. /\ q \in Seq(Activations) /\ Len(q) = n /\ FromBottom(q, n) = b
        /\ \A h \in 1 .. m : FromBottom(q, h) = FromBottom(p, h)
    <2>1. /\ <<b>> \o p \in Seq(Activations) /\ Len(<<b>> \o p) = m + 1
          /\ FromBottom(<<b>> \o p, m + 1) = b
          /\ \A h \in 1 .. m : FromBottom(<<b>> \o p, h) = FromBottom(p, h)
      BY ONLY <1>3, b \in Activations, m \in Nat, PushOnTop
    <2> QED
      BY <1>4, <1>6, <2>1
  <1>8. /\ r \in Seq(Activations) /\ Len(r) = n + 1 /\ FromBottom(r, n + 1) = a
        /\ \A h \in 1 .. n : FromBottom(r, h) = FromBottom(q, h)
    <2>1. /\ <<a>> \o q \in Seq(Activations) /\ Len(<<a>> \o q) = n + 1
          /\ FromBottom(<<a>> \o q, n + 1) = a
          /\ \A h \in 1 .. n : FromBottom(<<a>> \o q, h) = FromBottom(q, h)
      BY <1>7, PushOnTop
    <2> QED
      BY <1>5, <2>1
  <1>9. sStack' = [sStack EXCEPT ![t] = r]
    BY <1>1, <1>2, <1>4, <1>5 DEF Sort!Below
  <1>10. \A h \in 1 .. n + 1 : h < n => FromBottom(r, h) = Act(t, h)
    <2> SUFFICES ASSUME NEW h \in 1 .. n + 1, h < n PROVE FromBottom(r, h) = Act(t, h)
      OBVIOUS
    <2>1. h \in 1 .. n /\ h \in 1 .. m
      BY <1>6
    <2> QED
      BY <1>1, <1>3, <1>7, <1>8, <2>1 DEF Act
  <1>11. n + 1 \in Nat
    BY <1>6
  <1>12. Changed(t, n, n + 1) /\ \A h : Act(t, h)' = FromBottom(r, h)
    BY ONLY <1>8, <1>9, <1>10, <1>11, StackBecomes, SortTypes, t \in Sort!Threads
  <1>13. n = Height(t)
    BY <1>1, <1>3, <1>6 DEF Height
  <1>14. FromBottom(r, n) = b
    BY <1>6, <1>7, <1>8
  <1>15. Act(t, n)' = b /\ Act(t, n + 1)' = a
    BY <1>8, <1>12, <1>14
  <1> QED
    BY <1>12, <1>13, <1>15

\* The top activation becomes b.
LEMMA GoesOnTop ==
    ASSUME SortTypes, NEW t \in Sort!Threads, sStack[t] # <<>>, NEW b \in Activations,
           sStack' = [sStack EXCEPT ![t] = <<b>> \o Sort!Below(t)]
    PROVE  \E n \in Nat \ {0} : n = Height(t) /\ Changed(t, n, n) /\ Act(t, n)' = b
  <1>1. PICK s \in Seq(Activations) : s = sStack[t]
    BY ActTypes
  <1>2. PICK p : p = Tail(s)
    OBVIOUS
  <1>3. PICK m \in Nat :
           /\ p \in Seq(Activations) /\ Len(p) = m /\ Len(s) = m + 1
           /\ \A h \in 1 .. m : FromBottom(p, h) = FromBottom(s, h)
    <2>1. \E i \in Nat :
             /\ Tail(s) \in Seq(Activations) /\ Len(Tail(s)) = i /\ Len(s) = i + 1
             /\ \A h \in 1 .. i : FromBottom(Tail(s), h) = FromBottom(s, h)
      BY <1>1, PopFromTop
    <2> QED
      BY <1>2, <2>1
  <1>4. PICK q : q = <<b>> \o p
    OBVIOUS
  <1>6. PICK n \in Nat \ {0} : n = m + 1
    OBVIOUS
  <1>7. /\ q \in Seq(Activations) /\ Len(q) = n /\ FromBottom(q, n) = b
        /\ \A h \in 1 .. m : FromBottom(q, h) = FromBottom(p, h)
    <2>1. /\ <<b>> \o p \in Seq(Activations) /\ Len(<<b>> \o p) = m + 1
          /\ FromBottom(<<b>> \o p, m + 1) = b
          /\ \A h \in 1 .. m : FromBottom(<<b>> \o p, h) = FromBottom(p, h)
      BY ONLY <1>3, b \in Activations, m \in Nat, PushOnTop
    <2> QED
      BY <1>4, <1>6, <2>1
  <1>9. sStack' = [sStack EXCEPT ![t] = q]
    BY <1>1, <1>2, <1>4 DEF Sort!Below
  <1>10. \A h \in 1 .. n : h < n => FromBottom(q, h) = Act(t, h)
    <2> SUFFICES ASSUME NEW h \in 1 .. n, h < n PROVE FromBottom(q, h) = Act(t, h)
      OBVIOUS
    <2>1. h \in 1 .. m
      BY <1>6
    <2> QED
      BY <1>1, <1>3, <1>7, <2>1 DEF Act
  <1>12. Changed(t, n, n) /\ \A h : Act(t, h)' = FromBottom(q, h)
    <2>1. n \in Nat /\ n = Len(q)
      BY <1>7
    <2> QED
      BY ONLY <1>7, <1>9, <1>10, <2>1, StackBecomes, SortTypes, t \in Sort!Threads
  <1>13. n = Height(t)
    BY <1>1, <1>3, <1>6 DEF Height
  <1>15. Act(t, n)' = b
    BY <1>7, <1>12
  <1> QED
    BY <1>12, <1>13, <1>15

\* A thread that runs nothing starts a task.
LEMMA StartsOnTop ==
    ASSUME SortTypes, NEW t \in Sort!Threads, sStack[t] = <<>>, NEW a \in Activations,
           sStack' = [sStack EXCEPT ![t] = <<a>>]
    PROVE  Changed(t, 1, 1) /\ Act(t, 1)' = a /\ Height(t) = 0
  <1>1. PICK s : s = <<a>>
    OBVIOUS
  <1>2. s \in Seq(Activations) /\ 1 \in Nat /\ 1 = Len(s) /\ FromBottom(s, 1) = a
    BY <1>1 DEF FromBottom
  <1>3. \A h \in 1 .. 1 : h < 1 => FromBottom(s, h) = Act(t, h)
    OBVIOUS
  <1>4. sStack' = [sStack EXCEPT ![t] = s]
    BY <1>1
  <1>5. Changed(t, 1, 1) /\ \A h : Act(t, h)' = FromBottom(s, h)
    BY ONLY <1>2, <1>3, <1>4, StackBecomes, SortTypes, t \in Sort!Threads
  <1>6. Height(t) = 0
    BY ActTypes
  <1> QED
    BY <1>2, <1>5, <1>6

\* The top activation returns.
LEMMA PopsTop ==
    ASSUME SortTypes, NEW t \in Sort!Threads, sStack[t] # <<>>,
           sStack' = [sStack EXCEPT ![t] = Sort!Below(t)]
    PROVE  \E m \in Nat : m + 1 = Height(t) /\ Changed(t, m + 1, m)
  <1>1. PICK s \in Seq(Activations) : s = sStack[t]
    BY ActTypes
  <1>2. PICK p : p = Tail(s)
    OBVIOUS
  <1>3. PICK m \in Nat :
           /\ p \in Seq(Activations) /\ Len(p) = m /\ Len(s) = m + 1
           /\ \A h \in 1 .. m : FromBottom(p, h) = FromBottom(s, h)
    <2>1. \E i \in Nat :
             /\ Tail(s) \in Seq(Activations) /\ Len(Tail(s)) = i /\ Len(s) = i + 1
             /\ \A h \in 1 .. i : FromBottom(Tail(s), h) = FromBottom(s, h)
      BY <1>1, PopFromTop
    <2> QED
      BY <1>2, <2>1
  <1>4. sStack' = [sStack EXCEPT ![t] = p]
    BY <1>1, <1>2 DEF Sort!Below
  <1>5. \A h \in 1 .. m : h < m + 1 => FromBottom(p, h) = Act(t, h)
    BY <1>1, <1>3 DEF Act
  <1>6. Changed(t, m + 1, m)
    BY ONLY <1>3, <1>4, <1>5, StackBecomes, SortTypes, t \in Sort!Threads, m \in Nat
  <1> QED
    BY <1>1, <1>3, <1>6 DEF Height

\* It returns to its caller, which becomes b.
LEMMA PopsToCaller ==
    ASSUME SortTypes, NEW t \in Sort!Threads, sStack[t] # <<>>, Sort!Below(t) # <<>>,
           NEW b \in Activations,
           sStack' = [sStack EXCEPT ![t] = <<b>> \o Tail(Sort!Below(t))]
    PROVE  \E n \in Nat \ {0} :
               n + 1 = Height(t) /\ Changed(t, n, n) /\ Act(t, n)' = b
               /\ Head(Sort!Below(t)) = Act(t, n)
  <1>1. PICK s \in Seq(Activations) : s = sStack[t]
    BY ActTypes
  <1>2. PICK r : r = Tail(s)
    OBVIOUS
  <1>3. PICK n \in Nat :
           /\ r \in Seq(Activations) /\ Len(r) = n /\ Len(s) = n + 1
           /\ \A h \in 1 .. n : FromBottom(r, h) = FromBottom(s, h)
    <2>1. \E i \in Nat :
             /\ Tail(s) \in Seq(Activations) /\ Len(Tail(s)) = i /\ Len(s) = i + 1
             /\ \A h \in 1 .. i : FromBottom(Tail(s), h) = FromBottom(s, h)
      BY <1>1, PopFromTop
    <2> QED
      BY <1>2, <2>1
  <1>4. PICK p : p = Tail(r)
    OBVIOUS
  <1>5. r # <<>>
    BY <1>1, <1>2 DEF Sort!Below
  <1>6. PICK m \in Nat :
           /\ p \in Seq(Activations) /\ Len(p) = m /\ Len(r) = m + 1
           /\ Head(r) = FromBottom(r, m + 1)
           /\ \A h \in 1 .. m : FromBottom(p, h) = FromBottom(r, h)
    <2>1. \E i \in Nat :
             /\ Tail(r) \in Seq(Activations) /\ Len(Tail(r)) = i /\ Len(r) = i + 1
             /\ Head(r) = FromBottom(r, i + 1)
             /\ \A h \in 1 .. i : FromBottom(Tail(r), h) = FromBottom(r, h)
      BY <1>3, <1>5, PopFromTop
    <2> QED
      BY <1>4, <2>1
  <1>7. n = m + 1 /\ n \in Nat \ {0}
    BY <1>3, <1>6
  <1>8. PICK q : q = <<b>> \o p
    OBVIOUS
  <1>9. /\ q \in Seq(Activations) /\ Len(q) = n /\ FromBottom(q, n) = b
        /\ \A h \in 1 .. m : FromBottom(q, h) = FromBottom(p, h)
    <2>1. /\ <<b>> \o p \in Seq(Activations) /\ Len(<<b>> \o p) = m + 1
          /\ FromBottom(<<b>> \o p, m + 1) = b
          /\ \A h \in 1 .. m : FromBottom(<<b>> \o p, h) = FromBottom(p, h)
      BY <1>6, PushOnTop
    <2> QED
      BY <1>7, <1>8, <2>1
  <1>10. sStack' = [sStack EXCEPT ![t] = q]
    BY <1>1, <1>2, <1>4, <1>8 DEF Sort!Below
  <1>11. \A h \in 1 .. n : h < n => FromBottom(q, h) = Act(t, h)
    <2> SUFFICES ASSUME NEW h \in 1 .. n, h < n PROVE FromBottom(q, h) = Act(t, h)
      OBVIOUS
    <2>1. h \in 1 .. m
      BY <1>7
    <2> QED
      BY <1>1, <1>3, <1>6, <1>9, <2>1 DEF Act
  <1>12. Changed(t, n, n) /\ \A h : Act(t, h)' = FromBottom(q, h)
    <2>1. n = Len(q)
      BY <1>9
    <2> QED
      BY ONLY <1>9, <1>10, <1>11, <2>1, StackBecomes, SortTypes, t \in Sort!Threads, n \in Nat
  <1>13. n + 1 = Height(t)
    BY <1>1, <1>3 DEF Height
  <1>14. Act(t, n)' = b
    BY <1>9, <1>12
  <1>15. Head(Sort!Below(t)) = Act(t, n)
    <2>1. n \in 1 .. n
      BY <1>7
    <2> QED
      BY <1>1, <1>2, <1>3, <1>6, <1>7, <2>1 DEF Sort!Below, Act
  <1> QED
    BY <1>7, <1>12, <1>13, <1>14, <1>15

\* The tasks' chunks stay what they are.
ChunksStay ==
    /\ Len(chunkOf) \in Nat /\ Len(chunkOf)' \in Nat /\ Len(chunkOf) <= Len(chunkOf)'
    /\ \A k \in 1 .. Len(chunkOf) : chunkOf'[k] = chunkOf[k]

\* t's activations are left alone below n, and so are those of the other threads.
LEMMA OthersKept ==
    ASSUME SortTypes, NEW t \in Sort!Threads, NEW n, NEW m \in Nat, Changed(t, n, m),
           m + 1 >= n, n \in Nat \ {0}, n <= Height(t) \/ n = 1
    PROVE  /\ Height(t)' = m /\ Height(t) \in Nat
           /\ \A h \in Nat \ {0} : h < n =>
                 /\ h \in 1 .. Height(t) /\ h \in 1 .. m /\ Act(t, h)' = Act(t, h)
           /\ \A u \in Sort!Threads : u # t =>
                 Height(u)' = Height(u) /\ \A h : Act(u, h)' = Act(u, h)
  <1>1. Height(t)' = m /\ \A h \in 1 .. m : h < n => Act(t, h)' = Act(t, h)
    BY DEF Changed
  <1>2. Height(t) \in Nat
    BY ActTypes
  <1>3. ASSUME NEW u \in Sort!Threads, u # t
        PROVE  Height(u)' = Height(u) /\ \A h : Act(u, h)' = Act(u, h)
    <2>1. sStack'[u] = sStack[u]
      BY <1>3 DEF Changed
    <2> QED
      BY <2>1 DEF Height, Act
  <1>4. ASSUME NEW h \in Nat \ {0}, h < n
        PROVE  h \in 1 .. Height(t) /\ h \in 1 .. m /\ Act(t, h)' = Act(t, h)
    <2>1. h \in 1 .. Height(t) /\ h \in 1 .. m
      BY <1>2, <1>4
    <2> QED
      BY <1>1, <1>4, <2>1
  <1> QED
    BY <1>1, <1>2, <1>3, <1>4

\* What an activation knows stays true while its task is not ready.
LEMMA ActStays ==
    ASSUME NEW u \in Sort!Threads, NEW h \in Nat \ {0}, ActOK(u, h), ChunksStay,
           Height(u) \in Nat, Height(u)' \in Nat, Act(u, h)' = Act(u, h),
           h < Height(u)' => h < Height(u),
           Act(u, 1).task \in Nat, Act(u, h).lower \in Nat, Act(u, h).task \in Nat,
           (Act(u, 1).task)' = Act(u, 1).task,
           Act(u, h).task # 0 => future'[Act(u, h).task] = NotReady
    PROVE  ActOK(u, h)'
  <1>1. PICK k \in Nat : k = Act(u, h).task
    OBVIOUS
  <1>2. PICK l \in Nat : l = Act(u, h).lower
    OBVIOUS
  <1>3. PICK a, b, p : a = Act(u, h).at /\ b = Act(u, h).chunk /\ p = Act(u, h).pivot
    OBVIOUS
  <1>4. PICK g \in Nat : g = Act(u, 1).task
    OBVIOUS
  <1>5. /\ k \in 0 .. Len(chunkOf) /\ l \in 0 .. Len(chunkOf)
        /\ k # 0 => b = chunkOf[k]
        /\ h < Height(u) => a = "wait"
        /\ a = "start" => l = 0
        /\ a # "start" => p \in b /\ l # 0 /\ chunkOf[l] = LowerPart(b, p)
        /\ h = 1 /\ u = main => k = 0 /\ b = Elements
        /\ h = 1 /\ u # main => k # 0
        /\ u # main /\ l # 0 => g < l
    BY <1>1, <1>2, <1>3, <1>4 DEF ActOK
  <1>6. /\ (Act(u, h).task)' = k /\ (Act(u, h).lower)' = l /\ (Act(u, h).at)' = a
        /\ (Act(u, h).chunk)' = b /\ (Act(u, h).pivot)' = p /\ (Act(u, 1).task)' = g
    BY <1>1, <1>2, <1>3, <1>4
  <1>7. k # 0 => ~IsReady(k)'
    BY <1>1 DEF IsReady
  <1>8. /\ k \in 0 .. Len(chunkOf)' /\ l \in 0 .. Len(chunkOf)'
        /\ k # 0 => chunkOf'[k] = chunkOf[k]
        /\ l # 0 => chunkOf'[l] = chunkOf[l]
    BY <1>5 DEF ChunksStay
  <1>9. LowerPart(b, p)' = LowerPart(b, p)
    BY DEF LowerPart
  <1> QED
    BY <1>5, <1>6, <1>7, <1>8, <1>9 DEF ActOK

\* The tasks of these activations do not become ready.
OthersRun(t, n) ==
    \A u \in Sort!Threads : \A h \in 1 .. Height(u) :
        (u # t \/ h < n) /\ Act(u, h).task # 0 => future'[Act(u, h).task] = NotReady

\* A step of t is of no concern to the activations it leaves alone.
LEMMA OthersStay ==
    ASSUME SortTypes, StacksInv, ChunksStay, NEW t \in Sort!Threads, NEW n \in Nat \ {0},
           NEW m \in Nat, Changed(t, n, m), m + 1 >= n, n <= Height(t) \/ n = 1,
           OthersRun(t, n), Height(t) # 0 /\ m # 0 => (Act(t, 1).task)' = Act(t, 1).task
    PROVE  /\ \A u \in Sort!Threads : \A h \in 1 .. Height(u)' :
                 u # t => ActOK(u, h)' /\ PartOK(u, h)'
           /\ \A h \in 1 .. m : h < n => ActOK(t, h)'
           /\ \A h \in 1 .. m : h + 1 < n => PartOK(t, h)'
  <1>1. /\ Height(t)' = m /\ Height(t) \in Nat
        /\ \A h \in Nat \ {0} : h < n =>
              /\ h \in 1 .. Height(t) /\ h \in 1 .. m /\ Act(t, h)' = Act(t, h)
        /\ \A u \in Sort!Threads : u # t =>
              Height(u)' = Height(u) /\ \A h : Act(u, h)' = Act(u, h)
    BY OthersKept
  <1>2. ASSUME NEW u \in Sort!Threads
        PROVE  /\ Height(u) \in Nat
               /\ \A h \in 1 .. Height(u) : Act(u, h).task \in Nat /\ Act(u, h).lower \in Nat
    BY ActTypes DEF Activations
  <1>3. ASSUME NEW u \in Sort!Threads, u # t, NEW h \in 1 .. Height(u)'
        PROVE  ActOK(u, h)' /\ PartOK(u, h)'
    <2>1. /\ Height(u)' = Height(u) /\ h \in 1 .. Height(u) /\ h \in Nat \ {0}
          /\ 1 \in 1 .. Height(u)
          /\ Act(u, h)' = Act(u, h) /\ Act(u, 1)' = Act(u, 1) /\ Act(u, h + 1)' = Act(u, h + 1)
      BY <1>1, <1>2, <1>3
    <2>2. ActOK(u, h) /\ PartOK(u, h)
      BY <2>1 DEF StacksInv
    <2>3. Act(u, h).task # 0 => future'[Act(u, h).task] = NotReady
      BY <1>3, <2>1 DEF OthersRun
    <2>4. ActOK(u, h)'
      BY <1>2, <2>1, <2>2, <2>3, ActStays
    <2>5. PartOK(u, h)'
      BY <2>1, <2>2 DEF PartOK, Lists, HigherPart, LowerPart, Elems, Differ
    <2> QED
      BY <2>4, <2>5
  <1>4. ASSUME NEW h \in 1 .. m, h < n PROVE ActOK(t, h)'
    <2>1. /\ h \in 1 .. Height(t) /\ h \in Nat \ {0} /\ 1 \in 1 .. Height(t)
          /\ Act(t, h)' = Act(t, h)
      BY <1>1, <1>4
    <2>2. ActOK(t, h)
      BY <2>1 DEF StacksInv
    <2>3. Act(t, h).task # 0 => future'[Act(t, h).task] = NotReady
      BY <1>4, <2>1 DEF OthersRun
    <2>4. h < Height(t)' => h < Height(t)
      BY <1>1, <1>4
    <2>5. (Act(t, 1).task)' = Act(t, 1).task
      BY <1>1, <2>1
    <2> QED
      BY <1>1, <1>2, <2>1, <2>2, <2>3, <2>4, <2>5, ActStays
  <1>5. ASSUME NEW h \in 1 .. m, h + 1 < n PROVE PartOK(t, h)'
    <2>1. /\ h \in 1 .. Height(t) /\ h < Height(t) /\ h < m
          /\ Act(t, h)' = Act(t, h) /\ Act(t, h + 1)' = Act(t, h + 1)
      BY <1>1, <1>5
    <2>2. PartOK(t, h)
      BY <2>1 DEF StacksInv
    <2> QED
      BY <1>1, <2>1, <2>2 DEF PartOK, Lists, HigherPart, LowerPart, Elems, Differ
  <1> QED
    BY <1>3, <1>4, <1>5

-----------------------------------------------------------------------------
(* PoolQuicksort: what a step does to the tasks.                         *)

\* id is started at place g of t, old is finished and new is submitted, or none is: 0.
PlacesMove(t, g, id, old, new) ==
    /\ \A u \in Sort!Threads : \A h \in 1 .. Height(u)' : (Act(u, h).task)' # 0 =>
          \/ /\ h \in 1 .. Height(u) /\ Act(u, h).task = (Act(u, h).task)'
             /\ Act(u, h).task # old
          \/ u = t /\ h = g /\ (Act(u, h).task)' = id
    /\ \A u \in Sort!Threads : \A h \in 1 .. Height(u) : Act(u, h).task \notin {0, old} =>
          h \in 1 .. Height(u)' /\ (Act(u, h).task)' = Act(u, h).task
    /\ id # 0 => id \in Queue /\ g \in 1 .. Height(t)' /\ (Act(t, g).task)' = id
    /\ \A k \in Submitted' : IsReady(k)' <=> ((k \in Submitted /\ IsReady(k)) \/ k = old)
    /\ \A k : k \in Submitted' <=> (k \in Submitted \/ (k = new /\ k # 0))
    /\ \A k : k \in Queue' <=> ((k \in Queue /\ k # id) \/ (k = new /\ k # 0))
    /\ Differ(work_queue)'
    /\ \A u \in Sort!Threads : \A h \in 1 .. Height(u) : Act(u, h).lower # 0 =>
          \/ IsReady(Act(u, h).lower)
          \/ h \in 1 .. Height(u)' /\ (Act(u, h).lower)' = Act(u, h).lower
    /\ new # 0 => new \notin Submitted /\ Wanted(new)' /\ new # old
    /\ old # 0 => old \notin Queue

\* Every task is still in one place.
LEMMA PlacesStay ==
    ASSUME PlaceInv, NEW t \in Sort!Threads, NEW g, NEW id, NEW old, NEW new,
           PlacesMove(t, g, id, old, new), 0 \notin Submitted,
           \A u \in Sort!Threads : \A h \in 1 .. Height(u) :
               Act(u, h).task # 0 => Act(u, h).task \in Submitted
    PROVE  PlaceInv'
  <1> DEFINE Old(u, h) == h \in 1 .. Height(u) /\ Act(u, h).task = (Act(u, h).task)'
                          /\ Act(u, h).task # old
  <1>1. \A u \in Sort!Threads : \A h \in 1 .. Height(u)' : (Act(u, h).task)' # 0 =>
           Old(u, h) \/ (u = t /\ h = g /\ (Act(u, h).task)' = id)
    BY DEF PlacesMove
  <1>2. \A u \in Sort!Threads : \A h \in 1 .. Height(u) : Act(u, h).task \notin {0, old} =>
          h \in 1 .. Height(u)' /\ (Act(u, h).task)' = Act(u, h).task
    BY DEF PlacesMove
  <1>3. id # 0 => id \in Queue /\ g \in 1 .. Height(t)' /\ (Act(t, g).task)' = id
    BY DEF PlacesMove
  <1>4. \A k \in Submitted' : IsReady(k)' <=> ((k \in Submitted /\ IsReady(k)) \/ k = old)
    BY DEF PlacesMove
  <1>5. /\ \A k : k \in Submitted' <=> (k \in Submitted \/ (k = new /\ k # 0))
        /\ \A k : k \in Queue' <=> ((k \in Queue /\ k # id) \/ (k = new /\ k # 0))
        /\ new # 0 => new \notin Submitted /\ Wanted(new)' /\ new # old
        /\ old # 0 => old \notin Queue
    BY DEF PlacesMove
  <1>6. /\ \A k \in Queue : k \in Submitted /\ ~IsReady(k) /\ ~Runs(k)
        /\ \A k \in Submitted : ~IsReady(k) => (k \in Queue \/ Runs(k)) /\ Wanted(k)
    BY DEF PlaceInv
  <1>7. \A k : k # 0 /\ Runs(k)' => (Runs(k) /\ k # old) \/ (k = id /\ id # 0)
    BY <1>1 DEF Runs
  <1>8. ASSUME NEW k \in Queue' PROVE k \in Submitted' /\ ~IsReady(k)' /\ ~Runs(k)'
    <2>1. CASE k \in Queue /\ k # id
      BY <1>4, <1>5, <1>6, <1>7, <2>1
    <2>2. CASE k = new /\ k # 0
      <3>1. ~Runs(k)
        BY <1>5, <2>2 DEF Runs
      <3>2. k # id
        BY <1>3, <1>5, <1>6, <2>2
      <3> QED
        BY <1>4, <1>5, <1>7, <2>2, <3>1, <3>2
    <2> QED
      BY <1>5, <2>1, <2>2
  <1>9. ASSUME NEW u \in Sort!Threads, NEW v \in Sort!Threads, NEW h \in 1 .. Height(u)',
               NEW i \in 1 .. Height(v)', (Act(u, h).task)' # 0,
               (Act(u, h).task)' = (Act(v, i).task)'
        PROVE  u = v /\ h = i
    <2>1. Old(u, h) /\ Old(v, i) => u = v /\ h = i
      BY <1>9 DEF PlaceInv
    <2>2. id # 0 => ~Runs(id)
      BY <1>3, <1>6
    <2>3. /\ Old(u, h) /\ id # 0 => (Act(u, h).task)' # id
          /\ Old(v, i) /\ id # 0 => (Act(v, i).task)' # id
      BY <2>2 DEF Runs
    <2> QED
      BY <1>1, <1>9, <2>1, <2>3
  <1>10. ASSUME NEW k \in Submitted', ~IsReady(k)'
         PROVE  (k \in Queue' \/ Runs(k)') /\ Wanted(k)'
    <2>1. CASE k = new /\ k # 0
      BY <1>5, <2>1
    <2>2. CASE k \in Submitted
      <3>1. k # 0 /\ k # old /\ ~IsReady(k)
        BY <1>4, <1>10, <2>2
      <3>2. Wanted(k)'
        <4>1. PICK u \in Sort!Threads : \E h \in 1 .. Height(u) : Act(u, h).lower = k
          BY <1>6, <2>2, <3>1 DEF Wanted
        <4>2. PICK h \in 1 .. Height(u) : Act(u, h).lower = k
          BY <4>1
        <4>3. h \in 1 .. Height(u)' /\ (Act(u, h).lower)' = k
          BY <3>1, <4>2 DEF PlacesMove
        <4> QED
          BY <4>3 DEF Wanted
      <3>3. Runs(k) => Runs(k)'
        BY <1>2, <3>1 DEF Runs
      <3>4. k = id => Runs(k)'
        BY <1>3, <3>1 DEF Runs
      <3> QED
        BY <1>5, <1>6, <2>2, <3>1, <3>2, <3>3, <3>4
    <2> QED
      BY <1>5, <2>1, <2>2
  <1>11. Differ(work_queue)'
    BY DEF PlacesMove
  <1> QED
    BY <1>8, <1>9, <1>10, <1>11 DEF PlaceInv

\* Two frames are pushed one after the other.
LEMMA TwoOnTop ==
    ASSUME NEW S, NEW s \in Seq(S), NEW a \in S, NEW b \in S
    PROVE  <<a, b>> \o s = <<a>> \o (<<b>> \o s)
  <1>1. PICK q : q = <<b>> \o s
    OBVIOUS
  <1>2. PICK n \in Nat : n = Len(s)
    OBVIOUS
  <1>3. q \in Seq(S) /\ Len(q) = n + 1 /\ q[1] = b /\ \A i \in 1 .. n : q[i + 1] = s[i]
    BY <1>1, <1>2
  <1>4. PICK r : r = <<a>> \o q
    OBVIOUS
  <1>5. r \in Seq(S) /\ Len(r) = n + 2 /\ r[1] = a /\ \A i \in 1 .. n + 1 : r[i + 1] = q[i]
    BY <1>3, <1>4
  <1>6. PICK p : p = <<a, b>> \o s
    OBVIOUS
  <1>7. /\ p \in Seq(S) /\ Len(p) = n + 2 /\ p[1] = a /\ p[2] = b
        /\ \A i \in 1 .. n : p[i + 2] = s[i]
    BY <1>2, <1>6
  <1>8. \A i \in 1 .. n + 2 : p[i] = r[i]
    <2> SUFFICES ASSUME NEW i \in 1 .. n + 2 PROVE p[i] = r[i]
      OBVIOUS
    <2>1. CASE i = 1
      BY <1>5, <1>7, <2>1
    <2>2. CASE i = 2
      <3>1. 1 \in 1 .. n + 1 /\ 1 + 1 = 2
        OBVIOUS
      <3> QED
        BY <1>3, <1>5, <1>7, <2>2, <3>1
    <2>3. CASE i > 2
      <3>1. PICK j \in 1 .. n : i = j + 2
        <4>1. i - 2 \in 1 .. n /\ i = (i - 2) + 2
          BY <2>3
        <4> QED
          BY <4>1
      <3>2. j + 1 \in 1 .. n + 1 /\ (j + 1) + 1 = j + 2
        OBVIOUS
      <3>3. r[j + 2] = q[j + 1] /\ q[j + 1] = s[j]
        BY <1>3, <1>5, <3>2
      <3> QED
        BY <1>7, <3>1, <3>3
    <2> QED
      BY <2>1, <2>2, <2>3
  <1>9. p = r
    <2>1. DOMAIN p = 1 .. n + 2 /\ DOMAIN r = 1 .. n + 2
      BY <1>5, <1>7
    <2>2. p = [i \in DOMAIN p |-> p[i]] /\ r = [i \in DOMAIN r |-> r[i]]
      BY <1>5, <1>7
    <2> QED
      BY <1>8, <2>1, <2>2
  <1> QED
    BY <1>1, <1>4, <1>6, <1>9

\* The top activation, what its task is and what becomes of it.
LEMMA TopActivation ==
    ASSUME SortTypes, StacksInv, NEW t \in Sort!Threads, sStack[t] # <<>>
    PROVE  \E n \in Nat \ {0} :
               /\ n = Height(t) /\ Sort!Top(t) = Act(t, n) /\ Act(t, n) \in Activations
               /\ n \in 1 .. Height(t) /\ ActOK(t, n) /\ PartOK(t, n)
  BY ActTypes DEF StacksInv

\* The tasks are numbered from 1.
LEMMA SubmittedTasks ==
    ASSUME SortTypes, StacksInv
    PROVE  /\ Len(chunkOf) \in Nat /\ 0 \notin Submitted
           /\ \A u \in Sort!Threads : \A h \in 1 .. Height(u) :
                  /\ Act(u, h).task # 0 => Act(u, h).task \in Submitted
                  /\ Act(u, h).lower # 0 => Act(u, h).lower \in Submitted
                  /\ Act(u, h).task # 0 => ~IsReady(Act(u, h).task)
  <1>1. Len(chunkOf) \in Nat
    BY DEF SortTypes
  <1>2. 0 \notin Submitted
    BY <1>1 DEF Submitted
  <1>3. ASSUME NEW u \in Sort!Threads, NEW h \in 1 .. Height(u)
        PROVE  /\ Act(u, h).task # 0 => Act(u, h).task \in Submitted
               /\ Act(u, h).lower # 0 => Act(u, h).lower \in Submitted
               /\ Act(u, h).task # 0 => ~IsReady(Act(u, h).task)
    <2>1. ActOK(u, h)
      BY DEF StacksInv
    <2>2. \A k : k \in 0 .. Len(chunkOf) /\ k # 0 => k \in 1 .. Len(chunkOf)
      BY <1>1
    <2> QED
      BY <2>1, <2>2 DEF ActOK, Submitted
  <1> QED
    BY <1>1, <1>2, <1>3

\* The parts of a list are lists of the same elements.
LEMMA PartsAreSets ==
    ASSUME NEW C \in SUBSET Elements, NEW p
    PROVE  LowerPart(C, p) \in SUBSET Elements /\ HigherPart(C, p) \in SUBSET Elements
  BY DEF LowerPart, HigherPart

\* A task is submitted.
LEMMA QueueGrows ==
    ASSUME SortTypes, NEW id \in Nat, work_queue' = Append(work_queue, id)
    PROVE  /\ Queue' = Queue \cup {id}
           /\ Differ(work_queue) /\ id \notin Queue => Differ(work_queue)'
  <1>1. PICK q \in Seq(Nat) : q = work_queue
    BY DEF SortTypes
  <1>2. PICK r : r = Append(q, id)
    OBVIOUS
  <1>3. Elems(r) = Elems(q) \cup {id} /\ (Differ(q) /\ id \notin Elems(q) => Differ(r))
    BY <1>2, ElemsOfAppend
  <1>4. work_queue = q /\ work_queue' = r
    BY <1>1, <1>2
  <1>5. /\ Queue = Elems(q) /\ Queue' = Elems(r)
        /\ Differ(work_queue) = Differ(q) /\ Differ(work_queue)' = Differ(r)
    BY <1>4 DEF Queue, Elems, Differ
  <1> QED
    BY <1>3, <1>5

\* A task is taken.
LEMMA QueueShrinks ==
    ASSUME SortTypes, work_queue # <<>>, Differ(work_queue), work_queue' = Tail(work_queue)
    PROVE  /\ Head(work_queue) \in Queue /\ Queue' = Queue \ {Head(work_queue)}
           /\ Differ(work_queue)' /\ work_queue' \in Seq(Nat)
  <1>1. PICK q \in Seq(Nat) : q = work_queue
    BY DEF SortTypes
  <1>2. PICK r : r = Tail(q)
    OBVIOUS
  <1>3. q # <<>> /\ Differ(q)
    BY <1>1 DEF Differ
  <1>4. /\ Elems(q) = Elems(r) \cup {Head(q)} /\ Differ(r) /\ Head(q) \notin Elems(r)
        /\ r \in Seq(Nat)
    BY <1>2, <1>3, ElemsOfTail
  <1>5. work_queue = q /\ work_queue' = r
    BY <1>1, <1>2
  <1>6. /\ Queue = Elems(q) /\ Queue' = Elems(r) /\ Differ(work_queue)' = Differ(r)
    BY <1>5 DEF Queue, Elems, Differ
  <1> QED
    BY <1>4, <1>5, <1>6

-----------------------------------------------------------------------------
(* PoolQuicksort: its steps keep the invariant.                          *)

\* do_sort submits the lower part and calls itself for the higher one.
LEMMA DivideKeeps ==
    ASSUME SortInv, NEW t \in Sort!Threads, NEW p \in Elements, Sort!Divide(t, p)
    PROVE  SortInv'
  <1> USE DEF SortInv
  <1>1. sStack[t] # <<>> /\ Sort!Top(t).at = "start" /\ p \in Sort!Top(t).chunk
    BY DEF Sort!Divide, Sort!At
  <1>2. PICK n \in Nat \ {0} :
           /\ n = Height(t) /\ Sort!Top(t) = Act(t, n) /\ Act(t, n) \in Activations
           /\ n \in 1 .. Height(t) /\ ActOK(t, n) /\ PartOK(t, n)
    BY <1>1, TopActivation
  <1>3. PICK x \in Activations : x = Act(t, n)
    BY <1>2
  <1>4. x.at = "start" /\ p \in x.chunk /\ x.chunk \in SUBSET Elements /\ x.lower = 0
    BY <1>1, <1>2, <1>3 DEF ActOK, Activations
  <1>5. PICK id \in Nat \ {0} : id = Len(chunkOf) + 1
    BY SubmittedTasks
  <1>6. PICK lo \in SUBSET Elements : lo = LowerPart(x.chunk, p)
    BY <1>4, PartsAreSets
  <1>7. PICK hi \in SUBSET Elements : hi = HigherPart(x.chunk, p)
    BY <1>4, PartsAreSets
  <1>8. PICK b \in Activations : b = [x EXCEPT !.at = "wait", !.pivot = p, !.lower = id]
    BY DEF Activations
  <1>9. PICK a \in Activations : a = Sort!Activation(0, hi)
    <2>1. <<>> \in Seq(Elements) /\ 0 \in Nat
      OBVIOUS
    <2> QED
      BY <2>1 DEF Activations, Sort!Activation
  <1>10. /\ work_queue' = Append(work_queue, id)
         /\ chunkOf' = Append(chunkOf, lo)
         /\ future' = Append(future, NotReady)
         /\ sStack' = [sStack EXCEPT ![t] = <<a, b>> \o Sort!Below(t)]
         /\ sPc' = sPc /\ result' = result
    BY <1>2, <1>3, <1>5, <1>6, <1>7, <1>8, <1>9 DEF Sort!Divide, LowerPart, HigherPart
  <1>11. Sort!Below(t) \in Seq(Activations)
    BY <1>1, ActTypes DEF Sort!Below
  <1>12. sStack' = [sStack EXCEPT ![t] = <<a>> \o (<<b>> \o Sort!Below(t))]
    BY <1>10, <1>11, TwoOnTop
  <1>13. Changed(t, n, n + 1) /\ Act(t, n)' = b /\ Act(t, n + 1)' = a
    <2>1. \E i \in Nat \ {0} :
             /\ i = Height(t) /\ Changed(t, i, i + 1)
             /\ Act(t, i)' = b /\ Act(t, i + 1)' = a
      BY <1>1, <1>12, CallsOnTop
    <2> QED
      BY <1>2, <2>1
  <1>14. PICK m \in Nat : m = n + 1
    OBVIOUS
  <1>15. /\ Height(t)' = m /\ Height(t) = n
         /\ \A h \in Nat \ {0} : h < n =>
              /\ h \in 1 .. Height(t) /\ h \in 1 .. m /\ Act(t, h)' = Act(t, h)
         /\ \A u \in Sort!Threads : u # t =>
              Height(u)' = Height(u) /\ \A h : Act(u, h)' = Act(u, h)
    BY <1>2, <1>13, <1>14, OthersKept
  <1>16. b.task = x.task /\ b.chunk = x.chunk /\ b.at = "wait" /\ b.pivot = p /\ b.lower = id
         /\ b.higher = x.higher
    BY <1>8 DEF Activations
  <1>17. a.task = 0 /\ a.chunk = hi /\ a.at = "start" /\ a.lower = 0
    BY <1>9 DEF Sort!Activation
  <1>18. /\ Len(chunkOf') = id /\ id - 1 = Len(chunkOf) /\ chunkOf'[id] = lo
         /\ \A k \in 1 .. Len(chunkOf) : chunkOf'[k] = chunkOf[k]
         /\ chunkOf' \in Seq(SUBSET Elements)
    BY <1>5, <1>10 DEF SortTypes
  <1>19. /\ Len(future') = id /\ future'[id] = NotReady
         /\ \A k \in 1 .. Len(chunkOf) : future'[k] = future[k]
         /\ future' \in Seq(Seq(Elements) \cup {NotReady})
    BY <1>5, <1>10 DEF SortTypes
  <1>20. /\ \A k : k \in Submitted' <=> (k \in Submitted \/ k = id)
         /\ \A k \in Submitted : future'[k] = future[k]
         /\ id \notin Submitted
    <2>1. Submitted' = 1 .. id /\ Submitted = 1 .. id - 1
      BY <1>5, <1>18 DEF Submitted
    <2> QED
      BY <1>18, <1>19, <2>1
  <1>21. ChunksStay
    BY <1>5, <1>18 DEF ChunksStay, SortTypes
  <1>22. SortTypes'
    <2>1. work_queue' \in Seq(Nat)
      BY <1>10 DEF SortTypes
    <2>2. sStack' \in [Sort!Threads -> Seq(Activations)]
      BY <1>13 DEF Changed
    <2> QED
      BY <1>10, <1>18, <1>19, <2>1, <2>2 DEF SortTypes
  <1>23. OthersRun(t, n)
    <2>1. \A k \in Submitted : ~IsReady(k) => future'[k] = NotReady
      BY <1>20 DEF IsReady
    <2>2. \A u \in Sort!Threads : \A h \in 1 .. Height(u) :
             Act(u, h).task # 0 => Act(u, h).task \in Submitted /\ ~IsReady(Act(u, h).task)
      BY SubmittedTasks
    <2> QED
      BY <2>1, <2>2 DEF OthersRun
  <1>24. (Act(t, 1).task)' = Act(t, 1).task
    <2>1. CASE n = 1
      BY <1>3, <1>13, <1>16, <2>1
    <2>2. CASE n # 1
      BY <1>15, <2>2
    <2> QED
      BY <2>1, <2>2
  <1>25. /\ \A u \in Sort!Threads : \A h \in 1 .. Height(u)' :
                 u # t => ActOK(u, h)' /\ PartOK(u, h)'
         /\ \A h \in 1 .. m : h < n => ActOK(t, h)'
         /\ \A h \in 1 .. m : h + 1 < n => PartOK(t, h)'
    <2>1. Changed(t, n, m) /\ m + 1 >= n /\ n <= Height(t)
      BY <1>2, <1>13, <1>14
    <2> QED
      BY <1>21, <1>23, <1>24, <2>1, OthersStay
  <1>26. ActOK(t, n)'
    <2>1. x.task \in 0 .. Len(chunkOf)' /\ id \in 0 .. Len(chunkOf)'
      BY <1>2, <1>3, <1>5, <1>18 DEF ActOK
    <2>2. x.task # 0 => x.chunk = chunkOf'[x.task] /\ ~IsReady(x.task)'
      <3>1. x.task # 0 => x.task \in 1 .. Len(chunkOf) /\ x.chunk = chunkOf[x.task]
                          /\ ~IsReady(x.task) /\ x.task \in Submitted
        BY <1>2, <1>3, SubmittedTasks DEF ActOK, Submitted
      <3> QED
        BY <1>18, <1>20, <3>1 DEF IsReady
    <2>3. /\ n = 1 /\ t = main => x.task = 0 /\ x.chunk = Elements
          /\ n = 1 /\ t # main => x.task # 0
      BY <1>2, <1>3 DEF ActOK
    <2>4. (Act(t, 1).task)' < id
      <3>1. 1 \in 1 .. Height(t)
        BY <1>2
      <3>2. Act(t, 1).task \in 0 .. Len(chunkOf)
        BY <3>1 DEF StacksInv, ActOK
      <3> QED
        BY <1>5, <1>24, <3>2, SubmittedTasks
    <2>5. chunkOf'[id] = LowerPart(x.chunk, p)' /\ LowerPart(x.chunk, p)' = LowerPart(x.chunk, p)
      BY <1>6, <1>18 DEF LowerPart
    <2> QED
      BY <1>4, <1>5, <1>13, <1>16, <2>1, <2>2, <2>3, <2>4, <2>5 DEF ActOK
  <1>27. ActOK(t, m)'
    <2>1. 0 \in 0 .. Len(chunkOf)' /\ m # 1 /\ ~(m < Height(t)')
      BY <1>5, <1>14, <1>15, <1>18
    <2> QED
      BY <1>13, <1>14, <1>17, <2>1 DEF ActOK
  <1>28. PartOK(t, m)'
    BY <1>13, <1>14, <1>15, <1>17 DEF PartOK
  <1>29. PartOK(t, n)'
    <2>1. n # Height(t)' /\ n + 1 = m
      BY <1>14, <1>15
    <2>2. HigherPart(x.chunk, p)' = HigherPart(x.chunk, p)
      BY DEF HigherPart, LowerPart
    <2> QED
      BY <1>7, <1>13, <1>16, <1>17, <2>1, <2>2 DEF PartOK
  <1>30. ASSUME NEW h \in 1 .. m, h + 1 = n PROVE PartOK(t, h)'
    <2>1. h < n /\ h \in 1 .. Height(t) /\ h < Height(t) /\ Act(t, h)' = Act(t, h) /\ h < m
      BY <1>2, <1>14, <1>15, <1>30
    <2>2. /\ PartOK(t, h) /\ Act(t, h + 1) = x /\ Act(t, h + 1)' = b
      BY <1>3, <1>13, <1>30, <2>1 DEF StacksInv
    <2> QED
      BY <1>15, <1>16, <2>1, <2>2 DEF PartOK, HigherPart, LowerPart, Lists, Elems, Differ
  <1>31. StacksInv'
    <2>1. ASSUME NEW h \in 1 .. m PROVE ActOK(t, h)' /\ PartOK(t, h)'
      <3>1. h = m \/ h = n \/ h + 1 = n \/ h + 1 < n
        BY <1>14
      <3>2. h = m \/ h = n \/ h < n
        BY <1>14
      <3> QED
        BY <1>25, <1>26, <1>27, <1>28, <1>29, <1>30, <3>1, <3>2
    <2> QED
      BY <1>15, <1>25, <2>1 DEF StacksInv
  <1>32. PlacesMove(t, 0, 0, 0, id)
    <2>1. /\ Queue' = Queue \cup {id}
          /\ Differ(work_queue) /\ id \notin Queue => Differ(work_queue)'
      BY <1>5, <1>10, QueueGrows
    <2>2. id \notin Queue /\ 0 \notin Queue
      BY <1>20, SubmittedTasks DEF PlaceInv
    <2>3. Differ(work_queue)'
      BY <2>1, <2>2 DEF PlaceInv
    <2>4. ASSUME NEW u \in Sort!Threads, NEW h \in 1 .. Height(u)', (Act(u, h).task)' # 0
          PROVE  h \in 1 .. Height(u) /\ Act(u, h).task = (Act(u, h).task)'
      <3>1. CASE u # t
        BY <1>15, <2>4, <3>1
      <3>2. CASE u = t
        <4>1. h = m \/ h = n \/ (h < n /\ h \in Nat \ {0})
          BY <1>14, <1>15, <2>4, <3>2
        <4> QED
          BY <1>2, <1>3, <1>13, <1>14, <1>15, <1>16, <1>17, <2>4, <3>2, <4>1
      <3> QED
        BY <3>1, <3>2
    <2>5. ASSUME NEW u \in Sort!Threads, NEW h \in 1 .. Height(u)
          PROVE  /\ h \in 1 .. Height(u)' /\ (Act(u, h).task)' = Act(u, h).task
                 /\ Act(u, h).lower # 0 => (Act(u, h).lower)' = Act(u, h).lower
      <3>1. CASE u # t
        BY <1>15, <3>1
      <3>2. CASE u = t
        <4>1. (h = n \/ (h < n /\ h \in Nat \ {0})) /\ h \in 1 .. Height(u)'
          BY <1>14, <1>15, <3>2
        <4> QED
          BY <1>3, <1>4, <1>13, <1>15, <1>16, <3>2, <4>1
      <3> QED
        BY <3>1, <3>2
    <2>6. \A k \in Submitted' : IsReady(k)' <=> ((k \in Submitted /\ IsReady(k)) \/ k = 0)
      <3>1. \A k \in Submitted' : k # 0
        BY <1>20, SubmittedTasks
      <3> QED
        BY <1>19, <1>20, <3>1 DEF IsReady
    <2>7. Wanted(id)'
      <3>1. n \in 1 .. Height(t)' /\ (Act(t, n).lower)' = id
        BY <1>13, <1>14, <1>15, <1>16
      <3> QED
        BY <3>1 DEF Wanted
    <2>8. id # 0
      OBVIOUS
    <2> QED
      BY ONLY <1>20, <2>1, <2>2, <2>3, <2>4, <2>5, <2>6, <2>7, <2>8 DEF PlacesMove
  <1>33. PlaceInv'
    BY <1>32, SubmittedTasks, PlacesStay
  <1>34. ResultsInv'
    <2>1. ASSUME NEW k \in Submitted', IsReady(k)' PROVE Lists(future'[k], chunkOf'[k])
      <3>1. k \in Submitted /\ future'[k] = future[k] /\ chunkOf'[k] = chunkOf[k] /\ IsReady(k)
        BY <1>18, <1>19, <1>20, <2>1 DEF IsReady, Submitted
      <3> QED
        BY <3>1 DEF ResultsInv
    <2>2. result' # NotReady => Lists(result', Elements) /\ sStack'[main] = <<>>
      <3>1. result' # NotReady => t # main
        BY <1>1, <1>10 DEF ResultsInv
      <3> QED
        BY <1>10, <1>13, <3>1, SortNames DEF ResultsInv, Changed
    <2> QED
      BY <2>1, <2>2 DEF ResultsInv, Lists, Elems, Differ
  <1> QED
    BY <1>22, <1>31, <1>33, <1>34

\* The results stay when only t's stack and the queue change.
LEMMA ResultsStay ==
    ASSUME ResultsInv, NEW t \in Sort!Threads, NEW n, NEW m, Changed(t, n, m),
           sStack[t] # <<>> \/ t # main, UNCHANGED <<chunkOf, future, result>>
    PROVE  ResultsInv'
  <1>1. ASSUME NEW k \in Submitted', IsReady(k)' PROVE Lists(future'[k], chunkOf'[k])
    BY <1>1 DEF ResultsInv, Submitted, IsReady
  <1>2. result' # NotReady => Lists(result', Elements) /\ sStack'[main] = <<>>
    <2>1. result' # NotReady => t # main
      BY DEF ResultsInv
    <2> QED
      BY <2>1, SortNames DEF ResultsInv, Changed
  <1> QED
    BY <1>1, <1>2 DEF ResultsInv, Lists, Elems, Differ

\* The top activation goes from wait_for to run_pending_task or back.
LEMMA MoveKeeps ==
    ASSUME SortInv, NEW t \in Sort!Threads, sStack[t] # <<>>, Sort!Top(t).at # "start",
           NEW l \in {"wait", "help"}, Sort!MoveTo(t, l),
           UNCHANGED <<work_queue, chunkOf, future, sPc, result>>
    PROVE  SortInv'
  <1> USE DEF SortInv
  <1>2. PICK n \in Nat \ {0} :
           /\ n = Height(t) /\ Sort!Top(t) = Act(t, n) /\ Act(t, n) \in Activations
           /\ n \in 1 .. Height(t) /\ ActOK(t, n) /\ PartOK(t, n)
    BY TopActivation
  <1>3. PICK x \in Activations : x = Act(t, n)
    BY <1>2
  <1>4. PICK b \in Activations : b = [x EXCEPT !.at = l]
    BY DEF Activations
  <1>5. sStack' = [sStack EXCEPT ![t] = <<b>> \o Sort!Below(t)]
    BY <1>2, <1>3, <1>4 DEF Sort!MoveTo
  <1>6. Changed(t, n, n) /\ Act(t, n)' = b
    <2>1. \E i \in Nat \ {0} : i = Height(t) /\ Changed(t, i, i) /\ Act(t, i)' = b
      BY <1>5, GoesOnTop
    <2> QED
      BY <1>2, <2>1
  <1>7. /\ Height(t)' = n /\ Height(t) = n
        /\ \A h \in Nat \ {0} : h < n =>
              /\ h \in 1 .. Height(t) /\ h \in 1 .. n /\ Act(t, h)' = Act(t, h)
        /\ \A u \in Sort!Threads : u # t =>
              Height(u)' = Height(u) /\ \A h : Act(u, h)' = Act(u, h)
    <2>1. n + 1 >= n /\ n <= Height(t) /\ n \in Nat
      BY <1>2
    <2> QED
      BY <1>2, <1>6, <2>1, OthersKept
  <1>8. /\ b.task = x.task /\ b.chunk = x.chunk /\ b.at = l /\ b.pivot = x.pivot
        /\ b.lower = x.lower /\ b.higher = x.higher /\ x.at # "start"
    BY <1>2, <1>3, <1>4 DEF Activations
  <1>9. Submitted' = Submitted /\ Queue' = Queue /\ \A k : IsReady(k)' = IsReady(k)
    BY DEF Submitted, Queue, Elems, IsReady
  <1>10. SortTypes'
    BY <1>6 DEF SortTypes, Changed
  <1>11. ChunksStay
    BY SubmittedTasks DEF ChunksStay
  <1>12. OthersRun(t, n)
    BY SubmittedTasks DEF OthersRun, IsReady
  <1>13. (Act(t, 1).task)' = Act(t, 1).task
    <2>1. CASE n = 1
      BY <1>3, <1>6, <1>8, <2>1
    <2>2. CASE n # 1
      BY <1>7, <2>2
    <2> QED
      BY <2>1, <2>2
  <1>14. /\ \A u \in Sort!Threads : \A h \in 1 .. Height(u)' :
                 u # t => ActOK(u, h)' /\ PartOK(u, h)'
         /\ \A h \in 1 .. n : h < n => ActOK(t, h)'
         /\ \A h \in 1 .. n : h + 1 < n => PartOK(t, h)'
    <2>1. n \in Nat /\ n + 1 >= n /\ n <= Height(t)
      BY <1>2
    <2> QED
      BY <1>6, <1>11, <1>12, <1>13, <2>1, OthersStay
  <1>15. ActOK(t, n)'
    <2>1. n = 1 => (Act(t, 1).task)' = x.task
      BY <1>6, <1>8
    <2>2. LowerPart(x.chunk, x.pivot)' = LowerPart(x.chunk, x.pivot)
      BY DEF LowerPart
    <2>3. b.at # "start"
      BY <1>8
    <2>4. ~(n < Height(t)')
      BY <1>7
    <2>5. IsReady(x.task)' = IsReady(x.task)
      BY <1>9
    <2> QED
      BY <1>2, <1>3, <1>6, <1>7, <1>8, <1>13, <2>1, <2>2, <2>3, <2>4, <2>5 DEF ActOK
  <1>16. PartOK(t, n)'
    <2>1. HigherPart(x.chunk, x.pivot)' = HigherPart(x.chunk, x.pivot)
      BY DEF HigherPart, LowerPart
    <2>2. Lists(x.higher, HigherPart(x.chunk, x.pivot))
      BY <1>2, <1>3, <1>8 DEF PartOK
    <2>3. ~(n < Height(t)')
      BY <1>7
    <2> QED
      BY <1>6, <1>8, <2>1, <2>2, <2>3 DEF PartOK, Lists, Elems, Differ
  <1>17. ASSUME NEW h \in 1 .. n, h + 1 = n PROVE PartOK(t, h)'
    <2>1. h < n /\ h \in 1 .. Height(t) /\ h < Height(t) /\ Act(t, h)' = Act(t, h)
      BY <1>2, <1>7, <1>17
    <2>2. /\ PartOK(t, h) /\ Act(t, h + 1) = x /\ Act(t, h + 1)' = b
      BY <1>3, <1>6, <1>17, <2>1 DEF StacksInv
    <2> QED
      BY <1>7, <1>8, <2>1, <2>2 DEF PartOK, HigherPart, LowerPart, Lists, Elems, Differ
  <1>18. StacksInv'
    <2>1. ASSUME NEW h \in 1 .. n PROVE ActOK(t, h)' /\ PartOK(t, h)'
      <3>1. h = n \/ (h < n /\ h + 1 = n) \/ (h < n /\ h + 1 < n)
        OBVIOUS
      <3> QED
        BY <1>14, <1>15, <1>16, <1>17, <3>1
    <2> QED
      BY <1>7, <1>14, <2>1 DEF StacksInv
  <1>19. PlacesMove(t, 0, 0, 0, 0)
    <2>1. ASSUME NEW u \in Sort!Threads, NEW h \in 1 .. Height(u)
          PROVE  /\ h \in 1 .. Height(u)' /\ (Act(u, h).task)' = Act(u, h).task
                 /\ (Act(u, h).lower)' = Act(u, h).lower
      <3>1. CASE u # t
        BY <1>7, <3>1
      <3>2. CASE u = t
        <4>1. h = n \/ (h < n /\ h \in Nat \ {0})
          BY <1>7, <3>2
        <4> QED
          BY <1>3, <1>6, <1>7, <1>8, <3>2, <4>1
      <3> QED
        BY <3>1, <3>2
    <2>2. \A u \in Sort!Threads : 1 .. Height(u)' = 1 .. Height(u)
      BY <1>7
    <2>3. Differ(work_queue)'
      BY DEF PlaceInv, Differ
    <2>4. 0 \notin Submitted /\ 0 \notin Queue
      BY SubmittedTasks DEF PlaceInv
    <2> QED
      BY ONLY <1>9, <2>1, <2>2, <2>3, <2>4 DEF PlacesMove
  <1>20. PlaceInv'
    BY <1>19, SubmittedTasks, PlacesStay
  <1>21. ResultsInv'
    BY <1>6, ResultsStay
  <1> QED
    BY <1>10, <1>18, <1>20, <1>21

\* run_pending_task takes a task.
LEMMA TaskTaken ==
    ASSUME SortInv, work_queue # <<>>, work_queue' = Tail(work_queue),
           UNCHANGED <<chunkOf, future>>
    PROVE  \E id \in Nat \ {0}, C \in SUBSET Elements :
               /\ id = Head(work_queue) /\ C = chunkOf[id] /\ id \in Queue
               /\ id \in 1 .. Len(chunkOf) /\ ~IsReady(id)
               /\ \A k : k \in Queue' <=> (k \in Queue /\ k # id)
               /\ Differ(work_queue)' /\ work_queue' \in Seq(Nat)
               /\ Sort!Activation(id, C) \in Activations
  <1> USE DEF SortInv
  <1>1. PICK id : id = Head(work_queue)
    OBVIOUS
  <1>2. Differ(work_queue)
    BY DEF PlaceInv
  <1>3. /\ id \in Queue /\ Queue' = Queue \ {id}
        /\ Differ(work_queue)' /\ work_queue' \in Seq(Nat)
    BY <1>1, <1>2, QueueShrinks
  <1>4. id \in Submitted /\ ~IsReady(id)
    BY <1>3 DEF PlaceInv
  <1>5. id \in Nat \ {0} /\ id \in 1 .. Len(chunkOf)
    BY <1>4, SubmittedTasks DEF Submitted
  <1>6. PICK C \in SUBSET Elements : C = chunkOf[id]
    BY <1>5 DEF SortTypes
  <1>7. Sort!Activation(id, C) \in Activations
    <2>1. <<>> \in Seq(Elements) /\ 0 \in Nat
      OBVIOUS
    <2> QED
      BY <1>5, <2>1 DEF Sort!Activation, Activations
  <1> QED
    BY <1>1, <1>3, <1>4, <1>5, <1>6, <1>7

\* A thread that waits runs another task on its stack.
LEMMA HelpWithTaskKeeps ==
    ASSUME SortInv, NEW t \in Sort!Threads, Sort!HelpWithTask(t)
    PROVE  SortInv'
  <1> USE DEF SortInv
  <1>1. /\ sStack[t] # <<>> /\ Sort!Top(t).at = "help" /\ work_queue # <<>>
        /\ work_queue' = Tail(work_queue) /\ UNCHANGED <<chunkOf, future, result, sPc>>
    BY DEF Sort!HelpWithTask, Sort!RunTask, Sort!At
  <1>2. PICK n \in Nat \ {0} :
           /\ n = Height(t) /\ Sort!Top(t) = Act(t, n) /\ Act(t, n) \in Activations
           /\ n \in 1 .. Height(t) /\ ActOK(t, n) /\ PartOK(t, n)
    BY <1>1, TopActivation
  <1>3. PICK x \in Activations : x = Act(t, n)
    BY <1>2
  <1>4. PICK id \in Nat \ {0}, C \in SUBSET Elements :
               /\ id = Head(work_queue) /\ C = chunkOf[id] /\ id \in Queue
               /\ id \in 1 .. Len(chunkOf) /\ ~IsReady(id)
               /\ \A k : k \in Queue' <=> (k \in Queue /\ k # id)
               /\ Differ(work_queue)' /\ work_queue' \in Seq(Nat)
               /\ Sort!Activation(id, C) \in Activations
    BY <1>1, TaskTaken
  <1>5. PICK b \in Activations : b = [x EXCEPT !.at = "wait"]
    BY DEF Activations
  <1>6. PICK a \in Activations : a = Sort!Activation(id, C)
    BY <1>4
  <1>7. sStack' = [sStack EXCEPT ![t] = <<a>> \o (<<b>> \o Sort!Below(t))]
    BY <1>1, <1>2, <1>3, <1>4, <1>5, <1>6 DEF Sort!HelpWithTask, Sort!RunTask
  <1>8. Changed(t, n, n + 1) /\ Act(t, n)' = b /\ Act(t, n + 1)' = a
    <2>1. \E i \in Nat \ {0} :
             /\ i = Height(t) /\ Changed(t, i, i + 1)
             /\ Act(t, i)' = b /\ Act(t, i + 1)' = a
      BY <1>1, <1>7, CallsOnTop
    <2> QED
      BY <1>2, <2>1
  <1>9. PICK m \in Nat : m = n + 1
    OBVIOUS
  <1>10. /\ Height(t)' = m /\ Height(t) = n
         /\ \A h \in Nat \ {0} : h < n =>
               /\ h \in 1 .. Height(t) /\ h \in 1 .. m /\ Act(t, h)' = Act(t, h)
         /\ \A u \in Sort!Threads : u # t =>
               Height(u)' = Height(u) /\ \A h : Act(u, h)' = Act(u, h)
    BY <1>2, <1>8, <1>9, OthersKept
  <1>11. /\ b.task = x.task /\ b.chunk = x.chunk /\ b.at = "wait" /\ b.pivot = x.pivot
         /\ b.lower = x.lower /\ b.higher = x.higher /\ x.at = "help"
    BY <1>1, <1>2, <1>3, <1>5 DEF Activations
  <1>12. a.task = id /\ a.chunk = C /\ a.at = "start" /\ a.lower = 0
    BY <1>6 DEF Sort!Activation
  <1>13. Submitted' = Submitted /\ \A k : IsReady(k)' = IsReady(k)
    BY <1>1 DEF Submitted, IsReady
  <1>14. SortTypes'
    BY <1>1, <1>4, <1>8 DEF SortTypes, Changed
  <1>15. ChunksStay
    BY <1>1, SubmittedTasks DEF ChunksStay
  <1>16. OthersRun(t, n)
    BY <1>1, SubmittedTasks DEF OthersRun, IsReady
  <1>17. (Act(t, 1).task)' = Act(t, 1).task
    <2>1. CASE n = 1
      BY <1>3, <1>8, <1>11, <2>1
    <2>2. CASE n # 1
      BY <1>10, <2>2
    <2> QED
      BY <2>1, <2>2
  <1>18. /\ \A u \in Sort!Threads : \A h \in 1 .. Height(u)' :
                 u # t => ActOK(u, h)' /\ PartOK(u, h)'
         /\ \A h \in 1 .. m : h < n => ActOK(t, h)'
         /\ \A h \in 1 .. m : h + 1 < n => PartOK(t, h)'
    <2>1. Changed(t, n, m) /\ m + 1 >= n /\ n <= Height(t)
      BY <1>2, <1>8, <1>9
    <2> QED
      BY <1>15, <1>16, <1>17, <2>1, OthersStay
  <1>19. ActOK(t, n)'
    <2>1. n = 1 => (Act(t, 1).task)' = x.task
      BY <1>8, <1>11
    <2>2. LowerPart(x.chunk, x.pivot)' = LowerPart(x.chunk, x.pivot)
      BY DEF LowerPart
    <2>3. IsReady(x.task)' = IsReady(x.task)
      BY <1>13
    <2> QED
      BY <1>1, <1>2, <1>3, <1>8, <1>10, <1>11, <1>17, <2>1, <2>2, <2>3 DEF ActOK
  <1>20. ActOK(t, m)'
    <2>1. 0 \in 0 .. Len(chunkOf)' /\ m # 1 /\ ~(m < Height(t)') /\ id \in 0 .. Len(chunkOf)'
      BY <1>1, <1>4, <1>9, <1>10, SubmittedTasks
    <2>2. ~IsReady(id)' /\ C = chunkOf'[id]
      BY <1>1, <1>4, <1>13
    <2> QED
      BY <1>8, <1>9, <1>12, <2>1, <2>2 DEF ActOK
  <1>21. PartOK(t, m)'
    BY <1>8, <1>9, <1>10, <1>12 DEF PartOK
  <1>22. PartOK(t, n)'
    <2>1. n # Height(t)' /\ n + 1 = m
      BY <1>9, <1>10
    <2>2. HigherPart(x.chunk, x.pivot)' = HigherPart(x.chunk, x.pivot)
      BY DEF HigherPart, LowerPart
    <2>3. Lists(x.higher, HigherPart(x.chunk, x.pivot))
      BY <1>2, <1>3, <1>11 DEF PartOK
    <2> QED
      BY <1>8, <1>11, <1>12, <2>1, <2>2, <2>3 DEF PartOK, Lists, Elems, Differ
  <1>23. ASSUME NEW h \in 1 .. m, h + 1 = n PROVE PartOK(t, h)'
    <2>1. h < n /\ h \in 1 .. Height(t) /\ h < Height(t) /\ Act(t, h)' = Act(t, h) /\ h < m
      BY <1>2, <1>9, <1>10, <1>23
    <2>2. /\ PartOK(t, h) /\ Act(t, h + 1) = x /\ Act(t, h + 1)' = b
      BY <1>3, <1>8, <1>23, <2>1 DEF StacksInv
    <2> QED
      BY <1>10, <1>11, <2>1, <2>2 DEF PartOK, HigherPart, LowerPart, Lists, Elems, Differ
  <1>24. StacksInv'
    <2>1. ASSUME NEW h \in 1 .. m PROVE ActOK(t, h)' /\ PartOK(t, h)'
      <3>1. h = m \/ h = n \/ h + 1 = n \/ h + 1 < n
        BY <1>9
      <3>2. h = m \/ h = n \/ h < n
        BY <1>9
      <3> QED
        BY <1>18, <1>19, <1>20, <1>21, <1>22, <1>23, <3>1, <3>2
    <2> QED
      BY <1>10, <1>18, <2>1 DEF StacksInv
  <1>25. PlacesMove(t, m, id, 0, 0)
    <2>1. ASSUME NEW u \in Sort!Threads, NEW h \in 1 .. Height(u)
          PROVE  /\ h \in 1 .. Height(u)' /\ (Act(u, h).task)' = Act(u, h).task
                 /\ (Act(u, h).lower)' = Act(u, h).lower
      <3>1. CASE u # t
        BY <1>10, <3>1
      <3>2. CASE u = t
        <4>1. (h = n \/ (h < n /\ h \in Nat \ {0})) /\ h \in 1 .. Height(u)'
          BY <1>9, <1>10, <3>2
        <4> QED
          BY <1>3, <1>8, <1>10, <1>11, <3>2, <4>1
      <3> QED
        BY <3>1, <3>2
    <2>2. \A u \in Sort!Threads : \A h \in 1 .. Height(u)' :
             h \in 1 .. Height(u) \/ (u = t /\ h = m)
      BY <1>9, <1>10
    <2>3. m \in 1 .. Height(t)' /\ (Act(t, m).task)' = id
      BY <1>8, <1>9, <1>10, <1>12
    <2>4. 0 \notin Submitted /\ 0 \notin Queue
      BY SubmittedTasks DEF PlaceInv
    <2> QED
      BY ONLY <1>4, <1>13, <2>1, <2>2, <2>3, <2>4 DEF PlacesMove
  <1>26. PlaceInv'
    BY <1>25, SubmittedTasks, PlacesStay
  <1>27. ResultsInv'
    BY <1>1, <1>8, ResultsStay
  <1> QED
    BY <1>14, <1>24, <1>26, <1>27

\* A worker runs a task.
LEMMA WorkerRunsTaskKeeps ==
    ASSUME SortInv, NEW t \in Sort!Threads, Sort!WorkerRunsTask(t)
    PROVE  SortInv'
  <1> USE DEF SortInv
  <1>1. /\ sStack[t] = <<>> /\ sPc[t] = "pop" /\ work_queue # <<>>
        /\ work_queue' = Tail(work_queue) /\ UNCHANGED <<chunkOf, future, result>>
        /\ sPc' = [sPc EXCEPT ![t] = "loop"]
    BY DEF Sort!WorkerRunsTask, Sort!RunTask, Sort!Idle
  <1>2. t # main /\ t \in Workers
    BY <1>1, SortNames DEF SortTypes
  <1>4. PICK id \in Nat \ {0}, C \in SUBSET Elements :
               /\ id = Head(work_queue) /\ C = chunkOf[id] /\ id \in Queue
               /\ id \in 1 .. Len(chunkOf) /\ ~IsReady(id)
               /\ \A k : k \in Queue' <=> (k \in Queue /\ k # id)
               /\ Differ(work_queue)' /\ work_queue' \in Seq(Nat)
               /\ Sort!Activation(id, C) \in Activations
    BY <1>1, TaskTaken
  <1>6. PICK a \in Activations : a = Sort!Activation(id, C)
    BY <1>4
  <1>7. sStack' = [sStack EXCEPT ![t] = <<a>>]
    <2>1. sStack' = [sStack EXCEPT ![t] = <<a>> \o <<>>]
      BY <1>1, <1>4, <1>6 DEF Sort!WorkerRunsTask, Sort!RunTask
    <2>2. <<a>> \o <<>> = <<a>>
      OBVIOUS
    <2> QED
      BY <2>1, <2>2
  <1>8. Changed(t, 1, 1) /\ Act(t, 1)' = a /\ Height(t) = 0
    BY <1>1, <1>7, StartsOnTop
  <1>10. /\ Height(t)' = 1 /\ Height(t) = 0
         /\ \A u \in Sort!Threads : u # t =>
               Height(u)' = Height(u) /\ \A h : Act(u, h)' = Act(u, h)
    <2>1. 1 \in Nat /\ 1 + 1 >= 1 /\ 1 \in Nat \ {0}
      OBVIOUS
    <2> QED
      BY <1>8, <2>1, OthersKept
  <1>12. a.task = id /\ a.chunk = C /\ a.at = "start" /\ a.lower = 0
    BY <1>6 DEF Sort!Activation
  <1>13. Submitted' = Submitted /\ \A k : IsReady(k)' = IsReady(k)
    BY <1>1 DEF Submitted, IsReady
  <1>14. SortTypes'
    <2>1. sPc' \in [Sort!Threads -> SortPhases]
      BY <1>1 DEF SortTypes, SortPhases
    <2>2. sPc'[main] = sPc[main] /\ \A w \in Workers : sPc'[w] = sPc[w] \/ sPc'[w] = "loop"
      BY <1>1, <1>2, SortNames DEF SortTypes
    <2>3. sStack' \in [Sort!Threads -> Seq(Activations)]
      BY <1>8 DEF Changed
    <2> QED
      BY <1>1, <1>4, <2>1, <2>2, <2>3 DEF SortTypes
  <1>15. ChunksStay
    BY <1>1, SubmittedTasks DEF ChunksStay
  <1>16. OthersRun(t, 1)
    BY <1>1, SubmittedTasks DEF OthersRun, IsReady
  <1>18. \A u \in Sort!Threads : \A h \in 1 .. Height(u)' :
                 u # t => ActOK(u, h)' /\ PartOK(u, h)'
    <2>1. 1 \in Nat /\ 1 + 1 >= 1 /\ 1 \in Nat \ {0}
      OBVIOUS
    <2> QED
      BY <1>8, <1>15, <1>16, <2>1, OthersStay
  <1>20. ActOK(t, 1)'
    <2>1. 0 \in 0 .. Len(chunkOf)' /\ ~(1 < Height(t)') /\ id \in 0 .. Len(chunkOf)'
      BY <1>1, <1>4, <1>10, SubmittedTasks
    <2>2. ~IsReady(id)' /\ C = chunkOf'[id]
      BY <1>1, <1>4, <1>13
    <2> QED
      BY <1>2, <1>8, <1>12, <2>1, <2>2 DEF ActOK
  <1>21. PartOK(t, 1)'
    BY <1>8, <1>10, <1>12 DEF PartOK
  <1>24. StacksInv'
    <2>1. \A h \in 1 .. Height(t)' : h = 1
      BY <1>10
    <2> QED
      BY <1>18, <1>20, <1>21, <2>1 DEF StacksInv
  <1>25. PlacesMove(t, 1, id, 0, 0)
    <2>1. ASSUME NEW u \in Sort!Threads, NEW h \in 1 .. Height(u)
          PROVE  /\ h \in 1 .. Height(u)' /\ (Act(u, h).task)' = Act(u, h).task
                 /\ (Act(u, h).lower)' = Act(u, h).lower
      <3>1. u # t
        BY <1>10
      <3> QED
        BY <1>10, <3>1
    <2>2. \A u \in Sort!Threads : \A h \in 1 .. Height(u)' :
             h \in 1 .. Height(u) \/ (u = t /\ h = 1)
      BY <1>10
    <2>3. 1 \in 1 .. Height(t)' /\ (Act(t, 1).task)' = id
      BY <1>8, <1>10, <1>12
    <2>4. 0 \notin Submitted /\ 0 \notin Queue
      BY SubmittedTasks DEF PlaceInv
    <2> QED
      BY ONLY <1>4, <1>13, <2>1, <2>2, <2>3, <2>4 DEF PlacesMove
  <1>26. PlaceInv'
    BY <1>25, SubmittedTasks, PlacesStay
  <1>27. ResultsInv'
    BY <1>1, <1>2, <1>8, ResultsStay
  <1> QED
    BY <1>14, <1>24, <1>26, <1>27

\* What an activation is to return, and that nothing waits for its task any more below it.
ToReturn(t, sorted) ==
    /\ Lists(sorted, Sort!Top(t).chunk)
    /\ Sort!Top(t).lower # 0 => IsReady(Sort!Top(t).lower)

\* A task returns: its future is ready.
LEMMA TaskReturns ==
    ASSUME SortInv, NEW t \in Sort!Threads, NEW sorted, ToReturn(t, sorted), sStack[t] # <<>>,
           Sort!Top(t).task # 0, Sort!Return(t, sorted), UNCHANGED <<work_queue, chunkOf>>
    PROVE  SortInv'
  <1> USE DEF SortInv
  <1>1. /\ future' = [future EXCEPT ![Sort!Top(t).task] = sorted]
        /\ sStack' = [sStack EXCEPT ![t] = Sort!Below(t)]
        /\ sPc' = sPc /\ result' = result
    BY DEF Sort!Return
  <1>2. PICK n \in Nat \ {0} :
           /\ n = Height(t) /\ Sort!Top(t) = Act(t, n) /\ Act(t, n) \in Activations
           /\ n \in 1 .. Height(t) /\ ActOK(t, n) /\ PartOK(t, n)
    BY TopActivation
  <1>3. PICK x \in Activations : x = Act(t, n)
    BY <1>2
  <1>4. PICK m \in Nat : m + 1 = n
    <2>1. n - 1 \in Nat /\ (n - 1) + 1 = n
      OBVIOUS
    <2> QED
      BY <2>1
  <1>5. Changed(t, n, m)
    <2>1. PICK i \in Nat : i + 1 = Height(t) /\ Changed(t, i + 1, i)
      BY <1>1, PopsTop
    <2>2. i = m
      BY <1>2, <1>4, <2>1
    <2> QED
      BY <1>2, <2>1, <2>2
  <1>6. PICK k \in Nat \ {0} : k = x.task
    BY <1>2, <1>3 DEF Activations
  <1>7. k \in Submitted /\ x.chunk = chunkOf[k] /\ k \in 1 .. Len(chunkOf) /\ ~IsReady(k)
    BY <1>2, <1>3, <1>6, SubmittedTasks DEF ActOK, Submitted
  <1>8. Lists(sorted, chunkOf[k]) /\ sorted \in Seq(Elements) /\ sorted # NotReady
    BY <1>2, <1>3, <1>7, SortAssumption DEF ToReturn, Lists
  <1>9. /\ future' \in Seq(Seq(Elements) \cup {NotReady}) /\ Len(future') = Len(chunkOf)
        /\ future'[k] = sorted
        /\ \A i \in Submitted : i # k => future'[i] = future[i]
    <2>1. /\ future \in Seq(Seq(Elements) \cup {NotReady}) /\ Len(future) = Len(chunkOf)
          /\ future' = [future EXCEPT ![k] = sorted] /\ k \in 1 .. Len(future)
      BY <1>1, <1>2, <1>3, <1>6, <1>7 DEF SortTypes
    <2>2. future' \in Seq(Seq(Elements) \cup {NotReady}) /\ Len(future') = Len(future)
      BY <1>8, <2>1
    <2>3. future'[k] = sorted /\ \A i \in 1 .. Len(future) : i # k => future'[i] = future[i]
      BY <2>1
    <2> QED
      BY <2>1, <2>2, <2>3 DEF Submitted
  <1>10. /\ Height(t)' = m /\ Height(t) = n
         /\ \A h \in Nat \ {0} : h < n =>
               /\ h \in 1 .. Height(t) /\ h \in 1 .. m /\ Act(t, h)' = Act(t, h)
         /\ \A u \in Sort!Threads : u # t =>
               Height(u)' = Height(u) /\ \A h : Act(u, h)' = Act(u, h)
    <2>1. m + 1 >= n /\ n <= Height(t) /\ n \in Nat \ {0}
      BY <1>2, <1>4
    <2> QED
      BY <1>2, <1>5, <2>1, OthersKept
  <1>11. \A u \in Sort!Threads : \A h \in 1 .. Height(u) :
            (u # t \/ h < n) => Act(u, h).task # k
    <2>1. \A u \in Sort!Threads : \A h \in 1 .. Height(u) :
             Act(t, n).task # 0 /\ Act(t, n).task = Act(u, h).task => t = u /\ n = h
      BY <1>2 DEF PlaceInv
    <2> QED
      BY <1>3, <1>6, <2>1
  <1>12. Submitted' = Submitted /\ Queue' = Queue /\ chunkOf' = chunkOf
    BY DEF Submitted, Queue, Elems
  <1>13. \A i \in Submitted : IsReady(i)' <=> IsReady(i) \/ i = k
    BY <1>8, <1>9 DEF IsReady
  <1>14. SortTypes'
    <2>1. sStack' \in [Sort!Threads -> Seq(Activations)]
      BY <1>5 DEF Changed
    <2> QED
      BY <1>1, <1>9, <1>12, <2>1 DEF SortTypes
  <1>15. ChunksStay
    BY SubmittedTasks DEF ChunksStay
  <1>16. OthersRun(t, n)
    <2>1. \A u \in Sort!Threads : \A h \in 1 .. Height(u) :
             Act(u, h).task # 0 => Act(u, h).task \in Submitted /\ ~IsReady(Act(u, h).task)
      BY SubmittedTasks
    <2> QED
      BY <1>9, <1>11, <2>1 DEF OthersRun, IsReady
  <1>17. m # 0 => (Act(t, 1).task)' = Act(t, 1).task
    <2>1. m # 0 => 1 < n
      BY <1>4
    <2> QED
      BY <1>10, <2>1
  <1>18. /\ \A u \in Sort!Threads : \A h \in 1 .. Height(u)' :
                 u # t => ActOK(u, h)' /\ PartOK(u, h)'
         /\ \A h \in 1 .. m : h < n => ActOK(t, h)'
         /\ \A h \in 1 .. m : h + 1 < n => PartOK(t, h)'
    <2>1. m + 1 >= n /\ n <= Height(t) /\ n \in Nat \ {0}
      BY <1>2, <1>4
    <2> QED
      BY <1>5, <1>15, <1>16, <1>17, <2>1, OthersStay
  <1>19. m # 0 => PartOK(t, m)'
    <2> SUFFICES ASSUME m # 0 PROVE PartOK(t, m)'
      OBVIOUS
    <2>1. /\ m \in 1 .. Height(t) /\ m < Height(t) /\ Act(t, m)' = Act(t, m)
          /\ ~(m < Height(t)') /\ m + 1 = n
      BY <1>4, <1>10
    <2>2. PartOK(t, m) /\ Act(t, m + 1).task # 0
      BY <1>3, <1>6, <2>1 DEF StacksInv
    <2>3. PICK y : y = Act(t, m)
      OBVIOUS
    <2>4. y.at # "start" => Lists(y.higher, HigherPart(y.chunk, y.pivot))
      BY <2>2, <2>3 DEF PartOK
    <2> QED
      BY <2>1, <2>3, <2>4 DEF PartOK, HigherPart, LowerPart, Lists, Elems, Differ
  <1>20. StacksInv'
    <2>1. ASSUME NEW h \in 1 .. m PROVE ActOK(t, h)' /\ PartOK(t, h)'
      <3>1. h < n /\ (h + 1 < n \/ (h = m /\ m # 0))
        BY <1>4
      <3> QED
        BY <1>18, <1>19, <3>1
    <2> QED
      BY <1>10, <1>18, <2>1 DEF StacksInv
  <1>21. PlacesMove(t, 0, 0, k, 0)
    <2>1. ASSUME NEW u \in Sort!Threads, NEW h \in 1 .. Height(u)'
          PROVE  /\ h \in 1 .. Height(u) /\ Act(u, h).task = (Act(u, h).task)'
                 /\ Act(u, h).task # k
      <3>1. CASE u # t
        BY <1>10, <1>11, <3>1
      <3>2. CASE u = t
        <4>1. h < n /\ h \in Nat \ {0}
          BY <1>4, <1>10, <3>2
        <4> QED
          BY <1>10, <1>11, <3>2, <4>1
      <3> QED
        BY <3>1, <3>2
    <2>2. ASSUME NEW u \in Sort!Threads, NEW h \in 1 .. Height(u)
          PROVE  \/ /\ h \in 1 .. Height(u)' /\ (Act(u, h).task)' = Act(u, h).task
                    /\ (Act(u, h).lower)' = Act(u, h).lower
                 \/ Act(u, h).task = k /\ (Act(u, h).lower # 0 => IsReady(Act(u, h).lower))
      <3>1. CASE u # t
        BY <1>10, <3>1
      <3>2. CASE u = t
        <4>1. h = n \/ (h < n /\ h \in Nat \ {0})
          BY <1>10, <3>2
        <4> QED
          BY <1>2, <1>3, <1>6, <1>10, <3>2, <4>1 DEF ToReturn
      <3> QED
        BY <3>1, <3>2
    <2>3. Differ(work_queue)'
      BY DEF PlaceInv, Differ
    <2>4. 0 \notin Submitted /\ 0 \notin Queue /\ k \notin Queue
      BY <1>2, <1>3, <1>6, <1>7, SubmittedTasks DEF PlaceInv, Runs
    <2> QED
      BY ONLY <1>7, <1>12, <1>13, <2>1, <2>2, <2>3, <2>4 DEF PlacesMove
  <1>22. PlaceInv'
    BY <1>21, SubmittedTasks, PlacesStay
  <1>23. ResultsInv'
    <2>1. ASSUME NEW i \in Submitted', IsReady(i)' PROVE Lists(future'[i], chunkOf'[i])
      <3>1. CASE i = k
        BY <1>8, <1>9, <1>12, <3>1
      <3>2. CASE i # k
        BY <1>9, <1>12, <1>13, <2>1, <3>2 DEF ResultsInv
      <3> QED
        BY <3>1, <3>2
    <2>2. result' # NotReady => Lists(result', Elements) /\ sStack'[main] = <<>>
      <3>1. result' # NotReady => t # main
        BY <1>1 DEF ResultsInv
      <3> QED
        BY <1>1, <1>5, <3>1, SortNames DEF ResultsInv, Changed
    <2> QED
      BY <2>1, <2>2 DEF ResultsInv, Lists, Elems, Differ
  <1> QED
    BY <1>14, <1>20, <1>22, <1>23

\* A call returns to the activation that made it.
LEMMA CallReturns ==
    ASSUME SortInv, NEW t \in Sort!Threads, NEW sorted, ToReturn(t, sorted), sStack[t] # <<>>,
           Sort!Top(t).task = 0, Sort!Below(t) # <<>>, Sort!Return(t, sorted),
           UNCHANGED <<work_queue, chunkOf>>
    PROVE  SortInv'
  <1> USE DEF SortInv
  <1>1. /\ sStack' = [sStack EXCEPT ![t] =
                <<[Head(Sort!Below(t)) EXCEPT !.higher = sorted]>> \o Tail(Sort!Below(t))]
        /\ sPc' = sPc /\ result' = result /\ future' = future
    BY DEF Sort!Return
  <1>2. PICK m \in Nat \ {0} :
           /\ m = Height(t) /\ Sort!Top(t) = Act(t, m) /\ Act(t, m) \in Activations
           /\ m \in 1 .. Height(t) /\ ActOK(t, m) /\ PartOK(t, m)
    BY TopActivation
  <1>3. PICK z \in Activations : z = Act(t, m)
    BY <1>2
  <1>4. sorted \in Seq(Elements) /\ Lists(sorted, z.chunk) /\ z.task = 0
        /\ (z.lower # 0 => IsReady(z.lower))
    BY <1>2, <1>3 DEF ToReturn, Lists
  <1>5. PICK x \in Activations : x = Head(Sort!Below(t))
    <2>1. Sort!Below(t) \in Seq(Activations)
      BY ActTypes DEF Sort!Below
    <2> QED
      BY <2>1
  <1>6. PICK b \in Activations : b = [x EXCEPT !.higher = sorted]
    BY <1>4 DEF Activations
  <1>7. sStack' = [sStack EXCEPT ![t] = <<b>> \o Tail(Sort!Below(t))]
    BY <1>1, <1>5, <1>6
  <1>8. PICK n \in Nat \ {0} : n + 1 = Height(t) /\ Changed(t, n, n) /\ Act(t, n)' = b
                               /\ Head(Sort!Below(t)) = Act(t, n)
    BY <1>7, PopsToCaller
  <1>9. n + 1 = m /\ x = Act(t, n) /\ n \in 1 .. Height(t) /\ n < Height(t)
    BY <1>2, <1>5, <1>8
  <1>10. /\ Height(t)' = n /\ Height(t) = m
         /\ \A h \in Nat \ {0} : h < n =>
               /\ h \in 1 .. Height(t) /\ h \in 1 .. n /\ Act(t, h)' = Act(t, h)
         /\ \A u \in Sort!Threads : u # t =>
               Height(u)' = Height(u) /\ \A h : Act(u, h)' = Act(u, h)
    <2>1. n + 1 >= n /\ n <= Height(t) /\ n \in Nat
      BY <1>9
    <2> QED
      BY <1>2, <1>8, <2>1, OthersKept
  <1>11. /\ b.task = x.task /\ b.chunk = x.chunk /\ b.at = x.at /\ b.pivot = x.pivot
         /\ b.lower = x.lower /\ b.higher = sorted
    BY <1>6 DEF Activations
  <1>12. ActOK(t, n) /\ PartOK(t, n)
    BY <1>9 DEF StacksInv
  <1>13. x.at = "wait"
    BY <1>9, <1>12 DEF ActOK
  <1>14. z.chunk = HigherPart(x.chunk, x.pivot)
    <2>1. Act(t, n + 1) = z
      BY <1>3, <1>9
    <2> QED
      BY <1>4, <1>9, <1>12, <2>1 DEF PartOK
  <1>15. Submitted' = Submitted /\ Queue' = Queue /\ \A k : IsReady(k)' = IsReady(k)
    BY <1>1 DEF Submitted, Queue, Elems, IsReady
  <1>16. SortTypes'
    BY <1>1, <1>8 DEF SortTypes, Changed
  <1>17. ChunksStay
    BY SubmittedTasks DEF ChunksStay
  <1>18. OthersRun(t, n)
    BY <1>1, SubmittedTasks DEF OthersRun, IsReady
  <1>19. (Act(t, 1).task)' = Act(t, 1).task
    <2>1. CASE n = 1
      BY <1>8, <1>9, <1>11, <2>1
    <2>2. CASE n # 1
      BY <1>10, <2>2
    <2> QED
      BY <2>1, <2>2
  <1>20. /\ \A u \in Sort!Threads : \A h \in 1 .. Height(u)' :
                 u # t => ActOK(u, h)' /\ PartOK(u, h)'
         /\ \A h \in 1 .. n : h < n => ActOK(t, h)'
         /\ \A h \in 1 .. n : h + 1 < n => PartOK(t, h)'
    <2>1. n \in Nat /\ n + 1 >= n /\ n <= Height(t)
      BY <1>9
    <2> QED
      BY <1>8, <1>17, <1>18, <1>19, <2>1, OthersStay
  <1>21. ActOK(t, n)'
    <2>1. n = 1 => (Act(t, 1).task)' = x.task
      BY <1>8, <1>11
    <2>2. LowerPart(x.chunk, x.pivot)' = LowerPart(x.chunk, x.pivot)
      BY DEF LowerPart
    <2>4. ~(n < Height(t)')
      BY <1>10
    <2>5. IsReady(x.task)' = IsReady(x.task)
      BY <1>15
    <2> QED
      BY <1>8, <1>9, <1>10, <1>11, <1>12, <1>13, <1>19, <2>1, <2>2, <2>4, <2>5 DEF ActOK
  <1>22. PartOK(t, n)'
    <2>1. HigherPart(x.chunk, x.pivot)' = HigherPart(x.chunk, x.pivot)
      BY DEF HigherPart, LowerPart
    <2>3. ~(n < Height(t)')
      BY <1>10
    <2> QED
      BY <1>4, <1>8, <1>11, <1>14, <2>1, <2>3 DEF PartOK, Lists, Elems, Differ
  <1>23. ASSUME NEW h \in 1 .. n, h + 1 = n PROVE PartOK(t, h)'
    <2>1. h < n /\ h \in 1 .. Height(t) /\ h < Height(t) /\ Act(t, h)' = Act(t, h)
      BY <1>9, <1>10, <1>23
    <2>2. /\ PartOK(t, h) /\ Act(t, h + 1) = x /\ Act(t, h + 1)' = b
      BY <1>8, <1>9, <1>23, <2>1 DEF StacksInv
    <2>3. h + 1 # Height(t) /\ h # Height(t)
      BY <1>9, <1>23
    <2> QED
      BY <1>10, <1>11, <2>1, <2>2, <2>3 DEF PartOK, HigherPart, LowerPart, Lists, Elems, Differ
  <1>24. StacksInv'
    <2>1. ASSUME NEW h \in 1 .. n PROVE ActOK(t, h)' /\ PartOK(t, h)'
      <3>1. h = n \/ (h < n /\ h + 1 = n) \/ (h < n /\ h + 1 < n)
        OBVIOUS
      <3> QED
        BY <1>20, <1>21, <1>22, <1>23, <3>1
    <2> QED
      BY <1>10, <1>20, <2>1 DEF StacksInv
  <1>25. PlacesMove(t, 0, 0, 0, 0)
    <2>1. ASSUME NEW u \in Sort!Threads, NEW h \in 1 .. Height(u)
          PROVE  \/ /\ h \in 1 .. Height(u)' /\ (Act(u, h).task)' = Act(u, h).task
                    /\ (Act(u, h).lower)' = Act(u, h).lower
                 \/ Act(u, h).task = 0 /\ (Act(u, h).lower # 0 => IsReady(Act(u, h).lower))
      <3>1. CASE u # t
        BY <1>10, <3>1
      <3>2. CASE u = t
        <4>1. h = m \/ h = n \/ (h < n /\ h \in Nat \ {0})
          BY <1>9, <1>10, <3>2
        <4>2. n \in 1 .. n
          OBVIOUS
        <4> QED
          BY <1>3, <1>4, <1>8, <1>9, <1>10, <1>11, <3>2, <4>1, <4>2
      <3> QED
        BY <3>1, <3>2
    <2>2. ASSUME NEW u \in Sort!Threads, NEW h \in 1 .. Height(u)'
          PROVE  h \in 1 .. Height(u) /\ (Act(u, h).task)' = Act(u, h).task
      <3>1. CASE u # t
        BY <1>10, <3>1
      <3>2. CASE u = t
        <4>1. h = n \/ (h < n /\ h \in Nat \ {0})
          BY <1>10, <3>2
        <4> QED
          BY <1>8, <1>9, <1>10, <1>11, <3>2, <4>1
      <3> QED
        BY <3>1, <3>2
    <2>3. Differ(work_queue)'
      BY DEF PlaceInv, Differ
    <2>4. 0 \notin Submitted /\ 0 \notin Queue
      BY SubmittedTasks DEF PlaceInv
    <2> QED
      BY ONLY <1>15, <2>1, <2>2, <2>3, <2>4 DEF PlacesMove
  <1>26. PlaceInv'
    BY <1>25, SubmittedTasks, PlacesStay
  <1>27. ResultsInv'
    BY <1>1, <1>8, ResultsStay
  <1> QED
    BY <1>16, <1>24, <1>26, <1>27

\* main's first call returns: everything is sorted.
LEMMA SortReturns ==
    ASSUME SortInv, NEW t \in Sort!Threads, NEW sorted, ToReturn(t, sorted), sStack[t] # <<>>,
           Sort!Top(t).task = 0, Sort!Below(t) = <<>>, Sort!Return(t, sorted),
           UNCHANGED <<work_queue, chunkOf>>
    PROVE  SortInv'
  <1> USE DEF SortInv
  <1>1. /\ sStack' = [sStack EXCEPT ![t] = <<>>]
        /\ sPc' = [sPc EXCEPT ![t] = "destroy"] /\ result' = sorted /\ future' = future
    BY DEF Sort!Return
  <1>2. PICK n \in Nat \ {0} :
           /\ n = Height(t) /\ Sort!Top(t) = Act(t, n) /\ Act(t, n) \in Activations
           /\ n \in 1 .. Height(t) /\ ActOK(t, n) /\ PartOK(t, n)
    BY TopActivation
  <1>3. PICK m \in Nat : m + 1 = Height(t) /\ Changed(t, m + 1, m)
    <2>1. sStack' = [sStack EXCEPT ![t] = Sort!Below(t)]
      BY <1>1
    <2> QED
      BY <2>1, PopsTop
  <1>4. n = 1 /\ m = 0 /\ sStack'[t] = <<>> /\ Changed(t, 1, 0)
    <2>1. sStack'[t] = <<>> /\ Len(<<>>) = 0
      BY <1>1 DEF SortTypes
    <2>2. Height(t)' = 0
      BY <2>1 DEF Height
    <2>3. m = 0
      BY <1>3, <2>2 DEF Changed
    <2> QED
      BY <1>2, <1>3, <2>1, <2>3
  <1>5. t = main /\ Act(t, 1).chunk = Elements
    BY <1>2, <1>4 DEF ActOK
  <1>6. Lists(sorted, Elements) /\ (Act(t, 1).lower # 0 => IsReady(Act(t, 1).lower))
    BY <1>2, <1>4, <1>5 DEF ToReturn
  <1>10. /\ Height(t)' = 0 /\ Height(t) = 1
         /\ \A u \in Sort!Threads : u # t =>
               Height(u)' = Height(u) /\ \A h : Act(u, h)' = Act(u, h)
    <2>1. 0 + 1 >= 1 /\ 1 <= Height(t) /\ 1 \in Nat \ {0} /\ 0 \in Nat
      BY <1>2
    <2> QED
      BY <1>2, <1>4, <2>1, OthersKept
  <1>15. Submitted' = Submitted /\ Queue' = Queue /\ \A k : IsReady(k)' = IsReady(k)
    BY <1>1 DEF Submitted, Queue, Elems, IsReady
  <1>16. SortTypes'
    <2>1. sPc' \in [Sort!Threads -> SortPhases]
      BY <1>1 DEF SortTypes, SortPhases
    <2>2. sPc'[main] = "destroy" /\ \A w \in Workers : sPc'[w] = sPc[w]
      BY <1>1, <1>5, SortNames DEF SortTypes
    <2>3. sStack' \in [Sort!Threads -> Seq(Activations)]
      BY <1>3 DEF Changed
    <2> QED
      BY <1>1, <2>1, <2>2, <2>3 DEF SortTypes
  <1>17. ChunksStay
    BY SubmittedTasks DEF ChunksStay
  <1>18. OthersRun(t, 1)
    BY <1>1, SubmittedTasks DEF OthersRun, IsReady
  <1>20. \A u \in Sort!Threads : \A h \in 1 .. Height(u)' :
             u # t => ActOK(u, h)' /\ PartOK(u, h)'
    <2>1. 0 + 1 >= 1 /\ 1 <= Height(t) /\ 1 \in Nat \ {0} /\ 0 \in Nat
      BY <1>10
    <2> QED
      BY <1>4, <1>17, <1>18, <2>1, OthersStay
  <1>24. StacksInv'
    <2>1. \A h \in 1 .. Height(t)' : FALSE
      BY <1>10
    <2> QED
      BY <1>20, <2>1 DEF StacksInv
  <1>25. PlacesMove(t, 0, 0, 0, 0)
    <2>1. ASSUME NEW u \in Sort!Threads, NEW h \in 1 .. Height(u)
          PROVE  \/ /\ h \in 1 .. Height(u)' /\ (Act(u, h).task)' = Act(u, h).task
                    /\ (Act(u, h).lower)' = Act(u, h).lower
                 \/ Act(u, h).task = 0 /\ (Act(u, h).lower # 0 => IsReady(Act(u, h).lower))
      <3>1. CASE u # t
        BY <1>10, <3>1
      <3>2. CASE u = t
        <4>1. h = 1
          BY <1>10, <3>2
        <4> QED
          BY <1>2, <1>4, <1>6, <3>2, <4>1
      <3> QED
        BY <3>1, <3>2
    <2>2. ASSUME NEW u \in Sort!Threads, NEW h \in 1 .. Height(u)'
          PROVE  h \in 1 .. Height(u) /\ (Act(u, h).task)' = Act(u, h).task
      <3>1. u # t
        BY <1>10
      <3> QED
        BY <1>10, <3>1
    <2>3. Differ(work_queue)'
      BY DEF PlaceInv, Differ
    <2>4. 0 \notin Submitted /\ 0 \notin Queue
      BY SubmittedTasks DEF PlaceInv
    <2> QED
      BY ONLY <1>15, <2>1, <2>2, <2>3, <2>4 DEF PlacesMove
  <1>26. PlaceInv'
    BY <1>25, SubmittedTasks, PlacesStay
  <1>27. ResultsInv'
    <2>1. ASSUME NEW k \in Submitted', IsReady(k)' PROVE Lists(future'[k], chunkOf'[k])
      BY <1>1, <1>15, <2>1 DEF ResultsInv
    <2> QED
      BY <1>1, <1>4, <1>5, <1>6, <2>1 DEF ResultsInv, Lists, Elems, Differ
  <1> QED
    BY <1>16, <1>24, <1>26, <1>27

\* do_sort returns, wherever it does.
LEMMA ReturnKeeps ==
    ASSUME SortInv, NEW t \in Sort!Threads, NEW sorted, ToReturn(t, sorted), sStack[t] # <<>>,
           Sort!Return(t, sorted), UNCHANGED <<work_queue, chunkOf>>
    PROVE  SortInv'
  <1>1. CASE Sort!Top(t).task # 0
    BY <1>1, TaskReturns
  <1>2. CASE Sort!Top(t).task = 0 /\ Sort!Below(t) # <<>>
    BY <1>2, CallReturns
  <1>3. CASE Sort!Top(t).task = 0 /\ Sort!Below(t) = <<>>
    BY <1>3, SortReturns
  <1> QED
    BY <1>1, <1>2, <1>3

\* There is nothing to sort.
LEMMA ReturnEmptyKeeps ==
    ASSUME SortInv, NEW t \in Sort!Threads, Sort!ReturnEmpty(t)
    PROVE  SortInv'
  <1>1. /\ sStack[t] # <<>> /\ Sort!Top(t).at = "start" /\ Sort!Top(t).chunk = {}
        /\ Sort!Return(t, <<>>) /\ UNCHANGED <<work_queue, chunkOf>>
    BY DEF Sort!ReturnEmpty, Sort!At
  <1>2. Sort!Top(t).lower = 0
    <2>1. PICK n \in Nat \ {0} : Sort!Top(t) = Act(t, n) /\ ActOK(t, n)
      BY <1>1, TopActivation DEF SortInv
    <2> QED
      BY <1>1, <2>1 DEF ActOK
  <1>3. ToReturn(t, <<>>)
    BY <1>1, <1>2, EmptyLists DEF ToReturn
  <1> QED
    BY <1>1, <1>3, ReturnKeeps

\* The three parts are sorted, and spliced.
LEMMA CombineKeeps ==
    ASSUME SortInv, NEW t \in Sort!Threads, Sort!Combine(t)
    PROVE  SortInv'
  <1> USE DEF SortInv
  <1>1. /\ sStack[t] # <<>> /\ Sort!Top(t).at = "wait" /\ future[Sort!Top(t).lower] # NotReady
        /\ Sort!Return(t, future[Sort!Top(t).lower] \o <<Sort!Top(t).pivot>> \o Sort!Top(t).higher)
        /\ UNCHANGED <<work_queue, chunkOf>>
    BY DEF Sort!Combine, Sort!At
  <1>2. PICK n \in Nat \ {0} :
           /\ n = Height(t) /\ Sort!Top(t) = Act(t, n) /\ Act(t, n) \in Activations
           /\ n \in 1 .. Height(t) /\ ActOK(t, n) /\ PartOK(t, n)
    BY <1>1, TopActivation
  <1>3. PICK x \in Activations : x = Act(t, n)
    BY <1>2
  <1>4. PICK C \in SUBSET Elements : C = x.chunk
    BY DEF Activations
  <1>5. PICK p \in C : p = x.pivot
    BY <1>1, <1>2, <1>3, <1>4 DEF ActOK
  <1>6. PICK k \in Submitted : k = x.lower
    BY <1>1, <1>2, <1>3, SubmittedTasks DEF ActOK
  <1>7. PICK lo, hi : lo = future[k] /\ hi = x.higher
    OBVIOUS
  <1>8. Lists(lo, LowerPart(C, p))
    <2>1. IsReady(k)
      BY <1>1, <1>2, <1>3, <1>6 DEF IsReady
    <2>2. chunkOf[k] = LowerPart(C, p)
      BY <1>1, <1>2, <1>3, <1>4, <1>5, <1>6 DEF ActOK
    <2> QED
      BY <1>7, <2>1, <2>2 DEF ResultsInv
  <1>9. Lists(hi, HigherPart(C, p))
    BY <1>1, <1>2, <1>3, <1>4, <1>5, <1>7 DEF PartOK
  <1>10. PICK s : s = lo \o <<p>> \o hi
    OBVIOUS
  <1>11. Lists(s, C)
    BY <1>8, <1>9, <1>10, SpliceLists
  <1>12. Sort!Return(t, s)
    BY <1>1, <1>2, <1>3, <1>5, <1>6, <1>7, <1>10
  <1>13. ToReturn(t, s)
    BY <1>1, <1>2, <1>3, <1>4, <1>11 DEF ToReturn, IsReady
  <1> QED
    BY <1>1, <1>12, <1>13, ReturnKeeps

\* A step of the pool's threads outside of do_sort changes nothing.
LEMMA PoolStepKeeps ==
    ASSUME SortInv, UNCHANGED <<work_queue, chunkOf, future, sStack, result>>, SortTypes'
    PROVE  SortInv'
  <1> USE DEF SortInv
  <1>1. /\ Submitted' = Submitted /\ Queue' = Queue /\ \A k : IsReady(k)' = IsReady(k)
        /\ \A t : Height(t)' = Height(t) /\ \A h : Act(t, h)' = Act(t, h)
    BY DEF Submitted, Queue, Elems, IsReady, Height, Act
  <1>2. StacksInv'
    <2> SUFFICES ASSUME NEW t \in Sort!Threads, NEW h \in 1 .. Height(t)
                 PROVE  ActOK(t, h)' /\ PartOK(t, h)'
      BY <1>1 DEF StacksInv
    <2>1. ActOK(t, h) /\ PartOK(t, h)
      BY DEF StacksInv
    <2>2. ActOK(t, h)'
      BY <1>1, <2>1 DEF ActOK, IsReady, LowerPart
    <2>3. PartOK(t, h)'
      BY <1>1, <2>1 DEF PartOK, HigherPart, LowerPart, Lists, Elems, Differ
    <2> QED
      BY <2>2, <2>3
  <1>3. PlaceInv'
    BY <1>1 DEF PlaceInv, Runs, Wanted, Differ
  <1>4. ResultsInv'
    BY <1>1 DEF ResultsInv, Lists, Elems, Differ
  <1> QED
    BY <1>2, <1>3, <1>4

\* The threads of the pool run.
LEMMA ControlKeeps ==
    ASSUME SortInv, NEW t \in Sort!Threads,
           \/ Sort!CheckDone(t) \/ Sort!WorkerYields(t)
           \/ t = main /\ (Sort!Destroy \/ Sort!Join)
    PROVE  SortInv'
  <1> USE DEF SortInv
  <1>1. UNCHANGED <<work_queue, chunkOf, future, sStack, result>>
    BY DEF Sort!CheckDone, Sort!WorkerYields, Sort!Destroy, Sort!Join
  <1>2. \/ t \in Workers /\ sPc' = [sPc EXCEPT ![t] = "ended"]
        \/ t \in Workers /\ sPc' = [sPc EXCEPT ![t] = "pop"]
        \/ t \in Workers /\ sPc' = [sPc EXCEPT ![t] = "loop"]
        \/ t = main /\ sPc' = [sPc EXCEPT ![main] = "join"]
        \/ t = main /\ sPc' = [sPc EXCEPT ![main] = "returned"]
    <2>1. sPc[t] = "pop" => t \in Workers
      BY SortNames DEF SortTypes
    <2> QED
      BY <2>1 DEF Sort!CheckDone, Sort!WorkerYields, Sort!Destroy, Sort!Join, Sort!Idle
  <1>3. SortTypes'
    <2>1. sPc' \in [Sort!Threads -> SortPhases]
      BY <1>2 DEF SortTypes, SortPhases
    <2>2. sPc'[main] \in {sPc[main], "join", "returned"}
      BY <1>2, SortNames DEF SortTypes
    <2>3. \A w \in Workers : sPc'[w] \in {sPc[w], "ended", "pop", "loop"}
      BY <1>2, SortNames DEF SortTypes
    <2> QED
      BY <1>1, <2>1, <2>2, <2>3 DEF SortTypes
  <1> QED
    BY <1>1, <1>3, PoolStepKeeps

\* The invariant holds when main calls do_sort.
LEMMA SortInitInv == Sort!Init => SortInv
  <1> SUFFICES ASSUME Sort!Init PROVE SortInv
    OBVIOUS
  <1>1. PICK a \in Activations : a = Sort!Activation(0, Elements)
    <2>1. <<>> \in Seq(Elements) /\ 0 \in Nat
      OBVIOUS
    <2> QED
      BY <2>1 DEF Sort!Activation, Activations
  <1>2. /\ work_queue = <<>> /\ chunkOf = <<>> /\ future = <<>> /\ result = NotReady
        /\ sStack = [t \in Sort!Threads |-> IF t = main THEN <<a>> ELSE <<>>]
        /\ sPc = [t \in Sort!Threads |-> IF t = main THEN "sorting" ELSE "loop"]
    BY <1>1 DEF Sort!Init
  <1>3. /\ Sort!Threads = Workers \cup {main} /\ main \in Sort!Threads /\ main \notin Workers
    BY SortNames
  <1>4. /\ Height(main) = 1 /\ Act(main, 1) = a
        /\ \A t \in Sort!Threads : t # main => Height(t) = 0
    <2>1. sStack[main] = <<a>> /\ \A t \in Sort!Threads : t # main => sStack[t] = <<>>
      BY <1>2, <1>3
    <2> QED
      BY <2>1 DEF Height, Act, FromBottom
  <1>5. a.task = 0 /\ a.chunk = Elements /\ a.at = "start" /\ a.lower = 0
    BY <1>1 DEF Sort!Activation
  <1>6. Len(chunkOf) = 0 /\ Submitted = {} /\ Queue = {}
    BY <1>2 DEF Submitted, Queue, Elems
  <1>7. SortTypes
    <2>1. sStack \in [Sort!Threads -> Seq(Activations)]
      BY <1>2
    <2>2. sPc \in [Sort!Threads -> SortPhases]
      BY <1>2 DEF SortPhases
    <2>3. sPc[main] = "sorting" /\ \A w \in Workers : sPc[w] = "loop"
      BY <1>2, <1>3
    <2>4. Len(future) = 0
      BY <1>2
    <2> QED
      BY <1>2, <1>6, <2>1, <2>2, <2>3, <2>4 DEF SortTypes
  <1>8. \A t \in Sort!Threads : \A h \in 1 .. Height(t) : t = main /\ h = 1 /\ Act(t, h) = a
    BY <1>4
  <1>9. StacksInv
    <2> SUFFICES ActOK(main, 1) /\ PartOK(main, 1)
      BY <1>8 DEF StacksInv
    <2> QED
      BY <1>4, <1>5, <1>6 DEF ActOK, PartOK
  <1>10. PlaceInv
    <2>1. Differ(work_queue)
      BY <1>2 DEF Differ
    <2> QED
      BY <1>5, <1>6, <1>8, <2>1 DEF PlaceInv
  <1>11. ResultsInv
    BY <1>2, <1>6 DEF ResultsInv
  <1> QED
    BY <1>7, <1>9, <1>10, <1>11 DEF SortInv

\* The steps of the quicksort's threads are all that happens to it.
LEMMA QuicksortMoves ==
    [Next]_partVars /\ part = "quicksort" =>
        (\E t \in Sort!Threads : Sort!Step(t)) \/ UNCHANGED quicksortVars
  BY DEF Next, FreeStep, OwnersStep, Step, QuicksortOnly, PoolsOnly, ProgramsOnly,
         CoroutinesOnly, GeneratorsOnly, ListOnly, InterruptsOnly, partVars

\* SortInv holds of every reachable state of the quicksort.
LEMMA SortInvariance == FairParts => [](part = "quicksort" => SortInv)
  <1> DEFINE Inv == part = "quicksort" => SortInv
  <1>1. InitParts => Inv
    BY SortInitInv DEF InitParts
  <1>2. Inv /\ [Next]_partVars => Inv'
    <2> SUFFICES ASSUME Inv, [Next]_partVars, part' = "quicksort" PROVE SortInv'
      OBVIOUS
    <2>1. SortInv /\ ((\E t \in Sort!Threads : Sort!Step(t)) \/ UNCHANGED quicksortVars)
      BY PartStays, QuicksortMoves
    <2>2. ASSUME NEW t \in Sort!Threads, Sort!Step(t) PROVE SortInv'
      <3>1. CASE \E p \in Elements : Sort!Divide(t, p)
        BY <2>1, <3>1, DivideKeeps
      <3>2. CASE Sort!ReturnEmpty(t) \/ Sort!Combine(t)
        BY <2>1, <3>2, ReturnEmptyKeeps, CombineKeeps
      <3>3. CASE Sort!Help(t)
        <4>1. /\ sStack[t] # <<>> /\ Sort!Top(t).at = "wait" /\ Sort!MoveTo(t, "help")
              /\ UNCHANGED <<work_queue, chunkOf, future, sPc, result>>
          BY <3>3 DEF Sort!Help, Sort!At
        <4> QED
          BY <2>1, <4>1, MoveKeeps
      <3>4. CASE Sort!HelpYields(t)
        <4>1. /\ sStack[t] # <<>> /\ Sort!Top(t).at = "help" /\ Sort!MoveTo(t, "wait")
              /\ UNCHANGED <<work_queue, chunkOf, future, sPc, result>>
          BY <3>4 DEF Sort!HelpYields, Sort!At
        <4> QED
          BY <2>1, <4>1, MoveKeeps
      <3>5. CASE Sort!HelpWithTask(t) \/ Sort!WorkerRunsTask(t)
        BY <2>1, <3>5, HelpWithTaskKeeps, WorkerRunsTaskKeeps
      <3>6. CASE \/ Sort!CheckDone(t) \/ Sort!WorkerYields(t)
                 \/ t = main /\ (Sort!Destroy \/ Sort!Join)
        BY <2>1, <3>6, ControlKeeps
      <3> QED
        BY <2>2, <3>1, <3>2, <3>3, <3>4, <3>5, <3>6 DEF Sort!Step
    <2>3. CASE UNCHANGED quicksortVars
      <3>1. UNCHANGED <<work_queue, chunkOf, future, sStack, sPc, result>>
        BY <2>3 DEF quicksortVars
      <3>2. SortTypes'
        BY <2>1, <3>1 DEF SortInv, SortTypes
      <3> QED
        BY <2>1, <3>1, <3>2, PoolStepKeeps
    <2> QED
      BY <2>1, <2>2, <2>3
  <1> QED
    BY <1>1, <1>2, PTL DEF FairParts

-----------------------------------------------------------------------------
(* PoolQuicksort: what the invariant says of its result.                 *)

\* The Cardinality that PoolQuicksort sees is the one of the library's theorems.
LEMMA SortCardinality == ASSUME NEW S PROVE Sort!Cardinality(S) = Cardinality(S)
  BY DEF Sort!Cardinality, Cardinality

\* An activation's place counted from the top.
LEMMA FromTop ==
    ASSUME SortTypes, NEW t \in Sort!Threads
    PROVE  /\ DOMAIN sStack[t] = 1 .. Height(t) /\ Height(t) \in Nat
           /\ \A i \in 1 .. Height(t) : /\ Height(t) - i + 1 \in 1 .. Height(t)
                                        /\ sStack[t][i] = Act(t, Height(t) - i + 1)
                                        /\ Act(t, i) = sStack[t][Height(t) - i + 1]
  <1>1. PICK s \in Seq(Activations) : s = sStack[t]
    BY ActTypes
  <1>2. PICK n \in Nat : n = Len(s) /\ n = Height(t)
    BY <1>1 DEF Height
  <1>3. ASSUME NEW i \in 1 .. n
        PROVE  /\ n - i + 1 \in 1 .. n /\ s[i] = Act(t, n - i + 1)
               /\ Act(t, i) = s[n - i + 1]
    <2>1. n - i + 1 \in 1 .. n /\ n - (n - i + 1) + 1 = i
      OBVIOUS
    <2> QED
      BY <1>1, <1>2, <2>1 DEF Act, FromBottom
  <1>4. DOMAIN s = 1 .. n
    <2>1. DOMAIN s = 1 .. Len(s)
      BY ONLY s \in Seq(Activations)
    <2> QED
      BY <1>2, <2>1
  <1> QED
    BY <1>1, <1>2, <1>3, <1>4

\* Every task that is not ready is in one place, and one that is ready in none.
LEMMA TasksAreCounted == SortInv => Sort!TypeOK
  <1> USE DEF SortInv
  <1> SUFFICES ASSUME SortInv PROVE Sort!TypeOK
    OBVIOUS
  <1> DEFINE Queued(id) == {i \in DOMAIN work_queue : work_queue[i] = id}
             On(id, t)  == {i \in DOMAIN sStack[t] : sStack[t][i].task = id}
             Ran(id)    == UNION {{t} \X On(id, t) : t \in Sort!Threads}
  <1>1. Sort!Tasks = Submitted
    BY DEF Sort!Tasks, Submitted, SortTypes
  <1>2. /\ \A x : Cardinality({x}) = 1
        /\ Cardinality({}) = 0
    BY FS_Singleton, FS_EmptySet
  <1>3. ASSUME NEW id \in Submitted
        PROVE  /\ id \in Queue => \E i : Queued(id) = {i}
               /\ id \notin Queue => Queued(id) = {}
    <2>1. Differ(work_queue) /\ Queued(id) = PlacesIn(work_queue, id) /\ Queue = Elems(work_queue)
      BY DEF PlaceInv, PlacesIn, Queue
    <2> HIDE DEF Queued
    <2> QED
      BY <2>1, OnePlace
  <1>4. ASSUME NEW id \in Submitted
        PROVE  /\ Runs(id) => \E x : Ran(id) = {x}
               /\ ~Runs(id) => Ran(id) = {}
    <2>1. ASSUME Runs(id) PROVE \E x : Ran(id) = {x}
      <3>1. PICK t \in Sort!Threads : \E h \in 1 .. Height(t) : Act(t, h).task = id
        BY <2>1 DEF Runs
      <3>2. PICK h \in 1 .. Height(t) : Act(t, h).task = id
        BY <3>1
      <3>3. PICK n \in Nat : n = Height(t)
        BY FromTop
      <3>4. PICK i \in 1 .. n : i = n - h + 1 /\ h = n - i + 1
        <4>1. n - h + 1 \in 1 .. n /\ h = n - (n - h + 1) + 1
          BY <3>3
        <4> QED
          BY <4>1
      <3>5. i \in On(id, t)
        BY <3>2, <3>3, <3>4, FromTop
      <3>6. ASSUME NEW u \in Sort!Threads, NEW j \in On(id, u) PROVE u = t /\ j = i
        <4>1. PICK m \in Nat : m = Height(u) /\ j \in 1 .. m
          BY FromTop
        <4>2. PICK g \in 1 .. m : g = m - j + 1
          BY <4>1
        <4>3. Act(u, g).task = id
          BY <4>1, <4>2, FromTop
        <4>4. u = t /\ g = h
          BY <3>2, <4>1, <4>3, SubmittedTasks DEF PlaceInv
        <4> QED
          BY <3>3, <3>4, <4>1, <4>2, <4>4
      <3> HIDE DEF On
      <3>7. Ran(id) = {<<t, i>>}
        <4>1. On(id, t) = {i} /\ \A u \in Sort!Threads : u # t => On(id, u) = {}
          BY <3>5, <3>6
        <4> QED
          BY <4>1
      <3> QED
        BY <3>7
    <2>2. ASSUME ~Runs(id) PROVE Ran(id) = {}
      <3>1. ASSUME NEW u \in Sort!Threads, NEW j \in On(id, u) PROVE FALSE
        <4>1. PICK m \in Nat : m = Height(u) /\ j \in 1 .. m
          BY FromTop
        <4>2. PICK g \in 1 .. m : g = m - j + 1
          BY <4>1
        <4>3. Act(u, g).task = id
          BY <4>1, <4>2, FromTop
        <4> QED
          BY <2>2, <4>1, <4>3 DEF Runs
      <3> HIDE DEF On
      <3>2. \A u \in Sort!Threads : On(id, u) = {}
        BY <3>1
      <3> QED
        BY <3>2
    <2> QED
      BY <2>1, <2>2
  <1>5. ASSUME NEW id \in Submitted
        PROVE  \/ IsReady(id) /\ id \notin Queue /\ ~Runs(id)
               \/ ~IsReady(id) /\ id \in Queue /\ ~Runs(id)
               \/ ~IsReady(id) /\ id \notin Queue /\ Runs(id)
    <2>1. Runs(id) => ~IsReady(id)
      BY SubmittedTasks DEF Runs
    <2>2. id \in Queue => ~IsReady(id) /\ ~Runs(id)
      BY DEF PlaceInv
    <2>3. ~IsReady(id) => id \in Queue \/ Runs(id)
      BY DEF PlaceInv
    <2> QED
      BY <2>1, <2>2, <2>3
  <1>6. ASSUME NEW id \in Submitted
        PROVE  Sort!Cardinality(Queued(id)) + Sort!Cardinality(Ran(id))
                 + (IF future[id] # NotReady THEN 1 ELSE 0) = 1
    <2> HIDE DEF Queued, Ran, On
    <2>1. /\ Sort!Cardinality(Queued(id)) = Cardinality(Queued(id))
          /\ Sort!Cardinality(Ran(id)) = Cardinality(Ran(id))
      BY SortCardinality
    <2>2. CASE IsReady(id) /\ id \notin Queue /\ ~Runs(id)
      <3>1. Cardinality(Queued(id)) = 0 /\ Cardinality(Ran(id)) = 0
        BY <1>2, <1>3, <1>4, <2>2
      <3> QED
        BY <2>1, <2>2, <3>1 DEF IsReady
    <2>3. CASE ~IsReady(id) /\ id \in Queue /\ ~Runs(id)
      <3>1. Cardinality(Queued(id)) = 1 /\ Cardinality(Ran(id)) = 0
        BY <1>2, <1>3, <1>4, <2>3
      <3> QED
        BY <2>1, <2>3, <3>1 DEF IsReady
    <2>4. CASE ~IsReady(id) /\ id \notin Queue /\ Runs(id)
      <3>1. Cardinality(Queued(id)) = 0 /\ Cardinality(Ran(id)) = 1
        BY <1>2, <1>3, <1>4, <2>4
      <3> QED
        BY <2>1, <2>4, <3>1 DEF IsReady
    <2> QED
      BY <1>5, <2>2, <2>3, <2>4
  <1> QED
    BY <1>1, <1>6 DEF Sort!TypeOK, SortTypes

\* When main's stack is empty, every task is ready: the oldest one that is not would be
\* waited for on the stack of a worker that runs an older one.
LEMMA NothingIsLeft ==
    ASSUME SortInv, sStack[main] = <<>>
    PROVE  /\ work_queue = <<>>
           /\ \A w \in Workers : sStack[w] = <<>>
           /\ \A k \in Submitted : IsReady(k)
  <1> USE DEF SortInv
  <1> DEFINE B == {n \in Nat : \A k \in Submitted : k <= n => IsReady(k)}
  <1>1. \A k \in Submitted : k \in Nat \ {0}
    BY SubmittedTasks DEF Submitted
  <1>2. 0 \in B
    BY <1>1
  <1>3. ASSUME NEW n \in Nat, n \in B PROVE n + 1 \in B
    <2> SUFFICES ASSUME NEW k \in Submitted, k = n + 1, ~IsReady(k) PROVE FALSE
      BY <1>1, <1>3
    <2>1. PICK t \in Sort!Threads : \E h \in 1 .. Height(t) : Act(t, h).lower = k
      BY DEF PlaceInv, Wanted
    <2>2. PICK h \in 1 .. Height(t) : Act(t, h).lower = k
      BY <2>1
    <2>3. t # main /\ 1 \in 1 .. Height(t)
      BY <2>2, ActTypes, SortNames
    <2>4. /\ Act(t, 1).task \in Submitted /\ ~IsReady(Act(t, 1).task) /\ Act(t, 1).task < k
      BY <1>1, <2>2, <2>3, SubmittedTasks DEF StacksInv, ActOK
    <2>5. PICK g \in Nat : g = Act(t, 1).task
      BY <1>1, <2>4
    <2>6. g <= n
      BY <2>4, <2>5
    <2> QED
      BY <1>3, <2>4, <2>5, <2>6
  <1> HIDE DEF B
  <1>4. \A n \in Nat : n \in B
    BY <1>2, <1>3, Induction
  <1>5. \A k \in Submitted : IsReady(k)
    BY <1>1, <1>4 DEF B
  <1>6. Queue = {}
    BY <1>5 DEF PlaceInv
  <1>7. work_queue = <<>>
    <2>1. work_queue \in Seq(Nat)
      BY DEF SortTypes
    <2>2. work_queue # <<>> => 1 \in DOMAIN work_queue
      BY <2>1
    <2> QED
      BY <1>6, <2>2 DEF Queue, Elems
  <1>8. ASSUME NEW w \in Workers PROVE sStack[w] = <<>>
    <2>1. w \in Sort!Threads /\ w # main
      BY SortNames
    <2>2. Height(w) \in Nat /\ (sStack[w] = <<>> <=> Height(w) = 0)
      BY <2>1, ActTypes
    <2>3. 1 \notin 1 .. Height(w)
      BY <1>5, <2>1, SubmittedTasks DEF StacksInv, ActOK
    <2> QED
      BY <2>2, <2>3
  <1> QED
    BY <1>5, <1>7, <1>8

\* A list of the elements, each once, is as long as they are many.
LEMMA ListsAreSorted ==
    ASSUME NEW s, Lists(s, Elements)
    PROVE  Sort!Sorts(s)
  <1>1. PICK n \in Nat : n = Len(s) /\ DOMAIN s = 1 .. n /\ s \in [1 .. n -> Elements]
    BY DEF Lists
  <1>2. {s[i] : i \in DOMAIN s} = Elements /\ \A i, j \in DOMAIN s : s[i] = s[j] => i = j
    BY DEF Lists, Elems, Differ
  <1>3. s \in Bijection(1 .. n, Elements)
    BY <1>1, <1>2 DEF Bijection, Injection, Surjection, IsInjective
  <1>4. Cardinality(Elements) = n
    BY <1>3, FS_CountingElements DEF ExistsBijection
  <1>5. Sort!Cardinality(Elements) = n
    BY <1>4, SortCardinality
  <1> QED
    BY <1>1, <1>2, <1>5 DEF Sort!Sorts, Lists

\* parallel_quick_sort returns its elements in order, each once, and leaves no task behind;
\* until then every task is queued, on one stack or finished.
THEOREM QuicksortReturnsSorted == FairParts => []ReturnsSorted
  <1>1. SortInv => Sort!ReturnsSorted
    <2> SUFFICES ASSUME SortInv, result # NotReady PROVE
                        /\ Sort!Sorts(result) /\ work_queue = <<>>
                        /\ \A w \in Workers : sStack[w] = <<>>
                        /\ \A id \in Sort!Tasks : future[id] # NotReady
      BY DEF Sort!ReturnsSorted
    <2>1. Lists(result, Elements) /\ sStack[main] = <<>>
      BY DEF SortInv, ResultsInv
    <2>2. Sort!Tasks = Submitted
      BY DEF SortInv, Sort!Tasks, Submitted, SortTypes
    <2> QED
      BY <2>1, <2>2, ListsAreSorted, NothingIsLeft DEF IsReady
  <1>2. (part = "quicksort" => SortInv) => ReturnsSorted
    BY <1>1, TasksAreCounted DEF ReturnsSorted
  <1> QED
    BY <1>2, SortInvariance, PTL

-----------------------------------------------------------------------------
(* All the programs.                                                     *)

\* Nothing is used after its end: the queue of the pools of lists 9.1, 9.2 and 9.4, a
\* coroutine's frame and the value in it, a node of the locked list, the condition variable
\* of an interruptible wait.  List 9.6 alone uses its queue after its end, and does so only
\* once its destructor has destroyed the queue before it joined the workers.
THEOREM NothingIsUsedAfterItsEnd == FairParts => []NothingUsedAfterItsEnd
  <1>1. /\ part = "pools" => PoolInv
        /\ part = "coroutines" => CoroInv
        /\ part = "generators" => GenInv
        /\ part = "list" => ListInv
        /\ part = "interrupts" => IntrInv
        => NothingUsedAfterItsEnd
    BY QueueIsNotUsedAfterItsEnd, NobodyIsInAFreedFrame, CoroutineIsUsedAsAllowed, NodesStaySafe,
       ConditionIsAlive DEF NothingUsedAfterItsEnd
  <1> QED
    BY <1>1, PoolsInvariance, CoroutinesInvariance, GeneratorsInvariance, ListInvariance,
       InterruptsInvariance, PTL
=============================================================================
