----------------------------- MODULE MC_Tasks -----------------------------
\* The programs whose threads, tasks and coroutines must come to an end, each on a
\* small instance, in one run: part says which of them this behaviour is about.
EXTENDS Naturals, Sequences, SequencesExt

CONSTANTS
    Workers, main, NotReady,        \* the pools, the quicksort and the coroutines
    Elements, Key,                  \* what the quicksort sorts
    MaxTasks, MaxRounds, MaxN, MaxLoops,
    Walkers, Nodes, Null, ListValues, Doomed,   \* the list
    Interrupters, waiter, notifier, MaxWaits,
    MaxThreads                      \* the largest number of threads of a program

\* The threads that play different parts are different ones, and Null is none of them.
ASSUME ThreadsAssumption ==
    /\ waiter \notin Interrupters /\ notifier \notin Interrupters /\ waiter # notifier
    /\ Null \notin Interrupters \cup {waiter, notifier}

VARIABLES part,
    work_queue, chunkOf, future, sStack, sPc, sDone, result,
    class, done, pool_work_queue, alive, local_work_queue, state, owner, stack, at,
    crashed,
    prog, pc, reg, mem, view, acquirable, released, scLast,
    frame, thread, continuation_, state_, hopped, rounds, done_, mtx_,
    activeThreadCnt_, threw,
    gClass, limit, fails, body, gAt, misused, gAlive, mark, got, phase,
    next, data, live, mtx, lPc, op, current, ahead, pushed, seen, present,
    flag, thread_cond, set_clear_mutex, lk, cvAlive, pred, iPc, calls, throwing

quicksortVars == <<work_queue, chunkOf, future, sStack, sPc, sDone, result>>
poolsVars == <<class, done, pool_work_queue, alive, local_work_queue, state, owner,
               stack, at, crashed>>
programsVars == <<prog, pc, reg, mem, view, acquirable, released, scLast>>
coroutinesVars == <<frame, thread, continuation_, state_, hopped, rounds, done_, mtx_,
                    activeThreadCnt_, threw>>
generatorsVars == <<gClass, limit, fails, body, gAt, misused, gAlive, mark, got, phase>>
listVars == <<next, data, live, mtx, lPc, op, current, ahead, pushed, seen, present>>
interruptsVars == <<flag, thread_cond, set_clear_mutex, lk, cvAlive, pred, iPc, calls,
                    throwing>>
partVars == <<part, quicksortVars, poolsVars, programsVars, coroutinesVars,
              generatorsVars, listVars, interruptsVars>>

Sort == INSTANCE PoolQuicksort WITH stack <- sStack, pc <- sPc, done <- sDone
Pools == INSTANCE ThreadPools
Atomics == INSTANCE AtomicPrograms
Machine == INSTANCE ViewMachine WITH
    Chosen <- (DOMAIN Atomics!Programs) \ {"SpinLockEx"}
Coro == INSTANCE CoroutineTasks WITH Nobody <- Null
Gen == INSTANCE Generators WITH
    class <- gClass, at <- gAt, alive <- gAlive
List == INSTANCE LockedList WITH
    Threads <- Walkers, Values <- ListValues, pc <- lPc
Intr == INSTANCE Interruptible WITH
    Nobody <- Null, pc <- iPc

\* A future that is not ready holds no list, and the elements can be compared.
ASSUME SortAssumption ==
    /\ NotReady \notin Seq(Elements)
    /\ Key \in [Elements -> Nat]

\* Null is neither a thread nor a coroutine.
ASSUME NullAssumption == Null \notin Coro!Threads /\ Null \notin Coro!Frames

\* The owner of a pool is none of its workers.
ASSUME PoolsAssumption == main \notin Workers /\ MaxTasks \in Nat

\* The list has a head that is no node, and an address for every value that is pushed.
ASSUME ListAssumption ==
    /\ Walkers # {} /\ Null \notin Walkers
    /\ List!head \notin Nodes /\ Null \notin Nodes /\ Null # List!head
    /\ IsFiniteSet(Nodes) /\ IsFiniteSet(ListValues)
    /\ Cardinality(ListValues) <= Cardinality(Nodes)

\* How often a body suspends is a number: icebag's too, of every argument used.
ASSUME GeneratorsAssumption ==
    /\ MaxN \in Nat /\ MaxLoops \in Nat
    /\ \A n \in 0 .. MaxN : Gen!gen_icebag[n] \in Nat

\* Two elements of the four are equal.
Key4 == <<1, 2, 2, 3>>

\* The programs that do not run have no state.
NoQuicksort == /\ work_queue = Null /\ chunkOf = Null /\ future = Null /\ sStack = Null
               /\ sPc = Null /\ sDone = Null /\ result = Null
NoPools == /\ class = Null /\ done = Null /\ pool_work_queue = Null /\ alive = Null
           /\ local_work_queue = Null /\ state = Null /\ owner = Null /\ stack = Null
           /\ at = Null /\ crashed = Null
NoPrograms == /\ prog = Null /\ pc = Null /\ reg = Null /\ mem = Null /\ view = Null
              /\ acquirable = Null /\ released = Null /\ scLast = Null
NoCoroutines == /\ frame = Null /\ thread = Null /\ continuation_ = Null
                /\ state_ = Null /\ hopped = Null /\ rounds = Null /\ done_ = Null
                /\ mtx_ = Null /\ activeThreadCnt_ = Null /\ threw = Null
NoGenerators == /\ gClass = Null /\ limit = Null /\ fails = Null /\ body = Null
                /\ gAt = Null /\ misused = Null /\ gAlive = Null /\ mark = Null
                /\ got = Null /\ phase = Null
NoList == /\ next = Null /\ data = Null /\ live = Null /\ mtx = Null /\ lPc = Null
          /\ op = Null /\ current = Null /\ ahead = Null /\ pushed = Null
          /\ seen = Null /\ present = Null
NoInterrupts == /\ flag = Null /\ thread_cond = Null /\ set_clear_mutex = Null
                /\ lk = Null /\ cvAlive = Null /\ pred = Null /\ iPc = Null
                /\ calls = Null /\ throwing = Null

InitParts ==
    \/ /\ part = "quicksort" /\ Sort!Init /\ NoPools /\ NoPrograms
       /\ NoCoroutines /\ NoGenerators /\ NoList /\ NoInterrupts
    \/ /\ part = "pools" /\ NoQuicksort /\ Pools!Init /\ NoPrograms
       /\ NoCoroutines /\ NoGenerators /\ NoList /\ NoInterrupts
    \/ /\ part = "programs" /\ NoQuicksort /\ NoPools /\ Machine!Init
       /\ NoCoroutines /\ NoGenerators /\ NoList /\ NoInterrupts
    \/ /\ part = "coroutines" /\ NoQuicksort /\ NoPools /\ NoPrograms
       /\ Coro!Init /\ NoGenerators /\ NoList /\ NoInterrupts
    \/ /\ part = "generators" /\ NoQuicksort /\ NoPools /\ NoPrograms
       /\ NoCoroutines /\ Gen!Init /\ NoList /\ NoInterrupts
    \/ /\ part = "list" /\ NoQuicksort /\ NoPools /\ NoPrograms
       /\ NoCoroutines /\ NoGenerators /\ List!Init /\ NoInterrupts
    \/ /\ part = "interrupts" /\ NoQuicksort /\ NoPools /\ NoPrograms
       /\ NoCoroutines /\ NoGenerators /\ NoList /\ Intr!Init

\* One of the programs takes a step and the others are left alone.
QuicksortOnly == /\ part = "quicksort"
                 /\ UNCHANGED <<part, poolsVars, programsVars, coroutinesVars,
                                generatorsVars, listVars, interruptsVars>>
PoolsOnly == /\ part = "pools"
             /\ UNCHANGED <<part, quicksortVars, programsVars, coroutinesVars,
                            generatorsVars, listVars, interruptsVars>>
ProgramsOnly == /\ part = "programs"
                /\ UNCHANGED <<part, quicksortVars, poolsVars, coroutinesVars,
                               generatorsVars, listVars, interruptsVars>>
CoroutinesOnly == /\ part = "coroutines"
                  /\ UNCHANGED <<part, quicksortVars, poolsVars, programsVars,
                                 generatorsVars, listVars, interruptsVars>>
GeneratorsOnly == /\ part = "generators"
                  /\ UNCHANGED <<part, quicksortVars, poolsVars, programsVars,
                                 coroutinesVars, listVars, interruptsVars>>
ListOnly == /\ part = "list"
            /\ UNCHANGED <<part, quicksortVars, poolsVars, programsVars,
                           coroutinesVars, generatorsVars, interruptsVars>>
InterruptsOnly == /\ part = "interrupts"
                  /\ UNCHANGED <<part, quicksortVars, poolsVars, programsVars,
                                 coroutinesVars, generatorsVars, listVars>>

\* The steps of the first, second ... thread of the program that runs: the pools' and
\* the coroutines' are main and the workers.
ThreadsOf == [x \in DOMAIN Atomics!Programs |-> SetToSeq(DOMAIN Atomics!Programs[x])]
Step(k) ==
    \/ QuicksortOnly  /\ k \in Sort!Threads /\ Sort!Step(k)
    \/ PoolsOnly      /\ k \in Pools!Threads /\ ~crashed /\ Pools!Step(k)
    \/ ProgramsOnly   /\ k \in DOMAIN ThreadsOf[prog] /\ Machine!Step(ThreadsOf[prog][k])
    \/ CoroutinesOnly /\ k \in Coro!Threads /\ Coro!Step(k)
    \/ ListOnly       /\ k \in Walkers /\ List!Step(k)
    \/ InterruptsOnly /\ k \in Interrupters /\ iPc[k] # "start" /\ Intr!Set(k)

\* The steps of the thread that owns what the others use.
OwnersStep ==
    \/ CoroutinesOnly /\ Coro!MainStep
    \/ GeneratorsOnly /\ Gen!Next
    \/ ListOnly       /\ List!DestroyList
    \/ InterruptsOnly /\ Intr!WaiterStep

\* What nobody has to do: submit tasks and destroy pools, interrupt and make ready.
FreeStep == (PoolsOnly /\ Pools!Next) \/ (InterruptsOnly /\ Intr!Next)

Next == FreeStep \/ OwnersStep \/ \E k \in 1 .. MaxThreads : Step(k)

\* Each program has the fairness its own module states.
FairParts ==
    /\ InitParts /\ [][Next]_partVars
    /\ WF_partVars(OwnersStep) /\ \A k \in 1 .. MaxThreads : WF_partVars(Step(k))

\* The pool's quicksort returns its elements in order (PoolQuicksort).
ReturnsSorted == part = "quicksort" => Sort!TypeOK /\ Sort!ReturnsSorted

\* Each task of the pools is in one place and runs once (ThreadPools), and one that
\* is waited for is never dropped.
RunsOnce == part = "pools" => Pools!RunsOnce /\ Pools!AwaitedIsKept

\* Nothing is used after its end: a coroutine's frame and the value in it, a node of the
\* locked list, the condition variable of an interruptible wait, and a pool's queue but
\* for list 9.6's (see ThreadPools).
NothingUsedAfterItsEnd ==
    /\ part = "pools"      => Pools!QueueOutlivesWorkers
    /\ part = "coroutines" => Coro!FramesAreSafe
    /\ part = "generators" => Gen!UsedAsAllowed
    /\ part = "list"       => List!NodesAreSafe
    /\ part = "interrupts" => Intr!NotifiesLiveCondition

\* sync_wait returns what became of the task (CoroutineTasks).
WaitTellsTheOutcome == part = "coroutines" => Coro!WaitTellsTheOutcome

\* A consumer gets a coroutine's values in order, each once (Generators).
DeliversInOrder == part = "generators" => Gen!DeliversInOrder

\* Walks of the locked list miss and repeat nothing (LockedList).
WalksAreComplete == part = "list" => List!WalksAreComplete

\* An interruptible wait returns because its predicate holds (Interruptible).
ReturnsForAReason == part = "interrupts" => Intr!ReturnsForAReason

\* What the programs on atomics assert is so (ViewMachine).
AssertionsHold == part = "programs" => Machine!AssertionsHold

\* The plain accesses of the programs on atomics do not race (ViewMachine).
NoDataRace == part = "programs" => Machine!NoDataRace

\* Everything comes to its end: the quicksort, the destructors of the pools, the
\* programs on atomics, sync_wait, the consumers of generators, the calls of the list,
\* and a wait that is interrupted.
TasksEnd ==
    (part = "pools" => done) /\ (part = "interrupts" => flag) ~>
        /\ part = "quicksort"  => Sort!Ended
        /\ part = "pools"      => Pools!Ended
        /\ part = "programs"   => Machine!Ended
        /\ part = "coroutines" => Coro!Ended
        /\ part = "generators" => Gen!Ended
        /\ part = "list"       => List!Ended
        /\ part = "interrupts" => Intr!Ended

\* Who waits for a task's future gets it: ThreadPools' FuturesAreGot.
FuturesAreGot ==
    []<>(part = "pools" => Pools!NobodyWaits \/ crashed \/ Pools!Blocked)
=============================================================================
