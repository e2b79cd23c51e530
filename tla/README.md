# TLA+ models of ConCurrencyInActionEnglish2Ed

The repository holds the examples of a book on concurrency in C++, chapter by
chapter, most of them small classes shared by threads, and one larger program,
the ATM. This directory holds TLA+ models of them, the TLC runs that check the
models, and proofs checked by TLAPS. Paths are relative to `src/`.

## 1. Inventory

| Part | State | Operations | Hard because | Must hold |
|---|---|---|---|---|
| `Common/threadsafe_queue.h` | mutex, `std::queue`, condition variable | `push`, `wait_and_pop` (2), `pop`, `try_pop` (2), `empty` | wake-ups stolen, spurious, or lost to an allocation that throws | exactly once, in order; nobody sleeps beside a value; refines a FIFO |
| `Common/join_thread.h` | reference to threads | destructor joins | must run before what the threads use goes away | all threads joined |
| `ATM_example/messaging.h` | a queue per receiver | `send`, `wait().handle<..>()` | unhandled messages are dropped, `close_queue` throws | every wait is answered |
| `ATM_example/atm.h`, `bank.h`, `interface_machine.h`, `atm.cpp` | state function, PIN, amount; balance; screen | handlers of 9 + 5 + 9 messages, keyboard, shutdown | answers outlive their requests; cancel races the bank | money neither created nor lost; PIN needed; shutdown ends |
| Ch. 2 `thread_guard`, `scope_thread`, `joining_thread` | owned threads | move, assign, join, detach | exceptions between creation and join | no joinable thread is destroyed |
| Ch. 2 `oops`, Ch. 3 locks, Ch. 5 litmus tests and spin locks, latch, Ch. 11 test | locals, mutexes, atomics | a few instructions per thread | weak memory; lifetimes; two mutexes at once | no race where none is meant; the asserts; no deadlock |
| Ch. 3 `hierarchy_mutex` | owner, saved level, thread-local level | `lock`, `try_lock`, `unlock` | any number of mutexes and threads | no deadlock; level always right |
| Ch. 3 stack 3.5, Ch. 6 stack 6.1, Ch. 9 `work_stealing_queue` | data under one mutex | push, pop, copy, steal | the copy locks another object | each value once; a copy is a snapshot |
| Ch. 4 queues | as above | as above | as above | as above |
| Ch. 6 queues 6.2-6.7 | lists and queues, one or two mutexes | push, pops, `empty` | two mutexes; notify without the mutex | refines a FIFO; waiters are served |
| Ch. 6 list 6.12 | nodes with a mutex each | `push_front`, `for_each`, `remove_if` | hand over hand: a walk meets a removal | no node used after it is freed; walks are complete |
| Ch. 7 stacks 7.2-7.4, spin lock | atomic head, list of nodes to delete | push, pop, reclamation | ABA, use after free, leaks | refines a stack; memory-safe |
| Ch. 8 barrier, pairwise partial sum | three atomics; two arrays | `wait`, `done_waiting` | reuse, wrapping, resigning | nobody overtakes; no race; terminates |
| Ch. 2 and 8 accumulate, for_each, find, chunked partial sum | futures, promises, flags | fork, join, stop early | exceptions; threads that cannot start; flag tested too early | same result as the sequential algorithm; no thread left behind |
| Ch. 9 pools 9.1-9.8, quicksort 9.5 | work queues, `done`, threads | `submit`, `run_pending_task`, destructor | tasks that wait for tasks; destruction order | terminates; no task lost |
| Ch. 9 interruptible threads | flag, condition variable | `interrupt`, `interruptible_wait` | interrupt between test and wait | interrupted within a timeout |
| Ch. 10 `ProtectedY`, counting visits | mutex; maps | lock, reduce | any grouping of a reduction | no race; the call returns; counts are right |
| Coroutines: `task`, `sync_wait`, `new_thread_context` | frames, continuation, flag | `co_await`, resume on a new thread | the frame dies under a notifier | the outcome is told; no frame used after its end |
| Coroutines: generators | the value in the promise | resume, get | value overwritten, taken twice, or not built | in order, each once |
| Ch. 1, `main.cpp` | none | print; call one example | - | - |

How they interact: all classes are used by threads that share them by reference.
The pools of chapter 9 hold a `threadsafe_queue` of `Common` and a
`join_threads`; the ATM's three actors share nothing but message queues, which
are built like `threadsafe_queue`; `parallel_partial_sum` is `barrier`'s client;
`consume_queue` and `process_queue` are the queues'.

The hazards - what can go wrong at which line, and which property would
catch it - are listed in `PROJECT.json`.

## 2. Modules

| Module | Models | Composed with |
|---|---|---|
| `FifoQueue`, `Stack` | what a thread-safe queue and stack promise: an atomic put or take | abstract |
| `AbstractBarrier` | what a barrier promises: all who wait are let out in one step | abstract |
| `ThreadsafeQueue` | `Common/threadsafe_queue.h`, and lists 4.1, 4.5, 6.2, 6.3, as its classes | refines `FifoQueue` |
| `FineGrainedQueue` | list 6.7 and its `consume_queue` | refines `FifoQueue` |
| `LockFreeStack` | list 7.4 | refines `Stack` |
| `LockedStacks` | stacks 3.5 and 6.1, `work_stealing_queue` (9.7) | - |
| `LockedList` | list 6.12 | - |
| `HierarchyMutex` | chapter 3's `hierarchy_mutex` | - |
| `ThreadOwners` | `thread_guard`, `scope_thread`, `joining_thread`, `join_threads`, and lists 2.2 and 2.8, which join by hand | - |
| `Messaging` | `ATM_example/messaging.h`, its queues atomic (see below) | - |
| `Atm`, `Bank`, `InterfaceMachine` | the three actors, one action per handler | extend `Messaging` |
| `AtmExample` | `atm.cpp`: keyboard, shutdown, and the three threads together | extends the actors |
| `Barrier` | list 8.12, and the copy of it in list 8.13 | refines `AbstractBarrier` |
| `PairwisePartialSum` | list 8.13 | extends `Barrier` |
| `ForkJoin` | lists 2.9, 8.2-8.5, 8.7-8.11 | - |
| `ThreadPools` | lists 9.1, 9.2, 9.4, 9.6, with `join_threads`, as its classes | - |
| `PoolQuicksort` | lists 9.4 and 9.5, with `join_threads` | - |
| `Interruptible` | `interrupt_flag` and `interruptible_wait` (9.11) | - |
| `ViewMachine` | the C++ memory model as far as the programs use it (external) | extends `AtomicPrograms` |
| `AtomicPrograms` | the programs it runs: chapters 2, 3, 5, 10, 11, list 4.25, a coroutine | - |
| `CoroutineTasks` | `task.h`, `sync_wait.h`, `new_thread_executor.h`, and `run()` of `example_test.cpp` | - |
| `Generators` | `generator.h` and the seven classes of `hello-coroutine.h`, each in the loop of its example, `Generator`'s operators in any order | - |
| `ThreadsafeQueueProofs`, `BarrierProofs`, `HierarchyMutexProofs`, `AtmProofs` | theorems about the module they are named for | extend it and `TLAPS` |
| `AlgorithmProofs`, `StructuresProofs`, `TasksProofs` | theorems about the components of `MC_Algorithms`, `MC_Structures`, `MC_Tasks` | extend those |
| `NaturalLemmas` | induction and recursion on the natural numbers | used by these three |
| `MC_Algorithms`, `MC_Structures`, `MC_Tasks` | components side by side in one state space each; `part` says which one a behaviour is about | instances of the modules |
| other `MC_*` | constants and symmetry for TLC | extend the module |

**What a step is.** A thread's `pc` names the statement it is about to run. An
access to an atomic is a step, so is taking or releasing a mutex, so is an access
to memory that other threads may reach (a node, a cell of an array). Statements
that touch only what the thread owns - locals, or data under a mutex it holds -
are merged into the step next to them. In `Barrier`, `spaces = count.load()` is
therefore two steps; in `ThreadsafeQueue` the body between lock and unlock is one,
because `data` is touched under `mtx` only, while sleeping, waking and unlocking
are steps of their own. In `FineGrainedQueue` and `HierarchyMutex` the last access
under a mutex and its release are merged where nobody can see between them. In
`LockedStacks` a copy takes one element a step, for the copy of list 3.5 holds the
wrong mutex.

**Clients.** Where the code is a class, its clients are the most general ones: any
thread makes any call the class allows, at any time. Where it is a program, or a
class whose use is a protocol (`Generators`, `CoroutineTasks`, `AtomicPrograms`),
the clients are the repository's examples. `Generator` of `hello-coroutine.h` has two
operators, which its example alternates; the model's consumer calls them in any order
and number, since the class allows it.

**Classes.** The same class appears in several lists with small differences. One
module then models them all, and a record says what tells them apart: of a queue,
its calls, the ones that allocate or that leave the value behind, and whom `push`
wakes; of a pool, whether it has futures, `run_pending_task` and local queues, and
the order in which its members are destroyed; of an algorithm that divides a range,
whether it does so in blocks or in halves, whether a block's exception goes into a
future, and who joins. `class` (in `ForkJoin`, `list`) is chosen in `Init`, so one
run and one proof are about all of them, and a property that one class lacks says
so in its statement. List 4.1 is a queue written out as two functions, whose loops
and strings are left out.

**Parts.** `MC_Algorithms`, `MC_Structures` and `MC_Tasks` hold several components
which do not interact. In each behaviour one of them moves and the others stay in
one fixed state, so the state space is the sum of theirs, not the product. A
property of a component reads `part = "..." => ...`; where several components owe
the same thing (`NothingUsedAfterItsEnd`, `TasksEnd`, `NoLeak`) it is one property
with a conjunct for each.

**The ATM.** A message queue's push and pop are one step each: `ThreadsafeQueue`
is checked and proved to implement a FIFO whose operations are atomic, and
`messaging::queue` has the same shape (one mutex, `notify_all` under it). A
handler is one step. Handlers that send twice (`WithdrawOk`, `CancelWithdrawal`)
send to two different actors, each of which reads its own queue only, so no
actor can tell the two sends from one; the same holds for the bank, which answers
before it reduces its private `balance`. Bank and interface are sent nothing they
do not handle, so only the atm drops messages. The account number is left out.
A digit is "right" or "wrong" for its place. `clear_last_pressed` is handled by
the atm but bound to no key in `atm.cpp`; the run `atm` includes it.

**The lock-free stack.** All atomics use the default, sequentially consistent
order. `new` may return the address of any deleted node, which is how ABA arises.
`compare_exchange_weak` may fail spuriously. The plain member `next` is read and
written in steps of its own; the data race on it (line 176 against line 192) is
modelled as an interleaving of whole reads and writes.

**Fork and join.** The activations of an algorithm form a tree, named by paths from
the call; the last child of each runs inline. What the operation does to each
element (nothing, throw, match) and whether a thread can be started are free. A sum
is the sequence of the elements it was made from, so that a part left out, used
twice or out of order shows. Blocks are disjoint, so what is done to the
elements of one is a few steps; the flag and the promises are read and written in
steps of their own.

**Owners of threads.** `ThreadOwners` tells apart whether an owner joins when an
exception unwinds the stack. List 2.2's handler does; list 2.8's `f` has none, so the
vector of threads is destroyed, and `std::terminate` called if one of them is joinable.
`scope_thread` checks what it is given and throws; the other classes take a thread that
stands for nothing as it is.

**The pools.** Main and every task may submit tasks and wait for those they
submitted; a thread that waits runs others meanwhile where the pool has
`run_pending_task`, as `do_sort` does. `std::thread` may fail for any thread, and
`main` may destroy the pool whenever it waits for nothing; what is left in a queue
is then destroyed with it. `local_work_queue` of list 9.6 is declared but nowhere
defined, so the pool links only once it is; the model takes it as meant.

**The quicksort.** Each thread has a stack of activations of `do_sort`, because a
thread that waits for a future runs other tasks on top of the one that waits. The
list is modelled by its set of elements and a pivot picked from it;
`std::partition` leaves the order of the parts unspecified, so any element may be
the first.

**Programs on atomics.** `AtomicPrograms` writes each small program as sequences of
instructions, each access with the memory order of the source, `plain` for what is
not atomic. `ViewMachine` runs them: a location keeps all its writes in modification
order; a thread's view says which of them it may still read, so a relaxed load may
return an old value; a release write carries the view of its thread, which an acquire
read of it, or of a read-modify-write in its release sequence, takes over; fences do
so for the relaxed accesses around them; sequentially consistent accesses also follow
one order. A plain access that two threads make without happens-before between them
is a race, and the program then has no meaning; `NoDataRace` says that none is reached. Loads that
read from the future (out-of-thin-air, load buffering) are not produced: values come
from writes already made. The programs with an endless wait on a flag are modelled by
`Await`, which waits until the value can be read. Mutexes, `std::lock`, `call_once`,
`shared_mutex` and `join` are instructions too; the start of a thread is a release.

**Coroutines.** `CoroutineTasks` has the coroutine S inside `sync_wait`, the task R it
is given and tasks C that R awaits one after another, each with a frame that is
created, runs, ends and is destroyed; `schedule()` may move C to a new thread, and may
fail to. An exception that leaves `await_suspend`, which is `noexcept`, is
`std::terminate`. In `Generators` a body is the number of times it suspends, the k-th
value is k.

## 3. Runs

Each run's cfg opens with the instance it checks; `PROJECT.json` lists the
properties and, for each, a mutant of the code that breaks it (for a few, more than
one: the last is the one that counts).

| Run | Question | Instance | Why it is enough |
|---|---|---|---|
| `queue` | exactly once, in order; no stranded sleeper; a wake-up per value; refines the FIFO; blocked pops drain it | 5 classes, 3 threads, 2 values, 4 calls, 1 spurious wake-up, fair | two sleepers and a pusher, a wake-up and a thief; two values to swap |
| `atm` | PIN, screen; money; an answer is always coming; shutdown ends | PIN of 1, balance 60, amount 50, 6 keys, backlog of 1, fair | a cancelled verification and a second session; two withdrawals, the second not covered, one cancelled; closes in every state of a session |
| `algorithms` | the barrier lets all out at once, when all have arrived; its sum: no race, one result; ten divide-and-join algorithms: sequential result, no thread left, `std::terminate` only where nothing guards; all end | 5 elements and generation modulo 2 at the barrier; up to 3 elements in 3 blocks, halves of 1, each element plain, throwing or matching, each thread failing, fair | three rounds, both parities, resignations in each, and a wrap; a first, a middle and a last block, two that set one promise |
| `structures` | no deadlock of hierarchical mutexes; the lock-free stack is memory-safe and a stack; the two-mutex queue is a FIFO; threads have one owner; stacks under one mutex keep each value, copies are snapshots | 3 threads, 3 mutexes (two of one level); 3 nodes, 2 values, 6 calls of the stack, 5 of the queue, 1 spurious failure; 3 objects; 3 pushes | cycles of two and three; one thread pops, one delays, one reuses the address; pusher, popper and one more of either; move, assignment and swap between three owners |
| `tasks` | the quicksort sorts; tasks run once; nothing is used after its end; outcomes reach who waits; values in order; walks complete; waits return for a reason; asserts; races; everything ends; futures are got | caller and 2 workers, keys 1 2 2 3; 4 pools, 2 workers, 3 tasks; 2 tasks C; arguments to 3; 3 walkers, 3 nodes; 2 interrupters, 2 waits; 27 programs of up to 5 threads, fair | nesting to depth three; a task that waits for another while the third runs on top of it; a removal in front of, at and behind a walk; an interrupt in every step of a wait |
| `atm_cancel` | *violated*: a cancelled withdrawal is not charged | 5 keys | see Findings |
| `partial_sum_wrong` | *violated*: the result is the partial sums | 3 elements | see Findings |
| `lock_free_stack_empty` | *violated*: pop of an empty stack returns | 4 calls | see Findings |
| `fine_queue_wait` | *violated*: waiters are served | 2 threads, 2 calls, fair | see Findings |
| `parallel_find` | *violated*: what is in the range is found | 2 elements, 2 blocks | see Findings |
| `stack_copy` | *violated*: every copy is a snapshot | 2 threads, 3 pushes | see Findings |
| `spin_lock_ex` | *violated*: a guard excludes the other thread | one program | see Findings |

Bounds: `MaxCalls`, `MaxWaits`, `MaxKeys`, `MaxTasks`, `MaxRounds`, `MaxPushes`,
`MaxLoops` end a behaviour; `MaxSpurious` bounds wake-ups (and exchange failures) that
happen for no reason; `MaxBacklog` bounds how far the keyboard runs ahead; `MaxLength`,
`MaxBlocks`, `MaxN` bound inputs; `Values` of `AtomicPrograms` bounds what
its locations hold. They are guards of the client's actions only and are arbitrary in the
proofs. Since behaviours end there, deadlock checking is off everywhere; deadlocks are
found by `NoWaitCycle`, `NoDeadlock` and the properties that say that things end.

In `structures` threads are symmetric, and so are the addresses of nodes; no run with a
liveness property uses symmetry. `Barrier` alone, with clients that wait and resign as
they like, has no run of its own: TLC sees it with list 8.13 as its client, and the
proofs of section 5 are about every client.

**Fairness.** Weak fairness of each thread's steps inside a call, and of shutdown: the
operating system runs every thread that can run. Clients owe no call, the user no key,
an interrupter no interrupt, and nobody has to make a predicate true: `TasksEnd` claims
the end of pools that are destroyed and of waits that are interrupted. A task submitted
to a pool returns. The threads of list 8.13 do go on to their next wait or resign, as
the code does on every path. Nothing is assumed about which thread gets a mutex; where a
mutex could be taken from a thread for ever, a bound on calls ends it. So
`BlockedPopsAreServed` says that no call is left waiting for something that never
happens; it does not say that mutexes are handed out fairly. A store becomes visible to
a thread that waits for it. `wait_for` does time out. Of the lock-free stack and of the
fine-grained queue no liveness is checked that holds: the first runs unfairly by design
(an exchange may fail for ever), of the second `NoDeadlock` is checked, which needs no
fairness. The divide-and-join algorithms need only that some thread that can run does
(`WF` of the whole next-state relation): their behaviours are finite.

## 4. Findings

Seven runs find that the code does not do what its own text says; each is expected
to fail.

1. `atm_cancel`: "Withdraw cancelled" is shown but the charge stands
   (`bank.h:48`): the handler that should undo it is empty.
2. `partial_sum_wrong`: odd rounds read `buffer` of threads that have finished and
   do not write it any more (`DesigingConcurrentCode.h:682`): 1 2 4 gives 1 3 6.
3. `lock_free_stack_empty`: two pops of an empty stack dereference null
   (`DesigningLockFreeConcurrentDataStructures.h:163`).
4. `fine_queue_wait`: `push` notifies without the mutex of the predicate
   (`DesigningLockbasedConcurrentDataStructures.h:433`); the wake-up can be lost.
5. `parallel_find`: list 8.9 tests `done_flag` before it joins
   (`DesigingConcurrentCode.h:473`); a match another thread has set as the result, but not
   yet told `done_flag` of, is not reported. List 8.10 asks the future first and is right.
6. `stack_copy`: list 3.5's copy constructor locks the new object's mutex
   (`SharingDataBetweenThreads.h:105`), so the copy may be torn.
7. `spin_lock_ex`: `SpinLockEx::lock` returns when its exchange has failed
   (`TheCppMemoryModelAndOperationOnAtomicTypes.h:74`); two threads are in.

What holds instead is checked beside each, and excepts exactly these cases:

- money is lost *only* by a cancelled withdrawal (`NoMoneyLost`, item 1);
- the partial sums are those of a lockstep run (`SameInEverySchedule`, item 2);
- the stack and the queue refine their abstract specifications in all behaviours that do
  not crash (items 3 and 4);
- of the finds, list 8.9 may answer that there is no match, and both may return a match
  while another block throws; an element they return does match, and list 8.10 misses
  none (`ReturnsTheSequentialResult`, item 5);
- `CopyIsASnapshot` is about list 6.1, whose copy holds the source's mutex (item 6);
- `SpinLockEx` is no program of the run `tasks` (item 7).

More departures are written into the properties as exceptions:

- in list 6.2 a `make_shared` that throws takes the only wake-up of `notify_one` with
  it: `WakeUpPerValue` and `BlockedPopsAreServed` allow for one value beside the
  sleepers per exception (`threw`), and no more;
- two overloads of list 6.3 move the value out and leave it in the queue: in every such
  call, so the order is claimed of queues in which no value was left (`~left` in
  `ExactlyOnceInOrder`);
- the pool of list 9.6 declares its queue after `joiner` (`AdvancedThreadManagement.h:319`),
  so destroys it while workers still pop (`queueFirst` in `QueueOutlivesWorkers` and
  `AwaitedIsKept`);
- `ProtectedY::unlock` locks (`ParallelAlgorithm.h:60`), so `increment_all` never returns,
  whoever calls it: `TasksEnd` takes it for ended where it is stopped;
- a cancelled verification's answer, when it comes late, may let a wrong PIN in:
  `MenuNeedsRightPin` then says no more than that the menu is opened no more often than
  the right PIN was typed;
- list 2.8's `f` calls `std::terminate` when an exception finds a joinable thread in its
  vector (`ThreadsAreOwned` has it as the only such case);
- in list 9.2, which cannot run tasks while it waits, workers waiting inside tasks may
  all block (`Blocked` in `FuturesAreGot`);
- lists 2.9, 8.2, 8.3 and 8.7 call `std::terminate` when an operation throws, or a
  thread cannot start, at the wrong moment; 8.7 in every call with two blocks
  (`DiesOnlyUnguarded` says when); so does 8.11 when an addition throws after the
  chunk's end value was set, because `set_exception` then throws in turn;
- the programs in `SaidToFail` race or fail their assertion where the repository says
  they do (`oops`, double-checked locking, relaxed lists): `NoDataRace` and
  `AssertionsHold` are about the others;
- the destructor of `new_thread_context` waits for ever after any `schedule()`, the
  decrement being compiled out.

`FineGrainedQueue` also has the body of `consume_queue` (the file of item 4, lines
499-502), which calls `empty()` and `try_pop()` and reads the result of the second
without a test: with two consumers and one element the second consumer's step
sets `crashed`. No run asks for the contrary, since nothing in the repository
promises it.

## 5. Proofs

For every value of the constants, under the `ASSUME`s of the modules only. These say
that actors which the code keeps apart are different (`NoThread` is no thread, `main` no
worker, `Null` no node), that what is counted is finite (threads, nodes), and that what
the code has as an unsigned number is a natural one (balance, amount, levels, lengths);
more than that is asked only of the modulus of the barrier (above 1), of the PIN (at
least one digit), of the list (an address for every value that is ever pushed) and of the
quicksort (its elements are compared by a number, `Key`, that several may have in common).

Of the components that `MC_Algorithms`, `MC_Structures` and `MC_Tasks` compose, the
theorems are about the composition, under `part = "..."`, and about its specification
without fairness (`SpecParts`, `FairParts`; `SpecSum` is that of the partial sum).

**One class each.**

- `ThreadsafeQueueProofs`, for all five classes: `TypeOK`, `ExactlyOnceInOrder`,
  `NoStrandedWaiter`, `WakeUpPerValue`, and `Spec => ImplementsFifo`. The invariant
  is the conjunction of the first four, and that only pops sleep.
  Order needs that appending a pop to the history moves the head of `data` to the
  end of what was popped (lemma `MoveHead`, on sequences). `NoStrandedWaiter` is
  inductive because `push` wakes all sleepers in the step that adds, and a thread
  goes to sleep only in a step that sees `data` empty. `WakeUpPerValue` counts:
  a push adds a value and, if any thread sleeps, an awake popper; a pop takes one of
  each away; a pop that throws takes a popper only, and is counted.
- `BarrierProofs`: `TypeOK`, `BarrierHolds`, `OpeningIsExclusive`, `NobodyIsStranded`
  and the refinement of `AbstractBarrier`, for any number
  of threads and any modulus above 1. `BarrierHolds` - nobody returns from a wait before
  everyone has arrived - says nothing about the atomics and is far from inductive. The
  invariant relates them to the threads:
  outside the opening of the barrier, `spaces` is the number of threads that have
  still to arrive or leave in this epoch (`SpacesInv`), `count` that of the
  threads not resigned (`CountInv`), an opener is alone (`OpeningInv`), a thread
  about to arrive has read the current generation (`GenerationInv`), and
  `arrivals` follows `epoch` (`ArrivalsInv`). The counting rests on two lemmas
  about the sizes of finite sets. A modulus of 1 would break it: generation would
  never change. In the refinement a thread enters with `--spaces` and is let out, with
  all others, by `++generation`: one that spins but would find another generation counts
  as outside already (`Place`). That needs the whole invariant at `++generation` - nobody
  is outside, all who spin have read the generation that ends - and gives that the threads
  keep step (`ThreadsKeepStep`). `NobodyIsStranded` is the other direction: while all who
  are in the barrier only spin, somebody is still to come, because an epoch in which all
  have arrived or left has an opener (`OpenerInv`).
- `HierarchyMutexProofs`: `TypeOK`, `ValueIsLowestHeld`, `LastInFirstOut`,
  `NoWaitCycle`. The invariant orders the mutexes a thread holds: their levels
  differ, the thread's value is the lowest, and each mutex's `previous` is the
  lowest of those held above it, which is what makes `unlock` restore the right
  value. Deadlock freedom follows: in a cycle take the thread that waits for the
  lowest level (the natural numbers are well-founded); the thread that owns that
  mutex waits for a lower one. It needs finiteness of nothing.

**The ATM** (`AtmProofs`): `TypeOK`, `NoMoneyCreated`, `NoMoneyLost`,
`MenuNeedsRightPin`, `NoOrphanWait`, `ScreenFitsState`, for any PIN, balance, amount,
keys and backlog. None is inductive, because each is about what the actors *will* read:
a request of the atm is in one place, as a message to the bank or as an answer to it
(`Verifications`, `Withdrawals`, `Enquiries` count both). The invariant says that a
waiting atm has asked (`AnswersInv`); that, until a verification is cancelled, the only
one under way is that of this session's PIN, so that an answer is about it (`PinInv`);
that, until a withdrawal is cancelled, the only one is that of `process_withdraw`, whose
amount is the one reserved (`WithdrawalInv`); and what the screen shows after the last
message to the interface (`ScreenInv`). Each handler takes one message from one queue and
appends to others: the lemmas in the middle of the module say what that does to the
counts, once for all handlers.

**The algorithms** (`AlgorithmProofs`).

- The partial sum of list 8.13: that its threads use the barrier as clients may, hence
  `ImplementsBarrier` and `BarrierHolds`; `NoDataRace`, `SameInEverySchedule`. The
  invariant is the barrier's, and that the cells of a thread are what they are in
  `Lockstep`, a function that runs all threads one step after another, after the steps
  this thread has stored. Who works is in the epoch of the barrier, so nobody is
  more than one step ahead (`NobodyIsAhead`), and a cell that is read belongs to a thread
  that has finished or writes the other array in this step. That the stride is a power of
  two is used only as far as it doubles.
- The ten algorithms that divide a range: `NoThreadOutlivesTheCall` and
  `DiesOnlyUnguarded`, for ranges of any length, any number of blocks and any chunk size.
  Activations are paths in a tree, so the invariant relates a path to the one above it: a
  part exists only when its activation has got that far, was started on a thread or
  called inline according to its number, and is on a thread that is not yet joined or is
  over, by what the activation has done (`PlaceOK`, `BornOK`, `AgeOK`). That all threads
  are joined follows by induction on the depth: a call that has ended waited for
  its parts, these for theirs. `std::terminate` needs to know in which stages an exception can
  be on its way, and in which lists a guard has been constructed by then (`StageOK`,
  `DieInv`).
- The same ten: `ReturnsTheSequentialResult`, for any elements that throw or match. The
  parts of a range are disjoint and make it up, so in every state each element belongs to
  one activation: the leaf it is in, or the one that has still to start the part
  (`Parcels`). What an activation has got from its parts is for ever, and it returns a
  good result only after all of them have (`CollectInv`); so a good result of the call
  means good ones down to the leaves (`AllGood`), by induction on the depth. The rest is
  by what is done: a sum is that of the range in its order (`SumsInv`), f has been
  applied to the elements of the leaves that have run and to no others (`EachInv`), and a
  search returns a match of its range, or its end when the leaf has seen no match or has
  been stopped by the flag, which list 8.10 sets only if somebody does not return his
  end (`FoundInv`). In list 8.11 the inline chunk returns normally only if it
  got the end value of the chunk before, and so on down: a chunk is summed up if it has
  ended, its promise holds its end value or nothing, and if it failed this shows in its
  result or its promise (`ChunksInv`).
- The same ten: until a call is over, or `std::terminate` has been called, somebody can go
  on (`CallGoesOn`), for any length, number of blocks and chunk size. An activation that
  cannot go on has started a part that has not ended, and the tree has a depth, because
  a step adds at most one activation to it (`GrowthInv`): follow such parts down to one
  that waits for nobody. The chunks of list 8.11 wait for one
  another instead; of those that have not ended take the first: the chunk in front of it
  has ended, and nobody ends before he has set the promise of his end value
  (`PromisedInv`), by a value or an exception.

**The structures** (`StructuresProofs`).

- `ThreadsAreOwned`: a thread has one owner from its start to its join or detach
  (`OneOwner`), and the classes that join without a look always have a thread
  (`ClassesInv`); so only list 2.8 calls `std::terminate`.
- `EachValueOnce`, `CopyIsASnapshot` of the containers under one mutex: what was pushed
  is what is stored or returned (`ValuesInv`); a copy under construction is part of a stack
  that cannot change, for the copier holds its mutex (`CopyInv`).
- The lock-free stack: `NoUseAfterFree`, its part of `NoLeak`, and the refinement of
  `Stack`, an atomic one. The invariant gives each node one role
  (free, on the stack, pending, a push's, a pop's, claimed), a holder and a rank, as
  existentially quantified functions: no auxiliary variable is in the model. A node
  that some thread may still read (`Reads`) is never in the claimed list of a thread
  that deletes: `threads_in_pop` counts the readers (`CountInv`), and the thread that
  finds the count at 1 after it has claimed the list is alone in pop with it. The
  exchange of `pop` cannot succeed on a reused address with an old `next`: while a reader
  has a node, nobody frees it (`ReaderOf`).
- The fine-grained queue: `NodesAreSeparate`, its part of `NoLeak`, `NoDeadlock`, and the
  refinement of `FifoQueue`. Ranks fall along the list; `tail` is its last node, or the last but
  one between the two stores of a push; what `get_tail` returned is on the list and not
  in front of `tail` (`SeenInv`), so a pop that sees `head` differ from it takes a
  node that no push touches. It does not deadlock: each mutex is held by the thread whose
  `pc` says so (`MutexesInv`), and whoever holds `tail_mtx`
  waits for nothing, and whoever holds `head_mtx` at most for `tail_mtx`.
- `ListFrom`, by which the models say what is on a list, follows `next` by recursion, so
  one step changes all of it. The invariants never mention it: they rank the nodes. Lemmas
  on walks turn the ranks into the sequence, for the leaks and the two refinements.

**The tasks** (`TasksProofs`).

- `ReturnsForAReason` of interruptible waits: past its interruption point the waiter has
  seen the flag, which is never reset, or the predicate (`ReasonInv`); `thread_cond` points
  to the condition variable of a call that still runs, and an interrupter that is about
  to notify keeps it so with its mutex (`ConditionInv`).
- `DeliversInOrder` of the generators: the consumer has been given all values the body
  has produced but the one it is about to test for or read, by class (`Behind`); who throws
  does so before anything else is told to the consumer (`Throws`).
- `WaitTellsTheOutcome` of `sync_wait`: at most one thread runs the coroutines, so that an
  outcome has one way up (`OneRunner`); once S's flag is set, only its notifier is left, which
  holds the mutex that the caller needs to go on (`PromiseInv`, `CallerInv`).
- `RunsOnce` of the pools: the queues and stacks are sequences; as sets, they say where each
  task is, and the invariant, that no task is in two places (`InOnePlace`), that a local
  queue holds tasks whose submitter runs on this thread, and that none is dropped while the
  pool's queue lives and its submitter may wait (`InOrderOfSubmission`).
- `WalksAreComplete` of the locked list: ranks fall along the list; a node off the list is
  its thread's own (`LooseApart`); mutexes are held hand over hand (`LocksInv`); and what
  a walk has still to come by, the nodes that rank below its place, carries every value that was
  there at its start, is there still and has not been visited (`WalkInv`).
- `NobodyIsStuck` of the same list: whoever waits for the next node's mutex finds its
  holder further on, at a lower rank; if that one waits too, it is for a mutex still further on,
  and ranks, which are natural numbers, do not fall for ever.
- `NothingUsedAfterItsEnd`, for pools, frames, list nodes and condition variables, from
  these invariants.
- `ReturnsSorted` of the quicksort, for any list and any number of workers. A list that is
  done has the elements of its chunk, each once, in order (`Lists`); this is a fact about
  the one sequence, so no induction over the tree of sorts is needed: an activation has it
  of the part above it when that returns, and of the lower part when its task is ready
  (`PartOK`, `ResultsInv`, lemma `SpliceLists`). Activations are counted from the bottom of
  their stack, so that a step changes only the top two (`OthersStay`). That nothing is left
  when the sort returns needs more: a task that is not ready is queued or on one stack, and
  an activation waits for it (`PlaceInv`); a worker's stack rests on a task older than all
  that is waited for on it (`ActOK`). With main's stack empty, the oldest task that is not
  ready would be waited for above an older one (`NothingIsLeft`).

`NaturalLemmas` stands in for the library's theorems on induction and recursion, which
take an operator as a parameter and cannot be applied by the provers used here: `Induction`
speaks of a set of numbers, `Recursion` of a function and of the equations it satisfies.
So what the model defines by a recursive function (`StrideIn`, `Lockstep`, `ListFrom`) can
be reasoned about for every argument.

The type invariants, `BarrierHolds` (which `ImplementsBarrier` implies), `OpeningIsExclusive`,
`NobodyIsStranded`, `InStep`, `LastInFirstOut`, `CallGoesOn` and `NobodyIsStuck` are proved
only; the other properties are checked by runs as well.

**Only model-checked**, and why:

- liveness, everywhere (`TasksEnd`, `BlockedPopsAreServed`, ...), which is out of the
  prover's reach, as is `ENABLED`: `NoDeadlock` of the queue, `CallGoesOn` and
  `NobodyIsStuck` name the guards of a thread's steps instead (`CanGo`);
- `AssertionsHold` and `NoDataRace` of the programs on atomics: each program is a fixed
  one, with a fixed number of threads, and has finitely many states whatever the
  constants, so that the run already covers all of them; what it cuts down of the book's
  program (turns of a loop, threads of a kind) `AtomicPrograms` says where it does.

## 6. Not modelled, and what is next

`PROJECT.json` lists every part with its status. Left out, and why:

- code that cannot run: list 6.11's lookup table and `find_first_if` of 6.12, and list
  9.3, do not compile when instantiated; list 8.1, `edit_document` (2.4) and the tail of
  `new_thread_context` are compiled out; the pool of list 9.8 has no `submit`;
  `Case1::Task` of `hello-coroutine.h` has its caller commented out;
- code that races at its first step, on a plain `bool`: the GUI thread of 4.9, `wait_loop`
  of 4.11, `more_data_to_prepare` of 4.1. A model would show the race and nothing after it;
- code that another module stands for: the quicksorts 4.12 and 4.13 (`PoolQuicksort`
  without the pool), stacks 7.2 and 7.3 (`LockFreeStack` without reclamation), list 6.6
  (`FineGrainedQueue` without waiting), `spinlock_mutex` of chapter 7 (`SpinLock`);
- code for one thread: the queues of 6.4 and 6.5; chapter 1, `main.cpp`, and everything
  that only prints, `trace_coroutine.h` included, apart from the ATM's screen;
- lists 3.2, 3.10 and 3.12: a reference that escapes its lock, a hierarchy by the order
  of two nodes, `call_once` in a class;
- list 10.3: `combine_visits` overwrites the count of a page that is in both maps
  (`ParallelAlgorithm.h:103`), in every call with two lines of one page; no order of steps
  matters to it;
- the start of an `interruptible_thread` (9.9): its caller keeps a pointer to a
  thread-local flag that dies with the thread, and nothing resets it; the model's thread
  outlives its interrupters.

Not in the models: that allocations fail, except where a list is about it; threads of
list 8.13 that cannot be started; memory orders outside `AtomicPrograms` (the lock-free
stack and the barrier use the default order).
