--------------------------- MODULE MC_Structures ---------------------------
\* The locks, the containers and the classes that own threads, each on a small
\* instance, in one run: part says which of them this behaviour is about.
EXTENDS HierarchyMutex, Sequences, TLC

CONSTANTS high_level_mutex, low_level_mutex, twin_mutex,
          Nodes, Values, null, Nothing, Objects,
          MaxStackCalls,  \* bound: calls of the lock-free stack
          MaxCalls,       \* bound: calls of the fine-grained queue
          MaxSpurious, MaxPushes

\* A null pointer is not a node's address, and there are finitely many addresses.
ASSUME NodesAssumption == IsFiniteSet(Nodes) /\ null \notin Nodes

VARIABLES part,
    sHead, to_be_deleted, threads_in_pop, sNext, sDatum, sAllocated, sPc,
    sMine, nodes, last, sSeen, res, sCrashed, sCalls, sSpurious,
    head, tail, head_mtx, tail_mtx, next, datum, allocated, qPc, qOp, qMine,
    seen, crashed, pushed, taken, nCalls, nSpurious,
    oClass, t, state, released, detached, unwinding, died,
    class, data, the_mtx, lPc, op, popped, pushes, copy, versions

stackVars == <<sHead, to_be_deleted, threads_in_pop, sNext, sDatum, sAllocated, sPc,
               sMine, nodes, last, sSeen, res, sCrashed, sCalls, sSpurious>>
queueVars == <<head, tail, head_mtx, tail_mtx, next, datum, allocated, qPc, qOp, qMine,
               seen, crashed, pushed, taken, nCalls, nSpurious>>
ownersVars == <<oClass, t, state, released, detached, unwinding, died>>
lockedVars == <<class, data, the_mtx, lPc, op, popped, pushes, copy, versions>>

LFS == INSTANCE LockFreeStack WITH
    head <- sHead, next <- sNext, datum <- sDatum, allocated <- sAllocated,
    pc <- sPc, mine <- sMine, seen <- sSeen, crashed <- sCrashed,
    nCalls <- sCalls, MaxCalls <- MaxStackCalls, nSpurious <- sSpurious

FGQ == INSTANCE FineGrainedQueue WITH
    pc <- qPc, op <- qOp, mine <- qMine,
    Ops <- {"push", "try_pop", "wait_and_pop", "empty", "consume"}

Owners == INSTANCE ThreadOwners WITH class <- oClass, None <- NoThread

Locked == INSTANCE LockedStacks WITH pc <- lPc, Null <- NoThread

Levels == [m \in Mutexes |-> CASE m = high_level_mutex -> 10000
                     [] m = low_level_mutex -> 5000
                     [] m = twin_mutex -> 5000]

Symmetry == Permutations(Threads) \cup Permutations(Nodes)

\* The components that do not run have no state.
NoMutex == Init /\ target = [u \in Threads |-> high_level_mutex]
NoStack == /\ sHead = null /\ to_be_deleted = null /\ threads_in_pop = null
           /\ sNext = null /\ sDatum = null /\ sAllocated = null /\ sPc = null
           /\ sMine = null /\ nodes = null /\ last = null /\ sSeen = null /\ res = null
           /\ sCrashed = null /\ sCalls = null /\ sSpurious = null
NoQueue == /\ head = null /\ tail = null /\ head_mtx = null /\ tail_mtx = null
           /\ next = null /\ datum = null /\ allocated = null /\ qPc = null
           /\ qOp = null /\ qMine = null /\ seen = null /\ crashed = null
           /\ pushed = null /\ taken = null /\ nCalls = null /\ nSpurious = null
NoOwners == /\ oClass = null /\ t = null /\ state = null /\ released = null
            /\ detached = null /\ unwinding = null /\ died = null
NoLocked == /\ class = null /\ data = null /\ the_mtx = null /\ lPc = null /\ op = null
            /\ popped = null /\ pushes = null /\ copy = null /\ versions = null

InitParts ==
    \/ part = "mutex"  /\ Init    /\ NoStack  /\ NoQueue  /\ NoOwners    /\ NoLocked
    \/ part = "stack"  /\ NoMutex /\ LFS!Init /\ NoQueue  /\ NoOwners    /\ NoLocked
    \/ part = "queue"  /\ NoMutex /\ NoStack  /\ FGQ!Init /\ NoOwners    /\ NoLocked
    \/ part = "owners" /\ NoMutex /\ NoStack  /\ NoQueue  /\ Owners!Init /\ NoLocked
    \/ part = "locked" /\ NoMutex /\ NoStack  /\ NoQueue  /\ NoOwners    /\ Locked!Init

MutexStep  == part = "mutex" /\ Next
                /\ UNCHANGED <<part, stackVars, queueVars, ownersVars, lockedVars>>
StackStep  == part = "stack" /\ LFS!Next
                /\ UNCHANGED <<part, vars, queueVars, ownersVars, lockedVars>>
QueueStep  == part = "queue" /\ FGQ!Next
                /\ UNCHANGED <<part, vars, stackVars, ownersVars, lockedVars>>
OwnersStep == part = "owners" /\ Owners!Next
                /\ UNCHANGED <<part, vars, stackVars, queueVars, lockedVars>>
LockedStep == part = "locked" /\ Locked!Next
                /\ UNCHANGED <<part, vars, stackVars, queueVars, ownersVars>>

partVars == <<part, vars, stackVars, queueVars, ownersVars, lockedVars>>
SpecParts ==
    InitParts /\ [][MutexStep \/ StackStep \/ QueueStep \/ OwnersStep \/ LockedStep]_partVars

\* No deleted node of the lock-free stack is accessed (LockFreeStack).
NoUseAfterFree == part = "stack" => LFS!TypeOK /\ LFS!NoUseAfterFree

\* No node leaks, of the lock-free stack and of the fine-grained queue.
NoLeak == (part = "stack" => LFS!NoLeak) /\ (part = "queue" => FGQ!NoLeak)

\* The lock-free stack refines Stack: LockFreeStack's ImplementsStack.
ImplementsStack ==
    /\ part = "stack" => LFS!LIFO!Init
    /\ [][part = "stack" => [LFS!LIFO!Next]_LFS!LIFO!vars]_partVars

\* A push and a pop never access one node together (FineGrainedQueue).
NodesAreSeparate == part = "queue" => FGQ!NodesAreSeparate

\* The two mutexes of the queue never deadlock its calls (FineGrainedQueue).
NoDeadlock == part = "queue" => FGQ!NoDeadlock

\* The fine-grained queue refines FifoQueue: FineGrainedQueue's ImplementsFifo.
ImplementsFifo ==
    /\ part = "queue" => FGQ!Fifo!Init
    /\ [][part = "queue" => [FGQ!Fifo!Next]_FGQ!Fifo!vars]_partVars

\* Only list 2.8 calls std::terminate, and a thread has one owner (ThreadOwners).
ThreadsAreOwned == part = "owners" => Owners!ThreadsAreOwned

\* Every value pushed is there, or was returned once (LockedStacks).
EachValueOnce == part = "locked" => Locked!EachValueOnce

\* A copy of list 6.1's stack is what the stack once was (LockedStacks).
CopyIsASnapshot == part = "locked" => Locked!CopyIsASnapshot
=============================================================================
