------------------------ MODULE HierarchyMutexProofs ------------------------
(*************************************************************************)
(* The hierarchy of mutexes cannot deadlock, the value of a thread is    *)
(* always the lowest level it holds, and mutexes are released last in,   *)
(* first out: for any threads, mutexes and levels.                       *)
(*************************************************************************)
EXTENDS HierarchyMutex, WellFoundedInduction, TLAPS

-----------------------------------------------------------------------------
(* The inductive invariant.  What a thread holds is totally ordered by   *)
(* level, and each mutex it holds remembers the next higher one: that is *)
(* the value unlock goes back to.                                        *)

Above(t, m) == {n \in Held(t) : Level[n] > Level[m]}

Distinct(t) == \A m, n \in Held(t) : Level[m] = Level[n] => m = n
Saved(t)    == \A m \in Held(t) : Lowest(Above(t, m), previous[m])
Checked(t)  == pc[t] \in {"acquire", "try", "update"}
                  => Level[target[t]] < this_thread[t]
Unlocking(t) ==
    /\ pc[t] = "unlock check" => target[t] \in Held(t)
    /\ pc[t] = "release" => \A m \in Held(t) : Level[m] > Level[target[t]]

Ordered(t) == /\ Distinct(t)
              /\ Lowest(Held(t), this_thread[t])
              /\ Saved(t)
              /\ Checked(t)
              /\ Unlocking(t)

IInv == TypeOK /\ \A t \in Threads : Ordered(t)

-----------------------------------------------------------------------------
(* What each step does to the mutexes that threads hold.                 *)

\* A step that changes neither what a thread holds, nor the thread's value or
\* place, nor what its mutexes remember, keeps the thread's part of the invariant.
LEMMA Frame ==
    ASSUME NEW t, Ordered(t), Held(t)' = Held(t),
           this_thread'[t] = this_thread[t], pc'[t] = pc[t], target'[t] = target[t],
           \A m \in Held(t) : previous'[m] = previous[m]
    PROVE  Ordered(t)'
  <1>1. \A m \in Held(t) : Above(t, m)' = Above(t, m)
    BY DEF Above
  <1>2. Saved(t)'
    BY <1>1 DEF Ordered, Saved, Lowest
  <1> QED
    BY <1>2 DEF Ordered, Distinct, Checked, Unlocking, Lowest

\* A step of one thread does not disturb another, if it leaves it the mutexes it
\* holds and writes only what is remembered in the one it works on.
LEMMA OthersFrame ==
    ASSUME IInv, NEW t \in Threads, NEW u \in Threads \ {t},
           owner[target[t]] # u, owner'[target[t]] # u,
           \A m \in Mutexes \ {target[t]} : /\ owner'[m] = owner[m]
                                            /\ previous'[m] = previous[m],
           this_thread'[u] = this_thread[u], pc'[u] = pc[u], target'[u] = target[u]
    PROVE  Ordered(u)'
  <1>1. Held(u)' = Held(u)
    BY DEF Held
  <1>2. \A m \in Held(u) : previous'[m] = previous[m]
    BY DEF Held
  <1> QED
    BY <1>1, <1>2, Frame DEF IInv

\* Levels and values are numbers.
LEMMA Numbers ==
    ASSUME IInv
    PROVE  /\ \A m \in Mutexes : Level[m] \in Nat /\ Level[m] \in 0 .. Top
           /\ \A t \in Threads : this_thread[t] \in Nat /\ target[t] \in Mutexes
  BY LevelAssumption, TopAssumption DEF IInv, TypeOK

LEMMA LevelOrder ==
    ASSUME IInv, NEW m \in Mutexes, NEW n \in Mutexes
    PROVE  /\ Level[m] <= Level[n] /\ Level[m] # Level[n] => Level[m] < Level[n]
           /\ Level[m] < Level[n] => ~ (Level[m] > Level[n])
           /\ ~ (Level[m] > Level[m])
  <1>1. Level[m] \in Nat /\ Level[n] \in Nat
    BY Numbers
  <1> QED
    BY <1>1

LEMMA InitInv == Init => IInv
  <1> SUFFICES ASSUME Init PROVE IInv
    OBVIOUS
  <1>1. TypeOK
    BY TopAssumption DEF Init, TypeOK, PCs
  <1>2. \A t \in Threads : Held(t) = {}
    BY NoThreadAssumption DEF Init, Held
  <1> QED
    BY <1>1, <1>2 DEF Init, IInv, Ordered, Distinct, Saved, Checked, Unlocking, Lowest

\* Calls, failed checks and failed try_locks: only the place of one thread, and
\* what it is about, change, and neither place is inside a lock or an unlock.
LEMMA MoveInv ==
    ASSUME IInv, NEW t \in Threads,
           UNCHANGED <<owner, previous, this_thread>>,
           TypeOK',
           pc[t] \notin {"update", "release"}, pc'[t] \notin {"update", "release"},
           \A u \in Threads \ {t} : pc'[u] = pc[u] /\ target'[u] = target[u],
           Checked(t)', Unlocking(t)'
    PROVE  IInv'
  <1>1. ASSUME NEW u \in Threads \ {t} PROVE Ordered(u)'
    <2>1. Held(u)' = Held(u)
      BY DEF Held
    <2> QED
      BY <2>1, Frame DEF IInv
  <1>2. Ordered(t)'
    <2>1. Held(t)' = Held(t)
      BY DEF Held
    <2>2. \A m \in Held(t) : Above(t, m)' = Above(t, m)
      BY <2>1 DEF Above
    <2>3. Distinct(t)' /\ Lowest(Held(t), this_thread[t])'
      BY <2>1 DEF IInv, Ordered, Distinct, Lowest
    <2>4. Saved(t)'
      BY <2>1, <2>2 DEF IInv, Ordered, Saved, Lowest
    <2> QED
      BY <2>3, <2>4 DEF Ordered
  <1> QED
    BY <1>1, <1>2 DEF IInv

LEMMA CallInv ==
    ASSUME IInv, NEW t \in Threads, NEW m \in Mutexes,
           NEW l \in {"check", "try check", "unlock check"}, Call(t, m, l)
    PROVE  IInv'
  <1> USE DEF Call, Goto
  <1>1. TypeOK'
    BY DEF IInv, TypeOK, PCs
  <1>2. pc'[t] = l /\ target'[t] = m /\ pc[t] = "idle"
    BY DEF IInv, TypeOK
  <1>3. Held(t)' = Held(t)
    BY <1>2 DEF Held
  <1>4. Checked(t)' /\ Unlocking(t)'
    BY <1>2, <1>3 DEF Checked, Unlocking
  <1>5. \A u \in Threads \ {t} : pc'[u] = pc[u] /\ target'[u] = target[u]
    BY DEF IInv, TypeOK
  <1> QED
    BY <1>1, <1>2, <1>4, <1>5, MoveInv

LEMMA CheckInv == ASSUME IInv, NEW t \in Threads, Check(t) PROVE IInv'
  <1> USE DEF Check, Goto
  <1>1. TypeOK'
    BY DEF IInv, TypeOK, PCs
  <1>2. /\ pc'[t] \in {"acquire", "try", "idle"}
        /\ pc'[t] # "idle" => InOrder(t)
        /\ pc[t] \in {"check", "try check"}
    BY DEF IInv, TypeOK
  <1>3. Checked(t)' /\ Unlocking(t)'
    <2>1. Level[target[t]] \in Nat /\ this_thread[t] \in Nat
      BY Numbers, Zenon
    <2> QED
      BY <1>2, <2>1 DEF Checked, Unlocking, InOrder
  <1>4. \A u \in Threads \ {t} : pc'[u] = pc[u] /\ target'[u] = target[u]
    BY DEF IInv, TypeOK
  <1> QED
    BY <1>1, <1>2, <1>3, <1>4, MoveInv

LEMMA ReturnInv ==
    ASSUME IInv, NEW t \in Threads, TryFails(t) \/ UnlockThrows(t) PROVE IInv'
  <1> USE DEF TryFails, UnlockThrows, Goto
  <1>1. TypeOK'
    BY DEF IInv, TypeOK, PCs
  <1>2. pc'[t] = "idle" /\ pc[t] \in {"try", "unlock check"}
    BY DEF IInv, TypeOK
  <1>3. Checked(t)' /\ Unlocking(t)'
    BY <1>2 DEF Checked, Unlocking
  <1>4. \A u \in Threads \ {t} : pc'[u] = pc[u] /\ target'[u] = target[u]
    BY DEF IInv, TypeOK
  <1> QED
    BY <1>1, <1>2, <1>3, <1>4, MoveInv

\* The mutex is owned, but counts as held only once the value is updated.
LEMMA AcquireInv == ASSUME IInv, NEW t \in Threads, Acquire(t) PROVE IInv'
  <1> USE DEF Acquire, Goto
  <1>1. TypeOK'
    <2>1. \A u \in Threads \ {t} : pc[u] \in {"update", "release"} => target[u] # target[t]
      BY NoThreadAssumption DEF IInv, TypeOK
    <2> QED
      BY <2>1 DEF IInv, TypeOK, PCs
  <1>2. ASSUME NEW u \in Threads \ {t} PROVE Ordered(u)'
    BY OthersFrame, NoThreadAssumption DEF IInv, TypeOK
  <1>3. Ordered(t)'
    <2>1. Held(t)' = Held(t)
      BY NoThreadAssumption DEF IInv, TypeOK, Held
    <2>2. \A m \in Held(t) : Above(t, m)' = Above(t, m)
      BY <2>1 DEF Above
    <2>3. Distinct(t)' /\ Lowest(Held(t), this_thread[t])'
      BY <2>1 DEF IInv, Ordered, Distinct, Lowest
    <2>4. Saved(t)'
      BY <2>1, <2>2 DEF IInv, Ordered, Saved, Lowest
    <2>5. Checked(t)' /\ Unlocking(t)'
      BY DEF IInv, TypeOK, Ordered, Checked, Unlocking
    <2> QED
      BY <2>3, <2>4, <2>5 DEF Ordered
  <1> QED
    BY <1>1, <1>2, <1>3 DEF IInv

\* The new mutex goes below all that are held, whose lowest it remembers.
LEMMA UpdateInv == ASSUME IInv, NEW t \in Threads, Update(t) PROVE IInv'
  <1> USE DEF Update, Goto
  <1> DEFINE m == target[t]
  <1>1. /\ m \in Mutexes /\ owner[m] = t
        /\ \A n \in Mutexes : Level[n] \in Nat
        /\ this_thread[t] \in Nat
    BY Numbers DEF IInv, TypeOK
  <1>2. TypeOK'
    <2>1. previous' \in [Mutexes -> 0 .. Top]
      BY <1>1 DEF IInv, TypeOK
    <2>2. this_thread' \in [Threads -> 0 .. Top]
      BY <1>1, Numbers DEF IInv, TypeOK
    <2> QED
      BY <2>1, <2>2 DEF IInv, TypeOK, PCs
  <1>3. ASSUME NEW u \in Threads \ {t} PROVE Ordered(u)'
    BY <1>1, OthersFrame DEF IInv, TypeOK
  <1>4. Ordered(t)'
    <2>1. Held(t)' = Held(t) \cup {m} /\ m \notin Held(t) /\ Held(t) \subseteq Mutexes
      BY <1>1 DEF IInv, TypeOK, Held
    <2>2. \A n \in Held(t) : Level[m] < Level[n]
      <3>1. Level[m] < this_thread[t]
        BY DEF IInv, Ordered, Checked
      <3>2. \A n \in Held(t) : this_thread[t] <= Level[n]
        BY DEF IInv, Ordered, Lowest
      <3> QED
        BY <1>1, <2>1, <3>1, <3>2
    <2>3. this_thread'[t] = Level[m] /\ previous'[m] = this_thread[t]
          /\ (\A n \in Held(t) : previous'[n] = previous[n]) /\ pc'[t] = "idle"
      BY <1>1, <2>1 DEF IInv, TypeOK
    <2>4. Above(t, m)' = Held(t)
      BY <1>1, <2>1, <2>2 DEF Above
    <2>5. \A n \in Held(t) : Above(t, n)' = Above(t, n)
      BY <1>1, <2>1, <2>2 DEF Above
    <2>6. Distinct(t)'
      BY <1>1, <2>1, <2>2 DEF IInv, Ordered, Distinct
    <2>7. Lowest(Held(t), this_thread[t])'
      BY <1>1, <2>1, <2>2, <2>3 DEF Lowest
    <2>8. Saved(t)'
      <3> SUFFICES ASSUME NEW n \in Held(t)'
                   PROVE  Lowest(Above(t, n), previous[n])'
        BY DEF Saved
      <3>1. CASE n = m
        BY <2>3, <2>4, <3>1 DEF IInv, Ordered, Lowest
      <3>2. CASE n \in Held(t)
        BY <2>3, <2>5, <3>2 DEF IInv, Ordered, Saved, Lowest
      <3> QED
        BY <2>1, <3>1, <3>2
    <2>9. Checked(t)' /\ Unlocking(t)'
      BY <2>3 DEF Checked, Unlocking
    <2> QED
      BY <2>6, <2>7, <2>8, <2>9 DEF Ordered
  <1> QED
    BY <1>2, <1>3, <1>4 DEF IInv

\* The mutex unlocked is the lowest, and the value goes back to the next one.
LEMMA RestoreInv == ASSUME IInv, NEW t \in Threads, Restore(t) PROVE IInv'
  <1> USE DEF Restore, Goto
  <1> DEFINE m == target[t]
  <1>1. /\ m \in Held(t) /\ Held(t) \subseteq Mutexes /\ owner[m] = t
        /\ \A n \in Mutexes : Level[n] \in Nat
        /\ this_thread[t] = Level[m]
    BY Numbers DEF IInv, Ordered, Unlocking, Held
  <1>2. TypeOK'
    BY <1>1 DEF IInv, TypeOK, PCs
  <1>3. ASSUME NEW u \in Threads \ {t} PROVE Ordered(u)'
    BY <1>1, OthersFrame DEF IInv, TypeOK
  <1>4. Ordered(t)'
    <2>1. Held(t)' = Held(t) \ {m}
      BY <1>1 DEF IInv, TypeOK, Held
    <2>2. \A n \in Held(t) \ {m} : Level[m] < Level[n]
      <3> SUFFICES ASSUME NEW n \in Held(t) \ {m} PROVE Level[m] < Level[n]
        OBVIOUS
      <3>1. Level[m] <= Level[n]
        BY <1>1 DEF IInv, Ordered, Lowest
      <3>2. Level[m] # Level[n]
        BY <1>1 DEF IInv, Ordered, Distinct
      <3>3. m \in Mutexes /\ n \in Mutexes
        BY <1>1
      <3> QED
        BY <3>1, <3>2, <3>3, LevelOrder, Zenon
    <2>3. this_thread'[t] = previous[m] /\ pc'[t] = "release" /\ target'[t] = m
      BY DEF IInv, TypeOK
    <2>4. Above(t, m) = Held(t) \ {m}
      <3>1. ~ (Level[m] > Level[m])
        BY <1>1, LevelOrder, Zenon
      <3> QED
        BY <1>1, <2>2, <3>1 DEF Above
    <2>5. \A n \in Held(t) \ {m} : Above(t, n)' = Above(t, n)
      <3> SUFFICES ASSUME NEW n \in Held(t) \ {m} PROVE Above(t, n)' = Above(t, n)
        OBVIOUS
      <3>1. ~ (Level[m] > Level[n])
        <4>1. m \in Mutexes /\ n \in Mutexes
          BY <1>1
        <4> QED
          BY <2>2, <4>1, LevelOrder, Zenon
      <3> QED
        BY <1>1, <2>1, <3>1 DEF Above
    <2>6. Distinct(t)'
      BY <2>1 DEF IInv, Ordered, Distinct
    <2>7. Lowest(Held(t), this_thread[t])'
      <3>1. Lowest(Above(t, m), previous[m])
        BY <1>1 DEF IInv, Ordered, Saved
      <3> QED
        BY <2>1, <2>3, <2>4, <3>1 DEF Lowest
    <2>8. Saved(t)'
      <3> SUFFICES ASSUME NEW n \in Held(t) \ {m} PROVE Lowest(Above(t, n), previous[n])'
        BY <2>1 DEF Saved
      <3>1. Lowest(Above(t, n), previous[n])
        BY DEF IInv, Ordered, Saved
      <3> QED
        BY <2>5, <3>1 DEF Lowest
    <2>9. Checked(t)' /\ Unlocking(t)'
      BY <1>1, <2>1, <2>2, <2>3 DEF Checked, Unlocking
    <2> QED
      BY <2>6, <2>7, <2>8, <2>9 DEF Ordered
  <1> QED
    BY <1>2, <1>3, <1>4 DEF IInv

\* The mutex was no longer held: giving it up changes nothing.
LEMMA ReleaseInv == ASSUME IInv, NEW t \in Threads, Release(t) PROVE IInv'
  <1> USE DEF Release, Goto
  <1>1. owner[target[t]] = t
    BY DEF IInv, TypeOK
  <1>2. TypeOK'
    <2>1. \A u \in Threads \ {t} : pc[u] \in {"update", "release"} => target[u] # target[t]
      BY <1>1 DEF IInv, TypeOK
    <2> QED
      BY <2>1 DEF IInv, TypeOK, PCs
  <1>3. ASSUME NEW u \in Threads \ {t} PROVE Ordered(u)'
    BY <1>1, OthersFrame, NoThreadAssumption DEF IInv, TypeOK
  <1>4. Ordered(t)'
    <2>1. Held(t)' = Held(t)
      BY NoThreadAssumption DEF IInv, TypeOK, Held
    <2>2. \A m \in Held(t) : Above(t, m)' = Above(t, m)
      BY <2>1 DEF Above
    <2>3. Distinct(t)' /\ Lowest(Held(t), this_thread[t])'
      BY <2>1 DEF IInv, Ordered, Distinct, Lowest
    <2>4. Saved(t)'
      BY <2>1, <2>2 DEF IInv, Ordered, Saved, Lowest
    <2>5. Checked(t)' /\ Unlocking(t)'
      BY DEF IInv, TypeOK, Checked, Unlocking
    <2> QED
      BY <2>3, <2>4, <2>5 DEF Ordered
  <1> QED
    BY <1>2, <1>3, <1>4 DEF IInv

LEMMA NextInv == IInv /\ [Next]_vars => IInv'
  <1> SUFFICES ASSUME IInv, [Next]_vars PROVE IInv'
    OBVIOUS
  <1>1. CASE UNCHANGED vars
    <2>1. TypeOK'
      BY <1>1 DEF IInv, TypeOK, vars
    <2>2. ASSUME NEW t \in Threads PROVE Ordered(t)'
      <3>1. Held(t)' = Held(t)
        BY <1>1 DEF Held, vars
      <3> QED
        BY <1>1, <3>1, Frame DEF IInv, vars
    <2> QED
      BY <2>1, <2>2 DEF IInv
  <1>2. CASE Next
    <2>1. PICK t \in Threads :
             \/ \E m \in Mutexes : \E l \in {"check", "try check", "unlock check"} :
                   Call(t, m, l)
             \/ Check(t) \/ Acquire(t) \/ TryFails(t) \/ Update(t)
             \/ Restore(t) \/ UnlockThrows(t) \/ Release(t)
      BY <1>2, Zenon DEF Next
    <2> QED
      BY <2>1, CallInv, CheckInv, AcquireInv, ReturnInv, UpdateInv, RestoreInv, ReleaseInv
  <1> QED
    BY <1>1, <1>2

THEOREM Invariance == Spec => []IInv
  BY InitInv, NextInv, PTL DEF Spec

-----------------------------------------------------------------------------
\* Every value stays in its type, and a thread past internal_mutex.lock() or
\* a try_lock() that succeeded has the mutex until it unlocks it.
THEOREM TypeCorrect == Spec => []TypeOK
  <1>1. IInv => TypeOK
    BY DEF IInv
  <1> QED
    BY <1>1, Invariance, PTL

\* this_thread_hierarchy_value is the lowest level its thread holds.
THEOREM ValueCorrect == Spec => []ValueIsLowestHeld
  <1>1. IInv => ValueIsLowestHeld
    BY DEF IInv, Ordered, ValueIsLowestHeld
  <1> QED
    BY <1>1, Invariance, PTL

\* unlock releases a mutex only when it is below all that stay locked.
THEOREM OrderOfRelease == Spec => []LastInFirstOut
  <1>1. IInv => LastInFirstOut
    BY DEF IInv, Ordered, Unlocking, LastInFirstOut
  <1> QED
    BY <1>1, Invariance, PTL

\* A nonempty set of numbers has a least one.
Less == {p \in Nat \X Nat : p[1] < p[2]}

LEMMA LeastNumber ==
    ASSUME NEW S, S \subseteq Nat, S # {} PROVE \E x \in S : \A y \in S : x <= y
  <1>1. OpToRel(<, Nat) = Less
    BY Zenon DEF OpToRel, Less
  <1>2. \E x \in S : \A y \in S : ~ (<<y, x>> \in OpToRel(<, Nat))
    BY NatLessThanWellFounded, WFMin
  <1>3. PICK x \in S : \A y \in S : ~ (<<y, x>> \in Less)
    BY <1>1, <1>2, Zenon
  <1>4. ASSUME NEW y \in S PROVE x <= y
    <2>1. x \in Nat /\ y \in Nat
      OBVIOUS
    <2>2. ~ (<<y, x>> \in Less)
      BY <1>3, Zenon
    <2>3. ~ (y < x)
      BY <2>1, <2>2, Zenon DEF Less
    <2> QED
      BY <2>1, <2>3
  <1> QED
    BY <1>4

\* The thread of a wait cycle that waits for the lowest mutex waits for a thread
\* that waits for a lower one still: there is no wait cycle.
THEOREM DeadlockFree == Spec => []NoWaitCycle
  <1>1. IInv => NoWaitCycle
    <2> SUFFICES ASSUME IInv, NEW S \in SUBSET Threads, S # {}, WaitCycle(S)
                 PROVE  FALSE
      BY DEF NoWaitCycle
    <2> DEFINE Wanted == {Level[target[t]] : t \in S}
    <2>1. Wanted \subseteq Nat /\ Wanted # {}
      BY LevelAssumption DEF IInv, TypeOK
    <2>2. PICK t \in S : \A u \in S : Level[target[t]] <= Level[target[u]]
      <3>1. PICK x \in Wanted : \A y \in Wanted : x <= y
        BY <2>1, LeastNumber
      <3> QED
        BY <3>1
    <2> DEFINE u == owner[target[t]]
    <2>3. u \in S /\ pc[u] = "acquire" /\ target[t] \in Held(u)
      BY DEF WaitCycle, Held, IInv, TypeOK
    <2>4. Level[target[u]] < this_thread[u] /\ this_thread[u] <= Level[target[t]]
      BY <2>3 DEF IInv, Ordered, Checked, Lowest
    <2>5. Level[target[u]] \in Nat /\ this_thread[u] \in Nat /\ Level[target[t]] \in Nat
      BY <2>3, LevelAssumption, TopAssumption DEF IInv, TypeOK
    <2> QED
      BY <2>2, <2>3, <2>4, <2>5
  <1> QED
    BY <1>1, Invariance, PTL
=============================================================================
