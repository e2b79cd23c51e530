-------------------------- MODULE StructuresProofs --------------------------
(***************************************************************************)
(* The classes that own threads, the containers under one mutex, the       *)
(* lock-free stack and the queue with fine-grained locks, for any number   *)
(* of objects, threads, nodes, values and calls: what MC_Structures checks *)
(* on a few of each.                                                       *)
(*                                                                         *)
(* The stack and the queue are lists of nodes.  Both proofs give each node *)
(* of a list its rank, counted from the list's end: a step then moves a    *)
(* few nodes and ranks, where ListFrom's recursion would change entirely.  *)
(* Only the lemmas on walks, in the middle of the module, relate ranks to  *)
(* ListFrom; the two refinements rest on them.                             *)
(***************************************************************************)
EXTENDS MC_Structures, NaturalLemmas

-----------------------------------------------------------------------------
(* ThreadOwners: what an object owns.                                    *)

OwnersTypeOK ==
    /\ oClass \in [Objects -> Owners!Classes \cup {"absent"}]
    /\ t \in [Objects -> Threads \cup {NoThread}]
    /\ state \in [Threads -> {"unborn", "running", "finished"}]
    /\ released \in SUBSET Threads /\ detached \in SUBSET Threads

\* A thread has one owner from its start to its join or detach.
OneOwner ==
    /\ \A o, p \in Objects : t[o] = t[p] /\ t[o] # NoThread => o = p
    /\ \A o \in Objects : t[o] # NoThread => state[t[o]] # "unborn" /\ t[o] \notin released
    /\ \A h \in Threads :
           state[h] # "unborn" /\ h \notin released => \E o \in Objects : t[o] = h

\* What the ends of the objects rely on: the classes that join without a look always
\* have a thread, and where there is no object, none is lost.  Only list 2.8, which
\* does not look either when an exception leaves it, ends the program.
ClassesInv ==
    /\ died => unwinding /\ \E o \in Objects : oClass[o] = "list_2_8"
    /\ \A o \in Objects : oClass[o] = "absent" => t[o] = NoThread
    /\ \A o \in Objects : oClass[o] \in {"scope_thread", "list_2_2", "list_2_8"} => t[o] # NoThread

ReleasedInv ==
    /\ \A h \in released : state[h] # "unborn"
    /\ \A h \in released \ detached : state[h] = "finished"

OwnersInv == OwnersTypeOK /\ OneOwner /\ ClassesInv /\ ReleasedInv

\* The initial states.
LEMMA OwnersInitInv == Owners!Init => OwnersInv
  BY DEF Owners!Init, OwnersInv, OwnersTypeOK, OneOwner, ClassesInv, ReleasedInv

\* A thread starts, and the object that was absent owns it.
LEMMA ConstructInv ==
    ASSUME OwnersInv, NEW o \in Objects, NEW c \in Owners!Classes, NEW h \in Threads,
           Owners!Construct(o, c, h)
    PROVE  OwnersInv'
  <1> USE DEF OwnersInv, Owners!Construct, Owners!Ready, Owners!Is
  <1>1. OwnersTypeOK'
    BY DEF OwnersTypeOK
  <1>2. OneOwner'
    BY NoThreadAssumption DEF OwnersTypeOK, OneOwner, ClassesInv, ReleasedInv
  <1>3. ClassesInv'
    BY NoThreadAssumption DEF OwnersTypeOK, ClassesInv, Owners!Classes
  <1>4. ReleasedInv'
    BY DEF OwnersTypeOK, ReleasedInv
  <1> QED
    BY <1>1, <1>2, <1>3, <1>4

\* A thread ends; its owner, if it has one, does not change.
LEMMA FinishInv ==
    ASSUME OwnersInv, NEW h \in Threads, Owners!Finish(h)
    PROVE  OwnersInv'
  BY DEF OwnersInv, Owners!Finish, OwnersTypeOK, OneOwner, ClassesInv, ReleasedInv

\* Nothing about the threads changes when an exception is thrown, or an object is empty.
LEMMA OwnersThrowInv ==
    ASSUME OwnersInv,
           \/ Owners!Throw \/ Owners!List2_8Dies
           \/ \E o \in Objects, c \in Owners!Classes : Owners!ConstructEmpty(o, c)
           \/ \E o \in Objects : Owners!JoinThrows(o)
    PROVE  OwnersInv'
  <1>1. CASE Owners!Throw
    BY <1>1 DEF OwnersInv, Owners!Throw, Owners!Ready, OwnersTypeOK, OneOwner, ClassesInv,
                ReleasedInv
  <1>2. ASSUME NEW o \in Objects, NEW c \in Owners!Classes, Owners!ConstructEmpty(o, c)
        PROVE  OwnersInv'
    BY <1>2 DEF OwnersInv, Owners!ConstructEmpty, Owners!Checked, Owners!Ready, Owners!Classes,
                OwnersTypeOK, OneOwner, ClassesInv, ReleasedInv, Owners!Is
  <1>3. ASSUME NEW o \in Objects, Owners!JoinThrows(o)
        PROVE  OwnersInv'
    BY <1>3 DEF OwnersInv, Owners!JoinThrows, Owners!Ready, OwnersTypeOK, OneOwner, ClassesInv,
                ReleasedInv
  <1>4. CASE Owners!List2_8Dies
    BY <1>4 DEF OwnersInv, Owners!List2_8Dies, Owners!InVector, Owners!Is, OwnersTypeOK,
                OneOwner, ClassesInv, ReleasedInv
  <1> QED
    BY <1>1, <1>2, <1>3, <1>4

\* Ownership moves from p to o, which owns nothing any more, or nothing yet.
LEMMA Moved ==
    ASSUME OwnersTypeOK, OneOwner, NEW o \in Objects, NEW p \in Objects, o # p,
           t' = [t EXCEPT ![o] = t[p], ![p] = NoThread],
           state' = state,
           released' = IF t[o] # NoThread THEN released \cup {t[o]} ELSE released
    PROVE  OneOwner' /\ t' \in [Objects -> Threads \cup {NoThread}]
  <1>1. /\ t'[o] = t[p] /\ t'[p] = NoThread
        /\ \A q \in Objects \ {o, p} : t'[q] = t[q]
        /\ t' \in [Objects -> Threads \cup {NoThread}]
    BY DEF OwnersTypeOK
  <1>2. \A q, r \in Objects : t'[q] = t'[r] /\ t'[q] # NoThread => q = r
    BY <1>1 DEF OneOwner
  <1>3. \A q \in Objects : t'[q] # NoThread
                              => state[t'[q]] # "unborn" /\ t'[q] \notin released'
    BY <1>1 DEF OneOwner
  <1>4. \A h \in Threads :
            state[h] # "unborn" /\ h \notin released' => \E q \in Objects : t'[q] = h
    BY <1>1, NoThreadAssumption DEF OneOwner
  <1> QED
    BY <1>1, <1>2, <1>3, <1>4 DEF OneOwner

\* The thread that o owns, if any, is let go.
LEMMA LetGone ==
    ASSUME OwnersTypeOK, OneOwner, NEW o \in Objects,
           t' = [t EXCEPT ![o] = NoThread],
           state' = state,
           released' = IF t[o] # NoThread THEN released \cup {t[o]} ELSE released
    PROVE  OneOwner' /\ t' \in [Objects -> Threads \cup {NoThread}]
  <1>1. /\ t'[o] = NoThread
        /\ \A q \in Objects \ {o} : t'[q] = t[q]
        /\ t' \in [Objects -> Threads \cup {NoThread}]
    BY DEF OwnersTypeOK
  <1>2. \A q, r \in Objects : t'[q] = t'[r] /\ t'[q] # NoThread => q = r
    BY <1>1 DEF OneOwner
  <1>3. \A q \in Objects : t'[q] # NoThread
                              => state[t'[q]] # "unborn" /\ t'[q] \notin released'
    BY <1>1 DEF OneOwner
  <1>4. \A h \in Threads :
            state[h] # "unborn" /\ h \notin released' => \E q \in Objects : t'[q] = h
    BY <1>1, NoThreadAssumption DEF OneOwner
  <1> QED
    BY <1>1, <1>2, <1>3, <1>4 DEF OneOwner

\* A new object takes over the thread of another.
LEMMA MoveConstructInv ==
    ASSUME OwnersInv, NEW o \in Objects, NEW p \in Objects, Owners!MoveConstruct(o, p)
    PROVE  OwnersInv'
  <1> USE DEF OwnersInv, Owners!MoveConstruct, Owners!Is
  <1>1. o # p /\ t[o] = NoThread
    BY DEF ClassesInv
  <1>2. OneOwner' /\ t' \in [Objects -> Threads \cup {NoThread}]
    BY <1>1, Moved
  <1>3. OwnersTypeOK' /\ ReleasedInv'
    BY <1>2 DEF OwnersTypeOK, ReleasedInv, Owners!Classes
  <1>4. ClassesInv'
    BY <1>1 DEF ClassesInv, OwnersTypeOK
  <1> QED
    BY <1>2, <1>3, <1>4

\* An assignment joins the thread it overwrites.
LEMMA AssignInv ==
    ASSUME OwnersInv, NEW o \in Objects, NEW p \in Objects, Owners!Assign(o, p)
    PROVE  OwnersInv'
  <1> USE DEF OwnersInv, Owners!Assign, Owners!Both, Owners!Is, Owners!LetGo,
              Owners!Joined, Owners!Joinable, Owners!Joins
  <1>1. OneOwner' /\ t' \in [Objects -> Threads \cup {NoThread}]
    BY Moved
  <1>2. OwnersTypeOK' /\ ReleasedInv'
    BY <1>1 DEF OwnersTypeOK, ReleasedInv
  <1>3. ClassesInv'
    BY DEF ClassesInv, OwnersTypeOK
  <1> QED
    BY <1>1, <1>2, <1>3

\* Two objects exchange their threads.
LEMMA SwapInv ==
    ASSUME OwnersInv, NEW o \in Objects, NEW p \in Objects, Owners!swap(o, p)
    PROVE  OwnersInv'
  <1> USE DEF OwnersInv, Owners!swap, Owners!Both, Owners!Is
  <1>1. /\ t'[o] = t[p] /\ t'[p] = t[o] /\ o # p
        /\ \A q \in Objects \ {o, p} : t'[q] = t[q]
        /\ t' \in [Objects -> Threads \cup {NoThread}]
    BY DEF OwnersTypeOK
  <1>2. OneOwner'
    BY <1>1, NoThreadAssumption DEF OneOwner
  <1>3. OwnersTypeOK' /\ ReleasedInv'
    BY <1>1 DEF OwnersTypeOK, ReleasedInv
  <1>4. ClassesInv'
    BY <1>1 DEF ClassesInv
  <1> QED
    BY <1>2, <1>3, <1>4

\* A thread is joined or detached by hand.
LEMMA JoinDetachInv ==
    ASSUME OwnersInv, NEW o \in Objects, Owners!join(o) \/ Owners!detach(o)
    PROVE  OwnersInv'
  <1> USE DEF OwnersInv, Owners!join, Owners!detach, Owners!Is, Owners!Joined,
              Owners!Joinable, Owners!Joins
  <1>1. t[o] \in Threads
    BY DEF OwnersTypeOK
  <1>2. OneOwner' /\ t' \in [Objects -> Threads \cup {NoThread}]
    BY LetGone
  <1>3. OwnersTypeOK'
    BY <1>1, <1>2 DEF OwnersTypeOK
  <1>4. ReleasedInv'
    BY <1>1 DEF OwnersTypeOK, ReleasedInv, OneOwner
  <1>5. ClassesInv'
    BY DEF ClassesInv, OwnersTypeOK
  <1> QED
    BY <1>2, <1>3, <1>4, <1>5

\* Every destructor joins the thread that its object owns.
LEMMA DestroyInv ==
    ASSUME OwnersInv, NEW o \in Objects, Owners!Destroy(o)
    PROVE  OwnersInv'
  <1> USE DEF OwnersInv
  <1>1. /\ oClass' = [oClass EXCEPT ![o] = "absent"]
        /\ t' = [t EXCEPT ![o] = NoThread]
        /\ ~died /\ UNCHANGED <<state, detached, unwinding, died>>
        /\ t[o] # NoThread => state[t[o]] = "finished"
        /\ released' = IF t[o] # NoThread THEN released \cup {t[o]} ELSE released
    BY DEF Owners!Destroy, Owners!DestroyJoiningThread, Owners!DestroyGuard,
           Owners!DestroyScopeThread, Owners!DestroyJoinThreads, Owners!EndOfList2_2,
           Owners!Gone, Owners!LetGo, Owners!Joined, Owners!Joinable, Owners!Joins,
           Owners!Is, ClassesInv
  <1>2. OneOwner' /\ t' \in [Objects -> Threads \cup {NoThread}]
    BY <1>1, LetGone
  <1>3. OwnersTypeOK'
    BY <1>1, <1>2 DEF OwnersTypeOK
  <1>4. ReleasedInv'
    BY <1>1 DEF OwnersTypeOK, ReleasedInv
  <1>5. ClassesInv'
    BY <1>1 DEF ClassesInv, OwnersTypeOK
  <1> QED
    BY <1>2, <1>3, <1>4, <1>5

\* List 2.8's loop joins the threads of the whole vector.
LEMMA EndOfList2_8Inv == ASSUME OwnersInv, Owners!EndOfList2_8 PROVE OwnersInv'
  <1> USE DEF OwnersInv, Owners!EndOfList2_8, Owners!InVector, Owners!Is, Owners!Joins,
              Owners!Ready
  <1>1. /\ \A o \in Objects : /\ oClass[o] = "list_2_8" => t'[o] = NoThread
                              /\ oClass[o] # "list_2_8" => t'[o] = t[o]
        /\ \A o \in Objects : oClass'[o] = IF oClass[o] = "list_2_8" THEN "absent" ELSE oClass[o]
        /\ t' \in [Objects -> Threads \cup {NoThread}]
    BY DEF OwnersTypeOK
  <1>2. /\ \A o \in Objects : oClass[o] = "list_2_8" => t[o] \in released'
        /\ \A h \in released' : h \in released
              \/ \E o \in Objects : oClass[o] = "list_2_8" /\ t[o] = h /\ h # NoThread
        /\ released \subseteq released'
    BY DEF ClassesInv
  <1>3. OwnersTypeOK'
    BY <1>1, <1>2 DEF OwnersTypeOK, Owners!Classes
  <1>4. \A q, r \in Objects : t'[q] = t'[r] /\ t'[q] # NoThread => q = r
    BY <1>1 DEF OneOwner
  <1>5. \A q \in Objects : t'[q] # NoThread => state[t'[q]] # "unborn" /\ t'[q] \notin released'
    BY <1>1, <1>2 DEF OneOwner
  <1>6. \A h \in Threads :
            state[h] # "unborn" /\ h \notin released' => \E q \in Objects : t'[q] = h
    BY <1>1, <1>2 DEF OneOwner
  <1>7. OneOwner'
    BY <1>4, <1>5, <1>6 DEF OneOwner
  <1>8. ClassesInv'
    BY <1>1 DEF ClassesInv
  <1>9. ReleasedInv'
    BY <1>2 DEF ReleasedInv
  <1> QED
    BY <1>3, <1>7, <1>8, <1>9

\* A step of the owners keeps their invariant.
LEMMA OwnersNextInv == OwnersInv /\ Owners!Next => OwnersInv'
  BY FinishInv, ConstructInv, OwnersThrowInv, JoinDetachInv, DestroyInv, EndOfList2_8Inv,
     MoveConstructInv, AssignInv, SwapInv DEF Owners!Next

\* The instance counts as FiniteSets does.
LEMMA OwnersCardinality == ASSUME NEW S PROVE Owners!Cardinality(S) = Cardinality(S)
  BY DEF Owners!Cardinality, Cardinality

\* Every thread has exactly one owner from its start to its join or detach, whatever is
\* moved and thrown, and std::terminate is called only by list 2.8's f, when the start of
\* a thread throws after others were started (the owners of chapter 2, join_threads).
THEOREM ThreadsHaveOneOwner == SpecParts => []ThreadsAreOwned
  <1> DEFINE Inv == part = "owners" => OwnersInv
  <1>1. InitParts => Inv
    BY OwnersInitInv DEF InitParts
  <1>2. Inv /\ [MutexStep \/ StackStep \/ QueueStep \/ OwnersStep \/ LockedStep]_partVars
          => Inv'
    <2> SUFFICES ASSUME Inv, part' = "owners",
                        [MutexStep \/ StackStep \/ QueueStep \/ OwnersStep \/ LockedStep]_partVars
                 PROVE  OwnersInv'
      OBVIOUS
    <2>1. CASE OwnersStep
      BY <2>1, OwnersNextInv DEF OwnersStep
    <2>2. CASE part' = part /\ UNCHANGED ownersVars
      BY <2>2 DEF ownersVars, OwnersInv, OwnersTypeOK, OneOwner, ClassesInv, ReleasedInv
    <2> QED
      BY <2>1, <2>2 DEF MutexStep, StackStep, QueueStep, LockedStep, partVars
  <1>3. Inv => ThreadsAreOwned
    <2> SUFFICES ASSUME OwnersInv PROVE Owners!ThreadsAreOwned
      BY DEF ThreadsAreOwned
    <2> USE DEF OwnersInv
    <2>1. ASSUME NEW h \in Threads
          PROVE  Cardinality({o \in Objects : t[o] = h}) =
                     IF state[h] # "unborn" /\ h \notin released THEN 1 ELSE 0
      <3>1. CASE state[h] # "unborn" /\ h \notin released
        <4>1. PICK o \in Objects : t[o] = h
          BY <3>1 DEF OneOwner
        <4>2. {q \in Objects : t[q] = h} = {o}
          BY <4>1, NoThreadAssumption DEF OneOwner
        <4> QED
          BY <3>1, <4>2, FS_Singleton
      <3>2. CASE ~(state[h] # "unborn" /\ h \notin released)
        <4>1. {q \in Objects : t[q] = h} = {}
          BY <3>2, NoThreadAssumption DEF OneOwner
        <4> QED
          BY <3>2, <4>1, FS_EmptySet
      <3> QED
        BY <3>1, <3>2
    <2>2. /\ died => /\ unwinding
                   /\ \E o \in Objects : Owners!Is(o, "list_2_8") /\ Owners!Joinable(o)
          /\ \A h \in released \ detached : state[h] = "finished"
      BY DEF ClassesInv, ReleasedInv, Owners!Is, Owners!Joinable
    <2> QED
      BY <2>1, <2>2, OwnersCardinality, Zenon DEF Owners!ThreadsAreOwned
  <1> QED
    BY <1>1, <1>2, <1>3, PTL DEF SpecParts

-----------------------------------------------------------------------------
(* LockedStacks: the values, and the copies of list 6.1's stack.         *)

LockedTypeOK ==
    /\ class \in {"list_3_5", "list_6_1", "list_9_7"}
    /\ data \in Seq(Nat) /\ popped \in Seq(Nat) /\ pushes \in Nat
    /\ lPc \in [Threads -> {"idle", "lock", "inside", "copying", "copied"}]
    /\ copy \in [Threads -> Seq(Nat)]
    /\ versions \in [Threads -> SUBSET Seq(Nat)]

Vals(s) == {s[i] : i \in DOMAIN s}
Increasing(s) == \A i, j \in DOMAIN s : i < j => s[i] < s[j]

\* Values are numbered in the order they are pushed.
ValuesInv ==
    /\ Vals(data) \cup Vals(popped) = 1 .. pushes
    /\ Len(data) + Len(popped) = pushes
    /\ Increasing(data)

\* Whoever copies list 6.1's stack holds its mutex, and has copied the elements up
\* to some place of a sequence that stays as it is.
CopyInv ==
    class = "list_6_1" =>
      \A u \in Threads :
        /\ lPc[u] \in {"inside", "copying"} => the_mtx = u
        /\ lPc[u] = "copying" =>
             /\ Len(copy[u]) <= Len(data)
             /\ \A k \in 1 .. Len(copy[u]) : copy[u][k] = data[k]
             /\ data \in versions[u]
        /\ lPc[u] = "copied" => copy[u] \in versions[u]

LockedInv == LockedTypeOK /\ ValuesInv /\ CopyInv

\* One more value at the end.
LEMMA Appended ==
    ASSUME NEW s \in Seq(Nat), NEW n \in Nat
    PROVE  /\ Append(s, n) \in Seq(Nat) /\ Len(Append(s, n)) = Len(s) + 1
           /\ Vals(Append(s, n)) = Vals(s) \cup {n}
           /\ Increasing(s) /\ (\A m \in Vals(s) : m < n) => Increasing(Append(s, n))
  <1> DEFINE r == Append(s, n)
  <1>1. /\ r \in Seq(Nat) /\ Len(r) = Len(s) + 1 /\ r[Len(s) + 1] = n
        /\ \A i \in 1 .. Len(s) : r[i] = s[i]
        /\ DOMAIN s = 1 .. Len(s) /\ DOMAIN r = 1 .. Len(s) + 1 /\ Len(s) \in Nat
    OBVIOUS
  <1> HIDE DEF r
  <1>2. Vals(r) = Vals(s) \cup {n}
    <2>1. ASSUME NEW i \in DOMAIN r
          PROVE  r[i] \in Vals(s) \cup {n}
      BY <1>1 DEF Vals
    <2>2. ASSUME NEW i \in DOMAIN s
          PROVE  s[i] \in Vals(r)
      <3>1. i \in DOMAIN r /\ r[i] = s[i]
        BY <1>1
      <3> QED
        BY <3>1 DEF Vals
    <2>3. n \in Vals(r)
      <3>1. Len(s) + 1 \in DOMAIN r
        BY <1>1
      <3> QED
        BY <1>1, <3>1 DEF Vals
    <2> QED
      BY <2>1, <2>2, <2>3 DEF Vals
  <1>3. ASSUME Increasing(s), \A m \in Vals(s) : m < n
        PROVE  Increasing(r)
    <2> SUFFICES ASSUME NEW i \in DOMAIN r, NEW j \in DOMAIN r, i < j PROVE r[i] < r[j]
      BY DEF Increasing
    <2>1. i \in DOMAIN s /\ r[i] = s[i] /\ s[i] \in Vals(s)
      BY <1>1 DEF Vals
    <2>2. CASE j \in DOMAIN s
      BY <1>1, <1>3, <2>1, <2>2 DEF Increasing
    <2>3. CASE j \notin DOMAIN s
      BY <1>1, <1>3, <2>1, <2>3
    <2> QED
      BY <2>2, <2>3
  <1> QED
    BY <1>1, <1>2, <1>3 DEF r

\* Positions that move by d stay in a sequence one longer, in their order.
LEMMA Shift ==
    ASSUME NEW m \in Nat, NEW d \in {0, 1}, NEW i \in 1 .. m - 1, NEW j \in 1 .. m - 1, i < j
    PROVE  i + d \in 1 .. m /\ j + d \in 1 .. m /\ i + d < j + d
  OBVIOUS

\* What is left of a sequence without its last element.
LEMMA WithoutLast ==
    ASSUME NEW s \in Seq(Nat), s # <<>>
    PROVE  /\ SubSeq(s, 1, Len(s) - 1) \in Seq(Nat)
           /\ Len(SubSeq(s, 1, Len(s) - 1)) = Len(s) - 1
           /\ \A i \in 1 .. Len(s) - 1 : SubSeq(s, 1, Len(s) - 1)[i] = s[i]
  <1>1. Len(s) - 1 \in Nat /\ Len(s) - 1 <= Len(s)
    OBVIOUS
  <1>2. SubSeq(s, 1, Len(s) - 1) \in Seq(Nat)
    BY <1>1
  <1>3. ASSUME NEW m \in Nat, m = Len(s) - 1
        PROVE  Len(SubSeq(s, 1, m)) = m
    BY <1>3
  <1>4. ASSUME NEW m \in Nat, m <= Len(s)
        PROVE  \A i \in 1 .. m : SubSeq(s, 1, m)[i] = s[i]
    BY <1>4
  <1> QED
    BY <1>1, <1>2, <1>3, <1>4

\* r is s without its last element (d = 0) or without its first one (d = 1).
WithoutOne(s, r, d) == Len(r) = Len(s) - 1 /\ \A i \in 1 .. Len(r) : r[i] = s[i + d]

\* One value less, at either end: r is what is left of s without its k-th value.
LEMMA Shortened ==
    ASSUME NEW s \in Seq(Nat), NEW r \in Seq(Nat), NEW d \in {0, 1}, s # <<>>,
           WithoutOne(s, r, d)
    PROVE  /\ Vals(s) = Vals(r) \cup {IF d = 0 THEN s[Len(s)] ELSE s[1]}
           /\ Increasing(s) => Increasing(r)
  <1> USE DEF WithoutOne
  <1> DEFINE n == IF d = 0 THEN s[Len(s)] ELSE s[1]
  <1>1. /\ DOMAIN s = 1 .. Len(s) /\ DOMAIN r = 1 .. Len(s) - 1
        /\ Len(s) \in Nat /\ Len(s) > 0 /\ n \in Nat /\ n \in Vals(s)
    BY DEF Vals
  <1>2. ASSUME NEW i \in DOMAIN r
        PROVE  r[i] \in Vals(s)
    <2>1. i + d \in DOMAIN s /\ r[i] = s[i + d]
      BY <1>1
    <2> QED
      BY <2>1 DEF Vals
  <1>3. ASSUME NEW i \in DOMAIN s
        PROVE  s[i] \in Vals(r) \cup {n}
    <2>1. CASE s[i] = n
      BY <2>1
    <2>2. CASE s[i] # n
      <3>1. i - d \in DOMAIN r /\ (i - d) + d = i
        BY <1>1, <2>2
      <3>2. r[i - d] = s[i]
        BY <1>1, <3>1
      <3> QED
        BY <3>1, <3>2 DEF Vals
    <2> QED
      BY <2>1, <2>2
  <1>4. Vals(s) = Vals(r) \cup {n}
    <2> HIDE DEF n
    <2> QED
      BY <1>1, <1>2, <1>3 DEF Vals
  <1>5. ASSUME Increasing(s)
        PROVE  Increasing(r)
    <2> SUFFICES ASSUME NEW i \in DOMAIN r, NEW j \in DOMAIN r, i < j PROVE r[i] < r[j]
      BY DEF Increasing
    <2>1. i + d \in DOMAIN s /\ j + d \in DOMAIN s /\ i + d < j + d
      <3>1. i \in 1 .. Len(s) - 1 /\ j \in 1 .. Len(s) - 1
        BY <1>1
      <3> QED
        BY <1>1, <3>1, Shift
    <2>2. r[i] = s[i + d] /\ r[j] = s[j + d]
      BY <1>1
    <2> QED
      BY <1>5, <2>1, <2>2 DEF Increasing
  <1> QED
    BY <1>1, <1>4, <1>5

\* The initial states.
LEMMA LockedInitInv == Locked!Init => LockedInv
  <1> SUFFICES ASSUME Locked!Init PROVE LockedInv
    OBVIOUS
  <1> USE DEF Locked!Init
  <1>1. LockedTypeOK
    BY DEF LockedTypeOK, Locked!Calls
  <1>2. ValuesInv
    BY DEF ValuesInv, Vals, Increasing
  <1>3. CopyInv
    BY DEF CopyInv
  <1> QED
    BY <1>1, <1>2, <1>3 DEF LockedInv

\* A call is made.
LEMMA CallInv ==
    ASSUME LockedInv, NEW u \in Threads, NEW f, Locked!Call(u, f)
    PROVE  LockedInv'
  <1> USE DEF LockedInv, Locked!Call, Locked!At, Locked!Go
  <1>1. LockedTypeOK'
    BY DEF LockedTypeOK
  <1>2. ValuesInv'
    BY DEF ValuesInv
  <1>3. CopyInv'
    BY DEF CopyInv, LockedTypeOK
  <1> QED
    BY <1>1, <1>2, <1>3

\* A copy is destroyed.
LEMMA DestroyCopyInv ==
    ASSUME LockedInv, NEW u \in Threads, Locked!DestroyCopy(u)
    PROVE  LockedInv'
  <1> USE DEF LockedInv, Locked!DestroyCopy, Locked!At, Locked!Go
  <1>1. LockedTypeOK'
    BY DEF LockedTypeOK
  <1>2. ValuesInv'
    BY DEF ValuesInv
  <1>3. CopyInv'
    BY DEF CopyInv, LockedTypeOK
  <1> QED
    BY <1>1, <1>2, <1>3

\* The lock: a copy begins with a sequence that it has not begun to read.
LEMMA LockInv ==
    ASSUME LockedInv, NEW u \in Threads, Locked!Lock(u)
    PROVE  LockedInv'
  <1> USE DEF LockedInv, Locked!Lock, Locked!At, Locked!Go, Locked!TheSourcesMutex
  <1>1. LockedTypeOK'
    BY DEF LockedTypeOK
  <1>2. ValuesInv'
    BY DEF ValuesInv
  <1>3. CopyInv'
    BY NoThreadAssumption DEF CopyInv, LockedTypeOK
  <1> QED
    BY <1>1, <1>2, <1>3

\* A call is over that was alone with the values.
LEMMA LeaveInv ==
    ASSUME LockedInv, NEW u \in Threads, lPc[u] = "inside", data' \in Seq(Nat),
           popped' \in Seq(Nat), pushes' \in Nat, Locked!Leave(u)
    PROVE  LockedTypeOK' /\ CopyInv'
  <1> USE DEF LockedInv, Locked!Leave, Locked!At, Locked!Go
  <1>1. LockedTypeOK'
    <2>1. versions' \in [Threads -> SUBSET Seq(Nat)]
      BY DEF LockedTypeOK
    <2> QED
      BY <2>1 DEF LockedTypeOK
  <1>2. CopyInv'
    BY DEF CopyInv, LockedTypeOK
  <1> QED
    BY <1>1, <1>2

\* A value is pushed: it is larger than all those before it.
LEMMA PushInv ==
    ASSUME LockedInv, NEW u \in Threads, Locked!Push(u)
    PROVE  LockedInv'
  <1> USE DEF LockedInv
  <1>1. /\ lPc[u] = "inside" /\ Locked!Leave(u)
        /\ pushes' = pushes + 1 /\ data' = Append(data, pushes + 1) /\ popped' = popped
    BY DEF Locked!Push, Locked!Inside, Locked!At
  <1>2. data \in Seq(Nat) /\ popped \in Seq(Nat) /\ pushes \in Nat
    BY DEF LockedTypeOK
  <1>3. data' \in Seq(Nat) /\ pushes' \in Nat
    BY <1>1, <1>2
  <1>4. LockedTypeOK' /\ CopyInv'
    BY <1>1, <1>2, <1>3, LeaveInv
  <1>5. ValuesInv'
    <2>1. \A m \in Vals(data) : m < pushes + 1
      BY <1>2 DEF ValuesInv
    <2>2. /\ Vals(data') = Vals(data) \cup {pushes + 1}
          /\ Len(data') = Len(data) + 1 /\ Increasing(data')
      BY <1>1, <1>2, <2>1, Appended DEF ValuesInv
    <2>3. Vals(data') \cup Vals(popped) = 1 .. pushes'
      <3>1. Vals(data) \cup Vals(popped) = 1 .. pushes
        BY DEF ValuesInv
      <3>2. 1 .. pushes + 1 = (1 .. pushes) \cup {pushes + 1}
        BY <1>2
      <3> QED
        BY <1>1, <2>2, <3>1, <3>2
    <2>4. Len(data') + Len(popped) = pushes'
      BY <1>1, <1>2, <2>2 DEF ValuesInv
    <2> QED
      BY <1>1, <2>2, <2>3, <2>4 DEF ValuesInv
  <1> QED
    BY <1>4, <1>5

\* The value at one end of the sequence is returned.
LEMMA TakeInv ==
    ASSUME LockedInv, NEW u \in Threads, NEW d \in {0, 1}, Locked!Leave(u),
           lPc[u] = "inside", pushes' = pushes, data # <<>>,
           data' = IF d = 0 THEN SubSeq(data, 1, Len(data) - 1) ELSE Tail(data),
           popped' = Append(popped, IF d = 0 THEN data[Len(data)] ELSE data[1])
    PROVE  LockedInv'
  <1> USE DEF LockedInv
  <1> DEFINE n == IF d = 0 THEN data[Len(data)] ELSE data[1]
  <1>1. data \in Seq(Nat) /\ popped \in Seq(Nat) /\ pushes \in Nat
    BY DEF LockedTypeOK
  <1>2. Len(data) \in Nat /\ Len(data) > 0 /\ n \in Nat /\ Len(popped) \in Nat
    BY <1>1
  <1>3. /\ data' \in Seq(Nat) /\ Len(data') = Len(data) - 1
        /\ \A i \in 1 .. Len(data') : data'[i] = data[i + d]
    <2>1. CASE d = 0
      <3>1. data' = SubSeq(data, 1, Len(data) - 1)
        BY <2>1
      <3>2. data' \in Seq(Nat) /\ Len(data') = Len(data) - 1
        BY <1>1, <3>1, WithoutLast
      <3>3. \A i \in 1 .. Len(data') : data'[i] = data[i] /\ i + d = i
        BY <1>1, <2>1, <3>1, <3>2, WithoutLast
      <3> QED
        BY <3>2, <3>3
    <2>2. CASE d = 1
      <3>1. data' = Tail(data)
        BY <2>2
      <3> QED
        BY <1>1, <1>2, <2>2, <3>1
    <2> QED
      BY <2>1, <2>2
  <1>4. Vals(data) = Vals(data') \cup {n} /\ Increasing(data')
    <2>1. Increasing(data)
      BY DEF ValuesInv
    <2>2. WithoutOne(data, data', d) /\ data' \in Seq(Nat) /\ data # <<>>
      BY <1>3 DEF WithoutOne
    <2>3. /\ Vals(data) = Vals(data') \cup {IF d = 0 THEN data[Len(data)] ELSE data[1]}
          /\ Increasing(data) => Increasing(data')
      BY ONLY <1>1, <2>2, d \in {0, 1}, Shortened
    <2> QED
      BY <2>1, <2>3
  <1>5. /\ popped' \in Seq(Nat) /\ Len(popped') = Len(popped) + 1
        /\ Vals(popped') = Vals(popped) \cup {n}
    <2> HIDE DEF n
    <2>1. popped' = Append(popped, n)
      BY DEF n
    <2> QED
      BY <1>1, <1>2, <2>1, Appended
  <1>6. ValuesInv'
    <2> HIDE DEF n
    <2>1. Vals(data') \cup Vals(popped') = 1 .. pushes'
      BY <1>4, <1>5 DEF ValuesInv
    <2>2. Len(data') + Len(popped') = pushes'
      <3>1. Len(data) + Len(popped) = pushes
        BY DEF ValuesInv
      <3>2. Len(data') = Len(data) - 1 /\ Len(popped') = Len(popped) + 1 /\ pushes' = pushes
        BY <1>3, <1>5
      <3>3. Len(data) \in Nat /\ Len(popped) \in Nat /\ pushes \in Nat
        BY <1>1, <1>2
      <3>4. \A x, y, z \in Nat : x + y = z => (x - 1) + (y + 1) = z
        OBVIOUS
      <3> HIDE DEF ValuesInv
      <3> QED
        BY ONLY <3>1, <3>2, <3>3, <3>4
    <2> QED
      BY <1>4, <2>1, <2>2 DEF ValuesInv
  <1>7. LockedTypeOK' /\ CopyInv'
    BY <1>1, <1>3, <1>5, LeaveInv
  <1> QED
    BY <1>6, <1>7

\* It is the last one that pop returns, and the first one that a thief does.
LEMMA PopInv ==
    ASSUME LockedInv, NEW u \in Threads, Locked!Pop(u) \/ Locked!try_steal(u)
    PROVE  LockedInv'
  <1>1. CASE Locked!Pop(u)
    <2>1. /\ lPc[u] = "inside" /\ Locked!Leave(u) /\ pushes' = pushes /\ data # <<>>
          /\ popped' = Append(popped, data[Len(data)])
          /\ data' = SubSeq(data, 1, Len(data) - 1)
      BY <1>1 DEF Locked!Pop, Locked!Inside, Locked!At, Locked!PopTop, Locked!Last,
                  Locked!Front
    <2> QED
      BY <2>1, TakeInv
  <1>2. CASE Locked!try_steal(u)
    <2>1. /\ lPc[u] = "inside" /\ Locked!Leave(u) /\ pushes' = pushes /\ data # <<>>
          /\ popped' = Append(popped, Head(data)) /\ data' = Tail(data)
      BY <1>2 DEF Locked!try_steal, Locked!Inside, Locked!At
    <2>2. Head(data) = data[1]
      BY <2>1 DEF LockedInv, LockedTypeOK
    <2> QED
      BY <2>1, <2>2, TakeInv
  <1> QED
    BY <1>1, <1>2

\* The calls that change nothing.
LEMMA NothingTakenInv ==
    ASSUME LockedInv, NEW u \in Threads, Locked!NothingTaken(u)
    PROVE  LockedInv'
  <1>1. /\ lPc[u] = "inside" /\ Locked!Leave(u)
        /\ UNCHANGED <<data, popped, pushes>>
    BY DEF Locked!NothingTaken, Locked!Inside, Locked!At
  <1>2. LockedTypeOK' /\ CopyInv'
    BY <1>1, LeaveInv DEF LockedInv, LockedTypeOK
  <1> QED
    BY <1>1, <1>2 DEF LockedInv, ValuesInv

\* One element is copied, of a sequence that nobody changes.
LEMMA CopyOneInv ==
    ASSUME LockedInv, NEW u \in Threads, Locked!CopyOne(u)
    PROVE  LockedInv'
  <1> USE DEF LockedInv
  <1> DEFINE c == copy[u]
  <1>1. /\ lPc[u] = "copying" /\ Len(c) < Len(data)
        /\ copy' = [copy EXCEPT ![u] = Append(c, data[Len(c) + 1])]
        /\ UNCHANGED <<class, data, the_mtx, lPc, popped, pushes, versions>>
    BY DEF Locked!CopyOne, Locked!At
  <1>2. data \in Seq(Nat) /\ c \in Seq(Nat) /\ Len(c) \in Nat /\ data[Len(c) + 1] \in Nat
    BY <1>1 DEF LockedTypeOK
  <1>3. copy' \in [Threads -> Seq(Nat)] /\ copy'[u] = Append(c, data[Len(c) + 1])
    BY <1>1, <1>2 DEF LockedTypeOK
  <1>4. LockedTypeOK' /\ ValuesInv'
    BY <1>1, <1>3 DEF LockedTypeOK, ValuesInv
  <1>5. CopyInv'
    <2> SUFFICES ASSUME class = "list_6_1", NEW v \in Threads
                 PROVE  /\ lPc[v] \in {"inside", "copying"} => the_mtx = v
                        /\ lPc[v] = "copying" =>
                             /\ Len(copy'[v]) <= Len(data)
                             /\ \A k \in 1 .. Len(copy'[v]) : copy'[v][k] = data[k]
                             /\ data \in versions[v]
                        /\ lPc[v] = "copied" => copy'[v] \in versions[v]
      BY <1>1 DEF CopyInv
    <2>1. CASE v = u
      <3>1. /\ \A k \in 1 .. Len(c) : c[k] = data[k]
            /\ the_mtx = u /\ data \in versions[u]
        BY <1>1, <2>1 DEF CopyInv
      <3>2. Len(Append(c, data[Len(c) + 1])) <= Len(data)
        BY <1>1, <1>2
      <3>3. \A k \in 1 .. Len(c) + 1 : Append(c, data[Len(c) + 1])[k] = data[k]
        <4> HIDE DEF c
        <4> QED
          BY <1>2, <3>1
      <3> QED
        BY <1>1, <1>2, <1>3, <2>1, <3>1, <3>2, <3>3
    <2>2. CASE v # u
      <3>1. copy'[v] = copy[v]
        BY <1>1, <2>2 DEF LockedTypeOK
      <3> QED
        BY <3>1 DEF CopyInv
    <2> QED
      BY <2>1, <2>2
  <1> QED
    BY <1>4, <1>5

\* The last one: the copy is the sequence.
LEMMA CopyEndsInv ==
    ASSUME LockedInv, NEW u \in Threads, Locked!CopyEnds(u)
    PROVE  LockedInv'
  <1> USE DEF LockedInv, Locked!CopyEnds, Locked!At, Locked!Go
  <1>1. LockedTypeOK' /\ ValuesInv'
    BY DEF LockedTypeOK, ValuesInv
  <1>2. CopyInv'
    <2>1. ASSUME class = "list_6_1"
          PROVE  copy[u] = data /\ data \in versions[u] /\ the_mtx = u
      <3>1. /\ Len(copy[u]) <= Len(data) /\ Len(copy[u]) >= Len(data)
            /\ \A k \in 1 .. Len(copy[u]) : copy[u][k] = data[k]
            /\ data \in versions[u] /\ the_mtx = u
        BY <2>1 DEF CopyInv
      <3>2. data \in Seq(Nat) /\ copy[u] \in Seq(Nat)
        BY DEF LockedTypeOK
      <3> QED
        BY <3>1, <3>2
    <2> QED
      BY <2>1, NoThreadAssumption DEF CopyInv, LockedTypeOK
  <1> QED
    BY <1>1, <1>2

\* A step of the containers keeps their invariant.
LEMMA LockedNextInv == LockedInv /\ Locked!Next => LockedInv'
  BY CallInv, DestroyCopyInv, LockInv, PushInv, PopInv, NothingTakenInv, CopyOneInv,
     CopyEndsInv DEF Locked!Next, Locked!Step

\* LockedInv holds of every reachable state of the containers.
LEMMA LockedInvariance == SpecParts => [](part = "locked" => LockedInv)
  <1> DEFINE Inv == part = "locked" => LockedInv
  <1>1. InitParts => Inv
    BY LockedInitInv DEF InitParts
  <1>2. Inv /\ [MutexStep \/ StackStep \/ QueueStep \/ OwnersStep \/ LockedStep]_partVars
          => Inv'
    <2> SUFFICES ASSUME Inv, part' = "locked",
                        [MutexStep \/ StackStep \/ QueueStep \/ OwnersStep \/ LockedStep]_partVars
                 PROVE  LockedInv'
      OBVIOUS
    <2>1. CASE LockedStep
      BY <2>1, LockedNextInv DEF LockedStep
    <2>2. CASE part' = part /\ UNCHANGED lockedVars
      BY <2>2 DEF lockedVars, LockedInv, LockedTypeOK, ValuesInv, CopyInv
    <2> QED
      BY <2>1, <2>2 DEF MutexStep, StackStep, QueueStep, OwnersStep, partVars
  <1> QED
    BY <1>1, <1>2, PTL DEF SpecParts

\* No value pushed on the stacks of lists 3.5 and 6.1, or on the queue of list 9.7, is
\* lost or returned twice, whichever calls throw and whichever end it is taken from.
THEOREM ValuesAreKept == SpecParts => []EachValueOnce
  <1>1. LockedInv => Locked!EachValueOnce
    BY DEF LockedInv, ValuesInv, Vals, Increasing, Locked!EachValueOnce, Locked!ToSet
  <1>2. (part = "locked" => LockedInv) => EachValueOnce
    BY <1>1 DEF EachValueOnce
  <1> QED
    BY <1>2, LockedInvariance, PTL

\* The copy constructor of list 6.1 copies a state that the stack was in.
THEOREM CopiesAreSnapshots == SpecParts => []CopyIsASnapshot
  <1>1. (part = "locked" => LockedInv) => CopyIsASnapshot
    BY DEF LockedInv, CopyInv, CopyIsASnapshot, Locked!CopyIsASnapshot, Locked!At
  <1> QED
    BY <1>1, LockedInvariance, PTL


-----------------------------------------------------------------------------
(* LockFreeStack: whose each node is, and how the lists of them hang     *)
(* together.                                                             *)

\* S is the list that starts at h, up to its last node: rank counts from there, and a
\* node's next is the one below it.
Linked(S, h, nx, rank) ==
    /\ IF h = null THEN S = {} ELSE h \in S
    /\ \A n \in S : rank[n] >= 1 /\ rank[n] <= rank[h]
    /\ \A n \in S : rank[n] # 1 => nx[n] \in S /\ rank[nx[n]] = rank[n] - 1
    /\ \A m, n \in S : rank[m] = rank[n] => m = n

\* ... and the list ends there.
Ended(S, nx, rank) == \A n \in S : rank[n] = 1 => nx[n] = null

IsList(S, h, nx, rank) == Linked(S, h, nx, rank) /\ Ended(S, nx, rank)

Labels == {"idle", "push load", "push cas", "pop load", "pop next", "pop cas", "take",
           "reclaim", "claim", "leave", "delete next", "delete", "delete head",
           "find last", "chain load", "chain cas", "exit"}

\* The types, without the count.
NodesTypeOK ==
    /\ sHead \in LFS!Pointers /\ to_be_deleted \in LFS!Pointers
    /\ sNext \in [Nodes -> LFS!Pointers]
    /\ sDatum \in [Nodes -> Values \cup {Nothing}]
    /\ sAllocated \in SUBSET Nodes
    /\ sPc \in [Threads -> Labels]
    /\ sMine \in [Threads -> LFS!Pointers] /\ nodes \in [Threads -> LFS!Pointers]
    /\ last \in [Threads -> LFS!Pointers] /\ sSeen \in [Threads -> LFS!Pointers]
    /\ res \in [Threads -> Values \cup {Nothing}]

\* threads_in_pop counts the threads in pop.
Popping == {u \in Threads : LFS!InPop(u)}
CountInv == IsFiniteSet(Popping) /\ threads_in_pop = Cardinality(Popping)

\* What a node is to whom: it is free, on the stack, on the list to_be_deleted, the
\* new node of a push, the old head that a pop has taken, or on the list nodes of a
\* pop; holder is the thread in the last three cases.
Roles == {"free", "stack", "pending", "push", "pop", "claim"}
GhostTypes(role, holder, rank) ==
    role \in [Nodes -> Roles] /\ holder \in [Nodes -> Threads \cup {NoThread}]
    /\ rank \in [Nodes -> Nat]

Of(role, k) == {n \in Nodes : role[n] = k}
ClaimedBy(role, holder, u) == {n \in Nodes : role[n] = "claim" /\ holder[n] = u}

Chaining(u) == sPc[u] \in {"chain load", "chain cas"}
Pushes(u)   == sPc[u] \in {"push load", "push cas"}
\* has u's pop an old head that is neither chained nor deleted?
HasPopped(u) ==
    /\ sMine[u] # null
    /\ \/ sPc[u] \in {"take", "reclaim", "claim", "leave", "find last", "delete next",
                      "delete", "delete head"}
       \/ Chaining(u) /\ nodes[u] # sMine[u]

\* A node has one place, and it is allocated if it has one.
PlaceOf(n, role, holder) ==
    /\ n \in sAllocated <=> role[n] # "free"
    /\ role[n] = "push" => holder[n] \in Threads /\ Pushes(holder[n]) /\ sMine[holder[n]] = n
    /\ role[n] = "pop" => holder[n] \in Threads /\ HasPopped(holder[n]) /\ sMine[holder[n]] = n
    /\ role[n] = "claim" => holder[n] \in Threads
HolderOf(u, role, holder) ==
    /\ Pushes(u) => sMine[u] \in Nodes /\ role[sMine[u]] = "push" /\ holder[sMine[u]] = u
    /\ HasPopped(u) => role[sMine[u]] = "pop" /\ holder[sMine[u]] = u
    /\ sPc[u] = "take" => sMine[u] # null

\* The lists of the class.
ListsInv(role, rank) ==
    /\ IsList(Of(role, "stack"), sHead, sNext, rank)
    /\ IsList(Of(role, "pending"), to_be_deleted, sNext, rank)

\* The list nodes of a thread: what it has claimed, or its old head by itself.
ClaimsOf(u, S, rank) ==
    /\ sPc[u] \in {"leave", "delete next", "delete", "find last"} => IsList(S, nodes[u], sNext, rank)
    /\ sPc[u] \in {"delete next", "delete", "find last"} => nodes[u] # null
    /\ sPc[u] = "delete" => sSeen[u] = sNext[nodes[u]]
    /\ sPc[u] = "find last" => last[u] \in S
    /\ Chaining(u) => /\ Linked(S, nodes[u], sNext, rank) /\ nodes[u] # null
                      /\ last[u] \in S /\ rank[last[u]] = 1
    /\ sPc[u] \notin {"leave", "delete next", "delete", "find last", "chain load", "chain cas"}
           => S = {}

\* A thread that reads a node which was the head is safe as long as nobody has found
\* itself alone in pop with it: threads_in_pop counts the reader.
Reads(u) == sPc[u] \in {"pop next", "pop cas"}
Shared(role, holder, n) ==
    \/ role[n] \in {"stack", "pending"}
    \/ role[n] = "pop" /\ sPc[holder[n]] \in {"take", "reclaim"}
    \/ role[n] = "claim" /\ sPc[holder[n]] \notin {"delete next", "delete"}
ReaderOf(u, role, holder) ==
    /\ Reads(u) => sMine[u] \in Nodes /\ Shared(role, holder, sMine[u])
    /\ sPc[u] = "pop cas" /\ role[sMine[u]] = "stack" => sSeen[u] = sNext[sMine[u]]

ThreadInv(u, role, holder, rank) ==
    /\ HolderOf(u, role, holder)
    /\ ClaimsOf(u, ClaimedBy(role, holder, u), rank)
    /\ ReaderOf(u, role, holder)

\* The nodes are laid out as the three ghosts say.
LaidOut(role, holder, rank) ==
    /\ GhostTypes(role, holder, rank)
    /\ \A n \in Nodes : PlaceOf(n, role, holder)
    /\ ListsInv(role, rank)
    /\ \A u \in Threads : ThreadInv(u, role, holder, rank)

StackInv == NodesTypeOK /\ CountInv /\ \E role, holder, rank : LaidOut(role, holder, rank)

\* A list stays what it is while its nodes keep their next and their rank.
LEMMA SameList ==
    ASSUME NEW S, NEW h, NEW nx, NEW rank, NEW ny, NEW sank,
           \A n \in S : ny[n] = nx[n] /\ sank[n] = rank[n]
    PROVE  /\ Linked(S, h, nx, rank) => Linked(S, h, ny, sank)
           /\ IsList(S, h, nx, rank) => IsList(S, h, ny, sank)
  <1>1. Linked(S, h, nx, rank) => Linked(S, h, ny, sank)
    <2> SUFFICES ASSUME Linked(S, h, nx, rank) PROVE Linked(S, h, ny, sank)
      OBVIOUS
    <2>1. IF h = null THEN S = {} ELSE h \in S
      BY DEF Linked
    <2>2. \A n \in S : sank[n] >= 1 /\ sank[n] <= sank[h]
      BY <2>1 DEF Linked
    <2>3. ASSUME NEW n \in S, sank[n] # 1
          PROVE  ny[n] \in S /\ sank[ny[n]] = sank[n] - 1
      BY <2>3 DEF Linked
    <2>4. \A m, n \in S : sank[m] = sank[n] => m = n
      BY DEF Linked
    <2> QED
      BY <2>1, <2>2, <2>3, <2>4 DEF Linked
  <1>2. Ended(S, nx, rank) => Ended(S, ny, sank)
    BY DEF Ended
  <1> QED
    BY <1>1, <1>2 DEF IsList

\* A node is put on top of a list, and it does not matter what comes below.
LEMMA OneMore ==
    ASSUME NEW S \in SUBSET Nodes, NEW h, NEW nx, NEW rank \in [Nodes -> Nat],
           NEW n \in Nodes \ S, nx[n] = h, IsList(S, h, nx, rank)
    PROVE  LET top  == IF h = null THEN 1 ELSE rank[h] + 1
               sank == [rank EXCEPT ![n] = top]
           IN  sank \in [Nodes -> Nat] /\ IsList(S \cup {n}, n, nx, sank)
  <1> DEFINE top == IF h = null THEN 1 ELSE rank[h] + 1
             sank == [rank EXCEPT ![n] = top]
  <1>1. top \in Nat /\ (h = null => S = {} /\ top = 1)
        /\ (h # null => h \in S /\ rank[h] \in Nat /\ rank[h] >= 1 /\ top = rank[h] + 1)
    BY DEF IsList, Linked
  <1>2. \A m \in S : rank[m] \in Nat /\ rank[m] >= 1 /\ rank[m] < top
    BY <1>1 DEF IsList, Linked
  <1> HIDE DEF top
  <1>3. sank \in [Nodes -> Nat] /\ sank[n] = top /\ (\A m \in S : m # n /\ sank[m] = rank[m])
    BY <1>1
  <1> HIDE DEF sank
  <1>4. n # null /\ n \in S \cup {n}
    BY NodesAssumption
  <1>5. \A m \in S \cup {n} : sank[m] >= 1 /\ sank[m] <= sank[n]
    BY <1>1, <1>2, <1>3
  <1>6. ASSUME NEW m \in S \cup {n}, sank[m] # 1
        PROVE  nx[m] \in S \cup {n} /\ sank[nx[m]] = sank[m] - 1
    <2>1. CASE m = n
      BY <1>1, <1>3, <1>6, <2>1
    <2>2. CASE m \in S
      <3>1. nx[m] \in S /\ rank[nx[m]] = rank[m] - 1
        BY <1>3, <1>6, <2>2 DEF IsList, Linked
      <3> QED
        BY <1>3, <2>2, <3>1
    <2> QED
      BY <2>1, <2>2
  <1>7. \A l, m \in S \cup {n} : sank[l] = sank[m] => l = m
    BY <1>2, <1>3 DEF IsList, Linked
  <1>8. ASSUME NEW m \in S \cup {n}, sank[m] = 1
        PROVE  nx[m] = null
    BY <1>1, <1>2, <1>3, <1>8 DEF IsList, Ended
  <1>9. Linked(S \cup {n}, n, nx, sank) /\ Ended(S \cup {n}, nx, sank)
    BY <1>4, <1>5, <1>6, <1>7, <1>8 DEF Linked, Ended
  <1> QED
    BY <1>3, <1>9 DEF IsList, sank, top

\* The first node of a list is taken off: no node of the rest leads to it.
LEMMA OneLess ==
    ASSUME NEW S \in SUBSET Nodes, NEW h \in S, NEW nx, NEW rank \in [Nodes -> Nat],
           IsList(S, h, nx, rank)
    PROVE  IsList(S \ {h}, nx[h], nx, rank)
  <1> USE DEF IsList, Linked, Ended
  <1>1. h # null /\ null \notin S
    BY NodesAssumption
  <1>2. ASSUME NEW m \in S \ {h}
        PROVE  rank[m] \in Nat /\ rank[m] >= 1 /\ rank[m] < rank[h]
    BY <1>1
  <1>3. CASE rank[h] = 1
    <2>1. S \ {h} = {}
      BY <1>2, <1>3
    <2>2. nx[h] = null
      BY <1>3
    <2> QED
      BY <2>1, <2>2
  <1>4. CASE rank[h] # 1
    <2>1. nx[h] \in S \ {h} /\ rank[nx[h]] = rank[h] - 1 /\ nx[h] # null
      BY <1>1, <1>4
    <2>2. \A m \in S \ {h} : rank[m] >= 1 /\ rank[m] <= rank[nx[h]]
      BY <1>2, <2>1
    <2>3. ASSUME NEW m \in S \ {h}, rank[m] # 1
          PROVE  nx[m] \in S \ {h} /\ rank[nx[m]] = rank[m] - 1
      BY <1>2, <2>3
    <2>4. \A l, m \in S \ {h} : rank[l] = rank[m] => l = m
      OBVIOUS
    <2>5. \A m \in S \ {h} : rank[m] = 1 => nx[m] = null
      OBVIOUS
    <2> QED
      BY <2>1, <2>2, <2>3, <2>4, <2>5
  <1> QED
    BY <1>3, <1>4

\* A node by itself.
LEMMA JustOne ==
    ASSUME NEW n \in Nodes, NEW nx, NEW rank, rank[n] = 1
    PROVE  Linked({n}, n, nx, rank)
  BY NodesAssumption DEF Linked

\* One list is hung below the last node of another.
LEMMA TwoLists ==
    ASSUME NEW A \in SUBSET Nodes, NEW B \in SUBSET Nodes, A \cap B = {}, NEW a, NEW b, NEW l \in A,
           NEW nx, NEW rank \in [Nodes -> Nat], rank[l] = 1, nx[l] = b, a # null,
           Linked(A, a, nx, rank), IsList(B, b, nx, rank),
           NEW low, low = IF b = null THEN 0 ELSE rank[b],
           NEW sank, \A n \in A : sank[n] = rank[n] + low, \A n \in B : sank[n] = rank[n]
    PROVE  IsList(A \cup B, a, nx, sank)
  <1>1. low \in Nat /\ a \in A /\ rank[a] \in Nat
        /\ (b = null => B = {} /\ low = 0)
        /\ (b # null => b \in B /\ rank[b] \in Nat /\ rank[b] >= 1 /\ low = rank[b])
    BY DEF IsList, Linked
  <1>2. \A n \in B : rank[n] \in Nat /\ rank[n] >= 1 /\ rank[n] <= low
    BY <1>1 DEF IsList, Linked
  <1>3. \A n \in A : rank[n] \in Nat /\ rank[n] >= 1 /\ rank[n] <= rank[a]
    BY DEF Linked
  <1>4. (\A n \in A : sank[n] = rank[n] + low) /\ (\A n \in B : sank[n] = rank[n])
    OBVIOUS
  <1>5. \A n \in A \cup B : sank[n] >= 1 /\ sank[n] <= sank[a]
    BY <1>1, <1>2, <1>3, <1>4
  <1>6. ASSUME NEW n \in A, rank[n] # 1
        PROVE  nx[n] \in A /\ sank[nx[n]] = sank[n] - 1
    <2>1. nx[n] \in A /\ rank[nx[n]] = rank[n] - 1
      BY <1>6 DEF Linked
    <2> QED
      BY <1>1, <1>3, <1>4, <2>1
  <1>7. ASSUME NEW n \in A, rank[n] = 1
        PROVE  n = l /\ nx[n] = b /\ sank[n] = low + 1
    BY <1>1, <1>4, <1>7 DEF Linked
  <1>8. ASSUME NEW n \in B, rank[n] # 1
        PROVE  nx[n] \in B /\ sank[nx[n]] = sank[n] - 1
    BY <1>4, <1>8 DEF IsList, Linked
  <1>9. \A n \in A \cup B : sank[n] # 1 => nx[n] \in A \cup B /\ sank[nx[n]] = sank[n] - 1
    <2> SUFFICES ASSUME NEW n \in A \cup B, sank[n] # 1
                 PROVE  nx[n] \in A \cup B /\ sank[nx[n]] = sank[n] - 1
      OBVIOUS
    <2>1. CASE n \in A /\ rank[n] # 1
      BY <1>6, <2>1
    <2>2. CASE n \in A /\ rank[n] = 1
      BY <1>1, <1>4, <1>7, <2>2
    <2>3. CASE n \in B
      BY <1>4, <1>8, <2>3
    <2> QED
      BY <2>1, <2>2, <2>3
  <1>10. ASSUME NEW m \in A \cup B, NEW n \in A \cup B, sank[m] = sank[n]
         PROVE  m = n
    <2>1. CASE m \in A /\ n \in A
      <3>1. rank[m] = rank[n]
        BY <1>1, <1>3, <1>4, <1>10, <2>1
      <3> QED
        BY <2>1, <3>1 DEF Linked
    <2>2. CASE m \in B /\ n \in B
      BY <1>4, <1>10, <2>2 DEF IsList, Linked
    <2>3. CASE m \in A /\ n \in B
      BY <1>1, <1>2, <1>3, <1>4, <1>10, <2>3
    <2>4. CASE m \in B /\ n \in A
      BY <1>1, <1>2, <1>3, <1>4, <1>10, <2>4
    <2>5. m \in A \cup B /\ n \in A \cup B
      OBVIOUS
    <2> QED
      BY <2>1, <2>2, <2>3, <2>4, <2>5, Zenon
  <1>11. ASSUME NEW n \in A \cup B, sank[n] = 1
         PROVE  nx[n] = null
    <2>1. CASE n \in A
      <3>1. low = 0 /\ rank[n] = 1
        BY <1>1, <1>3, <1>4, <1>11, <2>1
      <3>2. b = null
        BY <1>1, <3>1
      <3> QED
        BY <1>7, <2>1, <3>1, <3>2
    <2>2. CASE n \in B
      BY <1>4, <1>11, <2>2 DEF IsList, Ended
    <2> QED
      BY <2>1, <2>2
  <1>12. Linked(A \cup B, a, nx, sank) /\ Ended(A \cup B, nx, sank)
    BY <1>1, <1>5, <1>9, <1>10, <1>11 DEF Linked, Ended
  <1> QED
    BY <1>12 DEF IsList

\* The instance counts as FiniteSets does.
LEMMA StackCardinality == ASSUME NEW S PROVE LFS!Cardinality(S) = Cardinality(S)
  BY DEF LFS!Cardinality, Cardinality

\* The initial states: no node is anywhere.
LEMMA StackInitInv == LFS!Init => StackInv
  <1> SUFFICES ASSUME LFS!Init PROVE StackInv
    OBVIOUS
  <1> USE DEF LFS!Init
  <1> DEFINE role == [n \in Nodes |-> "free"]
             holder == [n \in Nodes |-> NoThread]
             rank == [n \in Nodes |-> 0]
  <1>1. NodesTypeOK
    BY DEF NodesTypeOK, LFS!Pointers, Labels
  <1>2. CountInv
    <2>1. Popping = {}
      BY DEF Popping, LFS!InPop
    <2> QED
      BY <2>1, FS_EmptySet DEF CountInv
  <1>3. LaidOut(role, holder, rank)
    <2>1. GhostTypes(role, holder, rank)
      BY DEF GhostTypes, Roles
    <2>2. \A n \in Nodes : PlaceOf(n, role, holder)
      BY DEF PlaceOf
    <2>3. ListsInv(role, rank)
      BY DEF ListsInv, IsList, Linked, Ended, Of
    <2>4. ASSUME NEW u \in Threads
          PROVE  ThreadInv(u, role, holder, rank)
      BY DEF ThreadInv, HolderOf, ClaimsOf, ClaimedBy, ReaderOf, Pushes, HasPopped, Chaining,
             Reads
    <2> QED
      BY <2>1, <2>2, <2>3, <2>4 DEF LaidOut
  <1> HIDE DEF role, holder, rank
  <1> QED
    BY <1>1, <1>2, <1>3 DEF StackInv

\* The step is u's: the other threads stay where they are.
Keeps(v) == /\ sPc'[v] = sPc[v] /\ sMine'[v] = sMine[v] /\ nodes'[v] = nodes[v]
            /\ last'[v] = last[v] /\ sSeen'[v] = sSeen[v]

\* Who is in pop does not change ...
LEMMA CountSame ==
    ASSUME CountInv, NEW u \in Threads, \A v \in Threads \ {u} : Keeps(v),
           threads_in_pop' = threads_in_pop, LFS!InPop(u)' = LFS!InPop(u)
    PROVE  CountInv'
  <1>1. \A v \in Threads \ {u} : LFS!InPop(v)' = LFS!InPop(v)
    BY DEF LFS!InPop, Keeps
  <1>2. Popping' = Popping
    BY <1>1 DEF Popping
  <1> QED
    BY <1>2 DEF CountInv

\* ... or u comes ...
LEMMA CountUp ==
    ASSUME CountInv, NEW u \in Threads, \A v \in Threads \ {u} : Keeps(v),
           threads_in_pop' = threads_in_pop + 1, LFS!InPop(u)', ~ LFS!InPop(u)
    PROVE  CountInv'
  <1>1. \A v \in Threads \ {u} : LFS!InPop(v)' = LFS!InPop(v)
    BY DEF LFS!InPop, Keeps
  <1>2. Popping' = Popping \cup {u} /\ u \notin Popping
    BY <1>1 DEF Popping
  <1>3. IsFiniteSet(Popping') /\ Cardinality(Popping') = Cardinality(Popping) + 1
    BY <1>2, FS_AddElement DEF CountInv
  <1> QED
    BY <1>3 DEF CountInv

\* ... or u goes.
LEMMA CountDown ==
    ASSUME CountInv, NEW u \in Threads, \A v \in Threads \ {u} : Keeps(v),
           threads_in_pop' = threads_in_pop - 1, ~ LFS!InPop(u)', LFS!InPop(u)
    PROVE  CountInv'
  <1>1. \A v \in Threads \ {u} : LFS!InPop(v)' = LFS!InPop(v)
    BY DEF LFS!InPop, Keeps
  <1>2. Popping' = Popping \ {u} /\ u \in Popping
    BY <1>1 DEF Popping
  <1>3. IsFiniteSet(Popping') /\ Cardinality(Popping') = Cardinality(Popping) - 1
    BY <1>2, FS_RemoveElement DEF CountInv
  <1> QED
    BY <1>3 DEF CountInv

\* A thread that counts one thread in pop, and is there, is the only one.
LEMMA AloneInPop ==
    ASSUME CountInv, threads_in_pop = 1, NEW u \in Threads, LFS!InPop(u)
    PROVE  \A v \in Threads : LFS!InPop(v) => v = u
  <1>1. PICK x : Popping = {x}
    BY FS_Singleton DEF CountInv
  <1> QED
    BY <1>1 DEF Popping

\* What the other threads know of their nodes stays true if u leaves these alone, and
\* the nodes that they read are not taken from them.
Owned(role, n) == role[n] \in {"push", "pop", "claim"}
Theirs(role, holder, u, n) == Owned(role, n) /\ holder[n] # u
TheirsKept(u, role, holder, rank, rolf, holdes, rang) ==
    \A n \in Nodes :
        \/ Theirs(role, holder, u, n) /\ rolf[n] = role[n] /\ holdes[n] = holder[n]
             /\ rang[n] = rank[n] /\ sNext'[n] = sNext[n]
        \/ ~ Theirs(role, holder, u, n) /\ ~ Theirs(rolf, holdes, u, n)
ReadersKept(u, role, rolf, holdes) ==
    \A v \in Threads \ {u}, n \in Nodes : Reads(v) /\ sMine[v] = n =>
        /\ Shared(rolf, holdes, n)'
        /\ rolf[n] = "stack" => role[n] = "stack" /\ sNext'[n] = sNext[n]

LEMMA OthersKeep ==
    ASSUME NodesTypeOK, NEW u \in Threads, \A v \in Threads \ {u} : Keeps(v),
           NEW role, NEW holder, NEW rank, LaidOut(role, holder, rank),
           NEW rolf, NEW holdes, NEW rang,
           TheirsKept(u, role, holder, rank, rolf, holdes, rang), ReadersKept(u, role, rolf, holdes)
    PROVE  \A v \in Threads \ {u} : ThreadInv(v, rolf, holdes, rang)'
  <1> SUFFICES ASSUME NEW v \in Threads \ {u} PROVE ThreadInv(v, rolf, holdes, rang)'
    OBVIOUS
  <1> USE DEF TheirsKept, ReadersKept
  <1>1. ThreadInv(v, role, holder, rank) /\ Keeps(v)
    BY DEF LaidOut
  <1>2. HolderOf(v, rolf, holdes)'
    <2>1. HolderOf(v, role, holder)
      BY <1>1 DEF ThreadInv
    <2>2. CASE Pushes(v)
      BY <1>1, <2>1, <2>2 DEF HolderOf, Keeps, Pushes, HasPopped, Chaining, Theirs, Owned
    <2>3. CASE HasPopped(v) /\ sMine[v] \in Nodes
      BY <1>1, <2>1, <2>3 DEF HolderOf, Keeps, Pushes, HasPopped, Chaining, Theirs, Owned
    <2>4. CASE ~ Pushes(v) /\ ~ HasPopped(v)
      BY <1>1, <2>1, <2>4 DEF HolderOf, Keeps, Pushes, HasPopped, Chaining
    <2>5. HasPopped(v) => sMine[v] \in Nodes
      BY DEF HasPopped, NodesTypeOK, LFS!Pointers
    <2> QED
      BY <2>2, <2>3, <2>4, <2>5
  <1>3. ClaimsOf(v, ClaimedBy(rolf, holdes, v), rang)'
    <2> DEFINE S == ClaimedBy(role, holder, v)
    <2>1. ClaimsOf(v, S, rank)
      BY <1>1 DEF ThreadInv
    <2>2. ClaimedBy(rolf, holdes, v) = S
      BY DEF ClaimedBy, Theirs, Owned
    <2>3. \A n \in S : sNext'[n] = sNext[n] /\ rang[n] = rank[n]
      BY DEF ClaimedBy, Theirs, Owned
    <2> HIDE DEF S
    <2>4. /\ Linked(S, nodes[v], sNext, rank) => Linked(S, nodes[v], sNext', rang)
          /\ IsList(S, nodes[v], sNext, rank) => IsList(S, nodes[v], sNext', rang)
      BY <2>3, SameList
    <2>5. IsList(S, nodes[v], sNext, rank) /\ nodes[v] # null => nodes[v] \in S
      BY DEF IsList, Linked
    <2>6. ClaimsOf(v, S, rang)'
      BY <1>1, <2>1, <2>3, <2>4, <2>5 DEF ClaimsOf, Keeps, Chaining
    <2> QED
      BY <2>2, <2>6
  <1>4. ReaderOf(v, rolf, holdes)'
    BY <1>1 DEF ThreadInv, ReaderOf, Reads, Keeps
  <1> QED
    BY <1>2, <1>3, <1>4 DEF ThreadInv

\* ... and their nodes have the place they had.
LEMMA PlacesKept ==
    ASSUME NEW u \in Threads, \A v \in Threads \ {u} : Keeps(v), NEW n,
           NEW role, NEW holder, NEW rolf, NEW holdes, PlaceOf(n, role, holder),
           rolf[n] = role[n], holdes[n] = holder[n], n \in sAllocated' <=> n \in sAllocated,
           role[n] \in {"push", "pop"} => holder[n] # u
    PROVE  PlaceOf(n, rolf, holdes)'
  BY DEF PlaceOf, Keeps, Pushes, HasPopped, Chaining

\* The lists of the class stay what they are if their nodes do.
LEMMA ListsKept ==
    ASSUME NEW role, NEW rank, NEW rolf, NEW rang, ListsInv(role, rank),
           UNCHANGED <<sHead, to_be_deleted>>,
           Of(rolf, "stack") = Of(role, "stack"), Of(rolf, "pending") = Of(role, "pending"),
           \A n \in Nodes : role[n] \in {"stack", "pending"} =>
                               sNext'[n] = sNext[n] /\ rang[n] = rank[n]
    PROVE  ListsInv(rolf, rang)'
  <1>1. IsList(Of(role, "stack"), sHead, sNext', rang)
    BY SameList DEF Of, ListsInv
  <1>2. IsList(Of(role, "pending"), to_be_deleted, sNext', rang)
    BY SameList DEF Of, ListsInv
  <1> QED
    BY <1>1, <1>2 DEF ListsInv

\* A node that others may read stays one, unless its holder decides otherwise.
LEMMA SharedKept ==
    ASSUME NEW u \in Threads, \A v \in Threads \ {u} : Keeps(v), NEW n,
           NEW role, NEW holder, NEW rolf, NEW holdes, PlaceOf(n, role, holder),
           Shared(role, holder, n), rolf[n] = role[n], holdes[n] = holder[n],
           role[n] = "pop" /\ holder[n] = u => sPc'[u] \in {"take", "reclaim"},
           role[n] = "claim" /\ holder[n] = u => sPc'[u] \notin {"delete next", "delete"}
    PROVE  Shared(rolf, holdes, n)'
  <1>1. CASE role[n] = "pop"
    BY <1>1 DEF PlaceOf, Shared, Keeps
  <1>2. CASE role[n] = "claim"
    BY <1>2 DEF PlaceOf, Shared, Keeps
  <1>3. CASE role[n] \in {"stack", "pending"}
    BY <1>3 DEF Shared
  <1> QED
    BY <1>1, <1>2, <1>3 DEF Shared

\* The invariant is about the lists and the threads only.
LEMMA SameStack ==
    ASSUME StackInv, UNCHANGED <<sHead, to_be_deleted, threads_in_pop, sNext, sDatum, sAllocated,
                                 sPc, sMine, nodes, last, sSeen, res>>
    PROVE  StackInv'
  <1>1. NodesTypeOK' /\ CountInv'
    BY DEF StackInv, NodesTypeOK, CountInv, Popping, LFS!InPop
  <1>2. PICK role, holder, rank : LaidOut(role, holder, rank)
    BY DEF StackInv
  <1>3. LaidOut(role, holder, rank)'
    BY <1>2 DEF LaidOut, GhostTypes, PlaceOf, ListsInv, ThreadInv, HolderOf, ClaimsOf, ReaderOf,
                Pushes, HasPopped, Chaining, Reads, Shared
  <1> QED
    BY <1>1, <1>3 DEF StackInv

\* The common case: no node changes its place, and neither do the lists.
LEMMA SamePlaces ==
    ASSUME NodesTypeOK, NEW u \in Threads, \A v \in Threads \ {u} : Keeps(v),
           NEW role, NEW holder, NEW rank, LaidOut(role, holder, rank),
           UNCHANGED <<sHead, to_be_deleted, sAllocated>>,
           \A n \in Nodes : (Owned(role, n) /\ holder[n] = u) \/ sNext'[n] = sNext[n],
           Pushes(u) => Pushes(u)' /\ sMine'[u] = sMine[u],
           HasPopped(u) => HasPopped(u)' /\ sMine'[u] = sMine[u],
           \A n \in Nodes, v \in Threads \ {u} :
               Reads(v) /\ sMine[v] = n /\ Shared(role, holder, n) => Shared(role, holder, n)',
           ThreadInv(u, role, holder, rank)'
    PROVE  LaidOut(role, holder, rank)'
  <1>1. GhostTypes(role, holder, rank)
    BY DEF LaidOut
  <1>2. ASSUME NEW n \in Nodes
        PROVE  PlaceOf(n, role, holder)'
    <2>1. PlaceOf(n, role, holder)
      BY DEF LaidOut
    <2>2. CASE holder[n] = u
      BY <2>1, <2>2 DEF PlaceOf
    <2>3. CASE holder[n] # u
      BY <2>1, <2>3 DEF PlaceOf, Keeps, Pushes, HasPopped, Chaining
    <2> QED
      BY <2>2, <2>3
  <1>3. ListsInv(role, rank)'
    BY ListsKept DEF LaidOut, Owned
  <1>4. \A v \in Threads \ {u} : ThreadInv(v, role, holder, rank)'
    <2>1. ReadersKept(u, role, role, holder)
      <3> SUFFICES ASSUME NEW v \in Threads \ {u}, NEW n \in Nodes, Reads(v), sMine[v] = n
                   PROVE  Shared(role, holder, n)'
        BY DEF ReadersKept, Owned
      <3>1. Shared(role, holder, n)
        BY DEF LaidOut, ThreadInv, ReaderOf
      <3> QED
        BY <3>1
    <2>2. TheirsKept(u, role, holder, rank, role, holder, rank)
      BY DEF TheirsKept, Theirs
    <2> QED
      BY <2>1, <2>2, OthersKeep
  <1> QED
    BY <1>1, <1>2, <1>3, <1>4 DEF LaidOut, GhostTypes

\* A thread enters pop.
LEMMA EnterPopInv ==
    ASSUME StackInv, NEW u \in Threads, LFS!EnterPop(u)
    PROVE  StackInv'
  <1> USE DEF LFS!EnterPop, LFS!At, LFS!Goto, LFS!memory, LFS!locals
  <1>1. PICK role, holder, rank : LaidOut(role, holder, rank)
    BY DEF StackInv
  <1>2. NodesTypeOK'
    BY DEF StackInv, NodesTypeOK, Labels
  <1>3. /\ sPc[u] = "idle" /\ sPc'[u] = "pop load" /\ \A v \in Threads \ {u} : Keeps(v)
        /\ UNCHANGED <<sHead, to_be_deleted, sNext, sAllocated, sMine, nodes>>
    BY DEF StackInv, NodesTypeOK, Keeps
  <1>4. CountInv'
    BY <1>3, CountUp DEF StackInv, LFS!InPop
  <1>5. LaidOut(role, holder, rank)'
    <2>1. ThreadInv(u, role, holder, rank)
      BY <1>1 DEF LaidOut
    <2>2. ThreadInv(u, role, holder, rank)'
      BY <1>3, <2>1 DEF ThreadInv, HolderOf, ClaimsOf, ReaderOf, Pushes, HasPopped, Chaining,
                        Reads
    <2>3. \A n \in Nodes : Shared(role, holder, n) => Shared(role, holder, n)'
      BY <1>1, <1>3 DEF Shared, LaidOut, GhostTypes, PlaceOf, Keeps
    <2> QED
      BY <1>1, <1>3, <2>2, <2>3, SamePlaces DEF StackInv, Pushes, HasPopped, Chaining
  <1> QED
    BY <1>2, <1>4, <1>5 DEF StackInv

\* A pop reads the head, in its loop or in an exchange that fails.
LEMMA OldHeadInv ==
    ASSUME StackInv, NEW u \in Threads, sPc[u] \in {"pop load", "pop cas"}, LFS!OldHead(u, sHead),
           UNCHANGED <<sHead, to_be_deleted, threads_in_pop, sNext, sDatum, sAllocated, nodes,
                       last, sSeen, res>>
    PROVE  StackInv'
  <1> USE DEF LFS!OldHead, LFS!Goto
  <1>1. PICK role, holder, rank : LaidOut(role, holder, rank)
    BY DEF StackInv
  <1>2. NodesTypeOK'
    BY DEF StackInv, NodesTypeOK, Labels
  <1>3. /\ \/ sHead = null /\ sPc'[u] = "reclaim"
           \/ sHead # null /\ sPc'[u] = "pop next"
        /\ UNCHANGED <<sHead, nodes, sNext>> /\ sPc[u] \in {"pop load", "pop cas"}
        /\ sMine'[u] = sHead /\ \A v \in Threads \ {u} : Keeps(v)
    BY DEF StackInv, NodesTypeOK, Keeps
  <1>4. CountInv'
    BY <1>3, CountSame DEF StackInv, LFS!InPop
  <1>5. LaidOut(role, holder, rank)'
    <2>1. ThreadInv(u, role, holder, rank)
      BY <1>1 DEF LaidOut
    <2>2. sHead # null => sHead \in Nodes /\ role[sHead] = "stack"
      BY <1>1 DEF LaidOut, ListsInv, IsList, Linked, Of
    <2>3. ThreadInv(u, role, holder, rank)'
      <3>1. HolderOf(u, role, holder)'
        BY <1>3 DEF HolderOf, Pushes, HasPopped, Chaining
      <3>2. ClaimsOf(u, ClaimedBy(role, holder, u), rank)'
        BY <1>3, <2>1 DEF ThreadInv, ClaimsOf, ClaimedBy, Chaining
      <3>3. ReaderOf(u, role, holder)'
        BY <1>3, <2>2 DEF ReaderOf, Reads, Shared
      <3> QED
        BY <3>1, <3>2, <3>3 DEF ThreadInv
    <2>4. \A n \in Nodes : Shared(role, holder, n) => Shared(role, holder, n)'
      <3> SUFFICES ASSUME NEW n \in Nodes, Shared(role, holder, n)
                   PROVE  Shared(role, holder, n)'
        OBVIOUS
      <3>1. PlaceOf(n, role, holder)
        BY <1>1 DEF LaidOut
      <3>2. role[n] = "pop" => holder[n] \in Threads \ {u}
        BY <3>1 DEF PlaceOf, HasPopped, Chaining
      <3>3. role[n] = "claim" => holder[n] \in Threads
        BY <3>1 DEF PlaceOf
      <3> QED
        BY <1>3, <3>2, <3>3 DEF Shared, Keeps
    <2> QED
      BY <1>1, <1>3, <2>3, <2>4, SamePlaces DEF StackInv, Pushes, HasPopped, Chaining
  <1> QED
    BY <1>2, <1>4, <1>5 DEF StackInv

\* The next of a node that was the head is read: the node is still allocated.
LEMMA PopNextInv ==
    ASSUME StackInv, NEW u \in Threads, LFS!PopNext(u)
    PROVE  StackInv'
  <1> USE DEF LFS!PopNext, LFS!At, LFS!Goto, LFS!memory, LFS!bounds
  <1>1. PICK role, holder, rank : LaidOut(role, holder, rank)
    BY DEF StackInv
  <1>2. ThreadInv(u, role, holder, rank)
    BY <1>1 DEF LaidOut
  <1>3. sMine[u] \in Nodes
    BY <1>2 DEF ThreadInv, ReaderOf, Reads
  <1>4. NodesTypeOK'
    BY <1>3 DEF StackInv, NodesTypeOK, Labels
  <1>5. /\ sPc[u] = "pop next" /\ sPc'[u] = "pop cas" /\ sSeen'[u] = sNext[sMine[u]]
        /\ UNCHANGED sMine /\ \A v \in Threads \ {u} : Keeps(v)
    BY DEF StackInv, NodesTypeOK, Keeps
  <1>6. CountInv'
    BY <1>5, CountSame DEF StackInv, LFS!InPop
  <1>7. LaidOut(role, holder, rank)'
    <2>1. \A n \in Nodes : Shared(role, holder, n) => Shared(role, holder, n)'
      BY <1>1, <1>5 DEF Shared, LaidOut, GhostTypes, PlaceOf, Keeps, HasPopped, Chaining
    <2>2. ThreadInv(u, role, holder, rank)'
      BY <1>2, <1>3, <1>5, <2>1 DEF ThreadInv, HolderOf, ClaimsOf, ReaderOf, Pushes, HasPopped,
                              Chaining, Reads
    <2> QED
      BY <1>1, <1>5, <2>1, <2>2, SamePlaces DEF StackInv, Pushes, HasPopped, Chaining
  <1> QED
    BY <1>4, <1>6, <1>7 DEF StackInv

\* The value of the popped node is swapped out.
LEMMA TakeValueInv ==
    ASSUME StackInv, NEW u \in Threads, LFS!Take(u)
    PROVE  StackInv'
  <1> USE DEF LFS!Take, LFS!At, LFS!Goto, LFS!bounds
  <1>1. PICK role, holder, rank : LaidOut(role, holder, rank)
    BY DEF StackInv
  <1>2. ThreadInv(u, role, holder, rank)
    BY <1>1 DEF LaidOut
  <1>3. sMine[u] \in Nodes
    BY <1>2 DEF ThreadInv, HolderOf, StackInv, NodesTypeOK, LFS!Pointers
  <1>4. NodesTypeOK'
    BY <1>3 DEF StackInv, NodesTypeOK, Labels
  <1>5. /\ sPc[u] = "take" /\ sPc'[u] = "reclaim"
        /\ UNCHANGED <<sMine, nodes>> /\ \A v \in Threads \ {u} : Keeps(v)
    BY DEF StackInv, NodesTypeOK, Keeps
  <1>6. CountInv'
    BY <1>5, CountSame DEF StackInv, LFS!InPop
  <1>7. LaidOut(role, holder, rank)'
    <2>1. \A n \in Nodes : Shared(role, holder, n) => Shared(role, holder, n)'
      BY <1>1, <1>5 DEF Shared, LaidOut, GhostTypes, PlaceOf, Keeps, HasPopped, Chaining
    <2>2. ThreadInv(u, role, holder, rank)'
      BY <1>2, <1>3, <1>5 DEF ThreadInv, HolderOf, ClaimsOf, ReaderOf, Pushes, HasPopped,
                              Chaining, Reads
    <2> QED
      BY <1>1, <1>5, <2>1, <2>2, SamePlaces DEF StackInv, Pushes, HasPopped, Chaining
  <1> QED
    BY <1>4, <1>6, <1>7 DEF StackInv

\* A pop that is alone goes on to claim the list; nobody reads its old head, and nobody
\* will, since it is no longer on the stack.
LEMMA GoesToClaimInv ==
    ASSUME StackInv, NEW u \in Threads, LFS!TryReclaim(u), threads_in_pop = 1
    PROVE  StackInv'
  <1> USE DEF LFS!TryReclaim, LFS!At, LFS!Goto, LFS!memory
  <1>1. PICK role, holder, rank : LaidOut(role, holder, rank)
    BY DEF StackInv
  <1>2. ThreadInv(u, role, holder, rank)
    BY <1>1 DEF LaidOut
  <1>3. NodesTypeOK'
    BY DEF StackInv, NodesTypeOK, Labels
  <1>4. /\ sPc[u] = "reclaim" /\ sPc'[u] = "claim"
        /\ UNCHANGED <<sMine, nodes, last>> /\ \A v \in Threads \ {u} : Keeps(v)
    BY DEF StackInv, NodesTypeOK, Keeps
  <1>5. CountInv'
    BY <1>4, CountSame DEF StackInv, LFS!InPop
  <1>6. \A v \in Threads \ {u} : ~ Reads(v)
    BY <1>4, AloneInPop DEF StackInv, LFS!InPop, Reads
  <1>7. LaidOut(role, holder, rank)'
    <2>1. ThreadInv(u, role, holder, rank)'
      BY <1>2, <1>4 DEF ThreadInv, HolderOf, ClaimsOf, ReaderOf, Pushes, HasPopped,
                              Chaining, Reads
    <2> QED
      BY <1>1, <1>4, <1>6, <2>1, SamePlaces DEF StackInv, Pushes, HasPopped, Chaining
  <1> QED
    BY <1>3, <1>5, <1>7 DEF StackInv

\* A thread leaves pop with the list that it has claimed: it may delete it only if no
\* other thread is there.
LEMMA LeavePopInv ==
    ASSUME StackInv, NEW u \in Threads, LFS!Leave(u)
    PROVE  StackInv'
  <1> USE DEF LFS!Leave, LFS!At, LFS!Goto, LFS!memory, LFS!bounds
  <1>1. PICK role, holder, rank : LaidOut(role, holder, rank)
    BY DEF StackInv
  <1>2. ThreadInv(u, role, holder, rank)
    BY <1>1 DEF LaidOut
  <1>3. NodesTypeOK'
    BY DEF StackInv, NodesTypeOK, Labels
  <1>4. /\ sPc[u] = "leave" /\ UNCHANGED <<sMine, nodes, sSeen>>
        /\ \A v \in Threads \ {u} : Keeps(v)
        /\ \/ nodes[u] = null /\ sPc'[u] = "delete head"
           \/ nodes[u] # null /\ threads_in_pop = 1 /\ sPc'[u] = "delete next"
           \/ nodes[u] # null /\ sPc'[u] = "find last" /\ last'[u] = nodes[u]
    <2>1. threads_in_pop \in Nat
      BY FS_CardinalityType DEF StackInv, CountInv
    <2>2. /\ sPc[u] = "leave" /\ UNCHANGED <<sMine, nodes, sSeen>>
          /\ threads_in_pop' = threads_in_pop - 1 /\ \A v \in Threads \ {u} : Keeps(v)
      BY DEF StackInv, NodesTypeOK, Keeps
    <2>3. CASE nodes[u] = null
      BY <2>2, <2>3 DEF StackInv, NodesTypeOK
    <2>4. CASE nodes[u] # null /\ threads_in_pop' = 0
      <3>1. threads_in_pop = 1
        BY ONLY <2>1, <2>2, <2>4
      <3> QED
        BY <2>2, <2>4, <3>1 DEF StackInv, NodesTypeOK
    <2>5. CASE nodes[u] # null /\ threads_in_pop' # 0
      BY <2>2, <2>5 DEF StackInv, NodesTypeOK
    <2> QED
      BY <2>2, <2>3, <2>4, <2>5
  <1>5. CountInv'
    BY <1>4, CountDown DEF StackInv, LFS!InPop
  <1>6. threads_in_pop = 1 => \A v \in Threads \ {u} : ~ Reads(v)
    BY <1>4, AloneInPop DEF StackInv, LFS!InPop, Reads
  <1>7. LaidOut(role, holder, rank)'
    <2> DEFINE S == ClaimedBy(role, holder, u)
    <2>1. IsList(S, nodes[u], sNext, rank)
      BY <1>2, <1>4 DEF ThreadInv, ClaimsOf
    <2>2. IF nodes[u] = null THEN S = {} ELSE nodes[u] \in S
      BY <2>1 DEF IsList, Linked
    <2> HIDE DEF S
    <2>3. ClaimsOf(u, S, rank)'
      BY <1>4, <2>1, <2>2 DEF ClaimsOf, Chaining
    <2>4. HolderOf(u, role, holder)' /\ ReaderOf(u, role, holder)'
      BY <1>2, <1>4 DEF ThreadInv, HolderOf, ReaderOf, Pushes, HasPopped, Chaining, Reads
    <2>5. ThreadInv(u, role, holder, rank)'
      BY <2>3, <2>4 DEF ThreadInv, S
    <2>6. \A n \in Nodes, v \in Threads \ {u} :
            Reads(v) /\ sMine[v] = n /\ Shared(role, holder, n) => Shared(role, holder, n)'
      BY <1>1, <1>4, <1>6 DEF Shared, LaidOut, GhostTypes, PlaceOf, Keeps, HasPopped, Chaining
    <2> QED
      BY <1>1, <1>4, <2>5, <2>6, SamePlaces DEF StackInv, Pushes, HasPopped, Chaining
  <1> QED
    BY <1>3, <1>5, <1>7 DEF StackInv

\* A deletion reads the next node first.
LEMMA DeleteNextInv ==
    ASSUME StackInv, NEW u \in Threads, LFS!DeleteNext(u)
    PROVE  StackInv'
  <1> USE DEF LFS!DeleteNext, LFS!At, LFS!Goto, LFS!memory, LFS!bounds
  <1>1. PICK role, holder, rank : LaidOut(role, holder, rank)
    BY DEF StackInv
  <1>2. ThreadInv(u, role, holder, rank)
    BY <1>1 DEF LaidOut
  <1>3. nodes[u] \in Nodes
    BY <1>2 DEF ThreadInv, ClaimsOf, StackInv, NodesTypeOK, LFS!Pointers
  <1>4. NodesTypeOK'
    BY <1>3 DEF StackInv, NodesTypeOK, Labels
  <1>5. /\ sPc[u] = "delete next" /\ sPc'[u] = "delete" /\ sSeen'[u] = sNext[nodes[u]]
        /\ UNCHANGED <<sMine, nodes>> /\ \A v \in Threads \ {u} : Keeps(v)
    BY DEF StackInv, NodesTypeOK, Keeps
  <1>6. CountInv'
    BY <1>5, CountSame DEF StackInv, LFS!InPop
  <1>7. LaidOut(role, holder, rank)'
    <2>1. \A n \in Nodes : Shared(role, holder, n) => Shared(role, holder, n)'
      BY <1>1, <1>5 DEF Shared, LaidOut, GhostTypes, PlaceOf, Keeps, HasPopped, Chaining
    <2>2. ThreadInv(u, role, holder, rank)'
      BY <1>2, <1>5 DEF ThreadInv, HolderOf, ClaimsOf, ReaderOf, Pushes, HasPopped,
                              Chaining, Reads
    <2> QED
      BY <1>1, <1>5, <2>1, <2>2, SamePlaces DEF StackInv, Pushes, HasPopped, Chaining
  <1> QED
    BY <1>4, <1>6, <1>7 DEF StackInv

\* The search for the last node of a list that goes back.
LEMMA FindLastInv ==
    ASSUME StackInv, NEW u \in Threads, LFS!FindLast(u)
    PROVE  StackInv'
  <1> USE DEF LFS!FindLast, LFS!At, LFS!Goto, LFS!memory, LFS!bounds
  <1>1. PICK role, holder, rank : LaidOut(role, holder, rank)
    BY DEF StackInv
  <1>2. ThreadInv(u, role, holder, rank)
    BY <1>1 DEF LaidOut
  <1> DEFINE S == ClaimedBy(role, holder, u)
  <1>3. /\ IsList(S, nodes[u], sNext, rank) /\ nodes[u] # null /\ last[u] \in S
        /\ S \in SUBSET Nodes
    BY <1>2 DEF ThreadInv, ClaimsOf, ClaimedBy
  <1>4. last[u] \in Nodes /\ nodes[u] \in S
    BY <1>3 DEF IsList, Linked
  <1>5. NodesTypeOK'
    BY <1>4 DEF StackInv, NodesTypeOK, Labels
  <1>6. /\ sPc[u] = "find last" /\ UNCHANGED <<sMine, nodes>>
        /\ \A v \in Threads \ {u} : Keeps(v)
        /\ \/ sNext[last[u]] = null /\ sPc'[u] = "chain load" /\ last'[u] = last[u]
           \/ sNext[last[u]] # null /\ sPc'[u] = "find last" /\ last'[u] = sNext[last[u]]
    BY DEF StackInv, NodesTypeOK, Keeps
  <1>7. nodes[u] # sMine[u]
    BY <1>2, <1>3, <1>4, <1>6 DEF ThreadInv, HolderOf, HasPopped, ClaimedBy
  <1>8. CountInv'
    BY <1>6, <1>7, CountSame DEF StackInv, LFS!InPop
  <1>9. LaidOut(role, holder, rank)'
    <2>1. \A n \in Nodes : Shared(role, holder, n) => Shared(role, holder, n)'
      BY <1>1, <1>6 DEF Shared, LaidOut, GhostTypes, PlaceOf, Keeps, HasPopped, Chaining
    <2>2. sNext[last[u]] = null => rank[last[u]] = 1
      BY <1>3, NodesAssumption DEF IsList, Linked
    <2>3. sNext[last[u]] # null => sNext[last[u]] \in S
      BY <1>3 DEF IsList, Linked, Ended
    <2>4. ClaimsOf(u, S, rank)'
      <3> HIDE DEF S
      <3> QED
        BY <1>3, <1>6, <2>2, <2>3 DEF ClaimsOf, Chaining, IsList
    <2>5. HolderOf(u, role, holder)' /\ ReaderOf(u, role, holder)'
      BY <1>2, <1>6, <1>7 DEF ThreadInv, HolderOf, ReaderOf, Pushes, HasPopped, Chaining, Reads
    <2>6. ThreadInv(u, role, holder, rank)'
      BY <2>4, <2>5 DEF ThreadInv
    <2> QED
      BY <1>1, <1>6, <1>7, <2>1, <2>6, SamePlaces DEF StackInv, Pushes, HasPopped, Chaining
  <1> QED
    BY <1>5, <1>8, <1>9 DEF StackInv

\* A pop that has chained its old head leaves.
LEMMA ExitPopInv ==
    ASSUME StackInv, NEW u \in Threads, LFS!ExitPop(u)
    PROVE  StackInv'
  <1> USE DEF LFS!ExitPop, LFS!Return, LFS!At, LFS!Goto, LFS!memory, LFS!bounds
  <1>1. PICK role, holder, rank : LaidOut(role, holder, rank)
    BY DEF StackInv
  <1>2. ThreadInv(u, role, holder, rank)
    BY <1>1 DEF LaidOut
  <1>3. NodesTypeOK'
    BY DEF StackInv, NodesTypeOK, Labels, LFS!Pointers
  <1>4. /\ sPc[u] = "exit" /\ sPc'[u] = "idle" /\ \A v \in Threads \ {u} : Keeps(v)
    BY DEF StackInv, NodesTypeOK, Keeps
  <1>5. CountInv'
    BY <1>4, CountDown DEF StackInv, LFS!InPop
  <1>6. LaidOut(role, holder, rank)'
    <2>1. \A n \in Nodes : Shared(role, holder, n) => Shared(role, holder, n)'
      BY <1>1, <1>4 DEF Shared, LaidOut, GhostTypes, PlaceOf, Keeps, HasPopped, Chaining
    <2>2. ThreadInv(u, role, holder, rank)'
      BY <1>2, <1>4 DEF ThreadInv, HolderOf, ClaimsOf, ReaderOf, Pushes, HasPopped,
                              Chaining, Reads
    <2> QED
      BY <1>1, <1>4, <2>1, <2>2, SamePlaces DEF StackInv, Pushes, HasPopped, Chaining
  <1> QED
    BY <1>3, <1>5, <1>6 DEF StackInv

\* A new node is its thread's.
LEMMA NewNodeInv ==
    ASSUME StackInv, NEW u \in Threads, NEW n \in Nodes, NEW w \in Values, LFS!NewNode(u, n, w)
    PROVE  StackInv'
  <1> USE DEF LFS!NewNode, LFS!At, LFS!Goto
  <1>1. PICK role, holder, rank : LaidOut(role, holder, rank)
    BY DEF StackInv
  <1> DEFINE rolf == [role EXCEPT ![n] = "push"]
             holdes == [holder EXCEPT ![n] = u]
  <1>2. NodesTypeOK'
    BY DEF StackInv, NodesTypeOK, Labels, LFS!Pointers
  <1>3. /\ sPc[u] = "idle" /\ sPc'[u] = "push load" /\ sMine'[u] = n
        /\ \A v \in Threads \ {u} : Keeps(v)
        /\ UNCHANGED <<sHead, to_be_deleted, threads_in_pop, nodes>>
        /\ n \notin sAllocated /\ sAllocated' = sAllocated \cup {n}
        /\ \A m \in Nodes \ {n} : sNext'[m] = sNext[m]
    BY DEF StackInv, NodesTypeOK, Keeps
  <1>4. CountInv'
    BY <1>3, CountSame DEF StackInv, LFS!InPop
  <1>5. /\ ThreadInv(u, role, holder, rank) /\ GhostTypes(role, holder, rank)
        /\ role[n] = "free" /\ \A m \in Nodes : PlaceOf(m, role, holder)
    BY <1>1, <1>3 DEF LaidOut, PlaceOf
  <1>6. /\ rolf[n] = "push" /\ holdes[n] = u
        /\ \A m \in Nodes \ {n} : rolf[m] = role[m] /\ holdes[m] = holder[m]
        /\ GhostTypes(rolf, holdes, rank)
    BY <1>5 DEF GhostTypes, Roles
  <1> HIDE DEF rolf, holdes
  <1>7. LaidOut(rolf, holdes, rank)'
    <2>1. ASSUME NEW m \in Nodes
          PROVE  PlaceOf(m, rolf, holdes)'
      <3>1. CASE m = n
        BY <1>3, <1>6, <3>1 DEF PlaceOf, Pushes
      <3>2. CASE m # n
        <4>1. role[m] \in {"push", "pop"} => holder[m] # u
          BY <1>3, <1>5 DEF PlaceOf, Pushes, HasPopped, Chaining
        <4> QED
          BY <1>3, <1>5, <1>6, <3>2, <4>1, PlacesKept
      <3> QED
        BY <3>1, <3>2
    <2>2. ListsInv(rolf, rank)'
      <3>1. ListsInv(role, rank)
        BY <1>1 DEF LaidOut
      <3>2. Of(rolf, "stack") = Of(role, "stack") /\ Of(rolf, "pending") = Of(role, "pending")
        BY <1>5, <1>6 DEF Of
      <3>3. \A m \in Nodes : role[m] \in {"stack", "pending"} =>
                                sNext'[m] = sNext[m] /\ rank[m] = rank[m]
        BY <1>3, <1>5
      <3> QED
        BY <1>3, <3>1, <3>2, <3>3, ListsKept
    <2>3. TheirsKept(u, role, holder, rank, rolf, holdes, rank)
      BY <1>3, <1>5, <1>6 DEF TheirsKept, Theirs, Owned
    <2>4. ReadersKept(u, role, rolf, holdes)
      <3> SUFFICES ASSUME NEW v \in Threads \ {u}, NEW m \in Nodes, Reads(v), sMine[v] = m
                   PROVE  /\ Shared(rolf, holdes, m)'
                          /\ rolf[m] = "stack" => role[m] = "stack" /\ sNext'[m] = sNext[m]
        BY DEF ReadersKept
      <3>1. Shared(role, holder, m) /\ PlaceOf(m, role, holder)
        BY <1>1, <1>5 DEF LaidOut, ThreadInv, ReaderOf
      <3>2. m # n
        BY <1>5, <3>1 DEF Shared
      <3>3. Shared(rolf, holdes, m)'
        <4>1. role[m] = "pop" => holder[m] # u
          BY <1>3, <3>1 DEF PlaceOf, HasPopped, Chaining
        <4> QED
          BY <1>3, <1>6, <3>1, <3>2, <4>1, SharedKept
      <3> QED
        BY <1>3, <1>6, <3>1, <3>2, <3>3
    <2>5. \A v \in Threads \ {u} : ThreadInv(v, rolf, holdes, rank)'
      BY <1>1, <1>3, <2>3, <2>4, OthersKeep DEF StackInv
    <2>6. ThreadInv(u, rolf, holdes, rank)'
      <3>1. HolderOf(u, rolf, holdes)' /\ ReaderOf(u, rolf, holdes)'
        BY <1>3, <1>6 DEF HolderOf, ReaderOf, Pushes, HasPopped, Chaining, Reads
      <3>2. ClaimedBy(rolf, holdes, u) = {}
        BY <1>3, <1>5, <1>6 DEF ThreadInv, ClaimsOf, ClaimedBy
      <3>3. ClaimsOf(u, {}, rank)'
        BY <1>3 DEF ClaimsOf, Chaining
      <3> QED
        BY <3>1, <3>2, <3>3 DEF ThreadInv
    <2> QED
      BY <1>6, <2>1, <2>2, <2>5, <2>6 DEF LaidOut, GhostTypes
  <1> QED
    BY <1>2, <1>4, <1>7 DEF StackInv

\* A push writes the head that it sees to its own node.
LEMMA PushReadsInv ==
    ASSUME StackInv, NEW u \in Threads, Pushes(u), sNext' = [sNext EXCEPT ![sMine[u]] = sHead],
           sPc' = [sPc EXCEPT ![u] = "push cas"],
           UNCHANGED <<sHead, to_be_deleted, threads_in_pop, sDatum, sAllocated, sMine, nodes,
                       last, sSeen, res>>
    PROVE  StackInv'
  <1>1. PICK role, holder, rank : LaidOut(role, holder, rank)
    BY DEF StackInv
  <1>2. NodesTypeOK'
    BY DEF StackInv, NodesTypeOK, Labels
  <1>3. /\ Pushes(u) /\ sPc'[u] = "push cas" /\ \A v \in Threads \ {u} : Keeps(v)
        /\ UNCHANGED <<sMine, nodes, sHead, to_be_deleted, sAllocated>>
        /\ \A n \in Nodes : n = sMine[u] \/ sNext'[n] = sNext[n]
    BY DEF StackInv, NodesTypeOK, Keeps
  <1>4. CountInv'
    BY <1>3, CountSame DEF StackInv, LFS!InPop, Pushes
  <1>5. ThreadInv(u, role, holder, rank)
    BY <1>1 DEF LaidOut
  <1>6. sMine[u] \in Nodes /\ role[sMine[u]] = "push" /\ holder[sMine[u]] = u
    BY <1>3, <1>5 DEF ThreadInv, HolderOf
  <1>7. ThreadInv(u, role, holder, rank)'
    BY <1>3, <1>5 DEF ThreadInv, HolderOf, ClaimsOf, ReaderOf, Pushes, HasPopped, Chaining,
                      Reads
  <1>8. \A n \in Nodes : Shared(role, holder, n) => Shared(role, holder, n)'
    BY <1>1, <1>3, SharedKept DEF LaidOut, PlaceOf, Pushes, HasPopped, Chaining
  <1>9. \A n \in Nodes : (Owned(role, n) /\ holder[n] = u) \/ sNext'[n] = sNext[n]
    BY <1>3, <1>6 DEF Owned
  <1>10. LaidOut(role, holder, rank)'
    BY <1>1, <1>3, <1>7, <1>8, <1>9, SamePlaces DEF StackInv, Pushes, HasPopped, Chaining
  <1> QED
    BY <1>2, <1>4, <1>10 DEF StackInv

\* An exchange puts the new node on the stack: its next is the head.
LEMMA PushedInv ==
    ASSUME StackInv, NEW u \in Threads, LFS!PushCas(u), sHead = sNext[sMine[u]]
    PROVE  StackInv'
  <1> USE DEF LFS!PushCas, LFS!At, LFS!Goto, LFS!bounds
  <1>1. PICK role, holder, rank : LaidOut(role, holder, rank)
    BY DEF StackInv
  <1>2. NodesTypeOK'
    BY DEF StackInv, NodesTypeOK, Labels, LFS!Pointers
  <1>n. PICK n, h : n = sMine[u] /\ h = sHead
    OBVIOUS
  <1> DEFINE top == IF h = null THEN 1 ELSE rank[h] + 1
             rolf == [role EXCEPT ![n] = "stack"]
             rang == [rank EXCEPT ![n] = top]
  <1>3. /\ sPc[u] = "push cas" /\ sPc'[u] = "idle" /\ sHead' = n /\ sNext[n] = sHead
        /\ sMine[u] = n /\ h = sHead
        /\ \A v \in Threads \ {u} : Keeps(v)
        /\ UNCHANGED <<to_be_deleted, threads_in_pop, nodes, sNext, sAllocated>>
    BY <1>n DEF StackInv, NodesTypeOK, Keeps
  <1>4. CountInv'
    BY <1>3, CountSame DEF StackInv, LFS!InPop
  <1>5. /\ ThreadInv(u, role, holder, rank) /\ GhostTypes(role, holder, rank)
        /\ ListsInv(role, rank) /\ \A m \in Nodes : PlaceOf(m, role, holder)
    BY <1>1 DEF LaidOut
  <1>6. n \in Nodes /\ role[n] = "push" /\ holder[n] = u
    BY <1>3, <1>5 DEF ThreadInv, HolderOf, Pushes
  <1>7. rang \in [Nodes -> Nat] /\ IsList(Of(role, "stack") \cup {n}, n, sNext, rang)
    BY <1>3, <1>5, <1>6, OneMore DEF GhostTypes, ListsInv, Of
  <1>8. /\ rolf[n] = "stack" /\ \A m \in Nodes \ {n} : rolf[m] = role[m] /\ rang[m] = rank[m]
        /\ GhostTypes(rolf, holder, rang)
    BY <1>5, <1>6, <1>7 DEF GhostTypes, Roles
  <1> HIDE DEF rolf, rang, top
  <1>9. LaidOut(rolf, holder, rang)'
    <2>1. ASSUME NEW m \in Nodes
          PROVE  PlaceOf(m, rolf, holder)'
      <3>1. CASE m = n
        BY <1>3, <1>5, <1>6, <1>8, <3>1 DEF PlaceOf
      <3>2. CASE m # n
        <4>1. role[m] \in {"push", "pop"} => holder[m] # u
          BY <1>3, <1>5, <3>2 DEF PlaceOf, Pushes, HasPopped, Chaining
        <4> QED
          BY <1>3, <1>5, <1>8, <3>2, <4>1, PlacesKept
      <3> QED
        BY <3>1, <3>2
    <2>2. ListsInv(rolf, rang)'
      <3>1. Of(rolf, "stack") = Of(role, "stack") \cup {n}
        BY <1>6, <1>8 DEF Of
      <3>2. Of(rolf, "pending") = Of(role, "pending")
        BY <1>6, <1>8 DEF Of
      <3>3. \A m \in Of(role, "pending") : rang[m] = rank[m]
        BY <1>6, <1>8 DEF Of
      <3>4. IsList(Of(role, "pending"), to_be_deleted, sNext, rang)
        BY <1>5, <3>3, SameList DEF ListsInv
      <3> QED
        BY <1>3, <1>7, <3>1, <3>2, <3>4 DEF ListsInv
    <2>3. TheirsKept(u, role, holder, rank, rolf, holder, rang)
      BY <1>3, <1>6, <1>8 DEF TheirsKept, Theirs, Owned
    <2>4. ReadersKept(u, role, rolf, holder)
      <3> SUFFICES ASSUME NEW v \in Threads \ {u}, NEW m \in Nodes, Reads(v), sMine[v] = m
                   PROVE  /\ Shared(rolf, holder, m)'
                          /\ rolf[m] = "stack" => role[m] = "stack" /\ sNext'[m] = sNext[m]
        BY DEF ReadersKept
      <3>1. Shared(role, holder, m) /\ PlaceOf(m, role, holder)
        BY <1>1, <1>5 DEF LaidOut, ThreadInv, ReaderOf
      <3>2. m # n
        BY <1>6, <3>1 DEF Shared
      <3>3. role[m] = "pop" => holder[m] # u
        BY <1>3, <3>1 DEF PlaceOf, HasPopped, Chaining
      <3>4. Shared(rolf, holder, m)'
        BY <1>3, <1>8, <3>1, <3>2, <3>3, SharedKept
      <3> QED
        BY <1>3, <1>8, <3>1, <3>2, <3>4
    <2>5. \A v \in Threads \ {u} : ThreadInv(v, rolf, holder, rang)'
      BY <1>1, <1>3, <2>3, <2>4, OthersKeep DEF StackInv
    <2>6. ThreadInv(u, rolf, holder, rang)'
      <3>1. HolderOf(u, rolf, holder)' /\ ReaderOf(u, rolf, holder)'
        BY <1>3 DEF HolderOf, ReaderOf, Pushes, HasPopped, Chaining, Reads
      <3>2. ClaimedBy(rolf, holder, u) = {}
        BY <1>3, <1>5, <1>8 DEF ThreadInv, ClaimsOf, ClaimedBy
      <3>3. ClaimsOf(u, {}, rang)'
        BY <1>3 DEF ClaimsOf, Chaining
      <3> QED
        BY <3>1, <3>2, <3>3 DEF ThreadInv
    <2> QED
      BY <1>8, <2>1, <2>2, <2>5, <2>6 DEF LaidOut, GhostTypes
  <1> QED
    BY <1>2, <1>4, <1>9 DEF StackInv

\* An exchange takes the head from the stack: what was read as its next is its next
\* still, since a node that is read cannot have been deleted and pushed again.
LEMMA PoppedInv ==
    ASSUME StackInv, NEW u \in Threads, sPc[u] = "pop cas", sHead = sMine[u],
           sHead' = sSeen[u], LFS!Goto(u, "take"),
           UNCHANGED <<to_be_deleted, threads_in_pop, sNext, sDatum, sAllocated, sMine, nodes,
                       last, sSeen, res>>
    PROVE  StackInv' /\ sHead \in Nodes /\ sHead' = sNext[sHead]
  <1> USE DEF LFS!Goto
  <1>1. PICK role, holder, rank : LaidOut(role, holder, rank)
    BY DEF StackInv
  <1>2. NodesTypeOK'
    BY DEF StackInv, NodesTypeOK, Labels
  <1>n. PICK n : n = sMine[u]
    OBVIOUS
  <1> DEFINE rolf == [role EXCEPT ![n] = "pop"]
             holdes == [holder EXCEPT ![n] = u]
  <1>3. /\ sPc[u] = "pop cas" /\ sPc'[u] = "take" /\ sHead = n /\ sHead' = sSeen[u]
        /\ sMine[u] = n /\ sMine'[u] = n /\ \A v \in Threads \ {u} : Keeps(v)
        /\ UNCHANGED <<to_be_deleted, threads_in_pop, nodes, sNext, sAllocated>>
    BY <1>n DEF StackInv, NodesTypeOK, Keeps
  <1>4. CountInv'
    BY <1>3, CountSame DEF StackInv, LFS!InPop
  <1>5. /\ ThreadInv(u, role, holder, rank) /\ GhostTypes(role, holder, rank)
        /\ ListsInv(role, rank) /\ \A m \in Nodes : PlaceOf(m, role, holder)
    BY <1>1 DEF LaidOut
  <1>6. n \in Nodes /\ role[n] = "stack" /\ sHead' = sNext[n] /\ n # null
    <2>1. n \in Nodes /\ n # null
      BY <1>3, <1>5, NodesAssumption DEF ThreadInv, ReaderOf, Reads
    <2>2. role[n] = "stack"
      BY <1>3, <1>5, <2>1 DEF ListsInv, IsList, Linked, Of
    <2> QED
      BY <1>3, <1>5, <2>1, <2>2 DEF ThreadInv, ReaderOf
  <1>7. IsList(Of(role, "stack") \ {n}, sNext[n], sNext, rank)
    BY <1>3, <1>5, <1>6, OneLess DEF GhostTypes, ListsInv, Of
  <1>8. /\ rolf[n] = "pop" /\ holdes[n] = u
        /\ \A m \in Nodes \ {n} : rolf[m] = role[m] /\ holdes[m] = holder[m]
        /\ GhostTypes(rolf, holdes, rank)
    BY <1>5, <1>6 DEF GhostTypes, Roles
  <1> HIDE DEF rolf, holdes
  <1>9. LaidOut(rolf, holdes, rank)'
    <2>1. ASSUME NEW m \in Nodes
          PROVE  PlaceOf(m, rolf, holdes)'
      <3>1. CASE m = n
        BY <1>3, <1>5, <1>6, <1>8, <3>1 DEF PlaceOf, HasPopped
      <3>2. CASE m # n
        <4>1. role[m] \in {"push", "pop"} => holder[m] # u
          BY <1>3, <1>5, <3>2 DEF PlaceOf, Pushes, HasPopped, Chaining
        <4> QED
          BY <1>3, <1>5, <1>8, <3>2, <4>1, PlacesKept
      <3> QED
        BY <3>1, <3>2
    <2>2. ListsInv(rolf, rank)'
      <3>1. Of(rolf, "stack") = Of(role, "stack") \ {n}
        BY <1>6, <1>8 DEF Of
      <3>2. Of(rolf, "pending") = Of(role, "pending")
        BY <1>6, <1>8 DEF Of
      <3> QED
        BY <1>3, <1>5, <1>6, <1>7, <3>1, <3>2 DEF ListsInv
    <2>3. TheirsKept(u, role, holder, rank, rolf, holdes, rank)
      BY <1>3, <1>6, <1>8 DEF TheirsKept, Theirs, Owned
    <2>4. ReadersKept(u, role, rolf, holdes)
      <3> SUFFICES ASSUME NEW v \in Threads \ {u}, NEW m \in Nodes, Reads(v), sMine[v] = m
                   PROVE  /\ Shared(rolf, holdes, m)'
                          /\ rolf[m] = "stack" => role[m] = "stack" /\ sNext'[m] = sNext[m]
        BY DEF ReadersKept
      <3>1. Shared(role, holder, m) /\ PlaceOf(m, role, holder)
        BY <1>1, <1>5 DEF LaidOut, ThreadInv, ReaderOf
      <3>2. role[m] = "pop" => holder[m] # u
        BY <1>3, <3>1 DEF PlaceOf, HasPopped, Chaining
      <3>3. CASE m # n
        <4>1. Shared(rolf, holdes, m)'
          BY <1>3, <1>8, <3>1, <3>2, <3>3, SharedKept
        <4> QED
          BY <1>3, <1>8, <3>1, <3>3, <4>1
      <3>4. CASE m = n
        BY <1>3, <1>8, <3>4 DEF Shared
      <3> QED
        BY <3>3, <3>4
    <2>5. \A v \in Threads \ {u} : ThreadInv(v, rolf, holdes, rank)'
      BY <1>1, <1>3, <2>3, <2>4, OthersKeep DEF StackInv
    <2>6. ThreadInv(u, rolf, holdes, rank)'
      <3>1. HolderOf(u, rolf, holdes)' /\ ReaderOf(u, rolf, holdes)'
        BY <1>3, <1>6, <1>8 DEF HolderOf, ReaderOf, Pushes, HasPopped, Chaining, Reads
      <3>2. ClaimedBy(rolf, holdes, u) = {}
        BY <1>3, <1>5, <1>8 DEF ThreadInv, ClaimsOf, ClaimedBy
      <3>3. ClaimsOf(u, {}, rank)'
        BY <1>3 DEF ClaimsOf, Chaining
      <3> QED
        BY <3>1, <3>2, <3>3 DEF ThreadInv
    <2> QED
      BY <1>8, <2>1, <2>2, <2>5, <2>6 DEF LaidOut, GhostTypes
  <1> QED
    BY <1>2, <1>3, <1>4, <1>6, <1>9 DEF StackInv

\* A pop that is not alone starts to chain its old head, as a list of one node.
LEMMA StartsToChainInv ==
    ASSUME StackInv, NEW u \in Threads, LFS!TryReclaim(u), threads_in_pop # 1, sMine[u] # null
    PROVE  StackInv'
  <1> USE DEF LFS!TryReclaim, LFS!At, LFS!Goto, LFS!memory
  <1>1. PICK role, holder, rank : LaidOut(role, holder, rank)
    BY DEF StackInv
  <1>n. PICK n : n = sMine[u]
    OBVIOUS
  <1> DEFINE rolf == [role EXCEPT ![n] = "claim"]
             rang == [rank EXCEPT ![n] = 1]
  <1>2. NodesTypeOK'
    BY DEF StackInv, NodesTypeOK, Labels
  <1>3. /\ sPc[u] = "reclaim" /\ sPc'[u] = "chain load" /\ sMine[u] = n /\ sMine'[u] = n
        /\ nodes'[u] = n /\ last'[u] = n /\ n # null
        /\ \A v \in Threads \ {u} : Keeps(v)
        /\ UNCHANGED <<sHead, to_be_deleted, threads_in_pop, sNext, sAllocated>>
    BY <1>n DEF StackInv, NodesTypeOK, Keeps
  <1>4. CountInv'
    BY <1>3, CountSame DEF StackInv, LFS!InPop
  <1>5. /\ ThreadInv(u, role, holder, rank) /\ GhostTypes(role, holder, rank)
        /\ ListsInv(role, rank) /\ \A m \in Nodes : PlaceOf(m, role, holder)
    BY <1>1 DEF LaidOut
  <1>6. n \in Nodes /\ role[n] = "pop" /\ holder[n] = u
    BY <1>3, <1>5 DEF ThreadInv, HolderOf, HasPopped, StackInv, NodesTypeOK, LFS!Pointers
  <1>7. /\ rolf[n] = "claim" /\ rang[n] = 1
        /\ \A m \in Nodes \ {n} : rolf[m] = role[m] /\ rang[m] = rank[m]
        /\ GhostTypes(rolf, holder, rang)
    BY <1>5, <1>6 DEF GhostTypes, Roles
  <1> HIDE DEF rolf, rang
  <1>8. LaidOut(rolf, holder, rang)'
    <2>1. ASSUME NEW m \in Nodes
          PROVE  PlaceOf(m, rolf, holder)'
      <3>1. CASE m = n
        BY <1>3, <1>5, <1>6, <1>7, <3>1 DEF PlaceOf
      <3>2. CASE m # n
        <4>1. role[m] \in {"push", "pop"} => holder[m] # u
          BY <1>3, <1>5, <3>2 DEF PlaceOf, Pushes, HasPopped, Chaining
        <4> QED
          BY <1>3, <1>5, <1>7, <3>2, <4>1, PlacesKept
      <3> QED
        BY <3>1, <3>2
    <2>2. ListsInv(rolf, rang)'
      <3>1. Of(rolf, "stack") = Of(role, "stack") /\ Of(rolf, "pending") = Of(role, "pending")
        BY <1>6, <1>7 DEF Of
      <3>2. \A m \in Nodes : role[m] \in {"stack", "pending"} =>
                                sNext'[m] = sNext[m] /\ rang[m] = rank[m]
        BY <1>3, <1>6, <1>7
      <3>3. ListsInv(role, rank) /\ UNCHANGED <<sHead, to_be_deleted>>
        BY <1>3, <1>5
      <3> QED
        BY ONLY <3>1, <3>2, <3>3, ListsKept
    <2>3. TheirsKept(u, role, holder, rank, rolf, holder, rang)
      BY <1>3, <1>6, <1>7 DEF TheirsKept, Theirs, Owned
    <2>4. ReadersKept(u, role, rolf, holder)
      <3> SUFFICES ASSUME NEW v \in Threads \ {u}, NEW m \in Nodes, Reads(v), sMine[v] = m
                   PROVE  /\ Shared(rolf, holder, m)'
                          /\ rolf[m] = "stack" => role[m] = "stack" /\ sNext'[m] = sNext[m]
        BY DEF ReadersKept
      <3>1. Shared(role, holder, m) /\ PlaceOf(m, role, holder)
        BY <1>1, <1>5 DEF LaidOut, ThreadInv, ReaderOf
      <3>2. CASE m # n
        <4>1. role[m] = "pop" => holder[m] # u
          BY <1>3, <3>1, <3>2 DEF PlaceOf, HasPopped, Chaining
        <4>2. Shared(rolf, holder, m)'
          BY <1>3, <1>7, <3>1, <3>2, <4>1, SharedKept
        <4> QED
          BY <1>3, <1>7, <3>1, <3>2, <4>2
      <3>3. CASE m = n
        BY <1>3, <1>6, <1>7, <3>3 DEF Shared
      <3> QED
        BY <3>2, <3>3
    <2>5. \A v \in Threads \ {u} : ThreadInv(v, rolf, holder, rang)'
      BY <1>1, <1>3, <2>3, <2>4, OthersKeep DEF StackInv
    <2>6. ThreadInv(u, rolf, holder, rang)'
      <3>1. HolderOf(u, rolf, holder)' /\ ReaderOf(u, rolf, holder)'
        BY <1>3 DEF HolderOf, ReaderOf, Pushes, HasPopped, Chaining, Reads
      <3>2. ClaimedBy(rolf, holder, u) = {n}
        <4>1. ClaimedBy(role, holder, u) = {}
          BY <1>3, <1>5 DEF ThreadInv, ClaimsOf
        <4>2. \A m \in Nodes : ~ (role[m] = "claim" /\ holder[m] = u)
          BY <4>1 DEF ClaimedBy
        <4>3. \A m \in Nodes : rolf[m] = "claim" /\ holder[m] = u <=> m = n
          BY <1>6, <1>7, <4>2
        <4> QED
          BY <1>6, <4>3 DEF ClaimedBy
      <3>3. Linked({n}, n, sNext, rang)
        BY <1>6, <1>7, JustOne
      <3>4. ClaimsOf(u, {n}, rang)'
        BY <1>3, <1>7, <3>3 DEF ClaimsOf, Chaining
      <3> QED
        BY <3>1, <3>2, <3>4 DEF ThreadInv
    <2> QED
      BY <1>7, <2>1, <2>2, <2>5, <2>6 DEF LaidOut, GhostTypes
  <1> QED
    BY <1>2, <1>4, <1>8 DEF StackInv

\* pop with a null pointer and another thread in pop: the program crashes where it is.
LEMMA TryReclaimInv ==
    ASSUME StackInv, NEW u \in Threads, LFS!TryReclaim(u)
    PROVE  StackInv'
  <1>1. CASE threads_in_pop = 1
    BY <1>1, GoesToClaimInv
  <1>2. CASE threads_in_pop # 1 /\ sMine[u] # null
    BY <1>2, StartsToChainInv
  <1>3. CASE threads_in_pop # 1 /\ sMine[u] = null
    <2>1. UNCHANGED <<sHead, to_be_deleted, threads_in_pop, sNext, sDatum, sAllocated, sPc, sMine,
                      nodes, last, sSeen, res>>
      BY <1>3 DEF LFS!TryReclaim, LFS!memory
    <2> QED
      BY <2>1, SameStack
  <1> QED
    BY <1>1, <1>2, <1>3

\* A thread that was alone in pop when it looked takes the list to_be_deleted.
LEMMA ClaimListInv ==
    ASSUME StackInv, NEW u \in Threads, LFS!Claim(u)
    PROVE  StackInv'
  <1> USE DEF LFS!Claim, LFS!At, LFS!Goto, LFS!memory, LFS!bounds
  <1>1. PICK role, holder, rank : LaidOut(role, holder, rank)
    BY DEF StackInv
  <1> DEFINE rolf == [n \in Nodes |-> IF role[n] = "pending" THEN "claim" ELSE role[n]]
             holdes == [n \in Nodes |-> IF role[n] = "pending" THEN u ELSE holder[n]]
  <1>2. NodesTypeOK'
    BY DEF StackInv, NodesTypeOK, Labels, LFS!Pointers
  <1>3. /\ sPc[u] = "claim" /\ sPc'[u] = "leave" /\ sMine'[u] = sMine[u]
        /\ nodes'[u] = to_be_deleted /\ to_be_deleted' = null
        /\ \A v \in Threads \ {u} : Keeps(v)
        /\ UNCHANGED <<sHead, threads_in_pop, sNext, sAllocated>>
    BY DEF StackInv, NodesTypeOK, Keeps
  <1>4. CountInv'
    BY <1>3, CountSame DEF StackInv, LFS!InPop
  <1>5. /\ ThreadInv(u, role, holder, rank) /\ GhostTypes(role, holder, rank)
        /\ ListsInv(role, rank) /\ \A m \in Nodes : PlaceOf(m, role, holder)
    BY <1>1 DEF LaidOut
  <1>6. /\ \A n \in Nodes : /\ role[n] = "pending" => rolf[n] = "claim" /\ holdes[n] = u
                            /\ role[n] # "pending" => rolf[n] = role[n] /\ holdes[n] = holder[n]
        /\ GhostTypes(rolf, holdes, rank)
    BY <1>5 DEF GhostTypes, Roles
  <1> HIDE DEF rolf, holdes
  <1>7. LaidOut(rolf, holdes, rank)'
    <2>1. ASSUME NEW m \in Nodes
          PROVE  PlaceOf(m, rolf, holdes)'
      <3>1. CASE role[m] = "pending"
        BY <1>3, <1>5, <1>6, <3>1 DEF PlaceOf
      <3>2. CASE role[m] # "pending" /\ holder[m] # u
        BY <1>3, <1>5, <1>6, <3>2, PlacesKept
      <3>3. CASE role[m] # "pending" /\ holder[m] = u
        BY <1>3, <1>5, <1>6, <3>3 DEF PlaceOf, Pushes, HasPopped, Chaining
      <3> QED
        BY <3>1, <3>2, <3>3
    <2>2. ListsInv(rolf, rank)'
      <3>1. Of(rolf, "stack") = Of(role, "stack") /\ Of(rolf, "pending") = {}
        BY <1>6 DEF Of
      <3>2. IsList({}, null, sNext, rank)
        BY DEF IsList, Linked, Ended
      <3> QED
        BY <1>3, <1>5, <3>1, <3>2 DEF ListsInv
    <2>3. TheirsKept(u, role, holder, rank, rolf, holdes, rank)
      BY <1>3, <1>6 DEF TheirsKept, Theirs, Owned
    <2>4. ReadersKept(u, role, rolf, holdes)
      <3> SUFFICES ASSUME NEW v \in Threads \ {u}, NEW m \in Nodes, Reads(v), sMine[v] = m
                   PROVE  /\ Shared(rolf, holdes, m)'
                          /\ rolf[m] = "stack" => role[m] = "stack" /\ sNext'[m] = sNext[m]
        BY DEF ReadersKept
      <3>1. Shared(role, holder, m) /\ PlaceOf(m, role, holder)
        BY <1>1, <1>5 DEF LaidOut, ThreadInv, ReaderOf
      <3>2. CASE role[m] # "pending"
        <4>1. role[m] = "pop" => holder[m] # u
          BY <1>3, <3>1 DEF Shared
        <4>2. Shared(rolf, holdes, m)'
          BY <1>3, <1>6, <3>1, <3>2, <4>1, SharedKept
        <4> QED
          BY <1>3, <1>6, <3>2, <4>2
      <3>3. CASE role[m] = "pending"
        BY <1>3, <1>6, <3>3 DEF Shared
      <3> QED
        BY <3>2, <3>3
    <2>5. \A v \in Threads \ {u} : ThreadInv(v, rolf, holdes, rank)'
      BY <1>1, <1>3, <2>3, <2>4, OthersKeep DEF StackInv
    <2>6. ThreadInv(u, rolf, holdes, rank)'
      <3>1. HolderOf(u, rolf, holdes)'
        <4>1. HasPopped(u) => sMine[u] \in Nodes
          BY DEF HasPopped, StackInv, NodesTypeOK, LFS!Pointers
        <4> QED
          BY <1>3, <1>5, <1>6, <4>1 DEF ThreadInv, HolderOf, Pushes, HasPopped, Chaining
      <3>2. ReaderOf(u, rolf, holdes)'
        BY <1>3 DEF ReaderOf, Reads
      <3>3. ClaimedBy(rolf, holdes, u) = Of(role, "pending")
        <4>1. ClaimedBy(role, holder, u) = {}
          BY <1>3, <1>5 DEF ThreadInv, ClaimsOf
        <4> QED
          BY <1>6, <4>1 DEF ClaimedBy, Of
      <3>4. ClaimsOf(u, Of(role, "pending"), rank)'
        BY <1>3, <1>5 DEF ListsInv, ClaimsOf, Chaining
      <3> QED
        BY <3>1, <3>2, <3>3, <3>4 DEF ThreadInv
    <2> QED
      BY <1>6, <2>1, <2>2, <2>5, <2>6 DEF LaidOut, GhostTypes
  <1> QED
    BY <1>2, <1>4, <1>7 DEF StackInv

\* A node of the list is deleted: the list has one node less, and nobody reads it.
LEMMA DeleteNodeInv ==
    ASSUME StackInv, NEW u \in Threads, LFS!Delete(u)
    PROVE  StackInv'
  <1> USE DEF LFS!Delete, LFS!At, LFS!Goto, LFS!memory, LFS!bounds
  <1>1. PICK role, holder, rank : LaidOut(role, holder, rank)
    BY DEF StackInv
  <1>n. PICK n : n = nodes[u]
    OBVIOUS
  <1> DEFINE rolf == [role EXCEPT ![n] = "free"]
  <1>2. NodesTypeOK'
    BY DEF StackInv, NodesTypeOK, Labels
  <1>3. /\ sPc[u] = "delete" /\ nodes[u] = n /\ sMine'[u] = sMine[u]
        /\ nodes'[u] = sSeen[u] /\ sAllocated' = sAllocated \ {n}
        /\ \/ sSeen[u] = null /\ sPc'[u] = "delete head"
           \/ sSeen[u] # null /\ sPc'[u] = "delete next"
        /\ \A v \in Threads \ {u} : Keeps(v)
        /\ UNCHANGED <<sHead, to_be_deleted, threads_in_pop, sNext>>
    BY <1>n DEF StackInv, NodesTypeOK, Keeps
  <1>4. CountInv'
    BY <1>3, CountSame DEF StackInv, LFS!InPop
  <1>5. /\ ThreadInv(u, role, holder, rank) /\ GhostTypes(role, holder, rank)
        /\ ListsInv(role, rank) /\ \A m \in Nodes : PlaceOf(m, role, holder)
    BY <1>1 DEF LaidOut
  <1> DEFINE S == ClaimedBy(role, holder, u)
  <1>6. IsList(S, n, sNext, rank) /\ n # null /\ sSeen[u] = sNext[n] /\ n \in S
    <2>1. IsList(S, n, sNext, rank) /\ n # null /\ sSeen[u] = sNext[n]
      BY <1>3, <1>5 DEF ThreadInv, ClaimsOf
    <2> QED
      BY <2>1 DEF IsList, Linked
  <1>7. n \in Nodes /\ role[n] = "claim" /\ holder[n] = u
    BY <1>6 DEF ClaimedBy
  <1>8. /\ rolf[n] = "free" /\ \A m \in Nodes \ {n} : rolf[m] = role[m]
        /\ GhostTypes(rolf, holder, rank)
    BY <1>5, <1>7 DEF GhostTypes, Roles
  <1> HIDE DEF rolf
  <1>9. LaidOut(rolf, holder, rank)'
    <2>1. ASSUME NEW m \in Nodes
          PROVE  PlaceOf(m, rolf, holder)'
      <3>1. CASE m = n
        BY <1>3, <1>8, <3>1 DEF PlaceOf
      <3>2. CASE m # n /\ holder[m] # u
        BY <1>3, <1>5, <1>8, <3>2, PlacesKept
      <3>3. CASE m # n /\ holder[m] = u
        BY <1>3, <1>5, <1>8, <3>3 DEF PlaceOf, Pushes, HasPopped, Chaining
      <3> QED
        BY <3>1, <3>2, <3>3
    <2>2. ListsInv(rolf, rank)'
      <3>1. Of(rolf, "stack") = Of(role, "stack") /\ Of(rolf, "pending") = Of(role, "pending")
        BY <1>7, <1>8 DEF Of
      <3> QED
        BY <1>3, <1>5, <3>1 DEF ListsInv
    <2>3. TheirsKept(u, role, holder, rank, rolf, holder, rank)
      BY <1>3, <1>7, <1>8 DEF TheirsKept, Theirs, Owned
    <2>4. ReadersKept(u, role, rolf, holder)
      <3> SUFFICES ASSUME NEW v \in Threads \ {u}, NEW m \in Nodes, Reads(v), sMine[v] = m
                   PROVE  /\ Shared(rolf, holder, m)'
                          /\ rolf[m] = "stack" => role[m] = "stack" /\ sNext'[m] = sNext[m]
        BY DEF ReadersKept
      <3>1. Shared(role, holder, m) /\ PlaceOf(m, role, holder)
        BY <1>1, <1>5 DEF LaidOut, ThreadInv, ReaderOf
      <3>2. m # n /\ (role[m] \in {"pop", "claim"} => holder[m] # u)
        BY <1>3, <1>7, <3>1 DEF Shared
      <3>3. Shared(rolf, holder, m)'
        BY <1>3, <1>8, <3>1, <3>2, SharedKept
      <3> QED
        BY <1>3, <1>8, <3>2, <3>3
    <2>5. \A v \in Threads \ {u} : ThreadInv(v, rolf, holder, rank)'
      BY <1>1, <1>3, <2>3, <2>4, OthersKeep DEF StackInv
    <2>6. ThreadInv(u, rolf, holder, rank)'
      <3>1. HolderOf(u, rolf, holder)'
        <4>1. HasPopped(u) => sMine[u] \in Nodes
          BY DEF HasPopped, StackInv, NodesTypeOK, LFS!Pointers
        <4>2. HolderOf(u, role, holder)
          BY <1>5 DEF ThreadInv
        <4>3. sPc'[u] \in {"delete next", "delete head"}
          BY <1>3
        <4> QED
          BY <1>3, <1>7, <1>8, <4>1, <4>2, <4>3 DEF HolderOf, Pushes, HasPopped, Chaining
      <3>2. ReaderOf(u, rolf, holder)'
        BY <1>3 DEF ReaderOf, Reads
      <3>3. ClaimedBy(rolf, holder, u) = S \ {n}
        <4>1. \A m \in Nodes : rolf[m] = "claim" <=> role[m] = "claim" /\ m # n
          BY <1>8
        <4> QED
          BY <4>1 DEF ClaimedBy
      <3>4. IsList(S \ {n}, sNext[n], sNext, rank)
        <4>1. S \in SUBSET Nodes
          BY DEF ClaimedBy
        <4> HIDE DEF S
        <4> QED
          BY <1>5, <1>6, <4>1, OneLess DEF GhostTypes
      <3>5. ClaimsOf(u, S \ {n}, rank)'
        <4> HIDE DEF S
        <4>1. sNext[n] = null => S \ {n} = {}
          BY <3>4 DEF IsList, Linked
        <4> QED
          BY <1>3, <1>6, <3>4, <4>1 DEF ClaimsOf, Chaining
      <3> HIDE DEF S
      <3> QED
        BY <3>1, <3>2, <3>3, <3>5 DEF ThreadInv
    <2> QED
      BY <1>8, <2>1, <2>2, <2>5, <2>6 DEF LaidOut, GhostTypes
  <1> QED
    BY <1>2, <1>4, <1>9 DEF StackInv

\* The old head is deleted, if there is one, and the call returns.
LEMMA DeleteHeadInv ==
    ASSUME StackInv, NEW u \in Threads, LFS!DeleteHead(u)
    PROVE  StackInv'
  <1> USE DEF LFS!DeleteHead, LFS!Return, LFS!At, LFS!Goto, LFS!bounds
  <1>1. PICK role, holder, rank : LaidOut(role, holder, rank)
    BY DEF StackInv
  <1>n. PICK n : n = sMine[u]
    OBVIOUS
  <1> DEFINE rolf == [role EXCEPT ![n] = "free"]
  <1>2. NodesTypeOK'
    BY DEF StackInv, NodesTypeOK, Labels, LFS!Pointers
  <1>3. /\ sPc[u] = "delete head" /\ sPc'[u] = "idle" /\ sMine[u] = n
        /\ sAllocated' = sAllocated \ {n}
        /\ \A v \in Threads \ {u} : Keeps(v)
        /\ UNCHANGED <<sHead, to_be_deleted, threads_in_pop, sNext>>
    BY <1>n DEF StackInv, NodesTypeOK, Keeps
  <1>4. CountInv'
    BY <1>3, CountSame DEF StackInv, LFS!InPop
  <1>5. /\ ThreadInv(u, role, holder, rank) /\ GhostTypes(role, holder, rank)
        /\ ListsInv(role, rank) /\ \A m \in Nodes : PlaceOf(m, role, holder)
    BY <1>1 DEF LaidOut
  <1>6. n \in Nodes => role[n] = "pop" /\ holder[n] = u
    BY <1>3, <1>5, NodesAssumption DEF ThreadInv, HolderOf, HasPopped
  <1>7. /\ n \in Nodes => rolf[n] = "free"
        /\ \A m \in Nodes \ {n} : rolf[m] = role[m]
        /\ GhostTypes(rolf, holder, rank)
    BY <1>5 DEF GhostTypes, Roles
  <1> HIDE DEF rolf
  <1>8. LaidOut(rolf, holder, rank)'
    <2>1. ASSUME NEW m \in Nodes
          PROVE  PlaceOf(m, rolf, holder)'
      <3>1. CASE m = n
        BY <1>3, <1>7, <3>1 DEF PlaceOf
      <3>2. CASE m # n
        <4>1. role[m] \in {"push", "pop"} => holder[m] # u
          BY <1>3, <1>5, <3>2 DEF PlaceOf, Pushes, HasPopped, Chaining
        <4> QED
          BY <1>3, <1>5, <1>7, <3>2, <4>1, PlacesKept
      <3> QED
        BY <3>1, <3>2
    <2>2. ListsInv(rolf, rank)'
      <3>1. \A m \in Nodes : /\ rolf[m] = "stack" <=> role[m] = "stack"
                             /\ rolf[m] = "pending" <=> role[m] = "pending"
        BY <1>6, <1>7
      <3>2. Of(rolf, "stack") = Of(role, "stack") /\ Of(rolf, "pending") = Of(role, "pending")
        BY <3>1 DEF Of
      <3> QED
        BY <1>3, <1>5, <3>2 DEF ListsInv
    <2>3. TheirsKept(u, role, holder, rank, rolf, holder, rank)
      BY <1>3, <1>6, <1>7 DEF TheirsKept, Theirs, Owned
    <2>4. ReadersKept(u, role, rolf, holder)
      <3> SUFFICES ASSUME NEW v \in Threads \ {u}, NEW m \in Nodes, Reads(v), sMine[v] = m
                   PROVE  /\ Shared(rolf, holder, m)'
                          /\ rolf[m] = "stack" => role[m] = "stack" /\ sNext'[m] = sNext[m]
        BY DEF ReadersKept
      <3>1. Shared(role, holder, m) /\ PlaceOf(m, role, holder)
        BY <1>1, <1>5 DEF LaidOut, ThreadInv, ReaderOf
      <3>2. m # n /\ (role[m] = "pop" => holder[m] # u)
        BY <1>3, <1>6, <3>1 DEF Shared
      <3>3. Shared(rolf, holder, m)'
        BY <1>3, <1>7, <3>1, <3>2, SharedKept
      <3> QED
        BY <1>3, <1>7, <3>2, <3>3
    <2>5. \A v \in Threads \ {u} : ThreadInv(v, rolf, holder, rank)'
      BY <1>1, <1>3, <2>3, <2>4, OthersKeep DEF StackInv
    <2>6. ThreadInv(u, rolf, holder, rank)'
      <3>1. HolderOf(u, rolf, holder)' /\ ReaderOf(u, rolf, holder)'
        BY <1>3 DEF HolderOf, ReaderOf, Pushes, HasPopped, Chaining, Reads
      <3>2. ClaimedBy(rolf, holder, u) = {}
        <4>1. ClaimedBy(role, holder, u) = {}
          BY <1>3, <1>5 DEF ThreadInv, ClaimsOf
        <4>2. \A m \in Nodes : rolf[m] = "claim" => role[m] = "claim"
          BY <1>6, <1>7
        <4> QED
          BY <4>1, <4>2 DEF ClaimedBy
      <3>3. ClaimsOf(u, {}, rank)'
        BY <1>3 DEF ClaimsOf, Chaining
      <3> QED
        BY <3>1, <3>2, <3>3 DEF ThreadInv
    <2> QED
      BY <1>7, <2>1, <2>2, <2>5, <2>6 DEF LaidOut, GhostTypes
  <1> QED
    BY <1>2, <1>4, <1>8 DEF StackInv

\* The last node of a list that is chained is written: only the thread that chains
\* it reads it.
LEMMA ChainReadsInv ==
    ASSUME StackInv, NEW u \in Threads, Chaining(u), sPc' = [sPc EXCEPT ![u] = "chain cas"],
           sNext' = [sNext EXCEPT ![last[u]] = to_be_deleted],
           UNCHANGED <<sHead, to_be_deleted, threads_in_pop, sDatum, sAllocated, sMine, nodes,
                       last, sSeen, res>>
    PROVE  StackInv'
  <1>1. PICK role, holder, rank : LaidOut(role, holder, rank)
    BY DEF StackInv
  <1>2. NodesTypeOK'
    BY DEF StackInv, NodesTypeOK, Labels
  <1>3. /\ Chaining(u) /\ sPc'[u] = "chain cas" /\ \A v \in Threads \ {u} : Keeps(v)
        /\ UNCHANGED <<sMine, nodes, last, sHead, to_be_deleted, sAllocated>>
        /\ \A n \in Nodes : n = last[u] \/ sNext'[n] = sNext[n]
    BY DEF StackInv, NodesTypeOK, Keeps
  <1>4. CountInv'
    BY <1>3, CountSame DEF StackInv, LFS!InPop, Chaining
  <1>5. ThreadInv(u, role, holder, rank)
    BY <1>1 DEF LaidOut
  <1> DEFINE S == ClaimedBy(role, holder, u)
  <1>6. /\ Linked(S, nodes[u], sNext, rank) /\ nodes[u] # null
        /\ last[u] \in S /\ rank[last[u]] = 1
    BY <1>3, <1>5 DEF ThreadInv, ClaimsOf
  <1>7. \A n \in Nodes : (Owned(role, n) /\ holder[n] = u) \/ sNext'[n] = sNext[n]
    BY <1>3, <1>6 DEF Owned, ClaimedBy
  <1>8. ThreadInv(u, role, holder, rank)'
    <2>1. HolderOf(u, role, holder)' /\ ReaderOf(u, role, holder)'
      BY <1>3, <1>5 DEF ThreadInv, HolderOf, ReaderOf, Pushes, HasPopped, Chaining, Reads
    <2>2. Linked(S, nodes[u], sNext', rank)
      <3>1. \A n \in S : n \in Nodes
        BY DEF ClaimedBy
      <3> HIDE DEF S
      <3> QED
        BY <1>3, <1>6, <3>1 DEF Linked
    <2>3. ClaimsOf(u, S, rank)'
      <3> HIDE DEF S
      <3> QED
        BY <1>3, <1>6, <2>2 DEF ClaimsOf, Chaining
    <2> QED
      BY <2>1, <2>3 DEF ThreadInv
  <1>9. \A n \in Nodes : Shared(role, holder, n) => Shared(role, holder, n)'
    <2> SUFFICES ASSUME NEW n \in Nodes, Shared(role, holder, n)
                 PROVE  Shared(role, holder, n)'
      OBVIOUS
    <2>1. PlaceOf(n, role, holder)
      BY <1>1 DEF LaidOut
    <2>2. role[n] = "pop" => holder[n] # u
      BY <1>3 DEF Shared, Chaining
    <2> QED
      BY <1>3, <2>1, <2>2, SharedKept
  <1>10. LaidOut(role, holder, rank)'
    BY <1>1, <1>3, <1>7, <1>8, <1>9, SamePlaces DEF StackInv, Pushes, HasPopped, Chaining
  <1> QED
    BY <1>2, <1>4, <1>10 DEF StackInv

\* An exchange hangs the list to_be_deleted below the list of the thread.
LEMMA ChainedInv ==
    ASSUME StackInv, NEW u \in Threads, LFS!ChainCas(u), to_be_deleted = sNext[last[u]]
    PROVE  StackInv'
  <1> USE DEF LFS!ChainCas, LFS!At, LFS!Goto, LFS!locals, LFS!bounds
  <1>1. PICK role, holder, rank : LaidOut(role, holder, rank)
    BY DEF StackInv
  <1> DEFINE S == ClaimedBy(role, holder, u)
             P == Of(role, "pending")
  <1>b. PICK b : b = to_be_deleted
    OBVIOUS
  <1> DEFINE low  == IF b = null THEN 0 ELSE rank[b]
             rolf == [n \in Nodes |-> IF n \in S THEN "pending" ELSE role[n]]
             rang == [n \in Nodes |-> IF n \in S THEN rank[n] + low ELSE rank[n]]
  <1>2. NodesTypeOK'
    <2>1. /\ to_be_deleted' = nodes[u]
          /\ sPc' = [sPc EXCEPT ![u] = IF nodes[u] = sMine[u] THEN "exit" ELSE "delete head"]
          /\ UNCHANGED <<sHead, sNext, sDatum, sAllocated, sMine, nodes, last, sSeen, res>>
      OBVIOUS
    <2>2. sPc' \in [Threads -> Labels]
      BY <2>1 DEF StackInv, NodesTypeOK, Labels
    <2> QED
      BY <2>1, <2>2 DEF StackInv, NodesTypeOK
  <1>3. /\ sPc[u] = "chain cas" /\ to_be_deleted' = nodes[u] /\ sNext[last[u]] = to_be_deleted
        /\ \/ nodes[u] = sMine[u] /\ sPc'[u] = "exit"
           \/ nodes[u] # sMine[u] /\ sPc'[u] = "delete head"
        /\ \A v \in Threads \ {u} : Keeps(v)
        /\ UNCHANGED <<sHead, threads_in_pop, sNext, sAllocated, sMine, nodes, last>>
    BY DEF StackInv, NodesTypeOK, Keeps
  <1>4. CountInv'
    BY <1>3, CountSame DEF StackInv, LFS!InPop
  <1>5. /\ ThreadInv(u, role, holder, rank) /\ GhostTypes(role, holder, rank)
        /\ ListsInv(role, rank) /\ \A m \in Nodes : PlaceOf(m, role, holder)
    BY <1>1 DEF LaidOut
  <1>6. /\ Linked(S, nodes[u], sNext, rank) /\ nodes[u] # null
        /\ last[u] \in S /\ rank[last[u]] = 1
    BY <1>3, <1>5 DEF ThreadInv, ClaimsOf, Chaining
  <1>7. /\ S \in SUBSET Nodes /\ P \in SUBSET Nodes /\ S \cap P = {}
        /\ \A n \in Nodes : n \in S <=> role[n] = "claim" /\ holder[n] = u
        /\ \A n \in Nodes : n \in P <=> role[n] = "pending"
    BY DEF ClaimedBy, Of
  <1>8. rang \in [Nodes -> Nat] /\ IsList(S \cup P, nodes[u], sNext, rang)
    <2>1. IsList(P, b, sNext, rank) /\ sNext[last[u]] = b /\ rank \in [Nodes -> Nat]
      BY <1>b, <1>3, <1>5 DEF ListsInv, GhostTypes
    <2>2. PICK a, l : a = nodes[u] /\ l = last[u]
      OBVIOUS
    <2>3. /\ S \in SUBSET Nodes /\ P \in SUBSET Nodes /\ S \cap P = {} /\ l \in S
          /\ rank[l] = 1 /\ sNext[l] = b /\ a # null /\ rank \in [Nodes -> Nat]
          /\ Linked(S, a, sNext, rank) /\ IsList(P, b, sNext, rank)
      BY <1>6, <1>7, <2>1, <2>2
    <2> HIDE DEF S, P
    <2>4. low \in Nat
      BY <2>3 DEF IsList, Linked
    <2>5. low = IF b = null THEN 0 ELSE rank[b]
      OBVIOUS
    <2> HIDE DEF low
    <2>6. /\ rang \in [Nodes -> Nat]
          /\ \A n \in S : rang[n] = rank[n] + low
          /\ \A n \in P : rang[n] = rank[n]
      BY ONLY <2>3, <2>4 DEF rang
    <2> HIDE DEF rang
    <2>7. IsList(S \cup P, a, sNext, rang)
      BY ONLY <2>3, <2>5, <2>6, TwoLists
    <2> QED
      BY <2>2, <2>6, <2>7
  <1>9. /\ \A n \in Nodes : n \in S => rolf[n] = "pending"
        /\ \A n \in Nodes \ S : rolf[n] = role[n] /\ rang[n] = rank[n]
        /\ GhostTypes(rolf, holder, rang)
    BY <1>5, <1>8 DEF GhostTypes, Roles
  <1> HIDE DEF rolf, rang, S, P, low
  <1>10. LaidOut(rolf, holder, rang)'
    <2>1. ASSUME NEW m \in Nodes
          PROVE  PlaceOf(m, rolf, holder)'
      <3>1. CASE m \in S
        BY <1>3, <1>5, <1>7, <1>9, <3>1 DEF PlaceOf
      <3>2. CASE m \notin S /\ holder[m] # u
        BY <1>3, <1>5, <1>9, <3>2, PlacesKept
      <3>3. CASE m \notin S /\ holder[m] = u
        <4>1. PlaceOf(m, role, holder) /\ rolf[m] = role[m] /\ role[m] # "claim"
          BY <1>5, <1>7, <1>9, <3>3
        <4>2. role[m] # "push"
          BY <1>3, <3>3, <4>1 DEF PlaceOf, Pushes
        <4>3. HasPopped(u) => HasPopped(u)'
          BY <1>3 DEF HasPopped, Chaining
        <4> QED
          BY <1>3, <3>3, <4>1, <4>2, <4>3 DEF PlaceOf
      <3> QED
        BY <3>1, <3>2, <3>3
    <2>2. ListsInv(rolf, rang)'
      <3>1. \A n \in Nodes : rolf[n] = "pending" <=> n \in S \/ n \in P
        BY <1>7, <1>9
      <3>2. \A n \in Nodes : rolf[n] = "stack" <=> role[n] = "stack"
        BY <1>7, <1>9
      <3>3. Of(rolf, "pending") = S \cup P
        BY <1>7, <3>1 DEF Of
      <3>4. Of(rolf, "stack") = Of(role, "stack")
        BY <3>2 DEF Of
      <3>5. \A n \in Of(role, "stack") : rang[n] = rank[n]
        BY <1>7, <1>9 DEF Of
      <3>6. IsList(Of(role, "stack"), sHead, sNext, rang)
        BY <1>5, <3>5, SameList DEF ListsInv
      <3> QED
        BY <1>3, <1>8, <3>3, <3>4, <3>6 DEF ListsInv
    <2>3. TheirsKept(u, role, holder, rank, rolf, holder, rang)
      BY <1>3, <1>7, <1>9 DEF TheirsKept, Theirs, Owned
    <2>4. ReadersKept(u, role, rolf, holder)
      <3> SUFFICES ASSUME NEW v \in Threads \ {u}, NEW m \in Nodes, Reads(v), sMine[v] = m
                   PROVE  /\ Shared(rolf, holder, m)'
                          /\ rolf[m] = "stack" => role[m] = "stack" /\ sNext'[m] = sNext[m]
        BY DEF ReadersKept
      <3>1. Shared(role, holder, m) /\ PlaceOf(m, role, holder)
        BY <1>1, <1>5 DEF LaidOut, ThreadInv, ReaderOf
      <3>2. CASE m \in S
        BY <1>3, <1>9, <3>2 DEF Shared
      <3>3. CASE m \notin S
        <4>1. role[m] \in {"pop", "claim"} => holder[m] # u
          BY <1>3, <1>7, <3>1, <3>3 DEF Shared
        <4>2. Shared(rolf, holder, m)'
          BY <1>3, <1>9, <3>1, <3>3, <4>1, SharedKept
        <4> QED
          BY <1>3, <1>9, <3>3, <4>2
      <3> QED
        BY <3>2, <3>3
    <2>5. \A v \in Threads \ {u} : ThreadInv(v, rolf, holder, rang)'
      BY <1>1, <1>3, <2>3, <2>4, OthersKeep DEF StackInv
    <2>6. ThreadInv(u, rolf, holder, rang)'
      <3>1. HolderOf(u, rolf, holder)'
        <4>1. HasPopped(u) => sMine[u] \in Nodes
          BY DEF HasPopped, StackInv, NodesTypeOK, LFS!Pointers
        <4>2. HolderOf(u, role, holder)
          BY <1>5 DEF ThreadInv
        <4>3. HasPopped(u)' => HasPopped(u)
          BY <1>3 DEF HasPopped, Chaining
        <4>4. HasPopped(u) => rolf[sMine[u]] = "pop" /\ holder[sMine[u]] = u
          BY <1>7, <1>9, <4>1, <4>2 DEF HolderOf
        <4> QED
          BY <1>3, <4>3, <4>4 DEF HolderOf, Pushes
      <3>2. ReaderOf(u, rolf, holder)'
        BY <1>3 DEF ReaderOf, Reads
      <3>3. ClaimedBy(rolf, holder, u) = {}
        <4>1. \A n \in Nodes : ~ (rolf[n] = "claim" /\ holder[n] = u)
          BY <1>7, <1>9
        <4> QED
          BY <4>1 DEF ClaimedBy
      <3>4. ClaimsOf(u, {}, rang)'
        BY <1>3 DEF ClaimsOf, Chaining
      <3> QED
        BY <3>1, <3>2, <3>3, <3>4 DEF ThreadInv
    <2> QED
      BY <1>9, <2>1, <2>2, <2>5, <2>6 DEF LaidOut, GhostTypes
  <1> QED
    BY <1>2, <1>4, <1>10 DEF StackInv

\* A step of the lock-free stack keeps its invariant.
LEMMA StackNextInv == StackInv /\ LFS!Next => StackInv'
  <1> SUFFICES ASSUME StackInv, NEW u \in Threads,
                      \/ \E n \in Nodes, w \in Values : LFS!NewNode(u, n, w)
                      \/ LFS!EnterPop(u) \/ LFS!Step(u)
               PROVE  StackInv'
    BY DEF LFS!Next
  <1>1. CASE \E n \in Nodes, w \in Values : LFS!NewNode(u, n, w)
    BY <1>1, NewNodeInv
  <1>2. CASE LFS!EnterPop(u)
    BY <1>2, EnterPopInv
  <1>3. CASE LFS!PushLoad(u)
    BY <1>3, PushReadsInv DEF LFS!PushLoad, LFS!At, LFS!Goto, LFS!locals, LFS!bounds, Pushes
  <1>4. CASE LFS!PushCas(u)
    <2>1. CASE sHead = sNext[sMine[u]]
      BY <1>4, <2>1, PushedInv
    <2>2. CASE sHead # sNext[sMine[u]]
      <3>1. sPc' = [sPc EXCEPT ![u] = "push cas"]
        BY <1>4, <2>2 DEF LFS!PushCas, LFS!At, StackInv, NodesTypeOK
      <3> QED
        BY <1>4, <2>2, <3>1, PushReadsInv DEF LFS!PushCas, LFS!At, LFS!bounds, Pushes
    <2> QED
      BY <2>1, <2>2
  <1>5. CASE LFS!PopLoad(u)
    BY <1>5, OldHeadInv DEF LFS!PopLoad, LFS!At, LFS!memory, LFS!bounds
  <1>6. CASE LFS!PopNext(u)
    BY <1>6, PopNextInv
  <1>7. CASE LFS!PopCas(u)
    <2>1. /\ sPc[u] = "pop cas"
          /\ UNCHANGED <<to_be_deleted, threads_in_pop, sNext, sDatum, sAllocated, nodes, last,
                         sSeen, res>>
      BY <1>7 DEF LFS!PopCas, LFS!At, LFS!memory
    <2>2. CASE LFS!OldHead(u, sHead) /\ UNCHANGED sHead
      BY <2>1, <2>2, OldHeadInv
    <2>3. CASE sHead = sMine[u] /\ sHead' = sSeen[u] /\ LFS!Goto(u, "take") /\ UNCHANGED sMine
      BY <2>1, <2>3, PoppedInv
    <2> QED
      BY <1>7, <2>2, <2>3 DEF LFS!PopCas
  <1>8. CASE LFS!Take(u)
    BY <1>8, TakeValueInv
  <1>9. CASE LFS!TryReclaim(u)
    BY <1>9, TryReclaimInv
  <1>10. CASE LFS!Claim(u)
    BY <1>10, ClaimListInv
  <1>11. CASE LFS!Leave(u)
    BY <1>11, LeavePopInv
  <1>12. CASE LFS!DeleteNext(u)
    BY <1>12, DeleteNextInv
  <1>13. CASE LFS!Delete(u)
    BY <1>13, DeleteNodeInv
  <1>14. CASE LFS!DeleteHead(u)
    BY <1>14, DeleteHeadInv
  <1>15. CASE LFS!FindLast(u)
    BY <1>15, FindLastInv
  <1>16. CASE LFS!ChainLoad(u)
    BY <1>16, ChainReadsInv DEF LFS!ChainLoad, LFS!At, LFS!Goto, LFS!locals, LFS!bounds, Chaining
  <1>17. CASE LFS!ChainCas(u)
    <2>1. CASE to_be_deleted = sNext[last[u]]
      BY <1>17, <2>1, ChainedInv
    <2>2. CASE to_be_deleted # sNext[last[u]]
      <3>1. sPc' = [sPc EXCEPT ![u] = "chain cas"]
        BY <1>17, <2>2 DEF LFS!ChainCas, LFS!At, StackInv, NodesTypeOK
      <3> QED
        BY <1>17, <2>2, <3>1, ChainReadsInv
        DEF LFS!ChainCas, LFS!At, LFS!locals, LFS!bounds, Chaining
    <2> QED
      BY <2>1, <2>2
  <1>18. CASE LFS!ExitPop(u)
    BY <1>18, ExitPopInv
  <1> QED
    BY <1>1, <1>2, <1>3, <1>4, <1>5, <1>6, <1>7, <1>8, <1>9, <1>10, <1>11, <1>12, <1>13,
       <1>14, <1>15, <1>16, <1>17, <1>18 DEF LFS!Step

\* StackInv holds of every reachable state of the lock-free stack.
LEMMA StackInvariance == SpecParts => [](part = "stack" => StackInv)
  <1> DEFINE Inv == part = "stack" => StackInv
  <1>1. InitParts => Inv
    BY StackInitInv DEF InitParts
  <1>2. Inv /\ [MutexStep \/ StackStep \/ QueueStep \/ OwnersStep \/ LockedStep]_partVars
          => Inv'
    <2> SUFFICES ASSUME Inv, part' = "stack",
                        [MutexStep \/ StackStep \/ QueueStep \/ OwnersStep \/ LockedStep]_partVars
                 PROVE  StackInv'
      OBVIOUS
    <2>1. CASE StackStep
      BY <2>1, StackNextInv DEF StackStep
    <2>2. CASE part' = part /\ UNCHANGED stackVars
      BY <2>2, SameStack DEF stackVars
    <2> QED
      BY <2>1, <2>2 DEF MutexStep, QueueStep, OwnersStep, LockedStep, partVars
  <1> QED
    BY <1>1, <1>2, PTL DEF SpecParts

\* The types, and no node that a thread accesses or deletes has been deleted: the count
\* of the threads in pop keeps every node that somebody reads (try_reclaim).
THEOREM NoNodeIsUsedAfterItsEnd == SpecParts => []NoUseAfterFree
  <1>1. StackInv => LFS!TypeOK
    BY StackCardinality DEF StackInv, NodesTypeOK, CountInv, Popping, LFS!TypeOK
  <1>2. StackInv => LFS!NoUseAfterFree
    <2> SUFFICES ASSUME StackInv, NEW u \in Threads PROVE LFS!Touches(u) \subseteq sAllocated
      BY DEF LFS!NoUseAfterFree
    <2>1. PICK role, holder, rank : LaidOut(role, holder, rank)
      BY DEF StackInv
    <2>2. /\ HolderOf(u, role, holder) /\ ReaderOf(u, role, holder)
          /\ ClaimsOf(u, ClaimedBy(role, holder, u), rank)
      BY <2>1 DEF LaidOut, ThreadInv
    <2>3. \A n \in Nodes : role[n] # "free" => n \in sAllocated
      BY <2>1 DEF LaidOut, PlaceOf
    <2>4. sMine[u] \in Nodes \cup {null} /\ sPc[u] \in Labels
      BY DEF StackInv, NodesTypeOK, LFS!Pointers
    <2>5. CASE sPc[u] \in {"push load", "push cas"}
      BY <2>2, <2>3, <2>5 DEF LFS!Touches, HolderOf, Pushes
    <2>6. CASE sPc[u] = "pop next"
      BY <2>2, <2>3, <2>6 DEF LFS!Touches, ReaderOf, Reads, Shared
    <2>7. CASE sPc[u] = "take"
      BY <2>2, <2>3, <2>4, <2>7 DEF LFS!Touches, HolderOf, HasPopped
    <2>8. CASE sPc[u] \in {"delete next", "delete"}
      BY <2>2, <2>3, <2>8 DEF LFS!Touches, ClaimsOf, ClaimedBy, IsList, Linked
    <2>9. CASE sPc[u] \in {"find last", "chain load", "chain cas"}
      BY <2>2, <2>3, <2>9 DEF LFS!Touches, ClaimsOf, ClaimedBy, Chaining
    <2>10. CASE sPc[u] = "delete head"
      BY <2>2, <2>3, <2>4, <2>10 DEF LFS!Touches, HolderOf, HasPopped
    <2>11. CASE sPc[u] \notin {"push load", "push cas", "pop next", "take", "delete next", "delete",
                               "find last", "chain load", "chain cas", "delete head"}
      BY <2>11 DEF LFS!Touches
    <2> QED
      BY <2>5, <2>6, <2>7, <2>8, <2>9, <2>10, <2>11
  <1>3. (part = "stack" => StackInv) => NoUseAfterFree
    BY <1>1, <1>2 DEF NoUseAfterFree
  <1> QED
    BY <1>3, StackInvariance, PTL

-----------------------------------------------------------------------------
(* The sequence that a list is (ListFrom of the lock-free stack and of   *)
(* the fine-grained queue), when the nodes are as an invariant says.     *)

MaxLength == Cardinality(Nodes)
IsWalk(f, nx) ==
    f = [k \in 0 .. MaxLength |-> [q \in Nodes \cup {null} |->
            IF q = null \/ k = 0 THEN <<>> ELSE <<q>> \o f[k - 1][nx[q]]]]
Walk(nx) == CHOOSE f : IsWalk(f, nx)
Walked(nx, p) == Walk(nx)[MaxLength][p]

\* There is such a function.
LEMMA WalkExists ==
    ASSUME NEW nx \in [Nodes -> Nodes \cup {null}]
    PROVE  \E f : IsWalk(f, nx)
  <1> DEFINE Q == Nodes \cup {null}
             S == [Q -> Seq(Nodes)]
             a == [q \in Q |-> <<>>]
             G(g) == [q \in Q |-> IF q = null THEN <<>> ELSE <<q>> \o g[nx[q]]]
             F == [x \in Nat \X S |-> G(x[2])]
  <1>1. a \in S /\ \A g \in S : G(g) \in S
    <2>1. a \in S
      OBVIOUS
    <2>2. ASSUME NEW g \in S, NEW q \in Q
          PROVE  (IF q = null THEN <<>> ELSE <<q>> \o g[nx[q]]) \in Seq(Nodes)
      <3>1. CASE q = null
        BY <3>1
      <3>2. CASE q # null
        <4>1. q \in Nodes /\ nx[q] \in Q /\ g[nx[q]] \in Seq(Nodes)
          BY <3>2
        <4> QED
          BY <3>2, <4>1
      <3> QED
        BY <3>1, <3>2
    <2>3. \A g \in S : G(g) \in S
      BY <2>2
    <2> QED
      BY <2>1, <2>3
  <1> HIDE DEF G, S, a
  <1>2. F \in [Nat \X S -> S] /\ \A n \in Nat, g \in S : F[<<n, g>>] = G(g)
    BY <1>1
  <1> HIDE DEF F
  <1>3. PICK r : RecursiveBy(r, S, a, F)
    BY <1>1, <1>2, Recursion, Zenon
  <1>4. /\ \A k \in Nat : r[k] \in S
        /\ r[0] = a /\ \A k \in Nat : r[k + 1] = G(r[k])
    BY <1>2, <1>3 DEF RecursiveBy
  <1>5. MaxLength \in Nat
    BY FS_CardinalityType, NodesAssumption DEF MaxLength
  <1> DEFINE f == [k \in 0 .. MaxLength |-> r[k]]
             Line(k) == [q \in Q |-> IF q = null \/ k = 0 THEN <<>>
                                     ELSE <<q>> \o f[k - 1][nx[q]]]
  <1>6. ASSUME NEW k \in 0 .. MaxLength
        PROVE  r[k] = Line(k)
    <2>1. CASE k = 0
      <3>1. a = [q \in Q |-> IF q = null \/ k = 0 THEN <<>> ELSE <<q>> \o f[k - 1][nx[q]]]
        BY <2>1 DEF a
      <3> QED
        BY <1>4, <2>1, <3>1
    <2>2. CASE k # 0
      <3>1. k - 1 \in Nat /\ k - 1 \in 0 .. MaxLength /\ (k - 1) + 1 = k
        BY <1>5, <2>2
      <3>2. r[k] = G(r[k - 1]) /\ f[k - 1] = r[k - 1]
        BY <1>4, <3>1
      <3> HIDE DEF f
      <3>3. G(r[k - 1]) = [q \in Q |-> IF q = null \/ k = 0 THEN <<>>
                                       ELSE <<q>> \o f[k - 1][nx[q]]]
        BY <2>2, <3>2 DEF G
      <3> QED
        BY <3>2, <3>3
    <2> QED
      BY <2>1, <2>2
  <1>7. f = [k \in 0 .. MaxLength |-> Line(k)]
    <2> HIDE DEF Line
    <2> QED
      BY <1>6
  <1> HIDE DEF f
  <1>8. IsWalk(f, nx)
    BY <1>7 DEF IsWalk
  <1> QED
    BY <1>8

\* So the walk takes a node and goes on from its next.
LEMMA WalkUnfolds ==
    ASSUME NEW nx \in [Nodes -> Nodes \cup {null}],
           NEW k \in 0 .. MaxLength, NEW q \in Nodes \cup {null}
    PROVE  /\ q = null \/ k = 0 => Walk(nx)[k][q] = <<>>
           /\ q # null /\ k # 0 => Walk(nx)[k][q] = <<q>> \o Walk(nx)[k - 1][nx[q]]
  <1> DEFINE f == Walk(nx)
  <1>1. IsWalk(f, nx)
    BY WalkExists, Zenon DEF Walk
  <1> HIDE DEF f
  <1>2. f[k] = [x \in Nodes \cup {null} |->
                  IF x = null \/ k = 0 THEN <<>> ELSE <<x>> \o f[k - 1][nx[x]]]
    BY <1>1 DEF IsWalk
  <1>3. f[k][q] = IF q = null \/ k = 0 THEN <<>> ELSE <<q>> \o f[k - 1][nx[q]]
    BY <1>2
  <1> QED
    BY <1>3 DEF f

\* A list is no longer than there are nodes: every rank up to the first one's is that
\* of a node.
LEMMA ListIsShort ==
    ASSUME NEW S \in SUBSET Nodes, NEW h \in S, NEW nx, NEW rank \in [Nodes -> Nat],
           IsList(S, h, nx, rank)
    PROVE  rank[h] <= MaxLength /\ \A k \in 1 .. rank[h] : \E n \in S : rank[n] = k
  <1> USE DEF IsList
  <1>1. h # null /\ rank[h] \in Nat /\ rank[h] >= 1
    BY NodesAssumption DEF Linked
  <1> DEFINE T == {j \in Nat : j < rank[h] => \E n \in S : rank[n] = rank[h] - j}
  <1>2. 0 \in T
    BY <1>1
  <1>3. ASSUME NEW j \in Nat, j \in T
        PROVE  j + 1 \in T
    <2> SUFFICES ASSUME j + 1 < rank[h] PROVE \E n \in S : rank[n] = rank[h] - (j + 1)
      OBVIOUS
    <2>1. PICK n \in S : rank[n] = rank[h] - j
      BY <1>1, <1>3
    <2>2. nx[n] \in S /\ rank[nx[n]] = rank[n] - 1
      BY <1>1, <2>1 DEF Linked
    <2> QED
      BY <1>1, <2>1, <2>2
  <1> HIDE DEF T
  <1>4. \A j \in Nat : j \in T
    BY <1>2, <1>3, Induction
  <1>5. ASSUME NEW k \in 1 .. rank[h]
        PROVE  \E n \in S : rank[n] = k
    <2>1. rank[h] - k \in Nat /\ rank[h] - k < rank[h] /\ rank[h] - (rank[h] - k) = k
      BY <1>1
    <2> QED
      BY <1>4, <2>1 DEF T
  <1> DEFINE f == [n \in S |-> rank[n]]
  <1>6. f \in Surjection(S, 1 .. rank[h])
    <2>1. f \in [S -> 1 .. rank[h]]
      BY DEF Linked
    <2> QED
      BY <1>5, <2>1 DEF Surjection
  <1> HIDE DEF f
  <1>7. IsFiniteSet(S) /\ Cardinality(S) <= MaxLength
    BY NodesAssumption, FS_Subset DEF MaxLength
  <1>8. Cardinality(1 .. rank[h]) <= Cardinality(S)
    BY <1>6, <1>7, FS_Surjection
  <1>9. Cardinality(1 .. rank[h]) = rank[h]
    <2>1. 1 \in Int /\ rank[h] \in Int /\ rank[h] - 1 + 1 = rank[h]
      BY <1>1
    <2> QED
      BY <1>1, <2>1, FS_Interval
  <1>10. Cardinality(S) \in Nat /\ MaxLength \in Nat
    BY <1>7, FS_CardinalityType, NodesAssumption DEF MaxLength
  <1> QED
    BY <1>1, <1>5, <1>7, <1>8, <1>9, <1>10

\* w goes down the list from n: it has n's rank for its length, and its elements have the
\* ranks from there to 1.
GoesDown(S, rank, n, w) ==
    /\ w \in Seq(Nodes) /\ Len(w) = rank[n]
    /\ \A i \in 1 .. rank[n] : w[i] \in S /\ rank[w[i]] = rank[n] + 1 - i

\* One node more.
LEMMA OneFurther ==
    ASSUME NEW S \in SUBSET Nodes, NEW rank \in [Nodes -> Nat], NEW n \in S, NEW m \in S,
           rank[m] = rank[n] - 1, rank[n] >= 1, NEW w, GoesDown(S, rank, m, w)
    PROVE  GoesDown(S, rank, n, <<n>> \o w)
  <1>1. w \in Seq(Nodes) /\ Len(w) = rank[m] /\ rank[n] \in Nat
    BY DEF GoesDown
  <1>2. <<n>> \o w \in Seq(Nodes)
    BY <1>1
  <1>3. Len(<<n>> \o w) = 1 + Len(w)
    BY <1>1
  <1>4. ASSUME NEW i \in 1 .. rank[n]
        PROVE  (<<n>> \o w)[i] = IF i = 1 THEN n ELSE w[i - 1]
    BY <1>1
  <1>5. ASSUME NEW i \in 1 .. rank[n]
        PROVE  (<<n>> \o w)[i] \in S /\ rank[(<<n>> \o w)[i]] = rank[n] + 1 - i
    <2>1. CASE i = 1
      BY <1>1, <1>4, <2>1
    <2>2. CASE i # 1
      <3>1. i - 1 \in 1 .. rank[m]
        BY <1>1, <2>2
      <3>2. w[i - 1] \in S /\ rank[w[i - 1]] = rank[m] + 1 - (i - 1)
        BY <3>1 DEF GoesDown
      <3>3. (<<n>> \o w)[i] = w[i - 1]
        BY <1>4, <2>2
      <3> HIDE DEF GoesDown
      <3> QED
        BY <1>1, <3>2, <3>3
    <2> QED
      BY <2>1, <2>2
  <1> QED
    BY <1>1, <1>2, <1>3, <1>5 DEF GoesDown

\* The walk from a node of a list goes down the list.
LEMMA WalkGoesDown ==
    ASSUME NEW S \in SUBSET Nodes, NEW h \in S, NEW nx \in [Nodes -> Nodes \cup {null}],
           NEW rank \in [Nodes -> Nat], IsList(S, h, nx, rank)
    PROVE  GoesDown(S, rank, h, Walked(nx, h))
  <1>1. MaxLength \in Nat
    BY FS_CardinalityType, NodesAssumption DEF MaxLength
  <1>2. \A n \in S : rank[n] \in Nat /\ rank[n] >= 1 /\ n # null
    BY NodesAssumption DEF IsList, Linked
  <1> DEFINE T == {k \in Nat : k <= MaxLength =>
                     \A n \in S : rank[n] <= k => GoesDown(S, rank, n, Walk(nx)[k][n])}
  <1>3. 0 \in T
    BY <1>2
  <1>4. ASSUME NEW k \in Nat, k \in T
        PROVE  k + 1 \in T
    <2> SUFFICES ASSUME k + 1 <= MaxLength, NEW n \in S, rank[n] <= k + 1
                 PROVE  GoesDown(S, rank, n, Walk(nx)[k + 1][n])
      OBVIOUS
    <2>1. /\ k \in 0 .. MaxLength /\ k + 1 \in 0 .. MaxLength
          /\ k + 1 # 0 /\ (k + 1) - 1 = k
      BY <1>1
    <2>2. Walk(nx)[k + 1][n] = <<n>> \o Walk(nx)[k][nx[n]]
      <3>1. n \in Nodes \cup {null} /\ n # null
        BY <1>2
      <3>2. Walk(nx)[k + 1][n] = <<n>> \o Walk(nx)[(k + 1) - 1][nx[n]]
        BY ONLY WalkUnfolds, <2>1, <3>1, nx \in [Nodes -> Nodes \cup {null}]
      <3> QED
        BY <2>1, <3>2
    <2>3. CASE rank[n] = 1
      <3>1. nx[n] = null
        BY <2>3 DEF IsList, Ended
      <3>2. Walk(nx)[k][null] = <<>>
        BY ONLY WalkUnfolds, <2>1, null \in Nodes \cup {null}, nx \in [Nodes -> Nodes \cup {null}]
      <3>3. <<n>> \o <<>> = <<n>>
        OBVIOUS
      <3>4. Walk(nx)[k + 1][n] = <<n>>
        BY ONLY <2>2, <3>1, <3>2, <3>3
      <3>5. <<n>> \in Seq(Nodes) /\ Len(<<n>>) = 1 /\ <<n>>[1] = n
        OBVIOUS
      <3> QED
        BY <2>3, <3>4, <3>5 DEF GoesDown
    <2>4. CASE rank[n] # 1
      <3>1. nx[n] \in S /\ rank[nx[n]] = rank[n] - 1 /\ rank[nx[n]] <= k
        BY <1>2, <2>4 DEF IsList, Linked
      <3>2. GoesDown(S, rank, nx[n], Walk(nx)[k][nx[n]])
        BY <1>4, <2>1, <3>1
      <3> HIDE DEF T
      <3>3. rank[n] >= 1
        BY <1>2
      <3>4. GoesDown(S, rank, n, <<n>> \o Walk(nx)[k][nx[n]])
        BY <3>1, <3>2, <3>3, OneFurther
      <3> QED
        BY <2>2, <3>4
    <2> QED
      BY <2>3, <2>4
  <1> HIDE DEF T
  <1>5. \A k \in Nat : k \in T
    BY <1>3, <1>4, Induction
  <1>6. rank[h] <= MaxLength
    BY ListIsShort
  <1> QED
    BY <1>1, <1>5, <1>6 DEF T, Walked

\* Only one sequence goes down a list from a node.
LEMMA OneWayDown ==
    ASSUME NEW S, NEW rank \in [Nodes -> Nat], NEW n \in Nodes, NEW v, NEW w,
           \A x, y \in S : rank[x] = rank[y] => x = y,
           GoesDown(S, rank, n, v), GoesDown(S, rank, n, w)
    PROVE  v = w
  <1>1. /\ v \in Seq(Nodes) /\ w \in Seq(Nodes)
        /\ Len(v) = rank[n] /\ Len(w) = rank[n] /\ rank[n] \in Nat
    BY DEF GoesDown
  <1>2. ASSUME NEW i \in 1 .. rank[n]
        PROVE  v[i] = w[i]
    BY DEF GoesDown
  <1> QED
    BY <1>1, <1>2

\* A list's walk depends on its own nodes only.
LEMMA SameWalk ==
    ASSUME NEW S \in SUBSET Nodes, NEW h \in Nodes \cup {null},
           NEW nx \in [Nodes -> Nodes \cup {null}], NEW nx2 \in [Nodes -> Nodes \cup {null}],
           NEW rank \in [Nodes -> Nat], IsList(S, h, nx, rank), \A n \in S : nx2[n] = nx[n]
    PROVE  Walked(nx2, h) = Walked(nx, h)
  <1>1. CASE h = null
    <2>1. MaxLength \in 0 .. MaxLength
      BY FS_CardinalityType, NodesAssumption DEF MaxLength
    <2> QED
      BY <1>1, <2>1, WalkUnfolds DEF Walked
  <1>2. CASE h # null
    <2>1. h \in S /\ IsList(S, h, nx2, rank)
      BY <1>2 DEF IsList, Linked, Ended
    <2>2. GoesDown(S, rank, h, Walked(nx2, h)) /\ GoesDown(S, rank, h, Walked(nx, h))
      BY <2>1, WalkGoesDown
    <2>3. \A x, y \in S : rank[x] = rank[y] => x = y
      BY DEF IsList, Linked
    <2> QED
      BY <2>1, <2>2, <2>3, OneWayDown
  <1> QED
    BY <1>1, <1>2

\* No list, no walk.
LEMMA EmptyWalk ==
    ASSUME NEW nx \in [Nodes -> Nodes \cup {null}]
    PROVE  Walked(nx, null) = <<>>
  <1>1. MaxLength \in 0 .. MaxLength
    BY FS_CardinalityType, NodesAssumption DEF MaxLength
  <1> QED
    BY <1>1, WalkUnfolds DEF Walked

\* A node before a list makes a list that is longer by that node.
LEMMA LongerWalk ==
    ASSUME NEW S \in SUBSET Nodes, NEW h \in Nodes \cup {null}, NEW n \in Nodes \ S,
           NEW nx \in [Nodes -> Nodes \cup {null}], NEW rank \in [Nodes -> Nat],
           IsList(S, h, nx, rank), nx[n] = h
    PROVE  Walked(nx, n) = <<n>> \o Walked(nx, h)
  <1> DEFINE top == IF h = null THEN 1 ELSE rank[h] + 1
             sank == [rank EXCEPT ![n] = top]
  <1>1. sank \in [Nodes -> Nat] /\ IsList(S \cup {n}, n, nx, sank)
    BY OneMore
  <1>2. /\ h = null => S = {} /\ top = 1
        /\ h # null => h \in S /\ top = rank[h] + 1 /\ rank[h] \in Nat
    BY DEF IsList, Linked
  <1>3. sank[n] = top /\ \A m \in S : sank[m] = rank[m]
    OBVIOUS
  <1>4. PICK R \in SUBSET Nodes : R = S \cup {n}
    OBVIOUS
  <1> HIDE DEF sank, top
  <1>5. GoesDown(R, sank, n, <<n>> \o Walked(nx, h))
    <2>1. CASE h = null
      <3>1. Walked(nx, h) = <<>> /\ <<n>> \o <<>> = <<n>>
        BY <2>1, EmptyWalk
      <3>2. <<n>> \in Seq(Nodes) /\ Len(<<n>>) = 1 /\ <<n>>[1] = n
        OBVIOUS
      <3> QED
        BY <1>2, <1>3, <1>4, <2>1, <3>1, <3>2 DEF GoesDown
    <2>2. CASE h # null
      <3>1. PICK w : w = Walked(nx, h)
        OBVIOUS
      <3>2. GoesDown(S, rank, h, w)
        BY <1>2, <2>2, <3>1, WalkGoesDown
      <3>3. \A i \in 1 .. rank[h] : w[i] \in S /\ sank[w[i]] = rank[h] + 1 - i
        BY <1>3, <3>2 DEF GoesDown
      <3>4. GoesDown(R, sank, h, w)
        BY <1>2, <1>3, <1>4, <2>2, <3>2, <3>3 DEF GoesDown
      <3>5. h \in R /\ n \in R /\ sank[h] = sank[n] - 1 /\ sank[n] >= 1
        BY <1>2, <1>3, <1>4, <2>2
      <3> QED
        BY <1>1, <3>1, <3>4, <3>5, OneFurther
    <2> QED
      BY <2>1, <2>2
  <1>6. GoesDown(R, sank, n, Walked(nx, n))
    BY <1>1, <1>4, WalkGoesDown
  <1>7. \A x, y \in R : sank[x] = sank[y] => x = y
    BY <1>1, <1>4 DEF IsList, Linked
  <1> QED
    BY <1>1, <1>5, <1>6, <1>7, OneWayDown

\* The first node of a walk, and the rest of it.
LEMMA FirstOfWalk ==
    ASSUME NEW S \in SUBSET Nodes, NEW h \in S,
           NEW nx \in [Nodes -> Nodes \cup {null}], NEW rank \in [Nodes -> Nat],
           IsList(S, h, nx, rank)
    PROVE  Walked(nx, h) = <<h>> \o Walked(nx, nx[h])
  <1>1. /\ S \ {h} \in SUBSET Nodes /\ h \in Nodes \ (S \ {h})
        /\ nx[h] \in Nodes \cup {null} /\ IsList(S \ {h}, nx[h], nx, rank)
    BY OneLess
  <1> QED
    BY ONLY <1>1, LongerWalk, nx \in [Nodes -> Nodes \cup {null}], rank \in [Nodes -> Nat]

\* The nodes that a walk visits are those of the list.
LEMMA WalkVisits ==
    ASSUME NEW S \in SUBSET Nodes, NEW h \in Nodes \cup {null},
           NEW nx \in [Nodes -> Nodes \cup {null}], NEW rank \in [Nodes -> Nat],
           IsList(S, h, nx, rank)
    PROVE  {Walked(nx, h)[i] : i \in DOMAIN Walked(nx, h)} = S
  <1>1. PICK w : w = Walked(nx, h)
    OBVIOUS
  <1>2. CASE h = null
    BY <1>1, <1>2, EmptyWalk DEF IsList, Linked
  <1>3. CASE h # null
    <2>1. h \in S /\ rank[h] \in Nat
      BY <1>3 DEF IsList, Linked
    <2>2. GoesDown(S, rank, h, w)
      BY <1>1, <2>1, WalkGoesDown
    <2>3. DOMAIN w = 1 .. rank[h] /\ \A i \in 1 .. rank[h] : w[i] \in S
      BY <2>1, <2>2 DEF GoesDown
    <2>4. ASSUME NEW n \in S
          PROVE  \E i \in 1 .. rank[h] : w[i] = n
      <3>1. rank[n] \in 1 .. rank[h] /\ rank[h] + 1 - rank[n] \in 1 .. rank[h]
        BY <2>1 DEF IsList, Linked
      <3>2. PICK i \in 1 .. rank[h] : i = rank[h] + 1 - rank[n]
        BY <3>1
      <3>3. w[i] \in S /\ rank[w[i]] = rank[n]
        BY <2>1, <2>2, <3>1, <3>2 DEF GoesDown
      <3> QED
        BY <3>3 DEF IsList, Linked
    <2> QED
      BY <1>1, <2>3, <2>4
  <1> QED
    BY <1>2, <1>3

-----------------------------------------------------------------------------
(* LockFreeStack implements Stack, and no node of it leaks.              *)

\* The values on a walk.
Carried(nx, dt, h) == [i \in DOMAIN Walked(nx, h) |-> dt[Walked(nx, h)[i]]]

\* What a thread has popped last: the value is in the node until it is taken from there.
Has(u) == IF sPc[u] = "take" THEN sDatum[sMine[u]] ELSE res[u]

\* The value that a push brings is in its node before the node is on the stack.
BringsValues == \A u \in Threads : Pushes(u) => sDatum[sMine[u]] \in Values

\* ListFrom is the walk, in this state and in the next.
LEMMA StackWalks ==
    /\ \A p : LFS!ListFrom(p) = Walked(sNext, p)
    /\ \A p : LFS!ListFrom(p)' = Walked(sNext', p')
  BY StackCardinality DEF LFS!ListFrom, LFS!Pointers, Walked, Walk, IsWalk, MaxLength

\* The variables of Stack.
LEMMA StackMapping ==
    /\ LFS!Contents = Carried(sNext, sDatum, sHead)
    /\ LFS!Contents' = Carried(sNext', sDatum', sHead')
    /\ LFS!LIFO!vars = <<Carried(sNext, sDatum, sHead), [u \in Threads |-> Has(u)]>>
    /\ LFS!LIFO!vars' = <<Carried(sNext', sDatum', sHead'), [u \in Threads |-> Has(u)']>>
  BY StackWalks DEF LFS!Contents, LFS!LIFO!vars, Carried, Has

\* What a list carries depends on its own nodes only.
LEMMA SameCarried ==
    ASSUME NEW S \in SUBSET Nodes, NEW h \in Nodes \cup {null},
           NEW nx \in [Nodes -> Nodes \cup {null}], NEW ny \in [Nodes -> Nodes \cup {null}],
           NEW rank \in [Nodes -> Nat], IsList(S, h, nx, rank), NEW dt, NEW du,
           \A n \in S : ny[n] = nx[n] /\ du[n] = dt[n]
    PROVE  Carried(ny, du, h) = Carried(nx, dt, h)
  <1>1. PICK w : w = Walked(nx, h)
    OBVIOUS
  <1>2. Walked(ny, h) = w
    BY <1>1, SameWalk
  <1>3. \A i \in DOMAIN w : w[i] \in S
    BY <1>1, WalkVisits
  <1> QED
    BY <1>1, <1>2, <1>3 DEF Carried

\* n's value is on top of what h carries.
OnTop(nx, dt, n, h) ==
    /\ Carried(nx, dt, n) = <<dt[n]>> \o Carried(nx, dt, h)
    /\ Carried(nx, dt, n) # <<>> /\ Head(Carried(nx, dt, n)) = dt[n]
    /\ Tail(Carried(nx, dt, n)) = Carried(nx, dt, h)

\* A node before a list carries its value before those of the list.
LEMMA LongerCarried ==
    ASSUME NEW nx, NEW V, NEW dt \in [Nodes -> V], NEW h, NEW n \in Nodes,
           Walked(nx, h) \in Seq(Nodes), Walked(nx, n) = <<n>> \o Walked(nx, h)
    PROVE  OnTop(nx, dt, n, h)
  <1>1. PICK c, w : c = Carried(nx, dt, h) /\ w = Walked(nx, h)
    OBVIOUS
  <1>2. w \in Seq(Nodes) /\ c = [i \in 1 .. Len(w) |-> dt[w[i]]]
    BY <1>1 DEF Carried
  <1>3. c \in Seq(V) /\ Len(c) = Len(w) /\ \A i \in 1 .. Len(w) : c[i] = dt[w[i]]
    <2>1. Len(w) \in Nat /\ \A i \in 1 .. Len(w) : w[i] \in Nodes /\ dt[w[i]] \in V
      BY <1>2
    <2> QED
      BY <1>2, <2>1
  <1>4. PICK x : x = <<n>> \o w
    OBVIOUS
  <1>5. DOMAIN x = 1 .. 1 + Len(w)
        /\ \A i \in 1 .. 1 + Len(w) : x[i] = IF i = 1 THEN n ELSE w[i - 1]
    BY <1>2, <1>4
  <1>6. Carried(nx, dt, n) = [i \in 1 .. 1 + Len(w) |-> dt[x[i]]]
    BY <1>1, <1>4, <1>5 DEF Carried
  <1>7. PICK d : d = <<dt[n]>> \o c
    OBVIOUS
  <1>8. d \in Seq(V) /\ Len(d) = 1 + Len(w)
        /\ \A i \in 1 .. 1 + Len(w) : d[i] = IF i = 1 THEN dt[n] ELSE c[i - 1]
    BY <1>3, <1>7
  <1>9. ASSUME NEW i \in 1 .. 1 + Len(w)
        PROVE  d[i] = dt[x[i]]
    <2>1. CASE i = 1
      BY <1>5, <1>8, <2>1
    <2>2. CASE i # 1
      <3>1. i - 1 \in 1 .. Len(w)
        BY <2>2
      <3>2. d[i] = c[i - 1] /\ x[i] = w[i - 1] /\ c[i - 1] = dt[w[i - 1]]
        BY ONLY <1>3, <1>5, <1>8, <2>2, <3>1, i \in 1 .. 1 + Len(w)
      <3> QED
        BY ONLY <3>2
    <2> QED
      BY <2>1, <2>2
  <1>10. DOMAIN d = 1 .. 1 + Len(w) /\ d = [i \in DOMAIN d |-> d[i]]
    BY <1>8
  <1>11. Carried(nx, dt, n) = d
    BY <1>6, <1>9, <1>10
  <1>12. d # <<>> /\ Head(d) = dt[n] /\ Tail(d) = c
    BY <1>3, <1>7
  <1> QED
    BY <1>1, <1>7, <1>11, <1>12 DEF OnTop

\* The walk of a list is a sequence of nodes.
LEMMA WalkIsSeq ==
    ASSUME NEW S \in SUBSET Nodes, NEW h \in Nodes \cup {null},
           NEW nx \in [Nodes -> Nodes \cup {null}], NEW rank \in [Nodes -> Nat],
           IsList(S, h, nx, rank)
    PROVE  Walked(nx, h) \in Seq(Nodes)
  <1>1. CASE h = null
    <2>1. <<>> \in Seq(Nodes)
      OBVIOUS
    <2> QED
      BY <1>1, <2>1, EmptyWalk
  <1>2. CASE h # null
    <2>1. GoesDown(S, rank, h, Walked(nx, h))
      BY <1>2, WalkGoesDown DEF IsList, Linked
    <2> QED
      BY <2>1 DEF GoesDown
  <1> QED
    BY <1>1, <1>2

\* u's step leaves the head, and what the threads have, as they were ...
Quiet(u) ==
    /\ \A v \in Threads \ {u} : Keeps(v) /\ res'[v] = res[v]
    /\ sHead' = sHead /\ sPc'[u] # "take"
    /\ Pushes(u)' => (Pushes(u) /\ sMine'[u] = sMine[u]) \/ sDatum'[sMine'[u]] \in Values
    /\ sPc[u] = "take" => res'[u] = sDatum[sMine[u]]
    /\ sPc[u] # "take" => res'[u] = res[u]

\* ... and the nodes on the stack, and writes to no value but those of u's own nodes.
OwnNodes(u, role, holder) ==
    \A n \in Nodes :
        /\ role[n] = "stack" => sNext'[n] = sNext[n]
        /\ sDatum'[n] = sDatum[n] \/ role[n] = "free" \/ (role[n] = "pop" /\ holder[n] = u)

\* Such a step is one that Stack does not see.
LEMMA NotSeen ==
    ASSUME StackInv, NodesTypeOK', BringsValues, NEW u \in Threads, Quiet(u),
           NEW role, NEW holder, NEW rank, LaidOut(role, holder, rank),
           OwnNodes(u, role, holder)
    PROVE  BringsValues' /\ UNCHANGED LFS!LIFO!vars
  <1> USE DEF Quiet
  <1>2. \A n \in Nodes :
            /\ role[n] = "stack" => sNext'[n] = sNext[n]
            /\ sDatum'[n] = sDatum[n] \/ role[n] = "free" \/ (role[n] = "pop" /\ holder[n] = u)
    BY DEF OwnNodes
  <1>3. /\ \A v \in Threads : HolderOf(v, role, holder)
        /\ IsList(Of(role, "stack"), sHead, sNext, rank) /\ rank \in [Nodes -> Nat]
    BY DEF LaidOut, ListsInv, GhostTypes, ThreadInv
  <1>4. Carried(sNext', sDatum', sHead') = Carried(sNext, sDatum, sHead)
    <2>1. /\ Of(role, "stack") \in SUBSET Nodes /\ sHead \in Nodes \cup {null}
          /\ sNext \in [Nodes -> Nodes \cup {null}] /\ sNext' \in [Nodes -> Nodes \cup {null}]
          /\ \A n \in Of(role, "stack") : sNext'[n] = sNext[n] /\ sDatum'[n] = sDatum[n]
      BY <1>2 DEF StackInv, NodesTypeOK, LFS!Pointers, Of
    <2> QED
      BY <1>3, <2>1, SameCarried
  <1>5. ASSUME NEW v \in Threads
        PROVE  Has(v)' = Has(v)
    <2>1. CASE v = u
      BY <2>1 DEF Has
    <2>2. CASE v # u /\ sPc[v] = "take"
      <3>1. sMine[v] \in Nodes /\ role[sMine[v]] = "pop" /\ holder[sMine[v]] = v
        <4>1. HolderOf(v, role, holder) /\ sMine[v] \in Nodes \cup {null}
          BY <1>3 DEF StackInv, NodesTypeOK, LFS!Pointers
        <4> QED
          BY <2>2, <4>1 DEF HolderOf, HasPopped
      <3> QED
        BY <1>2, <2>2, <3>1 DEF Has, Keeps
    <2>3. CASE v # u /\ sPc[v] # "take"
      BY <2>3 DEF Has, Keeps
    <2> QED
      BY <2>1, <2>2, <2>3
  <1>6. BringsValues'
    <2> SUFFICES ASSUME NEW v \in Threads, Pushes(v)' PROVE sDatum'[sMine'[v]] \in Values
      BY DEF BringsValues
    <2>1. CASE Pushes(v) /\ sMine'[v] = sMine[v]
      <3>1. sMine[v] \in Nodes /\ role[sMine[v]] = "push" /\ sDatum[sMine[v]] \in Values
        BY <1>3, <2>1 DEF HolderOf, BringsValues
      <3> QED
        BY <1>2, <2>1, <3>1
    <2> QED
      BY <2>1 DEF Pushes, Keeps
  <1> QED
    BY <1>4, <1>5, <1>6, StackMapping

\* A push takes effect where its exchange succeeds.
LEMMA PushesOntoStack ==
    ASSUME StackInv, BringsValues, NEW u \in Threads, LFS!PushCas(u), sHead = sNext[sMine[u]]
    PROVE  BringsValues' /\ LFS!LIFO!Next
  <1>1. PICK role, holder, rank : LaidOut(role, holder, rank)
    BY DEF StackInv
  <1>2. PICK n : n = sMine[u]
    OBVIOUS
  <1>3. /\ sPc[u] = "push cas" /\ sPc' = [sPc EXCEPT ![u] = "idle"] /\ sHead' = n
        /\ sMine' = [sMine EXCEPT ![u] = null] /\ UNCHANGED <<sNext, sDatum, res>>
    BY <1>2 DEF LFS!PushCas, LFS!At, LFS!Goto
  <1>4. /\ n \in Nodes /\ role[n] = "push" /\ sDatum[n] \in Values /\ sNext[n] = sHead
    BY <1>1, <1>2, <1>3 DEF LaidOut, ThreadInv, HolderOf, Pushes, BringsValues
  <1>5. /\ IsList(Of(role, "stack"), sHead, sNext, rank) /\ rank \in [Nodes -> Nat]
        /\ Of(role, "stack") \in SUBSET Nodes /\ sHead \in Nodes \cup {null}
        /\ sNext \in [Nodes -> Nodes \cup {null}] /\ n \in Nodes \ Of(role, "stack")
        /\ sDatum \in [Nodes -> Values \cup {Nothing}]
    BY <1>1, <1>4 DEF LaidOut, ListsInv, GhostTypes, StackInv, NodesTypeOK, LFS!Pointers, Of
  <1>6. Carried(sNext, sDatum, n) = <<sDatum[n]>> \o Carried(sNext, sDatum, sHead)
    <2>1. Walked(sNext, n) = <<n>> \o Walked(sNext, sHead)
      BY <1>4, <1>5, LongerWalk
    <2>2. Walked(sNext, sHead) \in Seq(Nodes)
      BY <1>5, WalkIsSeq
    <2>3. PICK nx, dt, h, V : /\ nx = sNext /\ dt = sDatum /\ h = sHead
                              /\ V = Values \cup {Nothing}
      OBVIOUS
    <2>4. /\ dt \in [Nodes -> V] /\ n \in Nodes /\ Walked(nx, h) \in Seq(Nodes)
          /\ Walked(nx, n) = <<n>> \o Walked(nx, h)
      BY <1>5, <2>1, <2>2, <2>3
    <2>5. OnTop(nx, dt, n, h)
      BY ONLY <2>4, LongerCarried
    <2> QED
      BY <2>3, <2>5 DEF OnTop
  <1>7. \A v \in Threads : Has(v)' = Has(v)
    BY <1>3 DEF Has, StackInv, NodesTypeOK
  <1>8. LFS!LIFO!Push(sDatum[n])
    BY <1>3, <1>6, <1>7, StackMapping DEF LFS!LIFO!Push, Has
  <1>9. BringsValues'
    BY <1>3 DEF BringsValues, Pushes, StackInv, NodesTypeOK
  <1> QED
    BY <1>4, <1>8, <1>9 DEF LFS!LIFO!Next

\* ... and so does a pop.
LEMMA PopsFromStack ==
    ASSUME StackInv, BringsValues, NEW u \in Threads, sPc[u] = "pop cas", sHead = sMine[u],
           sHead' = sSeen[u], LFS!Goto(u, "take"),
           UNCHANGED <<to_be_deleted, threads_in_pop, sNext, sDatum, sAllocated, sMine, nodes,
                       last, sSeen, res>>
    PROVE  BringsValues' /\ LFS!LIFO!Next
  <1>1. PICK role, holder, rank : LaidOut(role, holder, rank)
    BY DEF StackInv
  <1>2. PICK n : n = sHead
    OBVIOUS
  <1>3. n \in Nodes /\ sHead' = sNext[n] /\ sPc' = [sPc EXCEPT ![u] = "take"]
    BY <1>2, PoppedInv DEF LFS!Goto
  <1>4. /\ IsList(Of(role, "stack"), n, sNext, rank) /\ rank \in [Nodes -> Nat]
        /\ Of(role, "stack") \in SUBSET Nodes /\ sNext \in [Nodes -> Nodes \cup {null}]
        /\ sDatum \in [Nodes -> Values \cup {Nothing}]
    BY <1>1, <1>2 DEF LaidOut, ListsInv, GhostTypes, StackInv, NodesTypeOK, LFS!Pointers, Of
  <1>5. n \in Of(role, "stack")
    BY <1>3, <1>4, NodesAssumption DEF IsList, Linked
  <1>6. /\ Carried(sNext, sDatum, n) # <<>> /\ Head(Carried(sNext, sDatum, n)) = sDatum[n]
        /\ Tail(Carried(sNext, sDatum, n)) = Carried(sNext, sDatum, sNext[n])
    <2>1. PICK nx, dt, h, V : /\ nx = sNext /\ dt = sDatum /\ h = sNext[n]
                              /\ V = Values \cup {Nothing}
      OBVIOUS
    <2>2. /\ IsList(Of(role, "stack") \ {n}, h, nx, rank)
          /\ Of(role, "stack") \ {n} \in SUBSET Nodes /\ h \in Nodes \cup {null}
      BY <1>3, <1>4, <1>5, <2>1, OneLess
    <2>3. Walked(nx, n) = <<n>> \o Walked(nx, h) /\ Walked(nx, h) \in Seq(Nodes)
      BY <1>4, <1>5, <2>1, <2>2, FirstOfWalk, WalkIsSeq
    <2>4. dt \in [Nodes -> V]
      BY <1>4, <2>1
    <2>5. OnTop(nx, dt, n, h)
      BY ONLY <1>3, <2>3, <2>4, LongerCarried
    <2> QED
      BY <2>1, <2>5 DEF OnTop
  <1>7. /\ Has(u)' = sDatum[n]
        /\ \A v \in Threads \ {u} : Has(v)' = Has(v)
    BY <1>2, <1>3 DEF Has, StackInv, NodesTypeOK
  <1>8. LFS!LIFO!Pop(u)
    <2>1. [v \in Threads |-> Has(v)'] = [[v \in Threads |-> Has(v)] EXCEPT ![u] = sDatum[n]]
      BY <1>7
    <2>2. Carried(sNext', sDatum', sHead') = Carried(sNext, sDatum, sNext[n])
      BY <1>3
    <2> HIDE DEF Has
    <2> QED
      BY <1>2, <1>6, <2>1, <2>2, StackMapping DEF LFS!LIFO!Pop, Has
  <1>9. BringsValues'
    BY <1>3 DEF BringsValues, Pushes, StackInv, NodesTypeOK
  <1> QED
    BY <1>8, <1>9 DEF LFS!LIFO!Next

\* Stack does not see the other steps: most of them write to no node ...
LEMMA WritesNoNode ==
    ASSUME StackInv, StackInv', BringsValues, NEW u \in Threads, Quiet(u),
           UNCHANGED <<sNext, sDatum>>
    PROVE  BringsValues' /\ UNCHANGED LFS!LIFO!vars
  <1>1. PICK role, holder, rank : LaidOut(role, holder, rank)
    BY DEF StackInv
  <1>2. OwnNodes(u, role, holder)
    BY DEF OwnNodes
  <1> QED
    BY <1>1, <1>2, NotSeen DEF StackInv

\* ... and the others to a node of their thread.
LEMMA WritesOwnNode ==
    ASSUME StackInv, StackInv', BringsValues, NEW u \in Threads, Quiet(u),
           \/ /\ \E n \in Nodes : /\ n \notin sAllocated
                                  /\ \A m \in Nodes \ {n} : /\ sNext'[m] = sNext[m]
                                                            /\ sDatum'[m] = sDatum[m]
           \/ /\ Pushes(u) \/ (sPc[u] = "take" /\ sNext' = sNext)
              /\ \A m \in Nodes \ {sMine[u]} : /\ sNext'[m] = sNext[m]
                                               /\ sDatum'[m] = sDatum[m]
              /\ Pushes(u) => sDatum' = sDatum
           \/ /\ Chaining(u) /\ sDatum' = sDatum
              /\ \A m \in Nodes \ {last[u]} : sNext'[m] = sNext[m]
    PROVE  BringsValues' /\ UNCHANGED LFS!LIFO!vars
  <1>1. PICK role, holder, rank : LaidOut(role, holder, rank)
    BY DEF StackInv
  <1>2. /\ HolderOf(u, role, holder) /\ ClaimsOf(u, ClaimedBy(role, holder, u), rank)
        /\ \A n \in Nodes : n \notin sAllocated => role[n] = "free"
    BY <1>1 DEF LaidOut, ThreadInv, PlaceOf
  <1>3. CASE \E n \in Nodes : /\ n \notin sAllocated
                              /\ \A m \in Nodes \ {n} : /\ sNext'[m] = sNext[m]
                                                        /\ sDatum'[m] = sDatum[m]
    <2>1. OwnNodes(u, role, holder)
      BY <1>2, <1>3 DEF OwnNodes
    <2> QED
      BY <1>1, <2>1, NotSeen DEF StackInv
  <1>4. CASE /\ Pushes(u) \/ (sPc[u] = "take" /\ sNext' = sNext)
             /\ \A m \in Nodes \ {sMine[u]} : /\ sNext'[m] = sNext[m]
                                              /\ sDatum'[m] = sDatum[m]
             /\ Pushes(u) => sDatum' = sDatum
    <2>1. OwnNodes(u, role, holder)
      BY <1>2, <1>4 DEF OwnNodes, HolderOf, HasPopped, Pushes
    <2> QED
      BY <1>1, <2>1, NotSeen DEF StackInv
  <1>5. CASE /\ Chaining(u) /\ sDatum' = sDatum
             /\ \A m \in Nodes \ {last[u]} : sNext'[m] = sNext[m]
    <2>1. role[last[u]] = "claim"
      BY <1>2, <1>5 DEF ClaimsOf, ClaimedBy
    <2>2. OwnNodes(u, role, holder)
      BY <1>5, <2>1 DEF OwnNodes
    <2> QED
      BY <1>1, <2>2, NotSeen DEF StackInv
  <1> QED
    BY <1>3, <1>4, <1>5

\* Every step of the lock-free stack is a push, a pop, or one that Stack does not see.
LEMMA StackStepIsSeen ==
    ASSUME StackInv, BringsValues, LFS!Next
    PROVE  BringsValues' /\ [LFS!LIFO!Next]_LFS!LIFO!vars
  <1>1. StackInv'
    BY StackNextInv
  <1>2. PICK u \in Threads : \/ \E n \in Nodes, w \in Values : LFS!NewNode(u, n, w)
                             \/ LFS!EnterPop(u) \/ LFS!Step(u)
    BY DEF LFS!Next
  <1>t. NodesTypeOK
    BY DEF StackInv
  <1> USE DEF LFS!At, LFS!Goto, LFS!memory, LFS!locals, LFS!bounds, Keeps
  <1>3. CASE \E n \in Nodes, w \in Values : LFS!NewNode(u, n, w)
    <2>1. PICK n \in Nodes, w \in Values : LFS!NewNode(u, n, w)
      BY <1>3
    <2>2. Quiet(u)
      BY <1>t, <2>1 DEF LFS!NewNode, Quiet, NodesTypeOK
    <2>3. n \notin sAllocated /\ \A m \in Nodes \ {n} : sNext'[m] = sNext[m] /\ sDatum'[m] = sDatum[m]
      BY <1>t, <2>1 DEF LFS!NewNode, NodesTypeOK
    <2> QED
      BY <1>1, <2>2, <2>3, WritesOwnNode
  <1>4. CASE \/ LFS!EnterPop(u) \/ LFS!PopLoad(u) \/ LFS!PopNext(u) \/ LFS!TryReclaim(u)
             \/ LFS!Claim(u) \/ LFS!Leave(u) \/ LFS!DeleteNext(u) \/ LFS!Delete(u)
             \/ LFS!DeleteHead(u) \/ LFS!FindLast(u) \/ LFS!ExitPop(u)
    <2>1. Quiet(u) /\ UNCHANGED <<sNext, sDatum>>
      BY <1>t, <1>4 DEF LFS!EnterPop, LFS!PopLoad, LFS!OldHead, LFS!PopNext, LFS!TryReclaim,
                   LFS!Claim, LFS!Leave, LFS!DeleteNext, LFS!Delete, LFS!DeleteHead, LFS!Return,
                   LFS!FindLast, LFS!ExitPop, Quiet, Pushes, NodesTypeOK
    <2> QED
      BY <1>1, <2>1, WritesNoNode
  <1>5. CASE LFS!PushLoad(u)
    <2>1. Quiet(u) /\ Pushes(u) /\ sDatum' = sDatum
          /\ \A m \in Nodes \ {sMine[u]} : sNext'[m] = sNext[m]
      BY <1>t, <1>5 DEF LFS!PushLoad, Quiet, Pushes, NodesTypeOK
    <2> QED
      BY <1>1, <2>1, WritesOwnNode
  <1>6. CASE LFS!PushCas(u)
    <2>1. CASE sHead = sNext[sMine[u]]
      BY <1>6, <2>1, PushesOntoStack
    <2>2. CASE sHead # sNext[sMine[u]]
      <3>1. Quiet(u) /\ Pushes(u) /\ sDatum' = sDatum
            /\ \A m \in Nodes \ {sMine[u]} : sNext'[m] = sNext[m]
        BY <1>t, <1>6, <2>2 DEF LFS!PushCas, Quiet, Pushes, NodesTypeOK
      <3> QED
        BY <1>1, <3>1, WritesOwnNode
    <2> QED
      BY <2>1, <2>2
  <1>7. CASE LFS!PopCas(u)
    <2>1. /\ sPc[u] = "pop cas"
          /\ UNCHANGED <<to_be_deleted, threads_in_pop, sNext, sDatum, sAllocated, nodes, last,
                         sSeen, res>>
      BY <1>7 DEF LFS!PopCas
    <2>2. CASE LFS!OldHead(u, sHead) /\ UNCHANGED sHead
      <3>1. Quiet(u)
        BY <1>t, <2>1, <2>2 DEF LFS!OldHead, Quiet, Pushes, NodesTypeOK
      <3> QED
        BY <1>1, <2>1, <3>1, WritesNoNode
    <2>3. CASE sHead = sMine[u] /\ sHead' = sSeen[u] /\ LFS!Goto(u, "take") /\ UNCHANGED sMine
      BY <2>1, <2>3, PopsFromStack
    <2> QED
      BY <1>7, <2>2, <2>3 DEF LFS!PopCas
  <1>8. CASE LFS!Take(u)
    <2>1. Quiet(u) /\ sPc[u] = "take" /\ sNext' = sNext
          /\ \A m \in Nodes \ {sMine[u]} : sDatum'[m] = sDatum[m]
      BY <1>t, <1>8 DEF LFS!Take, Quiet, Pushes, NodesTypeOK
    <2> QED
      BY <1>1, <2>1, WritesOwnNode DEF Pushes
  <1>9. CASE LFS!ChainLoad(u)
    <2>1. Quiet(u) /\ Chaining(u) /\ sDatum' = sDatum
          /\ \A m \in Nodes \ {last[u]} : sNext'[m] = sNext[m]
      BY <1>t, <1>9 DEF LFS!ChainLoad, Quiet, Pushes, Chaining, NodesTypeOK
    <2> QED
      BY <1>1, <2>1, WritesOwnNode
  <1>10. CASE LFS!ChainCas(u)
    <2>1. Quiet(u) /\ Chaining(u) /\ sDatum' = sDatum
          /\ \A m \in Nodes \ {last[u]} : sNext'[m] = sNext[m]
      BY <1>t, <1>10 DEF LFS!ChainCas, Quiet, Pushes, Chaining, NodesTypeOK
    <2> QED
      BY <1>1, <2>1, WritesOwnNode
  <1> QED
    BY <1>2, <1>3, <1>4, <1>5, <1>6, <1>7, <1>8, <1>9, <1>10 DEF LFS!Step

\* The lock-free stack implements Stack, for any number of threads, nodes and calls: each
\* value pushed is popped once at most, and the last one that is there comes first.
THEOREM StackIsImplemented == SpecParts => ImplementsStack
  <1> DEFINE Inv == part = "stack" => StackInv /\ BringsValues
  <1>1. LFS!Init => BringsValues /\ LFS!LIFO!Init
    <2> SUFFICES ASSUME LFS!Init PROVE BringsValues /\ LFS!LIFO!Init
      OBVIOUS
    <2>1. sNext \in [Nodes -> Nodes \cup {null}] /\ sHead = null
      BY DEF LFS!Init
    <2>2. LFS!Contents = <<>>
      BY <2>1, EmptyWalk, StackMapping DEF Carried
    <2> QED
      BY <2>2 DEF LFS!Init, LFS!LIFO!Init, BringsValues, Pushes
  <1>2. InitParts => Inv /\ (part = "stack" => LFS!LIFO!Init)
    BY <1>1, StackInitInv DEF InitParts
  <1>3. Inv /\ [MutexStep \/ StackStep \/ QueueStep \/ OwnersStep \/ LockedStep]_partVars
          => Inv' /\ (part = "stack" => [LFS!LIFO!Next]_LFS!LIFO!vars)
    <2> SUFFICES ASSUME Inv,
                        [MutexStep \/ StackStep \/ QueueStep \/ OwnersStep \/ LockedStep]_partVars
                 PROVE  Inv' /\ (part = "stack" => [LFS!LIFO!Next]_LFS!LIFO!vars)
      OBVIOUS
    <2>1. CASE StackStep
      BY <2>1, StackNextInv, StackStepIsSeen DEF StackStep
    <2>2. CASE part' = part /\ UNCHANGED stackVars
      <3>1. UNCHANGED LFS!LIFO!vars
        BY <2>2, StackMapping DEF stackVars, Has, Carried
      <3>2. BringsValues => BringsValues'
        BY <2>2 DEF stackVars, BringsValues, Pushes
      <3> QED
        BY <2>2, <3>1, <3>2, SameStack DEF stackVars
    <2>3. CASE part' = part /\ part # "stack"
      BY <2>3
    <2> QED
      BY <2>1, <2>2, <2>3 DEF MutexStep, QueueStep, OwnersStep, LockedStep, partVars
  <1> QED
    BY <1>2, <1>3, PTL DEF SpecParts, ImplementsStack

\* While no call is running, the nodes that exist are those on the stack and those on
\* to_be_deleted: the other places need a thread in a call.
LEMMA StackDoesNotLeak == StackInv => LFS!NoLeak
  <1> SUFFICES ASSUME StackInv, \A u \in Threads : sPc[u] = "idle"
               PROVE  /\ sAllocated = LFS!NodesFrom(sHead) \cup LFS!NodesFrom(to_be_deleted)
                      /\ LFS!NodesFrom(sHead) \cap LFS!NodesFrom(to_be_deleted) = {}
    BY DEF LFS!NoLeak
  <1>1. PICK role, holder, rank : LaidOut(role, holder, rank)
    BY DEF StackInv
  <1>2. /\ role \in [Nodes -> Roles] /\ rank \in [Nodes -> Nat] /\ ListsInv(role, rank)
        /\ \A n \in Nodes : PlaceOf(n, role, holder)
        /\ \A u \in Threads : ThreadInv(u, role, holder, rank)
    BY <1>1 DEF LaidOut, GhostTypes
  <1>3. ASSUME NEW n \in Nodes
        PROVE  role[n] \in {"free", "stack", "pending"}
    <2>1. role[n] # "push" /\ role[n] # "pop"
      BY <1>2 DEF PlaceOf, Pushes, HasPopped, Chaining
    <2>2. CASE role[n] = "claim"
      <3>1. PICK u \in Threads : holder[n] = u
        BY <1>2, <2>2 DEF PlaceOf
      <3>2. ClaimedBy(role, holder, u) = {}
        BY <1>2 DEF ThreadInv, ClaimsOf
      <3> QED
        BY <2>2, <3>1, <3>2 DEF ClaimedBy
    <2> QED
      BY <1>2, <2>1, <2>2 DEF Roles
  <1>4. sAllocated = Of(role, "stack") \cup Of(role, "pending")
    BY <1>2, <1>3 DEF PlaceOf, Of, StackInv, NodesTypeOK
  <1>5. Of(role, "stack") \cap Of(role, "pending") = {}
    BY DEF Of
  <1>6. ASSUME NEW k \in {"stack", "pending"}, NEW h,
               h = IF k = "stack" THEN sHead ELSE to_be_deleted
        PROVE  LFS!NodesFrom(h) = Of(role, k)
    <2>1. /\ IsList(Of(role, k), h, sNext, rank) /\ Of(role, k) \in SUBSET Nodes
          /\ h \in Nodes \cup {null} /\ sNext \in [Nodes -> Nodes \cup {null}]
      BY <1>2, <1>6 DEF ListsInv, Of, StackInv, NodesTypeOK, LFS!Pointers
    <2>2. {Walked(sNext, h)[i] : i \in DOMAIN Walked(sNext, h)} = Of(role, k)
      BY <1>2, <2>1, WalkVisits
    <2> QED
      BY <2>2, StackWalks DEF LFS!NodesFrom
  <1>7. LFS!NodesFrom(sHead) = Of(role, "stack")
        /\ LFS!NodesFrom(to_be_deleted) = Of(role, "pending")
    BY <1>6
  <1> QED
    BY <1>4, <1>5, <1>7

-----------------------------------------------------------------------------
(* FineGrainedQueue: its list, the nodes that are not on it, and what    *)
(* each of the two mutexes covers.                                       *)

QueueLabels == {"idle", "lock_tail", "fill", "advance", "notify", "lock_head", "get_tail",
                "compare", "waiting", "delete"}

QueueNodesOK ==
    /\ head \in Nodes /\ tail \in Nodes
    /\ head_mtx \in Threads \cup {NoThread} /\ tail_mtx \in Threads \cup {NoThread}
    /\ next \in [Nodes -> Nodes \cup {null}]
    /\ datum \in [Nodes -> Values \cup {Nothing}]
    /\ allocated \in SUBSET Nodes
    /\ qPc \in [Threads -> QueueLabels]
    /\ qMine \in [Threads -> Nodes \cup {null}] /\ seen \in [Threads -> Nodes \cup {null}]
    /\ pushed \in [Threads -> Values \cup {Nothing}]
QueueTypesOK ==
    /\ QueueNodesOK
    /\ qOp \in [Threads -> FGQ!AllOps \cup {"none", "consume_pop"}]
    /\ taken \in Seq([by : Threads, val : Values])

\* A mutex is held by the thread that is between its lock and its unlock.
HoldsHead(u) == qPc[u] \in {"get_tail", "compare"}
HoldsTail(u) == qPc[u] \in {"fill", "advance"}
MutexesInv == \A u \in Threads : /\ HoldsHead(u) <=> head_mtx = u
                                 /\ HoldsTail(u) <=> tail_mtx = u

\* A node that is not on the list is the new dummy node of a push, or the old head of a
\* pop, and of one thread only.
Owns(u) == qPc[u] \in {"lock_tail", "fill", "delete"}
OwnInv(L) ==
    /\ L \in SUBSET allocated
    /\ \A u \in Threads : Owns(u) => qMine[u] \in allocated \ L
    /\ \A u, v \in Threads : Owns(u) /\ Owns(v) /\ qMine[u] = qMine[v] => u = v
    /\ \A n \in allocated \ L : \E u \in Threads : Owns(u) /\ qMine[u] = n

\* What a push brings.
PushersInv ==
    \A u \in Threads :
        /\ qPc[u] \in {"lock_tail", "fill", "advance"} => pushed[u] \in Values
        /\ qPc[u] \in {"lock_tail", "fill"} => next[qMine[u]] = null

\* L is the list, and the nodes before tail carry values.  tail is its last node, unless
\* a push has linked the next one: then it is the last but one.
QueueListInv(L, rank) ==
    /\ rank \in [Nodes -> Nat] /\ IsList(L, head, next, rank) /\ tail \in L
    /\ \A n \in L : rank[n] > rank[tail] => datum[n] \in Values
    /\ \A u \in Threads :
           qPc[u] = "advance" => /\ rank[tail] = 2 /\ next[tail] = qMine[u]
                                 /\ datum[tail] \in Values
    /\ rank[tail] = 1 \/ \E u \in Threads : qPc[u] = "advance"

\* What get_tail returned is on the list still, and not before tail.
SeenInv(L, rank) ==
    \A u \in Threads : qPc[u] = "compare" => seen[u] \in L /\ rank[seen[u]] >= rank[tail]

ListedAs(L, rank) == OwnInv(L) /\ QueueListInv(L, rank) /\ SeenInv(L, rank)

QueueInv == QueueTypesOK /\ MutexesInv /\ PushersInv /\ \E L, rank : ListedAs(L, rank)

\* The initial states: the list is one dummy node.
LEMMA QueueInitInv == FGQ!Init => QueueInv
  <1> SUFFICES ASSUME FGQ!Init PROVE QueueInv
    OBVIOUS
  <1> USE DEF FGQ!Init
  <1>1. PICK n \in Nodes : head = n /\ tail = n /\ allocated = {n}
    OBVIOUS
  <1>2. QueueTypesOK
    <2>1. taken \in Seq([by : Threads, val : Values])
      OBVIOUS
    <2> QED
      BY <1>1, <2>1 DEF QueueTypesOK, QueueNodesOK, QueueLabels
  <1>3. MutexesInv /\ PushersInv
    BY NoThreadAssumption DEF MutexesInv, PushersInv, HoldsHead, HoldsTail
  <1> DEFINE rank == [m \in Nodes |-> 1]
  <1>4. rank \in [Nodes -> Nat] /\ IsList({n}, n, next, rank)
    BY <1>1, JustOne DEF IsList, Ended
  <1>5. OwnInv({n}) /\ SeenInv({n}, rank)
    BY <1>1 DEF OwnInv, SeenInv, Owns
  <1>6. QueueListInv({n}, rank)
    BY <1>1, <1>4 DEF QueueListInv
  <1> QED
    BY <1>2, <1>3, <1>5, <1>6 DEF QueueInv, ListedAs

\* v does not come to own a node or cease to, nor does it link one; get_tail may return.
Steady(v) ==
    /\ Owns(v)' <=> Owns(v)
    /\ qPc'[v] = "advance" <=> qPc[v] = "advance"
    /\ qPc'[v] \in {"lock_tail", "fill"} <=> qPc[v] \in {"lock_tail", "fill"}
    /\ Owns(v) \/ qPc[v] = "advance" => qMine'[v] = qMine[v]
    /\ qPc'[v] = "compare" => (qPc[v] = "compare" /\ seen'[v] = seen[v]) \/ seen'[v] = tail

\* A step with which no node changes.
LEMMA NodesStayInv ==
    ASSUME QueueInv, QueueTypesOK', MutexesInv', \A v \in Threads : Steady(v),
           UNCHANGED <<head, tail, next, datum, allocated, pushed>>
    PROVE  QueueInv'
  <1>1. PICK L, rank : OwnInv(L) /\ QueueListInv(L, rank) /\ SeenInv(L, rank)
    BY DEF QueueInv, ListedAs
  <1>2. PushersInv'
    BY DEF QueueInv, PushersInv, Steady, Owns
  <1>3. OwnInv(L)'
    BY <1>1 DEF OwnInv, Steady
  <1>4. QueueListInv(L, rank)'
    BY <1>1 DEF QueueListInv, Steady
  <1>5. SeenInv(L, rank)'
    <2>1. tail \in L /\ rank[tail] \in Nat
      BY <1>1 DEF QueueListInv, QueueInv, QueueTypesOK, QueueNodesOK
    <2> SUFFICES ASSUME NEW v \in Threads, qPc'[v] = "compare"
                 PROVE  seen'[v] \in L /\ rank[seen'[v]] >= rank[tail]
      BY DEF SeenInv
    <2>2. CASE seen'[v] = tail
      BY <2>1, <2>2
    <2>3. CASE qPc[v] = "compare" /\ seen'[v] = seen[v]
      BY <1>1, <2>3 DEF SeenInv
    <2> QED
      BY <2>2, <2>3 DEF Steady
  <1> QED
    BY <1>2, <1>3, <1>4, <1>5 DEF QueueInv, ListedAs

\* Nothing changes.
LEMMA SameQueue == QueueInv /\ UNCHANGED queueVars => QueueInv'
  <1> SUFFICES ASSUME QueueInv, UNCHANGED queueVars PROVE QueueInv'
    OBVIOUS
  <1>1. QueueTypesOK' /\ MutexesInv'
    BY DEF QueueInv, QueueTypesOK, QueueNodesOK, MutexesInv, HoldsHead, HoldsTail, queueVars
  <1>2. \A v \in Threads : Steady(v)
    BY DEF Steady, Owns, queueVars
  <1> QED
    BY <1>1, <1>2, NodesStayInv DEF queueVars

\* The steps that take or give up a mutex, wait, are woken, or return without a node.
LEMMA NoNodeInv ==
    ASSUME QueueInv, NEW u \in Threads,
           \/ FGQ!LockTail(u) \/ FGQ!Notify(u) \/ FGQ!LockHead(u) \/ FGQ!GetTail(u)
           \/ FGQ!Empty(u) \/ FGQ!TryFails(u) \/ FGQ!Wait(u) \/ FGQ!SpuriousWake(u)
           \/ \E o \in FGQ!AllOps : FGQ!Call(u, o)
    PROVE  QueueInv'
  <1> USE DEF FGQ!LockTail, FGQ!Notify, FGQ!LockHead, FGQ!GetTail, FGQ!Empty, FGQ!TryFails,
              FGQ!Wait, FGQ!SpuriousWake, FGQ!Call, FGQ!Return, FGQ!At, FGQ!Goto,
              FGQ!memory, FGQ!mutexes, FGQ!bounds
  <1>1. UNCHANGED <<head, tail, next, datum, allocated, pushed, taken>>
    OBVIOUS
  <1>2. QueueTypesOK'
    BY <1>1 DEF QueueInv, QueueTypesOK, QueueNodesOK, QueueLabels, FGQ!AllOps
  <1>3. MutexesInv'
    <2> SUFFICES ASSUME NEW v \in Threads
                 PROVE  (HoldsHead(v) <=> head_mtx = v)' /\ (HoldsTail(v) <=> tail_mtx = v)'
      BY DEF MutexesInv
    <2>1. /\ qPc \in [Threads -> QueueLabels] /\ v # NoThread /\ u # NoThread
          /\ HoldsHead(v) <=> head_mtx = v
          /\ HoldsTail(v) <=> tail_mtx = v
          /\ HoldsHead(u) <=> head_mtx = u
      BY NoThreadAssumption DEF QueueInv, QueueTypesOK, QueueNodesOK, MutexesInv
    <2>2. CASE FGQ!LockTail(u) \/ FGQ!LockHead(u) \/ FGQ!GetTail(u)
      BY <2>1, <2>2 DEF HoldsHead, HoldsTail
    <2>3. CASE FGQ!Empty(u)
      <3>1. /\ qPc[u] = "compare" /\ head_mtx' = NoThread /\ tail_mtx' = tail_mtx
            /\ \/ qPc' = [qPc EXCEPT ![u] = "lock_head"]
               \/ qPc' = [qPc EXCEPT ![u] = "idle"]
        BY <2>3
      <3> QED
        BY ONLY <2>1, <3>1, u \in Threads, v \in Threads DEF HoldsHead, HoldsTail
    <2>4. CASE FGQ!TryFails(u) \/ FGQ!Wait(u)
      BY <2>1, <2>4 DEF HoldsHead, HoldsTail
    <2>5. CASE FGQ!Notify(u) \/ FGQ!SpuriousWake(u) \/ \E o \in FGQ!AllOps : FGQ!Call(u, o)
      BY <2>1, <2>5 DEF HoldsHead, HoldsTail
    <2> QED
      BY <2>2, <2>3, <2>4, <2>5
  <1>4. \A v \in Threads : Steady(v)
    BY DEF QueueInv, QueueTypesOK, QueueNodesOK, Steady, Owns
  <1> QED
    BY <1>1, <1>2, <1>3, <1>4, NodesStayInv

\* A push makes its dummy node at a free address.
LEMMA NewDummyInv ==
    ASSUME QueueInv, NEW u \in Threads, NEW n \in Nodes, NEW w \in Values,
           FGQ!NewDummy(u, n, w)
    PROVE  QueueInv'
  <1>1. PICK L, rank : OwnInv(L) /\ QueueListInv(L, rank) /\ SeenInv(L, rank)
    BY DEF QueueInv, ListedAs
  <1>t. QueueNodesOK
    BY DEF QueueInv, QueueTypesOK
  <1>2. /\ qPc[u] = "idle" /\ n \notin allocated /\ allocated' = allocated \cup {n}
        /\ qPc' = [qPc EXCEPT ![u] = "lock_tail"] /\ qMine' = [qMine EXCEPT ![u] = n]
        /\ pushed' = [pushed EXCEPT ![u] = w]
        /\ next' = [next EXCEPT ![n] = null] /\ datum' = [datum EXCEPT ![n] = Nothing]
        /\ UNCHANGED <<head, tail, head_mtx, tail_mtx, seen, taken>>
    BY DEF FGQ!NewDummy, FGQ!At, FGQ!Goto, FGQ!mutexes
  <1>3. QueueTypesOK'
    <2>1. qOp' = [qOp EXCEPT ![u] = "push"]
      BY DEF FGQ!NewDummy
    <2>2. QueueNodesOK'
      BY <1>t, <1>2 DEF QueueNodesOK, QueueLabels
    <2> QED
      BY <1>2, <2>1, <2>2 DEF QueueInv, QueueTypesOK, FGQ!AllOps
  <1>4. /\ qPc'[u] = "lock_tail" /\ qMine'[u] = n /\ pushed'[u] = w /\ next'[n] = null
        /\ \A v \in Threads \ {u} : /\ qPc'[v] = qPc[v] /\ qMine'[v] = qMine[v]
                                    /\ pushed'[v] = pushed[v]
        /\ \A m \in Nodes \ {n} : next'[m] = next[m] /\ datum'[m] = datum[m]
    BY <1>t, <1>2 DEF QueueNodesOK
  <1>5. /\ ~ Owns(u) /\ Owns(u)'
        /\ \A v \in Threads \ {u} : Owns(v)' <=> Owns(v)
    BY <1>2, <1>4 DEF Owns
  <1>6. MutexesInv'
    BY <1>2, <1>4 DEF QueueInv, MutexesInv, HoldsHead, HoldsTail
  <1>7. OwnInv(L)'
    <2>1. L \in SUBSET allocated /\ n \notin L
      BY <1>1, <1>2 DEF OwnInv
    <2>2. \A v \in Threads \ {u} : Owns(v) => qMine[v] \in allocated \ L /\ qMine[v] # n
      BY <1>1, <1>2 DEF OwnInv
    <2>3. \A v, x \in Threads : Owns(v) /\ Owns(x) /\ qMine[v] = qMine[x] => v = x
      BY <1>1 DEF OwnInv
    <2>4. \A m \in allocated \ L : \E v \in Threads \ {u} : Owns(v) /\ qMine[v] = m
      BY <1>1, <1>5 DEF OwnInv
    <2>5. ASSUME NEW m \in allocated' \ L
          PROVE  \E v \in Threads : Owns(v)' /\ qMine'[v] = m
      BY <1>2, <1>4, <1>5, <2>4
    <2>6. ASSUME NEW v \in Threads, NEW x \in Threads, Owns(v)', Owns(x)', qMine'[v] = qMine'[x]
          PROVE  v = x
      <3>1. CASE v = u
        BY <1>4, <1>5, <2>2, <2>6, <3>1
      <3>2. CASE x = u
        BY <1>4, <1>5, <2>2, <2>6, <3>2
      <3>3. CASE v # u /\ x # u
        BY <1>4, <1>5, <2>3, <2>6, <3>3
      <3> QED
        BY <3>1, <3>2, <3>3
    <2>7. ASSUME NEW v \in Threads, Owns(v)'
          PROVE  qMine'[v] \in allocated' \ L
      <3>1. CASE v = u
        <4>1. qMine'[v] = n /\ n \in allocated' /\ n \notin L
          BY <1>2, <1>4, <2>1, <3>1
        <4> QED
          BY ONLY <4>1
      <3>2. CASE v # u
        <4>1. qMine'[v] = qMine[v] /\ qMine[v] \in allocated /\ qMine[v] \notin L
          BY <1>4, <1>5, <2>2, <2>7, <3>2
        <4>2. allocated \subseteq allocated'
          BY ONLY <1>2
        <4> QED
          BY ONLY <4>1, <4>2
      <3> QED
        BY <3>1, <3>2
    <2>8. L \in SUBSET allocated'
      BY <1>2, <2>1
    <2> QED
      BY <2>5, <2>6, <2>7, <2>8 DEF OwnInv
  <1>8. PushersInv'
    <2> SUFFICES ASSUME NEW v \in Threads \ {u}
                 PROVE  /\ qPc[v] \in {"lock_tail", "fill", "advance"} => pushed[v] \in Values
                        /\ qPc[v] \in {"lock_tail", "fill"} => next'[qMine[v]] = null
      BY <1>4 DEF PushersInv
    <2>1. Owns(v) => qMine[v] \in Nodes \ {n}
      BY <1>t, <1>1, <1>2 DEF OwnInv, QueueNodesOK
    <2> QED
      BY <1>4, <2>1 DEF QueueInv, PushersInv, Owns
  <1>9. \A m \in L : m \in Nodes \ {n}
    BY <1>t, <1>1, <1>2 DEF OwnInv, QueueNodesOK
  <1>10. QueueListInv(L, rank)'
    <2>1. IsList(L, head, next', rank)
      BY <1>1, <1>4, <1>9, SameList DEF QueueListInv
    <2>2. next'[tail] = next[tail] /\ datum'[tail] = datum[tail]
      BY <1>1, <1>4, <1>9 DEF QueueListInv
    <2>3. \A v \in Threads : qPc'[v] = "advance" <=> qPc[v] = "advance"
      BY <1>2, <1>4
    <2> QED
      BY <1>1, <1>2, <1>4, <1>9, <2>1, <2>2, <2>3 DEF QueueListInv
  <1>11. SeenInv(L, rank)'
    BY <1>1, <1>2, <1>4 DEF SeenInv
  <1> QED
    BY <1>3, <1>6, <1>7, <1>8, <1>10, <1>11 DEF QueueInv, ListedAs

\* A node below the last one of a list makes a list that is longer by that node.
LEMMA LongerBelow ==
    ASSUME NEW S \in SUBSET Nodes, NEW h, h # null, NEW l \in S, NEW n \in Nodes \ S,
           NEW nx, NEW ny, NEW rank \in [Nodes -> Nat], NEW rang \in [Nodes -> Nat],
           IsList(S, h, nx, rank), rank[l] = 1, ny[l] = n, ny[n] = null,
           \A m \in S \ {l} : ny[m] = nx[m],
           \A m \in Nodes : rang[m] = IF m = n THEN 1 ELSE rank[m] + 1
    PROVE  IsList(S \cup {n}, h, ny, rang)
  <1>1. PICK rans \in [Nodes -> Nat] : \A m \in Nodes : rans[m] = IF m = n THEN 1 ELSE rank[m]
    <2>1. [rank EXCEPT ![n] = 1] \in [Nodes -> Nat]
      OBVIOUS
    <2> QED
      BY <2>1
  <1>2. Linked(S, h, ny, rans)
    <2>1. Linked(S, h, nx, rank) /\ (\A m \in S : rans[m] = rank[m])
      BY <1>1 DEF IsList
    <2>2. \A m \in S : rank[m] = 1 => m = l
      BY DEF IsList, Linked
    <2>3. \A m \in S : rans[m] # 1 => ny[m] \in S /\ rans[ny[m]] = rans[m] - 1
      BY <2>1, <2>2 DEF Linked
    <2> QED
      BY <2>1, <2>3 DEF Linked
  <1>3. IsList({n}, n, ny, rans)
    BY <1>1, JustOne DEF IsList, Ended
  <1>4. rans[l] = 1 /\ n # null /\ rans[n] = 1 /\ 1 = IF n = null THEN 0 ELSE rans[n]
    BY <1>1, NodesAssumption
  <1>5. (\A m \in S : rang[m] = rans[m] + 1) /\ (\A m \in {n} : rang[m] = rans[m])
    BY <1>1
  <1>6. S \in SUBSET Nodes /\ {n} \in SUBSET Nodes /\ S \cap {n} = {}
    OBVIOUS
  <1>7. l \in S /\ h # null /\ ny[l] = n /\ rans \in [Nodes -> Nat]
        /\ Linked(S, h, ny, rans) /\ IsList({n}, n, ny, rans)
    BY <1>2, <1>3
  <1> QED
    BY ONLY <1>4, <1>5, <1>6, <1>7, TwoLists

\* A push fills the dummy node at the end of the list, and hangs its own below it: every
\* other node of the list comes one further from its end.
LEMMA FillInv ==
    ASSUME QueueInv, NEW u \in Threads, FGQ!Fill(u)
    PROVE  QueueInv'
  <1>1. PICK L, rank : OwnInv(L) /\ QueueListInv(L, rank) /\ SeenInv(L, rank)
    BY DEF QueueInv, ListedAs
  <1>t. QueueNodesOK
    BY DEF QueueInv, QueueTypesOK
  <1>n. PICK n, l : n = qMine[u] /\ l = tail
    OBVIOUS
  <1>a. /\ qPc[u] = "fill" /\ qPc' = [qPc EXCEPT ![u] = "advance"]
        /\ next' = [next EXCEPT ![l] = n] /\ datum' = [datum EXCEPT ![l] = pushed[u]]
        /\ UNCHANGED <<head, tail, head_mtx, tail_mtx, allocated, qMine, seen, pushed, taken, qOp>>
    BY <1>n DEF FGQ!Fill, FGQ!At, FGQ!Goto, FGQ!mutexes, FGQ!bounds
  <1>2. /\ n \in allocated \ L /\ n \in Nodes /\ n = qMine[u]
        /\ l \in L /\ l \in Nodes /\ l # n /\ l = tail
        /\ next[n] = null /\ pushed[u] \in Values
        /\ qPc[u] = "fill" /\ qPc'[u] = "advance"
        /\ \A v \in Threads \ {u} : qPc'[v] = qPc[v]
        /\ next'[l] = n /\ datum'[l] = pushed[u]
        /\ \A m \in Nodes \ {l} : next'[m] = next[m] /\ datum'[m] = datum[m]
        /\ UNCHANGED <<head, tail, head_mtx, tail_mtx, allocated, qMine, seen, pushed>>
    <2>1. n \in allocated \ L /\ l \in L /\ n \in Nodes /\ l \in Nodes
      BY <1>t, <1>1, <1>n, <1>a DEF OwnInv, Owns, QueueListInv, QueueNodesOK
    <2>2. next[n] = null /\ pushed[u] \in Values
      BY <1>n, <1>a DEF QueueInv, PushersInv
    <2> QED
      BY <1>t, <1>n, <1>a, <2>1, <2>2 DEF QueueNodesOK
  <1>m. \A v \in Threads \ {u} : qPc[v] \notin {"fill", "advance"}
    BY <1>2 DEF QueueInv, MutexesInv, HoldsTail
  <1>3. QueueTypesOK'
    <2>1. QueueNodesOK'
      BY <1>t, <1>a, <1>2 DEF QueueNodesOK, QueueLabels
    <2> QED
      BY <1>a, <2>1 DEF QueueInv, QueueTypesOK
  <1>4. MutexesInv'
    BY <1>2, <1>m DEF QueueInv, MutexesInv, HoldsHead, HoldsTail
  <1>o. \A v \in Threads \ {u} : /\ Owns(v)' <=> Owns(v)
                                 /\ Owns(v) => qMine[v] \in Nodes \ {l} /\ qMine[v] # n
    <2>1. Owns(u) /\ \A v \in Threads \ {u} : Owns(v)' <=> Owns(v)
      BY <1>2 DEF Owns
    <2>2. \A v \in Threads \ {u} : Owns(v) => qMine[v] \in allocated \ L /\ qMine[v] # n
      BY <1>1, <1>2, <2>1 DEF OwnInv
    <2> QED
      BY <1>t, <1>2, <2>1, <2>2 DEF QueueNodesOK
  <1>5. PushersInv'
    <2> SUFFICES ASSUME NEW v \in Threads
                 PROVE  /\ qPc'[v] \in {"lock_tail", "fill", "advance"} => pushed[v] \in Values
                        /\ qPc'[v] \in {"lock_tail", "fill"} => next'[qMine[v]] = null
      BY <1>2 DEF PushersInv
    <2>1. CASE v = u
      BY <1>2, <2>1
    <2>2. CASE v # u
      BY <1>2, <1>o, <2>2 DEF QueueInv, PushersInv, Owns
    <2> QED
      BY <2>1, <2>2
  <1>6. OwnInv(L \cup {n})'
    <2>1. ~ Owns(u)' /\ Owns(u)
      BY <1>2 DEF Owns
    <2>2. \A m \in allocated \ (L \cup {n}) : \E v \in Threads \ {u} : Owns(v) /\ qMine[v] = m
      BY <1>1, <1>2 DEF OwnInv
    <2>3. L \cup {n} \in SUBSET allocated
      BY <1>1, <1>2 DEF OwnInv
    <2>4. \A v \in Threads \ {u} : Owns(v) => qMine[v] \in allocated \ (L \cup {n})
      BY <1>1, <1>o DEF OwnInv
    <2>5. \A v, x \in Threads : Owns(v) /\ Owns(x) /\ qMine[v] = qMine[x] => v = x
      BY <1>1 DEF OwnInv
    <2> QED
      BY <1>2, <1>o, <2>1, <2>2, <2>3, <2>4, <2>5 DEF OwnInv
  <1>7. PICK rang \in [Nodes -> Nat] : \A m \in Nodes : rang[m] = IF m = n THEN 1 ELSE rank[m] + 1
    <2>1. \A m \in Nodes : rank[m] + 1 \in Nat
      BY <1>1 DEF QueueListInv
    <2>2. [m \in Nodes |-> IF m = n THEN 1 ELSE rank[m] + 1] \in [Nodes -> Nat]
      BY <2>1
    <2> QED
      BY <2>2
  <1>8. /\ rank \in [Nodes -> Nat] /\ rank[l] = 1 /\ IsList(L, head, next, rank)
        /\ L \in SUBSET Nodes /\ head # null
    <2>1. rank[l] = 1
      BY <1>1, <1>2, <1>m DEF QueueListInv
    <2> QED
      BY <1>t, <1>1, <2>1, NodesAssumption DEF QueueListInv, OwnInv, QueueNodesOK
  <1>9. IsList(L \cup {n}, head, next', rang)
    <2>1. PICK ny, h : ny = next' /\ h = head
      OBVIOUS
    <2>2. /\ L \in SUBSET Nodes /\ rank \in [Nodes -> Nat] /\ IsList(L, h, next, rank)
          /\ h # null /\ l \in L /\ rank[l] = 1 /\ n \in Nodes \ L
          /\ ny[l] = n /\ ny[n] = null /\ \A m \in L \ {l} : ny[m] = next[m]
          /\ rang \in [Nodes -> Nat]
          /\ \A m \in Nodes : rang[m] = IF m = n THEN 1 ELSE rank[m] + 1
      BY <1>2, <1>7, <1>8, <2>1
    <2>3. IsList(L \cup {n}, h, ny, rang)
      BY ONLY <2>2, LongerBelow
    <2> QED
      BY <2>1, <2>3
  <1>10. SeenInv(L \cup {n}, rang)'
    BY <1>1, <1>2, <1>7, <1>8 DEF SeenInv
  <1>11. QueueListInv(L \cup {n}, rang)'
    <2>1. rang[l] = 2 /\ tail \in L \cup {n}
      BY <1>2, <1>7, <1>8
    <2>2. \A m \in L \cup {n} : rang[m] > rang[tail] => datum'[m] \in Values
      <3> SUFFICES ASSUME NEW m \in L \cup {n}, rang[m] > 2 PROVE datum'[m] \in Values
        BY <1>2, <2>1
      <3>1. m \in L /\ m # l /\ rank[m] > 1 /\ m \in Nodes
        BY <1>2, <1>7, <1>8
      <3> QED
        BY <1>1, <1>2, <1>8, <3>1 DEF QueueListInv
    <2>3. ASSUME NEW v \in Threads, qPc'[v] = "advance"
          PROVE  rang[tail] = 2 /\ next'[tail] = qMine[v] /\ datum'[tail] \in Values
      BY <1>2, <1>m, <2>1, <2>3
    <2> QED
      BY <1>2, <1>7, <1>9, <2>1, <2>2, <2>3 DEF QueueListInv
  <1> QED
    BY <1>3, <1>4, <1>5, <1>6, <1>10, <1>11 DEF QueueInv, ListedAs

\* A push moves tail, and gives up the mutex.
LEMMA AdvanceInv ==
    ASSUME QueueInv, NEW u \in Threads, FGQ!Advance(u)
    PROVE  QueueInv'
  <1>1. PICK L, rank : OwnInv(L) /\ QueueListInv(L, rank) /\ SeenInv(L, rank)
    BY DEF QueueInv, ListedAs
  <1>t. QueueNodesOK
    BY DEF QueueInv, QueueTypesOK
  <1>n. PICK n, l : n = qMine[u] /\ l = tail
    OBVIOUS
  <1>2. /\ qPc[u] = "advance" /\ qPc' = [qPc EXCEPT ![u] = "notify"] /\ l = tail
        /\ tail' = n /\ tail_mtx' = NoThread
        /\ UNCHANGED <<head, head_mtx, next, datum, allocated, qOp, qMine, seen, pushed, taken>>
    BY <1>n DEF FGQ!Advance, FGQ!At, FGQ!Goto, FGQ!memory, FGQ!bounds
  <1>3. /\ rank \in [Nodes -> Nat] /\ l \in L /\ rank[l] = 2 /\ datum[l] \in Values
        /\ next[l] = n /\ n \in L /\ rank[n] = 1
        /\ L \in SUBSET Nodes /\ IsList(L, head, next, rank)
    BY <1>t, <1>1, <1>n, <1>2 DEF QueueListInv, OwnInv, QueueNodesOK, IsList, Linked
  <1>4. /\ qPc'[u] = "notify" /\ \A v \in Threads \ {u} : qPc'[v] = qPc[v]
        /\ tail_mtx = u /\ \A v \in Threads \ {u} : ~ HoldsTail(v)
    BY <1>t, <1>2 DEF QueueNodesOK, QueueInv, MutexesInv, HoldsTail
  <1>5. QueueTypesOK'
    <2>1. QueueNodesOK'
      BY <1>t, <1>2, <1>3 DEF QueueNodesOK, QueueLabels
    <2> QED
      BY <1>2, <2>1 DEF QueueInv, QueueTypesOK
  <1>6. MutexesInv'
    BY <1>2, <1>4, NoThreadAssumption DEF QueueInv, MutexesInv, HoldsHead, HoldsTail
  <1>7. PushersInv'
    BY <1>2, <1>4 DEF QueueInv, PushersInv
  <1>8. OwnInv(L)'
    <2>1. \A v \in Threads : Owns(v)' <=> Owns(v)
      BY <1>2, <1>4 DEF Owns
    <2> QED
      BY <1>1, <1>2, <2>1 DEF OwnInv
  <1>9. QueueListInv(L, rank)'
    <2>1. ASSUME NEW m \in L, rank[m] > 1
          PROVE  datum[m] \in Values
      <3>1. CASE rank[m] = 2
        BY <1>3, <3>1 DEF IsList, Linked
      <3>2. CASE rank[m] # 2
        BY <1>1, <1>2, <1>3, <2>1, <3>2 DEF QueueListInv
      <3> QED
        BY <3>1, <3>2
    <2>2. \A v \in Threads : qPc'[v] # "advance"
      BY <1>4 DEF HoldsTail
    <2> QED
      BY <1>2, <1>3, <2>1, <2>2 DEF QueueListInv
  <1>10. SeenInv(L, rank)'
    <2> SUFFICES ASSUME NEW v \in Threads, qPc'[v] = "compare"
                 PROVE  seen[v] \in L /\ rank[seen[v]] >= 1
      BY <1>2, <1>3 DEF SeenInv
    <2>1. qPc[v] = "compare"
      BY <1>4
    <2>2. seen[v] \in L
      BY <1>1, <2>1 DEF SeenInv
    <2> QED
      BY <1>3, <2>2 DEF IsList, Linked
  <1> QED
    BY <1>5, <1>6, <1>7, <1>8, <1>9, <1>10 DEF QueueInv, ListedAs

\* What a pop finds: the head is not the tail, even though tail may have moved since it
\* was read, and it carries a value.
LEMMA PopFinds ==
    ASSUME QueueInv, NEW u \in Threads, qPc[u] = "compare", head # seen[u],
           NEW L, NEW rank, OwnInv(L), QueueListInv(L, rank), SeenInv(L, rank)
    PROVE  /\ L \in SUBSET Nodes /\ head \in L /\ tail \in L
           /\ rank[head] \in Nat /\ rank[tail] \in Nat /\ rank[head] > rank[tail]
           /\ rank[tail] >= 1 /\ datum[head] \in Values
           /\ next[head] \in L \ {head} /\ rank[next[head]] = rank[head] - 1
  <1>1. QueueNodesOK
    BY DEF QueueInv, QueueTypesOK
  <1>2. L \in SUBSET Nodes /\ head # null /\ rank \in [Nodes -> Nat]
    BY <1>1, NodesAssumption DEF OwnInv, QueueListInv, QueueNodesOK
  <1>3. head \in L /\ tail \in L /\ seen[u] \in L /\ rank[seen[u]] >= rank[tail]
    BY <1>2 DEF QueueListInv, SeenInv, IsList, Linked
  <1>4. /\ rank[head] \in Nat /\ rank[tail] \in Nat /\ rank[seen[u]] \in Nat
        /\ rank[tail] >= 1 /\ rank[seen[u]] <= rank[head] /\ rank[seen[u]] # rank[head]
    BY <1>2, <1>3 DEF QueueListInv, IsList, Linked
  <1>5. rank[head] > rank[tail] /\ rank[head] # 1
    BY <1>3, <1>4
  <1>6. next[head] \in L /\ rank[next[head]] = rank[head] - 1
    BY <1>3, <1>5 DEF QueueListInv, IsList, Linked
  <1>7. next[head] # head
    BY <1>4, <1>6
  <1>8. datum[head] \in Values
    BY <1>3, <1>5 DEF QueueListInv
  <1> QED
    BY <1>2, <1>3, <1>4, <1>5, <1>6, <1>7, <1>8

\* A pop takes the head from the list.
LEMMA PopHeadInv ==
    ASSUME QueueInv, NEW u \in Threads, FGQ!PopHead(u)
    PROVE  QueueInv'
  <1>1. PICK L, rank : OwnInv(L) /\ QueueListInv(L, rank) /\ SeenInv(L, rank)
    BY DEF QueueInv, ListedAs
  <1>t. QueueNodesOK
    BY DEF QueueInv, QueueTypesOK
  <1>n. PICK h : h = head
    OBVIOUS
  <1>2. /\ qPc[u] = "compare" /\ qPc' = [qPc EXCEPT ![u] = "delete"] /\ head # seen[u]
        /\ h = head /\ head' = next[h] /\ head_mtx' = NoThread
        /\ qMine' = [qMine EXCEPT ![u] = h]
        /\ taken' = Append(taken, [by |-> u, val |-> datum[h]])
        /\ UNCHANGED <<tail, tail_mtx, next, datum, allocated, qOp, seen, pushed>>
    BY <1>n DEF FGQ!PopHead, FGQ!At, FGQ!Goto, FGQ!memory, FGQ!bounds
  <1>3. /\ L \in SUBSET Nodes /\ h \in L /\ tail \in L /\ rank[h] > rank[tail]
        /\ rank[h] \in Nat /\ rank[tail] \in Nat /\ datum[h] \in Values
        /\ next[h] \in L \ {h} /\ rank[next[h]] = rank[h] - 1
    BY <1>1, <1>2, PopFinds
  <1>4. /\ qPc'[u] = "delete" /\ qMine'[u] = h
        /\ \A v \in Threads \ {u} : qPc'[v] = qPc[v] /\ qMine'[v] = qMine[v]
        /\ head_mtx = u /\ \A v \in Threads \ {u} : ~ HoldsHead(v)
    BY <1>t, <1>2 DEF QueueNodesOK, QueueInv, MutexesInv, HoldsHead
  <1>5. QueueTypesOK'
    <2>1. QueueNodesOK'
      BY <1>t, <1>2, <1>3 DEF QueueNodesOK, QueueLabels
    <2>2. taken' \in Seq([by : Threads, val : Values])
      <3>1. [by |-> u, val |-> datum[h]] \in [by : Threads, val : Values]
        BY <1>3
      <3>2. taken \in Seq([by : Threads, val : Values])
        BY DEF QueueInv, QueueTypesOK
      <3> QED
        BY <1>2, <3>1, <3>2
    <2> QED
      BY <1>2, <2>1, <2>2 DEF QueueInv, QueueTypesOK
  <1>6. MutexesInv'
    BY <1>2, <1>4, NoThreadAssumption DEF QueueInv, MutexesInv, HoldsHead, HoldsTail
  <1>7. PushersInv'
    BY <1>2, <1>4 DEF QueueInv, PushersInv
  <1>8. OwnInv(L \ {h})'
    <2>1. ~ Owns(u) /\ Owns(u)' /\ \A v \in Threads \ {u} : Owns(v)' <=> Owns(v)
      BY <1>2, <1>4 DEF Owns
    <2>2. L \in SUBSET allocated /\ h \in allocated
      BY <1>1, <1>3 DEF OwnInv
    <2>3. \A v \in Threads \ {u} : Owns(v) => qMine[v] \in allocated \ L /\ qMine[v] # h
      BY <1>1, <1>3 DEF OwnInv
    <2>4. \A v, x \in Threads : Owns(v) /\ Owns(x) /\ qMine[v] = qMine[x] => v = x
      BY <1>1 DEF OwnInv
    <2>5. \A m \in allocated \ L : \E v \in Threads \ {u} : Owns(v) /\ qMine[v] = m
      BY <1>1, <2>1 DEF OwnInv
    <2> QED
      BY <1>2, <1>4, <2>1, <2>2, <2>3, <2>4, <2>5 DEF OwnInv
  <1>9. QueueListInv(L \ {h}, rank)'
    <2>1. IsList(L \ {h}, next[h], next, rank)
      BY <1>1, <1>2, <1>3, OneLess DEF QueueListInv
    <2>2. tail \in L \ {h}
      BY <1>3
    <2>3. \A v \in Threads : qPc'[v] = "advance" <=> qPc[v] = "advance"
      BY <1>2, <1>4
    <2>4. qPc[u] # "advance"
      BY <1>2
    <2> QED
      BY <1>1, <1>2, <1>4, <2>1, <2>2, <2>3, <2>4 DEF QueueListInv
  <1>10. SeenInv(L \ {h}, rank)'
    BY <1>4 DEF SeenInv, HoldsHead
  <1> QED
    BY <1>5, <1>6, <1>7, <1>8, <1>9, <1>10 DEF QueueInv, ListedAs

\* A pop deletes the old head.
LEMMA DeleteOldHeadInv ==
    ASSUME QueueInv, NEW u \in Threads, FGQ!DeleteOldHead(u)
    PROVE  QueueInv'
  <1>1. PICK L, rank : OwnInv(L) /\ QueueListInv(L, rank) /\ SeenInv(L, rank)
    BY DEF QueueInv, ListedAs
  <1>t. QueueNodesOK
    BY DEF QueueInv, QueueTypesOK
  <1>n. PICK n : n = qMine[u]
    OBVIOUS
  <1>2. /\ qPc[u] = "delete" /\ qPc' = [qPc EXCEPT ![u] = "idle"]
        /\ qOp' = [qOp EXCEPT ![u] = "none"]
        /\ qMine' = [qMine EXCEPT ![u] = null] /\ seen' = [seen EXCEPT ![u] = null]
        /\ n = qMine[u] /\ allocated' = allocated \ {n}
        /\ UNCHANGED <<head, tail, head_mtx, tail_mtx, next, datum, pushed, taken>>
    BY <1>n DEF FGQ!DeleteOldHead, FGQ!Return, FGQ!At, FGQ!Goto, FGQ!mutexes, FGQ!bounds
  <1>4. /\ qPc'[u] = "idle"
        /\ \A v \in Threads \ {u} : /\ qPc'[v] = qPc[v] /\ qMine'[v] = qMine[v]
                                    /\ seen'[v] = seen[v]
    BY <1>t, <1>2 DEF QueueNodesOK
  <1>5. QueueTypesOK'
    <2>1. QueueNodesOK'
      BY <1>t, <1>2 DEF QueueNodesOK, QueueLabels
    <2> QED
      BY <1>2, <2>1 DEF QueueInv, QueueTypesOK
  <1>6. MutexesInv'
    BY <1>2, <1>4 DEF QueueInv, MutexesInv, HoldsHead, HoldsTail
  <1>7. PushersInv'
    BY <1>2, <1>4 DEF QueueInv, PushersInv
  <1>8. OwnInv(L)'
    <2>1. Owns(u) /\ ~ Owns(u)' /\ \A v \in Threads \ {u} : Owns(v)' <=> Owns(v)
      BY <1>2, <1>4 DEF Owns
    <2>2. n \notin L /\ L \in SUBSET allocated
      BY <1>1, <1>2, <2>1 DEF OwnInv
    <2>3. \A v \in Threads \ {u} : Owns(v) => qMine[v] \in allocated \ L /\ qMine[v] # n
      BY <1>1, <1>2, <2>1 DEF OwnInv
    <2>4. \A v, x \in Threads : Owns(v) /\ Owns(x) /\ qMine[v] = qMine[x] => v = x
      BY <1>1 DEF OwnInv
    <2>5. \A m \in (allocated \ L) \ {n} : \E v \in Threads \ {u} : Owns(v) /\ qMine[v] = m
      BY <1>1, <1>2 DEF OwnInv
    <2> QED
      BY <1>2, <1>4, <2>1, <2>2, <2>3, <2>4, <2>5 DEF OwnInv
  <1>9. QueueListInv(L, rank)'
    <2>1. \A v \in Threads : qPc'[v] = "advance" <=> qPc[v] = "advance"
      BY <1>2, <1>4
    <2>2. qPc[u] # "advance"
      BY <1>2
    <2> QED
      BY <1>1, <1>2, <1>4, <2>1, <2>2 DEF QueueListInv
  <1>10. SeenInv(L, rank)'
    BY <1>1, <1>2, <1>4 DEF SeenInv
  <1> QED
    BY <1>5, <1>6, <1>7, <1>8, <1>9, <1>10 DEF QueueInv, ListedAs

\* A step of the queue keeps its invariant.
LEMMA QueueNextInv == QueueInv /\ FGQ!Next => QueueInv'
  BY NoNodeInv, NewDummyInv, FillInv, AdvanceInv, PopHeadInv, DeleteOldHeadInv
  DEF FGQ!Next, FGQ!Step

\* QueueInv holds of every reachable state of the fine-grained queue.
LEMMA QueueInvariance == SpecParts => [](part = "queue" => QueueInv)
  <1> DEFINE Inv == part = "queue" => QueueInv
  <1>1. InitParts => Inv
    BY QueueInitInv DEF InitParts
  <1>2. Inv /\ [MutexStep \/ StackStep \/ QueueStep \/ OwnersStep \/ LockedStep]_partVars
          => Inv'
    <2> SUFFICES ASSUME Inv, part' = "queue",
                        [MutexStep \/ StackStep \/ QueueStep \/ OwnersStep \/ LockedStep]_partVars
                 PROVE  QueueInv'
      OBVIOUS
    <2>1. CASE QueueStep
      BY <2>1, QueueNextInv DEF QueueStep
    <2>2. CASE part' = part /\ UNCHANGED queueVars
      BY <2>2, SameQueue
    <2> QED
      BY <2>1, <2>2 DEF MutexStep, StackStep, OwnersStep, LockedStep, partVars
  <1> QED
    BY <1>1, <1>2, PTL DEF SpecParts

\* ListFrom is the walk, in this state and in the next.
LEMMA QueueWalks ==
    /\ \A p : FGQ!ListFrom(p) = Walked(next, p)
    /\ \A p : FGQ!ListFrom(p)' = Walked(next', p')
  <1>1. FGQ!Cardinality(Nodes) = Cardinality(Nodes)
    BY DEF FGQ!Cardinality, Cardinality
  <1> QED
    BY <1>1 DEF FGQ!ListFrom, Walked, Walk, IsWalk, MaxLength

\* n is the k-th of the len nodes of w, and not another one of them.
PlacedAt(w, n, k, len) ==
    /\ w \in Seq(Nodes) /\ Len(w) = len /\ k \in 1 .. len
    /\ \A i \in 1 .. len : w[i] = n <=> i = k

\* The rank of a node tells its place in the walk.
LEMMA RankTellsPlace ==
    ASSUME NEW S \in SUBSET Nodes, NEW h \in S, NEW nx \in [Nodes -> Nodes \cup {null}],
           NEW rank \in [Nodes -> Nat], IsList(S, h, nx, rank), NEW n \in S
    PROVE  PlacedAt(Walked(nx, h), n, rank[h] + 1 - rank[n], rank[h])
  <1>w. PICK w : w = Walked(nx, h)
    OBVIOUS
  <1>1. GoesDown(S, rank, h, w)
    BY <1>w, WalkGoesDown
  <1>2. rank[h] \in Nat /\ rank[n] \in Nat /\ 1 <= rank[n] /\ rank[n] <= rank[h]
    BY DEF IsList, Linked
  <1>3. ASSUME NEW i \in 1 .. rank[h]
        PROVE  w[i] = n <=> i = rank[h] + 1 - rank[n]
    <2>1. w[i] \in S /\ rank[w[i]] = rank[h] + 1 - i
      BY <1>1 DEF GoesDown
    <2>2. rank[w[i]] = rank[n] => w[i] = n
      BY <2>1 DEF IsList, Linked
    <2> QED
      BY <1>2, <2>1, <2>2
  <1> QED
    BY <1>w, <1>1, <1>2, <1>3 DEF GoesDown, PlacedAt

\* The types and the shape of the list, and that a pop and a push, which hold different
\* mutexes, never access one node together, nor a node that has been deleted.
THEOREM PushAndPopAreSeparate == SpecParts => []NodesAreSeparate
  <1> SUFFICES QueueInv => FGQ!NodesAreSeparate
    BY QueueInvariance, PTL DEF NodesAreSeparate
  <1> SUFFICES ASSUME QueueInv PROVE FGQ!NodesAreSeparate
    OBVIOUS
  <1>1. PICK L, rank : OwnInv(L) /\ QueueListInv(L, rank) /\ SeenInv(L, rank)
    BY DEF QueueInv, ListedAs
  <1>t. QueueNodesOK
    BY DEF QueueInv, QueueTypesOK
  <1>2. /\ L \in SUBSET Nodes /\ head \in L /\ tail \in L /\ rank \in [Nodes -> Nat]
        /\ IsList(L, head, next, rank) /\ next \in [Nodes -> Nodes \cup {null}]
    BY <1>t, <1>1, NodesAssumption DEF QueueNodesOK, QueueListInv, OwnInv, IsList, Linked
  <1>3. FGQ!TypeOK
    <2>1. PICK w : w = FGQ!ListFrom(head)
      OBVIOUS
    <2>2. /\ w \in Seq(Nodes) /\ Len(w) = rank[head]
          /\ rank[head] + 1 - rank[tail] \in 1 .. rank[head]
          /\ \A i \in 1 .. rank[head] : w[i] = tail <=> i = rank[head] + 1 - rank[tail]
      <3>1. w = Walked(next, head)
        BY <2>1, QueueWalks
      <3>2. PlacedAt(Walked(next, head), tail, rank[head] + 1 - rank[tail], rank[head])
        BY ONLY <1>2, RankTellsPlace
      <3> QED
        BY <3>1, <3>2 DEF PlacedAt
    <2>3. rank[head] \in Nat /\ rank[tail] \in Nat
      BY <1>2
    <2>4. \/ tail = w[Len(w)]
          \/ tail_mtx # NoThread /\ qPc[tail_mtx] = "advance" /\ tail = w[Len(w) - 1]
      <3>1. CASE rank[tail] = 1
        BY <2>2, <2>3, <3>1
      <3>2. CASE rank[tail] # 1
        <4>1. PICK u \in Threads : qPc[u] = "advance"
          BY <1>1, <3>2 DEF QueueListInv
        <4>2. rank[tail] = 2
          BY <1>1, <4>1 DEF QueueListInv
        <4>3. tail_mtx = u
          BY <4>1 DEF QueueInv, MutexesInv, HoldsTail
        <4> QED
          BY <2>2, <2>3, <4>1, <4>2, <4>3, NoThreadAssumption
      <3> QED
        BY <3>1, <3>2
    <2>5. QueueTypesOK
      BY DEF QueueInv
    <2> QED
      BY <1>t, <2>1, <2>4, <2>5 DEF FGQ!TypeOK, QueueTypesOK, QueueNodesOK
  <1>4. ASSUME NEW u \in Threads
        PROVE  /\ qPc[u] = "fill" => FGQ!Writes(u) = {tail}
               /\ qPc[u] = "delete" => FGQ!Writes(u) = {qMine[u]} /\ FGQ!Reads(u) = {qMine[u]}
               /\ qPc[u] \notin {"fill", "delete"} => FGQ!Writes(u) = {}
               /\ qPc[u] # "delete" => FGQ!Reads(u) \subseteq {head}
    BY DEF FGQ!Writes, FGQ!Reads
  <1>5. ASSUME NEW u \in Threads, NEW n \in FGQ!Reads(u), qPc[u] # "delete"
        PROVE  qPc[u] = "compare" /\ n = head /\ head # seen[u] /\ head # tail
    <2>1. qPc[u] = "compare" /\ n = head /\ head # seen[u]
      BY <1>5 DEF FGQ!Reads
    <2>2. rank[head] > rank[tail] /\ rank[head] \in Nat
      BY <1>1, <2>1, PopFinds
    <2> QED
      BY <2>1, <2>2
  <1>6. ASSUME NEW u \in Threads, qPc[u] = "delete"
        PROVE  qMine[u] \in allocated \ L
    BY <1>1, <1>6 DEF OwnInv, Owns
  <1>7. L \in SUBSET allocated
    BY <1>1 DEF OwnInv
  <1>8. ASSUME NEW u \in Threads
        PROVE  FGQ!Reads(u) \cup FGQ!Writes(u) \subseteq allocated
    BY <1>2, <1>4, <1>6, <1>7
  <1>9. ASSUME NEW u \in Threads, NEW v \in Threads \ {u}, NEW n \in FGQ!Writes(u),
               n \in FGQ!Reads(v) \cup FGQ!Writes(v)
        PROVE  FALSE
    <2>1. CASE qPc[u] = "fill"
      <3>1. n = tail /\ qPc[v] # "fill"
        <4>1. HoldsTail(u)
          BY <2>1 DEF HoldsTail
        <4>2. ~ HoldsTail(v)
          BY <4>1 DEF QueueInv, MutexesInv
        <4> QED
          BY <1>4, <1>9, <2>1, <4>2 DEF HoldsTail
      <3>2. CASE qPc[v] = "delete"
        BY <1>2, <1>4, <1>6, <1>9, <3>1, <3>2
      <3>3. CASE qPc[v] # "delete"
        BY <1>4, <1>5, <1>9, <3>1, <3>3
      <3> QED
        BY <3>2, <3>3
    <2>2. CASE qPc[u] = "delete"
      <3>1. n = qMine[u] /\ n \notin L
        BY <1>4, <1>6, <1>9, <2>2
      <3>2. CASE qPc[v] = "delete"
        <4>1. n = qMine[v]
          BY <1>4, <1>9, <3>2
        <4>2. Owns(u) /\ Owns(v) /\ qMine[u] = qMine[v] /\ u # v
          BY <2>2, <3>1, <3>2, <4>1 DEF Owns
        <4> QED
          BY ONLY <1>1, <4>2, u \in Threads, v \in Threads DEF OwnInv
      <3>3. CASE qPc[v] # "delete"
        BY <1>2, <1>4, <1>9, <3>1, <3>3
      <3> QED
        BY <3>2, <3>3
    <2> QED
      BY <1>4, <1>9, <2>1, <2>2
  <1> QED
    BY <1>3, <1>8, <1>9 DEF FGQ!NodesAreSeparate

\* While no call is running, the nodes that exist are those of the list.
LEMMA QueueDoesNotLeak == QueueInv => FGQ!NoLeak
  <1> SUFFICES ASSUME QueueInv, \A u \in Threads : qPc[u] \in {"idle", "waiting"}
               PROVE  allocated = FGQ!Listed
    BY DEF FGQ!NoLeak
  <1>1. PICK L, rank : OwnInv(L) /\ QueueListInv(L, rank) /\ SeenInv(L, rank)
    BY DEF QueueInv, ListedAs
  <1>2. /\ L \in SUBSET Nodes /\ head \in Nodes \cup {null} /\ rank \in [Nodes -> Nat]
        /\ IsList(L, head, next, rank) /\ next \in [Nodes -> Nodes \cup {null}]
    BY <1>1 DEF QueueNodesOK, QueueListInv, OwnInv, QueueInv, QueueTypesOK
  <1>3. allocated = L
    BY <1>1 DEF OwnInv, Owns
  <1>4. {Walked(next, head)[i] : i \in DOMAIN Walked(next, head)} = L
    BY <1>2, WalkVisits
  <1> QED
    BY <1>3, <1>4, QueueWalks DEF FGQ!Listed

\* No node leaks, of the lock-free stack and of the fine-grained queue.
THEOREM NodesDoNotLeak == SpecParts => []NoLeak
  BY StackInvariance, StackDoesNotLeak, QueueInvariance, QueueDoesNotLeak, PTL DEF NoLeak

-----------------------------------------------------------------------------
(* FineGrainedQueue: its two mutexes never deadlock the calls.           *)

\* Who is in the part of a call that pops, or looks, is in such a call.
InPop(u)  == qPc[u] \in {"lock_head", "get_tail", "compare", "waiting"}
CallsInv  == \A u \in Threads : InPop(u) => qOp[u] \notin {"none", "push"}

\* At first nobody is in a call.
LEMMA CallsInitInv == FGQ!Init => CallsInv
  BY DEF FGQ!Init, CallsInv, InPop

\* A call is left with "idle" or with "delete"; a thread that is woken was in wait_and_pop.
LEMMA CallsNextInv == QueueTypesOK /\ CallsInv /\ FGQ!Next => CallsInv'
  <1> SUFFICES ASSUME QueueTypesOK, CallsInv, FGQ!Next PROVE CallsInv'
    OBVIOUS
  <1> SUFFICES ASSUME NEW v \in Threads, InPop(v)' PROVE qOp'[v] \notin {"none", "push"}
    BY DEF CallsInv
  <1>1. /\ qPc \in [Threads -> QueueLabels]
        /\ qOp \in [Threads -> FGQ!AllOps \cup {"none", "consume_pop"}]
        /\ InPop(v) => qOp[v] \notin {"none", "push"}
    BY DEF QueueTypesOK, QueueNodesOK, CallsInv
  <1>2. PICK u \in Threads :
            \/ \E n \in Nodes, w \in Values : FGQ!NewDummy(u, n, w)
            \/ \E o \in FGQ!AllOps : FGQ!Call(u, o)
            \/ FGQ!SpuriousWake(u)
            \/ FGQ!Step(u)
    BY DEF FGQ!Next
  <1> USE DEF InPop, FGQ!At, FGQ!Goto, FGQ!Return
  <1>3. CASE \E n \in Nodes, w \in Values : FGQ!NewDummy(u, n, w)
    BY <1>1, <1>3 DEF FGQ!NewDummy
  <1>4. CASE \E o \in FGQ!AllOps : FGQ!Call(u, o)
    BY <1>1, <1>4 DEF FGQ!Call
  <1>5. CASE FGQ!SpuriousWake(u)
    BY <1>1, <1>5 DEF FGQ!SpuriousWake
  <1>6. CASE FGQ!LockTail(u) \/ FGQ!Fill(u) \/ FGQ!Advance(u)
    BY <1>1, <1>6 DEF FGQ!LockTail, FGQ!Fill, FGQ!Advance
  <1>7. CASE FGQ!Notify(u)
    BY <1>1, <1>7 DEF FGQ!Notify
  <1>8. CASE FGQ!LockHead(u) \/ FGQ!GetTail(u) \/ FGQ!Wait(u) \/ FGQ!PopHead(u)
    BY <1>1, <1>8 DEF FGQ!LockHead, FGQ!GetTail, FGQ!Wait, FGQ!PopHead
  <1>9. CASE FGQ!Empty(u)
    BY <1>1, <1>9 DEF FGQ!Empty
  <1>10. CASE FGQ!TryFails(u) \/ FGQ!DeleteOldHead(u)
    BY <1>1, <1>10 DEF FGQ!TryFails, FGQ!DeleteOldHead
  <1> QED
    BY <1>2, <1>3, <1>4, <1>5, <1>6, <1>7, <1>8, <1>9, <1>10 DEF FGQ!Step

\* tail_mtx is held over statements that block on nothing, and head_mtx over those and
\* over the taking of tail_mtx: never is head_mtx taken with tail_mtx held.
LEMMA SomeThreadCanGo == QueueInv /\ CallsInv => FGQ!NoDeadlock
  <1> SUFFICES ASSUME QueueInv, CallsInv,
                      NEW u \in Threads, qPc[u] \notin {"idle", "waiting"}
               PROVE  \E v \in Threads : FGQ!CanGo(v)
    BY DEF FGQ!NoDeadlock
  <1>1. /\ qPc \in [Threads -> QueueLabels]
        /\ head_mtx \in Threads \cup {NoThread} /\ tail_mtx \in Threads \cup {NoThread}
    BY DEF QueueInv, QueueTypesOK, QueueNodesOK
  <1>2. ASSUME NEW v \in Threads, qPc[v] \in {"lock_tail", "get_tail"}
        PROVE  \E w \in Threads : FGQ!CanGo(w)
    <2>1. CASE tail_mtx = NoThread
      BY <1>2, <2>1 DEF FGQ!CanGo
    <2>2. CASE tail_mtx \in Threads
      <3>1. HoldsTail(tail_mtx)
        BY <2>2 DEF QueueInv, MutexesInv
      <3> QED
        BY <2>2, <3>1 DEF HoldsTail, FGQ!CanGo
    <2> QED
      BY <1>1, <2>1, <2>2
  <1>3. ASSUME NEW v \in Threads, qPc[v] = "compare"
        PROVE  \E w \in Threads : FGQ!CanGo(w)
    BY <1>3 DEF CallsInv, InPop, FGQ!CanGo
  <1>4. CASE qPc[u] = "lock_head"
    <2>1. CASE head_mtx = NoThread
      BY <1>4, <2>1 DEF FGQ!CanGo
    <2>2. CASE head_mtx \in Threads
      <3>1. HoldsHead(head_mtx)
        BY <2>2 DEF QueueInv, MutexesInv
      <3> QED
        BY <1>2, <1>3, <2>2, <3>1 DEF HoldsHead
    <2> QED
      BY <1>1, <2>1, <2>2
  <1>5. CASE qPc[u] \in {"fill", "advance", "notify", "delete"}
    BY <1>5 DEF FGQ!CanGo
  <1> QED
    BY <1>1, <1>2, <1>3, <1>4, <1>5 DEF QueueLabels

\* The two mutexes of the queue never deadlock its calls, for any number of threads,
\* calls and nodes.
THEOREM QueueDoesNotDeadlock == SpecParts => []NoDeadlock
  <1> DEFINE Inv == part = "queue" => QueueInv /\ CallsInv
  <1>1. InitParts => Inv
    BY QueueInitInv, CallsInitInv DEF InitParts
  <1>2. Inv /\ [MutexStep \/ StackStep \/ QueueStep \/ OwnersStep \/ LockedStep]_partVars
          => Inv'
    <2> SUFFICES ASSUME Inv, part' = "queue",
                        [MutexStep \/ StackStep \/ QueueStep \/ OwnersStep \/ LockedStep]_partVars
                 PROVE  QueueInv' /\ CallsInv'
      OBVIOUS
    <2>1. CASE QueueStep
      BY <2>1, QueueNextInv, CallsNextInv DEF QueueStep, QueueInv
    <2>2. CASE part' = part /\ UNCHANGED queueVars
      <3>1. QueueInv /\ CallsInv
        BY <2>2
      <3>2. CallsInv'
        BY <2>2, <3>1 DEF CallsInv, InPop, queueVars
      <3> QED
        BY <2>2, <3>1, <3>2, SameQueue
    <2> QED
      BY <2>1, <2>2 DEF MutexStep, StackStep, OwnersStep, LockedStep, partVars
  <1>3. Inv => NoDeadlock
    BY SomeThreadCanGo DEF NoDeadlock
  <1> QED
    BY <1>1, <1>2, <1>3, PTL DEF SpecParts

-----------------------------------------------------------------------------
(* FineGrainedQueue implements FifoQueue.                                *)

\* The values on a walk from h, before t0.
Before(nx, dt, h, t0) ==
    LET w == Walked(nx, h)
        n == CHOOSE i \in DOMAIN w : w[i] = t0
    IN  [i \in 1 .. n - 1 |-> dt[w[i]]]

\* The variables of FifoQueue.
LEMMA QueueMapping ==
    /\ FGQ!Items = Before(next, datum, head, tail)
    /\ FGQ!Items' = Before(next', datum', head', tail')
    /\ FGQ!Fifo!vars = <<Before(next, datum, head, tail), taken>>
    /\ FGQ!Fifo!vars' = <<Before(next', datum', head', tail'), taken'>>
  BY QueueWalks DEF FGQ!Items, FGQ!Fifo!vars, Before

MaybeValues == Values \cup {Nothing}

\* c has the values of the nodes of a list from its first node h to the one before t0.
CarriesTo(S, rank, dt, h, t0, c) ==
    /\ c \in Seq(MaybeValues) /\ Len(c) = rank[h] - rank[t0]
    /\ \A i \in 1 .. rank[h] - rank[t0] :
           \E n \in S : rank[n] = rank[h] + 1 - i /\ c[i] = dt[n]

\* It is those values that are on the walk before t0.
LEMMA WhatIsBefore ==
    ASSUME NEW S \in SUBSET Nodes, NEW h \in S, NEW t0 \in S,
           NEW nx \in [Nodes -> Nodes \cup {null}], NEW dt \in [Nodes -> MaybeValues],
           NEW rank \in [Nodes -> Nat], IsList(S, h, nx, rank)
    PROVE  CarriesTo(S, rank, dt, h, t0, Before(nx, dt, h, t0))
  <1>1. PICK w, k : w = Walked(nx, h) /\ k = rank[h] + 1 - rank[t0]
    OBVIOUS
  <1>2. GoesDown(S, rank, h, w) /\ PlacedAt(w, t0, k, rank[h])
    BY <1>1, WalkGoesDown, RankTellsPlace
  <1>3. rank[h] \in Nat /\ rank[t0] \in Nat /\ rank[h] - rank[t0] \in Nat
        /\ rank[t0] >= 1 /\ k - 1 = rank[h] - rank[t0]
    BY <1>1 DEF IsList, Linked
  <1>4. w \in Seq(Nodes) /\ DOMAIN w = 1 .. rank[h] /\ k \in 1 .. rank[h]
        /\ \A i \in 1 .. rank[h] : w[i] = t0 <=> i = k
    BY <1>2, <1>3 DEF PlacedAt
  <1>5. (CHOOSE i \in DOMAIN w : w[i] = t0) = k
    BY ONLY <1>4
  <1>6. PICK c : c = Before(nx, dt, h, t0)
    OBVIOUS
  <1>7. c = [i \in 1 .. k - 1 |-> dt[w[i]]]
    BY ONLY <1>1, <1>5, <1>6 DEF Before
  <1>8. PICK len \in Nat : len = rank[h] - rank[t0]
    BY <1>3
  <1>9. ASSUME NEW i \in 1 .. len
        PROVE  /\ w[i] \in S /\ rank[w[i]] = rank[h] + 1 - i
               /\ w[i] \in Nodes /\ dt[w[i]] \in MaybeValues
    BY <1>2, <1>3, <1>8 DEF GoesDown
  <1>10. c = [i \in 1 .. len |-> dt[w[i]]]
    BY <1>3, <1>7, <1>8
  <1>11. c \in Seq(MaybeValues) /\ Len(c) = len /\ \A i \in 1 .. len : c[i] = dt[w[i]]
    BY ONLY <1>9, <1>10, len \in Nat
  <1>12. \A i \in 1 .. len : \E n \in S : rank[n] = rank[h] + 1 - i /\ c[i] = dt[n]
    BY ONLY <1>9, <1>11
  <1>13. CarriesTo(S, rank, dt, h, t0, c)
    BY ONLY <1>8, <1>11, <1>12 DEF CarriesTo
  <1> QED
    BY <1>6, <1>13

\* Only one sequence has them.
LEMMA OneSequence ==
    ASSUME NEW S \in SUBSET Nodes, NEW rank \in [Nodes -> Nat], NEW h \in S, NEW t0 \in S,
           NEW dt, NEW c, NEW d, \A m, n \in S : rank[m] = rank[n] => m = n,
           CarriesTo(S, rank, dt, h, t0, c), CarriesTo(S, rank, dt, h, t0, d)
    PROVE  c = d
  <1>1. PICK len : len = rank[h] - rank[t0]
    OBVIOUS
  <1>2. c \in Seq(MaybeValues) /\ d \in Seq(MaybeValues) /\ Len(c) = len /\ Len(d) = len
    BY <1>1 DEF CarriesTo
  <1>3. ASSUME NEW i \in 1 .. len
        PROVE  c[i] = d[i]
    <2>1. PICK n \in S : rank[n] = rank[h] + 1 - i /\ c[i] = dt[n]
      BY <1>1 DEF CarriesTo
    <2>2. PICK m \in S : rank[m] = rank[h] + 1 - i /\ d[i] = dt[m]
      BY <1>1 DEF CarriesTo
    <2> QED
      BY <2>1, <2>2
  <1> QED
    BY ONLY <1>2, <1>3

\* The values do not change with the nodes from t0 on, nor with those that are not there.
LEMMA CarriesTheSame ==
    ASSUME NEW S \in SUBSET Nodes, NEW rank \in [Nodes -> Nat], NEW h \in S, NEW t0 \in S,
           NEW dt, NEW du, NEW c, CarriesTo(S, rank, dt, h, t0, c),
           \A n \in S : rank[n] > rank[t0] => du[n] = dt[n]
    PROVE  CarriesTo(S, rank, du, h, t0, c)
  <1> SUFFICES ASSUME NEW i \in 1 .. rank[h] - rank[t0]
               PROVE  \E n \in S : rank[n] = rank[h] + 1 - i /\ c[i] = du[n]
    BY DEF CarriesTo
  <1>1. PICK n \in S : rank[n] = rank[h] + 1 - i /\ c[i] = dt[n]
    BY DEF CarriesTo
  <1>2. rank[n] > rank[t0]
    BY <1>1
  <1> QED
    BY <1>1, <1>2

\* With t0 one node further there is one value more.
LEMMA CarriesOneMore ==
    ASSUME NEW S \in SUBSET Nodes, NEW rank \in [Nodes -> Nat], NEW h \in S, NEW t0 \in S,
           NEW n \in S, rank[n] = rank[t0] - 1, rank[t0] <= rank[h],
           NEW dt \in [Nodes -> MaybeValues], NEW c, CarriesTo(S, rank, dt, h, t0, c)
    PROVE  CarriesTo(S, rank, dt, h, n, Append(c, dt[t0]))
  <1>1. PICK len \in Nat : len = rank[h] - rank[t0]
    OBVIOUS
  <1>2. rank[h] - rank[n] = len + 1 /\ rank[t0] = rank[h] + 1 - (len + 1)
    BY <1>1
  <1>3. c \in Seq(MaybeValues) /\ Len(c) = len /\ dt[t0] \in MaybeValues
    BY <1>1 DEF CarriesTo
  <1>4. PICK d : d = Append(c, dt[t0])
    OBVIOUS
  <1>5. d \in Seq(MaybeValues) /\ Len(d) = len + 1 /\ d[len + 1] = dt[t0]
        /\ \A i \in 1 .. len : d[i] = c[i]
    BY ONLY <1>3, <1>4, len \in Nat
  <1>6. ASSUME NEW i \in 1 .. len + 1
        PROVE  \E m \in S : rank[m] = rank[h] + 1 - i /\ d[i] = dt[m]
    <2>1. CASE i = len + 1
      BY <1>2, <1>5, <2>1
    <2>2. CASE i # len + 1
      <3>1. i \in 1 .. len
        BY <2>2
      <3>2. PICK m \in S : rank[m] = rank[h] + 1 - i /\ c[i] = dt[m]
        BY <1>1, <3>1 DEF CarriesTo
      <3> QED
        BY <1>5, <3>1, <3>2
    <2> QED
      BY <2>1, <2>2
  <1>7. CarriesTo(S, rank, dt, h, n, d)
    BY <1>2, <1>5, <1>6 DEF CarriesTo
  <1> QED
    BY <1>4, <1>7

\* c is d after the value v.
After(c, v, d) == c # <<>> /\ Head(c) = v /\ Tail(c) = d

\* Without the first node there is one value less.
LEMMA CarriesOneLess ==
    ASSUME NEW S \in SUBSET Nodes, NEW rank \in [Nodes -> Nat], NEW h \in S, NEW t0 \in S,
           NEW g \in S, rank[g] = rank[h] - 1, rank[h] > rank[t0],
           \A m, n \in S : rank[m] = rank[n] => m = n,
           NEW dt, NEW c, CarriesTo(S, rank, dt, h, t0, c)
    PROVE  \E d : After(c, dt[h], d) /\ CarriesTo(S \ {h}, rank, dt, g, t0, d)
  <1>1. PICK len \in Nat : len = rank[g] - rank[t0] /\ len + 1 = rank[h] - rank[t0]
    OBVIOUS
  <1>2. c \in Seq(MaybeValues) /\ Len(c) = len + 1
    BY <1>1 DEF CarriesTo
  <1>3. PICK d : d = Tail(c)
    OBVIOUS
  <1>4. c # <<>> /\ Head(c) = c[1] /\ d \in Seq(MaybeValues) /\ Len(d) = len
        /\ \A i \in 1 .. len : d[i] = c[i + 1]
    BY ONLY <1>2, <1>3, len \in Nat
  <1>5. Head(c) = dt[h]
    <2>1. 1 \in 1 .. rank[h] - rank[t0]
      BY <1>1
    <2>2. PICK m \in S : rank[m] = rank[h] + 1 - 1 /\ c[1] = dt[m]
      BY <2>1 DEF CarriesTo
    <2>3. m = h
      BY <2>2
    <2> QED
      BY <1>4, <2>2, <2>3
  <1>6. ASSUME NEW i \in 1 .. len
        PROVE  \E m \in S \ {h} : rank[m] = rank[g] + 1 - i /\ d[i] = dt[m]
    <2>1. i + 1 \in 1 .. len + 1 /\ d[i] = c[i + 1]
      BY <1>4
    <2>2. PICK m \in S : rank[m] = rank[h] + 1 - (i + 1) /\ c[i + 1] = dt[m]
      BY <1>1, <2>1 DEF CarriesTo
    <2>3. rank[m] = rank[g] + 1 - i /\ m # h
      BY <2>2
    <2> QED
      BY <2>1, <2>2, <2>3
  <1>7. CarriesTo(S \ {h}, rank, dt, g, t0, d)
    BY <1>1, <1>4, <1>6 DEF CarriesTo
  <1> QED
    BY <1>3, <1>4, <1>5, <1>7 DEF After

\* What is before t0 does not depend on the nodes that are not on the list ...
LEMMA SameBefore ==
    ASSUME NEW S \in SUBSET Nodes, NEW h \in S, NEW t0 \in S,
           NEW nx \in [Nodes -> Nodes \cup {null}], NEW dt \in [Nodes -> MaybeValues],
           NEW ny \in [Nodes -> Nodes \cup {null}], NEW du \in [Nodes -> MaybeValues],
           NEW rank \in [Nodes -> Nat], IsList(S, h, nx, rank),
           \A n \in S : ny[n] = nx[n] /\ du[n] = dt[n]
    PROVE  Before(ny, du, h, t0) = Before(nx, dt, h, t0)
  <1>1. PICK c, d : c = Before(nx, dt, h, t0) /\ d = Before(ny, du, h, t0)
    OBVIOUS
  <1>2. IsList(S, h, ny, rank)
    BY SameList
  <1>3. CarriesTo(S, rank, dt, h, t0, c) /\ CarriesTo(S, rank, du, h, t0, d)
    BY <1>1, <1>2, WhatIsBefore
  <1>4. CarriesTo(S, rank, du, h, t0, c)
    BY <1>3, CarriesTheSame
  <1>5. \A m, n \in S : rank[m] = rank[n] => m = n
    BY DEF IsList, Linked
  <1> QED
    BY <1>1, <1>3, <1>4, <1>5, OneSequence

\* ... nor on what becomes of the last one.
LEMMA FilledBefore ==
    ASSUME NEW S \in SUBSET Nodes, NEW h \in S, NEW l \in S, NEW n \in Nodes \ S,
           NEW nx \in [Nodes -> Nodes \cup {null}], NEW dt \in [Nodes -> MaybeValues],
           NEW ny \in [Nodes -> Nodes \cup {null}], NEW du \in [Nodes -> MaybeValues],
           NEW rank \in [Nodes -> Nat], IsList(S, h, nx, rank), rank[l] = 1,
           ny[l] = n, ny[n] = null, \A m \in S \ {l} : ny[m] = nx[m] /\ du[m] = dt[m]
    PROVE  Before(ny, du, h, l) = Before(nx, dt, h, l)
  <1>1. PICK c, d : c = Before(nx, dt, h, l) /\ d = Before(ny, du, h, l)
    OBVIOUS
  <1>2. PICK rang \in [Nodes -> Nat] : \A m \in Nodes : rang[m] = IF m = n THEN 1 ELSE rank[m] + 1
    <2>1. [m \in Nodes |-> IF m = n THEN 1 ELSE rank[m] + 1] \in [Nodes -> Nat]
      OBVIOUS
    <2> QED
      BY <2>1
  <1>3. PICK R \in SUBSET Nodes : R = S \cup {n}
    OBVIOUS
  <1>4. h # null /\ IsList(R, h, ny, rang)
    BY <1>2, <1>3, NodesAssumption, LongerBelow
  <1>5. CarriesTo(S, rank, dt, h, l, c) /\ CarriesTo(R, rang, du, h, l, d)
    <2>1. CarriesTo(S, rank, dt, h, l, c)
      BY <1>1, WhatIsBefore
    <2>2. h \in R /\ l \in R
      BY <1>3
    <2> QED
      BY <1>1, <1>4, <2>1, <2>2, WhatIsBefore
  <1>6. PICK len \in Nat : len = rank[h] - rank[l] /\ len = rang[h] - rang[l]
                           /\ rank[h] = len + 1 /\ rang[h] = len + 2
    <2>1. rank[h] \in Nat /\ rank[h] >= 1 /\ rang[h] = rank[h] + 1 /\ rang[l] = 2
      BY <1>2 DEF IsList, Linked
    <2> QED
      BY <2>1
  <1>7. \A i \in 1 .. len : \E m \in S : rank[m] = rank[h] + 1 - i /\ c[i] = dt[m]
    BY <1>5, <1>6 DEF CarriesTo
  <1>8. \A i \in 1 .. len : \E m \in R : rang[m] = rang[h] + 1 - i /\ d[i] = du[m]
    BY <1>5, <1>6 DEF CarriesTo
  <1>9. ASSUME NEW i \in 1 .. len
        PROVE  c[i] = d[i]
    <2>1. PICK x \in S : rank[x] = rank[h] + 1 - i /\ c[i] = dt[x]
      BY <1>7
    <2>2. PICK y \in R : rang[y] = rang[h] + 1 - i /\ d[i] = du[y]
      BY <1>8
    <2>3. rank[x] >= 2 /\ rang[y] >= 3 /\ rang[x] = rank[x] + 1
      BY <1>2, <1>6, <2>1, <2>2
    <2>4. y \in S /\ rank[y] = rank[x] /\ x # l
      BY <1>2, <1>3, <1>6, <2>1, <2>2, <2>3
    <2>5. x = y
      BY <2>4 DEF IsList, Linked
    <2> QED
      BY <2>1, <2>2, <2>4, <2>5
  <1>10. c \in Seq(MaybeValues) /\ d \in Seq(MaybeValues) /\ Len(c) = len /\ Len(d) = len
    BY <1>5, <1>6 DEF CarriesTo
  <1>11. c = d
    BY ONLY <1>9, <1>10
  <1> QED
    BY <1>1, <1>11

\* When t0 goes one node further, the value it leaves behind comes last.
LEMMA LongerBefore ==
    ASSUME NEW S \in SUBSET Nodes, NEW h \in S, NEW t0 \in S, NEW n \in S,
           NEW nx \in [Nodes -> Nodes \cup {null}], NEW dt \in [Nodes -> MaybeValues],
           NEW rank \in [Nodes -> Nat], IsList(S, h, nx, rank), rank[n] = rank[t0] - 1
    PROVE  Before(nx, dt, h, n) = Append(Before(nx, dt, h, t0), dt[t0])
  <1>1. PICK c, d : c = Before(nx, dt, h, t0) /\ d = Before(nx, dt, h, n)
    OBVIOUS
  <1>2. CarriesTo(S, rank, dt, h, t0, c) /\ CarriesTo(S, rank, dt, h, n, d)
    BY <1>1, WhatIsBefore
  <1>3. CarriesTo(S, rank, dt, h, n, Append(c, dt[t0]))
    BY <1>2, CarriesOneMore DEF IsList, Linked
  <1>4. \A x, y \in S : rank[x] = rank[y] => x = y
    BY DEF IsList, Linked
  <1> QED
    BY <1>1, <1>2, <1>3, <1>4, OneSequence

\* When the list loses its first node, the first value goes.
LEMMA ShorterBefore ==
    ASSUME NEW S \in SUBSET Nodes, NEW h \in S, NEW t0 \in S,
           NEW nx \in [Nodes -> Nodes \cup {null}], NEW dt \in [Nodes -> MaybeValues],
           NEW rank \in [Nodes -> Nat], IsList(S, h, nx, rank), rank[h] > rank[t0]
    PROVE  After(Before(nx, dt, h, t0), dt[h], Before(nx, dt, nx[h], t0))
  <1>1. PICK g, c, e : /\ g = nx[h] /\ c = Before(nx, dt, h, t0)
                       /\ e = Before(nx, dt, g, t0)
    OBVIOUS
  <1>2. g \in S /\ rank[g] = rank[h] - 1 /\ g # h
    BY <1>1 DEF IsList, Linked
  <1>3. PICK R \in SUBSET Nodes : R = S \ {h}
    OBVIOUS
  <1>4. IsList(R, g, nx, rank) /\ g \in R /\ t0 \in R
    BY <1>1, <1>2, <1>3, OneLess
  <1>5. CarriesTo(S, rank, dt, h, t0, c) /\ CarriesTo(R, rank, dt, g, t0, e)
    BY <1>1, <1>4, WhatIsBefore
  <1>6. \A x, y \in S : rank[x] = rank[y] => x = y
    BY DEF IsList, Linked
  <1>7. PICK d : After(c, dt[h], d) /\ CarriesTo(S \ {h}, rank, dt, g, t0, d)
    BY <1>2, <1>5, <1>6, CarriesOneLess
  <1>8. \A x, y \in R : rank[x] = rank[y] => x = y
    BY <1>3, <1>6
  <1>9. d = e
    BY <1>3, <1>4, <1>5, <1>7, <1>8, OneSequence
  <1> QED
    BY <1>1, <1>7, <1>9

\* What a queue's list is, for the lemmas above.
LEMMA QueueListed ==
    ASSUME QueueInv, NEW L, NEW rank, OwnInv(L), QueueListInv(L, rank)
    PROVE  /\ L \in SUBSET Nodes /\ head \in L /\ tail \in L /\ rank \in [Nodes -> Nat]
           /\ IsList(L, head, next, rank)
           /\ next \in [Nodes -> Nodes \cup {null}] /\ datum \in [Nodes -> MaybeValues]
  <1>1. QueueNodesOK
    BY DEF QueueInv, QueueTypesOK
  <1>2. L \in SUBSET Nodes /\ head # null
    BY <1>1, NodesAssumption DEF OwnInv, QueueNodesOK
  <1> QED
    BY <1>1, <1>2 DEF QueueListInv, IsList, Linked, QueueNodesOK, MaybeValues

\* FifoQueue does not see a step that leaves the list, head and tail alone ...
LEMMA ListStays ==
    ASSUME QueueInv, QueueInv', UNCHANGED <<head, tail, taken>>,
           \E n \in Nodes \ allocated : \A m \in Nodes \ {n} : /\ next'[m] = next[m]
                                                               /\ datum'[m] = datum[m]
    PROVE  UNCHANGED FGQ!Fifo!vars
  <1>1. PICK L, rank : OwnInv(L) /\ QueueListInv(L, rank)
    BY DEF QueueInv, ListedAs
  <1>2. PICK h, e, ny, du : h = head /\ e = tail /\ ny = next' /\ du = datum'
    OBVIOUS
  <1>3. /\ ny \in [Nodes -> Nodes \cup {null}] /\ du \in [Nodes -> MaybeValues]
        /\ \A m \in L : ny[m] = next[m] /\ du[m] = datum[m]
    <2>1. QueueNodesOK'
      BY DEF QueueInv, QueueTypesOK
    <2>2. L \subseteq allocated /\ L \subseteq Nodes
      BY <1>1, QueueListed DEF OwnInv
    <2> QED
      BY <1>2, <2>1, <2>2 DEF QueueNodesOK, MaybeValues
  <1>4. Before(ny, du, h, e) = Before(next, datum, h, e)
    <2>1. /\ L \in SUBSET Nodes /\ h \in L /\ e \in L /\ rank \in [Nodes -> Nat]
          /\ IsList(L, h, next, rank)
          /\ next \in [Nodes -> Nodes \cup {null}] /\ datum \in [Nodes -> MaybeValues]
      BY <1>1, <1>2, QueueListed
    <2> QED
      BY ONLY <1>3, <2>1, SameBefore
  <1> QED
    BY <1>2, <1>4, QueueMapping

\* ... nor the one that fills the dummy node.
LEMMA FillIsUnseen ==
    ASSUME QueueInv, QueueInv', NEW u \in Threads, FGQ!Fill(u)
    PROVE  UNCHANGED FGQ!Fifo!vars
  <1>1. PICK L, rank : OwnInv(L) /\ QueueListInv(L, rank)
    BY DEF QueueInv, ListedAs
  <1>2. PICK h, l, n, ny, du : h = head /\ l = tail /\ n = qMine[u] /\ ny = next' /\ du = datum'
    OBVIOUS
  <1>t. QueueNodesOK /\ QueueNodesOK'
    BY DEF QueueInv, QueueTypesOK
  <1>3. /\ L \in SUBSET Nodes /\ h \in L /\ l \in L /\ rank \in [Nodes -> Nat]
        /\ IsList(L, h, next, rank)
        /\ next \in [Nodes -> Nodes \cup {null}] /\ datum \in [Nodes -> MaybeValues]
    BY <1>1, <1>2, QueueListed
  <1>4. /\ qPc[u] = "fill" /\ UNCHANGED <<head, tail, taken>>
        /\ ny = [next EXCEPT ![l] = n] /\ du = [datum EXCEPT ![l] = pushed[u]]
    BY <1>2 DEF FGQ!Fill, FGQ!At
  <1>5. n \in Nodes \ L /\ next[n] = null
    BY <1>t, <1>1, <1>2, <1>4 DEF OwnInv, Owns, QueueInv, PushersInv, QueueNodesOK
  <1>6. rank[l] = 1
    <2>1. \A v \in Threads : qPc[v] # "advance"
      BY <1>4 DEF QueueInv, MutexesInv, HoldsTail
    <2> QED
      BY <1>1, <1>2, <2>1 DEF QueueListInv
  <1>7. ny \in [Nodes -> Nodes \cup {null}] /\ du \in [Nodes -> MaybeValues]
    BY <1>t, <1>2 DEF QueueNodesOK, MaybeValues
  <1>8. ny[l] = n /\ ny[n] = null /\ \A m \in L \ {l} : ny[m] = next[m] /\ du[m] = datum[m]
    BY <1>3, <1>4, <1>5
  <1>9. Before(ny, du, h, l) = Before(next, datum, h, l)
    BY ONLY <1>3, <1>5, <1>6, <1>7, <1>8, FilledBefore
  <1> QED
    BY <1>2, <1>4, <1>9, QueueMapping

\* A push takes effect when tail moves.
LEMMA AdvanceIsPut ==
    ASSUME QueueInv, NEW u \in Threads, FGQ!Advance(u)
    PROVE  FGQ!Fifo!Next
  <1>1. PICK L, rank : OwnInv(L) /\ QueueListInv(L, rank)
    BY DEF QueueInv, ListedAs
  <1>2. PICK h, l, n : h = head /\ l = tail /\ n = tail'
    OBVIOUS
  <1>3. /\ L \in SUBSET Nodes /\ h \in L /\ l \in L /\ rank \in [Nodes -> Nat]
        /\ IsList(L, h, next, rank)
        /\ next \in [Nodes -> Nodes \cup {null}] /\ datum \in [Nodes -> MaybeValues]
    BY <1>1, <1>2, QueueListed
  <1>4. qPc[u] = "advance" /\ n = qMine[u] /\ UNCHANGED <<head, next, datum, taken>>
    BY <1>2 DEF FGQ!Advance, FGQ!At, FGQ!memory
  <1>5. rank[l] = 2 /\ next[l] = n /\ datum[l] \in Values
    BY <1>1, <1>2, <1>4 DEF QueueListInv
  <1>6. n \in L /\ rank[n] = rank[l] - 1
    BY <1>3, <1>5 DEF IsList, Linked
  <1>7. Before(next, datum, h, n) = Append(Before(next, datum, h, l), datum[l])
    BY ONLY <1>3, <1>6, LongerBefore
  <1>8. FGQ!Items' = Append(FGQ!Items, datum[l]) /\ UNCHANGED taken
    BY <1>2, <1>4, <1>7, QueueMapping
  <1> QED
    BY <1>5, <1>8 DEF FGQ!Fifo!Next, FGQ!Fifo!Put

\* A pop takes effect when head moves.
LEMMA PopHeadIsTake ==
    ASSUME QueueInv, NEW u \in Threads, FGQ!PopHead(u)
    PROVE  FGQ!Fifo!Next
  <1>1. PICK L, rank : OwnInv(L) /\ QueueListInv(L, rank) /\ SeenInv(L, rank)
    BY DEF QueueInv, ListedAs
  <1>2. PICK h, e : h = head /\ e = tail
    OBVIOUS
  <1>3. /\ L \in SUBSET Nodes /\ h \in L /\ e \in L /\ rank \in [Nodes -> Nat]
        /\ IsList(L, h, next, rank)
        /\ next \in [Nodes -> Nodes \cup {null}] /\ datum \in [Nodes -> MaybeValues]
    BY <1>1, <1>2, QueueListed
  <1>4. /\ qPc[u] = "compare" /\ head # seen[u] /\ head' = next[h]
        /\ taken' = Append(taken, [by |-> u, val |-> datum[h]])
        /\ UNCHANGED <<tail, next, datum>>
    BY <1>2 DEF FGQ!PopHead, FGQ!At, FGQ!memory
  <1>5. rank[h] > rank[e]
    BY <1>1, <1>2, <1>4, PopFinds
  <1>6. After(Before(next, datum, h, e), datum[h], Before(next, datum, next[h], e))
    BY ONLY <1>3, <1>5, ShorterBefore
  <1>7. After(FGQ!Items, datum[h], FGQ!Items')
    BY <1>2, <1>4, <1>6, QueueMapping
  <1>8. FGQ!Fifo!Take(u)
    BY <1>4, <1>7 DEF FGQ!Fifo!Take, After
  <1> QED
    BY <1>8 DEF FGQ!Fifo!Next

\* Every step of the fine-grained queue is a push, a pop, or one that FifoQueue does not see.
LEMMA QueueStepIsSeen ==
    ASSUME QueueInv, FGQ!Next
    PROVE  [FGQ!Fifo!Next]_FGQ!Fifo!vars
  <1>1. QueueInv'
    BY QueueNextInv
  <1>2. PICK u \in Threads : \/ \E n \in Nodes, w \in Values : FGQ!NewDummy(u, n, w)
                             \/ \E o \in FGQ!AllOps : FGQ!Call(u, o)
                             \/ FGQ!SpuriousWake(u) \/ FGQ!Step(u)
    BY DEF FGQ!Next
  <1>3. CASE \E n \in Nodes, w \in Values : FGQ!NewDummy(u, n, w)
    <2>1. PICK n \in Nodes, w \in Values : FGQ!NewDummy(u, n, w)
      BY <1>3
    <2>2. /\ n \notin allocated /\ UNCHANGED <<head, tail, taken>>
          /\ next' = [next EXCEPT ![n] = null] /\ datum' = [datum EXCEPT ![n] = Nothing]
      BY <2>1 DEF FGQ!NewDummy
    <2>3. \A m \in Nodes \ {n} : next'[m] = next[m] /\ datum'[m] = datum[m]
      BY <2>2 DEF QueueInv, QueueTypesOK, QueueNodesOK
    <2> QED
      BY <1>1, <2>2, <2>3, ListStays
  <1>4. CASE \/ FGQ!LockTail(u) \/ FGQ!Notify(u) \/ FGQ!LockHead(u) \/ FGQ!GetTail(u)
             \/ FGQ!Empty(u) \/ FGQ!TryFails(u) \/ FGQ!Wait(u) \/ FGQ!SpuriousWake(u)
             \/ FGQ!DeleteOldHead(u) \/ \E o \in FGQ!AllOps : FGQ!Call(u, o)
    <2>1. UNCHANGED <<head, tail, next, datum, taken>>
      BY <1>4 DEF FGQ!LockTail, FGQ!Notify, FGQ!LockHead, FGQ!GetTail, FGQ!Empty, FGQ!TryFails,
                  FGQ!Wait, FGQ!SpuriousWake, FGQ!DeleteOldHead, FGQ!Call, FGQ!memory
    <2> QED
      BY <2>1, QueueMapping
  <1>5. CASE FGQ!Fill(u)
    BY <1>1, <1>5, FillIsUnseen
  <1>6. CASE FGQ!Advance(u)
    BY <1>6, AdvanceIsPut
  <1>7. CASE FGQ!PopHead(u)
    BY <1>7, PopHeadIsTake
  <1> QED
    BY <1>2, <1>3, <1>4, <1>5, <1>6, <1>7 DEF FGQ!Step

\* The fine-grained queue implements FifoQueue, for any number of threads, nodes and
\* calls: values come out in the order in which they went in, each to one thread.
THEOREM FifoIsImplemented == SpecParts => ImplementsFifo
  <1> DEFINE Inv == part = "queue" => QueueInv
  <1>1. FGQ!Init => FGQ!Fifo!Init
    <2> SUFFICES ASSUME FGQ!Init PROVE FGQ!Fifo!Init
      OBVIOUS
    <2>1. PICK L, rank : OwnInv(L) /\ QueueListInv(L, rank)
      BY QueueInitInv DEF QueueInv, ListedAs
    <2>2. PICK h, c : h = head /\ h = tail /\ c = Before(next, datum, h, h)
      BY DEF FGQ!Init
    <2>3. /\ L \in SUBSET Nodes /\ h \in L /\ rank \in [Nodes -> Nat]
          /\ IsList(L, h, next, rank)
          /\ next \in [Nodes -> Nodes \cup {null}] /\ datum \in [Nodes -> MaybeValues]
      BY <2>1, <2>2, QueueInitInv, QueueListed
    <2>4. CarriesTo(L, rank, datum, h, h, c)
      BY ONLY <2>2, <2>3, WhatIsBefore
    <2>5. c \in Seq(MaybeValues) /\ Len(c) = 0
      BY <2>3, <2>4 DEF CarriesTo
    <2>6. c = <<>>
      BY ONLY <2>5
    <2> QED
      BY <2>2, <2>6, QueueMapping DEF FGQ!Fifo!Init, FGQ!Init
  <1>2. InitParts => Inv /\ (part = "queue" => FGQ!Fifo!Init)
    BY <1>1, QueueInitInv DEF InitParts
  <1>3. Inv /\ [MutexStep \/ StackStep \/ QueueStep \/ OwnersStep \/ LockedStep]_partVars
          => Inv' /\ (part = "queue" => [FGQ!Fifo!Next]_FGQ!Fifo!vars)
    <2> SUFFICES ASSUME Inv,
                        [MutexStep \/ StackStep \/ QueueStep \/ OwnersStep \/ LockedStep]_partVars
                 PROVE  Inv' /\ (part = "queue" => [FGQ!Fifo!Next]_FGQ!Fifo!vars)
      OBVIOUS
    <2>1. CASE QueueStep
      BY <2>1, QueueNextInv, QueueStepIsSeen DEF QueueStep
    <2>2. CASE part' = part /\ UNCHANGED queueVars
      <3>1. UNCHANGED FGQ!Fifo!vars
        BY <2>2, QueueMapping DEF queueVars
      <3> QED
        BY <2>2, <3>1, SameQueue
    <2>3. CASE part' = part /\ part # "queue"
      BY <2>3
    <2> QED
      BY <2>1, <2>2, <2>3 DEF MutexStep, StackStep, OwnersStep, LockedStep, partVars
  <1> QED
    BY <1>2, <1>3, PTL DEF SpecParts, ImplementsFifo
=============================================================================
