----------------------------- MODULE ViewMachine -----------------------------
(****************************************************************************)
(* The C++ memory model as a machine that runs one of AtomicPrograms.  A    *)
(* location is the sequence of values written to it (its modification       *)
(* order); a thread's view says which of them it must not read behind.  A   *)
(* released value carries its writer's view, and who acquires it joins that *)
(* view to its own, so that happens-before is inclusion of views.  A        *)
(* read-modify-write reads the last value and hands on the view it came     *)
(* with (the release sequence); fences keep the views for the relaxed       *)
(* accesses around them; a seq_cst load does not read behind the last       *)
(* seq_cst store.  A new value goes to the end of the modification order,   *)
(* and a load never reads a store that has not run yet: what the standard   *)
(* allows beyond this (a store overtaken by a program-later one in another  *)
(* thread's order, and values out of load buffering) is not explored.       *)
(****************************************************************************)
EXTENDS AtomicPrograms

CONSTANT Chosen         \* the programs to run

VARIABLES
    prog,       \* the program that runs
    pc,         \* thread -> the index of its next instruction
    reg,        \* thread -> its local variables
    mem,        \* location -> the sequence of its values, each with the view it carries
    view,       \* thread -> location -> the oldest value the thread may still read
    acquirable, \* thread -> the view an acquire fence would bring
    released,   \* thread -> its view at its last release fence
    scLast      \* location -> its last seq_cst store
vars == <<prog, pc, reg, mem, view, acquirable, released, scLast>>

Threads == UNION {DOMAIN Programs[p] : p \in Chosen}
Code(t) == Programs[prog][t]
Running(t) == t \in DOMAIN pc /\ pc[t] <= Len(Code(t))
Instr(t) == Code(t)[pc[t]]
Is(t, op) == Running(t) /\ Instr(t).op = op

Used(i) == (IF "loc" \in DOMAIN i THEN {i.loc} ELSE {})
             \cup (IF "locs" \in DOMAIN i THEN {i.locs[k] : k \in DOMAIN i.locs} ELSE {})
Locations(p) == UNION {UNION {Used(Programs[p][t][k]) : k \in DOMAIN Programs[p][t]} :
                       t \in DOMAIN Programs[p]}

\* views: none, the join of two, and one that knows value k of location l
None == [l \in DOMAIN mem |-> 1]
Join2(v, w) == [l \in DOMAIN mem |-> IF v[l] > w[l] THEN v[l] ELSE w[l]]
Knows(v, l, k) == Join2(v, [None EXCEPT ![l] = k])

Acquires(o) == o \in {"acquire", "acq_rel", "seq_cst"}
Releases(o) == o \in {"release", "acq_rel", "seq_cst"}

Init ==
    \E p \in Chosen :
        LET Ts == DOMAIN Programs[p]
            Oldest == [l \in Locations(p) |-> 1]
            Start(l) == IF l \in DOMAIN Initially THEN Initially[l] ELSE 0
        IN /\ prog = p
           /\ pc = [t \in Ts |-> 1]
           /\ reg = [t \in Ts |-> <<>>]
           /\ mem = [l \in Locations(p) |-> <<[val |-> Start(l), view |-> Oldest]>>]
           /\ view = [t \in Ts |-> Oldest]
           /\ acquirable = [t \in Ts |-> Oldest]
           /\ released = [t \in Ts |-> Oldest]
           /\ scLast = Oldest

Reg(t, r) == IF r \in DOMAIN reg[t] THEN reg[t][r] ELSE 0
SetReg(t, f) == reg' = [reg EXCEPT ![t] = f @@ @]
Advance(t) == pc' = [pc EXCEPT ![t] = @ + 1]
Jump(t, k) == pc' = [pc EXCEPT ![t] = k]

\* the location instruction i of thread t accesses
Loc(t, i) == IF "index" \in DOMAIN i THEN i.locs[Reg(t, i.index)] ELSE i.loc

\* the values of l that thread t may read with order o, and the last one
Readable(t, l, o) == {k \in view[t][l] .. Len(mem[l]) : o = "seq_cst" => k >= scLast[l]}
LastOf(l) == Len(mem[l])
Value(l, k) == mem[l][k].val

\* thread t's view when it has read value k of l with order o
Seen(t, l, k, o) == LET known == Knows(view[t], l, k)
                    IN IF Acquires(o) THEN Join2(known, mem[l][k].view) ELSE known

Read(t, l, k, o) ==
    /\ view' = [view EXCEPT ![t] = Seen(t, l, k, o)]
    /\ acquirable' = [acquirable EXCEPT ![t] = IF o = "plain" THEN @ ELSE Join2(@, mem[l][k].view)]
    /\ UNCHANGED <<mem, released, scLast>>

\* v is written to l with order o by a thread with view known; inherited is what a
\* read-modify-write hands on
Write(t, l, v, o, known, inherited) ==
    LET k == LastOf(l) + 1
        mine == Knows(known, l, k)
        carried == CASE o = "plain" -> None
                     [] Releases(o) -> mine
                     [] OTHER -> released[t]
    IN /\ mem' = [mem EXCEPT ![l] = Append(@, [val |-> v, view |-> Join2(carried, inherited)])]
       /\ view' = [view EXCEPT ![t] = mine]
       /\ scLast' = IF o = "seq_cst" THEN [scLast EXCEPT ![l] = k] ELSE scLast
       /\ UNCHANGED released

\* a read-modify-write of l by thread t: the last value is read and v written after it
ReadModifyWrite(t, l, v, o) ==
    LET k == LastOf(l)
    IN /\ Write(t, l, v, o, Seen(t, l, k, o), mem[l][k].view)
       /\ acquirable' = [acquirable EXCEPT ![t] = Join2(@, mem[l][k].view)]

-----------------------------------------------------------------------------
Loads(t) ==
    /\ Is(t, "load")
    /\ LET i == Instr(t)
           l == Loc(t, i)
       IN \E k \in Readable(t, l, i.ord) :
              Read(t, l, k, i.ord) /\ SetReg(t, i.reg :> Value(l, k))
    /\ Advance(t)

Stores(t) ==
    /\ Is(t, "store")
    /\ LET i == Instr(t)
           v == IF "from" \in DOMAIN i THEN Reg(t, i.from) ELSE i.val
       IN Write(t, i.loc, v, i.ord, view[t], None)
    /\ Advance(t)
    /\ UNCHANGED <<reg, acquirable>>

\* the loads that failed leave nothing behind: an older value could be read again
Awaits(t) ==
    /\ Is(t, "await")
    /\ LET i == Instr(t)
       IN \E k \in Readable(t, i.loc, i.ord) :
              Value(i.loc, k) \in i.vals /\ Read(t, i.loc, k, i.ord)
    /\ Advance(t)
    /\ UNCHANGED reg

Updates(t) ==
    /\ Is(t, "update")
    /\ LET i == Instr(t)
           old == Value(i.loc, LastOf(i.loc))
       IN /\ old \in i.vals
          /\ ReadModifyWrite(t, i.loc, old + i.by, i.ord)
          /\ SetReg(t, i.reg :> old)
    /\ Advance(t)

\* the weak exchange may fail although it read what was expected
Exchanges(t) ==
    /\ Is(t, "exchange")
    /\ LET i == Instr(t)
       IN \/ /\ Value(i.loc, LastOf(i.loc)) = Reg(t, i.reg)
             /\ ReadModifyWrite(t, i.loc, i.val, i.ord)
             /\ SetReg(t, i.ok :> 1)
          \/ \E k \in Readable(t, i.loc, i.ord) :
                 /\ Read(t, i.loc, k, i.ord)
                 /\ SetReg(t, (i.ok :> 0) @@ (i.reg :> Value(i.loc, k)))
    /\ Advance(t)

Fences(t) ==
    /\ Is(t, "fence")
    /\ IF Acquires(Instr(t).ord)
       THEN view' = [view EXCEPT ![t] = Join2(@, acquirable[t])] /\ UNCHANGED released
       ELSE released' = [released EXCEPT ![t] = view[t]] /\ UNCHANGED view
    /\ Advance(t)
    /\ UNCHANGED <<reg, mem, acquirable, scLast>>

\* std::call_once: 0 not called, 1 in the call, 2 done
Onces(t) ==
    /\ Is(t, "once")
    /\ LET l == Instr(t).loc
           state == Value(l, LastOf(l))
       IN \/ state = 0 /\ ReadModifyWrite(t, l, 1, "acquire") /\ Advance(t)
          \/ /\ state = 2
             /\ Read(t, l, LastOf(l), "acquire")
             /\ Jump(t, Instr(t).to)
    /\ UNCHANGED reg

\* std::lock of the mutexes in order: it holds none of them while it waits for one
LocksAll(t) ==
    /\ Is(t, "lockAll")
    /\ LET ms == {Instr(t).locs[k] : k \in DOMAIN Instr(t).locs}
           Last(m) == mem[m][LastOf(m)]
           got == [l \in DOMAIN mem |->
                     LET from == {view[t][l]} \cup {Last(m).view[l] : m \in ms}
                                   \cup (IF l \in ms THEN {LastOf(l) + 1} ELSE {})
                     IN CHOOSE k \in from : \A j \in from : j <= k]
       IN /\ \A m \in ms : Last(m).val = 0
          /\ mem' = [m \in DOMAIN mem |->
                       IF m \in ms THEN Append(mem[m], [val |-> 1, view |-> Last(m).view]) ELSE mem[m]]
          /\ view' = [view EXCEPT ![t] = got]
    /\ Advance(t)
    /\ UNCHANGED <<reg, acquirable, released, scLast>>

\* the caller of join sees everything the threads it joins have done
Joins(t) ==
    /\ Is(t, "join")
    /\ LET others == Instr(t).threads
       IN /\ \A u \in others : ~Running(u)
          /\ view' = [view EXCEPT ![t] = [l \in DOMAIN mem |->
                        LET from == {view[u][l] : u \in others \cup {t}}
                        IN CHOOSE k \in from : \A j \in from : j <= k]]
    /\ Advance(t)
    /\ UNCHANGED <<reg, mem, acquirable, released, scLast>>

Branches(t) ==
    /\ Is(t, "branch")
    /\ IF Reg(t, Instr(t).reg) \in Instr(t).vals THEN Jump(t, Instr(t).to) ELSE Advance(t)
    /\ UNCHANGED <<reg, mem, view, acquirable, released, scLast>>

Checks(t) ==
    /\ Is(t, "check")
    /\ Advance(t)
    /\ UNCHANGED <<reg, mem, view, acquirable, released, scLast>>

Step(t) ==
    /\ \/ Loads(t) \/ Stores(t) \/ Awaits(t) \/ Updates(t) \/ Exchanges(t) \/ Fences(t)
       \/ Onces(t) \/ LocksAll(t) \/ Joins(t) \/ Branches(t) \/ Checks(t)
    /\ UNCHANGED prog

Next == \E t \in Threads : Step(t)

\* every thread is scheduled, and a value that was stored is loaded in the end
FairSpec == Init /\ [][Next]_vars /\ \A t \in Threads : WF_vars(Step(t))

-----------------------------------------------------------------------------
(******************************************************************************)
(* What the source asserts, and prints or says it knows, is so: lists 5.4,    *)
(* 5.8, 5.12 and 5.13 never leave z at 0, 5.9's thread3 finds thread1's data, *)
(* call_once's callers find the resource, the latch's waiter the data.        *)
(******************************************************************************)
AssertionsHold ==
    prog \notin SaidToFail =>
        \A t \in DOMAIN pc : Is(t, "check") => Reg(t, Instr(t).reg) \in Instr(t).vals

\* the next instruction of t accesses l
Accessing == {"load", "store", "await", "update", "exchange", "once"}
Accesses(t, l) == Running(t) /\ Instr(t).op \in Accessing /\ l = Loc(t, Instr(t))
IsPlain(t) == "ord" \in DOMAIN Instr(t) /\ Instr(t).ord = "plain"
IsWrite(t) == Instr(t).op \in {"store", "update", "exchange", "once"}

(***************************************************************************)
(* No plain access races: it happens after every write of the object, and  *)
(* no other thread is about to access the object at the same time when one *)
(* of the two writes.  That includes the writes that stand for the         *)
(* destruction of what the threads use.                                    *)
(***************************************************************************)
NoDataRace ==
    prog \notin SaidToFail =>
        \A t \in DOMAIN pc, l \in DOMAIN mem : Accesses(t, l) /\ IsPlain(t) =>
            /\ view[t][l] = LastOf(l)
            /\ \A u \in DOMAIN pc \ {t} : Accesses(u, l) => ~IsWrite(t) /\ ~IsWrite(u)

(*************************************************************************)
(* Two threads are never both about to use the output that SpinLock, or  *)
(* SpinLockEx, guards.  It fails of SpinLockEx: lock returns without the *)
(* lock when another thread has it.                                      *)
(*************************************************************************)
GuardsExclude ==
    \A t, u \in DOMAIN pc : Accesses(t, "output") /\ Accesses(u, "output") => t = u

\* The program is over.  List 10.2's never is: where its guard should unlock the mutex it
\* locks it, and its thread, which holds it, is stopped at this last step.
Ended ==
    \/ \A t \in DOMAIN pc : ~Running(t)
    \/ prog = "list_10_2" /\ pc["main"] = Len(Code("main"))
=============================================================================
