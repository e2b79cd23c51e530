---------------------------- MODULE ThreadOwners ----------------------------
(*****************************************************************************)
(* The classes that own a thread: chapter 2's thread_guard, scope_thread and *)
(* joining_thread, join_threads, and the functions of lists 2.2 and 2.8,     *)
(* which join by hand.  One thread makes, moves and destroys the objects, in *)
(* any order the classes allow; an exception leaves nothing to do but to     *)
(* destroy them.  A std::thread that is destroyed or assigned to while it is *)
(* joinable calls std::terminate, and joining one that stands for no thread  *)
(* throws, which in a destructor is the same.  joining_thread's two          *)
(* assignments do the same; a call of one is ambiguous, and as_thread gives  *)
(* away what the class looks after: that is left to the caller and not       *)
(* modelled.                                                                 *)
(*****************************************************************************)
EXTENDS Naturals, FiniteSets

CONSTANTS
    Objects,        \* the places where an object can be
    Threads,        \* the threads that can be started
    None

VARIABLES
    class,      \* object -> its class, "absent" when there is none
    t,          \* object -> the thread its std::thread stands for, or None
    state,      \* thread -> "unborn", "running" or "finished"
    released,   \* the threads that were joined or detached
    detached,   \* those that were detached
    unwinding,  \* has an exception been thrown?
    died        \* has std::terminate been called?
vars == <<class, t, state, released, detached, unwinding, died>>

\* the element of a vector of list 2.8 is an object of its own
Classes == {"thread_guard", "scope_thread", "joining_thread", "join_threads",
            "list_2_2", "list_2_8"}

Init ==
    /\ class = [o \in Objects |-> "absent"]
    /\ t = [o \in Objects |-> None]
    /\ state = [h \in Threads |-> "unborn"]
    /\ released = {} /\ detached = {}
    /\ unwinding = FALSE
    /\ died = FALSE

Is(o, c) == class[o] = c
Joinable(o) == t[o] # None
Ready == ~died /\ ~unwinding

\* join() blocks until the thread has finished
Joins(o) == state[t[o]] = "finished"
Joined(o) == released \cup {t[o]}

\* a thread ends on its own
Finish(h) ==
    /\ ~died /\ state[h] = "running"
    /\ state' = [state EXCEPT ![h] = "finished"]
    /\ UNCHANGED <<class, t, released, detached, unwinding, died>>

\* an object of class c is made, and the thread that it owns
Construct(o, c, h) ==
    /\ Ready /\ Is(o, "absent") /\ state[h] = "unborn"
    /\ class' = [class EXCEPT ![o] = c]
    /\ t' = [t EXCEPT ![o] = h]
    /\ state' = [state EXCEPT ![h] = "running"]
    /\ UNCHANGED <<released, detached, unwinding, died>>

\* Mutant of Checked: scope_thread's constructor does not look.
Unchecked(o, c) == class' = [class EXCEPT ![o] = c] /\ UNCHANGED unwinding
\* scope_thread's constructor throws when it is given no thread, so there is no object
Checked(o, c) ==
    IF c = "scope_thread"
    THEN UNCHANGED class /\ unwinding' = TRUE
    ELSE class' = [class EXCEPT ![o] = c] /\ UNCHANGED unwinding

\* an object is given, or guards, a std::thread that stands for no thread
ConstructEmpty(o, c) ==
    /\ Ready /\ Is(o, "absent")
    /\ c \notin {"list_2_2", "list_2_8"}
    /\ Checked(o, c)
    /\ UNCHANGED <<t, state, released, detached, died>>

\* what the owner does, or the start of a thread, throws
Throw ==
    /\ Ready
    /\ unwinding' = TRUE
    /\ UNCHANGED <<class, t, state, released, detached, died>>

-----------------------------------------------------------------------------
(* joining_thread                                                        *)

Both(o, p) == Ready /\ o # p /\ Is(o, "joining_thread") /\ Is(p, "joining_thread")

MoveConstruct(o, p) ==
    /\ Ready /\ Is(o, "absent") /\ Is(p, "joining_thread")
    /\ class' = [class EXCEPT ![o] = "joining_thread"]
    /\ t' = [t EXCEPT ![o] = t[p], ![p] = None]
    /\ UNCHANGED <<state, released, detached, unwinding, died>>

\* before a thread is overwritten or destroyed it is joined
LetGo(o) ==
    /\ Joinable(o) => Joins(o)
    /\ released' = IF Joinable(o) THEN Joined(o) ELSE released
    /\ UNCHANGED died

Assign(o, p) ==
    /\ Both(o, p)
    /\ LetGo(o)
    /\ t' = [t EXCEPT ![o] = t[p], ![p] = None]
    /\ UNCHANGED <<class, state, detached, unwinding>>

swap(o, p) ==
    /\ Both(o, p)
    /\ t' = [t EXCEPT ![o] = t[p], ![p] = t[o]]
    /\ UNCHANGED <<class, state, released, detached, unwinding, died>>

join(o) ==
    /\ Ready /\ Is(o, "joining_thread") /\ Joinable(o) /\ Joins(o)
    /\ t' = [t EXCEPT ![o] = None]
    /\ released' = Joined(o)
    /\ UNCHANGED <<class, state, detached, unwinding, died>>

detach(o) ==
    /\ Ready /\ Is(o, "joining_thread") /\ Joinable(o)
    /\ t' = [t EXCEPT ![o] = None]
    /\ released' = Joined(o)
    /\ detached' = detached \cup {t[o]}
    /\ UNCHANGED <<class, state, unwinding, died>>

\* there is nothing to join or detach: std::system_error
JoinThrows(o) ==
    /\ Ready /\ Is(o, "joining_thread") /\ ~Joinable(o)
    /\ unwinding' = TRUE
    /\ UNCHANGED <<class, t, state, released, detached, died>>

-----------------------------------------------------------------------------
(* The ends of the objects                                               *)

Gone(o) ==
    /\ ~died
    /\ class' = [class EXCEPT ![o] = "absent"]
    /\ t' = [t EXCEPT ![o] = None]
    /\ UNCHANGED <<state, detached, unwinding>>

DestroyJoiningThread(o) == Is(o, "joining_thread") /\ LetGo(o) /\ Gone(o)

\* thread_guard's destructor runs before the one of the std::thread it guards
DestroyGuard(o) == Is(o, "thread_guard") /\ LetGo(o) /\ Gone(o)

\* joins without a look: the constructor lets in joinable threads only
DestroyScopeThread(o) ==
    /\ Is(o, "scope_thread")
    /\ IF Joinable(o)
       THEN Joins(o) /\ released' = Joined(o) /\ UNCHANGED died
       ELSE died' = TRUE /\ UNCHANGED released
    /\ Gone(o)

\* one thread of join_threads' vector
DestroyJoinThreads(o) == Is(o, "join_threads") /\ LetGo(o) /\ Gone(o)

\* list 2.2: joined in the handler and at the end of the block
EndOfList2_2(o) ==
    Is(o, "list_2_2") /\ Joins(o) /\ released' = Joined(o) /\ UNCHANGED died /\ Gone(o)

InVector == {o \in Objects : Is(o, "list_2_8")}

\* list 2.8: the loop joins every thread of the vector
EndOfList2_8 ==
    /\ Ready /\ InVector # {}
    /\ \A o \in InVector : Joins(o)
    /\ released' = released \cup {t[o] : o \in InVector}
    /\ class' = [o \in Objects |-> IF o \in InVector THEN "absent" ELSE class[o]]
    /\ t' = [o \in Objects |-> IF o \in InVector THEN None ELSE t[o]]
    /\ UNCHANGED <<state, detached, unwinding, died>>

\* it has no handler: the start of a thread throws, and the vector is destroyed with
\* the threads that were started before
List2_8Dies ==
    /\ ~died /\ unwinding /\ InVector # {}
    /\ died' = TRUE
    /\ UNCHANGED <<class, t, state, released, detached, unwinding>>

Destroy(o) ==
    \/ DestroyJoiningThread(o) \/ DestroyGuard(o) \/ DestroyScopeThread(o)
    \/ DestroyJoinThreads(o) \/ EndOfList2_2(o)

Next ==
    \/ \E h \in Threads : Finish(h)
    \/ \E o \in Objects, c \in Classes, h \in Threads : Construct(o, c, h)
    \/ \E o \in Objects, c \in Classes : ConstructEmpty(o, c)
    \/ \E o \in Objects : join(o) \/ detach(o) \/ JoinThrows(o) \/ Destroy(o)
    \/ \E o, p \in Objects : MoveConstruct(o, p) \/ Assign(o, p) \/ swap(o, p)
    \/ EndOfList2_8 \/ List2_8Dies \/ Throw

-----------------------------------------------------------------------------
(**************************************************************************)
(* Whatever is moved and thrown, std::terminate is called only where list *)
(* 2.8 has started threads and the start of the next one throws.  A       *)
(* thread that was started and neither joined nor detached belongs to one *)
(* object: none outlives its owner.                                       *)
(**************************************************************************)
ThreadsAreOwned ==
    /\ died => unwinding /\ \E o \in Objects : Is(o, "list_2_8") /\ Joinable(o)
    /\ \A h \in Threads :
           Cardinality({o \in Objects : t[o] = h}) =
               (IF state[h] # "unborn" /\ h \notin released THEN 1 ELSE 0)
    /\ \A h \in released \ detached : state[h] = "finished"
=============================================================================
