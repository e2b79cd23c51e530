----------------------------- MODULE Generators -----------------------------
(*****************************************************************************)
(* The coroutines that hand values to one consumer: generator (generator.h)  *)
(* and the classes of hello-coroutine.h, each in the loop its examples use;  *)
(* Generator's two operators are also called in any other order and number.  *)
(* A coroutine is the number of times its body suspends before it ends; the  *)
(* k-th value it yields is k, so that the value in the promise is the number *)
(* of times it has suspended.                                                *)
(*****************************************************************************)
EXTENDS Naturals, Sequences

CONSTANTS
    MaxN,       \* the largest argument of a coroutine
    MaxLoops    \* the consumer leaves the loop after that many values

VARIABLES
    class,      \* the coroutine's class
    limit,      \* how often its body suspends, or Forever
    fails,      \* does the body throw at once?
    body,       \* how often it has suspended
    at,         \* "suspended", "done" or "destroyed"
    misused,    \* has something been done to it that is undefined?
    alive,      \* how many values generator's ref_ holds that were not destroyed
    mark,       \* hasValue_ of generator, full_ of Generator, ready_ of tunable_coro
    got,        \* the values the consumer has been given
    phase       \* where the consumer is
coroutine == <<class, limit, fails>>
vars == <<coroutine, body, at, misused, alive, mark, got, phase>>

Forever == MaxLoops + 1

\* how often the examples' bodies suspend when they are called with n
gen_ints(n) == n
gen_fibonacci(n) == IF n = 1 THEN Forever ELSE n
gen_icebag[n \in Nat] ==
    IF n <= 1 THEN 0 ELSE 1 + (IF n % 2 = 0 THEN gen_icebag[n \div 2] ELSE gen_icebag[3 * n + 1])
coro_max(n) == n + 1
fibonacci(n) == IF n <= 1 THEN Forever ELSE n
fibonacci_sequence(n) == IF n = 1 THEN Forever ELSE n
hello(n) == n
generate(n) == n

\* coroGen, and the lambdas of simple_coroutine_example and good, do not suspend
Bodies(n) ==
    {<<"generator", l>> : l \in {gen_ints(n), gen_fibonacci(n), gen_icebag[n]}}
      \cup {<<"CoroTask", coro_max(n)>>, <<"Genertor", fibonacci(n)>>,
            <<"Generator", fibonacci_sequence(n)>>, <<"coro", hello(n)>>, <<"coro", 0>>,
            <<"tunable_coro", generate(n)>>, <<"CoGen", 0>>, <<"cppref_coro", 0>>}

\* more than 94 Fibonacci numbers: the body throws when it is first resumed
Throwing == {<<"generator", 0>>, <<"Generator", 0>>}

Init ==
    /\ \E n \in 0 .. MaxN, f \in BOOLEAN :
           \E b \in IF f THEN Throwing ELSE Bodies(n) :
               class = b[1] /\ limit = b[2] /\ fails = f
    /\ body = 0
    /\ at = "suspended"             \* initial_suspend
    /\ misused = FALSE
    /\ alive = 0
    /\ mark = (class = "tunable_coro")
    /\ got = <<>>
    /\ phase = "resume"

In(classes, p) == class \in classes /\ phase = p
Be(p) == phase' = p

\* resume: the body runs to its next co_yield or co_await, or to its end
HasMore == body < limit
Resume ==
    IF at = "suspended"
    THEN /\ body' = IF HasMore THEN body + 1 ELSE body
         /\ at' = IF HasMore THEN "suspended" ELSE "done"
         /\ UNCHANGED misused
    ELSE misused' = TRUE /\ UNCHANGED <<body, at>>

\* the consumer is given what the promise holds
Take == got' = Append(got, body)

-----------------------------------------------------------------------------
(* generator: for (auto const& i : gen)                                  *)

\* Mutant of clear_value: the value is not destroyed.
ClearNothing == alive
\* how many values are left when the old one has been destroyed
clear_value == IF mark THEN alive - 1 ELSE alive

\* begin() and ++: a yield constructs a value where the old one was
Advance ==
    /\ In({"generator"}, "resume")
    /\ alive' = IF HasMore THEN clear_value + 1 ELSE clear_value
    /\ mark' = HasMore
    /\ Resume
    /\ Be(IF fails THEN "caught" ELSE "test")
    /\ UNCHANGED <<coroutine, got>>

NotEnd ==
    /\ In({"generator"}, "test")
    /\ Be(IF at = "done" THEN "end" ELSE "read")
    /\ UNCHANGED <<coroutine, body, at, misused, alive, mark, got>>

Dereference ==
    /\ In({"generator"}, "read")
    /\ misused' = (misused \/ alive # 1)
    /\ Take
    /\ Be("resume")
    /\ UNCHANGED <<coroutine, body, at, alive, mark>>

-----------------------------------------------------------------------------
(* CoroTask's iterators, and Genertor: while (gen.resume()) gen.get()    *)

\* getNext, and Genertor's resume: was there a value?  (A coroutine that is done is left alone.)
NextValue ==
    /\ In({"CoroTask", "Genertor"}, "resume")
    /\ IF at = "done" THEN UNCHANGED <<body, at, misused>> ELSE Resume
    /\ Be(IF at' = "done" THEN "end" ELSE "read")
    /\ UNCHANGED <<coroutine, alive, mark, got>>

Get ==
    /\ In({"CoroTask", "Genertor"}, "read")
    /\ Take
    /\ Be("resume")
    /\ UNCHANGED <<coroutine, body, at, misused, alive, mark>>

-----------------------------------------------------------------------------
(* Generator: the consumer asks, with operator bool, as often as it      *)
(* likes before each call, also when it has been told that there is no   *)
(* value; or it calls unasked, if it knows that there is one more.       *)

\* Mutant of fill: a value that has not been taken is run over.
FillAlways == Resume
fill == IF mark THEN UNCHANGED <<body, at, misused>> ELSE Resume

BoolOperator ==
    /\ class = "Generator" /\ phase \in {"resume", "read", "end"} /\ at # "destroyed"
    /\ fill
    /\ mark' = ~fails
    /\ Be(IF fails THEN "caught" ELSE IF at' = "done" THEN "end" ELSE "read")
    /\ UNCHANGED <<coroutine, alive, got>>

\* the call fills, takes the value and leaves the generator empty
CallOperator ==
    /\ fill
    /\ mark' = FALSE
    /\ got' = IF fails THEN got ELSE Append(got, body')
    /\ Be(IF fails THEN "caught" ELSE "resume")
    /\ UNCHANGED <<coroutine, alive>>

Call         == In({"Generator"}, "read") /\ CallOperator
CallUntested == In({"Generator"}, "resume") /\ (HasMore \/ fails) /\ CallOperator

-----------------------------------------------------------------------------
(* coro, CoGen and tunable_coro: while (co.resume())                     *)

\* true also for the turn in which the coroutine ends
ResumeCoro ==
    /\ In({"coro", "cppref_coro", "CoGen"}, "resume")
    /\ IF at = "done"
       THEN Be(IF class = "CoGen" THEN "read" ELSE "end") /\ UNCHANGED <<body, at, misused>>
       ELSE Resume /\ UNCHANGED phase
    /\ UNCHANGED <<coroutine, alive, mark, got>>

\* CoGen's data are there when it has returned
getResult ==
    /\ In({"CoGen"}, "read")
    /\ got' = <<1>>
    /\ misused' = (misused \/ at # "done")
    /\ Be("end")
    /\ UNCHANGED <<coroutine, body, at, alive, mark>>

\* with ready_ gone, await_transform's awaiter does not suspend: the body runs to its end
CallTunable ==
    /\ In({"tunable_coro"}, "resume")
    /\ CASE at = "done" -> UNCHANGED <<body, at, misused>>
         [] at # "done" /\ mark -> Resume
         [] OTHER -> body' = limit /\ at' = "done" /\ UNCHANGED misused
    /\ Be(IF at' = "done" THEN "end" ELSE "resume")
    /\ UNCHANGED <<coroutine, alive, mark, got>>

disable_suspension ==
    /\ In({"tunable_coro"}, "resume") /\ mark
    /\ mark' = (at = "done")
    /\ UNCHANGED <<coroutine, body, at, misused, alive, got, phase>>

-----------------------------------------------------------------------------
\* the consumer leaves the loop before its end: after MaxLoops turns it must
Leave ==
    /\ phase = "resume" /\ body > 0
    /\ Be("left")
    /\ UNCHANGED <<coroutine, body, at, misused, alive, mark, got>>

\* the destructor of the object destroys the frame, and generator's promise its value
Destroy ==
    /\ phase \in {"end", "caught", "left"} /\ at # "destroyed"
    /\ at' = "destroyed"
    /\ alive' = IF class = "generator" THEN clear_value ELSE alive
    /\ UNCHANGED <<coroutine, body, misused, mark, got, phase>>

Turn == Advance \/ NextValue \/ BoolOperator \/ CallUntested \/ ResumeCoro \/ CallTunable
Next ==
    \/ Turn /\ body < MaxLoops
    \/ NotEnd \/ Dereference \/ Get \/ Call \/ getResult \/ disable_suspension \/ Leave \/ Destroy

FairSpec == Init /\ [][Next]_vars /\ WF_vars(Next)

-----------------------------------------------------------------------------
(***************************************************************************)
(* The consumer gets the values in the order they were yielded, each once, *)
(* all of them if it stays in the loop to the end, and none of a coroutine *)
(* that has thrown, which it is told.                                      *)
(***************************************************************************)
DeliversInOrder ==
    /\ \A k \in DOMAIN got : got[k] = k
    /\ phase = "caught" <=> fails /\ at \in {"done", "destroyed"}
    /\ phase = "end" =>
           Len(got) = (CASE class \in {"generator", "CoroTask", "Genertor", "Generator"} -> limit
                         [] class = "CoGen" -> 1
                         [] OTHER -> 0)

(***************************************************************************)
(* A coroutine that is done is not resumed, a value is read where there is *)
(* one, and each value of a generator is destroyed once, whenever the      *)
(* consumer stops.                                                         *)
(***************************************************************************)
UsedAsAllowed ==
    /\ ~misused
    /\ alive \in {0, 1}
    /\ at = "destroyed" => alive = 0

\* The consumer comes to the end of the coroutine, or leaves it, and destroys it.
Ended == at = "destroyed"
ConsumerEnds == <>Ended
=============================================================================
