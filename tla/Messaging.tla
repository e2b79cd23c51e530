----------------------------- MODULE Messaging -----------------------------
(***************************************************************************)
(* The message-passing library of src/ATM_example/messaging.h: every actor *)
(* owns a receiver (a queue) and hands out senders to it.  A push and a    *)
(* wait_and_pop are each one step here: ThreadsafeQueue shows that a queue *)
(* built as messaging::queue is (one mutex, one condition variable,        *)
(* notify_all under the mutex) behaves as a FIFO whose pushes and pops are *)
(* atomic and whose sleepers are woken.                                    *)
(***************************************************************************)
EXTENDS Naturals, Sequences, FiniteSets

VARIABLE queue     \* the messages each receiver holds, oldest first

Receivers == {"atm", "bank", "interface"}

\* A message is a record: its type, and the contents some types carry.
Msg(type) == [type |-> type]

close_queue == Msg("close_queue")

InitQueues == queue = [r \in Receivers |-> <<>>]

\* sender::send
Send(q, r, m) == [q EXCEPT ![r] = Append(@, m)]

\* The queues once r has popped its oldest message.
Popped(r) == [queue EXCEPT ![r] = Tail(@)]

\* The message r's wait_and_pop returns has this type.
Receives(r, type) == queue[r] # <<>> /\ Head(queue[r]).type = type

(**************************************************************************)
(* r.wait().handle<A>(..).handle<B>(..) pops one message.  If its type is *)
(* one of those named, that handler runs (the actors' actions say how).   *)
(* If it is close_queue, dispatcher::dispatch throws.  Anything else      *)
(* reaches dispatcher::dispatch too, which answers true: the message is   *)
(* dropped and the wait ends as if it had been handled.                   *)
(**************************************************************************)
Closes(r) == Receives(r, "close_queue")

\* The message r pops is one that none of its handlers takes.
Drops(r, handled) ==
    /\ queue[r] # <<>>
    /\ Head(queue[r]).type \notin handled \cup {"close_queue"}

\* How many messages of this type r's queue holds.
Count(r, type) == Cardinality({i \in DOMAIN queue[r] : queue[r][i].type = type})
=============================================================================
