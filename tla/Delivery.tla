------------------------------ MODULE Delivery ------------------------------
(***************************************************************************)
(* What becomes of a message whose handler fails: the retries of the two   *)
(* waiting-room consumers, and what the broker repeats.  What the handlers *)
(* do is in the other modules; here they succeed or fail.                  *)
(*                                                                         *)
(* There is one letter of each kind; its copies differ in the number of    *)
(* retries they carry and in the failure after which they were published.  *)
(* A publish that returned has reached the broker.                         *)
(***************************************************************************)
EXTENDS Naturals, FiniteSets

CONSTANTS
    Letters,         \* kinds of messages
    MaxRetries,
    MaxFailures,     \* bound: handlers of one letter that fail
    MaxRedeliveries  \* bound: handlers that die before the acknowledgement

ASSUME DeliveryAssumption ==
    /\ Letters \subseteq {"slot", "token", "disconnect", "release", "refund"}
    /\ MaxRetries \in Nat /\ MaxFailures \in Nat /\ MaxRedeliveries \in Nat

VARIABLES
    sent,       \* letters that have been published
    live,       \* copies that are delayed, queued or with a consumer
    handled,    \* letters whose handler has succeeded
    failed,     \* how often the handler of a letter has failed
    redeliveries

deliveryVars == <<sent, live, handled, failed, redeliveries>>

\* A rejected copy is one whose Nack is not yet with the broker.
Place == {"delayed", "queued", "working", "rejected", "done"}
Copy == [letter: Letters, place: Place, retry: 0..MaxRetries, after: 0..MaxFailures]

DeliveryTypeOK ==
    /\ sent \subseteq Letters /\ handled \subseteq sent
    /\ live \subseteq Copy
    /\ failed \in [Letters -> 0..MaxFailures]
    /\ redeliveries \in 0..MaxRedeliveries

DeliveryInit ==
    /\ sent = {} /\ live = {} /\ handled = {}
    /\ failed = [l \in Letters |-> 0]
    /\ redeliveries = 0

-----------------------------------------------------------------------------
(* Exchanges, keys and queues                                              *)

Key == [slot |-> "wr.slot.reserve-done", token |-> "wr.slot.token-expire",
        disconnect |-> "wr.disconnect", release |-> "booking.release",
        refund |-> "booking.refund"]

\* The subscriptions, by exchange and key; wr.slot.* is bound to the exchange
\* of the waiting room.
SlotBindings == {<<"waiting-room-exchange", "wr.slot.reserve-done">>,
                 <<"waiting-room-exchange", "wr.slot.token-expire">>,
                 <<"delayed-exchange", "wr.slot.token-expire">>}
DisconnectBindings == {<<"delayed-exchange", "wr.disconnect">>}
ReleaseBindings == {<<"delayed-exchange", "booking.release">>}
RefundBindings == {<<"booking-exchange", "booking.refund">>}

\* Of the four exchanges that are declared, dlq-exchange has no queue.
Bound == SlotBindings \cup DisconnectBindings \cup ReleaseBindings \cup RefundBindings

\* Where it is published first.
Home(l) == CASE l = "slot" -> "waiting-room-exchange"
             [] l = "refund" -> "booking-exchange"
             [] OTHER -> "delayed-exchange"

\* The copy a publish makes, if a queue is bound to the key.
Publication(l, exchange, r, n) ==
    IF <<exchange, Key[l]>> \in Bound
    THEN {[letter |-> l, retry |-> r, after |-> n,
           place |-> IF exchange = "delayed-exchange" THEN "delayed" ELSE "queued"]}
    ELSE {}

-----------------------------------------------------------------------------

Send(l) ==
    /\ l \notin sent
    /\ sent' = sent \cup {l}
    /\ live' = live \cup Publication(l, Home(l), 0, 0)
    /\ UNCHANGED <<handled, failed, redeliveries>>

Moves(m, place) == live' = (live \ {m}) \cup {[m EXCEPT !.place = place]}

Arrive(m) ==
    /\ m.place = "delayed"
    /\ Moves(m, "queued")
    /\ UNCHANGED <<sent, handled, failed, redeliveries>>

Take(m) ==
    /\ m.place = "queued"
    /\ Moves(m, "working")
    /\ UNCHANGED <<sent, handled, failed, redeliveries>>

Succeed(m) ==
    /\ m.place = "working"
    /\ Moves(m, "done")
    /\ handled' = handled \cup {m.letter}
    /\ UNCHANGED <<sent, failed, redeliveries>>

\* An acknowledgement, or a Nack without requeue: the copy leaves its queue.
\* The dead letter goes to dlq-exchange, to which nothing is bound, so that
\* it is dropped; requeueDlq asks for a queue that does not exist, and fails.
Acknowledge(m) ==
    /\ m.place \in {"done", "rejected"}
    /\ live' = live \ {m}
    /\ UNCHANGED <<sent, handled, failed, redeliveries>>

\* The consumer dies: the broker queues the copy again.
Redeliver(m) ==
    /\ redeliveries < MaxRedeliveries /\ redeliveries' = redeliveries + 1
    /\ m.place \in {"working", "rejected", "done"}
    /\ Moves(m, "queued")
    /\ UNCHANGED <<sent, handled, failed>>

Failing(m) ==
    /\ m.place = "working"
    /\ failed[m.letter] < MaxFailures
    /\ failed' = [failed EXCEPT ![m.letter] = @ + 1]
    /\ UNCHANGED <<sent, handled, redeliveries>>

\* Mutant: the last retry is missing.
RetryFewer(m) ==
    IF m.retry + 1 < MaxRetries
    THEN Publication(m.letter, "delayed-exchange", m.retry + 1, failed[m.letter] + 1) ELSE {}

\* What handleRetry publishes.
Retry(m) ==
    IF m.retry < MaxRetries
    THEN Publication(m.letter, "delayed-exchange", m.retry + 1, failed[m.letter] + 1) ELSE {}

\* Mutant: the rejected copy goes back to its queue.
FailRetriedRequeue(m) ==
    /\ m.letter \in {"slot", "token", "disconnect"}
    /\ Failing(m)
    /\ live' = (live \ {m}) \cup {[m EXCEPT !.place = "queued"]} \cup Retry(m)

\* handleRetry: published again, to the delayed exchange and with its first
\* key, unless it was retried too often; and rejected in either case.
FailRetried(m) ==
    /\ m.letter \in {"slot", "token", "disconnect"}
    /\ Failing(m)
    /\ live' = (live \ {m}) \cup {[m EXCEPT !.place = "rejected"]} \cup Retry(m)

\* Mutant: a copy whose handler throws is acknowledged.
FailThrownAck(m) ==
    /\ m.letter \in {"release", "refund"}
    /\ Failing(m)
    /\ live' = live \ {m}

\* The other consumers throw, and the copy is queued again.
FailThrown(m) ==
    /\ m.letter \in {"release", "refund"}
    /\ Failing(m)
    /\ Moves(m, "queued")

-----------------------------------------------------------------------------

Consume(l) ==
    \E m \in {c \in live : c.letter = l} :
        Arrive(m) \/ Take(m) \/ Succeed(m) \/ Acknowledge(m)

DeliveryNext ==
    \/ \E l \in Letters : Send(l) \/ Consume(l)
    \/ \E m \in live : Redeliver(m) \/ FailRetried(m) \/ FailThrown(m)

DeliverySpec == DeliveryInit /\ [][DeliveryNext]_deliveryVars

\* The broker delivers and the consumers work.
DeliveryFairness == \A l \in Letters : WF_deliveryVars(Consume(l))

-----------------------------------------------------------------------------
(* Properties *)

\* Failures of its handler that a letter survives; the retries of a slot
\* event reach no queue, and a consumer that throws has its copy queued again.
Patience(l) == CASE l = "slot" -> 0
                 [] l \in {"token", "disconnect"} -> MaxRetries
                 [] OTHER -> MaxFailures

\* No message is lost before its handler has failed more often than it is
\* retried, wherever the consumers die: until then it is handled, or some
\* copy of it is still there to be handled.
LostOnlyByFailures ==
    \A l \in sent : \/ l \in handled
                    \/ failed[l] > Patience(l)
                    \/ \E m \in live : m.letter = l /\ m.place # "rejected"

\* A retry publishes a new copy before the old one is rejected, so that a
\* consumer that dies in between leaves both: but there are no more copies
\* for the handler than there were such deaths, and one.
TwinsOnlyByCrash ==
    \A l \in Letters :
        Cardinality({m \in live : m.letter = l /\ m.place # "rejected"}) <= 1 + redeliveries

\* A message is handled, unless its handler fails more often than it is
\* retried.
TransientIsOvercome ==
    \A l \in Letters \ {"slot"} :
        (l \in sent) ~> (l \in handled \/ failed[l] > Patience(l))

=============================================================================
