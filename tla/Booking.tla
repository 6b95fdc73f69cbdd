------------------------------ MODULE Booking ------------------------------
(***************************************************************************)
(* Holding, paying for and giving back tickets: reserveTicket,             *)
(* initiatePayment and finalizePaymentWebhook of BookingsService, and the  *)
(* delayed release message that BookingReleaseConsumer handles.            *)
(*                                                                         *)
(* A reservation is named by a member of Holds and an order by a member of *)
(* Orders; who makes it, of which ticket type and for how many tickets are *)
(* constants of the name, so that every combination is some value of the   *)
(* constants.  Each await that separates two commands on the state below   *)
(* separates two actions.                                                  *)
(***************************************************************************)
EXTENDS Naturals, FiniteSets, FiniteSetsExt

CONSTANTS
    Users, Types,
    Holds,          \* bound: reservations that may be made
    Orders,         \* bound: orders that may be created
    Calls,          \* bound: webhook deliveries under way for one order
    Buyer,          \* who makes the reservation
    Kind,           \* its ticket type
    Asked,          \* its number of tickets
    HoldOf,         \* the reservation an order pays for
    Quantity,       \* tickets of each type
    Letters,        \* bound: release messages
    About,          \* the reservation a release message is about
    First,          \* the one published when the reservation is made
    Payable,        \* types that belong to a session (getSePayConfig)
    ReservationTTL, \* life of a reservation key, and delay of its release
    ProcessingTTL,  \* life of the key that says a payment is under way
    ContextTTL,     \* life of the key without which an order cannot be paid
    Requeue,        \* delay of a release message put back
    MaxRetry,       \* times it is put back because a payment is under way
    PendingLimit,   \* age at which a pending order is cancelled
    Lookback,       \* age at which the consumer no longer sees an order
    MaxLate,        \* bound: how late a due release message is handled
    MaxFaults,      \* bound: crashes and lost publishes
    Slow            \* TRUE: time may pass inside a request handler

ASSUME BookingAssumption ==
    /\ IsFiniteSet(Holds)
    /\ Buyer \in [Holds -> Users] /\ Kind \in [Holds -> Types]
    /\ Asked \in [Holds -> Nat \ {0}]
    /\ HoldOf \in [Orders -> Holds]
    /\ Quantity \in [Types -> Nat]
    /\ About \in [Letters -> Holds] /\ First \in [Holds -> Letters]
    /\ \A h \in Holds : About[First[h]] = h
    /\ Payable \subseteq Types
    /\ ReservationTTL \in Nat \ {0} /\ ProcessingTTL \in Nat \ {0}
    /\ ContextTTL \in Nat \ {0} /\ Requeue \in Nat \ {0}
    /\ MaxRetry \in Nat /\ MaxLate \in Nat /\ MaxFaults \in Nat
    /\ PendingLimit \in Nat /\ Lookback \in Nat
    /\ ContextTTL < PendingLimit /\ PendingLimit <= Lookback
    /\ Slow \in BOOLEAN

VARIABLES
    synced,       \* types whose ticket_stock key exists
    stock,        \* its value
    sold,         \* ticket-types.sold
    reservation,  \* remaining life of the key reservation:user:type, per hold
    processing,   \* remaining life of booking:processing:user:type
    message,      \* where each release message is
    delay,        \* time left until it is handled at the latest
    retry,        \* its retryCount
    victim,       \* the order its handler is about to cancel
    credits,      \* times the tickets of the hold went back to the stock
    status,       \* of an order
    age,          \* of an order, counted up to Lookback
    newest,       \* the order each user created last
    context,      \* remaining life of order_context:code
    initiating,   \* where the initiatePayment call that creates the order is
    web,          \* where each webhook delivery is
    tickets,      \* tickets issued for an order
    faults        \* crashes and lost publishes so far

stockVars   == <<synced, stock, sold>>
keyVars     == <<reservation, processing>>
messageVars == <<message, delay, retry, victim, credits>>
orderVars   == <<status, age, newest, context, tickets>>
vars == <<stockVars, keyVars, messageVars, orderVars, initiating, web, faults>>

-----------------------------------------------------------------------------
(* Types *)

\* A message is free until it is published, waits in the delayed exchange
\* ("queued"), is being handled, or is gone: the hold was found paid ("kept"),
\* its tickets went back ("returned"), or a fault lost the message.
MessageState == {"free", "queued", "unpaid", "cancelling", "returning", "credited",
                 "retried", "postponed", "kept", "returned", "lost"}

\* Published once more, with one more or as many retries, and not acknowledged.
Again == {"retried", "postponed"}
Handling == {"unpaid", "cancelling", "returning", "credited"} \cup Again

\* "none": no such row in the table.
Status == {"none", "PENDING", "COMPLETED", "CANCELLED"}

InitiateState == {"idle", "read", "marked", "saved"}
WebState == {"idle", "checked", "paid", "unreserved", "unmarked"}

TypeOK ==
    /\ synced \subseteq Types
    /\ stock \in [Types -> Nat] /\ sold \in [Types -> Nat]
    /\ reservation \in [Holds -> 0..ReservationTTL]
    /\ processing \in [Users -> [Types -> 0..ProcessingTTL]]
    /\ message \in [Letters -> MessageState]
    /\ delay \in [Letters -> Nat] /\ retry \in [Letters -> 0..MaxRetry]
    /\ victim \in [Letters -> SUBSET Orders] /\ credits \in [Holds -> Nat]
    /\ status \in [Orders -> Status] /\ age \in [Orders -> 0..Lookback]
    /\ newest \in [Users -> SUBSET Orders]
    /\ context \in [Orders -> 0..ContextTTL]
    /\ initiating \in [Orders -> InitiateState]
    /\ web \in [Orders -> [Calls -> WebState]]
    /\ tickets \in [Orders -> Nat]
    /\ faults \in Nat

\* Ticket types have just been created: nothing sold, no key in Redis.
Init ==
    /\ synced = {}
    /\ stock = [t \in Types |-> 0] /\ sold = [t \in Types |-> 0]
    /\ reservation = [h \in Holds |-> 0]
    /\ processing = [u \in Users |-> [t \in Types |-> 0]]
    /\ message = [m \in Letters |-> "free"]
    /\ delay = [m \in Letters |-> 0] /\ retry = [m \in Letters |-> 0]
    /\ victim = [m \in Letters |-> {}] /\ credits = [h \in Holds |-> 0]
    /\ status = [o \in Orders |-> "none"] /\ age = [o \in Orders |-> 0]
    /\ newest = [u \in Users |-> {}]
    /\ context = [o \in Orders |-> 0]
    /\ initiating = [o \in Orders |-> "idle"]
    /\ web = [o \in Orders |-> [c \in Calls |-> "idle"]]
    /\ tickets = [o \in Orders |-> 0]
    /\ faults = 0

Fault == faults < MaxFaults /\ faults' = faults + 1

OrderBuyer(o) == Buyer[HoldOf[o]]
OrderKind(o) == Kind[HoldOf[o]]

\* Whether the reservation has been made.
Made(h) == message[First[h]] # "free"

-----------------------------------------------------------------------------
(* reserveTicket *)

\* syncStockToRedis, on start and when a reservation finds no key: SETNX of
\* quantity - sold for every type.
Sync ==
    /\ synced # Types
    /\ synced' = Types
    /\ stock' = [t \in Types |-> IF t \in synced THEN stock[t] ELSE Quantity[t] - sold[t]]
    /\ UNCHANGED <<sold, keyVars, messageVars, orderVars, initiating, web, faults>>

\* What KEYS reservation:user:* answers.  The client puts its key prefix
\* before keys, not before patterns, and no key starts with the bare word.
MatchingKeys(u) == {}

SameKey(h, g) == Buyer[h] = Buyer[g] /\ Kind[h] = Kind[g]

\* The script: no live reservation of the same user and type, enough stock.
Reserve(h) ==
    /\ ~Made(h)
    /\ Cardinality(MatchingKeys(Buyer[h])) < 3
    /\ \A g \in Holds : SameKey(h, g) => reservation[g] = 0
    /\ Kind[h] \in synced
    /\ stock[Kind[h]] >= Asked[h]
    /\ stock' = [stock EXCEPT ![Kind[h]] = @ - Asked[h]]
    /\ reservation' = [reservation EXCEPT ![h] = ReservationTTL]
    /\ UNCHANGED <<synced, sold, processing, retry, victim, credits, orderVars,
                   initiating, web>>

\* Mutant: the message is due before the reservation expires.
ReserveGrantedEarly(h) ==
    /\ Reserve(h)
    /\ message' = [message EXCEPT ![First[h]] = "queued"]
    /\ delay' = [delay EXCEPT ![First[h]] = ReservationTTL - 1 + MaxLate]
    /\ UNCHANGED faults

ReserveGranted(h) ==
    /\ Reserve(h)
    /\ message' = [message EXCEPT ![First[h]] = "queued"]
    /\ delay' = [delay EXCEPT ![First[h]] = ReservationTTL + MaxLate]
    /\ UNCHANGED faults

\* The process dies before the publish, or the publish, which is not awaited,
\* fails after the try block has been left: nothing will release the hold.
ReserveLost(h) ==
    /\ Reserve(h)
    /\ Fault
    /\ message' = [message EXCEPT ![First[h]] = "lost"]
    /\ UNCHANGED delay

-----------------------------------------------------------------------------
(* initiatePayment.  A type without a session has no organizer to pay to:  *)
(* the call throws before it changes anything.                             *)

InitiateRead(o) ==
    /\ status[o] = "none" /\ initiating[o] = "idle"
    /\ reservation[HoldOf[o]] > 0
    /\ OrderKind(o) \in Payable
    /\ initiating' = [initiating EXCEPT ![o] = "read"]
    /\ UNCHANGED <<stockVars, keyVars, messageVars, orderVars, web, faults>>

InitiateMark(o) ==
    /\ initiating[o] = "read"
    /\ processing' = [processing EXCEPT ![OrderBuyer(o)][OrderKind(o)] = ProcessingTTL]
    /\ initiating' = [initiating EXCEPT ![o] = "marked"]
    /\ UNCHANGED <<stockVars, reservation, messageVars, orderVars, web, faults>>

\* The transaction that inserts the order commits.
InitiateCommit(o) ==
    /\ initiating[o] = "marked"
    /\ status' = [status EXCEPT ![o] = "PENDING"]
    /\ newest' = [newest EXCEPT ![OrderBuyer(o)] = {o}]
    /\ initiating' = [initiating EXCEPT ![o] = "saved"]
    /\ UNCHANGED <<stockVars, keyVars, messageVars, age, context, tickets, web, faults>>

InitiateContext(o) ==
    /\ initiating[o] = "saved"
    /\ context' = [context EXCEPT ![o] = ContextTTL]
    /\ initiating' = [initiating EXCEPT ![o] = "idle"]
    /\ UNCHANGED <<stockVars, keyVars, messageVars, status, age, newest, tickets, web,
                   faults>>

\* The transaction fails: rolled back, and the payment is no longer under way.
InitiateFail(o) ==
    /\ Fault
    /\ initiating[o] = "marked"
    /\ processing' = [processing EXCEPT ![OrderBuyer(o)][OrderKind(o)] = 0]
    /\ initiating' = [initiating EXCEPT ![o] = "idle"]
    /\ UNCHANGED <<stockVars, reservation, messageVars, orderVars, web>>

\* The process dies; an order saved without its context can never be paid.
InitiateCrash(o) ==
    /\ Fault
    /\ initiating[o] # "idle"
    /\ initiating' = [initiating EXCEPT ![o] = "idle"]
    /\ UNCHANGED <<stockVars, keyVars, messageVars, orderVars, web>>

-----------------------------------------------------------------------------
(* finalizePaymentWebhook, for a transfer that names the order, carries    *)
(* the organizer's key and is large enough; the others change nothing.     *)

WebStep(o, c, from, to) ==
    /\ web[o][c] = from
    /\ web' = [web EXCEPT ![o][c] = to]

\* Mutant: the status of the order is not looked at.
WebhookCheckAgain(o, c) ==
    /\ status[o] # "none"
    /\ context[o] > 0
    /\ WebStep(o, c, "idle", "checked")
    /\ UNCHANGED <<stockVars, keyVars, messageVars, orderVars, initiating, faults>>

\* Mutant: the context is not asked for.
WebhookCheckLate(o, c) ==
    /\ status[o] \in {"PENDING", "CANCELLED"}
    /\ WebStep(o, c, "idle", "checked")
    /\ UNCHANGED <<stockVars, keyVars, messageVars, orderVars, initiating, faults>>

\* The order is not COMPLETED (it may well be CANCELLED) and its context lives.
WebhookCheck(o, c) ==
    /\ status[o] \in {"PENDING", "CANCELLED"}
    /\ context[o] > 0
    /\ WebStep(o, c, "idle", "checked")
    /\ UNCHANGED <<stockVars, keyVars, messageVars, orderVars, initiating, faults>>

\* The transaction: order, tickets and counter.
WebhookCommit(o, c) ==
    /\ WebStep(o, c, "checked", "paid")
    /\ status' = [status EXCEPT ![o] = "COMPLETED"]
    /\ tickets' = [tickets EXCEPT ![o] = @ + Asked[HoldOf[o]]]
    /\ sold' = [sold EXCEPT ![OrderKind(o)] = @ + Asked[HoldOf[o]]]
    /\ UNCHANGED <<synced, stock, keyVars, messageVars, age, newest, context, initiating,
                   faults>>

\* The three DELs.  The first deletes whatever reservation the user has of
\* the type, which need not be the one that was paid.
WebhookUnreserve(o, c) ==
    /\ WebStep(o, c, "paid", "unreserved")
    /\ reservation' =
          [h \in Holds |-> IF SameKey(h, HoldOf[o]) THEN 0 ELSE reservation[h]]
    /\ UNCHANGED <<stockVars, processing, messageVars, orderVars, initiating, faults>>

WebhookUnmark(o, c) ==
    /\ WebStep(o, c, "unreserved", "unmarked")
    /\ processing' = [processing EXCEPT ![OrderBuyer(o)][OrderKind(o)] = 0]
    /\ UNCHANGED <<stockVars, reservation, messageVars, orderVars, initiating, faults>>

WebhookForget(o, c) ==
    /\ WebStep(o, c, "unmarked", "idle")
    /\ context' = [context EXCEPT ![o] = 0]
    /\ UNCHANGED <<stockVars, keyVars, messageVars, status, age, newest, tickets,
                   initiating, faults>>

\* The process dies, or the transaction fails and is rolled back.
WebhookCrash(o, c) ==
    /\ Fault
    /\ web[o][c] # "idle"
    /\ web' = [web EXCEPT ![o][c] = "idle"]
    /\ UNCHANGED <<stockVars, keyVars, messageVars, orderVars, initiating>>

-----------------------------------------------------------------------------
(* handleReleaseTicket *)

\* The broker delivers a message when its delay is over; the handler may be
\* down or busy for another MaxLate units of time.
Due(m) == message[m] = "queued" /\ delay[m] <= MaxLate

\* The message is published once more.  publish is not awaited: a fault may
\* lose the new message while the handled one is acknowledged.
PutBack(m, again) ==
    \/ /\ message' = [message EXCEPT ![m] = again]
       /\ UNCHANGED faults
    \/ /\ Fault
       /\ message' = [message EXCEPT ![m] = "lost"]

UnderWay(m) == processing[Buyer[About[m]]][Kind[About[m]]] > 0 /\ retry[m] < MaxRetry

ReleaseRetry(m) ==
    /\ Due(m)
    /\ UnderWay(m)
    /\ PutBack(m, "retried")
    /\ UNCHANGED <<stockVars, keyVars, delay, retry, victim, credits, orderVars, initiating,
                   web>>

ReleaseStart(m) ==
    /\ Due(m)
    /\ ~UnderWay(m)
    /\ message' = [message EXCEPT ![m] = "unpaid"]
    /\ UNCHANGED <<stockVars, keyVars, delay, retry, victim, credits, orderVars, initiating,
                   web, faults>>

\* Mutant: the consumer looks back only as far as it lets an order be pending.
RecentOrderShort(u) == {o \in newest[u] : age[o] < PendingLimit}

\* The user's newest order, of whatever ticket type, if not too old.
RecentOrder(u) == {o \in newest[u] : age[o] < Lookback}

\* It is completed: the tickets stay sold.
ReleaseKeep(m) ==
    /\ message[m] = "unpaid"
    /\ \E o \in RecentOrder(Buyer[About[m]]) : status[o] = "COMPLETED"
    /\ message' = [message EXCEPT ![m] = "kept"]
    /\ UNCHANGED <<stockVars, keyVars, delay, retry, victim, credits, orderVars, initiating,
                   web, faults>>

\* Mutant: the message is dropped while the order is pending.
ReleasePostponeForget(m) ==
    /\ message[m] = "unpaid"
    /\ \E o \in RecentOrder(Buyer[About[m]]) : status[o] = "PENDING" /\ age[o] < PendingLimit
    /\ message' = [message EXCEPT ![m] = "lost"]
    /\ UNCHANGED <<stockVars, keyVars, delay, retry, victim, credits, orderVars, initiating,
                   web, faults>>

\* It is pending and young: look again later.
ReleasePostpone(m) ==
    /\ message[m] = "unpaid"
    /\ \E o \in RecentOrder(Buyer[About[m]]) : status[o] = "PENDING" /\ age[o] < PendingLimit
    /\ PutBack(m, "postponed")
    /\ UNCHANGED <<stockVars, keyVars, delay, retry, victim, credits, orderVars, initiating,
                   web>>

\* Mutant: a pending order is cancelled whatever its age.
ReleaseExpireYoung(m) ==
    /\ message[m] = "unpaid"
    /\ \E o \in RecentOrder(Buyer[About[m]]) :
          /\ status[o] = "PENDING"
          /\ victim' = [victim EXCEPT ![m] = {o}]
    /\ message' = [message EXCEPT ![m] = "cancelling"]
    /\ UNCHANGED <<stockVars, keyVars, delay, retry, credits, orderVars, initiating, web,
                   faults>>

\* It has been pending for too long: it is going to be cancelled ...
ReleaseExpire(m) ==
    /\ message[m] = "unpaid"
    /\ \E o \in RecentOrder(Buyer[About[m]]) :
          /\ status[o] = "PENDING" /\ age[o] >= PendingLimit
          /\ victim' = [victim EXCEPT ![m] = {o}]
    /\ message' = [message EXCEPT ![m] = "cancelling"]
    /\ UNCHANGED <<stockVars, keyVars, delay, retry, credits, orderVars, initiating, web,
                   faults>>

\* Mutant: the wrong one of the two final states.
ReleaseCancelRefunded(m) ==
    /\ message[m] = "cancelling"
    /\ status' = [o \in Orders |-> IF o \in victim[m] THEN "REFUNDED" ELSE status[o]]
    /\ victim' = [victim EXCEPT ![m] = {}]
    /\ message' = [message EXCEPT ![m] = "returning"]
    /\ UNCHANGED <<stockVars, keyVars, delay, retry, credits, age, newest, context, tickets,
                   initiating, web, faults>>

\* ... with an UPDATE by id that does not look at the status again.
ReleaseCancel(m) ==
    /\ message[m] = "cancelling"
    /\ status' = [o \in Orders |-> IF o \in victim[m] THEN "CANCELLED" ELSE status[o]]
    /\ victim' = [victim EXCEPT ![m] = {}]
    /\ message' = [message EXCEPT ![m] = "returning"]
    /\ UNCHANGED <<stockVars, keyVars, delay, retry, credits, age, newest, context, tickets,
                   initiating, web, faults>>

\* There is no recent order, or it was cancelled before.
ReleaseUnpaid(m) ==
    /\ message[m] = "unpaid"
    /\ \A o \in RecentOrder(Buyer[About[m]]) : status[o] = "CANCELLED"
    /\ message' = [message EXCEPT ![m] = "returning"]
    /\ UNCHANGED <<stockVars, keyVars, delay, retry, victim, credits, orderVars, initiating,
                   web, faults>>

\* INCRBY; then the waiting room is told (module WaitingRoom).
ReleaseReturn(m) ==
    /\ message[m] = "returning"
    /\ stock' = [stock EXCEPT ![Kind[About[m]]] = @ + Asked[About[m]]]
    /\ credits' = [credits EXCEPT ![About[m]] = @ + 1]
    /\ message' = [message EXCEPT ![m] = "credited"]
    /\ UNCHANGED <<synced, sold, keyVars, delay, retry, victim, orderVars, initiating, web,
                   faults>>

ReleaseAck(m) ==
    /\ message[m] = "credited"
    /\ message' = [message EXCEPT ![m] = "returned"]
    /\ UNCHANGED <<stockVars, keyVars, delay, retry, victim, credits, orderVars, initiating,
                   web, faults>>

\* The handler dies or throws and the broker delivers the message once more.
ReleaseCrash(m) ==
    /\ Fault
    /\ message[m] \in Handling \ Again
    /\ message' = [message EXCEPT ![m] = "queued"]
    /\ victim' = [victim EXCEPT ![m] = {}]
    /\ UNCHANGED <<stockVars, keyVars, delay, retry, credits, orderVars, initiating, web>>

\* retryCount of the message published in place of m.
NextRetry(m) == IF message[m] = "retried" THEN retry[m] + 1 ELSE retry[m]

\* The handled message is acknowledged; from now on m is the new one.
AgainAck(m) ==
    /\ message[m] \in Again
    /\ message' = [message EXCEPT ![m] = "queued"]
    /\ delay' = [delay EXCEPT ![m] = Requeue + MaxLate]
    /\ retry' = [retry EXCEPT ![m] = NextRetry(m)]
    /\ UNCHANGED <<stockVars, keyVars, victim, credits, orderVars, initiating, web, faults>>

\* The process dies before it can be acknowledged: the broker has both, the
\* handled message to deliver once more and the new one, which gets a name.
AgainCrash(m) ==
    /\ Fault
    /\ message[m] \in Again
    /\ \E n \in Letters :
          /\ About[n] = About[m] /\ message[n] = "free"
          /\ message' = [message EXCEPT ![m] = "queued", ![n] = "queued"]
          /\ delay' = [delay EXCEPT ![n] = Requeue + MaxLate]
          /\ retry' = [retry EXCEPT ![n] = NextRetry(m)]
    /\ UNCHANGED <<stockVars, keyVars, victim, credits, orderVars, initiating, web>>

-----------------------------------------------------------------------------
(* Time *)

Prompt ==
    /\ \A o \in Orders : initiating[o] = "idle"
    /\ \A o \in Orders, c \in Calls : web[o][c] = "idle"
    /\ \A m \in Letters : message[m] \notin Handling

Down(n) == IF n = 0 THEN 0 ELSE n - 1
Aged(n) == IF n < Lookback THEN n + 1 ELSE n

\* Handlers take less than one unit of time, unless Slow.
Tick ==
    /\ Slow \/ Prompt
    /\ \A m \in Letters : message[m] = "queued" => delay[m] > 0
    /\ reservation' = [h \in Holds |-> Down(reservation[h])]
    /\ processing' = [u \in Users |-> [t \in Types |-> Down(processing[u][t])]]
    /\ delay' = [m \in Letters |-> Down(delay[m])]
    /\ age' = [o \in Orders |-> IF status[o] = "none" THEN 0 ELSE Aged(age[o])]
    /\ context' = [o \in Orders |-> Down(context[o])]
    /\ UNCHANGED <<stockVars, message, retry, victim, credits, status, newest, tickets,
                   initiating, web, faults>>

-----------------------------------------------------------------------------

Reserving(h) == ReserveGranted(h) \/ ReserveLost(h)

Initiate(o) ==
    \/ InitiateRead(o)
    \/ InitiateMark(o)
    \/ InitiateCommit(o)
    \/ InitiateContext(o)
    \/ InitiateFail(o)
    \/ InitiateCrash(o)

Webhook(o, c) ==
    \/ WebhookCheck(o, c)
    \/ WebhookCommit(o, c)
    \/ WebhookUnreserve(o, c)
    \/ WebhookUnmark(o, c)
    \/ WebhookForget(o, c)
    \/ WebhookCrash(o, c)

Release(m) ==
    \/ ReleaseRetry(m)
    \/ ReleaseStart(m)
    \/ ReleaseKeep(m)
    \/ ReleasePostpone(m)
    \/ ReleaseExpire(m)
    \/ ReleaseCancel(m)
    \/ ReleaseUnpaid(m)
    \/ ReleaseReturn(m)
    \/ ReleaseAck(m)
    \/ AgainAck(m)

Delivery(m) == Release(m) \/ ReleaseCrash(m) \/ AgainCrash(m)

Next ==
    \/ Sync
    \/ Tick
    \/ \E h \in Holds : Reserving(h)
    \/ \E m \in Letters : Delivery(m)
    \/ \E o \in Orders : Initiate(o) \/ \E c \in Calls : Webhook(o, c)

Spec == Init /\ [][Next]_vars

\* Time passes, RabbitMQ delivers what is due, a request that has begun goes
\* on to its end.  Nobody is made to reserve or to pay.
Fairness ==
    /\ WF_vars(Tick)
    /\ \A m \in Letters : WF_vars(Release(m))
    /\ \A o \in Orders :
          /\ WF_vars(InitiateMark(o) \/ InitiateCommit(o) \/ InitiateContext(o))
          /\ \A c \in Calls :
                WF_vars(WebhookCommit(o, c) \/ WebhookUnreserve(o, c)
                          \/ WebhookUnmark(o, c) \/ WebhookForget(o, c))

FairSpec == Spec /\ Fairness

-----------------------------------------------------------------------------
(* Properties *)

Returned(h) == credits[h] > 0

\* A reservation that its user can still pay for has its tickets taken out of
\* the stock: the release message is never handled to its end before the
\* reservation key has gone.
ReservedIsHeld == \A h \in Holds : reservation[h] > 0 => ~Returned(h)

\* No order is completed once the tickets it pays for went back on sale,
\* although the webhook looks neither at the reservation nor at the stock and
\* accepts a CANCELLED order: by then its context has expired.
NoSaleAfterReturn ==
    [][\A o \in Orders :
          status[o] # "COMPLETED" /\ status'[o] = "COMPLETED" => ~Returned(HoldOf[o])]_vars

\* A decided order stays as it is: neither the webhook revives one that the
\* release consumer cancelled, nor does the consumer, which updates by id what
\* it read earlier, cancel one that was paid in between.
DecisionStands ==
    [][\A o \in Orders : status[o] \in {"COMPLETED", "CANCELLED"} => status'[o] = status[o]]_vars

\* What is sold and what is still on sale never exceed what there is.
NoOversell == \A t \in synced : sold[t] + stock[t] <= Quantity[t]

\* A paid order has its tickets, once, however often the webhook is repeated
\* and wherever an earlier delivery died.
TicketsMatchOrder ==
    \A o \in Orders :
        tickets[o] = IF status[o] = "COMPLETED" THEN Asked[HoldOf[o]] ELSE 0

PaidFor(h) == \E o \in Orders : HoldOf[o] = h /\ status[o] = "COMPLETED"

\* The tickets of every hold are paid for or come back on sale.
HoldSettled ==
    \A h \in Holds : Made(h) ~> (PaidFor(h) \/ Returned(h))

\* Buyers who reserve once and pay with one order are served as by the box
\* office of BoxOffice, although the webhook, the release message and the keys
\* know nothing of each other: whatever is held is sold or put back, once.
FateOf(h) ==
    IF PaidFor(h) THEN "sold"
    ELSE IF Returned(h) THEN "back"
    ELSE IF Made(h) THEN "held" ELSE "free"

Box == INSTANCE BoxOffice WITH onSale <- synced, fate <- [h \in Holds |-> FateOf(h)]

ImplementsBoxOffice == Box!BoxSpec

\* What the release consumer says of a completed order: its tickets are kept.
PaidHoldKept == [][\A h \in Holds : PaidFor(h) => credits'[h] = credits[h]]_vars

=============================================================================
