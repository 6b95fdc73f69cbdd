---------------------------- MODULE Cancellation ----------------------------
(***************************************************************************)
(* Cancelling ONE published event: the organizer's request, the admin's    *)
(* decision (EventsService.cancelRequest, AdminService.approveCancellation)*)
(* and BatchRefundConsumer, which refunds the orders chunk by chunk while  *)
(* customers go on paying and gates go on checking tickets in.             *)
(*                                                                         *)
(* An order stands for its tickets; a row is named by its place in the     *)
(* order of the primary key, by which skip() and take() page.              *)
(***************************************************************************)
EXTENDS Naturals, FiniteSets

CONSTANTS
    Orders,      \* bound: orders for the event, in the order of their keys
    PaidBefore,  \* those paid before anything happens here
    Admins,      \* admins who may review the request
    Messages,    \* bound: refund messages in flight
    Gates,       \* check-in requests under way
    ChunkSize,   \* ORDER_CHUNK_SIZE
    MaxFaults    \* bound: crashes and lost publishes

ASSUME CancellationAssumption ==
    /\ IsFiniteSet(Orders) /\ Orders \subseteq Nat
    /\ PaidBefore \subseteq Orders
    /\ ChunkSize \in Nat \ {0}
    /\ MaxFaults \in Nat

VARIABLES
    event,     \* status of the event
    closed,    \* endSellDate has been set to now
    request,   \* status of its cancel request
    review,    \* where each admin's approveCancellation call is
    chunk,     \* the refund messages in flight, and how far their handlers are
    order,     \* status of each order
    ticket,    \* status of its tickets
    gate,      \* the order whose ticket a check-in has read, if any
    faults     \* crashes and lost publishes so far

eventVars == <<event, closed, request>>
orderVars == <<order, ticket>>
vars == <<eventVars, review, chunk, orderVars, gate, faults>>

-----------------------------------------------------------------------------

ReviewState == {"idle", "read", "approved", "closed"}
ChunkStep == {"none", "queued", "read", "refunded", "voided", "done"}
Handling == {"read", "refunded", "voided", "done"}
NoMessage == [step |-> "none", offset |-> 0, page |-> {}]

TypeOK ==
    /\ event \in {"UPCOMING", "CANCELLED"} /\ closed \in BOOLEAN
    /\ request \in {"none", "PENDING", "APPROVED", "REJECTED"}
    /\ review \in [Admins -> ReviewState]
    /\ chunk \in [Messages -> [step: ChunkStep, offset: Nat, page: SUBSET Orders]]
    /\ order \in [Orders -> {"none", "PENDING", "COMPLETED", "REFUNDED"}]
    /\ ticket \in [Orders -> {"none", "UNCHECKED", "CHECKED_IN", "CANCELLED"}]
    /\ gate \in [Gates -> SUBSET Orders]
    /\ faults \in Nat

Init ==
    /\ event = "UPCOMING" /\ closed = FALSE /\ request = "none"
    /\ review = [a \in Admins |-> "idle"]
    /\ chunk = [m \in Messages |-> NoMessage]
    /\ order = [o \in Orders |-> IF o \in PaidBefore THEN "COMPLETED" ELSE "none"]
    /\ ticket = [o \in Orders |-> IF o \in PaidBefore THEN "UNCHECKED" ELSE "none"]
    /\ gate = [g \in Gates |-> {}]
    /\ faults = 0

Fault == faults < MaxFaults /\ faults' = faults + 1

-----------------------------------------------------------------------------
(* The request and its review                                              *)

\* The code asks for no PENDING request; the unique constraint on event_id
\* refuses a second row even after a rejection.
CancelRequest ==
    /\ event = "UPCOMING"
    /\ request = "none"
    /\ request' = "PENDING"
    /\ UNCHANGED <<event, closed, review, chunk, orderVars, gate, faults>>

ReviewRead(a) ==
    /\ review[a] = "idle"
    /\ request = "PENDING"
    /\ review' = [review EXCEPT ![a] = "read"]
    /\ UNCHANGED <<eventVars, chunk, orderVars, gate, faults>>

ReviewReject(a) ==
    /\ review[a] = "read"
    /\ request' = "REJECTED"
    /\ review' = [review EXCEPT ![a] = "idle"]
    /\ UNCHANGED <<event, closed, chunk, orderVars, gate, faults>>

ReviewApprove(a) ==
    /\ review[a] = "read"
    /\ request' = "APPROVED"
    /\ review' = [review EXCEPT ![a] = "approved"]
    /\ UNCHANGED <<event, closed, chunk, orderVars, gate, faults>>

ReviewClose(a) ==
    /\ review[a] = "approved"
    /\ closed' = TRUE
    /\ review' = [review EXCEPT ![a] = "closed"]
    /\ UNCHANGED <<event, request, chunk, orderVars, gate, faults>>

Free(m) == chunk[m].step = "none"
Queued(offset) == [step |-> "queued", offset |-> offset, page |-> {}]

\* The first chunk is published; nobody waits for the broker to confirm.
ReviewPublish(a) ==
    /\ review[a] = "closed"
    /\ review' = [review EXCEPT ![a] = "idle"]
    /\ \/ /\ \E m \in Messages : Free(m) /\ chunk' = [chunk EXCEPT ![m] = Queued(0)]
          /\ UNCHANGED faults
       \/ Fault /\ UNCHANGED chunk
    /\ UNCHANGED <<eventVars, orderVars, gate>>

ReviewCrash(a) ==
    /\ Fault
    /\ review[a] # "idle"
    /\ review' = [review EXCEPT ![a] = "idle"]
    /\ UNCHANGED <<eventVars, chunk, orderVars, gate>>

-----------------------------------------------------------------------------
(* handleBatchRefund                                                       *)

Completed == {o \in Orders : order[o] = "COMPLETED"}

\* skip(offset).take(ORDER_CHUNK_SIZE) of the orders in `rows`.
Page(rows, offset) ==
    {o \in rows : LET before == Cardinality({p \in rows : p < o})
                  IN offset <= before /\ before < offset + ChunkSize}

ChunkMoves(a, from, to) ==
    /\ chunk[a].step = from
    /\ chunk' = [chunk EXCEPT ![a].step = to]

ChunkRead(m) ==
    /\ chunk[m].step = "queued"
    /\ chunk' = [chunk EXCEPT ![m].step = "read",
                              ![m].page = Page(Completed, chunk[m].offset)]
    /\ UNCHANGED <<eventVars, review, orderVars, gate, faults>>

ChunkRefund(m) ==
    /\ ChunkMoves(m, "read", "refunded")
    /\ order' = [o \in Orders |-> IF o \in chunk[m].page THEN "REFUNDED" ELSE order[o]]
    /\ UNCHANGED <<eventVars, review, ticket, gate, faults>>

\* Mutant: the tickets are left alone.
ChunkVoidNothing(m) ==
    /\ ChunkMoves(m, "refunded", "voided")
    /\ UNCHANGED <<eventVars, review, orderVars, gate, faults>>

ChunkVoid(m) ==
    /\ ChunkMoves(m, "refunded", "voided")
    /\ ticket' = [o \in Orders |->
                    IF o \in chunk[m].page /\ ticket[o] = "UNCHECKED" THEN "CANCELLED"
                    ELSE ticket[o]]
    /\ UNCHANGED <<eventVars, review, order, gate, faults>>

\* Mutant: nothing is published after a full chunk.
ChunkNextSilent(m) ==
    /\ ChunkMoves(m, "voided", "done")
    /\ Cardinality(chunk[m].page) >= ChunkSize
    /\ UNCHANGED <<eventVars, review, orderVars, gate, faults>>

\* A full chunk: the next one is published, skipping as many rows.
ChunkNext(m) ==
    /\ chunk[m].step = "voided"
    /\ Cardinality(chunk[m].page) >= ChunkSize
    /\ \/ /\ \E n \in Messages :
                /\ Free(n)
                /\ chunk' = [chunk EXCEPT ![m].step = "done",
                                         ![n] = Queued(chunk[m].offset + ChunkSize)]
          /\ UNCHANGED faults
       \/ Fault /\ chunk' = [chunk EXCEPT ![m].step = "done"]
    /\ UNCHANGED <<eventVars, review, orderVars, gate>>

\* Mutant: the event is marked before the last chunk is worked off.
ChunkLastFirst(m) ==
    /\ chunk[m].step = "read"
    /\ Cardinality(chunk[m].page) < ChunkSize
    /\ event' = "CANCELLED"
    /\ UNCHANGED <<closed, request, review, chunk, orderVars, gate, faults>>

\* A short one is the last: the event is cancelled.
ChunkLast(m) ==
    /\ ChunkMoves(m, "voided", "done")
    /\ Cardinality(chunk[m].page) < ChunkSize
    /\ event' = "CANCELLED"
    /\ UNCHANGED <<closed, request, review, orderVars, gate, faults>>

ChunkAck(m) ==
    /\ chunk[m].step = "done"
    /\ chunk' = [chunk EXCEPT ![m] = NoMessage]
    /\ UNCHANGED <<eventVars, review, orderVars, gate, faults>>

\* The handler dies or throws; the message is delivered again.
ChunkCrash(m) ==
    /\ Fault
    /\ chunk[m].step \in Handling
    /\ chunk' = [chunk EXCEPT ![m] = Queued(@.offset)]
    /\ UNCHANGED <<eventVars, review, orderVars, gate>>

-----------------------------------------------------------------------------
(* Customers and gates.  Neither reserveTicket, initiatePayment nor the    *)
(* webhook looks at the event.                                             *)

PlaceOrder(o) ==
    /\ order[o] = "none"
    /\ order' = [order EXCEPT ![o] = "PENDING"]
    /\ UNCHANGED <<eventVars, review, chunk, ticket, gate, faults>>

\* Mutant: the ticket gets a status of another enumeration.
PayOrderAvailable(o) ==
    /\ order[o] = "PENDING"
    /\ order' = [order EXCEPT ![o] = "COMPLETED"]
    /\ ticket' = [ticket EXCEPT ![o] = "AVAILABLE"]
    /\ UNCHANGED <<eventVars, review, chunk, gate, faults>>

PayOrder(o) ==
    /\ order[o] = "PENDING"
    /\ order' = [order EXCEPT ![o] = "COMPLETED"]
    /\ ticket' = [ticket EXCEPT ![o] = "UNCHECKED"]
    /\ UNCHANGED <<eventVars, review, chunk, gate, faults>>

\* checkInTicket reads the ticket and validates it ...
CheckInRead(g, o) ==
    /\ gate[g] = {}
    /\ ticket[o] = "UNCHECKED"
    /\ gate' = [gate EXCEPT ![g] = {o}]
    /\ UNCHANGED <<eventVars, review, chunk, orderVars, faults>>

\* ... and saves its new status by id.
CheckInSave(g) ==
    /\ gate[g] # {}
    /\ ticket' = [o \in Orders |-> IF o \in gate[g] THEN "CHECKED_IN" ELSE ticket[o]]
    /\ gate' = [gate EXCEPT ![g] = {}]
    /\ UNCHANGED <<eventVars, review, chunk, order, faults>>

-----------------------------------------------------------------------------

Review(a) ==
    \/ ReviewRead(a)
    \/ ReviewReject(a)
    \/ ReviewApprove(a)
    \/ ReviewClose(a)
    \/ ReviewPublish(a)
    \/ ReviewCrash(a)

Refund(m) ==
    \/ ChunkRead(m)
    \/ ChunkRefund(m)
    \/ ChunkVoid(m)
    \/ ChunkNext(m)
    \/ ChunkLast(m)
    \/ ChunkAck(m)

Next ==
    \/ CancelRequest
    \/ \E a \in Admins : Review(a)
    \/ \E m \in Messages : Refund(m) \/ ChunkCrash(m)
    \/ \E o \in Orders : PlaceOrder(o) \/ PayOrder(o)
    \/ \E g \in Gates : CheckInSave(g) \/ \E o \in Orders : CheckInRead(g, o)

Spec == Init /\ [][Next]_vars

\* A decision that was taken is carried out, RabbitMQ delivers the chunks.
Fairness ==
    /\ \A a \in Admins : WF_vars(ReviewClose(a)) /\ WF_vars(ReviewPublish(a))
    /\ \A m \in Messages : WF_vars(Refund(m))

FairSpec == Spec /\ Fairness

-----------------------------------------------------------------------------
(* Properties *)

InChunk(o) == \E m \in Messages : chunk[m].step \in Handling /\ o \in chunk[m].page

\* A refunded order keeps no ticket that opens a gate, once its chunk is done;
\* a ticket is not cancelled unless its order is refunded.  A crash between
\* the two updates breaks the first half, so it is claimed without faults.
TicketFollowsRefund ==
    \A o \in Orders :
        /\ ticket[o] = "CANCELLED" => order[o] = "REFUNDED"
        /\ order[o] = "REFUNDED" /\ ~InChunk(o) /\ faults = 0 => ticket[o] # "UNCHECKED"

\* An event is cancelled only after an approval, which nobody can take back,
\* and when no refund is still to be made by a message in flight (a message
\* delivered again after a crash may find more orders to refund).
CancelledWhenDone ==
    event = "CANCELLED" =>
        /\ request = "APPROVED"
        /\ faults = 0 => \A m \in Messages : chunk[m].step \in {"none", "done"}

\* An approved cancellation is carried through although customers go on paying.
ApprovedIsCancelled ==
    (request = "APPROVED") ~> (event = "CANCELLED" \/ faults > 0)

\* What BatchRefundConsumer says when it cancels the event: all chunks have
\* been handled, so every order that was paid before has been refunded.
CancelledMeansRefunded ==
    event = "CANCELLED" => \A o \in PaidBefore : order[o] = "REFUNDED"

=============================================================================
