------------------------- MODULE CancellationProofs -------------------------
(***************************************************************************)
(* What holds of Cancellation for all orders, messages, gates, chunk sizes *)
(* and faults.                                                             *)
(***************************************************************************)
EXTENDS Cancellation, FiniteSetTheorems, TLAPS

OneAdmin == \A a, b \in Admins : a = b

\* A chunk still to be worked off.
Active(m) == chunk[m].step \notin {"none", "done"}

Approving(a) == review[a] \in {"approved", "closed"}

\* With one admin, a request that was read is still pending, and all that
\* comes after an approval shows that there was one.
AfterApproval ==
    /\ \A a \in Admins : review[a] = "read" => request = "PENDING"
    /\ \A a \in Admins : Approving(a) => request = "APPROVED"
    /\ \A m \in Messages : chunk[m].step # "none" => request = "APPROVED"
    /\ event = "CANCELLED" => request = "APPROVED"

\* Without faults the refund is in one place: with the admin, in one chunk, or
\* it is over.
OneRefund ==
    faults = 0 =>
        /\ \A m, n \in Messages : Active(m) /\ Active(n) => m = n
        /\ \A a \in Admins : Approving(a) => event # "CANCELLED" /\ \A m \in Messages : ~Active(m)
        /\ event = "CANCELLED" => \A m \in Messages : ~Active(m)

\* The orders of a chunk past its first update are refunded; while one of
\* them has a ticket that opens a gate, the second update is still to come.
PageRefunded ==
    \A m \in Messages : chunk[m].step \in {"refunded", "voided", "done"}
        => \A o \in chunk[m].page : order[o] = "REFUNDED"

VoidComes ==
    \A o \in Orders : order[o] = "REFUNDED" /\ ticket[o] = "UNCHECKED" /\ faults = 0
        => \E m \in Messages : chunk[m].step = "refunded" /\ o \in chunk[m].page

VoidedIsRefunded == \A o \in Orders : ticket[o] = "CANCELLED" => order[o] = "REFUNDED"

TicketInv == TypeOK /\ PageRefunded /\ VoidComes /\ VoidedIsRefunded

-----------------------------------------------------------------------------
(* Types *)

LEMMA CancelTypeInit == Init => TypeOK
  <1> SUFFICES ASSUME Init PROVE TypeOK
    OBVIOUS
  <1>1. chunk \in [Messages -> [step: ChunkStep, offset: Nat, page: SUBSET Orders]]
    <2>1. NoMessage \in [step: ChunkStep, offset: Nat, page: SUBSET Orders]
      BY DEF NoMessage, ChunkStep
    <2> QED BY <2>1 DEF Init
  <1>2. /\ review \in [Admins -> ReviewState] /\ gate \in [Gates -> SUBSET Orders]
        /\ order \in [Orders -> {"none", "PENDING", "COMPLETED", "REFUNDED"}]
        /\ ticket \in [Orders -> {"none", "UNCHECKED", "CHECKED_IN", "CANCELLED"}]
    BY DEF Init, ReviewState
  <1> QED BY <1>1, <1>2 DEF Init, TypeOK

LEMMA PageType == ASSUME NEW rows \in SUBSET Orders, NEW k PROVE Page(rows, k) \in SUBSET Orders
  BY DEF Page

LEMMA CancelTypeNext == TypeOK /\ [Next]_vars => TypeOK'
  <1> SUFFICES ASSUME TypeOK, [Next]_vars PROVE TypeOK'
    OBVIOUS
  <1> USE CancellationAssumption DEF TypeOK, ReviewState, ChunkStep, eventVars, orderVars
  <1>1. CASE CancelRequest
    BY <1>1 DEF CancelRequest
  <1>2. ASSUME NEW a \in Admins, Review(a) PROVE TypeOK'
    <2>1. CASE ReviewRead(a)  BY <2>1 DEF ReviewRead
    <2>2. CASE ReviewReject(a)  BY <2>2 DEF ReviewReject
    <2>3. CASE ReviewApprove(a)  BY <2>3 DEF ReviewApprove
    <2>4. CASE ReviewClose(a)  BY <2>4 DEF ReviewClose
    <2>5. CASE ReviewPublish(a)  BY <2>5 DEF ReviewPublish, Queued, Fault
    <2>6. CASE ReviewCrash(a)  BY <2>6 DEF ReviewCrash, Fault
    <2> QED BY <1>2, <2>1, <2>2, <2>3, <2>4, <2>5, <2>6 DEF Review
  <1>3. ASSUME NEW m \in Messages, Refund(m) \/ ChunkCrash(m) PROVE TypeOK'
    <2>1. CASE ChunkRead(m)
      <3> DEFINE page == Page(Completed, chunk[m].offset)
      <3>1. page \in SUBSET Orders
        BY PageType DEF Completed
      <3>2. chunk' = [chunk EXCEPT ![m].step = "read", ![m].page = page]
        BY <2>1 DEF ChunkRead
      <3> HIDE DEF page
      <3>3. \A n \in Messages : chunk'[n] = IF n = m THEN [chunk[n] EXCEPT !.step = "read", !.page = page]
                                             ELSE chunk[n]
        BY <3>2
      <3>4. chunk'[m] \in [step: ChunkStep, offset: Nat, page: SUBSET Orders]
        BY <3>1, <3>3
      <3>5. chunk' \in [Messages -> [step: ChunkStep, offset: Nat, page: SUBSET Orders]]
        BY <3>2, <3>3, <3>4
      <3> QED BY <2>1, <3>5 DEF ChunkRead
    <2>2. CASE ChunkRefund(m)  BY <2>2 DEF ChunkRefund, ChunkMoves
    <2>3. CASE ChunkVoid(m)  BY <2>3 DEF ChunkVoid, ChunkMoves
    <2>4. CASE ChunkNext(m)  BY <2>4 DEF ChunkNext, Queued, Fault
    <2>5. CASE ChunkLast(m)  BY <2>5 DEF ChunkLast, ChunkMoves
    <2>6. CASE ChunkAck(m)  BY <2>6 DEF ChunkAck, NoMessage
    <2>7. CASE ChunkCrash(m)  BY <2>7 DEF ChunkCrash, Queued, Fault
    <2> QED BY <1>3, <2>1, <2>2, <2>3, <2>4, <2>5, <2>6, <2>7 DEF Refund
  <1>4. ASSUME NEW o \in Orders, PlaceOrder(o) \/ PayOrder(o) PROVE TypeOK'
    BY <1>4 DEF PlaceOrder, PayOrder
  <1>5. ASSUME NEW g \in Gates, CheckInSave(g) PROVE TypeOK'
    BY <1>5 DEF CheckInSave
  <1>6. ASSUME NEW g \in Gates, NEW o \in Orders, CheckInRead(g, o) PROVE TypeOK'
    BY <1>6 DEF CheckInRead
  <1>7. CASE UNCHANGED vars
    BY <1>7 DEF vars
  <1> QED BY <1>1, <1>2, <1>3, <1>4, <1>5, <1>6, <1>7 DEF Next

-----------------------------------------------------------------------------
(* One refund                                                              *)

LEMMA RefundInit == Init => AfterApproval /\ OneRefund
  BY DEF Init, AfterApproval, OneRefund, Approving, Active, NoMessage

\* What neither the admin nor the consumer does leaves the refund alone.
LEMMA RefundStays ==
  ASSUME AfterApproval, OneRefund, UNCHANGED <<eventVars, review, chunk, faults>>
  PROVE  AfterApproval' /\ OneRefund'
  BY DEF eventVars, AfterApproval, OneRefund, Approving, Active

LEMMA RefundNext ==
  ASSUME OneAdmin, TypeOK, AfterApproval, OneRefund, [Next]_vars
  PROVE  AfterApproval' /\ OneRefund'
  <1>t. /\ review \in [Admins -> ReviewState] /\ faults \in Nat
        /\ chunk \in [Messages -> [step: ChunkStep, offset: Nat, page: SUBSET Orders]]
    BY DEF TypeOK
  <1> USE DEF eventVars, AfterApproval, OneRefund, Approving, Active
  <1>1. CASE CancelRequest
    BY <1>1 DEF CancelRequest
  <1>2. ASSUME NEW a \in Admins, Review(a) PROVE AfterApproval' /\ OneRefund'
    <2>a. Admins = {a}
      BY DEF OneAdmin
    <2>1. CASE ReviewRead(a)  BY <2>a, <2>1, <1>t DEF ReviewRead
    <2>2. CASE ReviewReject(a)  BY <2>a, <2>2, <1>t DEF ReviewReject
    <2>3. CASE ReviewApprove(a)  BY <2>a, <2>3, <1>t DEF ReviewApprove
    <2>4. CASE ReviewClose(a)  BY <2>a, <2>4, <1>t DEF ReviewClose
    <2>5. CASE ReviewPublish(a)
      <3>0. /\ review[a] = "closed" /\ review' = [review EXCEPT ![a] = "idle"]
            /\ UNCHANGED <<event, request>>
        BY <2>5 DEF ReviewPublish
      <3>1. \A b \in Admins : review'[b] = "idle"
        BY <2>a, <3>0, <1>t
      <3>2. request = "APPROVED" /\ (faults = 0 => event # "CANCELLED" /\ \A n \in Messages : ~Active(n))
        BY <3>0
      <3>3. CASE \E m \in Messages : Free(m) /\ chunk' = [chunk EXCEPT ![m] = Queued(0)] /\ faults' = faults
        <4>1. PICK m \in Messages : chunk' = [chunk EXCEPT ![m] = Queued(0)]
          BY <3>3
        <4>2. \A n \in Messages : n # m => chunk'[n] = chunk[n]
          BY <4>1, <1>t
        <4> QED BY <3>0, <3>1, <3>2, <3>3, <4>2
      <3>4. CASE Fault /\ UNCHANGED chunk
        BY <3>0, <3>1, <3>2, <3>4, <1>t DEF Fault
      <3> QED BY <2>5, <3>3, <3>4 DEF ReviewPublish
    <2>6. CASE ReviewCrash(a)
      <3>1. faults' # 0 /\ review'[a] = "idle" /\ UNCHANGED <<event, request, chunk>>
        BY <2>6, <1>t DEF ReviewCrash, Fault
      <3> QED BY <2>a, <3>1
    <2> QED BY <1>2, <2>1, <2>2, <2>3, <2>4, <2>5, <2>6 DEF Review
  <1>3. ASSUME NEW m \in Messages, Refund(m) \/ ChunkCrash(m)
        PROVE  AfterApproval' /\ OneRefund'
    <2>r. request = "APPROVED" /\ UNCHANGED <<request, review>>
      <3>1. chunk[m].step # "none"
        BY <1>3 DEF Refund, ChunkRead, ChunkRefund, ChunkVoid, ChunkNext, ChunkLast, ChunkAck,
                    ChunkCrash, ChunkMoves, Handling
      <3> QED BY <3>1, <1>3 DEF Refund, ChunkRead, ChunkRefund, ChunkVoid, ChunkNext, ChunkLast,
                    ChunkAck, ChunkCrash
    <2>1. ASSUME UNCHANGED <<event, faults>>, Active(m),
                 \A n \in Messages : n # m => chunk'[n] = chunk[n]
          PROVE  AfterApproval' /\ OneRefund'
      BY <2>1, <2>r
    <2>2. CASE ChunkRead(m)  BY <2>1, <2>2, <1>t DEF ChunkRead
    <2>3. CASE ChunkRefund(m)  BY <2>1, <2>3, <1>t DEF ChunkRefund, ChunkMoves
    <2>4. CASE ChunkVoid(m)  BY <2>1, <2>4, <1>t DEF ChunkVoid, ChunkMoves
    <2>5. CASE ChunkNext(m)
      <3>0. chunk[m].step = "voided" /\ event' = event
        BY <2>5 DEF ChunkNext
      <3>1. CASE Fault /\ chunk' = [chunk EXCEPT ![m].step = "done"]
        BY <2>r, <3>0, <3>1, <1>t DEF Fault
      <3>2. ASSUME NEW n \in Messages, Free(n), faults' = faults,
                   chunk' = [chunk EXCEPT ![m].step = "done",
                                         ![n] = Queued(chunk[m].offset + ChunkSize)]
            PROVE  AfterApproval' /\ OneRefund'
        <4>1. n # m /\ chunk'[m].step = "done" /\ \A k \in Messages \ {m, n} : chunk'[k] = chunk[k]
          BY <3>0, <3>2, <1>t DEF Free, Queued
        <4>2. faults = 0 => \A k \in Messages \ {m} : ~Active(k)
          BY <3>0
        <4>3. faults = 0 => event # "CANCELLED" /\ \A b \in Admins : ~Approving(b)
          BY <3>0
        <4>4. \A k \in Messages : faults = 0 /\ Active(k)' => k = n
          BY <4>1, <4>2
        <4>5. OneRefund'
          BY <2>r, <3>0, <3>2, <4>3, <4>4
        <4> QED BY <2>r, <3>0, <4>5
      <3> QED BY <2>5, <3>1, <3>2 DEF ChunkNext
    <2>6. CASE ChunkLast(m)
      <3>1. /\ chunk[m].step = "voided" /\ faults' = faults /\ chunk'[m].step = "done"
            /\ \A n \in Messages : n # m => chunk'[n] = chunk[n]
        BY <2>6, <1>t DEF ChunkLast, ChunkMoves
      <3>2. faults = 0 => \A n \in Messages \ {m} : ~Active(n)
        BY <3>1
      <3>3. faults = 0 => \A b \in Admins : ~Approving(b)
        BY <3>1
      <3> QED BY <2>r, <3>1, <3>2, <3>3
    <2>7. CASE ChunkAck(m)  BY <2>r, <2>7, <1>t DEF ChunkAck, NoMessage
    <2>8. CASE ChunkCrash(m)
      <3>1. faults' # 0 /\ event' = event
        BY <2>8, <1>t DEF ChunkCrash, Fault
      <3> QED BY <2>r, <3>1
    <2> QED BY <1>3, <2>2, <2>3, <2>4, <2>5, <2>6, <2>7, <2>8 DEF Refund
  <1>4. CASE UNCHANGED <<eventVars, review, chunk, faults>>
    BY <1>4, RefundStays
  <1>5. \/ CancelRequest
        \/ \E a \in Admins : Review(a)
        \/ \E m \in Messages : Refund(m) \/ ChunkCrash(m)
        \/ UNCHANGED <<eventVars, review, chunk, faults>>
    BY DEF Next, vars, PlaceOrder, PayOrder, CheckInSave, CheckInRead
  <1> QED BY <1>1, <1>2, <1>3, <1>4, <1>5

-----------------------------------------------------------------------------
(* Tickets *)

LEMMA TicketInit == Init => TicketInv
  BY CancelTypeInit DEF Init, TicketInv, PageRefunded, VoidComes, VoidedIsRefunded, NoMessage

LEMMA TicketStays ==
  ASSUME TicketInv, TypeOK', UNCHANGED <<chunk, order, ticket>>, faults' = 0 => faults = 0
  PROVE  TicketInv'
  BY DEF TicketInv, PageRefunded, VoidComes, VoidedIsRefunded

\* What the steps of a chunk but its two updates do to it.
Finishes(m) == /\ chunk[m].step \in {"voided", "done"}
               /\ chunk'[m].step = "done"
               /\ chunk'[m].page = chunk[m].page

StartsAgain(m) == /\ chunk'[m].step \in {"none", "queued"}
                  /\ chunk[m].step = "refunded" => faults' # 0

LEMMA TicketNext == TicketInv /\ [Next]_vars => TicketInv'
  <1> SUFFICES ASSUME TicketInv, [Next]_vars PROVE TicketInv'
    OBVIOUS
  <1>t. /\ chunk \in [Messages -> [step: ChunkStep, offset: Nat, page: SUBSET Orders]]
        /\ order \in [Orders -> {"none", "PENDING", "COMPLETED", "REFUNDED"}]
        /\ ticket \in [Orders -> {"none", "UNCHECKED", "CHECKED_IN", "CANCELLED"}]
        /\ faults \in Nat
    BY DEF TicketInv, TypeOK
  <1>i. PageRefunded /\ VoidComes /\ VoidedIsRefunded
    BY DEF TicketInv
  <1>n. TypeOK'
    BY CancelTypeNext DEF TicketInv
  <1> USE DEF eventVars, orderVars
  <1>1. ASSUME NEW m \in Messages, ChunkRead(m) PROVE TicketInv'
    BY <1>1, <1>t, <1>i, <1>n DEF ChunkRead, TicketInv, PageRefunded, VoidComes, VoidedIsRefunded
  <1>2. ASSUME NEW m \in Messages, ChunkRefund(m) PROVE TicketInv'
    <2>0. /\ chunk' = [chunk EXCEPT ![m].step = "refunded"]
          /\ order' = [o \in Orders |-> IF o \in chunk[m].page THEN "REFUNDED" ELSE order[o]]
          /\ UNCHANGED <<ticket, faults>> /\ chunk[m].step = "read"
      BY <1>2 DEF ChunkRefund, ChunkMoves
    <2>1. PageRefunded'
      BY <2>0, <1>t, <1>i DEF PageRefunded
    <2>2. VoidComes'
      BY <2>0, <1>t, <1>i DEF VoidComes
    <2>3. VoidedIsRefunded'
      BY <2>0, <1>t, <1>i DEF VoidedIsRefunded
    <2> QED BY <2>1, <2>2, <2>3, <1>n DEF TicketInv
  <1>3. ASSUME NEW m \in Messages, ChunkVoid(m) PROVE TicketInv'
    <2>0. /\ chunk[m].step = "refunded" /\ chunk' = [chunk EXCEPT ![m].step = "voided"]
          /\ ticket' = [o \in Orders |->
                          IF o \in chunk[m].page /\ ticket[o] = "UNCHECKED" THEN "CANCELLED"
                          ELSE ticket[o]]
          /\ UNCHANGED <<order, faults>>
      BY <1>3 DEF ChunkVoid, ChunkMoves
    <2>1. PageRefunded'
      BY <2>0, <1>t, <1>i DEF PageRefunded
    <2>2. VoidComes'
      BY <2>0, <1>t, <1>i DEF VoidComes
    <2>3. VoidedIsRefunded'
      BY <2>0, <1>t, <1>i DEF VoidedIsRefunded, PageRefunded
    <2> QED BY <2>1, <2>2, <2>3, <1>n DEF TicketInv
  <1>4. ASSUME UNCHANGED <<order, ticket>>, faults' = 0 => faults = 0,
               \A m \in Messages : chunk'[m] = chunk[m] \/ Finishes(m) \/ StartsAgain(m)
        PROVE  TicketInv'
    <2> USE DEF Finishes, StartsAgain
    <2>1. PageRefunded'
      BY <1>4, <1>i DEF PageRefunded
    <2>2. VoidComes'
      BY <1>4, <1>i DEF VoidComes
    <2>3. VoidedIsRefunded'
      BY <1>4, <1>i DEF VoidedIsRefunded
    <2> QED BY <2>1, <2>2, <2>3, <1>n DEF TicketInv
  <1>5. ASSUME NEW m \in Messages, ChunkNext(m) PROVE TicketInv'
    <2>0. UNCHANGED <<order, ticket>> /\ (faults' = 0 => faults = 0) /\ chunk[m].step = "voided"
      BY <1>5, <1>t DEF ChunkNext, Fault
    <2>1. CASE chunk' = [chunk EXCEPT ![m].step = "done"]
      BY <1>4, <2>0, <2>1, <1>t DEF Finishes
    <2>2. ASSUME NEW n \in Messages, Free(n),
                 chunk' = [chunk EXCEPT ![m].step = "done",
                                       ![n] = Queued(chunk[m].offset + ChunkSize)]
          PROVE  TicketInv'
      BY <1>4, <2>0, <2>2, <1>t DEF Free, Queued, Finishes, StartsAgain
    <2> QED BY <1>5, <2>1, <2>2 DEF ChunkNext
  <1>6. ASSUME NEW m \in Messages, ChunkLast(m) PROVE TicketInv'
    <2>1. /\ UNCHANGED <<order, ticket, faults>> /\ chunk[m].step = "voided"
          /\ chunk' = [chunk EXCEPT ![m].step = "done"]
      BY <1>6 DEF ChunkLast, ChunkMoves
    <2> QED BY <1>4, <2>1, <1>t DEF Finishes
  <1>7. ASSUME NEW m \in Messages, ChunkAck(m) PROVE TicketInv'
    <2>1. /\ UNCHANGED <<order, ticket, faults>> /\ chunk[m].step = "done"
          /\ chunk' = [chunk EXCEPT ![m] = NoMessage]
      BY <1>7 DEF ChunkAck
    <2> QED BY <1>4, <2>1, <1>t DEF NoMessage, StartsAgain
  <1>8. ASSUME NEW m \in Messages, ChunkCrash(m) PROVE TicketInv'
    <2>1. /\ UNCHANGED <<order, ticket>> /\ faults' # 0
          /\ chunk' = [chunk EXCEPT ![m] = Queued(@.offset)]
      BY <1>8, <1>t DEF ChunkCrash, Fault
    <2> QED BY <1>4, <2>1, <1>t DEF Queued, StartsAgain
  <1>9. ASSUME NEW a \in Admins, ReviewPublish(a) PROVE TicketInv'
    <2>0. UNCHANGED <<order, ticket>> /\ (faults' = 0 => faults = 0)
      BY <1>9, <1>t DEF ReviewPublish, Fault
    <2>1. CASE UNCHANGED chunk
      BY <1>4, <2>0, <2>1
    <2>2. ASSUME NEW n \in Messages, Free(n), chunk' = [chunk EXCEPT ![n] = Queued(0)]
          PROVE  TicketInv'
      BY <1>4, <2>0, <2>2, <1>t DEF Free, Queued, Finishes, StartsAgain
    <2> QED BY <1>9, <2>1, <2>2 DEF ReviewPublish
  <1>10. ASSUME NEW a \in Admins, ReviewCrash(a) PROVE TicketInv'
    BY <1>10, <1>t, <1>n, TicketStays DEF ReviewCrash, Fault
  <1>11. ASSUME NEW o \in Orders, PlaceOrder(o) \/ PayOrder(o) PROVE TicketInv'
    BY <1>11, <1>t, <1>i, <1>n
    DEF PlaceOrder, PayOrder, TicketInv, PageRefunded, VoidComes, VoidedIsRefunded
  <1>12. ASSUME NEW g \in Gates, CheckInSave(g) PROVE TicketInv'
    BY <1>12, <1>t, <1>i, <1>n
    DEF CheckInSave, TicketInv, PageRefunded, VoidComes, VoidedIsRefunded
  <1>13. CASE UNCHANGED <<chunk, orderVars, faults>>
    BY <1>13, <1>n, TicketStays
  <1>14. \/ \E m \in Messages : Refund(m) \/ ChunkCrash(m)
         \/ \E a \in Admins : ReviewPublish(a) \/ ReviewCrash(a)
         \/ \E o \in Orders : PlaceOrder(o) \/ PayOrder(o)
         \/ \E g \in Gates : CheckInSave(g)
         \/ UNCHANGED <<chunk, orderVars, faults>>
    BY DEF Next, vars, Review, CancelRequest, ReviewRead, ReviewReject, ReviewApprove,
           ReviewClose, CheckInRead
  <1> QED BY <1>1, <1>2, <1>3, <1>5, <1>6, <1>7, <1>8, <1>9, <1>10, <1>11, <1>12, <1>13, <1>14
          DEF Refund

-----------------------------------------------------------------------------
(* Refunds of a short list                                                 *)

\* The orders that were paid before fit into the first chunk, whoever else pays.
InFirstChunk == \A o \in PaidBefore : Cardinality({p \in Orders : p < o}) < ChunkSize

AllRefunded == \A o \in PaidBefore : order[o] = "REFUNDED"

\* What was paid stays paid or is refunded; a chunk that was read holds every
\* such order still to be refunded, and a second chunk finds none.
PaidOrRefunded == \A o \in PaidBefore : order[o] \in {"COMPLETED", "REFUNDED"}
PageCovers ==
    \A m \in Messages : chunk[m].step \in Handling
        => \A o \in PaidBefore : o \in chunk[m].page \/ order[o] = "REFUNDED"
LaterFindsNone == \A m \in Messages : chunk[m].offset # 0 => AllRefunded

CoverInv ==
    /\ TypeOK /\ PageRefunded
    /\ PaidOrRefunded /\ PageCovers /\ LaterFindsNone /\ CancelledMeansRefunded

LEMMA CoverInit == Init => CoverInv
  <1> SUFFICES ASSUME Init PROVE CoverInv
    OBVIOUS
  <1>1. \A m \in Messages : chunk[m].step = "none" /\ chunk[m].offset = 0
    BY DEF Init, NoMessage
  <1>2. PageRefunded /\ PageCovers /\ LaterFindsNone
    BY <1>1 DEF PageRefunded, PageCovers, LaterFindsNone, Handling
  <1>3. PaidOrRefunded /\ CancelledMeansRefunded
    BY CancellationAssumption DEF Init, PaidOrRefunded, CancelledMeansRefunded
  <1> QED BY <1>2, <1>3, CancelTypeInit DEF CoverInv

\* The first page of the completed orders has all that were paid before.
LEMMA FirstPageCovers ==
  ASSUME InFirstChunk, NEW o \in PaidBefore, order[o] = "COMPLETED"
  PROVE  o \in Page(Completed, 0)
  <1> DEFINE below == {p \in Completed : p < o}
             lower == {p \in Orders : p < o}
  <1>1. IsFiniteSet(lower)
    BY FS_Subset, CancellationAssumption
  <1>2. below \in SUBSET lower
    BY DEF Completed
  <1>3. IsFiniteSet(below) /\ Cardinality(below) <= Cardinality(lower)
    BY <1>1, <1>2, FS_Subset
  <1>4. Cardinality(below) \in Nat /\ Cardinality(lower) \in Nat
    BY <1>1, <1>3, FS_CardinalityType
  <1>5. Cardinality(lower) < ChunkSize /\ ChunkSize \in Nat
    BY CancellationAssumption DEF InFirstChunk
  <1>6. o \in Completed
    BY CancellationAssumption DEF Completed
  <1> HIDE DEF below, lower
  <1>7. 0 <= Cardinality(below) /\ Cardinality(below) < 0 + ChunkSize
    BY <1>3, <1>4, <1>5
  <1> QED BY <1>6, <1>7 DEF Page, below

\* No step takes a refund back or gives up a payment made before.
Lasting == \A o \in PaidBefore : /\ order[o] = "REFUNDED" => order'[o] = "REFUNDED"
                                /\ order'[o] \in {"COMPLETED", "REFUNDED"}

\* What one message may turn into: it goes on with its page, starts again, or
\* is a later chunk when nothing is left to refund.
Continues(m) ==
    /\ chunk[m].step \in Handling
    /\ chunk'[m].page = chunk[m].page /\ chunk'[m].offset = chunk[m].offset
    /\ chunk'[m].step = "done" => chunk[m].step \in {"voided", "done"}
    /\ chunk'[m].step = "voided" => chunk[m].step = "refunded"
    /\ chunk'[m].step = "refunded" => \A o \in chunk[m].page : order'[o] = "REFUNDED"
Restarts(m) ==
    /\ chunk'[m].step \in {"none", "queued"}
    /\ chunk'[m].offset \in {0, chunk[m].offset} \/ AllRefunded

LEMMA CoverStep ==
  ASSUME CoverInv, TypeOK', Lasting,
         \A m \in Messages : \A o \in chunk[m].page :
            order[o] = "REFUNDED" => order'[o] = "REFUNDED",
         \A m \in Messages : chunk'[m] = chunk[m] \/ Continues(m) \/ Restarts(m),
         event' = "CANCELLED" => event = "CANCELLED" \/ AllRefunded
  PROVE  CoverInv'
  <1> USE DEF CoverInv, Lasting, Continues, Restarts
  <1>1. PageRefunded'
    BY DEF PageRefunded
  <1>2. PaidOrRefunded'
    BY DEF PaidOrRefunded
  <1>3. PageCovers'
    BY DEF PageCovers, Handling
  <1>4. LaterFindsNone'
    BY DEF LaterFindsNone, AllRefunded
  <1>5. CancelledMeansRefunded'
    BY DEF CancelledMeansRefunded, AllRefunded
  <1> QED BY <1>1, <1>2, <1>3, <1>4, <1>5

\* A voided chunk leaves nothing to refund.
LEMMA VoidedLeavesNone ==
  ASSUME CoverInv, NEW m \in Messages, chunk[m].step = "voided"
  PROVE  AllRefunded
  BY DEF CoverInv, PageRefunded, PageCovers, AllRefunded, Handling

LEMMA CoverNext == InFirstChunk /\ CoverInv /\ [Next]_vars => CoverInv'
  <1> SUFFICES ASSUME InFirstChunk, CoverInv, [Next]_vars PROVE CoverInv'
    OBVIOUS
  <1>t. /\ chunk \in [Messages -> [step: ChunkStep, offset: Nat, page: SUBSET Orders]]
        /\ order \in [Orders -> {"none", "PENDING", "COMPLETED", "REFUNDED"}]
        /\ PaidBefore \subseteq Orders
    BY CancellationAssumption DEF CoverInv, TypeOK
  <1>i. PaidOrRefunded /\ LaterFindsNone
    BY DEF CoverInv
  <1>n. TypeOK'
    BY CancelTypeNext DEF CoverInv
  <1>k. UNCHANGED order => Lasting
    BY <1>i DEF Lasting, PaidOrRefunded
  <1> USE DEF eventVars, orderVars
  <1>1. ASSUME NEW m \in Messages, ChunkRead(m) PROVE CoverInv'
    <2> DEFINE page == Page(Completed, chunk[m].offset)
    <2>0. /\ chunk' = [chunk EXCEPT ![m].step = "read", ![m].page = page]
          /\ UNCHANGED <<event, order>>
      BY <1>1 DEF ChunkRead
    <2>1. \A o \in PaidBefore : o \in page \/ order[o] = "REFUNDED"
      BY <1>i, FirstPageCovers DEF PaidOrRefunded, LaterFindsNone, AllRefunded
    <2> HIDE DEF page
    <2>2. /\ chunk'[m].step = "read" /\ chunk'[m].page = page
          /\ chunk'[m].offset = chunk[m].offset
          /\ \A n \in Messages : n # m => chunk'[n] = chunk[n]
      BY <2>0, <1>t
    <2>3. PageRefunded'
      BY <2>0, <2>2 DEF CoverInv, PageRefunded
    <2>4. PageCovers'
      BY <2>0, <2>1, <2>2 DEF CoverInv, PageCovers
    <2>5. LaterFindsNone'
      BY <2>0, <2>2 DEF CoverInv, LaterFindsNone, AllRefunded
    <2> QED BY <1>n, <2>0, <2>3, <2>4, <2>5
            DEF CoverInv, PaidOrRefunded, CancelledMeansRefunded
  <1>2. ASSUME NEW m \in Messages, ChunkRefund(m) PROVE CoverInv'
    <2>0. /\ chunk' = [chunk EXCEPT ![m].step = "refunded"] /\ chunk[m].step = "read"
          /\ order' = [o \in Orders |-> IF o \in chunk[m].page THEN "REFUNDED" ELSE order[o]]
          /\ UNCHANGED event
      BY <1>2 DEF ChunkRefund, ChunkMoves
    <2>1. Lasting
      BY <2>0, <1>t, <1>i DEF Lasting, PaidOrRefunded
    <2>2. \A n \in Messages : \A o \in chunk[n].page :
            order[o] = "REFUNDED" => order'[o] = "REFUNDED"
      BY <2>0, <1>t
    <2>3. Continues(m) /\ \A n \in Messages : n # m => chunk'[n] = chunk[n]
      BY <2>0, <1>t DEF Continues, Handling
    <2> QED BY <1>n, <2>0, <2>1, <2>2, <2>3, CoverStep
  <1>3. ASSUME NEW m \in Messages, ChunkVoid(m) \/ ChunkLast(m) PROVE CoverInv'
    <2>1. /\ UNCHANGED order
          /\ Continues(m) /\ \A n \in Messages : n # m => chunk'[n] = chunk[n]
      BY <1>3, <1>t DEF ChunkVoid, ChunkLast, ChunkMoves, Continues, Handling
    <2>2. event' = "CANCELLED" => event = "CANCELLED" \/ AllRefunded
      BY <1>3, VoidedLeavesNone DEF ChunkVoid, ChunkLast, ChunkMoves
    <2> QED BY <1>n, <1>k, <2>1, <2>2, CoverStep
  <1>4. ASSUME NEW m \in Messages, ChunkNext(m) PROVE CoverInv'
    <2>0. UNCHANGED <<event, order>> /\ chunk[m].step = "voided"
      BY <1>4 DEF ChunkNext
    <2>1. AllRefunded
      BY <2>0, VoidedLeavesNone
    <2>2. \A n \in Messages : chunk'[n] = chunk[n] \/ Continues(n) \/ Restarts(n)
      <3>1. CASE chunk' = [chunk EXCEPT ![m].step = "done"]
        BY <2>0, <3>1, <1>t DEF Continues, Handling
      <3>2. ASSUME NEW k \in Messages, Free(k),
                   chunk' = [chunk EXCEPT ![m].step = "done",
                                         ![k] = Queued(chunk[m].offset + ChunkSize)]
            PROVE  \A n \in Messages : chunk'[n] = chunk[n] \/ Continues(n) \/ Restarts(n)
        BY <2>0, <2>1, <3>2, <1>t DEF Free, Queued, Continues, Restarts, Handling
      <3> QED BY <1>4, <3>1, <3>2 DEF ChunkNext
    <2> QED BY <1>n, <1>k, <2>0, <2>2, CoverStep
  <1>5. ASSUME NEW m \in Messages, ChunkAck(m) \/ ChunkCrash(m) PROVE CoverInv'
    <2>1. /\ UNCHANGED <<event, order>>
          /\ Restarts(m) /\ \A n \in Messages : n # m => chunk'[n] = chunk[n]
      BY <1>5, <1>t DEF ChunkAck, ChunkCrash, NoMessage, Queued, Restarts
    <2> QED BY <1>n, <1>k, <2>1, CoverStep
  <1>6. ASSUME NEW a \in Admins, ReviewPublish(a) PROVE CoverInv'
    <2>0. UNCHANGED <<event, order>>
      BY <1>6 DEF ReviewPublish
    <2>1. \A n \in Messages : chunk'[n] = chunk[n] \/ Continues(n) \/ Restarts(n)
      BY <1>6, <1>t DEF ReviewPublish, Queued, Restarts
    <2> QED BY <1>n, <1>k, <2>0, <2>1, CoverStep
  <1>7. ASSUME NEW o \in Orders, PlaceOrder(o) \/ PayOrder(o) PROVE CoverInv'
    <2>1. UNCHANGED <<event, chunk>>
      BY <1>7 DEF PlaceOrder, PayOrder
    <2>2. \A p \in Orders : order'[p] = order[p] \/ (order[p] \in {"none", "PENDING"} /\ p = o)
      BY <1>7, <1>t DEF PlaceOrder, PayOrder
    <2>3. Lasting
      BY <2>2, <1>t, <1>i DEF Lasting, PaidOrRefunded
    <2>4. \A n \in Messages : \A p \in chunk[n].page :
            order[p] = "REFUNDED" => order'[p] = "REFUNDED"
      BY <2>2, <1>t
    <2> QED BY <1>n, <2>1, <2>3, <2>4, CoverStep
  <1>8. CASE UNCHANGED <<event, chunk, order>>
    BY <1>8, <1>n, <1>k, CoverStep
  <1>9. \/ \E m \in Messages : Refund(m) \/ ChunkCrash(m)
        \/ \E a \in Admins : ReviewPublish(a)
        \/ \E o \in Orders : PlaceOrder(o) \/ PayOrder(o)
        \/ UNCHANGED <<event, chunk, order>>
    BY DEF Next, vars, Review, CancelRequest, ReviewRead, ReviewReject, ReviewApprove,
           ReviewClose, ReviewCrash, CheckInRead, CheckInSave
  <1> QED BY <1>1, <1>2, <1>3, <1>4, <1>5, <1>6, <1>7, <1>8, <1>9 DEF Refund

-----------------------------------------------------------------------------

\* Every variable has its type.
THEOREM CancellationTypeCorrect == Spec => []TypeOK
  BY CancelTypeInit, CancelTypeNext, PTL DEF Spec

\* With one admin, the event is cancelled only after an approval and, without
\* faults, when every refund message has been worked off.
THEOREM CancelledLast == ASSUME OneAdmin PROVE Spec => []CancelledWhenDone
  <1> DEFINE RefundInv == TypeOK /\ AfterApproval /\ OneRefund
  <1>1. Init => RefundInv
    BY CancelTypeInit, RefundInit
  <1>2. RefundInv /\ [Next]_vars => RefundInv'
    BY CancelTypeNext, RefundNext
  <1>3. RefundInv => CancelledWhenDone
    BY DEF AfterApproval, OneRefund, Active, CancelledWhenDone
  <1> QED BY <1>1, <1>2, <1>3, PTL DEF Spec

\* A ticket is void only if its order is refunded and, without faults, a
\* refunded order keeps no ticket that opens a gate once its chunk is done.
THEOREM TicketsFollow == Spec => []TicketFollowsRefund
  <1>1. TicketInv => TicketFollowsRefund
    BY DEF TicketInv, VoidComes, VoidedIsRefunded, TicketFollowsRefund, InChunk, Handling
  <1> QED BY <1>1, TicketInit, TicketNext, PTL DEF Spec

\* The comment of the consumer is true of an event whose paid orders fit into
\* the first chunk: when the event is cancelled all of them are refunded, with
\* any number of admins, messages, crashes and customers who go on paying.
THEOREM ShortListIsRefunded == ASSUME InFirstChunk PROVE Spec => []CancelledMeansRefunded
  <1>1. CoverInv => CancelledMeansRefunded
    BY DEF CoverInv
  <1> QED BY <1>1, CoverInit, CoverNext, PTL DEF Spec
=============================================================================
