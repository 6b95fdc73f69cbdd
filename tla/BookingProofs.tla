--------------------------- MODULE BookingProofs ---------------------------
(* Theorems about Booking, for every value of its constants. *)
EXTENDS Booking, FunctionTheorems, FiniteSetTheorems, TLAPS

-----------------------------------------------------------------------------
(* The inductive invariant, in parts *)

\* A hold that has not been made leaves no trace, and nobody sells a type
\* before its stock key exists.
FreshHold ==
    /\ \A h \in Holds : ~Made(h) => reservation[h] = 0 /\ credits[h] = 0
    /\ \A h \in Holds : Made(h) => Kind[h] \in synced
    /\ \A t \in Types \ synced : sold[t] = 0
    /\ \A m \in Letters : message[m] # "free" => Made(About[m])

\* A message is published with a retry more only if it had one left.
RetryLeft == \A m \in Letters : message[m] = "retried" => retry[m] < MaxRetry

\* No release of this hold can be handled yet.
Ahead(m) == message[m] = "queued" /\ delay[m] > MaxLate

\* While the key lives the message is not due.
KeyBeforeMessage ==
    /\ \A h \in Holds : reservation[h] > 0 => credits[h] = 0
    /\ \A m \in Letters : reservation[About[m]] > 0 =>
          \/ message[m] \in {"free", "lost"}
          \/ message[m] = "queued" /\ delay[m] >= reservation[About[m]] + MaxLate

\* The same while a payment is being initiated, even if the key has gone.
InitiateBeforeMessage ==
    \A o \in Orders : initiating[o] # "idle" =>
        /\ credits[HoldOf[o]] = 0
        /\ \A m \in Letters : About[m] = HoldOf[o] => message[m] \in {"free", "lost"} \/ Ahead(m)
        /\ initiating[o] = "saved" => age[o] = 0

\* An order that does not exist leaves no trace; one that does has a hold.
FreshOrder ==
    \A o \in Orders :
        /\ \A m \in Letters : o \in victim[m] => status[o] # "none"
        /\ status[o] = "none" =>
              age[o] = 0 /\ context[o] = 0 /\ \A c \in Calls : web[o][c] = "idle"
        /\ initiating[o] \in {"read", "marked"} => status[o] = "none"
        /\ initiating[o] = "saved" => status[o] # "none"
        /\ initiating[o] # "idle" \/ status[o] # "none" => Made(HoldOf[o])

\* The context expires before the order is old enough to be cancelled.
ContextYoung ==
    \A o \in Orders :
        /\ context[o] > 0 => age[o] + context[o] <= ContextTTL
        /\ \A c \in Calls : web[o][c] = "checked" => age[o] < ContextTTL

\* What is cancelled, or about to be, is old and was not paid.
CancelledOld ==
    /\ \A o \in Orders : status[o] = "CANCELLED" => age[o] >= PendingLimit
    /\ \A m \in Letters : message[m] = "cancelling" =>
          \A o \in victim[m] :
              status[o] \in {"PENDING", "CANCELLED"} /\ age[o] >= PendingLimit

\* The newest order of a user is no older than any other.
NewestYoungest ==
    \A o \in Orders : status[o] # "none" =>
        \E n \in newest[OrderBuyer(o)] :
            /\ newest[OrderBuyer(o)] = {n}
            /\ status[n] # "none" /\ age[n] <= age[o]

\* A message whose handler has decided that the tickets go back.
GoesBack == {"cancelling", "returning", "credited", "returned"}

\* The hold of a young pending order is not given back.
YoungIsHeld ==
    \A o \in Orders : status[o] = "PENDING" /\ age[o] < PendingLimit =>
        /\ credits[HoldOf[o]] = 0
        /\ \A m \in Letters : About[m] = HoldOf[o] => message[m] \notin GoesBack

IInv ==
    /\ TypeOK /\ FreshHold /\ RetryLeft /\ KeyBeforeMessage /\ InitiateBeforeMessage /\ FreshOrder
    /\ ContextYoung /\ CancelledOld /\ NewestYoungest /\ YoungIsHeld

-----------------------------------------------------------------------------
(* Type correctness *)

LEMMA InitInv == Init => IInv
  BY BookingAssumption
  DEF Init, IInv, TypeOK, FreshHold, Made, RetryLeft, KeyBeforeMessage, InitiateBeforeMessage,
      FreshOrder, ContextYoung, CancelledOld, NewestYoungest, YoungIsHeld, MessageState, Status,
      InitiateState, WebState

LEMMA TickType == ASSUME TypeOK, Tick PROVE TypeOK'
  <1> USE BookingAssumption DEF TypeOK, Tick, stockVars
  <1>1. /\ synced' \subseteq Types /\ stock' \in [Types -> Nat] /\ sold' \in [Types -> Nat]
        /\ message' \in [Letters -> MessageState] /\ retry' \in [Letters -> 0..MaxRetry]
        /\ victim' \in [Letters -> SUBSET Orders] /\ credits' \in [Holds -> Nat]
        /\ status' \in [Orders -> Status] /\ newest' \in [Users -> SUBSET Orders]
        /\ initiating' \in [Orders -> InitiateState]
        /\ web' \in [Orders -> [Calls -> WebState]]
        /\ tickets' \in [Orders -> Nat] /\ faults' \in Nat
    OBVIOUS
  <1>2. \A k \in Nat : \A n \in 0..k : Down(n) \in 0..k
    BY DEF Down
  <1>3. reservation' \in [Holds -> 0..ReservationTTL] /\ context' \in [Orders -> 0..ContextTTL]
    BY <1>2
  <1>4. \A u \in Users : processing'[u] \in [Types -> 0..ProcessingTTL]
    <2> SUFFICES ASSUME NEW u \in Users PROVE processing'[u] \in [Types -> 0..ProcessingTTL]
      OBVIOUS
    <2>1. processing[u] \in [Types -> 0..ProcessingTTL] OBVIOUS
    <2>2. \A t \in Types : Down(processing[u][t]) \in 0..ProcessingTTL BY <1>2, <2>1
    <2> QED BY <2>2
  <1>5. processing' \in [Users -> [Types -> 0..ProcessingTTL]]
    BY <1>4
  <1>6. delay' \in [Letters -> Nat]
    <2>1. \A n \in Nat : Down(n) \in Nat BY DEF Down
    <2> QED BY <2>1
  <1>7. age' \in [Orders -> 0..Lookback]
    <2>1. \A n \in 0..Lookback : Aged(n) \in 0..Lookback BY DEF Aged
    <2> QED BY <2>1
  <1> QED BY <1>1, <1>3, <1>5, <1>6, <1>7

LEMMA PutBackType ==
  ASSUME TypeOK, NEW m \in Letters, NEW again \in Again, PutBack(m, again)
  PROVE  message' \in [Letters -> MessageState] /\ faults' \in Nat
  <1> USE DEF TypeOK, Again, MessageState
  <1>1. CASE message' = [message EXCEPT ![m] = again] /\ UNCHANGED faults BY <1>1
  <1>2. CASE Fault /\ message' = [message EXCEPT ![m] = "lost"] BY <1>2 DEF Fault
  <1> QED BY <1>1, <1>2 DEF PutBack

LEMMA AgainCrashType ==
  ASSUME TypeOK, RetryLeft, NEW m \in Letters, AgainCrash(m)
  PROVE  /\ message' \in [Letters -> MessageState] /\ delay' \in [Letters -> Nat]
         /\ retry' \in [Letters -> 0..MaxRetry]
  <1>1. PICK n \in Letters :
           /\ message' = [message EXCEPT ![m] = "queued", ![n] = "queued"]
           /\ delay' = [delay EXCEPT ![n] = Requeue + MaxLate]
           /\ retry' = [retry EXCEPT ![n] = NextRetry(m)]
    BY DEF AgainCrash
  <1>2. Requeue + MaxLate \in Nat BY BookingAssumption
  <1>3. NextRetry(m) \in 0..MaxRetry
    BY BookingAssumption DEF TypeOK, Again, NextRetry, RetryLeft
  <1>4. [message EXCEPT ![m] = "queued"] \in [Letters -> MessageState] BY DEF TypeOK, MessageState
  <1>5. message' \in [Letters -> MessageState] BY <1>1, <1>4 DEF MessageState
  <1> QED BY <1>1, <1>2, <1>3, <1>5 DEF TypeOK

LEMMA TypeNext == ASSUME TypeOK, FreshHold, RetryLeft, Next PROVE TypeOK'
  <1> USE BookingAssumption DEF TypeOK, MessageState, Status, InitiateState, WebState,
          stockVars, keyVars, messageVars, orderVars, OrderBuyer, OrderKind, Fault
  <1>1. CASE Sync BY <1>1 DEF Sync, FreshHold
  <1>2. CASE Tick BY <1>2, TickType
  <1>3. ASSUME NEW h \in Holds, ReserveGranted(h) PROVE TypeOK'
    BY <1>3 DEF ReserveGranted, Reserve
  <1>4. ASSUME NEW h \in Holds, ReserveLost(h) PROVE TypeOK'
    BY <1>4 DEF ReserveLost, Reserve
  <1>5. ASSUME NEW m \in Letters, ReleaseRetry(m) PROVE TypeOK'
    <2>1. message' \in [Letters -> MessageState] /\ faults' \in Nat
      <3>1. "retried" \in Again /\ PutBack(m, "retried") BY <1>5 DEF Again, ReleaseRetry
      <3> QED BY ONLY <1>5, <3>1, TypeOK, PutBackType
    <2> QED BY <1>5, <2>1 DEF ReleaseRetry
  <1>6. ASSUME NEW m \in Letters, ReleaseStart(m) PROVE TypeOK'
    BY <1>6 DEF ReleaseStart, Due
  <1>7. ASSUME NEW m \in Letters, ReleaseKeep(m) PROVE TypeOK'
    BY <1>7 DEF ReleaseKeep, RecentOrder
  <1>8. ASSUME NEW m \in Letters, ReleasePostpone(m) PROVE TypeOK'
    <2>1. message' \in [Letters -> MessageState] /\ faults' \in Nat
      <3>1. "postponed" \in Again /\ PutBack(m, "postponed") BY <1>8 DEF Again, ReleasePostpone
      <3> QED BY ONLY <1>8, <3>1, TypeOK, PutBackType
    <2> QED BY <1>8, <2>1 DEF ReleasePostpone
  <1>9. ASSUME NEW m \in Letters, ReleaseExpire(m) PROVE TypeOK'
    BY <1>9 DEF ReleaseExpire, RecentOrder
  <1>10. ASSUME NEW m \in Letters, ReleaseCancel(m) PROVE TypeOK'
    BY <1>10 DEF ReleaseCancel
  <1>11. ASSUME NEW m \in Letters, ReleaseUnpaid(m) PROVE TypeOK'
    BY <1>11 DEF ReleaseUnpaid, RecentOrder
  <1>12. ASSUME NEW m \in Letters, ReleaseReturn(m) PROVE TypeOK'
    BY <1>12 DEF ReleaseReturn
  <1>13. ASSUME NEW m \in Letters, ReleaseAck(m) PROVE TypeOK'
    BY <1>13 DEF ReleaseAck
  <1>14. ASSUME NEW m \in Letters, ReleaseCrash(m) PROVE TypeOK'
    BY <1>14 DEF ReleaseCrash, Handling
  <1>a. Requeue + MaxLate \in Nat OBVIOUS
  <1>b. \A m \in Letters : message[m] \in Again => NextRetry(m) \in 0..MaxRetry
    BY DEF Again, NextRetry, RetryLeft
  <1>27. ASSUME NEW m \in Letters, AgainAck(m) PROVE TypeOK'
    <2>1. delay' \in [Letters -> Nat] /\ retry' \in [Letters -> 0..MaxRetry]
      BY <1>a, <1>b, <1>27 DEF AgainAck
    <2> QED BY <1>27, <2>1 DEF AgainAck
  <1>28. ASSUME NEW m \in Letters, AgainCrash(m) PROVE TypeOK'
    <2>1. /\ message' \in [Letters -> MessageState] /\ delay' \in [Letters -> Nat]
          /\ retry' \in [Letters -> 0..MaxRetry]
      BY <1>28, AgainCrashType
    <2>2. UNCHANGED <<stockVars, keyVars, victim, credits, orderVars, initiating, web>>
      BY <1>28 DEF AgainCrash
    <2>3. faults' \in Nat BY <1>28 DEF AgainCrash
    <2> QED BY <2>1, <2>2, <2>3
  <1>15. ASSUME NEW o \in Orders, InitiateRead(o) PROVE TypeOK'
    BY <1>15 DEF InitiateRead
  <1>16. ASSUME NEW o \in Orders, InitiateMark(o) PROVE TypeOK'
    BY <1>16 DEF InitiateMark
  <1>17. ASSUME NEW o \in Orders, InitiateCommit(o) PROVE TypeOK'
    BY <1>17 DEF InitiateCommit
  <1>18. ASSUME NEW o \in Orders, InitiateContext(o) PROVE TypeOK'
    BY <1>18 DEF InitiateContext
  <1>19. ASSUME NEW o \in Orders, InitiateFail(o) PROVE TypeOK'
    BY <1>19 DEF InitiateFail
  <1>20. ASSUME NEW o \in Orders, InitiateCrash(o) PROVE TypeOK'
    BY <1>20 DEF InitiateCrash
  <1>21. ASSUME NEW o \in Orders, NEW c \in Calls, WebhookCheck(o, c) PROVE TypeOK'
    BY <1>21 DEF WebhookCheck, WebStep
  <1>22. ASSUME NEW o \in Orders, NEW c \in Calls, WebhookCommit(o, c) PROVE TypeOK'
    BY <1>22 DEF WebhookCommit, WebStep
  <1>23. ASSUME NEW o \in Orders, NEW c \in Calls, WebhookUnreserve(o, c) PROVE TypeOK'
    BY <1>23 DEF WebhookUnreserve, WebStep
  <1>24. ASSUME NEW o \in Orders, NEW c \in Calls, WebhookUnmark(o, c) PROVE TypeOK'
    BY <1>24 DEF WebhookUnmark, WebStep
  <1>25. ASSUME NEW o \in Orders, NEW c \in Calls, WebhookForget(o, c) PROVE TypeOK'
    BY <1>25 DEF WebhookForget, WebStep
  <1>26. ASSUME NEW o \in Orders, NEW c \in Calls, WebhookCrash(o, c) PROVE TypeOK'
    BY <1>26 DEF WebhookCrash
  <1> QED
    BY <1>1, <1>2, <1>3, <1>4, <1>5, <1>6, <1>7, <1>8, <1>9, <1>10, <1>11, <1>12, <1>13, <1>14, <1>15, <1>16, <1>17, <1>18, <1>19, <1>20, <1>21, <1>22, <1>23, <1>24, <1>25, <1>26, <1>27, <1>28
    DEF Next, Reserving, Delivery, Release, Initiate, Webhook

-----------------------------------------------------------------------------
(* The parts that hold whatever the handlers' speed *)

LEMMA NewestAreOrders == ASSUME TypeOK, NEW h \in Holds PROVE newest[Buyer[h]] \subseteq Orders
  BY BookingAssumption DEF TypeOK

\* Whom ReleaseExpire chooses.
LEMMA VictimIsOld ==
  ASSUME TypeOK, NEW m \in Letters, ReleaseExpire(m)
  PROVE  \E n \in Orders :
            /\ n \in newest[Buyer[About[m]]]
            /\ status[n] = "PENDING" /\ age[n] >= PendingLimit
            /\ victim' = [victim EXCEPT ![m] = {n}]
  <1>1. newest[Buyer[About[m]]] \subseteq Orders BY NewestAreOrders, BookingAssumption
  <1> QED BY <1>1 DEF ReleaseExpire, RecentOrder

-----------------------------------------------------------------------------
(* What a delivery of a release message does, and what it leaves alone *)

\* The message n is as it was.
Same(n) ==
    /\ message'[n] = message[n] /\ delay'[n] = delay[n]
    /\ retry'[n] = retry[n] /\ victim'[n] = victim[n]

\* The message n was left behind by a handler of m that died.
Copied(m, n) ==
    /\ AgainCrash(m) /\ message[m] \in Again
    /\ n # m /\ About[n] = About[m] /\ message[n] = "free"
    /\ message'[n] = "queued" /\ delay'[n] = Requeue + MaxLate
    /\ retry'[n] = NextRetry(m) /\ victim'[n] = victim[n]

\* It acts on a message that is due or being handled ...
LEMMA ReleaseHandles ==
  ASSUME NEW m \in Letters, Delivery(m) PROVE Due(m) \/ message[m] \in Handling
  BY DEF Delivery, Release, ReleaseCrash, AgainAck, AgainCrash, Handling, Again, ReleaseRetry,
     ReleaseStart, ReleaseKeep, ReleasePostpone, ReleaseExpire, ReleaseCancel, ReleaseUnpaid,
     ReleaseReturn, ReleaseAck

LEMMA ReleaseLeaves ==
  ASSUME NEW m \in Letters, Delivery(m)
  PROVE  UNCHANGED <<synced, sold, reservation, processing, initiating, age, context, web, newest,
                     tickets>>
  BY DEF stockVars, keyVars, orderVars, Delivery, Release, ReleaseCrash, AgainAck, AgainCrash,
     ReleaseRetry, ReleaseStart, ReleaseKeep, ReleasePostpone, ReleaseExpire, ReleaseCancel,
     ReleaseUnpaid, ReleaseReturn, ReleaseAck

\* ... and on no other, except that it may leave a copy behind.
LEMMA ReleaseOthers ==
  ASSUME TypeOK, NEW m \in Letters, Delivery(m), NEW n \in Letters, n # m
  PROVE  Same(n) \/ Copied(m, n)
  <1> USE DEF TypeOK
  <1>1. CASE AgainCrash(m) BY <1>1 DEF AgainCrash, Same, Copied, messageVars
  <1>2. CASE AgainAck(m) BY <1>2 DEF AgainAck, Same, messageVars
  <1>3. CASE ReleaseCrash(m) BY <1>3 DEF ReleaseCrash, Same, messageVars
  <1>4. CASE Release(m) /\ ~AgainAck(m)
    BY <1>4 DEF Release, ReleaseRetry, PutBack, ReleaseStart, ReleaseKeep, ReleasePostpone,
       ReleaseExpire, ReleaseCancel, ReleaseUnpaid, ReleaseReturn, ReleaseAck, Same, messageVars
  <1> QED BY <1>1, <1>2, <1>3, <1>4 DEF Delivery

LEMMA ReleaseOwn ==
  ASSUME TypeOK, NEW m \in Letters, Delivery(m) PROVE message[m] # "free" /\ message'[m] # "free"
  <1>1. message[m] # "free" BY ReleaseHandles DEF Due, Handling, Again
  <1>2. message'[m] # "free"
    BY DEF TypeOK, Delivery, Release, ReleaseCrash, AgainAck, AgainCrash, ReleaseRetry, PutBack,
       ReleaseStart, ReleaseKeep, ReleasePostpone, ReleaseExpire, ReleaseCancel, ReleaseUnpaid,
       ReleaseReturn, ReleaseAck
  <1> QED BY <1>1, <1>2

LEMMA ReleaseCredits ==
  ASSUME TypeOK, NEW m \in Letters, Delivery(m)
  PROVE  /\ UNCHANGED credits \/ ReleaseReturn(m)
         /\ \A h \in Holds : h # About[m] => credits'[h] = credits[h]
  BY BookingAssumption DEF TypeOK, Delivery, Release, ReleaseCrash, AgainAck, AgainCrash,
     ReleaseRetry, ReleaseStart, ReleaseKeep, ReleasePostpone, ReleaseExpire, ReleaseCancel,
     ReleaseUnpaid, ReleaseReturn, ReleaseAck, messageVars

\* It leaves the messages of other holds alone, and makes no hold.
LEMMA ReleaseFrame ==
  ASSUME TypeOK, FreshHold, NEW m \in Letters, Delivery(m)
  PROVE  /\ \A n \in Letters : About[n] # About[m] => Same(n)
         /\ \A n \in Letters : message[n] # "free" => message'[n] # "free"
         /\ \A h \in Holds : Made(h)' <=> Made(h)
  <1>1. ASSUME NEW n \in Letters, About[n] # About[m] PROVE Same(n)
    BY <1>1, ReleaseOthers DEF Copied
  <1>2. ASSUME NEW n \in Letters, message[n] # "free" PROVE message'[n] # "free"
    BY <1>2, ReleaseOthers, ReleaseOwn DEF Copied, Same
  <1>3. ASSUME NEW h \in Holds PROVE Made(h)' <=> Made(h)
    <2>1. First[h] \in Letters /\ About[First[h]] = h BY BookingAssumption
    <2>2. CASE About[m] = h
      <3>1. Made(h) BY <2>2, ReleaseOwn DEF FreshHold
      <3> QED BY <1>2, <2>1, <3>1 DEF Made
    <2>3. CASE About[m] # h BY <1>1, <2>1, <2>3 DEF Same, Made
    <2> QED BY <2>2, <2>3
  <1> QED BY <1>1, <1>2, <1>3

LEMMA ReleaseStatus ==
  ASSUME TypeOK, FreshOrder, NEW m \in Letters, Delivery(m)
  PROVE  /\ UNCHANGED status \/ ReleaseCancel(m)
         /\ \A o \in Orders : status[o] = "none" <=> status'[o] = "none"
         /\ \A o \in Orders : status'[o] # status[o] =>
               ReleaseCancel(m) /\ o \in victim[m] /\ status'[o] = "CANCELLED"
  <1>1. CASE ReleaseCancel(m)
    <2>1. status' = [o \in Orders |-> IF o \in victim[m] THEN "CANCELLED" ELSE status[o]]
      BY <1>1 DEF ReleaseCancel
    <2>2. \A o \in Orders : o \in victim[m] => status[o] # "none" BY DEF FreshOrder
    <2> QED BY <1>1, <2>1, <2>2
  <1>2. CASE UNCHANGED status BY <1>2
  <1> QED
    BY <1>1, <1>2 DEF Delivery, Release, ReleaseCrash, AgainAck, AgainCrash, ReleaseRetry,
       ReleaseStart, ReleaseKeep, ReleasePostpone, ReleaseExpire, ReleaseUnpaid, ReleaseReturn,
       ReleaseAck, orderVars

LEMMA ReservingFrame ==
  ASSUME TypeOK, NEW h \in Holds, Reserving(h)
  PROVE  /\ UNCHANGED <<orderVars, initiating, web, credits, victim, retry>>
         /\ ~Made(h) /\ Made(h)' /\ message'[First[h]] \in {"queued", "lost"}
         /\ \A n \in Letters : n # First[h] => message'[n] = message[n] /\ delay'[n] = delay[n]
         /\ \A g \in Holds : g # h => (Made(g)' <=> Made(g))
  BY BookingAssumption
     DEF TypeOK, orderVars, Reserving, ReserveGranted, ReserveLost, Reserve, Made

LEMMA FreshHoldNext == ASSUME TypeOK, FreshHold, FreshOrder, Next PROVE FreshHold'
  <1> USE BookingAssumption DEF TypeOK, FreshHold, FreshOrder, stockVars, keyVars, messageVars,
          orderVars, OrderBuyer, OrderKind, Fault
  <1>1. CASE Sync BY <1>1 DEF Sync, Made
  <1>2. CASE Tick BY <1>2 DEF Tick, Down, Made
  <1>3. ASSUME NEW h \in Holds, Reserving(h) PROVE FreshHold'
    <2>1. /\ ~Made(h) /\ Made(h)' /\ \A g \in Holds : g # h => (Made(g)' <=> Made(g))
          /\ \A n \in Letters : n # First[h] => message'[n] = message[n]
          /\ UNCHANGED credits
      BY <1>3, ReservingFrame
    <2>2. /\ reservation' = [reservation EXCEPT ![h] = ReservationTTL]
          /\ Kind[h] \in synced /\ UNCHANGED <<synced, sold>>
      BY <1>3 DEF Reserving, ReserveGranted, ReserveLost, Reserve
    <2>3. ASSUME NEW n \in Letters, message'[n] # "free" PROVE Made(About[n])'
      <3>1. CASE About[n] = h BY <2>1, <3>1
      <3>2. CASE About[n] # h
        <4>1. Made(About[n]) BY <2>1, <2>3, <3>2
        <4> QED BY <2>1, <3>2, <4>1
      <3> QED BY <3>1, <3>2
    <2> QED BY <2>1, <2>2, <2>3
  <1>4. ASSUME NEW m \in Letters, Delivery(m) PROVE FreshHold'
    <2>1. /\ \A h \in Holds : Made(h)' <=> Made(h)
          /\ \A n \in Letters : About[n] # About[m] => message'[n] = message[n]
      BY <1>4, ReleaseFrame DEF Same
    <2>2. UNCHANGED <<reservation, synced, sold>> BY <1>4, ReleaseLeaves
    <2>3. Made(About[m]) BY <1>4, ReleaseOwn
    <2>4. \A h \in Holds : h # About[m] => credits'[h] = credits[h] BY <1>4, ReleaseCredits
    <2>5. \A n \in Letters : message'[n] # "free" => Made(About[n]) BY <2>1, <2>3
    <2> QED BY <2>1, <2>2, <2>3, <2>4, <2>5
  <1>5. ASSUME NEW o \in Orders, Initiate(o) PROVE FreshHold'
    BY <1>5 DEF Initiate, InitiateRead, InitiateMark, InitiateCommit, InitiateContext,
       InitiateFail, InitiateCrash, Made
  <1>6. ASSUME NEW o \in Orders, NEW c \in Calls, Webhook(o, c) PROVE FreshHold'
    BY <1>6 DEF Webhook, WebStep, WebhookCheck, WebhookCommit, WebhookUnreserve,
       WebhookUnmark, WebhookForget, WebhookCrash, Made
  <1> QED BY <1>1, <1>2, <1>3, <1>4, <1>5, <1>6 DEF Next

LEMMA RetryLeftNext == ASSUME TypeOK, RetryLeft, Next PROVE RetryLeft'
  <1> USE DEF RetryLeft, messageVars
  <1>1. CASE Sync BY <1>1 DEF Sync
  <1>2. CASE Tick BY <1>2 DEF Tick
  <1>3. ASSUME NEW h \in Holds, Reserving(h) PROVE RetryLeft'
    BY <1>3 DEF TypeOK, Reserving, ReserveGranted, ReserveLost, Reserve
  <1>4. ASSUME NEW m \in Letters, Delivery(m) PROVE RetryLeft'
    <2>1. ASSUME NEW n \in Letters, n # m, message'[n] = "retried" PROVE retry'[n] < MaxRetry
      BY <1>4, <2>1, ReleaseOthers DEF Same, Copied
    <2>2. CASE ReleaseRetry(m) BY <2>1, <2>2 DEF ReleaseRetry, UnderWay
    <2>3. CASE ~ReleaseRetry(m)
      <3>1. message'[m] # "retried"
        BY <1>4, <2>3 DEF TypeOK, Delivery, Release, ReleaseCrash, AgainAck, AgainCrash, PutBack,
           ReleaseStart, ReleaseKeep, ReleasePostpone, ReleaseExpire, ReleaseCancel,
           ReleaseUnpaid, ReleaseReturn, ReleaseAck
      <3> QED BY <2>1, <3>1
    <2> QED BY <2>2, <2>3
  <1>5. ASSUME NEW o \in Orders, Initiate(o) PROVE RetryLeft'
    BY <1>5 DEF Initiate, InitiateRead, InitiateMark, InitiateCommit, InitiateContext,
       InitiateFail, InitiateCrash
  <1>6. ASSUME NEW o \in Orders, NEW c \in Calls, Webhook(o, c) PROVE RetryLeft'
    BY <1>6 DEF Webhook, WebhookCheck, WebhookCommit, WebhookUnreserve, WebhookUnmark,
       WebhookForget, WebhookCrash
  <1> QED BY <1>1, <1>2, <1>3, <1>4, <1>5, <1>6 DEF Next

LEMMA FreshOrderNext == ASSUME TypeOK, FreshHold, FreshOrder, Next PROVE FreshOrder'
  <1> USE BookingAssumption DEF TypeOK, FreshHold, FreshOrder, stockVars, keyVars, messageVars,
          orderVars, OrderBuyer, OrderKind, Fault
  <1>1. CASE Sync BY <1>1 DEF Sync, Made
  <1>2. CASE Tick BY <1>2 DEF Tick, Down, Made
  <1>3. ASSUME NEW h \in Holds, Reserving(h) PROVE FreshOrder'
    BY <1>3 DEF Reserving, ReserveGranted, ReserveLost, Reserve, Made
  <1>4. ASSUME NEW m \in Letters, Delivery(m) PROVE FreshOrder'
    <2>1. \A h \in Holds : Made(h)' <=> Made(h) BY <1>4, ReleaseFrame
    <2>2. UNCHANGED <<age, context, web, initiating>> BY <1>4, ReleaseLeaves
    <2>3. \A o \in Orders : status[o] = "none" <=> status'[o] = "none" BY <1>4, ReleaseStatus
    <2>4. \A o \in victim'[m] : o \in victim[m] \/ status[o] # "none"
      <3>1. CASE ReleaseExpire(m)
        <4>0. \E n \in Orders :
                 /\ n \in newest[Buyer[About[m]]]
                 /\ status[n] = "PENDING" /\ age[n] >= PendingLimit
                 /\ victim' = [victim EXCEPT ![m] = {n}]
          BY ONLY <1>4, <3>1, TypeOK, VictimIsOld
        <4>1. PICK n \in Orders : status[n] = "PENDING" /\ victim' = [victim EXCEPT ![m] = {n}]
          BY <4>0
        <4> QED BY <4>1
      <3>2. CASE victim' = [victim EXCEPT ![m] = {}] BY <3>2
      <3>3. CASE victim' = victim BY <3>3
      <3> QED
        BY <1>4, <3>1, <3>2, <3>3 DEF Delivery, Release, ReleaseCrash, AgainAck, AgainCrash,
           ReleaseRetry, ReleaseStart, ReleaseKeep, ReleasePostpone, ReleaseCancel,
           ReleaseUnpaid, ReleaseReturn, ReleaseAck
    <2>5. \A n \in Letters : n # m => victim'[n] = victim[n]
      BY <1>4, ReleaseOthers DEF Same, Copied
    <2>6. \A n \in Letters : \A o \in Orders : o \in victim'[n] => status[o] # "none"
      BY <2>4, <2>5
    <2> QED BY <2>1, <2>2, <2>3, <2>6
  <1>5. ASSUME NEW o \in Orders, Initiate(o) PROVE FreshOrder'
    BY <1>5 DEF Initiate, InitiateRead, InitiateMark, InitiateCommit, InitiateContext,
       InitiateFail, InitiateCrash, Made
  <1>6. ASSUME NEW o \in Orders, NEW c \in Calls, Webhook(o, c) PROVE FreshOrder'
    <2>1. CASE WebhookCheck(o, c) BY <2>1 DEF WebhookCheck, WebStep, Made
    <2>2. CASE WebhookCommit(o, c) BY <2>2 DEF WebhookCommit, WebStep, Made
    <2>3. CASE WebhookUnreserve(o, c) BY <2>3 DEF WebhookUnreserve, WebStep, Made
    <2>4. CASE WebhookUnmark(o, c) BY <2>4 DEF WebhookUnmark, WebStep, Made
    <2>5. CASE WebhookForget(o, c) BY <2>5 DEF WebhookForget, WebStep, Made
    <2>6. CASE WebhookCrash(o, c) BY <2>6 DEF WebhookCrash, Made
    <2> QED BY <1>6, <2>1, <2>2, <2>3, <2>4, <2>5, <2>6 DEF Webhook
  <1> QED BY <1>1, <1>2, <1>3, <1>4, <1>5, <1>6 DEF Next

-----------------------------------------------------------------------------
(* The key and the message *)

LEMMA KeyNext == ASSUME TypeOK, FreshHold, KeyBeforeMessage, Next PROVE KeyBeforeMessage'
  <1> USE BookingAssumption DEF TypeOK, KeyBeforeMessage, stockVars, keyVars, messageVars,
          orderVars, OrderBuyer, OrderKind, Fault
  <1>1. CASE Sync BY <1>1 DEF Sync
  <1>2. CASE Tick BY <1>2 DEF Tick, Down
  <1>3. ASSUME NEW h \in Holds, Reserving(h) PROVE KeyBeforeMessage'
    <2>1. credits[h] = 0 /\ UNCHANGED credits
      BY <1>3 DEF Reserving, ReserveGranted, ReserveLost, Reserve, FreshHold
    <2>2. /\ reservation' = [reservation EXCEPT ![h] = ReservationTTL]
          /\ \A n \in Letters : n # First[h] => message'[n] = message[n] /\ delay'[n] = delay[n]
          /\ \/ message'[First[h]] = "lost"
             \/ message'[First[h]] = "queued" /\ delay'[First[h]] = ReservationTTL + MaxLate
      BY <1>3 DEF Reserving, ReserveGranted, ReserveLost, Reserve
    <2>3. \A n \in Letters : About[n] = h => message[n] = "free"
      BY <1>3 DEF Reserving, ReserveGranted, ReserveLost, Reserve, FreshHold
    <2>4. ASSUME NEW n \in Letters, reservation'[About[n]] > 0
          PROVE  \/ message'[n] \in {"free", "lost"}
                 \/ message'[n] = "queued" /\ delay'[n] >= reservation'[About[n]] + MaxLate
      <3>1. CASE About[n] # h BY <2>2, <2>4, <3>1
      <3>2. CASE n = First[h] BY <2>2, <3>2
      <3>3. CASE About[n] = h /\ n # First[h] BY <2>2, <2>3, <3>3
      <3> QED BY <3>1, <3>2, <3>3
    <2> QED BY <2>1, <2>2, <2>4
  <1>4. ASSUME NEW m \in Letters, Delivery(m) PROVE KeyBeforeMessage'
    <2>1. Due(m) \/ message[m] \in Handling
      BY <1>4, ReleaseHandles
    <2>2. ~(reservation[About[m]] > 0)
      <3> SUFFICES ASSUME reservation[About[m]] > 0 PROVE FALSE OBVIOUS
      <3>1. \/ message[m] \in {"free", "lost"}
            \/ message[m] = "queued" /\ delay[m] >= reservation[About[m]] + MaxLate
        OBVIOUS
      <3>2. message[m] \notin {"free", "lost"} BY <2>1 DEF Due, Handling, Again
      <3>3. message[m] = "queued" => delay[m] <= MaxLate BY <2>1 DEF Due, Handling, Again
      <3>4. delay[m] \in Nat /\ reservation[About[m]] \in Nat /\ MaxLate \in Nat OBVIOUS
      <3> QED BY <3>1, <3>2, <3>3, <3>4
    <2>3. /\ UNCHANGED reservation
          /\ \A n \in Letters : About[n] # About[m] =>
                message'[n] = message[n] /\ delay'[n] = delay[n]
          /\ \A h \in Holds : h # About[m] => credits'[h] = credits[h]
      BY <1>4, ReleaseFrame, ReleaseLeaves, ReleaseCredits DEF Same
    <2> QED BY <2>2, <2>3
  <1>5. ASSUME NEW o \in Orders, Initiate(o) PROVE KeyBeforeMessage'
    BY <1>5 DEF Initiate, InitiateRead, InitiateMark, InitiateCommit, InitiateContext,
       InitiateFail, InitiateCrash
  <1>6. ASSUME NEW o \in Orders, NEW c \in Calls, Webhook(o, c) PROVE KeyBeforeMessage'
    <2>1. UNCHANGED messageVars
      BY <1>6 DEF Webhook, WebhookCheck, WebhookCommit, WebhookUnreserve, WebhookUnmark,
         WebhookForget, WebhookCrash
    <2>2. \A h \in Holds : reservation'[h] \in {0, reservation[h]}
      BY <1>6 DEF Webhook, WebhookCheck, WebhookCommit, WebhookUnreserve, WebhookUnmark,
         WebhookForget, WebhookCrash
    <2>3. \A h \in Holds : reservation'[h] > 0 => reservation'[h] = reservation[h]
      BY <2>2
    <2> QED BY <2>1, <2>3
  <1> QED BY <1>1, <1>2, <1>3, <1>4, <1>5, <1>6 DEF Next

LEMMA InitiateNext ==
  ASSUME ~Slow, TypeOK, FreshHold, FreshOrder, KeyBeforeMessage, InitiateBeforeMessage, Next
  PROVE  InitiateBeforeMessage'
  <1> USE BookingAssumption DEF TypeOK, InitiateBeforeMessage, Ahead, stockVars, keyVars,
          messageVars, orderVars, Fault
  <1>1. CASE Sync BY <1>1 DEF Sync
  <1>2. CASE Tick BY <1>2 DEF Tick, Prompt
  <1>3. ASSUME NEW h \in Holds, Reserving(h) PROVE InitiateBeforeMessage'
    <2>1. ~Made(h)
      BY <1>3 DEF Reserving, ReserveGranted, ReserveLost, Reserve
    <2>2. \A o \in Orders : initiating[o] # "idle" => HoldOf[o] # h
      BY <2>1 DEF FreshOrder
    <2>3. \A n \in Letters : About[n] # h => message'[n] = message[n] /\ delay'[n] = delay[n]
      BY <1>3 DEF Reserving, ReserveGranted, ReserveLost, Reserve
    <2>4. UNCHANGED <<credits, initiating, age>>
      BY <1>3 DEF Reserving, ReserveGranted, ReserveLost, Reserve
    <2> QED BY <2>2, <2>3, <2>4
  <1>4. ASSUME NEW m \in Letters, Delivery(m) PROVE InitiateBeforeMessage'
    <2>1. Due(m) \/ message[m] \in Handling
      BY <1>4, ReleaseHandles
    <2>2. \A o \in Orders : initiating[o] # "idle" => HoldOf[o] # About[m]
      <3>1. message[m] \notin {"free", "lost"} BY <2>1 DEF Due, Handling, Again
      <3>2. message[m] = "queued" => ~(delay[m] > MaxLate)
        <4>1. delay[m] \in Nat /\ MaxLate \in Nat BY BookingAssumption
        <4> QED BY <2>1, <4>1 DEF Due, Handling, Again
      <3> QED BY <3>1, <3>2
    <2>3. /\ UNCHANGED <<initiating, age>>
          /\ \A n \in Letters : About[n] # About[m] =>
                message'[n] = message[n] /\ delay'[n] = delay[n]
          /\ \A h \in Holds : h # About[m] => credits'[h] = credits[h]
      BY <1>4, ReleaseFrame, ReleaseLeaves, ReleaseCredits DEF Same
    <2> QED BY <2>2, <2>3
  <1>5. ASSUME NEW o \in Orders, Initiate(o) PROVE InitiateBeforeMessage'
    <2>1. CASE InitiateRead(o)
      <3>1. reservation[HoldOf[o]] > 0 /\ initiating' = [initiating EXCEPT ![o] = "read"]
        BY <2>1 DEF InitiateRead
      <3>2. UNCHANGED <<message, delay, credits, age>> BY <2>1 DEF InitiateRead
      <3>3. credits[HoldOf[o]] = 0 BY <3>1 DEF KeyBeforeMessage
      <3>4. \A m \in Letters : About[m] = HoldOf[o] => message[m] \in {"free", "lost"} \/ Ahead(m)
        <4> SUFFICES ASSUME NEW m \in Letters, About[m] = HoldOf[o], message[m] \notin {"free", "lost"}
                     PROVE  Ahead(m)
          OBVIOUS
        <4>1. message[m] = "queued" /\ delay[m] >= reservation[About[m]] + MaxLate
          BY <3>1 DEF KeyBeforeMessage
        <4>2. delay[m] \in Nat /\ reservation[About[m]] \in Nat /\ MaxLate \in Nat OBVIOUS
        <4> QED BY <3>1, <4>1, <4>2
      <3> QED BY <3>1, <3>2, <3>3, <3>4
    <2>2. CASE InitiateMark(o) BY <2>2 DEF InitiateMark
    <2>3. CASE InitiateCommit(o) BY <2>3 DEF InitiateCommit, FreshOrder
    <2>4. CASE InitiateContext(o) BY <2>4 DEF InitiateContext
    <2>5. CASE InitiateFail(o) BY <2>5 DEF InitiateFail
    <2>6. CASE InitiateCrash(o) BY <2>6 DEF InitiateCrash
    <2> QED BY <1>5, <2>1, <2>2, <2>3, <2>4, <2>5, <2>6 DEF Initiate
  <1>6. ASSUME NEW o \in Orders, NEW c \in Calls, Webhook(o, c) PROVE InitiateBeforeMessage'
    BY <1>6 DEF Webhook, WebhookCheck, WebhookCommit, WebhookUnreserve, WebhookUnmark,
       WebhookForget, WebhookCrash
  <1> QED BY <1>1, <1>2, <1>3, <1>4, <1>5, <1>6 DEF Next

-----------------------------------------------------------------------------
(* Ages *)

LEMMA InitiateFrame ==
  ASSUME NEW o \in Orders, Initiate(o)
  PROVE  UNCHANGED <<messageVars, age, web, tickets>>
  BY DEF messageVars, orderVars, Initiate, InitiateRead, InitiateMark, InitiateCommit,
     InitiateContext, InitiateFail, InitiateCrash

LEMMA WebhookFrame ==
  ASSUME NEW o \in Orders, NEW c \in Calls, Webhook(o, c)
  PROVE  UNCHANGED <<messageVars, age, newest, initiating>>
  BY DEF messageVars, orderVars, Webhook, WebhookCheck, WebhookCommit, WebhookUnreserve,
     WebhookUnmark, WebhookForget, WebhookCrash

LEMMA SyncFrame ==
  ASSUME Sync PROVE UNCHANGED <<messageVars, orderVars, initiating, web>>
  BY DEF Sync

LEMMA ContextNext ==
  ASSUME ~Slow, TypeOK, FreshOrder, InitiateBeforeMessage, ContextYoung, Next
  PROVE  ContextYoung'
  <1> USE BookingAssumption DEF TypeOK, ContextYoung, messageVars, orderVars
  <1>1. CASE Sync BY <1>1, SyncFrame
  <1>2. CASE Tick
    <2>1. \A o \in Orders, c \in Calls : web'[o][c] # "checked"
      BY <1>2 DEF Tick, Prompt
    <2>2. ASSUME NEW o \in Orders, context'[o] > 0
          PROVE  age'[o] + context'[o] <= ContextTTL
      <3>1. context'[o] = Down(context[o]) BY <1>2 DEF Tick
      <3>2. context[o] > 0 /\ context'[o] = context[o] - 1 BY <2>2, <3>1 DEF Down
      <3>3. age'[o] \in Nat /\ age'[o] <= age[o] + 1 BY <1>2 DEF Tick, Aged
      <3> QED BY <3>2, <3>3
    <2> QED BY <2>1, <2>2
  <1>3. ASSUME NEW h \in Holds, Reserving(h) PROVE ContextYoung'
    BY <1>3, ReservingFrame
  <1>4. ASSUME NEW m \in Letters, Delivery(m) PROVE ContextYoung'
    BY <1>4, ReleaseLeaves
  <1>5. ASSUME NEW o \in Orders, Initiate(o) PROVE ContextYoung'
    <2>1. UNCHANGED <<age, web>> BY <1>5, InitiateFrame
    <2>2. CASE InitiateContext(o)
      <3>1. age[o] = 0 BY <2>2 DEF InitiateContext, InitiateBeforeMessage
      <3> QED BY <2>1, <2>2, <3>1 DEF InitiateContext
    <2>3. CASE UNCHANGED context BY <2>1, <2>3
    <2> QED
      BY <1>5, <2>2, <2>3 DEF Initiate, InitiateRead, InitiateMark, InitiateCommit,
         InitiateFail, InitiateCrash
  <1>6. ASSUME NEW o \in Orders, NEW c \in Calls, Webhook(o, c) PROVE ContextYoung'
    <2>1. UNCHANGED age BY <1>6, WebhookFrame
    <2>2. CASE WebhookCheck(o, c)
      <3>1. age[o] < ContextTTL BY <2>2 DEF WebhookCheck
      <3>2. UNCHANGED context /\ web' = [web EXCEPT ![o][c] = "checked"]
        BY <2>2 DEF WebhookCheck, WebStep
      <3>3. ASSUME NEW p \in Orders, NEW d \in Calls, web'[p][d] = "checked"
            PROVE  age[p] < ContextTTL
        <4>1. CASE p = o BY <3>1, <4>1
        <4>2. CASE p # o BY <3>2, <3>3, <4>2
        <4> QED BY <4>1, <4>2
      <3> QED BY <2>1, <3>2, <3>3
    <2>3. CASE WebhookCommit(o, c) BY <2>1, <2>3 DEF WebhookCommit, WebStep
    <2>4. CASE WebhookUnreserve(o, c) BY <2>1, <2>4 DEF WebhookUnreserve, WebStep
    <2>5. CASE WebhookUnmark(o, c) BY <2>1, <2>5 DEF WebhookUnmark, WebStep
    <2>6. CASE WebhookForget(o, c) BY <2>1, <2>6 DEF WebhookForget, WebStep
    <2>7. CASE WebhookCrash(o, c) BY <2>1, <2>7 DEF WebhookCrash
    <2> QED BY <1>6, <2>2, <2>3, <2>4, <2>5, <2>6, <2>7 DEF Webhook
  <1> QED BY <1>1, <1>2, <1>3, <1>4, <1>5, <1>6 DEF Next

LEMMA NewestNext ==
  ASSUME TypeOK, FreshOrder, NewestYoungest, Next PROVE NewestYoungest'
  <1> USE BookingAssumption DEF TypeOK, NewestYoungest, OrderBuyer, messageVars, orderVars
  <1>1. CASE Sync BY <1>1, SyncFrame
  <1>2. CASE Tick
    <2>1. \A m, n \in 0..Lookback : m <= n => Aged(m) <= Aged(n) BY DEF Aged
    <2>2. UNCHANGED <<newest, status>> BY <1>2 DEF Tick
    <2>3. \A o \in Orders : status[o] # "none" => age'[o] = Aged(age[o]) BY <1>2 DEF Tick
    <2> SUFFICES ASSUME NEW o \in Orders, status[o] # "none"
                 PROVE  \E n \in newest[OrderBuyer(o)] :
                           /\ newest[OrderBuyer(o)] = {n}
                           /\ status[n] # "none" /\ age'[n] <= age'[o]
      BY <2>2
    <2>4. newest[OrderBuyer(o)] \subseteq Orders OBVIOUS
    <2>5. PICK n \in newest[OrderBuyer(o)] :
             /\ newest[OrderBuyer(o)] = {n}
             /\ status[n] # "none" /\ age[n] <= age[o]
      OBVIOUS
    <2>6. n \in Orders BY <2>4
    <2>7. age'[n] <= age'[o] BY <2>1, <2>3, <2>5, <2>6
    <2> QED BY <2>5, <2>7
  <1>3. ASSUME NEW h \in Holds, Reserving(h) PROVE NewestYoungest'
    BY <1>3, ReservingFrame
  <1>4. ASSUME NEW m \in Letters, Delivery(m) PROVE NewestYoungest'
    <2>1. UNCHANGED <<age, newest>> BY <1>4, ReleaseLeaves
    <2>2. \A o \in Orders : status[o] = "none" <=> status'[o] = "none" BY <1>4, ReleaseStatus
    <2> QED BY <2>1, <2>2
  <1>5. ASSUME NEW o \in Orders, Initiate(o) PROVE NewestYoungest'
    <2>1. UNCHANGED age BY <1>5, InitiateFrame
    <2>2. CASE InitiateCommit(o)
      <3>1. age[o] = 0 BY <2>2 DEF InitiateCommit, FreshOrder
      <3>2. /\ status' = [status EXCEPT ![o] = "PENDING"]
            /\ newest' = [newest EXCEPT ![OrderBuyer(o)] = {o}]
        BY <2>2 DEF InitiateCommit
      <3>3. OrderBuyer(o) \in Users OBVIOUS
      <3> SUFFICES ASSUME NEW p \in Orders, status'[p] # "none"
                   PROVE  \E n \in newest'[OrderBuyer(p)] :
                             /\ newest'[OrderBuyer(p)] = {n}
                             /\ status'[n] # "none" /\ age[n] <= age[p]
        BY <2>1
      <3>4. CASE OrderBuyer(p) = OrderBuyer(o)
        <4>1. newest'[OrderBuyer(p)] = {o} BY <3>2, <3>3, <3>4
        <4>2. status'[o] # "none" /\ age[o] <= age[p] BY <3>1, <3>2
        <4> QED BY <4>1, <4>2
      <3>5. CASE OrderBuyer(p) # OrderBuyer(o)
        <4>1. newest'[OrderBuyer(p)] = newest[OrderBuyer(p)] BY <3>2, <3>5
        <4>2. p # o BY <3>5
        <4>3. status[p] # "none" BY <3>2, <4>2
        <4>4. PICK n \in newest[OrderBuyer(p)] :
                 /\ newest[OrderBuyer(p)] = {n}
                 /\ status[n] # "none" /\ age[n] <= age[p]
          BY <4>3
        <4>5. n \in Orders BY <4>4
        <4>6. status'[n] # "none" BY <3>2, <4>4, <4>5
        <4> QED BY <4>1, <4>4, <4>6
      <3> QED BY <3>4, <3>5
    <2>3. CASE UNCHANGED <<status, newest>> BY <2>1, <2>3
    <2> QED
      BY <1>5, <2>2, <2>3 DEF Initiate, InitiateRead, InitiateMark, InitiateContext,
         InitiateFail, InitiateCrash
  <1>6. ASSUME NEW o \in Orders, NEW c \in Calls, Webhook(o, c) PROVE NewestYoungest'
    <2>1. UNCHANGED <<age, newest>> BY <1>6, WebhookFrame
    <2>2. CASE WebhookCommit(o, c)
      <3>1. status[o] # "none" BY <2>2 DEF WebhookCommit, WebStep, FreshOrder
      <3> QED BY <2>1, <2>2, <3>1 DEF WebhookCommit
    <2>3. CASE UNCHANGED status BY <2>1, <2>3
    <2> QED
      BY <1>6, <2>2, <2>3 DEF Webhook, WebhookCheck, WebhookUnreserve, WebhookUnmark,
         WebhookForget, WebhookCrash
  <1> QED BY <1>1, <1>2, <1>3, <1>4, <1>5, <1>6 DEF Next

\* A webhook delivery that has found the context belongs to a young order.
LEMMA CheckedIsYoung ==
  ASSUME TypeOK, ContextYoung, NEW o \in Orders, NEW c \in Calls, web[o][c] = "checked"
  PROVE  age[o] < PendingLimit
  BY BookingAssumption DEF TypeOK, ContextYoung

\* What ReleaseUnpaid finds: no order of the user is young and pending.
LEMMA UnpaidIsOld ==
  ASSUME TypeOK, CancelledOld, NewestYoungest, NEW m \in Letters, NEW o \in Orders,
         OrderBuyer(o) = Buyer[About[m]], status[o] # "none", age[o] < PendingLimit
  PROVE  ~ReleaseUnpaid(m) /\ ~ReleaseExpire(m)
  <1>1. PICK n \in newest[Buyer[About[m]]] :
           newest[Buyer[About[m]]] = {n} /\ status[n] # "none" /\ age[n] <= age[o]
    BY DEF NewestYoungest
  <1>2. n \in Orders BY <1>1, NewestAreOrders, BookingAssumption
  <1>3. age[n] < PendingLimit /\ age[n] < Lookback
    BY <1>1, <1>2, BookingAssumption DEF TypeOK
  <1>4. status[n] # "CANCELLED"
    BY <1>2, <1>3, BookingAssumption DEF CancelledOld, TypeOK
  <1>5. ~ReleaseUnpaid(m) BY <1>1, <1>3, <1>4 DEF ReleaseUnpaid, RecentOrder
  <1>6. ~(age[n] >= PendingLimit) BY <1>2, <1>3, BookingAssumption DEF TypeOK
  <1>7. ~ReleaseExpire(m) BY <1>1, <1>6, VictimIsOld
  <1> QED BY <1>5, <1>7

LEMMA CancelledNext ==
  ASSUME TypeOK, FreshOrder, ContextYoung, CancelledOld, Next PROVE CancelledOld'
  <1> USE BookingAssumption DEF TypeOK, CancelledOld, messageVars, orderVars
  <1>1. CASE Sync BY <1>1, SyncFrame
  <1>2. CASE Tick
    <2>1. \A n \in 0..Lookback : n >= PendingLimit => Aged(n) >= PendingLimit BY DEF Aged
    <2>2. UNCHANGED <<status, message, victim>> BY <1>2 DEF Tick
    <2>3. \A o \in Orders : status[o] # "none" => age'[o] = Aged(age[o]) BY <1>2 DEF Tick
    <2>4. \A o \in Orders : status[o] # "none" /\ age[o] >= PendingLimit => age'[o] >= PendingLimit
      BY <2>1, <2>3
    <2> QED BY <2>2, <2>4
  <1>3. ASSUME NEW h \in Holds, Reserving(h) PROVE CancelledOld'
    <2>1. /\ UNCHANGED <<orderVars, victim>> /\ message'[First[h]] \in {"queued", "lost"}
          /\ \A n \in Letters : n # First[h] => message'[n] = message[n]
      BY <1>3, ReservingFrame
    <2> QED BY <2>1
  <1>4. ASSUME NEW m \in Letters, Delivery(m) PROVE CancelledOld'
    <2>1. UNCHANGED age BY <1>4, ReleaseLeaves
    <2>2. \A o \in Orders : status'[o] # status[o] =>
             ReleaseCancel(m) /\ o \in victim[m] /\ status'[o] = "CANCELLED"
      BY <1>4, ReleaseStatus
    <2>3. \A o \in Orders : status'[o] = "CANCELLED" => age[o] >= PendingLimit
      BY <2>2 DEF ReleaseCancel
    <2>4. \A o \in Orders : status[o] \in {"PENDING", "CANCELLED"} =>
             status'[o] \in {"PENDING", "CANCELLED"}
      BY <2>2
    <2>5. ASSUME NEW n \in Letters, n # m, message'[n] = "cancelling"
          PROVE  message[n] = "cancelling" /\ victim'[n] = victim[n]
      BY <1>4, <2>5, ReleaseOthers DEF Same, Copied
    <2>6. ASSUME message'[m] = "cancelling"
          PROVE  \A o \in victim'[m] : status[o] = "PENDING" /\ age[o] >= PendingLimit
      <3>1. ReleaseExpire(m)
        BY <1>4, <2>6 DEF Delivery, Release, ReleaseCrash, AgainAck, AgainCrash, ReleaseRetry,
           PutBack, ReleaseStart, ReleaseKeep, ReleasePostpone, ReleaseCancel, ReleaseUnpaid,
           ReleaseReturn, ReleaseAck, TypeOK
      <3>2. PICK n \in Orders : /\ status[n] = "PENDING" /\ age[n] >= PendingLimit
                                /\ victim' = [victim EXCEPT ![m] = {n}]
        BY <3>1, VictimIsOld
      <3> QED BY <3>2
    <2>7. \A o \in victim'[m] : message'[m] = "cancelling" => o \in Orders
      BY <1>4, VictimIsOld DEF Delivery, Release, ReleaseCrash, AgainAck, AgainCrash, ReleaseRetry,
         PutBack, ReleaseStart, ReleaseKeep, ReleasePostpone, ReleaseCancel, ReleaseUnpaid,
         ReleaseReturn, ReleaseAck, TypeOK
    <2> QED BY <2>1, <2>3, <2>4, <2>5, <2>6, <2>7
  <1>5. ASSUME NEW o \in Orders, Initiate(o) PROVE CancelledOld'
    <2>1. UNCHANGED <<messageVars, age>> BY <1>5, InitiateFrame
    <2>2. CASE InitiateCommit(o)
      <3>1. status[o] = "none" /\ status' = [status EXCEPT ![o] = "PENDING"]
        BY <2>2 DEF InitiateCommit, FreshOrder
      <3> QED BY <2>1, <3>1
    <2>3. CASE UNCHANGED status BY <2>1, <2>3
    <2> QED
      BY <1>5, <2>2, <2>3 DEF Initiate, InitiateRead, InitiateMark, InitiateContext,
         InitiateFail, InitiateCrash
  <1>6. ASSUME NEW o \in Orders, NEW c \in Calls, Webhook(o, c) PROVE CancelledOld'
    <2>1. UNCHANGED <<messageVars, age>> BY <1>6, WebhookFrame
    <2>2. CASE WebhookCommit(o, c)
      <3>1. ~(age[o] >= PendingLimit)
        BY <2>2, CheckedIsYoung DEF WebhookCommit, WebStep
      <3>2. status' = [status EXCEPT ![o] = "COMPLETED"] BY <2>2 DEF WebhookCommit
      <3> QED BY <2>1, <3>1, <3>2
    <2>3. CASE UNCHANGED status BY <2>1, <2>3
    <2> QED
      BY <1>6, <2>2, <2>3 DEF Webhook, WebhookCheck, WebhookUnreserve, WebhookUnmark,
         WebhookForget, WebhookCrash
  <1> QED BY <1>1, <1>2, <1>3, <1>4, <1>5, <1>6 DEF Next

LEMMA YoungNext ==
  ASSUME TypeOK, FreshOrder, InitiateBeforeMessage, CancelledOld, NewestYoungest, YoungIsHeld, Next
  PROVE  YoungIsHeld'
  <1> USE BookingAssumption DEF TypeOK, YoungIsHeld, messageVars, orderVars
  <1>1. CASE Sync BY <1>1, SyncFrame
  <1>2. CASE Tick
    <2>1. \A n \in 0..Lookback : Aged(n) < PendingLimit => n < PendingLimit BY DEF Aged
    <2>2. UNCHANGED <<status, message, credits>> BY <1>2 DEF Tick
    <2>3. \A o \in Orders : status[o] # "none" => age'[o] = Aged(age[o]) BY <1>2 DEF Tick
    <2>4. \A o \in Orders : status[o] # "none" /\ age'[o] < PendingLimit => age[o] < PendingLimit
      BY <2>1, <2>3
    <2> QED BY <2>2, <2>4
  <1>3. ASSUME NEW h \in Holds, Reserving(h) PROVE YoungIsHeld'
    <2>1. /\ UNCHANGED <<orderVars, credits>> /\ message'[First[h]] \in {"queued", "lost"}
          /\ \A n \in Letters : n # First[h] => message'[n] = message[n]
      BY <1>3, ReservingFrame
    <2> QED BY <2>1 DEF GoesBack
  <1>4. ASSUME NEW m \in Letters, Delivery(m) PROVE YoungIsHeld'
    <2>1. UNCHANGED age BY <1>4, ReleaseLeaves
    <2>2. \A o \in Orders : status'[o] = "PENDING" => status[o] = "PENDING"
      BY <1>4, ReleaseStatus
    <2> SUFFICES ASSUME NEW o \in Orders, status[o] = "PENDING", age[o] < PendingLimit
                 PROVE  /\ credits'[HoldOf[o]] = 0
                        /\ \A n \in Letters : About[n] = HoldOf[o] => message'[n] \notin GoesBack
      BY <2>1, <2>2
    <2>3. ASSUME NEW n \in Letters, About[n] = HoldOf[o], n # m PROVE message'[n] \notin GoesBack
      BY <1>4, <2>3, ReleaseOthers DEF Same, Copied, GoesBack
    <2>4. CASE About[m] # HoldOf[o]
      <3>1. credits'[HoldOf[o]] = credits[HoldOf[o]] BY <1>4, <2>4, ReleaseCredits
      <3> QED BY <2>3, <2>4, <3>1
    <2>5. CASE About[m] = HoldOf[o]
      <3>1. ~ReleaseUnpaid(m) /\ ~ReleaseExpire(m)
        BY <2>5, UnpaidIsOld DEF OrderBuyer
      <3>2. message[m] \notin GoesBack BY <2>5
      <3>3. ~ReleaseCancel(m) /\ ~ReleaseReturn(m) /\ ~ReleaseAck(m)
        BY <3>2 DEF GoesBack, ReleaseCancel, ReleaseReturn, ReleaseAck
      <3>4. UNCHANGED credits BY <1>4, <3>3, ReleaseCredits
      <3>5. message'[m] \notin GoesBack
        BY <1>4, <3>1, <3>3 DEF GoesBack, Delivery, Release, ReleaseCrash, AgainAck, AgainCrash,
           ReleaseRetry, PutBack, ReleaseStart, ReleaseKeep, ReleasePostpone
      <3> QED BY <2>3, <3>4, <3>5
    <2> QED BY <2>4, <2>5
  <1>5. ASSUME NEW o \in Orders, Initiate(o) PROVE YoungIsHeld'
    <2>1. UNCHANGED <<messageVars, age>> BY <1>5, InitiateFrame
    <2>2. CASE InitiateCommit(o)
      <3>1. status' = [status EXCEPT ![o] = "PENDING"] BY <2>2 DEF InitiateCommit
      <3>2. /\ credits[HoldOf[o]] = 0
            /\ \A m \in Letters : About[m] = HoldOf[o] => message[m] \notin GoesBack
        BY <2>2 DEF InitiateCommit, InitiateBeforeMessage, Ahead, GoesBack
      <3> QED BY <2>1, <3>1, <3>2
    <2>3. CASE UNCHANGED status BY <2>1, <2>3
    <2> QED
      BY <1>5, <2>2, <2>3 DEF Initiate, InitiateRead, InitiateMark, InitiateContext,
         InitiateFail, InitiateCrash
  <1>6. ASSUME NEW o \in Orders, NEW c \in Calls, Webhook(o, c) PROVE YoungIsHeld'
    <2>1. UNCHANGED <<messageVars, age>> BY <1>6, WebhookFrame
    <2>2. CASE WebhookCommit(o, c)
      <3>1. status' = [status EXCEPT ![o] = "COMPLETED"] BY <2>2 DEF WebhookCommit
      <3> QED BY <2>1, <3>1
    <2>3. CASE UNCHANGED status BY <2>1, <2>3
    <2> QED
      BY <1>6, <2>2, <2>3 DEF Webhook, WebhookCheck, WebhookUnreserve, WebhookUnmark,
         WebhookForget, WebhookCrash
  <1> QED BY <1>1, <1>2, <1>3, <1>4, <1>5, <1>6 DEF Next

-----------------------------------------------------------------------------
(* Who changes the status of an order after it was created *)

LEMMA StatusWriters ==
  ASSUME TypeOK, FreshOrder, Next, NEW o \in Orders, status'[o] # status[o],
         status[o] # "none" \/ status'[o] # "PENDING"
  PROVE  \/ (\E c \in Calls : WebhookCommit(o, c)) /\ status'[o] = "COMPLETED"
         \/ \E m \in Letters : ReleaseCancel(m) /\ o \in victim[m] /\ status'[o] = "CANCELLED"
  <1> USE DEF TypeOK, orderVars
  <1>1. ~Sync BY SyncFrame
  <1>2. ~Tick BY DEF Tick
  <1>3. ASSUME NEW h \in Holds, Reserving(h) PROVE FALSE
    BY <1>3, ReservingFrame
  <1>4. ASSUME NEW m \in Letters, Delivery(m)
        PROVE  ReleaseCancel(m) /\ o \in victim[m] /\ status'[o] = "CANCELLED"
    BY <1>4, ReleaseStatus
  <1>5. ASSUME NEW p \in Orders, Initiate(p) PROVE FALSE
    <2>1. CASE InitiateCommit(p)
      <3>1. status[p] = "none" /\ status' = [status EXCEPT ![p] = "PENDING"]
        BY <2>1 DEF InitiateCommit, FreshOrder
      <3> QED BY <3>1
    <2>2. CASE UNCHANGED status BY <2>2
    <2> QED
      BY <1>5, <2>1, <2>2 DEF Initiate, InitiateRead, InitiateMark, InitiateContext, InitiateFail,
         InitiateCrash
  <1>6. ASSUME NEW p \in Orders, NEW c \in Calls, Webhook(p, c)
        PROVE  WebhookCommit(o, c) /\ status'[o] = "COMPLETED"
    <2>1. CASE WebhookCommit(p, c)
      <3>1. status' = [status EXCEPT ![p] = "COMPLETED"] BY <2>1 DEF WebhookCommit
      <3>2. p = o BY <3>1
      <3> QED BY <2>1, <3>1, <3>2
    <2>2. CASE UNCHANGED status BY <2>2
    <2> QED
      BY <1>6, <2>1, <2>2 DEF Webhook, WebhookCheck, WebhookUnreserve, WebhookUnmark,
         WebhookForget, WebhookCrash
  <1> QED BY <1>1, <1>2, <1>3, <1>4, <1>5, <1>6 DEF Next

-----------------------------------------------------------------------------
(* The theorems *)

LEMMA Stutter == ASSUME IInv, UNCHANGED vars PROVE IInv'
  <1> USE DEF IInv, vars, stockVars, keyVars, messageVars, orderVars
  <1>1. TypeOK' BY DEF TypeOK
  <1>2. FreshHold' /\ RetryLeft' /\ FreshOrder' BY DEF FreshHold, Made, RetryLeft, FreshOrder
  <1>3. KeyBeforeMessage' /\ InitiateBeforeMessage'
    BY DEF KeyBeforeMessage, InitiateBeforeMessage, Ahead
  <1>4. ContextYoung' /\ CancelledOld' BY DEF ContextYoung, CancelledOld
  <1>5. NewestYoungest' /\ YoungIsHeld' BY DEF NewestYoungest, YoungIsHeld
  <1> QED BY <1>1, <1>2, <1>3, <1>4, <1>5

\* Every value in Redis, in the tables and in the messages keeps its type; in
\* particular no counter goes below zero.  Whatever the speed of the handlers:
\* the stock a type starts with is all of its quantity because nothing can be
\* sold before its key exists.
THEOREM TypeCorrect == Spec => []TypeOK
  <1>1. Init => TypeOK /\ FreshHold /\ RetryLeft /\ FreshOrder
    BY InitInv DEF IInv
  <1>2. TypeOK /\ FreshHold /\ RetryLeft /\ FreshOrder /\ [Next]_vars =>
           (TypeOK /\ FreshHold /\ RetryLeft /\ FreshOrder)'
    <2> SUFFICES ASSUME TypeOK, FreshHold, RetryLeft, FreshOrder, [Next]_vars
                 PROVE  (TypeOK /\ FreshHold /\ RetryLeft /\ FreshOrder)'
      OBVIOUS
    <2>1. CASE Next BY <2>1, TypeNext, FreshHoldNext, RetryLeftNext, FreshOrderNext
    <2>2. CASE UNCHANGED vars
      BY <2>2 DEF TypeOK, FreshHold, Made, RetryLeft, FreshOrder, vars, stockVars, keyVars, messageVars, orderVars
    <2> QED BY <2>1, <2>2
  <1> QED BY <1>1, <1>2, PTL DEF Spec

\* The inductive invariant, when a handler takes less than a unit of time.
THEOREM Inductive == ASSUME ~Slow PROVE Spec => []IInv
  <1>1. Init => IInv BY InitInv
  <1>2. IInv /\ [Next]_vars => IInv'
    <2> SUFFICES ASSUME IInv, [Next]_vars PROVE IInv'
      OBVIOUS
    <2>1. CASE Next
      BY <2>1, TypeNext, FreshHoldNext, RetryLeftNext, FreshOrderNext, KeyNext, InitiateNext, ContextNext,
         CancelledNext, NewestNext, YoungNext DEF IInv
    <2>2. CASE UNCHANGED vars BY <2>2, Stutter
    <2> QED BY <2>1, <2>2
  <1> QED BY <1>1, <1>2, PTL DEF Spec

\* A reservation that can still be paid for has its tickets out of the stock:
\* the release message carries the delay of the key and is published after it.
THEOREM KeyKeepsTickets == ASSUME ~Slow PROVE Spec => []ReservedIsHeld
  <1>1. IInv => ReservedIsHeld
    BY DEF IInv, TypeOK, KeyBeforeMessage, ReservedIsHeld, Returned
  <1> QED BY <1>1, Inductive, PTL

\* No webhook completes an order whose tickets are back on sale: the context
\* it needs expires before the consumer takes the order for abandoned, and a
\* younger order of the user holds back the release of all of them.
THEOREM PaidBeforeReturned == ASSUME ~Slow PROVE Spec => NoSaleAfterReturn
  <1>1. IInv /\ [Next]_vars =>
           [\A o \in Orders :
               status[o] # "COMPLETED" /\ status'[o] = "COMPLETED" => ~Returned(HoldOf[o])]_vars
    <2> SUFFICES ASSUME IInv, Next, NEW o \in Orders,
                        status[o] # "COMPLETED", status'[o] = "COMPLETED"
                 PROVE  ~Returned(HoldOf[o])
      OBVIOUS
    <2>1. PICK c \in Calls : WebhookCommit(o, c)
      BY StatusWriters DEF IInv
    <2>2. web[o][c] = "checked" BY <2>1 DEF WebhookCommit, WebStep
    <2>3. age[o] < PendingLimit BY <2>2, CheckedIsYoung DEF IInv
    <2>4. status[o] = "PENDING"
      <3>1. status[o] # "none" BY <2>2 DEF IInv, FreshOrder
      <3>2. status[o] # "CANCELLED"
        BY <2>3, BookingAssumption DEF IInv, TypeOK, CancelledOld
      <3> QED BY <3>1, <3>2 DEF IInv, TypeOK, Status
    <2>5. credits[HoldOf[o]] = 0 BY <2>3, <2>4 DEF IInv, YoungIsHeld
    <2> QED BY <2>5 DEF Returned
  <1> QED BY <1>1, Inductive, PTL DEF Spec, NoSaleAfterReturn

LEMMA DecisionStays ==
  ASSUME IInv, Next, NEW o \in Orders, status[o] \in {"COMPLETED", "CANCELLED"}
  PROVE  status'[o] = status[o]
  <1> SUFFICES ASSUME status'[o] # status[o] PROVE FALSE
    OBVIOUS
  <1>1. \/ \E c \in Calls : WebhookCommit(o, c) /\ status'[o] = "COMPLETED"
        \/ \E m \in Letters : ReleaseCancel(m) /\ o \in victim[m] /\ status'[o] = "CANCELLED"
    BY StatusWriters DEF IInv
  <1>2. ASSUME NEW c \in Calls, WebhookCommit(o, c), status'[o] = "COMPLETED" PROVE FALSE
    <2>1. age[o] < PendingLimit
      BY <1>2, CheckedIsYoung DEF IInv, WebhookCommit, WebStep
    <2>2. status[o] = "CANCELLED" BY <1>2
    <2> QED BY <2>1, <2>2, BookingAssumption DEF IInv, TypeOK, CancelledOld
  <1>3. ASSUME NEW m \in Letters, ReleaseCancel(m), o \in victim[m], status'[o] = "CANCELLED"
        PROVE  FALSE
    <2>1. status[o] \in {"PENDING", "CANCELLED"}
      BY <1>3 DEF IInv, CancelledOld, ReleaseCancel
    <2> QED BY <1>3, <2>1
  <1> QED BY <1>1, <1>2, <1>3

\* Completed and cancelled orders stay so, although neither the webhook nor
\* the consumer looks at the status again when it writes: each has read
\* something that the other one's orders cannot have.
THEOREM DecisionsAreFinal == ASSUME ~Slow PROVE Spec => DecisionStands
  <1>1. IInv /\ [Next]_vars =>
           [\A o \in Orders :
               status[o] \in {"COMPLETED", "CANCELLED"} => status'[o] = status[o]]_vars
    BY DecisionStays
  <1> QED BY <1>1, Inductive, PTL DEF Spec, DecisionStands

\* What a delivery has checked still holds: nobody else completes the order.
CheckedIsOpen ==
    \A o \in Orders : \A c \in Calls :
        web[o][c] = "checked" => status[o] \in {"PENDING", "CANCELLED"}

\* The deliveries of one order do not meet between check and transaction.
DeliveriesApart ==
    \A o \in Orders : \A c, d \in Calls :
        web[o][c] = "checked" /\ web[o][d] = "checked" => c = d

LEMMA DeliveriesAlone ==
  ASSUME ~Slow PROVE Spec /\ []DeliveriesApart => [](TicketsMatchOrder /\ CheckedIsOpen)
  <1> DEFINE Inv == TicketsMatchOrder /\ CheckedIsOpen
  <1>1. Init => Inv
    BY DEF Init, TicketsMatchOrder, CheckedIsOpen
  <1>2. IInv /\ DeliveriesApart /\ Inv /\ [Next]_vars => Inv'
    <2> SUFFICES ASSUME IInv, DeliveriesApart, Inv, [Next]_vars PROVE Inv'
      OBVIOUS
    <2> USE BookingAssumption DEF TypeOK, TicketsMatchOrder, CheckedIsOpen, messageVars, orderVars
    <2>0. TypeOK /\ FreshOrder /\ CancelledOld BY DEF IInv
    <2>1. CASE Sync BY <2>1, SyncFrame
    <2>2. CASE Tick BY <2>2 DEF Tick
    <2>3. ASSUME NEW h \in Holds, Reserving(h) PROVE Inv'
      BY <2>0, <2>3, ReservingFrame
    <2>4. ASSUME NEW m \in Letters, Delivery(m) PROVE Inv'
      <3>1. UNCHANGED <<web, tickets>> BY <2>4, ReleaseLeaves
      <3>2. \A o \in Orders : status'[o] # status[o] =>
               ReleaseCancel(m) /\ o \in victim[m] /\ status'[o] = "CANCELLED"
        BY <2>0, <2>4, ReleaseStatus
      <3>3. \A o \in Orders : status'[o] # status[o] => status[o] # "COMPLETED"
        BY <2>0, <3>2 DEF ReleaseCancel, CancelledOld
      <3> QED BY <3>1, <3>2, <3>3
    <2>5. ASSUME NEW o \in Orders, Initiate(o) PROVE Inv'
      <3>1. UNCHANGED <<web, tickets>> BY <2>5, InitiateFrame
      <3>2. CASE InitiateCommit(o)
        <4>1. status[o] = "none" /\ status' = [status EXCEPT ![o] = "PENDING"]
          BY <2>0, <3>2 DEF InitiateCommit, FreshOrder
        <4> QED BY <2>0, <3>1, <4>1
      <3>3. CASE UNCHANGED status BY <3>1, <3>3
      <3> QED
        BY <2>5, <3>2, <3>3 DEF Initiate, InitiateRead, InitiateMark, InitiateContext,
           InitiateFail, InitiateCrash
    <2>6. ASSUME NEW o \in Orders, NEW c \in Calls, Webhook(o, c) PROVE Inv'
      <3>2. CASE WebhookCheck(o, c)
        <4>1. /\ status[o] \in {"PENDING", "CANCELLED"} /\ UNCHANGED <<status, tickets>>
              /\ web' = [web EXCEPT ![o][c] = "checked"]
          BY <3>2 DEF WebhookCheck, WebStep
        <4>2. \A p \in Orders : p # o => web'[p] = web[p] BY <2>0, <4>1
        <4> QED BY <2>0, <4>1, <4>2
      <3>3. CASE WebhookCommit(o, c)
        <4>1. /\ web[o][c] = "checked" /\ web' = [web EXCEPT ![o][c] = "paid"]
              /\ status' = [status EXCEPT ![o] = "COMPLETED"]
              /\ tickets' = [tickets EXCEPT ![o] = @ + Asked[HoldOf[o]]]
          BY <3>3 DEF WebhookCommit, WebStep
        <4>2. tickets[o] = 0 BY <4>1
        <4>3. tickets'[o] = Asked[HoldOf[o]] BY <2>0, <4>1, <4>2
        <4>4. TicketsMatchOrder' BY <2>0, <4>1, <4>3
        <4>5. \A p \in Orders : p # o => web'[p] = web[p] /\ status'[p] = status[p]
          BY <2>0, <4>1
        <4>6. \A d \in Calls : web'[o][d] # "checked" BY <2>0, <4>1 DEF DeliveriesApart
        <4>7. CheckedIsOpen' BY <4>5, <4>6
        <4> QED BY <4>4, <4>7
      <3>4. ASSUME UNCHANGED <<status, tickets>>,
                   \E s \in WebState \ {"checked"} : web' = [web EXCEPT ![o][c] = s]
            PROVE  Inv'
        <4>1. \A p \in Orders : \A d \in Calls : web'[p][d] = "checked" => web[p][d] = "checked"
          BY <2>0, <3>4
        <4> QED BY <3>4, <4>1
      <3> QED
        BY <2>6, <3>2, <3>3, <3>4 DEF Webhook, WebStep, WebState, WebhookUnreserve, WebhookUnmark,
           WebhookForget, WebhookCrash
    <2>7. CASE UNCHANGED vars BY <2>7 DEF vars
    <2> QED BY <2>1, <2>2, <2>3, <2>4, <2>5, <2>6, <2>7 DEF Next
  <1>3. Spec => []IInv BY Inductive
  <1> QED BY <1>1, <1>2, <1>3, PTL DEF Spec

\* When the deliveries of one order do not meet, a paid order has its
\* tickets, once, whatever is repeated and wherever a delivery dies.  (Two
\* that meet can both find it unpaid and both issue the tickets.)
THEOREM TicketsOnceApart ==
  ASSUME ~Slow PROVE Spec /\ []DeliveriesApart => []TicketsMatchOrder
  BY DeliveriesAlone, PTL

LEMMA OneCallApart == ASSUME NEW k, Calls = {k} PROVE DeliveriesApart
  BY DEF DeliveriesApart

\* In particular when the gateway delivers the next notice of an order only
\* after the last one was answered or died.
THEOREM TicketsOnce ==
  ASSUME ~Slow, NEW k, Calls = {k} PROVE Spec => []TicketsMatchOrder
  BY TicketsOnceApart, OneCallApart, PTL

-----------------------------------------------------------------------------
(* No ticket is sold twice *)

\* A message that is queued or whose handler may still die and meet it again.
OnItsWay(m) == message[m] \in {"queued"} \cup Handling

\* Some release of the hold is on its way.
Awaited(h) == \E m \in Letters : About[m] = h /\ OnItsWay(m)

\* What the code leaves to its users, who may reserve and try to pay as often
\* as they like.  The consumer looks at the newest order of a user: as long as
\* the release of a paid reservation is on its way, its order must be that one.
\* Nothing links a reservation to one order: two may be paid for the same one.
PaysLast ==
    \A o \in Orders : status[o] = "COMPLETED" /\ Awaited(HoldOf[o]) =>
        newest[OrderBuyer(o)] = {o}
PaysOnce ==
    \A o, p \in Orders :
        status[o] = "COMPLETED" /\ status[p] = "COMPLETED" /\ HoldOf[o] = HoldOf[p] => o = p

Orderly == PaysLast /\ PaysOnce /\ DeliveriesApart

\* No release is so late that the consumer no longer sees the order.
SeenInTime ==
    \A o \in Orders : status[o] = "COMPLETED" /\ Awaited(HoldOf[o]) => age[o] < Lookback

\* Whatever dies or is lost, the tickets of a paid hold are with its user.
PaidIsHeld ==
    \A o \in Orders : status[o] = "COMPLETED" =>
        /\ Made(HoldOf[o]) /\ credits[HoldOf[o]] = 0
        /\ \A m \in Letters : About[m] = HoldOf[o] => message[m] \notin GoesBack

\* The tickets of a hold were put back at most once: no handler of its release
\* died between INCRBY and its acknowledgement, and no message left behind by a
\* handler that died after publishing its successor found the hold unpaid, too.
ReturnsOnce == \A h \in Holds : credits[h] <= 1

\* One member for each ticket of the holds in S.
Seats(S) == UNION {{h} \X (1..Asked[h]) : h \in S}

\* The holds whose tickets are out of the stock, and those that are paid for.
Taken(t) == {h \in Holds : Kind[h] = t /\ Made(h) /\ credits[h] = 0}
Paid(t) == {h \in Holds : Kind[h] = t /\ PaidFor(h)}

\* Where the tickets of a type are.
Balance ==
    /\ ReturnsOnce =>
          \A t \in synced : stock[t] + Cardinality(Seats(Taken(t))) = Quantity[t]
    /\ \A t \in Types : sold[t] = Cardinality(Seats(Paid(t)))

LEMMA SeatsFinite ==
  ASSUME NEW S \in SUBSET Holds
  PROVE  IsFiniteSet(Seats(S)) /\ Cardinality(Seats(S)) \in Nat
  <1> DEFINE f == [h \in S |-> {h} \X (1..Asked[h])]
             T == {{h} \X (1..Asked[h]) : h \in S}
  <1>1. IsFiniteSet(S) BY BookingAssumption, FS_Subset
  <1>2. f \in Surjection(S, T) BY DEF Surjection
  <1>3. IsFiniteSet(T) BY <1>1, <1>2, FS_Surjection
  <1>4. ASSUME NEW h \in S PROVE IsFiniteSet({h} \X (1..Asked[h]))
    <2>1. Asked[h] \in Int BY BookingAssumption
    <2>2. IsFiniteSet(1..Asked[h]) BY <2>1, FS_Interval
    <2> QED BY <2>2, FS_Singleton, FS_Product
  <1>5. \A X \in T : IsFiniteSet(X) BY <1>4
  <1> HIDE DEF T
  <1>6. IsFiniteSet(UNION T) BY <1>3, <1>5, FS_UNION
  <1> QED BY <1>6, FS_CardinalityType DEF Seats, T

LEMMA SeatsAdd ==
  ASSUME NEW S \in SUBSET Holds, NEW h \in Holds, h \notin S
  PROVE  Cardinality(Seats(S \cup {h})) = Cardinality(Seats(S)) + Asked[h]
  <1> DEFINE X == {h} \X (1..Asked[h])
  <1>1. Asked[h] \in Nat BY BookingAssumption
  <1>2. IsFiniteSet(1..Asked[h]) /\ Cardinality(1..Asked[h]) = Asked[h]
    <2>1. Asked[h] \in Int /\ 1 \in Int BY <1>1
    <2> QED BY <1>1, <2>1, FS_Interval
  <1>3. IsFiniteSet(X) /\ Cardinality(X) = Asked[h]
    <2>1. IsFiniteSet({h}) /\ Cardinality({h}) = 1 BY FS_Singleton
    <2>2. IsFiniteSet(X) /\ Cardinality(X) = Cardinality({h}) * Cardinality(1..Asked[h])
      BY <1>2, <2>1, FS_Product
    <2>3. Cardinality(X) = 1 * Asked[h] BY <1>2, <2>1, <2>2
    <2> QED BY <1>1, <2>2, <2>3
  <1>5. Seats(S \cup {h}) = Seats(S) \cup X BY DEF Seats
  <1>6. Seats(S) \cap X = {} BY DEF Seats
  <1>7. IsFiniteSet(Seats(S)) /\ Cardinality(Seats(S)) \in Nat BY SeatsFinite
  <1> HIDE DEF X
  <1>8. Cardinality(Seats(S) \cup X)
          = Cardinality(Seats(S)) + Cardinality(X) - Cardinality(Seats(S) \cap X)
    BY <1>3, <1>7, FS_Union
  <1>9. Cardinality(Seats(S) \cap X) = 0 BY <1>6, FS_EmptySet
  <1>10. Cardinality(Seats(S)) + Asked[h] - 0 = Cardinality(Seats(S)) + Asked[h] BY <1>1, <1>7
  <1> QED BY <1>3, <1>5, <1>8, <1>9, <1>10

LEMMA SeatsGrow ==
  ASSUME NEW T \in SUBSET Holds, NEW S \in SUBSET T
  PROVE  Cardinality(Seats(S)) <= Cardinality(Seats(T))
  <1>1. Seats(S) \subseteq Seats(T) BY DEF Seats
  <1> QED BY <1>1, SeatsFinite, FS_Subset

LEMMA PaidIsHeldNext ==
  ASSUME PaysLast, SeenInTime, IInv, CheckedIsOpen, PaidIsHeld, Next
  PROVE  PaidIsHeld'
  <1> USE BookingAssumption DEF TypeOK, messageVars, orderVars
  <1>t. TypeOK /\ FreshOrder BY DEF IInv
  <1> DEFINE Held(o) == /\ Made(HoldOf[o]) /\ credits[HoldOf[o]] = 0
                        /\ \A m \in Letters : About[m] = HoldOf[o] => message[m] \notin GoesBack
  <1> SUFFICES ASSUME NEW o \in Orders, status'[o] = "COMPLETED"
               PROVE  Held(o)'
    BY DEF PaidIsHeld
  <1>o. HoldOf[o] \in Holds OBVIOUS
  <1>s. UNCHANGED <<message, credits>> /\ Held(o) => Held(o)' BY DEF Made
  <1>1. CASE status[o] # "COMPLETED"
    <2>1. PICK c \in Calls : WebhookCommit(o, c) BY <1>t, <1>1, StatusWriters
    <2>2. web[o][c] = "checked" /\ UNCHANGED <<message, credits>>
      BY <2>1 DEF WebhookCommit, WebStep
    <2>3. age[o] < PendingLimit BY <1>t, <2>2, CheckedIsYoung DEF IInv
    <2>4. status[o] = "PENDING"
      <3>1. status[o] \in {"PENDING", "CANCELLED"} BY <2>2 DEF CheckedIsOpen
      <3> QED BY <1>t, <2>3, <3>1 DEF IInv, CancelledOld
    <2>5. /\ \A m \in Letters : About[m] = HoldOf[o] => message[m] \notin GoesBack
          /\ credits[HoldOf[o]] = 0
      BY <2>3, <2>4 DEF IInv, YoungIsHeld
    <2>6. Made(HoldOf[o]) BY <1>t, <1>o, <2>4 DEF FreshOrder
    <2> QED BY <1>s, <2>2, <2>5, <2>6
  <1>2. CASE status[o] = "COMPLETED"
    <2>0. Held(o) BY <1>2 DEF PaidIsHeld
    <2> HIDE DEF Held
    <2>1. CASE Sync BY <1>s, <2>0, <2>1, SyncFrame
    <2>2. CASE Tick BY <1>s, <2>0, <2>2 DEF Tick
    <2>3. ASSUME NEW h \in Holds, Reserving(h) PROVE Held(o)'
      <3>1. /\ UNCHANGED credits /\ message'[First[h]] \in {"queued", "lost"}
            /\ \A n \in Letters : n # First[h] => message'[n] = message[n]
            /\ ~Made(h) /\ \A g \in Holds : g # h => (Made(g)' <=> Made(g))
        BY <1>t, <2>3, ReservingFrame
      <3> QED BY <1>o, <2>0, <3>1 DEF Held, GoesBack
    <2>4. ASSUME NEW m \in Letters, Delivery(m) PROVE Held(o)'
      <3>f. FreshHold BY DEF IInv
      <3>1. Made(HoldOf[o])' BY <1>t, <1>o, <2>0, <2>4, <3>f, ReleaseFrame DEF Held
      <3>2. ASSUME NEW n \in Letters, About[n] = HoldOf[o], n # m PROVE message'[n] \notin GoesBack
        BY <1>t, <2>0, <2>4, <3>2, ReleaseOthers DEF Held, Same, Copied, GoesBack
      <3>3. CASE HoldOf[o] # About[m]
        <4>1. credits'[HoldOf[o]] = credits[HoldOf[o]] BY <1>t, <1>o, <2>4, <3>3, ReleaseCredits
        <4> QED BY <2>0, <3>1, <3>2, <3>3, <4>1 DEF Held
      <3>4. CASE HoldOf[o] = About[m]
        <4>0. Awaited(HoldOf[o]) BY <2>4, <3>4, ReleaseHandles DEF Awaited, OnItsWay, Due
        <4>n. newest[Buyer[About[m]]] = {o} BY <1>2, <3>4, <4>0 DEF PaysLast, OrderBuyer
        <4>1. ~ReleaseExpire(m)
          <5> SUFFICES ASSUME ReleaseExpire(m) PROVE FALSE OBVIOUS
          <5>1. PICK n \in RecentOrder(Buyer[About[m]]) : status[n] = "PENDING" BY DEF ReleaseExpire
          <5>2. n = o BY <4>n, <5>1 DEF RecentOrder
          <5> QED BY <1>2, <5>1, <5>2
        <4>2. ~ReleaseUnpaid(m)
          <5> SUFFICES ASSUME ReleaseUnpaid(m) PROVE FALSE OBVIOUS
          <5>1. age[o] < Lookback BY <1>2, <4>0 DEF SeenInTime
          <5>2. o \in RecentOrder(Buyer[About[m]]) BY <4>n, <5>1 DEF RecentOrder
          <5> QED BY <1>2, <5>2 DEF ReleaseUnpaid
        <4>3. message[m] \notin GoesBack BY <2>0, <3>4 DEF Held
        <4>4. ~ReleaseCancel(m) /\ ~ReleaseReturn(m) /\ ~ReleaseAck(m)
          BY <4>3 DEF GoesBack, ReleaseCancel, ReleaseReturn, ReleaseAck
        <4>5. UNCHANGED credits BY <1>t, <2>4, <4>4, ReleaseCredits
        <4>6. message'[m] \notin GoesBack
          BY <1>t, <2>4, <4>1, <4>2, <4>4 DEF GoesBack, Delivery, Release, ReleaseRetry, PutBack,
             ReleaseStart, ReleaseKeep, ReleasePostpone, ReleaseCrash, AgainAck, AgainCrash
        <4> QED BY <2>0, <3>1, <3>2, <4>5, <4>6 DEF Held
      <3> QED BY <3>3, <3>4
    <2>5. ASSUME NEW p \in Orders, Initiate(p) PROVE UNCHANGED <<message, credits>>
      BY <2>5, InitiateFrame
    <2>6. ASSUME NEW p \in Orders, NEW c \in Calls, Webhook(p, c)
          PROVE  UNCHANGED <<message, credits>>
      BY <2>6, WebhookFrame
    <2> QED BY <1>s, <2>0, <2>1, <2>2, <2>3, <2>4, <2>5, <2>6 DEF Next, Held
  <1> QED BY <1>1, <1>2

\* Only a payment makes a hold a paid one.
LEMMA PaidForSame ==
  ASSUME IInv, Next, ~\E o \in Orders, c \in Calls : WebhookCommit(o, c), NEW h
  PROVE  PaidFor(h)' <=> PaidFor(h)
  <1>1. ASSUME NEW o \in Orders PROVE status'[o] = "COMPLETED" <=> status[o] = "COMPLETED"
    <2>1. CASE status[o] = "COMPLETED" BY <2>1, DecisionStays
    <2>2. CASE status[o] # "COMPLETED" /\ status'[o] = "COMPLETED"
      BY <2>2, StatusWriters DEF IInv
    <2> QED BY <2>1, <2>2
  <1> QED BY <1>1 DEF PaidFor

LEMMA PaidSame ==
  ASSUME IInv, Next, ~\E o \in Orders, c \in Calls : WebhookCommit(o, c), NEW t
  PROVE  Paid(t)' = Paid(t)
  BY PaidForSame DEF Paid

LEMMA TakenType ==
  ASSUME NEW t PROVE Taken(t) \in SUBSET Holds /\ Paid(t) \in SUBSET Holds
  BY DEF Taken, Paid

LEMMA TakenSame ==
  ASSUME \A h \in Holds : (Made(h)' <=> Made(h)) /\ credits'[h] = credits[h],
         NEW t
  PROVE  Taken(t)' = Taken(t)
  BY DEF Taken

\* The steps that move no ticket.
LEMMA BalanceSame ==
  ASSUME IInv, Balance, Next, ~\E o \in Orders, c \in Calls : WebhookCommit(o, c),
         UNCHANGED stockVars,
         \A h \in Holds : (Made(h)' <=> Made(h)) /\ credits'[h] = credits[h]
  PROVE  Balance'
  <1>1. ReturnsOnce' => ReturnsOnce BY DEF ReturnsOnce
  <1> QED BY <1>1, PaidSame, TakenSame DEF Balance, stockVars

LEMMA BalanceReserve ==
  ASSUME IInv, Balance, Next, NEW h \in Holds, Reserving(h) PROVE Balance'
  <1> USE BookingAssumption DEF TypeOK
  <1>1. TypeOK /\ FreshHold BY DEF IInv
  <1>2. /\ ~Made(h) /\ Made(h)' /\ UNCHANGED <<credits, web>>
        /\ \A g \in Holds : g # h => (Made(g)' <=> Made(g))
    BY <1>1, ReservingFrame
  <1>3. /\ Kind[h] \in synced /\ stock[Kind[h]] >= Asked[h] /\ UNCHANGED <<synced, sold>>
        /\ stock' = [stock EXCEPT ![Kind[h]] = @ - Asked[h]]
    BY DEF Reserving, ReserveGranted, ReserveLost, Reserve
  <1>4. credits[h] = 0 BY <1>1, <1>2 DEF FreshHold
  <1>5. \A o \in Orders, c \in Calls : ~WebhookCommit(o, c)
    BY <1>1, <1>2 DEF WebhookCommit, WebStep
  <1>6. \A t \in Types : sold'[t] = Cardinality(Seats(Paid(t)))' BY <1>3, <1>5, PaidSame DEF Balance
  <1>c. ReturnsOnce' => ReturnsOnce BY <1>2 DEF ReturnsOnce
  <1> SUFFICES ASSUME ReturnsOnce'
               PROVE  \A t \in synced' : stock'[t] + Cardinality(Seats(Taken(t)))' = Quantity[t]
    BY <1>6 DEF Balance
  <1>7. ASSUME NEW t \in synced', t # Kind[h]
        PROVE  stock'[t] + Cardinality(Seats(Taken(t)))' = Quantity[t]
    <2>1. Taken(t)' = Taken(t) BY <1>2, <1>7 DEF Taken
    <2>2. stock'[t] = stock[t] BY <1>1, <1>3, <1>7
    <2> QED BY <1>3, <1>c, <2>1, <2>2 DEF Balance
  <1>8. stock'[Kind[h]] + Cardinality(Seats(Taken(Kind[h])))' = Quantity[Kind[h]]
    <2>1. Taken(Kind[h])' = Taken(Kind[h]) \cup {h} /\ h \notin Taken(Kind[h])
      BY <1>2, <1>4 DEF Taken
    <2>2. Cardinality(Seats(Taken(Kind[h]) \cup {h}))
            = Cardinality(Seats(Taken(Kind[h]))) + Asked[h]
      BY <2>1, TakenType, SeatsAdd
    <2>3. Cardinality(Seats(Taken(Kind[h]))) \in Nat BY TakenType, SeatsFinite
    <2>4. stock'[Kind[h]] = stock[Kind[h]] - Asked[h] BY <1>1, <1>3
    <2>5. stock[Kind[h]] + Cardinality(Seats(Taken(Kind[h]))) = Quantity[Kind[h]]
      BY <1>3, <1>c DEF Balance
    <2>6. stock[Kind[h]] \in Nat /\ Asked[h] \in Nat BY <1>1
    <2> QED BY <2>1, <2>2, <2>3, <2>4, <2>5, <2>6
  <1> QED BY <1>7, <1>8

LEMMA BalanceReturn ==
  ASSUME IInv, Balance, Next, NEW m \in Letters, NEW h \in Holds, h = About[m],
         ReleaseReturn(m)
  PROVE  Balance'
  <1> USE BookingAssumption DEF TypeOK
  <1>1. TypeOK /\ FreshHold BY DEF IInv
  <1>m. Made(h) /\ \A g \in Holds : Made(g)' <=> Made(g)
    BY <1>1, ReleaseFrame, ReleaseOwn DEF Delivery, Release, FreshHold
  <1>2. /\ credits'[h] = credits[h] + 1 /\ UNCHANGED web
        /\ \A g \in Holds \ {h} : credits'[g] = credits[g]
        /\ stock' = [stock EXCEPT ![Kind[h]] = @ + Asked[h]] /\ UNCHANGED <<synced, sold>>
    BY <1>1 DEF ReleaseReturn, orderVars
  <1>4. \A o \in Orders, c \in Calls : ~WebhookCommit(o, c)
    BY <1>1, <1>2 DEF WebhookCommit, WebStep
  <1>5. \A t \in Types : sold'[t] = Cardinality(Seats(Paid(t)))' BY <1>2, <1>4, PaidSame DEF Balance
  <1> SUFFICES ASSUME ReturnsOnce'
               PROVE  \A t \in synced' : stock'[t] + Cardinality(Seats(Taken(t)))' = Quantity[t]
    BY <1>5 DEF Balance
  <1>3. credits[h] = 0 /\ credits'[h] # 0
    <2>1. credits'[h] <= 1 BY DEF ReturnsOnce
    <2>2. credits[h] \in Nat BY <1>1
    <2> QED BY <1>2, <2>1, <2>2
  <1>c. ReturnsOnce
    <2>1. ASSUME NEW g \in Holds PROVE credits[g] <= 1
      <3>1. CASE g = h BY <1>3, <3>1
      <3>2. CASE g # h BY <1>2, <3>2 DEF ReturnsOnce
      <3> QED BY <3>1, <3>2
    <2> QED BY <2>1 DEF ReturnsOnce
  <1>6. ASSUME NEW t \in synced', t # Kind[h]
        PROVE  stock'[t] + Cardinality(Seats(Taken(t)))' = Quantity[t]
    <2>1. Taken(t)' = Taken(t) BY <1>m, <1>2, <1>6 DEF Taken
    <2>2. stock'[t] = stock[t] BY <1>1, <1>2, <1>6
    <2> QED BY <1>2, <1>c, <2>1, <2>2 DEF Balance
  <1>7. stock'[Kind[h]] + Cardinality(Seats(Taken(Kind[h])))' = Quantity[Kind[h]]
    <2> DEFINE S == Taken(Kind[h]) \ {h}
    <2>1. Taken(Kind[h])' = S /\ S \cup {h} = Taken(Kind[h]) /\ h \notin S
      BY <1>m, <1>2, <1>3 DEF Taken
    <2>2. S \in SUBSET Holds BY TakenType
    <2> HIDE DEF S
    <2>3. Cardinality(Seats(S \cup {h})) = Cardinality(Seats(S)) + Asked[h]
      BY <2>1, <2>2, SeatsAdd
    <2>4. Cardinality(Seats(S)) \in Nat BY <2>2, SeatsFinite
    <2>5. stock'[Kind[h]] = stock[Kind[h]] + Asked[h] BY <1>1, <1>2
    <2>6. stock[Kind[h]] + Cardinality(Seats(Taken(Kind[h]))) = Quantity[Kind[h]]
      BY <1>m, <1>1, <1>2, <1>c DEF Balance, FreshHold
    <2>7. stock[Kind[h]] \in Nat /\ Asked[h] \in Nat BY <1>1
    <2>8. stock[Kind[h]] + (Cardinality(Seats(S)) + Asked[h]) = Quantity[Kind[h]]
      BY <2>1, <2>3, <2>6
    <2>9. stock'[Kind[h]] + Cardinality(Seats(S)) = Quantity[Kind[h]]
      BY <2>4, <2>5, <2>7, <2>8
    <2> QED BY <2>1, <2>9
  <1> QED BY <1>6, <1>7

LEMMA BalanceCommit ==
  ASSUME PaysOnce', IInv, CheckedIsOpen, Balance, NEW o \in Orders, NEW c \in Calls,
         WebhookCommit(o, c)
  PROVE  Balance'
  <1> USE BookingAssumption DEF TypeOK
  <1>1. TypeOK BY DEF IInv
  <1> DEFINE h == HoldOf[o]
  <1>2. h \in Holds /\ OrderKind(o) = Kind[h] /\ Kind[h] \in Types BY DEF OrderKind
  <1>3. /\ UNCHANGED <<synced, stock, message, credits>> /\ web[o][c] = "checked"
        /\ status' = [status EXCEPT ![o] = "COMPLETED"]
        /\ sold' = [sold EXCEPT ![Kind[h]] = @ + Asked[h]]
    BY <1>2 DEF WebhookCommit, WebStep, messageVars
  <1>4. status[o] # "COMPLETED" BY <1>3 DEF CheckedIsOpen
  <1>6. \A p \in Orders : status'[p] = "COMPLETED" <=> p = o \/ status[p] = "COMPLETED"
    BY <1>1, <1>3
  <1>5. \A p \in Orders : HoldOf[p] = h => status[p] # "COMPLETED"
    BY <1>4, <1>6 DEF PaysOnce
  <1> HIDE DEF h
  <1>7. \A t \in Types : stock'[t] = stock[t] /\ Taken(t)' = Taken(t) BY <1>3, TakenSame DEF Made
  <1>8. ASSUME NEW t \in Types, t # Kind[h] PROVE sold'[t] = Cardinality(Seats(Paid(t)))'
    <2>1. Paid(t)' = Paid(t) BY <1>6, <1>8 DEF Paid, PaidFor, h
    <2>2. sold'[t] = sold[t] BY <1>1, <1>3, <1>8
    <2> QED BY <2>1, <2>2 DEF Balance
  <1>9. sold'[Kind[h]] = Cardinality(Seats(Paid(Kind[h])))'
    <2>1. Paid(Kind[h])' = Paid(Kind[h]) \cup {h}
      BY <1>2, <1>6 DEF Paid, PaidFor, h
    <2>2. h \notin Paid(Kind[h]) BY <1>5 DEF Paid, PaidFor
    <2>3. Cardinality(Seats(Paid(Kind[h]) \cup {h})) = Cardinality(Seats(Paid(Kind[h]))) + Asked[h]
      BY <1>2, <2>2, TakenType, SeatsAdd
    <2>4. sold'[Kind[h]] = sold[Kind[h]] + Asked[h] BY <1>1, <1>2, <1>3
    <2> QED BY <1>2, <2>1, <2>3, <2>4 DEF Balance
  <1>10. ReturnsOnce' => ReturnsOnce BY <1>3 DEF ReturnsOnce
  <1> QED BY <1>1, <1>3, <1>7, <1>8, <1>9, <1>10 DEF Balance

LEMMA BalanceSync == ASSUME IInv, Balance, Next, Sync PROVE Balance'
  <1> USE BookingAssumption DEF TypeOK
  <1>1. TypeOK /\ FreshHold BY DEF IInv
  <1>2. /\ synced' = Types /\ UNCHANGED <<sold, message, credits, status, web>>
        /\ stock' = [t \in Types |-> IF t \in synced THEN stock[t] ELSE Quantity[t] - sold[t]]
    BY DEF Sync, messageVars, orderVars
  <1>3. \A t \in Types : Paid(t)' = Paid(t) BY <1>2 DEF Paid, PaidFor
  <1>5. ReturnsOnce' => ReturnsOnce BY <1>2 DEF ReturnsOnce
  <1>4. ASSUME ReturnsOnce', NEW t \in Types
        PROVE  stock'[t] + Cardinality(Seats(Taken(t)))' = Quantity[t]
    <2>1. Taken(t)' = Taken(t) BY <1>2, TakenSame DEF Made
    <2>2. CASE t \in synced BY <1>2, <1>4, <1>5, <2>1, <2>2 DEF Balance
    <2>3. CASE t \notin synced
      <3>1. Taken(t) = {} /\ sold[t] = 0 BY <1>1, <2>3 DEF FreshHold, Taken
      <3>2. Seats({}) = {} BY DEF Seats
      <3>3. Cardinality(Seats(Taken(t))) = 0 BY <3>1, <3>2, FS_EmptySet
      <3>4. stock'[t] = Quantity[t] /\ Quantity[t] \in Nat BY <1>2, <2>3, <3>1
      <3> QED BY <2>1, <3>3, <3>4
    <2> QED BY <2>2, <2>3
  <1> QED BY <1>2, <1>3, <1>4 DEF Balance

\* Of the steps of a release only the INCRBY moves tickets.
LEMMA ReleaseMovesNothing ==
  ASSUME TypeOK, FreshHold, NEW m \in Letters, Delivery(m), ~ReleaseReturn(m)
  PROVE  /\ UNCHANGED stockVars
         /\ \A g \in Holds : /\ Made(g)' <=> Made(g)
                             /\ credits'[g] = credits[g]
  <1>1. UNCHANGED stockVars
    BY DEF Delivery, Release, ReleaseRetry, ReleaseStart, ReleaseKeep, ReleasePostpone,
       ReleaseExpire, ReleaseCancel, ReleaseUnpaid, ReleaseAck, ReleaseCrash, AgainAck, AgainCrash
  <1> QED BY <1>1, ReleaseFrame, ReleaseCredits

LEMMA BalanceNext ==
  ASSUME PaysOnce', IInv, CheckedIsOpen, Balance, Next PROVE Balance'
  <1> DEFINE Still == \A h \in Holds : /\ Made(h)' <=> Made(h)
                                       /\ credits'[h] = credits[h]
  <1>t. TypeOK /\ FreshHold BY DEF IInv
  <1>1. CASE \E o \in Orders, c \in Calls : WebhookCommit(o, c) BY <1>1, BalanceCommit
  <1>2. CASE ~\E o \in Orders, c \in Calls : WebhookCommit(o, c)
    <2>0. UNCHANGED stockVars /\ Still => Balance' BY <1>2, BalanceSame
    <2>1. CASE Sync BY <2>1, BalanceSync
    <2>2. CASE Tick
      <3>1. UNCHANGED <<stockVars, message, credits>> BY <2>2 DEF Tick, stockVars
      <3> QED BY <2>0, <3>1 DEF Made
    <2>3. ASSUME NEW h \in Holds, Reserving(h) PROVE Balance' BY <2>3, BalanceReserve
    <2>4. ASSUME NEW m \in Letters, Delivery(m) PROVE Balance'
      <3>0. About[m] \in Holds BY BookingAssumption
      <3>1. CASE ReleaseReturn(m) BY <3>0, <3>1, BalanceReturn
      <3>2. CASE ~ReleaseReturn(m) BY <1>t, <2>0, <2>4, <3>2, ReleaseMovesNothing
      <3> QED BY <3>1, <3>2
    <2>5. ASSUME NEW o \in Orders, Initiate(o) PROVE Balance'
      <3>1. UNCHANGED messageVars BY <2>5, InitiateFrame
      <3>2. UNCHANGED stockVars
        BY <2>5 DEF Initiate, InitiateRead, InitiateMark, InitiateCommit, InitiateContext,
           InitiateFail, InitiateCrash
      <3> QED BY <2>0, <3>1, <3>2 DEF messageVars, Made
    <2>6. ASSUME NEW o \in Orders, NEW c \in Calls, Webhook(o, c) PROVE Balance'
      <3>1. UNCHANGED messageVars BY <2>6, WebhookFrame
      <3>2. UNCHANGED stockVars
        BY <1>2, <2>6 DEF Webhook, WebhookCheck, WebhookUnreserve, WebhookUnmark, WebhookForget,
           WebhookCrash
      <3> QED BY <2>0, <3>1, <3>2 DEF messageVars, Made
    <2> QED BY <2>1, <2>2, <2>3, <2>4, <2>5, <2>6 DEF Next
  <1> QED BY <1>1, <1>2

\* What is sold or held is never more than what there is.
LEMMA BalanceBounds ==
  ASSUME TypeOK, FreshOrder, PaidIsHeld, Balance, ReturnsOnce PROVE NoOversell
  <1> USE BookingAssumption DEF TypeOK
  <1> SUFFICES ASSUME NEW t \in synced PROVE sold[t] + stock[t] <= Quantity[t]
    BY DEF NoOversell
  <1>1. Paid(t) \subseteq Taken(t) BY DEF Paid, PaidFor, Taken, PaidIsHeld
  <1>2. Cardinality(Seats(Paid(t))) <= Cardinality(Seats(Taken(t)))
    BY <1>1, TakenType, SeatsGrow
  <1>3. /\ Cardinality(Seats(Paid(t))) \in Nat /\ Cardinality(Seats(Taken(t))) \in Nat
        /\ stock[t] \in Nat /\ Quantity[t] \in Nat
    BY TakenType, SeatsFinite
  <1>4. /\ stock[t] + Cardinality(Seats(Taken(t))) = Quantity[t]
        /\ sold[t] = Cardinality(Seats(Paid(t)))
    BY DEF Balance
  <1> QED BY <1>2, <1>3, <1>4

HInv == IInv /\ CheckedIsOpen /\ PaidIsHeld /\ Balance

LEMMA HoldsInvariant ==
  ASSUME ~Slow PROVE Spec /\ []Orderly /\ []SeenInTime => []HInv
  <1> DEFINE Rest == PaidIsHeld /\ Balance
  <1>1. Init => Rest
    <2> SUFFICES ASSUME Init PROVE Rest OBVIOUS
    <2>1. PaidIsHeld BY BookingAssumption DEF Init, PaidIsHeld
    <2>2. \A t \in Types : Paid(t) = {} BY DEF Init, Paid, PaidFor
    <2>3. Seats({}) = {} BY DEF Seats
    <2>4. Balance BY <2>2, <2>3, FS_EmptySet DEF Init, Balance
    <2> QED BY <2>1, <2>4
  <1>2. IInv /\ CheckedIsOpen /\ Orderly /\ Orderly' /\ SeenInTime /\ Rest /\ [Next]_vars => Rest'
    <2> SUFFICES ASSUME IInv, CheckedIsOpen, Orderly, Orderly', SeenInTime, Rest, [Next]_vars
                 PROVE  Rest'
      OBVIOUS
    <2>t. PaysLast /\ PaysOnce' BY DEF Orderly
    <2>1. CASE Next BY <2>t, <2>1, PaidIsHeldNext, BalanceNext
    <2>2. CASE UNCHANGED vars
      <3> USE <2>2 DEF vars, stockVars, keyVars, messageVars, orderVars
      <3>1. PaidIsHeld' BY DEF PaidIsHeld, Made
      <3>2. \A t : Paid(t)' = Paid(t) /\ Taken(t)' = Taken(t) BY DEF Paid, PaidFor, Taken, Made
      <3>3. Balance' BY <3>2 DEF Balance, ReturnsOnce
      <3> QED BY <3>1, <3>3
    <2> QED BY <2>1, <2>2
  <1>3. Spec => []IInv BY Inductive
  <1>4. Spec /\ []DeliveriesApart => [](TicketsMatchOrder /\ CheckedIsOpen) BY DeliveriesAlone
  <1>5. IInv /\ CheckedIsOpen /\ Rest => HInv BY DEF HInv
  <1>6. Orderly => DeliveriesApart BY DEF Orderly
  <1> QED BY <1>1, <1>2, <1>3, <1>4, <1>5, <1>6, PTL DEF Spec

\* As long as the users are orderly and the messages in time, the shop sells no
\* ticket twice unless tickets were put back twice.  The same conditions keep
\* the tickets of a paid hold from going back on sale, whatever dies or is lost.
LEMMA OrderlyBalance ==
  ASSUME ~Slow PROVE Spec /\ []Orderly /\ []SeenInTime => [](ReturnsOnce => NoOversell)
  <1>1. HInv => (ReturnsOnce => NoOversell) BY BalanceBounds DEF HInv, IInv
  <1> QED BY <1>1, HoldsInvariant, PTL

LEMMA OrderlyIsKept ==
  ASSUME ~Slow PROVE Spec /\ []Orderly /\ []SeenInTime => PaidHoldKept
  <1>1. HInv /\ HInv' /\ [Next]_vars => [\A h \in Holds : PaidFor(h) => credits'[h] = credits[h]]_vars
    <2> SUFFICES ASSUME HInv, HInv', Next, NEW h \in Holds, PaidFor(h) PROVE credits'[h] = credits[h]
      OBVIOUS
    <2>1. PICK o \in Orders : HoldOf[o] = h /\ status[o] = "COMPLETED" BY DEF PaidFor
    <2>2. status'[o] = "COMPLETED" BY <2>1, DecisionStays DEF HInv
    <2> QED BY <2>1, <2>2 DEF HInv, PaidIsHeld
  <1> QED BY <1>1, HoldsInvariant, PTL DEF Spec, PaidHoldKept

\* Without faults a reservation has one release message, which is published
\* again and again but never twice at a time, and its tickets go back once.
CreditedOnce ==
    /\ \A m \in Letters : message[m] # "free" => m = First[About[m]]
    /\ \A h \in Holds :
          credits[h] = IF message[First[h]] \in {"credited", "returned"} THEN 1 ELSE 0

LEMMA CreditedNext ==
  ASSUME MaxFaults = 0, TypeOK, CreditedOnce, Next PROVE CreditedOnce'
  <1> USE DEF TypeOK, CreditedOnce, messageVars
  <1>0. ~Fault BY DEF Fault
  <1>a. \A h \in Holds : First[h] \in Letters /\ About[First[h]] = h BY BookingAssumption
  <1>1. CASE Sync BY <1>1, SyncFrame
  <1>2. CASE Tick BY <1>2 DEF Tick
  <1>3. ASSUME NEW h \in Holds, Reserving(h) PROVE CreditedOnce'
    <2>1. ReserveGranted(h) BY <1>0, <1>3 DEF Reserving, ReserveLost
    <2>2. /\ message' = [message EXCEPT ![First[h]] = "queued"] /\ UNCHANGED credits
          /\ message[First[h]] = "free"
      BY <2>1 DEF ReserveGranted, Reserve, Made
    <2> QED BY <1>a, <2>2
  <1>4. ASSUME NEW m \in Letters, Delivery(m) PROVE CreditedOnce'
    <2>1. Release(m) BY <1>0, <1>4 DEF Delivery, ReleaseCrash, AgainCrash
    <2>2. \A n \in Letters : n # m => message'[n] = message[n]
      BY <1>0, <1>4, ReleaseOthers DEF Same, Copied, AgainCrash
    <2>3. m = First[About[m]] /\ About[m] \in Holds
      BY <1>4, ReleaseOwn, BookingAssumption
    <2>4. \A h \in Holds : h # About[m] => credits'[h] = credits[h] BY <1>4, ReleaseCredits
    <2>5. \A h \in Holds : h # About[m] => First[h] # m BY <1>a
    <2>6. \A n \in Letters : message'[n] # "free" => n = First[About[n]] BY <2>2, <2>3
    <2> SUFFICES credits'[About[m]] = IF message'[m] \in {"credited", "returned"} THEN 1 ELSE 0
      BY <1>a, <2>2, <2>3, <2>4, <2>5, <2>6
    <2>7. credits[About[m]] = IF message[m] \in {"credited", "returned"} THEN 1 ELSE 0 BY <2>3
    <2>8. CASE ReleaseReturn(m) BY <2>3, <2>7, <2>8 DEF ReleaseReturn
    <2>9. CASE ReleaseAck(m) BY <2>7, <2>9 DEF ReleaseAck
    <2>10. CASE ~ReleaseReturn(m) /\ ~ReleaseAck(m)
      <3>1. credits' = credits BY <1>4, <2>10, ReleaseCredits
      <3>2. message[m] \notin {"credited", "returned"}
        BY <2>1, <2>10 DEF Release, ReleaseRetry, ReleaseStart, ReleaseKeep, ReleasePostpone,
           ReleaseExpire, ReleaseCancel, ReleaseUnpaid, Due, AgainAck, Again
      <3>3. message'[m] \notin {"credited", "returned"}
        BY <1>0, <2>1, <2>10 DEF Release, ReleaseRetry, ReleaseStart, ReleaseKeep,
           ReleasePostpone, ReleaseExpire, ReleaseCancel, ReleaseUnpaid, Due, PutBack, AgainAck
      <3> QED BY <2>7, <3>1, <3>2, <3>3
    <2> QED BY <2>8, <2>9, <2>10
  <1>5. ASSUME NEW o \in Orders, Initiate(o) PROVE CreditedOnce' BY <1>5, InitiateFrame
  <1>6. ASSUME NEW o \in Orders, NEW c \in Calls, Webhook(o, c) PROVE CreditedOnce'
    BY <1>6, WebhookFrame
  <1> QED BY <1>1, <1>2, <1>3, <1>4, <1>5, <1>6 DEF Next

LEMMA ReturnedOnce == ASSUME MaxFaults = 0 PROVE Spec => []ReturnsOnce
  <1>1. Init => CreditedOnce BY BookingAssumption DEF Init, CreditedOnce
  <1>2. TypeOK /\ CreditedOnce /\ [Next]_vars => CreditedOnce'
    BY CreditedNext DEF vars, messageVars, CreditedOnce
  <1>3. CreditedOnce => ReturnsOnce BY DEF CreditedOnce, ReturnsOnce
  <1> QED BY <1>1, <1>2, <1>3, TypeCorrect, PTL DEF Spec

-----------------------------------------------------------------------------
(* Refinement of the box office *)

LEMMA FateMoves ==
  ASSUME NEW h \in Holds, NEW from, NEW to, FateOf(h) = from, FateOf(h)' = to,
         \A g \in Holds \ {h} : FateOf(g)' = FateOf(g)
  PROVE  Box!Moves(h, from, to)
  BY DEF Box!Moves

LEMMA FateSame ==
  ASSUME IInv, Next, ~\E o \in Orders, c \in Calls : WebhookCommit(o, c),
         NEW h, Made(h)' <=> Made(h), credits'[h] = credits[h]
  PROVE  FateOf(h)' = FateOf(h)
  BY PaidForSame DEF FateOf, Returned

LEMMA OpenRefines ==
  ASSUME IInv, Next, Sync PROVE Box!Open
  <1>1. TypeOK /\ FreshHold BY DEF IInv
  <1>2. /\ synced' = Types /\ UNCHANGED <<sold, message, credits, status>>
        /\ stock' = [t \in Types |-> IF t \in synced THEN stock[t] ELSE Quantity[t] - sold[t]]
    BY DEF Sync, messageVars, orderVars
  <1>3. \A t \in Types : t \notin synced => Quantity[t] - sold[t] = Quantity[t]
    BY <1>1, BookingAssumption DEF FreshHold
  <1>4. stock' = [t \in Types |-> IF t \in synced THEN stock[t] ELSE Quantity[t]]
    BY <1>2, <1>3
  <1>5. \A h : FateOf(h)' = FateOf(h) BY <1>2 DEF FateOf, PaidFor, Returned, Made
  <1> QED BY <1>2, <1>4, <1>5 DEF Box!Open

LEMMA TakeRefines ==
  ASSUME IInv, Next, NEW h \in Holds, Reserving(h) PROVE Box!Take(h)
  <1>1. TypeOK /\ FreshHold /\ FreshOrder BY DEF IInv
  <1>2. /\ ~Made(h) /\ Made(h)' /\ UNCHANGED <<credits, web>>
        /\ \A g \in Holds \ {h} : Made(g)' <=> Made(g)
    BY <1>1, ReservingFrame
  <1>3. /\ Kind[h] \in synced /\ stock[Kind[h]] >= Asked[h] /\ UNCHANGED <<synced, sold>>
        /\ stock' = [stock EXCEPT ![Kind[h]] = @ - Asked[h]]
    BY DEF Reserving, ReserveGranted, ReserveLost, Reserve
  <1>4. \A o \in Orders, c \in Calls : ~WebhookCommit(o, c)
    BY <1>1, <1>2 DEF TypeOK, WebhookCommit, WebStep
  <1>5. ~PaidFor(h) /\ ~Returned(h)
    BY <1>1, <1>2 DEF PaidFor, Returned, FreshHold, FreshOrder
  <1>6. FateOf(h) = "free" BY <1>2, <1>5 DEF FateOf
  <1>7. FateOf(h)' = "held"
    <2>1. ~PaidFor(h)' BY <1>4, <1>5, PaidForSame
    <2>2. ~Returned(h)' BY <1>2, <1>5 DEF Returned
    <2> QED BY <1>2, <2>1, <2>2 DEF FateOf
  <1>8. \A g \in Holds \ {h} : FateOf(g)' = FateOf(g) BY <1>2, <1>4, FateSame
  <1>9. Box!Moves(h, "free", "held") BY <1>6, <1>7, <1>8, FateMoves
  <1> QED BY <1>3, <1>9 DEF Box!Take

LEMMA SellRefines ==
  ASSUME PaysOnce', HInv, HInv', NEW o \in Orders, NEW c \in Calls, WebhookCommit(o, c)
  PROVE  Box!Sell(HoldOf[o])
  <1> DEFINE h == HoldOf[o]
  <1>1. TypeOK /\ FreshOrder BY DEF HInv, IInv
  <1>2. h \in Holds /\ OrderKind(o) = Kind[h] BY BookingAssumption DEF OrderKind
  <1>3. /\ UNCHANGED <<synced, stock, message, credits>> /\ web[o][c] = "checked"
        /\ status' = [status EXCEPT ![o] = "COMPLETED"]
        /\ sold' = [sold EXCEPT ![Kind[h]] = @ + Asked[h]]
    BY <1>2 DEF WebhookCommit, WebStep, messageVars
  <1>4. status[o] \in {"PENDING", "CANCELLED"} BY <1>3 DEF HInv, CheckedIsOpen
  <1>6. \A p \in Orders : status'[p] = "COMPLETED" <=> p = o \/ status[p] = "COMPLETED"
    BY <1>1, <1>3 DEF TypeOK
  <1>5. \A p \in Orders : HoldOf[p] = h => status[p] # "COMPLETED"
    BY <1>4, <1>6 DEF PaysOnce
  <1>7. credits[h] = 0
    <2>1. status'[o] = "COMPLETED" BY <1>6
    <2>2. credits'[h] = 0 BY <2>1 DEF HInv, PaidIsHeld
    <2> QED BY <1>3, <2>2
  <1>8. Made(h) BY <1>1, <1>4 DEF FreshOrder
  <1> HIDE DEF h
  <1>9. FateOf(h) = "held" BY <1>5, <1>7, <1>8 DEF FateOf, PaidFor, Returned
  <1>10. FateOf(h)' = "sold" BY <1>6 DEF FateOf, PaidFor, h
  <1>11. ASSUME NEW g \in Holds, g # h PROVE FateOf(g)' = FateOf(g)
    <2>1. PaidFor(g)' <=> PaidFor(g) BY <1>6, <1>11 DEF PaidFor, h
    <2> QED BY <1>3, <2>1 DEF FateOf, Returned, Made
  <1>12. Box!Moves(h, "held", "sold") BY <1>2, <1>9, <1>10, <1>11, FateMoves
  <1> QED BY <1>3, <1>12 DEF Box!Sell, h

LEMMA PutBackRefines ==
  ASSUME HInv, Next, NEW m \in Letters, NEW h \in Holds, h = About[m],
         ReleaseReturn(m), ReturnsOnce'
  PROVE  Box!PutBack(h)
  <1>1. TypeOK BY DEF HInv, IInv
  <1>f. FreshHold BY DEF HInv, IInv
  <1>m. Made(h) /\ \A g \in Holds : Made(g)' <=> Made(g)
    BY <1>1, <1>f, ReleaseFrame, ReleaseOwn DEF Delivery, Release, FreshHold
  <1>2. /\ message[m] = "returning" /\ credits'[h] = credits[h] + 1
        /\ \A g \in Holds \ {h} : credits'[g] = credits[g]
        /\ stock' = [stock EXCEPT ![Kind[h]] = @ + Asked[h]] /\ UNCHANGED <<synced, sold, web>>
    BY <1>1 DEF TypeOK, ReleaseReturn, orderVars
  <1>3. credits[h] = 0
    <2>1. credits'[h] <= 1 BY DEF ReturnsOnce
    <2>2. credits[h] \in Nat BY <1>1 DEF TypeOK
    <2> QED BY <1>2, <2>1, <2>2
  <1>4. \A o \in Orders, c \in Calls : ~WebhookCommit(o, c)
    BY <1>1, <1>2 DEF TypeOK, WebhookCommit, WebStep
  <1>5. ~PaidFor(h) BY <1>2 DEF HInv, PaidIsHeld, PaidFor, GoesBack
  <1>6. FateOf(h) = "held" BY <1>m, <1>3, <1>5 DEF FateOf, Returned
  <1>7. FateOf(h)' = "back"
    <2>1. ~PaidFor(h)' BY <1>4, <1>5, PaidForSame DEF HInv
    <2>2. Returned(h)' BY <1>2, <1>3 DEF Returned
    <2> QED BY <2>1, <2>2 DEF FateOf
  <1>8. \A g \in Holds \ {h} : FateOf(g)' = FateOf(g) BY <1>m, <1>2, <1>4, FateSame DEF HInv
  <1>9. Box!Moves(h, "held", "back") BY <1>6, <1>7, <1>8, FateMoves
  <1> QED BY <1>2, <1>9 DEF Box!PutBack

\* The steps that move no ticket are no steps of the office.
LEMMA NothingMoves ==
  ASSUME IInv, Next, ~\E o \in Orders, c \in Calls : WebhookCommit(o, c),
         UNCHANGED stockVars,
         \A h \in Holds : (Made(h)' <=> Made(h)) /\ credits'[h] = credits[h]
  PROVE  UNCHANGED Box!boxVars
  <1>1. \A h \in Holds : FateOf(h)' = FateOf(h) BY FateSame
  <1> QED BY <1>1 DEF Box!boxVars, stockVars

LEMMA StepServes ==
  ASSUME PaysOnce', HInv, HInv', ReturnsOnce', Next PROVE [Box!BoxNext]_(Box!boxVars)
  <1> DEFINE Still == \A h \in Holds : /\ Made(h)' <=> Made(h)
                                       /\ credits'[h] = credits[h]
             Goal == [Box!BoxNext]_(Box!boxVars)
  <1>t. IInv /\ TypeOK /\ FreshHold BY DEF HInv, IInv
  <1>1. CASE \E o \in Orders, c \in Calls : WebhookCommit(o, c)
    <2>1. PICK o \in Orders, c \in Calls : WebhookCommit(o, c) BY <1>1
    <2>2. HoldOf[o] \in Holds BY BookingAssumption
    <2> QED BY <2>1, <2>2, SellRefines DEF Box!BoxNext
  <1>2. CASE ~\E o \in Orders, c \in Calls : WebhookCommit(o, c)
    <2>0. UNCHANGED stockVars /\ Still => Goal BY <1>t, <1>2, NothingMoves
    <2> HIDE DEF Goal
    <2>1. ASSUME Sync PROVE Goal BY <1>t, <2>1, OpenRefines DEF Goal, Box!BoxNext
    <2>2. ASSUME Tick PROVE Goal
      <3>1. UNCHANGED <<stockVars, message, credits>> BY <2>2 DEF Tick, stockVars
      <3> QED BY <2>0, <3>1 DEF Made
    <2>3. ASSUME NEW h \in Holds, Reserving(h) PROVE Goal
      BY <1>t, <2>3, TakeRefines DEF Goal, Box!BoxNext
    <2>4. ASSUME NEW m \in Letters, Delivery(m) PROVE Goal
      <3>0. About[m] \in Holds BY BookingAssumption
      <3>1. CASE ReleaseReturn(m) BY <3>0, <3>1, PutBackRefines DEF Goal, Box!BoxNext
      <3>2. CASE ~ReleaseReturn(m) BY <1>t, <2>0, <2>4, <3>2, ReleaseMovesNothing
      <3> QED BY <3>1, <3>2
    <2>5. ASSUME NEW o \in Orders, Initiate(o) PROVE Goal
      <3>1. UNCHANGED messageVars BY <2>5, InitiateFrame
      <3>2. UNCHANGED stockVars
        BY <2>5 DEF Initiate, InitiateRead, InitiateMark, InitiateCommit, InitiateContext,
           InitiateFail, InitiateCrash
      <3> QED BY <2>0, <3>1, <3>2 DEF messageVars, Made
    <2>6. ASSUME NEW o \in Orders, NEW c \in Calls, Webhook(o, c) PROVE Goal
      <3>1. UNCHANGED messageVars BY <2>6, WebhookFrame
      <3>2. UNCHANGED stockVars
        BY <1>2, <2>6 DEF Webhook, WebhookCheck, WebhookUnreserve, WebhookUnmark, WebhookForget,
           WebhookCrash
      <3> QED BY <2>0, <3>1, <3>2 DEF messageVars, Made
    <2>7. Goal BY <2>1, <2>2, <2>3, <2>4, <2>5, <2>6 DEF Next
    <2> QED BY <2>7 DEF Goal
  <1> QED BY <1>1, <1>2

LEMMA OrderlyIsServed ==
  ASSUME ~Slow
  PROVE  Spec /\ []Orderly /\ []SeenInTime /\ []ReturnsOnce => ImplementsBoxOffice
  <1>1. Init => Box!BoxInit
    <2> SUFFICES ASSUME Init PROVE Box!BoxInit OBVIOUS
    <2>1. \A h \in Holds : FateOf(h) = "free" BY BookingAssumption DEF Init, FateOf, PaidFor, Returned, Made
    <2> QED BY <2>1 DEF Init, Box!BoxInit
  <1>2. Orderly' /\ HInv /\ HInv' /\ ReturnsOnce' /\ [Next]_vars => [Box!BoxNext]_(Box!boxVars)
    <2>1. CASE UNCHANGED vars
      <3> USE <2>1 DEF vars, stockVars, messageVars, orderVars
      <3>1. \A h : FateOf(h)' = FateOf(h) BY DEF FateOf, PaidFor, Returned, Made
      <3> QED BY <3>1 DEF Box!boxVars
    <2> QED BY <2>1, StepServes DEF Orderly
  <1> QED BY <1>1, <1>2, HoldsInvariant, PTL DEF Spec, ImplementsBoxOffice, Box!BoxSpec

-----------------------------------------------------------------------------
(* Users who reserve and try to pay as often as they like *)

\* How long the put backs that a message has left may take.
Budget(r) == (MaxRetry - r) * (Requeue + MaxLate)

\* Nor is a message so often put back that the consumer no longer sees the
\* order of its hold.  (With the lives and limits of the code, ten minutes,
\* fifteen, thirty and five put backs of one minute: as long as the consumer is
\* never more than a minute and a half late.)
RetriesInTime ==
    /\ ReservationTTL + MaxLate + Budget(0) < Lookback
    /\ PendingLimit + Requeue + MaxLate + Budget(0) <= Lookback

\* A message that is being handled was due.
HandledIsDue == \A m \in Letters : message[m] \in Handling => delay[m] <= MaxLate

\* The latest that a message on its way, or those published in its place, can
\* be handled to the end, unless one of them finds a young order again.
Wait(m) ==
    Budget(retry[m]) + IF message[m] = "postponed" THEN Requeue + MaxLate ELSE delay[m]

\* The newest order of a user is seen by every message of its hold.
StillSeen ==
    /\ \A m \in Letters : OnItsWay(m) => Wait(m) < Lookback
    /\ \A o \in Orders, m \in Letters :
          /\ status[o] # "none" /\ o \in newest[OrderBuyer(o)]
          /\ About[m] = HoldOf[o] /\ OnItsWay(m)
          => age[o] + Wait(m) < Lookback

LEMMA BudgetFacts ==
  /\ Budget(0) \in Nat
  /\ \A r \in 0..MaxRetry : Budget(r) \in Nat /\ Budget(r) <= Budget(0)
  /\ \A r \in 0..MaxRetry : r < MaxRetry => Budget(r + 1) + (Requeue + MaxLate) = Budget(r)
  <1>1. PICK d \in Nat : d = Requeue + MaxLate BY BookingAssumption
  <1>2. PICK m \in Nat : m = MaxRetry BY BookingAssumption
  <1>3. \A n \in Nat : n * d \in Nat BY <1>1
  <1>4. ASSUME NEW r \in 0..m PROVE (m - r) * d \in Nat /\ (m - r) * d <= m * d
    <2>1. m - r \in Nat /\ r * d \in Nat /\ (m - r) * d \in Nat /\ m * d \in Nat
      BY <1>1, <1>2, <1>3
    <2>2. m * d = (m - r) * d + r * d BY <1>1, <1>2
    <2> QED BY <2>1, <2>2
  <1>5. ASSUME NEW r \in 0..m, r < m PROVE (m - (r + 1)) * d + d = (m - r) * d
    BY <1>1, <1>2
  <1>6. Budget(0) \in Nat
    <2>1. m - 0 \in Nat BY <1>2
    <2> QED BY <1>1, <1>2, <1>3, <2>1 DEF Budget
  <1>7. Budget(0) = m * d BY <1>1, <1>2 DEF Budget
  <1> QED BY <1>1, <1>2, <1>4, <1>5, <1>6, <1>7 DEF Budget

LEMMA WaitType ==
  ASSUME TypeOK, NEW m \in Letters
  PROVE  Wait(m) \in Nat /\ delay[m] \in Nat /\ retry[m] \in 0..MaxRetry /\ Budget(retry[m]) \in Nat
  <1>1. retry[m] \in 0..MaxRetry /\ delay[m] \in Nat BY DEF TypeOK
  <1>2. Requeue + MaxLate \in Nat BY BookingAssumption
  <1> QED BY <1>1, <1>2, BudgetFacts DEF Wait

LEMMA WaitSame ==
  ASSUME NEW m \in Letters, message'[m] = message[m], delay'[m] = delay[m], retry'[m] = retry[m]
  PROVE  Wait(m)' = Wait(m) /\ (OnItsWay(m)' <=> OnItsWay(m))
  BY DEF Wait, Budget, OnItsWay

LEMMA HandledIsDueNext == ASSUME TypeOK, HandledIsDue, Next PROVE HandledIsDue'
  <1>1. CASE Sync BY <1>1, SyncFrame DEF HandledIsDue, messageVars
  <1>2. CASE Tick
    <2> SUFFICES ASSUME NEW m \in Letters, message[m] \in Handling PROVE delay'[m] <= MaxLate
      BY <1>2 DEF HandledIsDue, Tick
    <2>1. delay[m] \in Nat /\ MaxLate \in Nat /\ delay[m] <= MaxLate
      BY BookingAssumption DEF HandledIsDue, TypeOK
    <2>2. delay'[m] = Down(delay[m]) BY <1>2 DEF Tick
    <2> QED BY <2>1, <2>2 DEF Down
  <1>3. ASSUME NEW h \in Holds, Reserving(h) PROVE HandledIsDue'
    <2>1. First[h] \in Letters BY BookingAssumption
    <2> QED BY <1>3, <2>1, ReservingFrame DEF HandledIsDue, Handling, Again
  <1>4. ASSUME NEW m \in Letters, Delivery(m) PROVE HandledIsDue'
    <2> SUFFICES ASSUME NEW n \in Letters, message'[n] \in Handling PROVE delay'[n] <= MaxLate
      BY DEF HandledIsDue
    <2>1. CASE n # m
      <3>1. Same(n) BY <1>4, <2>1, ReleaseOthers DEF Copied, Handling, Again
      <3> QED BY <3>1 DEF Same, HandledIsDue
    <2>2. CASE n = m
      <3>1. delay[m] <= MaxLate BY <1>4, ReleaseHandles DEF Due, HandledIsDue
      <3>2. ~AgainAck(m) /\ ~AgainCrash(m)
        BY <2>2 DEF TypeOK, AgainAck, AgainCrash, Handling, Again
      <3>3. delay' = delay
        BY <1>4, <3>2 DEF Delivery, Release, ReleaseCrash, ReleaseRetry, ReleaseStart, ReleaseKeep,
           ReleasePostpone, ReleaseExpire, ReleaseCancel, ReleaseUnpaid, ReleaseReturn, ReleaseAck
      <3> QED BY <2>2, <3>1, <3>3
    <2> QED BY <2>1, <2>2
  <1>5. ASSUME NEW o \in Orders, Initiate(o) PROVE HandledIsDue'
    BY <1>5, InitiateFrame DEF HandledIsDue, messageVars
  <1>6. ASSUME NEW o \in Orders, NEW c \in Calls, Webhook(o, c) PROVE HandledIsDue'
    BY <1>6, WebhookFrame DEF HandledIsDue, messageVars
  <1> QED BY <1>1, <1>2, <1>3, <1>4, <1>5, <1>6 DEF Next

\* What a message published in place of m may still take is part of what m had.
LEMMA NextWait ==
  ASSUME TypeOK, RetryLeft, NEW m \in Letters, message[m] \in Again
  PROVE  /\ Requeue + MaxLate + Budget(NextRetry(m)) \in Nat
         /\ Requeue + MaxLate + Budget(NextRetry(m)) <= Wait(m)
  <1>n. Requeue \in Nat /\ MaxLate \in Nat BY BookingAssumption
  <1>t. delay[m] \in Nat /\ retry[m] \in 0..MaxRetry /\ Budget(retry[m]) \in Nat BY WaitType
  <1>1. CASE message[m] = "postponed" BY <1>n, <1>t, <1>1 DEF Wait, NextRetry
  <1>2. CASE message[m] = "retried"
    <2>1. retry[m] < MaxRetry /\ NextRetry(m) = retry[m] + 1
      BY <1>2 DEF RetryLeft, NextRetry
    <2>2. Budget(retry[m] + 1) + (Requeue + MaxLate) = Budget(retry[m])
      BY <1>t, <2>1, BudgetFacts
    <2>3. retry[m] + 1 \in 0..MaxRetry BY <1>t, <2>1, BookingAssumption
    <2>4. Budget(retry[m] + 1) \in Nat BY <2>3, BudgetFacts
    <2>5. Wait(m) = Budget(retry[m]) + delay[m] BY <1>2 DEF Wait
    <2> QED BY <1>n, <1>t, <2>1, <2>2, <2>4, <2>5
  <1> QED BY <1>1, <1>2 DEF Again

LEMMA CopyWaits ==
  ASSUME TypeOK, RetryLeft, NEW m \in Letters, NEW n \in Letters, Copied(m, n)
  PROVE  Wait(n)' \in Nat /\ Wait(n)' <= Wait(m)
  <1>1. /\ message'[n] = "queued" /\ delay'[n] = Requeue + MaxLate /\ retry'[n] = NextRetry(m)
        /\ message[m] \in Again
    BY DEF Copied
  <1>2. Wait(n)' = Budget(NextRetry(m)) + (Requeue + MaxLate) BY <1>1 DEF Wait, Budget
  <1>3. Requeue \in Nat /\ MaxLate \in Nat BY BookingAssumption
  <1>4. NextRetry(m) \in 0..MaxRetry
    BY <1>1, BookingAssumption DEF TypeOK, Again, NextRetry, RetryLeft
  <1>5. Budget(NextRetry(m)) \in Nat BY <1>4, BudgetFacts
  <1> QED BY <1>1, <1>2, <1>3, <1>5, NextWait

\* How the release consumer leaves the message it handles.
LEMMA OwnWaits ==
  ASSUME TypeOK, RetryLeft, HandledIsDue, NEW m \in Letters, Delivery(m), ~ReleasePostpone(m),
         OnItsWay(m)'
  PROVE  Wait(m)' \in Nat /\ Wait(m)' <= Wait(m)
  <1>n. Requeue \in Nat /\ MaxLate \in Nat BY BookingAssumption
  <1>t. /\ delay[m] \in Nat /\ retry[m] \in 0..MaxRetry /\ Budget(retry[m]) \in Nat
        /\ Wait(m) \in Nat
    BY WaitType
  <1>1. CASE AgainAck(m)
    <2>1. /\ message'[m] = "queued" /\ delay'[m] = Requeue + MaxLate /\ retry'[m] = NextRetry(m)
          /\ message[m] \in Again
      BY <1>1 DEF AgainAck, TypeOK
    <2>2. Wait(m)' = Budget(NextRetry(m)) + (Requeue + MaxLate) BY <2>1 DEF Wait, Budget
    <2>3. NextRetry(m) \in 0..MaxRetry
      BY <2>1, BookingAssumption DEF TypeOK, Again, NextRetry, RetryLeft
    <2>4. Budget(NextRetry(m)) \in Nat BY <2>3, BudgetFacts
    <2> QED BY <1>n, <2>1, <2>2, <2>4, NextWait
  <1>2. CASE AgainCrash(m)
    <2>1. /\ message'[m] = "queued" /\ delay'[m] = delay[m] /\ retry'[m] = retry[m]
          /\ message[m] \in Again
      BY <1>2 DEF AgainCrash, TypeOK, Again
    <2>2. Wait(m)' = Budget(retry[m]) + delay[m] BY <2>1 DEF Wait, Budget
    <2>3. delay[m] <= MaxLate BY <2>1 DEF HandledIsDue, Handling
    <2> QED BY <1>n, <1>t, <2>2, <2>3 DEF Wait
  <1>3. CASE ~AgainAck(m) /\ ~AgainCrash(m)
    <2>1. UNCHANGED <<delay, retry>>
      BY <1>3 DEF Delivery, Release, ReleaseCrash, ReleaseRetry, ReleaseStart, ReleaseKeep,
         ReleasePostpone, ReleaseExpire, ReleaseCancel, ReleaseUnpaid, ReleaseReturn, ReleaseAck,
         messageVars
    <2>2. message[m] # "postponed" /\ message'[m] # "postponed"
      BY <1>3 DEF TypeOK, Delivery, Release, ReleaseCrash, ReleaseRetry, PutBack, ReleaseStart,
         ReleaseKeep, ReleaseExpire, ReleaseCancel, ReleaseUnpaid, ReleaseReturn, ReleaseAck, Due,
         Handling, Again
    <2>3. Wait(m)' = Budget(retry[m]) + delay[m] /\ Wait(m) = Budget(retry[m]) + delay[m]
      BY <2>1, <2>2 DEF Wait, Budget
    <2> QED BY <1>t, <2>3
  <1> QED BY <1>1, <1>2, <1>3

\* How the release consumer leaves the messages of the hold behind.
LEMMA ReleasedSeen ==
  ASSUME RetriesInTime, TypeOK, RetryLeft, HandledIsDue, NewestYoungest, StillSeen,
         NEW m \in Letters, Delivery(m), NEW k \in Letters, k = m \/ Copied(m, k), OnItsWay(k)'
  PROVE  /\ Wait(k)' < Lookback
         /\ \A o \in Orders :
               HoldOf[o] = About[m] /\ status[o] # "none" /\ o \in newest[OrderBuyer(o)] =>
                  age[o] + Wait(k)' < Lookback
  <1>n. /\ PendingLimit \in Nat /\ Requeue \in Nat /\ MaxLate \in Nat /\ Lookback \in Nat
        /\ \A o \in Orders : age[o] \in Nat
    BY BookingAssumption DEF TypeOK
  <1>w. OnItsWay(m) BY ReleaseHandles DEF OnItsWay, Due
  <1>s. /\ Wait(m) < Lookback
        /\ \A o \in Orders :
              HoldOf[o] = About[m] /\ status[o] # "none" /\ o \in newest[OrderBuyer(o)] =>
                 age[o] + Wait(m) < Lookback
    BY <1>w DEF StillSeen
  <1>m. Wait(m) \in Nat BY WaitType
  <1>1. CASE Wait(k)' \in Nat /\ Wait(k)' <= Wait(m)
    <2>1. PICK x \in Nat : x = Wait(k)' BY <1>1
    <2> QED BY <1>1, <1>n, <1>s, <1>m, <2>1
  <1>2. CASE k = m /\ ReleasePostpone(m)
    <2>1. message'[m] = "postponed"
      <3>1. message'[m] # "lost" BY <1>2 DEF OnItsWay, Handling, Again
      <3> QED BY <1>2, <3>1 DEF ReleasePostpone, PutBack, TypeOK
    <2>2. Wait(m)' = Budget(retry[m]) + (Requeue + MaxLate)
      BY <1>2, <2>1 DEF ReleasePostpone, Wait, Budget
    <2>3. Budget(retry[m]) \in Nat /\ Budget(retry[m]) <= Budget(0) /\ Budget(0) \in Nat
      BY BudgetFacts, WaitType
    <2>4. Wait(m)' \in Nat /\ PendingLimit + Wait(m)' <= Lookback
      BY <1>n, <2>2, <2>3 DEF RetriesInTime
    <2>5. PICK n \in RecentOrder(Buyer[About[m]]) : age[n] < PendingLimit
      BY <1>2 DEF ReleasePostpone
    <2>6. ASSUME NEW o \in Orders, HoldOf[o] = About[m], status[o] # "none",
                 o \in newest[OrderBuyer(o)]
          PROVE  age[o] + Wait(m)' < Lookback
      <3>1. n = o BY <2>5, <2>6 DEF NewestYoungest, RecentOrder, OrderBuyer
      <3> QED BY <1>n, <2>4, <2>5, <3>1
    <2>7. Wait(m)' < Lookback
      <3>1. n \in Orders
        <4>1. newest[Buyer[About[m]]] \subseteq Orders BY NewestAreOrders, BookingAssumption
        <4> QED BY <2>5, <4>1 DEF RecentOrder
      <3>2. PendingLimit > 0 BY <1>n, <2>5, <3>1
      <3> QED BY <1>n, <2>4, <3>2
    <2> QED BY <1>2, <2>6, <2>7
  <1> QED BY <1>1, <1>2, OwnWaits, CopyWaits

LEMMA StillSeenTick == ASSUME ~Slow, TypeOK, StillSeen, Tick PROVE StillSeen'
  <1>1. UNCHANGED <<message, status, newest, retry>> BY DEF Tick, messageVars
  <1>2. \A m \in Letters : OnItsWay(m)' <=> OnItsWay(m) BY <1>1 DEF OnItsWay
  <1>3. ASSUME NEW m \in Letters, OnItsWay(m)
        PROVE  Wait(m)' = Wait(m) - 1 /\ Wait(m) \in Nat
    <2>1. message[m] = "queued" BY <1>3 DEF Tick, Prompt, OnItsWay
    <2>2. delay'[m] = delay[m] - 1 /\ delay[m] \in Nat BY <2>1 DEF Tick, Down, TypeOK
    <2>3. Budget(retry[m]) \in Nat BY WaitType
    <2>4. Wait(m)' = Budget(retry[m]) + delay'[m] BY <1>1, <2>1 DEF Wait, Budget
    <2>5. Wait(m) = Budget(retry[m]) + delay[m] BY <2>1 DEF Wait
    <2> QED BY <2>2, <2>3, <2>4, <2>5
  <1>4. ASSUME NEW o \in Orders
        PROVE  age'[o] \in Nat /\ age[o] \in Nat /\ age'[o] <= age[o] + 1
    <2>1. age[o] \in Nat /\ Lookback \in Nat BY BookingAssumption DEF TypeOK
    <2>2. age'[o] = IF status[o] = "none" THEN 0 ELSE Aged(age[o]) BY DEF Tick
    <2> QED BY <2>1, <2>2 DEF Aged
  <1>5. ASSUME NEW m \in Letters, OnItsWay(m)' PROVE Wait(m)' < Lookback
    <2>1. Wait(m) < Lookback BY <1>2, <1>5 DEF StillSeen
    <2>2. Lookback \in Nat BY BookingAssumption
    <2> QED BY <1>2, <1>3, <1>5, <2>1, <2>2
  <1>6. ASSUME NEW o \in Orders, NEW m \in Letters, status'[o] # "none",
               o \in newest'[OrderBuyer(o)], About[m] = HoldOf[o], OnItsWay(m)'
        PROVE  age'[o] + Wait(m)' < Lookback
    <2>1. Lookback \in Nat BY BookingAssumption
    <2>2. OnItsWay(m) BY <1>2, <1>6
    <2>3. age[o] + Wait(m) < Lookback BY <1>1, <1>6, <2>2 DEF StillSeen
    <2>4. Wait(m)' = Wait(m) - 1 /\ Wait(m) \in Nat BY <1>3, <2>2
    <2> QED BY <1>4, <2>1, <2>3, <2>4
  <1> QED BY <1>5, <1>6 DEF StillSeen, OrderBuyer

\* The steps that leave the messages alone.
LEMMA StillSeenSame ==
  ASSUME StillSeen, UNCHANGED <<message, delay, retry, age>>,
         \A o \in Orders : status'[o] # "none" /\ o \in newest'[OrderBuyer(o)] =>
            status[o] # "none" /\ o \in newest[OrderBuyer(o)]
  PROVE  StillSeen'
  <1>1. \A m : Wait(m)' = Wait(m) /\ (OnItsWay(m)' <=> OnItsWay(m)) BY DEF Wait, Budget, OnItsWay
  <1> QED BY <1>1 DEF StillSeen, OrderBuyer

LEMMA StillSeenNext ==
  ASSUME ~Slow, RetriesInTime, IInv, HandledIsDue, StillSeen, Next PROVE StillSeen'
  <1>t. TypeOK /\ RetryLeft /\ NewestYoungest /\ FreshOrder /\ FreshHold BY DEF IInv
  <1>h. \A o \in Orders : HoldOf[o] \in Holds BY BookingAssumption
  <1>1. CASE Sync
    <2>1. UNCHANGED <<message, delay, retry, age, status, newest>>
      BY <1>1, SyncFrame DEF messageVars, orderVars
    <2> QED BY <2>1, StillSeenSame
  <1>2. CASE Tick BY <1>t, <1>2, StillSeenTick
  <1>3. ASSUME NEW h \in Holds, Reserving(h) PROVE StillSeen'
    <2>0. First[h] \in Letters /\ About[First[h]] = h BY BookingAssumption
    <2>1. /\ ~Made(h) /\ UNCHANGED <<status, age, newest, retry>>
          /\ \A n \in Letters : n # First[h] => message'[n] = message[n] /\ delay'[n] = delay[n]
      BY <1>t, <1>3, ReservingFrame DEF orderVars
    <2>2. \A o \in Orders : status[o] # "none" => HoldOf[o] # h
      BY <1>t, <2>1 DEF FreshOrder
    <2>4. \A n \in Letters : n # First[h] => Wait(n)' = Wait(n) /\ (OnItsWay(n)' <=> OnItsWay(n))
      BY <2>1, WaitSame
    <2>5. OnItsWay(First[h])' => Wait(First[h])' < Lookback
      <3>1. CASE ReserveLost(h)
        BY <1>t, <2>0, <3>1 DEF TypeOK, OnItsWay, Handling, Again, ReserveLost
      <3>2. CASE ReserveGranted(h)
        <4>1. delay'[First[h]] = ReservationTTL + MaxLate /\ message'[First[h]] = "queued"
          BY <1>t, <2>0, <3>2 DEF TypeOK, ReserveGranted
        <4>2. Wait(First[h])' = Budget(retry[First[h]]) + (ReservationTTL + MaxLate)
          BY <2>1, <4>1 DEF Wait, Budget
        <4>3. /\ Budget(retry[First[h]]) \in Nat /\ Budget(retry[First[h]]) <= Budget(0)
              /\ Budget(0) \in Nat
          BY <1>t, <2>0, WaitType, BudgetFacts
        <4>4. ReservationTTL \in Nat /\ MaxLate \in Nat /\ Lookback \in Nat BY BookingAssumption
        <4> QED BY <4>2, <4>3, <4>4 DEF RetriesInTime
      <3> QED BY <1>3, <3>1, <3>2 DEF Reserving
    <2> QED BY <1>h, <2>0, <2>1, <2>2, <2>4, <2>5 DEF StillSeen, OrderBuyer
  <1>4. ASSUME NEW m \in Letters, Delivery(m) PROVE StillSeen'
    <2>1. UNCHANGED <<age, newest>> BY <1>4, ReleaseLeaves
    <2>2. \A o \in Orders : status'[o] # "none" => status[o] # "none"
      BY <1>t, <1>4, ReleaseStatus
    <2>3. ASSUME NEW k \in Letters, OnItsWay(k)'
          PROVE  /\ Wait(k)' < Lookback
                 /\ \A o \in Orders :
                       /\ HoldOf[o] = About[k] /\ status[o] # "none"
                       /\ o \in newest[OrderBuyer(o)]
                       => age[o] + Wait(k)' < Lookback
      <3>1. CASE Same(k)
        <4>1. Wait(k)' = Wait(k) /\ (OnItsWay(k)' <=> OnItsWay(k)) BY <3>1, WaitSame DEF Same
        <4> QED BY <2>3, <4>1 DEF StillSeen
      <3>2. CASE k = m \/ Copied(m, k)
        <4>1. About[k] = About[m] BY <3>2 DEF Copied
        <4> QED BY <1>t, <1>4, <2>3, <3>2, <4>1, ReleasedSeen
      <3> QED BY <1>t, <1>4, <3>1, <3>2, ReleaseOthers
    <2> QED BY <2>1, <2>2, <2>3 DEF StillSeen, OrderBuyer
  <1>5. ASSUME NEW o \in Orders, Initiate(o) PROVE StillSeen'
    <2>1. UNCHANGED <<message, delay, retry, age>>
      BY <1>5, InitiateFrame DEF messageVars
    <2>2. CASE InitiateCommit(o)
      <3>1. /\ initiating[o] = "marked" /\ status' = [status EXCEPT ![o] = "PENDING"]
            /\ newest' = [newest EXCEPT ![OrderBuyer(o)] = {o}]
        BY <2>2 DEF InitiateCommit
      <3>2. age[o] = 0 BY <1>t, <3>1 DEF FreshOrder
      <3>3. ASSUME NEW p \in Orders, p # o, status'[p] # "none", p \in newest'[OrderBuyer(p)]
            PROVE  status[p] # "none" /\ p \in newest[OrderBuyer(p)]
        BY <1>t, <3>1, <3>3 DEF TypeOK
      <3>4. \A m : Wait(m)' = Wait(m) /\ (OnItsWay(m)' <=> OnItsWay(m))
        BY <2>1 DEF Wait, Budget, OnItsWay
      <3>5. \A m \in Letters : OnItsWay(m) => age[o] + Wait(m) < Lookback
        <4>1. \A m \in Letters : Wait(m) \in Nat BY <1>t, WaitType
        <4> QED BY <3>2, <4>1 DEF StillSeen
      <3> QED BY <1>h, <2>1, <3>3, <3>4, <3>5 DEF StillSeen, OrderBuyer
    <2>3. CASE ~InitiateCommit(o)
      <3>1. UNCHANGED <<status, newest>>
        BY <1>5, <2>3 DEF Initiate, InitiateRead, InitiateMark, InitiateContext, InitiateFail,
           InitiateCrash, orderVars
      <3> QED BY <2>1, <3>1, StillSeenSame
    <2> QED BY <2>2, <2>3
  <1>6. ASSUME NEW o \in Orders, NEW c \in Calls, Webhook(o, c) PROVE StillSeen'
    <2>1. UNCHANGED <<message, delay, retry, age, newest>>
      BY <1>6, WebhookFrame DEF messageVars
    <2>2. \A p \in Orders : status'[p] # "none" => status[p] # "none"
      <3>1. CASE WebhookCommit(o, c)
        <4>1. status[o] # "none" /\ status' = [status EXCEPT ![o] = "COMPLETED"]
          BY <1>t, <3>1 DEF FreshOrder, WebhookCommit, WebStep
        <4> QED BY <1>t, <4>1 DEF TypeOK
      <3>2. CASE UNCHANGED status BY <3>2
      <3> QED
        BY <1>6, <3>1, <3>2 DEF Webhook, WebhookCheck, WebhookUnreserve, WebhookUnmark,
           WebhookForget, WebhookCrash, orderVars
    <2> QED BY <2>1, <2>2, StillSeenSame
  <1> QED BY <1>1, <1>2, <1>3, <1>4, <1>5, <1>6 DEF Next

LEMMA OrderlyAreSeen ==
  ASSUME ~Slow, RetriesInTime PROVE Spec /\ []Orderly => []SeenInTime
  <1> DEFINE Rest == HandledIsDue /\ StillSeen
  <1>1. Init => Rest
    BY BookingAssumption DEF Init, HandledIsDue, StillSeen, OnItsWay, Handling, Again
  <1>2. IInv /\ Rest /\ [Next]_vars => Rest'
    <2>1. ASSUME Rest, UNCHANGED vars PROVE Rest'
      <3>1. UNCHANGED <<message, delay, retry, age, status, newest>>
        BY <2>1 DEF vars, messageVars, orderVars
      <3>2. StillSeen' BY <2>1, <3>1, StillSeenSame
      <3>3. HandledIsDue' BY <2>1, <3>1 DEF HandledIsDue
      <3> QED BY <3>2, <3>3
    <2>2. ASSUME IInv, Rest, Next PROVE Rest'
      <3>1. TypeOK BY <2>2 DEF IInv
      <3>2. HandledIsDue' BY <2>2, <3>1, HandledIsDueNext
      <3>3. StillSeen' BY <2>2, StillSeenNext
      <3> QED BY <3>2, <3>3
    <2> QED BY <2>1, <2>2
  <1>3. IInv /\ Rest /\ Orderly => SeenInTime
    <2> SUFFICES ASSUME TypeOK, StillSeen, PaysLast, NEW o \in Orders, status[o] = "COMPLETED",
                        Awaited(HoldOf[o])
                 PROVE  age[o] < Lookback
      BY DEF IInv, Orderly, SeenInTime
    <2>1. PICK m \in Letters : About[m] = HoldOf[o] /\ OnItsWay(m) BY DEF Awaited
    <2>2. Lookback \in Nat /\ age[o] \in Nat BY BookingAssumption DEF TypeOK
    <2>3. o \in newest[OrderBuyer(o)] BY DEF PaysLast
    <2>4. age[o] + Wait(m) < Lookback BY <2>1, <2>3 DEF StillSeen
    <2>5. Wait(m) \in Nat BY WaitType
    <2> QED BY <2>2, <2>4, <2>5
  <1> QED BY <1>1, <1>2, <1>3, Inductive, PTL DEF Spec

\* Users may reserve any number of times, several types at once, and begin as
\* many payments of one reservation as they like.  If each reservation is paid
\* once, with the newest order its user has until the release message has been
\* handled, and the deliveries of an order do not meet, then the shop sells a
\* ticket twice only if an unpaid hold was put back twice.  Two crashes can do
\* that: of a release handler between INCRBY and its acknowledgement, and of one
\* between the publish that puts its message back and the acknowledgement, which
\* leaves two messages that may both find the hold unpaid.  As long as no hold
\* has been put back twice, what is sold and what is on sale do not exceed the
\* quantity, whatever dies or is lost, whatever the numbers asked for, however
\* payments, cancellations and releases of all the users interleave.
THEOREM OrderlyOversoldOnlyByRepeat ==
  ASSUME ~Slow, RetriesInTime PROVE Spec /\ []Orderly => [](ReturnsOnce => NoOversell)
  BY OrderlyBalance, OrderlyAreSeen, PTL

\* The tickets they have paid for never go back on sale, whatever dies or is
\* lost, however often the release of the hold is delivered again.
THEOREM OrderlyPaidIsKept ==
  ASSUME ~Slow, RetriesInTime PROVE Spec /\ []Orderly => PaidHoldKept
  BY OrderlyIsKept, OrderlyAreSeen, PTL

\* They are served as by the box office, as long as no hold is put back twice
\* (by one of the two crashes above): every ticket taken from the stock is sold
\* to its buyer or put back, never both and never twice.
THEOREM OrderlyServed ==
  ASSUME ~Slow, RetriesInTime PROVE Spec /\ []Orderly /\ []ReturnsOnce => ImplementsBoxOffice
  BY OrderlyIsServed, OrderlyAreSeen, PTL

\* When nothing dies they always are.
THEOREM OrderlyServedWithoutFaults ==
  ASSUME ~Slow, RetriesInTime, MaxFaults = 0 PROVE Spec /\ []Orderly => ImplementsBoxOffice
  BY OrderlyServed, ReturnedOnce, PTL

-----------------------------------------------------------------------------
(* Users who reserve once and pay with one order *)

\* Every user reserves once, and every reservation is paid with one order.
OneEach ==
    /\ \A g, h \in Holds : Buyer[g] = Buyer[h] => g = h
    /\ \A o, p \in Orders : HoldOf[o] = HoldOf[p] => o = p

\* No release message is so late that the consumer no longer sees the order:
\* neither the first one, nor one that was put back while an order was pending
\* or a payment under way.
InTime ==
    /\ ReservationTTL + MaxLate < Lookback
    /\ PendingLimit + Requeue + MaxLate <= Lookback
    /\ ProcessingTTL + Requeue + MaxLate <= Lookback

NewestOwn == \A u \in Users : \A n \in newest[u] : OrderBuyer(n) = u

\* How long it takes at most until a message, or the one published in its
\* place, is handled next.
Left(m) == IF message[m] \in Again THEN Requeue + MaxLate ELSE delay[m]

\* What a message that is on its way will find: an order that is recent.
OnTime ==
    /\ \A m \in Letters : OnItsWay(m) => Left(m) < Lookback
    /\ \A o \in Orders : status[o] # "none" =>
          /\ \A m \in Letters : About[m] = HoldOf[o] /\ OnItsWay(m) => age[o] + Left(m) < Lookback
          /\ processing[OrderBuyer(o)][OrderKind(o)] > 0 =>
                age[o] + processing[OrderBuyer(o)][OrderKind(o)] <= ProcessingTTL

\* Who reserves once has one order, and it is the newest.
LEMMA OwnNewest ==
  ASSUME OneEach, TypeOK, NewestYoungest, NewestOwn, NEW o \in Orders, status[o] # "none"
  PROVE  newest[OrderBuyer(o)] = {o}
  <1>1. HoldOf[o] \in Holds /\ OrderBuyer(o) \in Users BY BookingAssumption DEF OrderBuyer
  <1>2. PICK n \in newest[OrderBuyer(o)] : newest[OrderBuyer(o)] = {n} BY DEF NewestYoungest
  <1>3. n \in Orders /\ OrderBuyer(n) = OrderBuyer(o) BY <1>1, <1>2 DEF TypeOK, NewestOwn
  <1>4. HoldOf[n] = HoldOf[o] BY <1>1, <1>3, BookingAssumption DEF OneEach, OrderBuyer
  <1>5. n = o BY <1>3, <1>4 DEF OneEach
  <1> QED BY <1>2, <1>5

\* What the consumer finds when it looks for the recent order of the buyer.
LEMMA RecentIsOwn ==
  ASSUME OneEach, TypeOK, NewestYoungest, NewestOwn, NEW h \in Holds,
         NEW o \in Orders, HoldOf[o] = h, status[o] # "none", NEW n \in RecentOrder(Buyer[h])
  PROVE  n = o
  BY OwnNewest DEF RecentOrder, OrderBuyer

LEMMA NewestOwnNext == ASSUME TypeOK, NewestOwn, Next PROVE NewestOwn'
  <1> USE DEF TypeOK, NewestOwn, orderVars
  <1>1. CASE Sync BY <1>1, SyncFrame
  <1>2. CASE Tick BY <1>2 DEF Tick
  <1>3. ASSUME NEW h \in Holds, Reserving(h) PROVE NewestOwn' BY <1>3, ReservingFrame
  <1>4. ASSUME NEW m \in Letters, Delivery(m) PROVE NewestOwn'
    BY <1>4, ReleaseLeaves
  <1>5. ASSUME NEW o \in Orders, Initiate(o) PROVE NewestOwn'
    <2>1. CASE InitiateCommit(o)
      <3>1. newest' = [newest EXCEPT ![OrderBuyer(o)] = {o}] BY <2>1 DEF InitiateCommit
      <3> QED BY <3>1
    <2>2. CASE UNCHANGED newest BY <2>2
    <2> QED
      BY <1>5, <2>1, <2>2 DEF Initiate, InitiateRead, InitiateMark, InitiateContext, InitiateFail,
         InitiateCrash
  <1>6. ASSUME NEW o \in Orders, NEW c \in Calls, Webhook(o, c) PROVE NewestOwn'
    BY <1>6, WebhookFrame
  <1> QED BY <1>1, <1>2, <1>3, <1>4, <1>5, <1>6 DEF Next

LEMMA LeftType == ASSUME TypeOK, NEW m \in Letters PROVE Left(m) \in Nat /\ delay[m] \in Nat
  BY BookingAssumption DEF TypeOK, Left

\* The steps that leave the message alone.
LEMMA LeftSame ==
  ASSUME NEW m \in Letters, message'[m] = message[m], delay'[m] = delay[m]
  PROVE  Left(m)' = Left(m) /\ (OnItsWay(m)' <=> OnItsWay(m))
  BY DEF Left, OnItsWay

\* A message published again is due no sooner than the handled one was, and
\* comes when the handled one let it expect.
LEMMA OwnLeft ==
  ASSUME TypeOK, HandledIsDue, NEW m \in Letters, Delivery(m), OnItsWay(m)',
         NEW k \in Letters, k = m \/ Copied(m, k),
         ~ReleaseRetry(m), ~ReleasePostpone(m)
  PROVE  Left(k)' \in Nat /\ Left(k)' <= Left(m)
  <1>n. Requeue \in Nat /\ MaxLate \in Nat BY BookingAssumption
  <1>t. Left(m) \in Nat /\ delay[m] \in Nat BY LeftType
  <1>1. CASE Copied(m, k)
    <2>1. Left(k)' = Requeue + MaxLate BY <1>1 DEF Copied, Left, Again
    <2>2. Left(m) = Requeue + MaxLate BY <1>1 DEF Copied, Left
    <2> QED BY <1>n, <2>1, <2>2
  <1>2. CASE k = m /\ AgainAck(m)
    <2>1. message[m] \in Again /\ message'[m] = "queued" /\ delay'[m] = Requeue + MaxLate
      BY <1>2 DEF AgainAck, TypeOK
    <2>2. Left(m)' = Requeue + MaxLate /\ Left(m) = Requeue + MaxLate BY <2>1 DEF Left, Again
    <2> QED BY <1>n, <1>2, <2>2
  <1>3. CASE k = m /\ AgainCrash(m)
    <2>1. message[m] \in Again /\ message'[m] = "queued" /\ delay'[m] = delay[m]
      BY <1>3 DEF AgainCrash, TypeOK, Again
    <2>2. Left(m)' = delay[m] /\ Left(m) = Requeue + MaxLate BY <2>1 DEF Left, Again
    <2>3. delay[m] <= MaxLate BY <2>1 DEF HandledIsDue, Handling
    <2> QED BY <1>n, <1>t, <1>3, <2>2, <2>3
  <1>4. CASE k = m /\ ~AgainAck(m) /\ ~AgainCrash(m)
    <2>1. delay' = delay
      BY <1>4 DEF Delivery, Release, ReleaseCrash, ReleaseStart, ReleaseKeep, ReleaseExpire,
         ReleaseCancel, ReleaseUnpaid, ReleaseReturn, ReleaseAck
    <2>2. message[m] \notin Again /\ message'[m] \notin Again
      BY <1>4 DEF TypeOK, Delivery, Release, ReleaseCrash, ReleaseStart, ReleaseKeep,
         ReleaseExpire, ReleaseCancel, ReleaseUnpaid, ReleaseReturn, ReleaseAck, Due, Handling,
         Again
    <2>3. Left(m)' = delay[m] /\ Left(m) = delay[m] BY <2>1, <2>2 DEF Left
    <2> QED BY <1>t, <1>4, <2>3
  <1> QED BY <1>1, <1>2, <1>3, <1>4

\* How the release consumer leaves the messages of the hold behind.
LEMMA ReleasedOnTime ==
  ASSUME OneEach, InTime, TypeOK, HandledIsDue, NewestYoungest, NewestOwn, OnTime,
         NEW m \in Letters, Delivery(m), NEW k \in Letters, k = m \/ Copied(m, k), OnItsWay(k)'
  PROVE  /\ Left(k)' < Lookback
         /\ \A o \in Orders : HoldOf[o] = About[m] /\ status[o] # "none" =>
               age[o] + Left(k)' < Lookback
  <1>n. /\ PendingLimit \in Nat /\ Requeue \in Nat /\ MaxLate \in Nat /\ Lookback \in Nat
        /\ ProcessingTTL \in Nat /\ PendingLimit > 0
        /\ \A o \in Orders : age[o] \in Nat
        /\ About[m] \in Holds /\ \A h \in Holds : Buyer[h] \in Users /\ Kind[h] \in Types
    BY BookingAssumption DEF TypeOK
  <1>w. OnItsWay(m) BY ReleaseHandles DEF OnItsWay, Due
  <1>m. Left(m) \in Nat BY LeftType
  <1>s. /\ Left(m) < Lookback
        /\ \A o \in Orders : HoldOf[o] = About[m] /\ status[o] # "none" =>
              age[o] + Left(m) < Lookback
    BY <1>w DEF OnTime
  <1>a. ASSUME ReleaseRetry(m) \/ ReleasePostpone(m)
        PROVE  k = m /\ Left(k)' = Requeue + MaxLate
    <2>1. k = m
      <3>1. message[m] \notin Again BY <1>a DEF ReleaseRetry, ReleasePostpone, Due, Again
      <3> QED BY <3>1 DEF Copied
    <2>2. message'[m] # "lost" BY <2>1 DEF OnItsWay, Handling, Again
    <2>3. message'[m] \in Again
      BY <1>a, <2>2 DEF TypeOK, ReleaseRetry, ReleasePostpone, PutBack, Again
    <2> QED BY <2>1, <2>3 DEF Left
  <1>1. CASE ReleaseRetry(m)
    <2>2. processing[Buyer[About[m]]][Kind[About[m]]] > 0 BY <1>1 DEF ReleaseRetry, UnderWay
    <2>3. processing[Buyer[About[m]]][Kind[About[m]]] \in Nat BY <1>n DEF TypeOK
    <2>4. ASSUME NEW o \in Orders, HoldOf[o] = About[m], status[o] # "none"
          PROVE  age[o] + (Requeue + MaxLate) < Lookback
      <3>1. age[o] + processing[Buyer[About[m]]][Kind[About[m]]] <= ProcessingTTL
        BY <2>2, <2>4 DEF OnTime, OrderBuyer, OrderKind
      <3>2. age[o] \in Nat BY <1>n
      <3>3. age[o] < ProcessingTTL BY <1>n, <2>2, <2>3, <3>1, <3>2
      <3> QED BY <1>n, <3>2, <3>3 DEF InTime
    <2>5. Requeue + MaxLate < Lookback BY <1>n DEF InTime
    <2> QED BY <1>1, <1>a, <2>4, <2>5
  <1>2. CASE ReleasePostpone(m)
    <2>2. PICK n \in RecentOrder(Buyer[About[m]]) : age[n] < PendingLimit
      BY <1>2 DEF ReleasePostpone
    <2>3. ASSUME NEW o \in Orders, HoldOf[o] = About[m], status[o] # "none"
          PROVE  age[o] + (Requeue + MaxLate) < Lookback
      <3>1. n = o BY <1>n, <2>3, RecentIsOwn
      <3>2. age[o] \in Nat /\ age[o] < PendingLimit BY <1>n, <2>2, <3>1
      <3> QED BY <1>n, <3>2 DEF InTime
    <2>4. Requeue + MaxLate < Lookback BY <1>n DEF InTime
    <2> QED BY <1>2, <1>a, <2>3, <2>4
  <1>3. CASE ~ReleaseRetry(m) /\ ~ReleasePostpone(m)
    <2>0. OnItsWay(m)' BY DEF Copied, AgainCrash, TypeOK, OnItsWay
    <2>1. PICK x \in Nat : x = Left(k)' BY <1>3, <2>0, OwnLeft
    <2>2. x <= Left(m) BY <1>3, <2>0, <2>1, OwnLeft
    <2> QED BY <1>n, <1>m, <1>s, <2>1, <2>2
  <1> QED BY <1>1, <1>2, <1>3

LEMMA OnTimeTick == ASSUME ~Slow, TypeOK, OnTime, Tick PROVE OnTime'
  <1> USE BookingAssumption DEF TypeOK
  <1>1. UNCHANGED <<message, status>> BY DEF Tick, messageVars
  <1>2. ASSUME NEW m \in Letters, OnItsWay(m)
        PROVE  Left(m)' = Left(m) - 1 /\ Left(m) \in Nat
    <2>1. message[m] = "queued" BY <1>2 DEF Tick, Prompt, OnItsWay
    <2>2. delay'[m] = delay[m] - 1 /\ delay[m] \in Nat BY <2>1 DEF Tick, Down
    <2> QED BY <1>1, <2>1, <2>2 DEF Left, Again
  <1>3. \A m \in Letters : OnItsWay(m)' <=> OnItsWay(m) BY <1>1 DEF OnItsWay
  <1>4. ASSUME NEW o \in Orders, status[o] # "none"
        PROVE  age'[o] \in Nat /\ age[o] \in Nat /\ age'[o] <= age[o] + 1
    BY <1>4 DEF Tick, Aged
  <1>5. ASSUME NEW m \in Letters, OnItsWay(m) PROVE Left(m)' < Lookback
    <2>1. Left(m) < Lookback /\ Lookback \in Nat BY <1>5 DEF OnTime
    <2> QED BY <1>2, <1>5, <2>1
  <1>6. ASSUME NEW o \in Orders, status[o] # "none", NEW m \in Letters, About[m] = HoldOf[o],
               OnItsWay(m)
        PROVE  age'[o] + Left(m)' < Lookback
    <2>2. age[o] + Left(m) < Lookback BY <1>6 DEF OnTime
    <2>3. Left(m)' = Left(m) - 1 /\ Left(m) \in Nat BY <1>2, <1>6
    <2>4. Lookback \in Nat OBVIOUS
    <2> QED BY <1>4, <1>6, <2>2, <2>3, <2>4
  <1>7. ASSUME NEW o \in Orders, status[o] # "none",
               processing'[OrderBuyer(o)][OrderKind(o)] > 0
        PROVE  age'[o] + processing'[OrderBuyer(o)][OrderKind(o)] <= ProcessingTTL
    <2>1. OrderBuyer(o) \in Users /\ OrderKind(o) \in Types BY DEF OrderBuyer, OrderKind
    <2>2. PICK n \in Nat : n = processing[OrderBuyer(o)][OrderKind(o)] BY <2>1
    <2>3. processing'[OrderBuyer(o)][OrderKind(o)] = Down(n) BY <2>1, <2>2 DEF Tick
    <2>4. n > 0 /\ Down(n) = n - 1 BY <1>7, <2>3 DEF Down
    <2>5. age[o] + n <= ProcessingTTL BY <1>7, <2>2, <2>4 DEF OnTime
    <2> QED BY <1>4, <1>7, <2>3, <2>4, <2>5
  <1> QED BY <1>1, <1>3, <1>5, <1>6, <1>7 DEF OnTime, OrderBuyer, OrderKind

\* The steps that leave the messages alone.
LEMMA OnTimeMessages ==
  ASSUME UNCHANGED <<message, delay>>
  PROVE  \A m : Left(m)' = Left(m) /\ (OnItsWay(m)' <=> OnItsWay(m))
  BY DEF Left, OnItsWay

LEMMA OnTimeNext ==
  ASSUME ~Slow, OneEach, InTime, IInv, HandledIsDue, NewestOwn, OnTime, Next
  PROVE  OnTime'
  <1> USE BookingAssumption DEF TypeOK, OnTime, messageVars, orderVars, OrderBuyer, OrderKind
  <1>t. TypeOK /\ NewestYoungest /\ FreshOrder /\ FreshHold BY DEF IInv
  <1>1. CASE Sync
    <2>1. UNCHANGED <<message, delay, status, age, processing>> BY <1>1 DEF Sync, keyVars
    <2> QED BY <2>1, OnTimeMessages
  <1>2. CASE Tick BY <1>t, <1>2, OnTimeTick
  <1>3. ASSUME NEW h \in Holds, Reserving(h) PROVE OnTime'
    <2>1. /\ ~Made(h) /\ UNCHANGED <<status, age>>
          /\ \A n \in Letters : n # First[h] => message'[n] = message[n] /\ delay'[n] = delay[n]
      BY <1>t, <1>3, ReservingFrame
    <2>2. UNCHANGED processing BY <1>3 DEF Reserving, ReserveLost, ReserveGranted, Reserve
    <2>3. \A o \in Orders : status[o] # "none" => HoldOf[o] # h
      BY <1>t, <2>1 DEF FreshOrder
    <2>4. \A n \in Letters : n # First[h] => Left(n)' = Left(n) /\ (OnItsWay(n)' <=> OnItsWay(n))
      BY <2>1, LeftSame
    <2>5. OnItsWay(First[h])' => Left(First[h])' < Lookback
      <3>1. CASE ReserveLost(h)
        BY <1>t, <3>1 DEF ReserveLost, OnItsWay, Handling, Again
      <3>2. CASE ReserveGranted(h)
        <4>1. message'[First[h]] = "queued" /\ delay'[First[h]] = ReservationTTL + MaxLate
          BY <1>t, <3>2 DEF ReserveGranted
        <4> QED BY <4>1 DEF InTime, Left, Again
      <3> QED BY <1>3, <3>1, <3>2 DEF Reserving
    <2> QED BY <2>1, <2>2, <2>3, <2>4, <2>5
  <1>4. ASSUME NEW m \in Letters, Delivery(m) PROVE OnTime'
    <2>1. UNCHANGED <<age, processing>> BY <1>4, ReleaseLeaves
    <2>2. \A o \in Orders : status'[o] # "none" => status[o] # "none"
      BY <1>t, <1>4, ReleaseStatus
    <2>3. ASSUME NEW k \in Letters, OnItsWay(k)'
          PROVE  /\ Left(k)' < Lookback
                 /\ \A o \in Orders : HoldOf[o] = About[k] /\ status[o] # "none" =>
                       age[o] + Left(k)' < Lookback
      <3>1. CASE Same(k)
        <4>1. Left(k)' = Left(k) /\ (OnItsWay(k)' <=> OnItsWay(k)) BY <3>1, LeftSame DEF Same
        <4> QED BY <2>3, <4>1
      <3>2. CASE k = m \/ Copied(m, k)
        <4>1. About[k] = About[m] BY <3>2 DEF Copied
        <4>2. /\ Left(k)' < Lookback
              /\ \A o \in Orders : HoldOf[o] = About[m] /\ status[o] # "none" =>
                    age[o] + Left(k)' < Lookback
          BY ONLY <1>t, <1>4, <2>3, <3>2, OneEach, InTime, HandledIsDue, NewestOwn, OnTime,
             ReleasedOnTime
        <4> QED BY <4>1, <4>2
      <3> QED BY ONLY <1>t, <1>4, <3>1, <3>2, ReleaseOthers
    <2> QED BY <2>1, <2>2, <2>3
  <1>5. ASSUME NEW o \in Orders, Initiate(o) PROVE OnTime'
    <2>1. UNCHANGED <<message, delay, age>> BY <1>5, InitiateFrame
    <2>m. \A m : Left(m)' = Left(m) /\ (OnItsWay(m)' <=> OnItsWay(m)) BY <2>1, OnTimeMessages
    <2>2. CASE InitiateMark(o)
      <3>1. status[o] = "none" /\ UNCHANGED status
        BY <1>t, <2>2 DEF InitiateMark, FreshOrder
      <3>2. ASSUME NEW p \in Orders, status[p] # "none"
            PROVE  processing'[OrderBuyer(p)][OrderKind(p)]
                     = processing[OrderBuyer(p)][OrderKind(p)]
        <4>1. OrderBuyer(p) # OrderBuyer(o) BY <3>1, <3>2 DEF OneEach
        <4> QED BY <1>t, <2>2, <4>1 DEF InitiateMark
      <3> QED BY <2>1, <2>m, <3>1, <3>2
    <2>3. CASE InitiateCommit(o)
      <3>1. /\ initiating[o] = "marked" /\ status' = [status EXCEPT ![o] = "PENDING"]
            /\ UNCHANGED processing
        BY <2>3 DEF InitiateCommit, keyVars
      <3>2. age[o] = 0 BY <1>t, <3>1 DEF FreshOrder
      <3>4. \A m \in Letters : OnItsWay(m) => age[o] + Left(m) < Lookback
        <4>1. \A m \in Letters : Left(m) \in Nat BY <1>t, LeftType
        <4> QED BY <3>2, <4>1
      <3>5. age[o] + processing[OrderBuyer(o)][OrderKind(o)] <= ProcessingTTL
        BY <1>t, <3>2
      <3>6. \A p \in Orders \ {o} : status'[p] = status[p] BY <1>t, <3>1
      <3> QED BY <2>1, <2>m, <3>1, <3>4, <3>5, <3>6
    <2>4. CASE InitiateFail(o)
      <3>1. UNCHANGED status BY <2>4 DEF InitiateFail
      <3>2. ASSUME NEW p \in Orders, processing'[OrderBuyer(p)][OrderKind(p)] > 0
            PROVE  processing'[OrderBuyer(p)][OrderKind(p)]
                     = processing[OrderBuyer(p)][OrderKind(p)]
        BY <1>t, <2>4, <3>2 DEF InitiateFail
      <3> QED BY <2>1, <2>m, <3>1, <3>2
    <2>5. CASE UNCHANGED <<processing, status>> BY <2>1, <2>m, <2>5
    <2> QED
      BY <1>5, <2>2, <2>3, <2>4, <2>5 DEF Initiate, InitiateRead, InitiateContext, InitiateCrash,
         keyVars
  <1>6. ASSUME NEW o \in Orders, NEW c \in Calls, Webhook(o, c) PROVE OnTime'
    <2>1. UNCHANGED <<message, delay, age>> BY <1>6, WebhookFrame
    <2>m. \A m : Left(m)' = Left(m) /\ (OnItsWay(m)' <=> OnItsWay(m)) BY <2>1, OnTimeMessages
    <2>2. CASE WebhookCommit(o, c)
      <3>1. status[o] # "none" BY <1>t, <2>2 DEF FreshOrder, WebhookCommit, WebStep
      <3>2. UNCHANGED processing /\ \A p \in Orders : status'[p] # "none" => status[p] # "none"
        BY <1>t, <2>2, <3>1 DEF WebhookCommit, keyVars
      <3> QED BY <2>1, <2>m, <3>2
    <2>3. CASE WebhookUnmark(o, c)
      <3>1. UNCHANGED status BY <2>3 DEF WebhookUnmark
      <3>2. ASSUME NEW p \in Orders, processing'[OrderBuyer(p)][OrderKind(p)] > 0
            PROVE  processing'[OrderBuyer(p)][OrderKind(p)]
                     = processing[OrderBuyer(p)][OrderKind(p)]
        BY <1>t, <2>3, <3>2 DEF WebhookUnmark
      <3> QED BY <2>1, <2>m, <3>1, <3>2
    <2>4. CASE UNCHANGED <<processing, status>> BY <2>1, <2>m, <2>4
    <2> QED
      BY <1>6, <2>2, <2>3, <2>4 DEF Webhook, WebhookCheck, WebhookUnreserve, WebhookForget,
         WebhookCrash, keyVars
  <1> QED BY <1>1, <1>2, <1>3, <1>4, <1>5, <1>6 DEF Next

\* They are orderly, and seen in time even if the consumer is later than
\* RetriesInTime allows.
LEMMA LoneAreOrderly ==
  ASSUME ~Slow, OneEach, InTime, NEW k, Calls = {k} PROVE Spec => []Orderly /\ []SeenInTime
  <1> DEFINE Rest == HandledIsDue /\ NewestOwn /\ OnTime
  <1>1. Init => Rest
    BY BookingAssumption DEF Init, HandledIsDue, NewestOwn, OnTime, OnItsWay, Handling, Again
  <1>2. IInv /\ Rest /\ [Next]_vars => Rest'
    <2> SUFFICES ASSUME IInv, Rest, [Next]_vars PROVE Rest'
      OBVIOUS
    <2>t. TypeOK BY DEF IInv
    <2>1. CASE Next BY <2>t, <2>1, HandledIsDueNext, NewestOwnNext, OnTimeNext
    <2>2. CASE UNCHANGED vars
      <3>1. UNCHANGED <<message, delay, status, newest, age, processing>>
        BY <2>2 DEF vars, keyVars, messageVars, orderVars
      <3>2. OnTime' BY <3>1, OnTimeMessages DEF OnTime, OrderBuyer, OrderKind
      <3> QED BY <3>1, <3>2 DEF HandledIsDue, NewestOwn
    <2> QED BY <2>1, <2>2
  <1>3. IInv /\ Rest => PaysLast /\ SeenInTime
    <2> SUFFICES ASSUME TypeOK, NewestYoungest, NewestOwn, OnTime, NEW o \in Orders,
                        status[o] = "COMPLETED", Awaited(HoldOf[o])
                 PROVE  newest[OrderBuyer(o)] = {o} /\ age[o] < Lookback
      BY DEF IInv, PaysLast, SeenInTime
    <2>1. PICK m \in Letters : About[m] = HoldOf[o] /\ OnItsWay(m) BY DEF Awaited
    <2>2. Lookback \in Nat /\ age[o] \in Nat BY BookingAssumption DEF TypeOK
    <2>3. age[o] + Left(m) < Lookback BY <2>1 DEF OnTime
    <2>4. Left(m) \in Nat BY LeftType
    <2> QED BY <2>2, <2>3, <2>4, OwnNewest
  <1>4. PaysOnce BY DEF OneEach, PaysOnce
  <1>5. PaysLast /\ PaysOnce /\ DeliveriesApart => Orderly BY DEF Orderly
  <1> QED BY <1>1, <1>2, <1>3, <1>4, <1>5, OneCallApart, Inductive, PTL DEF Spec

\* When every user reserves once and pays with one order, and the deliveries
\* of an order do not overlap, nobody has to heed anything: tickets are sold
\* twice only if a hold was put back twice, by a crash of a release handler
\* between INCRBY and its acknowledgement or by one between the publish that
\* puts its message back and the acknowledgement.
THEOREM OversoldOnlyByRepeat ==
  ASSUME ~Slow, OneEach, InTime, NEW k, Calls = {k} PROVE Spec => [](ReturnsOnce => NoOversell)
  BY OrderlyBalance, LoneAreOrderly, PTL

\* No ticket is sold twice when nothing dies.
THEOREM NothingOversold ==
  ASSUME ~Slow, MaxFaults = 0, OneEach, InTime, NEW k, Calls = {k} PROVE Spec => []NoOversell
  BY ReturnedOnce, OversoldOnlyByRepeat, PTL

\* The tickets of a paid hold never go back on sale, whatever dies or is lost,
\* however often the release of the hold is delivered again.
THEOREM PaidIsKept ==
  ASSUME ~Slow, OneEach, InTime, NEW k, Calls = {k} PROVE Spec => PaidHoldKept
  BY OrderlyIsKept, LoneAreOrderly, PTL

\* They are served as by the box office, as long as no hold is put back twice.
THEOREM ServedUntilRepeat ==
  ASSUME ~Slow, OneEach, InTime, NEW k, Calls = {k}
  PROVE  Spec /\ []ReturnsOnce => ImplementsBoxOffice
  BY OrderlyIsServed, LoneAreOrderly, PTL

\* When nothing dies they always are.
THEOREM ServedAsByBoxOffice ==
  ASSUME ~Slow, MaxFaults = 0, OneEach, InTime, NEW k, Calls = {k}
  PROVE  Spec => ImplementsBoxOffice
  BY ServedUntilRepeat, ReturnedOnce, PTL

=============================================================================
