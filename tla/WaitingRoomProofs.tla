------------------------- MODULE WaitingRoomProofs -------------------------
(* Theorems about WaitingRoom, for every value of its constants. *)
EXTENDS WaitingRoom, SequenceTheorems, FiniteSetTheorems, WellFoundedInduction, TLAPS

-----------------------------------------------------------------------------
(* Taking somebody out of a queue *)

LEMMA SmallestIndex ==
  ASSUME NEW I, I \subseteq Nat, I # {} PROVE Min(I) \in I
  <1> DEFINE Less == {p \in Nat \X Nat : p[1] < p[2]}
  <1>1. IsWellFoundedOn(Less, Nat)
    BY NatLessThanWellFounded DEF OpToRel
  <1> HIDE DEF Less
  <1>2. PICK m \in I : \A k \in I : ~(<<k, m>> \in Less)
    BY <1>1, WFMin
  <1>3. \A k \in I : m <= k
    <2> SUFFICES ASSUME NEW k \in I, ~(m <= k) PROVE FALSE
      OBVIOUS
    <2>1. <<k, m>> \in Less BY DEF Less
    <2> QED BY <1>2, <2>1
  <1> QED BY <1>3 DEF Min

LEMMA RemoveFirstSplits ==
  ASSUME NEW q, NEW e, \E i \in 1..Len(q) : q[i] = e, Len(q) \in Nat
  PROVE  \E k \in 1..Len(q) : RemoveFirst(q, e) = SubSeq(q, 1, k - 1) \o SubSeq(q, k + 1, Len(q))
  <1> DEFINE I == {i \in 1..Len(q) : q[i] = e}
  <1>1. I \subseteq Nat /\ I # {} OBVIOUS
  <1> HIDE DEF I
  <1>3. Min(I) \in I BY <1>1, SmallestIndex
  <1>4. RemoveFirst(q, e) = RemoveAt(q, Min(I)) BY DEF RemoveFirst, SelectInSeq, I
  <1>5. Min(I) \in 1..Len(q) BY <1>3 DEF I
  <1> QED BY <1>4, <1>5 DEF RemoveAt

LEMMA RemoveFirstKeeps ==
  ASSUME NEW S, NEW q \in Seq(S), NEW e
  PROVE  /\ RemoveFirst(q, e) \in Seq(S)
         /\ Range(RemoveFirst(q, e)) \subseteq Range(q)
         /\ Distinct(q) => Distinct(RemoveFirst(q, e))
  <1>1. CASE ~\E i \in 1..Len(q) : q[i] = e
    BY <1>1 DEF RemoveFirst
  <1>2. CASE \E i \in 1..Len(q) : q[i] = e
    <2>1. PICK k \in 1..Len(q) :
             RemoveFirst(q, e) = SubSeq(q, 1, k - 1) \o SubSeq(q, k + 1, Len(q))
      BY <1>2, RemoveFirstSplits, LenProperties
    <2> DEFINE a == SubSeq(q, 1, k - 1)
               b == SubSeq(q, k + 1, Len(q))
               r == a \o b
    <2>2. /\ a \in Seq(S) /\ Len(a) = k - 1
          /\ \A i \in 1..(k - 1) : a[i] = q[i]
      <3>1. \A i \in 1..(k - 1) : q[i] \in S BY ElementOfSeq, LenProperties
      <3>2. k - 1 \in Int /\ 1 \in Int OBVIOUS
      <3> QED BY <3>1, <3>2, SubSeqProperties
    <2>3. /\ b \in Seq(S) /\ Len(b) = Len(q) - k
          /\ \A i \in 1..(Len(q) - k) : b[i] = q[k + i]
      <3>1. \A i \in (k + 1)..Len(q) : q[i] \in S BY ElementOfSeq, LenProperties
      <3>2. k + 1 \in Int /\ Len(q) \in Int BY LenProperties
      <3> QED BY <3>1, <3>2, SubSeqProperties
    <2> HIDE DEF a, b
    <2>4. /\ r \in Seq(S) /\ Len(r) = Len(q) - 1
          /\ \A i \in 1..Len(r) : r[i] = IF i <= k - 1 THEN q[i] ELSE q[i + 1]
      <3>1. /\ r \in Seq(S) /\ Len(r) = Len(a) + Len(b)
            /\ \A i \in 1..Len(a) + Len(b) : r[i] = IF i <= Len(a) THEN a[i] ELSE b[i - Len(a)]
        BY <2>2, <2>3, ConcatProperties
      <3>2. Len(q) \in Nat BY LenProperties
      <3>3. Len(r) = Len(q) - 1 BY <2>2, <2>3, <3>1, <3>2
      <3>4. ASSUME NEW i \in 1..Len(r), i <= k - 1 PROVE r[i] = q[i]
        BY <2>2, <3>1, <3>2, <3>3, <3>4
      <3>5. ASSUME NEW i \in 1..Len(r), ~(i <= k - 1) PROVE r[i] = q[i + 1]
        <4>1. r[i] = b[i - (k - 1)] BY <2>2, <2>3, <3>1, <3>2, <3>3, <3>5
        <4>2. i - (k - 1) \in 1..(Len(q) - k) BY <3>2, <3>3, <3>5
        <4>3. b[i - (k - 1)] = q[k + (i - (k - 1))] BY <2>3, <4>2
        <4>4. k + (i - (k - 1)) = i + 1 OBVIOUS
        <4> QED BY <4>1, <4>3, <4>4
      <3> QED BY <3>1, <3>3, <3>4, <3>5
    <2> HIDE DEF r
    <2>5. RemoveFirst(q, e) = r BY <2>1 DEF r, a, b
    <2>6. DOMAIN r = 1..Len(r) /\ DOMAIN q = 1..Len(q) /\ Len(q) \in Nat
      BY <2>4, LenProperties
    <2>7. \A i \in 1..Len(r) :
             \E j \in 1..Len(q) : r[i] = q[j] /\ j = IF i <= k - 1 THEN i ELSE i + 1
      BY <2>4, <2>6
    <2>8. Range(r) \subseteq Range(q) BY <2>6, <2>7 DEF Range
    <2>9. ASSUME Distinct(q) PROVE Distinct(r)
      <3> SUFFICES ASSUME NEW i \in 1..Len(r), NEW j \in 1..Len(r), r[i] = r[j]
                   PROVE  i = j
        BY <2>6 DEF Distinct
      <3>1. PICK m \in 1..Len(q) : r[i] = q[m] /\ m = IF i <= k - 1 THEN i ELSE i + 1
        BY <2>7
      <3>2. PICK n \in 1..Len(q) : r[j] = q[n] /\ n = IF j <= k - 1 THEN j ELSE j + 1
        BY <2>7
      <3>3. m = n BY <2>6, <2>9, <3>1, <3>2 DEF Distinct
      <3> QED BY <3>1, <3>2, <3>3
    <2> QED BY <2>4, <2>5, <2>8, <2>9
  <1> QED BY <1>1, <1>2

\* What a turn and an arrival do to the queue.
LEMMA TailKeeps ==
  ASSUME NEW S, NEW q \in Seq(S), q # << >>, Distinct(q)
  PROVE  /\ Tail(q) \in Seq(S) /\ Distinct(Tail(q))
         /\ Head(q) \in S /\ Head(q) \in Range(q)
         /\ Range(Tail(q)) \subseteq Range(q) \ {Head(q)}
  <1>1. /\ Head(q) \in S /\ Tail(q) \in Seq(S) /\ Len(Tail(q)) = Len(q) - 1
        /\ \A i \in 1..Len(Tail(q)) : Tail(q)[i] = q[i + 1]
    BY HeadTailProperties
  <1>2. Len(q) \in Nat \ {0} /\ DOMAIN q = 1..Len(q) /\ DOMAIN Tail(q) = 1..Len(Tail(q))
    BY <1>1, EmptySeq, LenProperties
  <1>3. Head(q) = q[1] OBVIOUS
  <1>4. \A i \in 1..Len(Tail(q)) : i + 1 \in DOMAIN q /\ i + 1 # 1 BY <1>1, <1>2
  <1>5. Distinct(Tail(q)) BY <1>1, <1>2, <1>4 DEF Distinct
  <1>6. Head(q) \in Range(q) BY <1>2, <1>3 DEF Range
  <1>7. \A i \in 1..Len(Tail(q)) : Tail(q)[i] \in Range(q) /\ Tail(q)[i] # Head(q)
    BY <1>1, <1>2, <1>3, <1>4 DEF Range, Distinct
  <1>8. Range(Tail(q)) \subseteq Range(q) \ {Head(q)} BY <1>2, <1>7 DEF Range
  <1> QED BY <1>1, <1>5, <1>6, <1>8

LEMMA InsertKeeps ==
  ASSUME NEW S, NEW q \in Seq(S), NEW e \in S, e \notin Range(q), Distinct(q),
         NEW n \in 1..Len(q) + 1
  PROVE  /\ InsertAt(q, n, e) \in Seq(S) /\ Distinct(InsertAt(q, n, e))
         /\ Range(InsertAt(q, n, e)) = Range(q) \cup {e}
  <1> DEFINE a == SubSeq(q, 1, n - 1)
             b == SubSeq(q, n, Len(q))
             c == a \o <<e>>
             r == c \o b
  <1>0. Len(q) \in Nat /\ DOMAIN q = 1..Len(q) /\ n \in Int /\ n - 1 \in Int /\ 1 \in Int
    BY LenProperties
  <1>1. /\ a \in Seq(S) /\ Len(a) = n - 1
        /\ \A i \in 1..(n - 1) : a[i] = q[i]
    <2>1. \A i \in 1..(n - 1) : q[i] \in S BY <1>0, ElementOfSeq
    <2> QED BY <1>0, <2>1, SubSeqProperties
  <1>2. /\ b \in Seq(S) /\ Len(b) = Len(q) - n + 1
        /\ \A i \in 1..(Len(q) - n + 1) : b[i] = q[n + i - 1]
    <2>1. \A i \in n..Len(q) : q[i] \in S BY <1>0, ElementOfSeq
    <2> QED BY <1>0, <2>1, SubSeqProperties
  <1>3. <<e>> \in Seq(S) /\ Len(<<e>>) = 1 /\ <<e>>[1] = e
    OBVIOUS
  <1> HIDE DEF a, b
  <1>4. /\ c \in Seq(S) /\ Len(c) = n
        /\ \A i \in 1..n : c[i] = IF i <= n - 1 THEN q[i] ELSE e
    <2>1. /\ c \in Seq(S) /\ Len(c) = Len(a) + 1
          /\ \A i \in 1..Len(a) + 1 : c[i] = IF i <= Len(a) THEN a[i] ELSE <<e>>[i - Len(a)]
      BY <1>1, <1>3, ConcatProperties
    <2> HIDE DEF c
    <2>2. ASSUME NEW i \in 1..n PROVE c[i] = IF i <= n - 1 THEN q[i] ELSE e
      <3>1. CASE i <= n - 1 BY <1>0, <1>1, <2>1, <3>1
      <3>2. CASE i = n BY <1>0, <1>1, <1>3, <2>1, <3>2
      <3> QED BY <1>0, <3>1, <3>2
    <2> QED BY <1>0, <1>1, <2>1, <2>2
  <1> HIDE DEF c
  <1>5. /\ r \in Seq(S) /\ Len(r) = Len(q) + 1
        /\ \A i \in 1..Len(q) + 1 :
              r[i] = IF i < n THEN q[i] ELSE IF i = n THEN e ELSE q[i - 1]
    <2>1. /\ r \in Seq(S) /\ Len(r) = Len(c) + Len(b)
          /\ \A i \in 1..Len(c) + Len(b) : r[i] = IF i <= Len(c) THEN c[i] ELSE b[i - Len(c)]
      BY <1>2, <1>4, ConcatProperties
    <2> HIDE DEF r
    <2>2. Len(c) + Len(b) = Len(q) + 1
      BY <1>0, <1>2, <1>4
    <2>3. ASSUME NEW i \in 1..Len(q) + 1
          PROVE  r[i] = IF i < n THEN q[i] ELSE IF i = n THEN e ELSE q[i - 1]
      <3>1. CASE i <= n
        <4>1. r[i] = c[i] /\ i \in 1..n BY <1>0, <1>4, <2>1, <2>2, <3>1
        <4> QED BY <1>0, <1>4, <3>1, <4>1
      <3>2. CASE i > n
        <4>1. r[i] = b[i - n] BY <1>0, <1>4, <2>1, <2>2, <3>2
        <4>2. i - n \in 1..(Len(q) - n + 1) BY <1>0, <3>2
        <4>3. b[i - n] = q[n + (i - n) - 1] BY <1>2, <4>2
        <4>4. n + (i - n) - 1 = i - 1 BY <1>0
        <4>5. ~(i < n) /\ i # n BY <1>0, <3>2
        <4>6. r[i] = q[i - 1] BY <4>1, <4>3, <4>4
        <4> QED BY <4>5, <4>6
      <3> QED BY <1>0, <3>1, <3>2
    <2> QED BY <2>1, <2>2, <2>3
  <1> HIDE DEF r
  <1>6. InsertAt(q, n, e) = r BY DEF InsertAt, r, c, a, b
  <1>7. DOMAIN r = 1..Len(q) + 1 BY <1>5, LenProperties
  <1>8. \A i \in 1..Len(q) : q[i] # e BY <1>0 DEF Range
  <1>9. ASSUME NEW i \in 1..Len(q) + 1, i # n
        PROVE  \E k \in 1..Len(q) : r[i] = q[k] /\ k = IF i < n THEN i ELSE i - 1
    <2>1. CASE i < n BY <1>0, <1>5, <2>1
    <2>2. CASE i > n
      <3>1. i - 1 \in 1..Len(q) BY <1>0, <2>2
      <3> QED BY <1>0, <1>5, <2>2, <3>1
    <2> QED BY <1>0, <1>9, <2>1, <2>2
  <1>n. r[n] = e BY <1>0, <1>5
  <1>10. Distinct(r)
    <2> SUFFICES ASSUME NEW i \in 1..Len(q) + 1, NEW j \in 1..Len(q) + 1, r[i] = r[j]
                 PROVE  i = j
      BY <1>7 DEF Distinct
    <2>1. CASE i = n BY <1>8, <1>9, <1>n, <2>1
    <2>2. CASE j = n BY <1>8, <1>9, <1>n, <2>2
    <2>3. CASE i # n /\ j # n
      <3>1. PICK k \in 1..Len(q) : r[i] = q[k] /\ k = IF i < n THEN i ELSE i - 1
        BY <1>9, <2>3
      <3>2. PICK m \in 1..Len(q) : r[j] = q[m] /\ m = IF j < n THEN j ELSE j - 1
        BY <1>9, <2>3
      <3>3. k = m BY <1>0, <3>1, <3>2 DEF Distinct
      <3> QED BY <1>0, <2>3, <3>1, <3>2, <3>3
    <2> QED BY <2>1, <2>2, <2>3
  <1>11. Range(r) = Range(q) \cup {e}
    <2>1. \A x \in Range(r) : x \in Range(q) \cup {e}
      BY <1>0, <1>7, <1>9, <1>n DEF Range
    <2>2. e \in Range(r)
      <3>1. n \in 1..Len(q) + 1 OBVIOUS
      <3> QED BY <1>7, <1>n, <3>1 DEF Range
    <2>3. ASSUME NEW k \in 1..Len(q) PROVE q[k] \in Range(r)
      <3>1. CASE k < n
        <4>1. k \in 1..Len(q) + 1 /\ r[k] = q[k] BY <1>0, <1>5, <3>1
        <4> QED BY <1>7, <4>1 DEF Range
      <3>2. CASE k >= n
        <4>1. k + 1 \in 1..Len(q) + 1 /\ ~(k + 1 < n) /\ k + 1 # n /\ k + 1 - 1 = k
          BY <1>0, <3>2
        <4>2. r[k + 1] = q[k] BY <1>5, <4>1
        <4> QED BY <1>7, <4>1, <4>2 DEF Range
      <3> QED BY <1>0, <3>1, <3>2
    <2>4. Range(q) \subseteq Range(r) BY <1>0, <2>3 DEF Range
    <2> QED BY <2>1, <2>2, <2>4
  <1> QED BY <1>5, <1>6, <1>10, <1>11

LEMMA LinesUpKeeps ==
  ASSUME TypeOK, NEW u \in Users, u \notin Range(queue), LinesUp(u)
  PROVE  /\ queue' \in Seq(Users) /\ Distinct(queue')
         /\ Range(queue') = Range(queue) \cup {u}
         /\ instant' \subseteq Users
  <1>1. PICK i \in 1..Len(queue) + 1 :
           /\ queue' = InsertAt(queue, i, u)
           /\ \/ i = Len(queue) + 1 /\ instant' = {u}
              \/ (\A j \in i..Len(queue) : queue[j] \in instant) /\ instant' = instant \cup {u}
    BY DEF LinesUp
  <1>2. instant' \subseteq Users BY <1>1 DEF TypeOK
  <1>3. queue \in Seq(Users) /\ Distinct(queue) BY DEF TypeOK
  <1> QED BY <1>1, <1>2, <1>3, InsertKeeps

-----------------------------------------------------------------------------
(* The inductive invariant *)

\* While a room is being drained its queue is emptied before its slots, and a
\* drained room is empty.
Drained ==
    /\ draining \in {{}, {"queue", "active"}, {"active"}}
    /\ config.enabled => draining = {}
    /\ ~config.enabled /\ "queue" \notin draining => queue = << >>
    /\ ~config.enabled /\ draining = {} => active = {}

RInv == TypeOK /\ WaitingOrServed /\ Drained

LEMMA InitRInv == Init => RInv
  BY WaitingRoomAssumption
  DEF Init, RInv, TypeOK, WaitingOrServed, Drained, Config, CallState, LeaveState, Distinct, Range

LEMMA ScheduleType ==
  ASSUME TypeOK, NEW u \in Users, NEW d \in 0..TokenTTL, ScheduleExpiry(u, d)
  PROVE  expire' \in [Users -> SUBSET (0..TokenTTL)] /\ faults' \in Nat
  <1>1. CASE expire' = [expire EXCEPT ![u] = @ \cup {d}] /\ UNCHANGED faults
    BY <1>1 DEF TypeOK
  <1>2. CASE Fault /\ UNCHANGED expire
    BY <1>2 DEF TypeOK, Fault
  <1> QED BY <1>1, <1>2 DEF ScheduleExpiry

\* What ADVANCE_QUEUE_SCRIPT does, once its SREM has left `rest`.
LEMMA AdvanceKeeps ==
  ASSUME TypeOK, WaitingOrServed, NEW rest \in SUBSET active, AdvanceFrom(rest)
  PROVE  /\ active' \subseteq Users
         /\ queue' \in Seq(Users) /\ Distinct(queue') /\ instant' \subseteq Users
         /\ token' \in [Users -> 0..TokenTTL]
         /\ expire' \in [Users -> SUBSET (0..TokenTTL)] /\ faults' \in Nat
         /\ Range(queue') \cap active' = {}
         /\ queue = << >> => queue' = << >> /\ active' = rest
  <1>0. queue \in Seq(Users) /\ Distinct(queue) /\ active \subseteq Users BY DEF TypeOK
  <1>1. CASE Cardinality(rest) < config.maxConcurrent /\ queue # << >>
    <2>1. /\ active' = rest \cup {Head(queue)} /\ queue' = Tail(queue)
          /\ token' = [token EXCEPT ![Head(queue)] = TokenTTL]
          /\ ScheduleExpiry(Head(queue), TokenTTL) /\ instant' \subseteq instant
      BY <1>1 DEF AdvanceFrom
    <2>i. instant' \subseteq Users BY <2>1 DEF TypeOK
    <2>2. /\ Tail(queue) \in Seq(Users) /\ Distinct(Tail(queue)) /\ Head(queue) \in Users
          /\ Range(Tail(queue)) \subseteq Range(queue) \ {Head(queue)}
      BY <1>0, <1>1, TailKeeps
    <2>3. TokenTTL \in 0..TokenTTL BY WaitingRoomAssumption
    <2>4. expire' \in [Users -> SUBSET (0..TokenTTL)] /\ faults' \in Nat
      BY <2>1, <2>2, <2>3, ScheduleType
    <2>5. token' \in [Users -> 0..TokenTTL] BY <2>1, <2>2, <2>3 DEF TypeOK
    <2>6. Range(queue') \cap active' = {} BY <2>1, <2>2 DEF WaitingOrServed
    <2> QED BY <1>0, <1>1, <2>1, <2>i, <2>2, <2>4, <2>5, <2>6
  <1>2. CASE ~(Cardinality(rest) < config.maxConcurrent /\ queue # << >>)
    <2>1. active' = rest /\ UNCHANGED <<queue, instant, token, expire, faults>>
      BY <1>2 DEF AdvanceFrom
    <2> QED BY <1>0, <2>1 DEF TypeOK, WaitingOrServed
  <1> QED BY <1>1, <1>2

LEMMA CallStartsType ==
  ASSUME TypeOK, NEW u \in Users, NEW c \in Callers, CallStarts(u, c)
  PROVE  calls' \in [Users -> [Callers -> CallState]]
  <1>1. CASE config.enabled BY <1>1 DEF CallStarts, TypeOK, CallState
  <1>2. CASE ~config.enabled BY <1>2 DEF CallStarts, TypeOK
  <1> QED BY <1>1, <1>2

LEMMA PublishType ==
  ASSUME TypeOK, NEW u \in Users, PublishSlotFreed(u)
  PROVE  freed' \in [Users -> Nat] /\ faults' \in Nat
  <1>1. CASE freed' = [freed EXCEPT ![u] = @ + 1] /\ UNCHANGED faults
    BY <1>1 DEF TypeOK
  <1>2. CASE Fault /\ UNCHANGED freed
    BY <1>2 DEF TypeOK, Fault
  <1> QED BY <1>1, <1>2 DEF PublishSlotFreed

LEMMA TypeNext == ASSUME TypeOK, WaitingOrServed, Next PROVE TypeOK'
  <1> USE WaitingRoomAssumption DEF TypeOK, roomVars, msgVars, userVars
  <1>1. CASE Configure
    <2>1. CASE Enable BY <2>1 DEF Enable, Config
    <2>2. CASE Disable BY <2>2 DEF Disable, Config
    <2>3. CASE DrainQueueKey BY <2>3, EmptySeq DEF DrainQueueKey, Distinct
    <2>4. CASE DrainActiveKey BY <2>4 DEF DrainActiveKey
    <2> QED BY <1>1, <2>1, <2>2, <2>3, <2>4 DEF Configure
  <1>2. CASE Tick
    <2>1. token' \in [Users -> 0..TokenTTL] BY <1>2 DEF Tick
    <2>2. expire' \in [Users -> SUBSET (0..TokenTTL)]
      <3>1. ASSUME NEW u \in Users PROVE expire'[u] \subseteq 0..TokenTTL
        <4>1. expire'[u] = {IF d = 0 THEN 0 ELSE d - 1 : d \in expire[u]} BY <1>2 DEF Tick
        <4>2. \A d \in 0..TokenTTL : (IF d = 0 THEN 0 ELSE d - 1) \in 0..TokenTTL OBVIOUS
        <4> QED BY <4>1, <4>2
      <3>2. expire' = [u \in Users |-> {IF d = 0 THEN 0 ELSE d - 1 : d \in expire[u]}]
        BY <1>2 DEF Tick
      <3> HIDE DEF TypeOK
      <3> QED BY <3>1, <3>2
    <2> QED BY <1>2, <2>1, <2>2 DEF Tick
  <1>3. ASSUME NEW u \in Users, Join(u) PROVE TypeOK'
    <2>1. CASE JoinDisabled(u) BY <2>1 DEF JoinDisabled, Joining
    <2>2. CASE JoinReconnect(u)
      <3>1. expire' \in [Users -> SUBSET (0..TokenTTL)] /\ faults' \in Nat
        BY <2>2, ScheduleType DEF JoinReconnect
      <3> QED BY <2>2, <3>1 DEF JoinReconnect, Joining
    <2>3. CASE JoinAlreadyQueued(u) BY <2>3 DEF JoinAlreadyQueued, Joining, Others
    <2>4. CASE JoinGranted(u)
      <3>1. expire' \in [Users -> SUBSET (0..TokenTTL)] /\ faults' \in Nat
        BY <2>4, ScheduleType DEF JoinGranted
      <3>2. token' \in [Users -> 0..TokenTTL] BY <2>4 DEF JoinGranted
      <3> QED BY <2>4, <3>1, <3>2 DEF JoinGranted, Joining, Others
    <2>5. CASE JoinFull(u) BY <2>5 DEF JoinFull, Joining, Others
    <2>6. CASE JoinEnqueued(u)
      <3>1. queue' \in Seq(Users) /\ Distinct(queue') /\ instant' \subseteq Users
        BY <2>6, LinesUpKeeps DEF JoinEnqueued
      <3> QED BY <2>6, <3>1 DEF JoinEnqueued, Joining, Others
    <2> QED BY <1>3, <2>1, <2>2, <2>3, <2>4, <2>5, <2>6 DEF Join
  <1>4. ASSUME NEW u \in Users, Consumer(u) PROVE TypeOK'
    <2>1. CASE SlotEvent(u)
      <3>1. calls' \in [Users -> [Callers -> CallState]]
        BY <2>1, CallStartsType DEF SlotEvent, Callers
      <3>2. freed[u] - 1 \in Nat BY <2>1 DEF SlotEvent
      <3>3. freed' \in [Users -> Nat] BY <2>1, <3>2 DEF SlotEvent
      <3> QED BY <2>1, <3>1, <3>3 DEF SlotEvent
    <2>2. CASE TokenExpire(u)
      <3>1. calls' \in [Users -> [Callers -> CallState]]
        <4>1. CASE CallStarts(u, "expire") BY <4>1, CallStartsType DEF Callers
        <4>2. CASE UNCHANGED calls BY <4>2
        <4> QED BY <2>2, <4>1, <4>2 DEF TokenExpire
      <3> QED BY <2>2, <3>1 DEF TokenExpire
    <2>3. CASE HoldReleased(u)
      <3>1. calls' \in [Users -> [Callers -> CallState]]
        BY <2>3, CallStartsType DEF HoldReleased, Callers
      <3> QED BY <2>3, <3>1 DEF HoldReleased
    <2>4. ASSUME NEW c \in Callers, CallAdvance(u, c) PROVE TypeOK'
      <3>1. /\ active' \subseteq Users /\ queue' \in Seq(Users) /\ Distinct(queue')
            /\ instant' \subseteq Users
            /\ token' \in [Users -> 0..TokenTTL]
            /\ expire' \in [Users -> SUBSET (0..TokenTTL)] /\ faults' \in Nat
        BY <2>4, AdvanceKeeps DEF CallAdvance
      <3>2. calls' \in [Users -> [Callers -> CallState]]
        BY <2>4 DEF CallAdvance, CallState
      <3> QED BY <2>4, <3>1, <3>2 DEF CallAdvance
    <2>5. ASSUME NEW c \in Callers, CallAck(u, c) PROVE TypeOK'
      BY <2>5 DEF CallAck, CallState
    <2>6. ASSUME NEW c \in Callers, CallCrash(u, c) PROVE TypeOK'
      <3>1. calls' \in [Users -> [Callers -> CallState]] /\ faults' \in Nat
        BY <2>6 DEF CallCrash, CallState, Fault
      <3>2. freed' \in [Users -> Nat] BY <2>6 DEF CallCrash
      <3>3. expire' \in [Users -> SUBSET (0..TokenTTL)] BY <2>6 DEF CallCrash
      <3> QED BY <2>6, <3>1, <3>2, <3>3 DEF CallCrash
    <2> QED BY <1>4, <2>1, <2>2, <2>3, <2>4, <2>5, <2>6 DEF Consumer
  <1>5. ASSUME NEW u \in Users, Leave(u) PROVE TypeOK'
    <2>1. CASE LeaveQueue(u) BY <2>1, RemoveFirstKeeps DEF LeaveQueue, LeaveState
    <2>2. CASE LeaveActive(u) BY <2>2 DEF LeaveActive, LeaveState
    <2>3. CASE LeaveToken(u) BY <2>3 DEF LeaveToken, LeaveState
    <2>4. CASE LeaveCheck(u) BY <2>4 DEF LeaveCheck, LeaveState
    <2>5. CASE LeaveAdvance(u)
      <3>1. /\ active' \subseteq Users /\ queue' \in Seq(Users) /\ Distinct(queue')
            /\ instant' \subseteq Users
            /\ token' \in [Users -> 0..TokenTTL]
            /\ expire' \in [Users -> SUBSET (0..TokenTTL)] /\ faults' \in Nat
        BY <2>5, AdvanceKeeps DEF LeaveAdvance
      <3> QED BY <2>5, <3>1 DEF LeaveAdvance, LeaveState
    <2>6. CASE LeaveCrash(u) BY <2>6 DEF LeaveCrash, LeaveState, Fault
    <2> QED BY <1>5, <2>1, <2>2, <2>3, <2>4, <2>5, <2>6 DEF Leave
  <1>6. ASSUME NEW u \in Users, Reserve(u) PROVE TypeOK'
    <2>1. CASE ReserveValidate(u) BY <2>1 DEF ReserveValidate
    <2>2. CASE ReserveDone(u)
      <3>1. CASE config.enabled
        <4>1. freed' \in [Users -> Nat] /\ faults' \in Nat
          BY <2>2, <3>1, PublishType DEF ReserveDone
        <4>2. token' \in [Users -> 0..TokenTTL] BY <2>2, <3>1 DEF ReserveDone
        <4> QED BY <2>2, <4>1, <4>2 DEF ReserveDone
      <3>2. CASE ~config.enabled BY <2>2, <3>2 DEF ReserveDone
      <3> QED BY <3>1, <3>2
    <2>3. CASE ReserveRefused(u) BY <2>3 DEF ReserveRefused
    <2>4. CASE PaymentDone(u)
      <3>1. freed' \in [Users -> Nat] /\ faults' \in Nat BY <2>4, PublishType DEF PaymentDone
      <3> QED BY <2>4, <3>1 DEF PaymentDone
    <2> QED BY <1>6, <2>1, <2>2, <2>3, <2>4 DEF Reserve
  <1>7. ASSUME NEW u \in Users, DisconnectCleanup(u) PROVE TypeOK'
    BY <1>7, RemoveFirstKeeps DEF DisconnectCleanup
  <1> QED BY <1>1, <1>2, <1>3, <1>4, <1>5, <1>6, <1>7 DEF Next

\* The steps that touch neither the room's configuration nor its members.
LEMMA StillKeeps ==
  ASSUME WaitingOrServed, Drained, UNCHANGED <<config, draining, active, queue>>
  PROVE  WaitingOrServed' /\ Drained'
  BY DEF WaitingOrServed, Drained, Range

\* The steps that take users out of the room or out of its queue.
LEMMA ShrinkKeeps ==
  ASSUME WaitingOrServed, Drained, UNCHANGED <<config, draining>>,
         active' \subseteq active, Range(queue') \subseteq Range(queue),
         queue = << >> => queue' = << >>
  PROVE  WaitingOrServed' /\ Drained'
  BY DEF WaitingOrServed, Drained

\* Where it matters whether the room is open: a closed one has nobody to call.
LEMMA AdvanceDrains ==
  ASSUME RInv, NEW rest \in SUBSET active, AdvanceFrom(rest), UNCHANGED <<config, draining>>
  PROVE  WaitingOrServed' /\ Drained'
  <1>1. WaitingOrServed' BY AdvanceKeeps DEF RInv, WaitingOrServed
  <1>2. queue = << >> => queue' = << >> /\ active' = rest BY AdvanceKeeps DEF RInv
  <1>3. Drained' BY <1>2 DEF RInv, Drained
  <1> QED BY <1>1, <1>3

\* Somebody who is not waiting enters.
LEMMA EnterKeeps ==
  ASSUME WaitingOrServed, Drained, UNCHANGED <<config, draining, queue>>, config.enabled,
         NEW u, u \notin Range(queue), active' \subseteq active \cup {u}
  PROVE  WaitingOrServed' /\ Drained'
  BY DEF WaitingOrServed, Drained

LEMMA RemoveFirstShrinks ==
  ASSUME TypeOK, NEW u
  PROVE  /\ RemoveFirst(queue, u) \in Seq(Users)
         /\ Range(RemoveFirst(queue, u)) \subseteq Range(queue)
         /\ queue = << >> => RemoveFirst(queue, u) = << >>
  <1>1. queue \in Seq(Users) BY DEF TypeOK
  <1>2. queue = << >> => RemoveFirst(queue, u) = << >> BY EmptySeq DEF RemoveFirst
  <1> QED BY <1>1, <1>2, RemoveFirstKeeps

LEMMA MembersNext == ASSUME RInv, Next PROVE WaitingOrServed' /\ Drained'
  <1> USE DEF RInv, roomVars, msgVars, userVars
  <1>1. CASE Configure
    <2>1. CASE Enable BY <2>1 DEF Enable, WaitingOrServed, Drained, TypeOK, Config
    <2>2. CASE Disable BY <2>2 DEF Disable, WaitingOrServed, Drained, TypeOK, Config
    <2>3. CASE DrainQueueKey
      <3>1. Range(queue') = {} BY <2>3, EmptySeq DEF DrainQueueKey, Range
      <3>2. WaitingOrServed' BY <3>1 DEF WaitingOrServed
      <3>3. Drained' BY <2>3 DEF DrainQueueKey, Drained
      <3> QED BY <3>2, <3>3
    <2>4. CASE DrainActiveKey BY <2>4 DEF DrainActiveKey, WaitingOrServed, Drained
    <2> QED BY <1>1, <2>1, <2>2, <2>3, <2>4 DEF Configure
  <1>2. CASE Tick BY <1>2, StillKeeps DEF Tick
  <1>3. ASSUME NEW u \in Users, Join(u) PROVE WaitingOrServed' /\ Drained'
    <2>1. CASE JoinDisabled(u) BY <2>1, StillKeeps DEF JoinDisabled, Joining
    <2>2. CASE JoinReconnect(u) BY <2>2, StillKeeps DEF JoinReconnect, Joining
    <2>3. CASE JoinAlreadyQueued(u)
      BY <2>3, ShrinkKeeps DEF JoinAlreadyQueued, Joining, Others
    <2>4. CASE JoinGranted(u)
      BY <2>4, EnterKeeps DEF JoinGranted, Joining, Reevaluated, Others
    <2>5. CASE JoinFull(u) BY <2>5, ShrinkKeeps DEF JoinFull, Joining, Others
    <2>6. CASE JoinEnqueued(u)
      <3>1. Range(queue') = Range(queue) \cup {u}
        BY <2>6, LinesUpKeeps DEF JoinEnqueued
      <3>2. active' = active \ {u} BY <2>6 DEF JoinEnqueued, Others
      <3>3. WaitingOrServed' BY <3>1, <3>2 DEF WaitingOrServed
      <3>4. Drained' BY <2>6 DEF JoinEnqueued, Joining, Reevaluated, Drained
      <3> QED BY <3>3, <3>4
    <2> QED BY <1>3, <2>1, <2>2, <2>3, <2>4, <2>5, <2>6 DEF Join
  <1>4. ASSUME NEW u \in Users, Consumer(u) PROVE WaitingOrServed' /\ Drained'
    <2>1. CASE SlotEvent(u) BY <2>1, StillKeeps DEF SlotEvent
    <2>2. CASE TokenExpire(u) BY <2>2, StillKeeps DEF TokenExpire
    <2>3. CASE HoldReleased(u) BY <2>3, StillKeeps DEF HoldReleased
    <2>4. ASSUME NEW c \in Callers, CallAdvance(u, c) PROVE WaitingOrServed' /\ Drained'
      BY <2>4, AdvanceDrains DEF CallAdvance
    <2>5. ASSUME NEW c \in Callers, CallAck(u, c) PROVE WaitingOrServed' /\ Drained'
      BY <2>5, StillKeeps DEF CallAck
    <2>6. ASSUME NEW c \in Callers, CallCrash(u, c) PROVE WaitingOrServed' /\ Drained'
      BY <2>6, StillKeeps DEF CallCrash
    <2> QED BY <1>4, <2>1, <2>2, <2>3, <2>4, <2>5, <2>6 DEF Consumer
  <1>5. ASSUME NEW u \in Users, Leave(u) PROVE WaitingOrServed' /\ Drained'
    <2>1. CASE LeaveQueue(u) BY <2>1, RemoveFirstShrinks, ShrinkKeeps DEF LeaveQueue
    <2>2. CASE LeaveActive(u)
      <3>1. Range(queue') = Range(queue) BY <2>2 DEF LeaveActive, Range
      <3> QED BY <2>2, <3>1, ShrinkKeeps DEF LeaveActive
    <2>3. CASE LeaveToken(u) BY <2>3, StillKeeps DEF LeaveToken
    <2>4. CASE LeaveCheck(u) BY <2>4, StillKeeps DEF LeaveCheck
    <2>5. CASE LeaveAdvance(u) BY <2>5, AdvanceDrains DEF LeaveAdvance
    <2>6. CASE LeaveCrash(u) BY <2>6, StillKeeps DEF LeaveCrash
    <2> QED BY <1>5, <2>1, <2>2, <2>3, <2>4, <2>5, <2>6 DEF Leave
  <1>6. ASSUME NEW u \in Users, Reserve(u) PROVE WaitingOrServed' /\ Drained'
    BY <1>6, StillKeeps DEF Reserve, ReserveValidate, ReserveDone, ReserveRefused, PaymentDone
  <1>7. ASSUME NEW u \in Users, DisconnectCleanup(u) PROVE WaitingOrServed' /\ Drained'
    BY <1>7, RemoveFirstShrinks, ShrinkKeeps DEF DisconnectCleanup
  <1> QED BY <1>1, <1>2, <1>3, <1>4, <1>5, <1>6, <1>7 DEF Next

LEMMA StutterKeeps == ASSUME RInv, UNCHANGED vars PROVE RInv'
  <1> USE DEF vars, roomVars, msgVars, userVars
  <1>1. TypeOK' BY DEF RInv, TypeOK, Distinct
  <1>2. WaitingOrServed' /\ Drained' BY StillKeeps DEF RInv
  <1> QED BY <1>1, <1>2 DEF RInv

LEMMA NextKeeps == ASSUME RInv, [Next]_vars PROVE RInv'
  <1>1. CASE Next BY <1>1, TypeNext, MembersNext DEF RInv
  <1>2. CASE UNCHANGED vars BY <1>2, StutterKeeps
  <1> QED BY <1>1, <1>2

-----------------------------------------------------------------------------
(* Theorems *)

\* Every state of the room is well formed and satisfies the invariant that
\* the theorems below are read off from.
THEOREM RoomInvariant == Spec => []RInv
  <1>1. Init => RInv BY InitRInv
  <1>2. RInv /\ [Next]_vars => RInv' BY NextKeeps
  <1> QED BY <1>1, <1>2, PTL DEF Spec

\* The queue is a set in an order, tokens and messages keep within their
\* life, and every handler is in one of its places.
THEOREM TypeCorrect == Spec => []TypeOK
  <1>1. RInv => TypeOK BY DEF RInv
  <1> QED BY <1>1, RoomInvariant, PTL

\* Nobody is at once in wr:queue and in wr:active, whatever leave, clean-up,
\* drain and the scripts do to the two keys.
THEOREM WaitOrServed == Spec => []WaitingOrServed
  <1>1. RInv => WaitingOrServed BY DEF RInv
  <1> QED BY <1>1, RoomInvariant, PTL

\* A disabled room whose keys are deleted stays empty: the scripts that
\* decided to run while it was open find nobody to call.
THEOREM DrainedStaysEmpty == Spec => []DisabledRoomEmpty
  <1>1. RInv => DisabledRoomEmpty BY DEF RInv, Drained, DisabledRoomEmpty
  <1> QED BY <1>1, RoomInvariant, PTL

-----------------------------------------------------------------------------
(* Capacity *)

LEMMA RoomForOne ==
  ASSUME TypeOK, NEW S \in SUBSET active, NEW x, Cardinality(S) < config.maxConcurrent
  PROVE  Cardinality(S \cup {x}) <= config.maxConcurrent
  <1>1. IsFiniteSet(S) BY WaitingRoomAssumption, FS_Subset DEF TypeOK
  <1>2. Cardinality(S) \in Nat BY <1>1, FS_CardinalityType
  <1>3. Cardinality(S \cup {x}) = Cardinality(S) \/ Cardinality(S \cup {x}) = Cardinality(S) + 1
    BY <1>1, FS_AddElement
  <1>4. config.maxConcurrent \in Nat BY DEF TypeOK, Config
  <1> QED BY <1>2, <1>3, <1>4

LEMMA AdvanceCapacity ==
  ASSUME TypeOK, NEW rest \in SUBSET active, AdvanceFrom(rest), UNCHANGED config,
         active' \ active # {}
  PROVE  Cardinality(active') <= config'.maxConcurrent
  <1>1. CASE Cardinality(rest) < config.maxConcurrent /\ queue # << >>
    BY <1>1, RoomForOne DEF AdvanceFrom
  <1>2. CASE ~(Cardinality(rest) < config.maxConcurrent /\ queue # << >>)
    BY <1>2 DEF AdvanceFrom
  <1> QED BY <1>1, <1>2

\* Only three steps let anybody in.
LEMMA CapacityNext ==
  ASSUME TypeOK, Next, active' \ active # {}
  PROVE  Cardinality(active') <= config'.maxConcurrent
  <1> USE DEF roomVars, msgVars, userVars
  <1>1. CASE Configure
    BY <1>1 DEF Configure, Enable, Disable, DrainQueueKey, DrainActiveKey
  <1>2. CASE Tick BY <1>2 DEF Tick
  <1>3. ASSUME NEW u \in Users, Join(u) PROVE Cardinality(active') <= config'.maxConcurrent
    <2>1. CASE JoinGranted(u)
      <3>1. active' = Others(u) \cup {u} /\ Cardinality(Others(u)) < config.maxConcurrent
            /\ config' = config
        BY <2>1 DEF JoinGranted, Joining
      <3> QED BY <3>1, RoomForOne DEF Others
    <2>2. CASE ~JoinGranted(u)
      BY <1>3, <2>2 DEF Join, JoinDisabled, JoinReconnect, JoinAlreadyQueued, JoinFull,
                        JoinEnqueued, Others
    <2> QED BY <2>1, <2>2
  <1>4. ASSUME NEW u \in Users, Consumer(u) PROVE Cardinality(active') <= config'.maxConcurrent
    <2>1. ASSUME NEW c \in Callers, CallAdvance(u, c)
          PROVE  Cardinality(active') <= config'.maxConcurrent
      BY <2>1, AdvanceCapacity DEF CallAdvance
    <2>2. CASE ~\E c \in Callers : CallAdvance(u, c)
      BY <1>4, <2>2 DEF Consumer, SlotEvent, TokenExpire, HoldReleased, CallAck, CallCrash
    <2> QED BY <2>1, <2>2
  <1>5. ASSUME NEW u \in Users, Leave(u) PROVE Cardinality(active') <= config'.maxConcurrent
    <2>1. CASE LeaveAdvance(u) BY <2>1, AdvanceCapacity DEF LeaveAdvance
    <2>2. CASE ~LeaveAdvance(u)
      BY <1>5, <2>2 DEF Leave, LeaveQueue, LeaveActive, LeaveToken, LeaveCheck, LeaveCrash
    <2> QED BY <2>1, <2>2
  <1>6. ASSUME NEW u \in Users, Reserve(u) PROVE Cardinality(active') <= config'.maxConcurrent
    BY <1>6 DEF Reserve, ReserveValidate, ReserveDone, ReserveRefused, PaymentDone
  <1>7. ASSUME NEW u \in Users, DisconnectCleanup(u)
        PROVE  Cardinality(active') <= config'.maxConcurrent
    BY <1>7 DEF DisconnectCleanup
  <1> QED BY <1>1, <1>2, <1>3, <1>4, <1>5, <1>6, <1>7 DEF Next

\* No interleaving of joins, leaves and calls lets somebody in beyond
\* maxConcurrent.
THEOREM WithinCapacity == Spec => AdmissionWithinCapacity
  <1>1. TypeOK /\ [Next]_vars =>
          [active' \ active # {} => Cardinality(active') <= config'.maxConcurrent]_vars
    BY CapacityNext
  <1> QED BY <1>1, TypeCorrect, PTL DEF Spec, AdmissionWithinCapacity

\* A reconfiguration that leaves the number of slots or raises it.
SlotsNotLowered == config'.maxConcurrent >= config.maxConcurrent

Capacious == Cardinality(active) <= config.maxConcurrent

LEMMA CapaciousNext ==
  ASSUME TypeOK, TypeOK', Capacious, [Next]_vars, [SlotsNotLowered]_vars
  PROVE  Capacious'
  <1>1. CASE UNCHANGED vars
    BY <1>1 DEF vars, roomVars, Capacious
  <1>2. CASE ~UNCHANGED vars
    <2>1. Next /\ SlotsNotLowered
      BY <1>2
    <2>2. CASE active' \ active # {}
      BY <2>1, <2>2, CapacityNext DEF Capacious
    <2>3. CASE active' \ active = {}
      <3>1. IsFiniteSet(active)
        BY WaitingRoomAssumption, FS_Subset DEF TypeOK
      <3>2. active' \in SUBSET active
        BY <2>3
      <3>3. IsFiniteSet(active') /\ Cardinality(active') <= Cardinality(active)
        BY <3>1, <3>2, FS_Subset
      <3>4. Cardinality(active) \in Nat /\ Cardinality(active') \in Nat
        BY <3>1, <3>3, FS_CardinalityType
      <3>5. config.maxConcurrent \in Nat /\ config'.maxConcurrent \in Nat
        BY DEF TypeOK, Config
      <3> QED BY <2>1, <3>3, <3>4, <3>5 DEF Capacious, SlotsNotLowered
    <2> QED BY <2>2, <2>3
  <1> QED BY <1>1, <1>2

\* Only a reconfiguration that lowers maxConcurrent leaves too many inside:
\* until one does, the room never holds more users than it has slots.
THEOREM OverfullOnlyByLowering == Spec /\ [][SlotsNotLowered]_vars => []Capacious
  <1>1. Init => Capacious
    BY FS_EmptySet DEF Init, Capacious
  <1>2. TypeOK /\ TypeOK' /\ Capacious /\ [Next]_vars /\ [SlotsNotLowered]_vars => Capacious'
    BY CapaciousNext
  <1> QED BY <1>1, <1>2, TypeCorrect, PTL DEF Spec

-----------------------------------------------------------------------------
(* Slots come back *)

\* What SlotComesBack says of one user.
Backed(u) ==
    \/ "active" \in draining
    \/ token[u] > 0 /\ \E d \in expire[u] : d >= token[u]
    \/ token[u] = 0 /\ \/ expire[u] # {}
                       \/ \E c \in Callers : calls[u][c] = "checked"

\* A crash or a lost message is counted for good.
LEMMA FaultCounts ==
  ASSUME TypeOK, faults' = 0
  PROVE  ~Fault
  BY DEF Fault, TypeOK

\* A slot stays backed while its token is left alone and nothing that brings
\* it back is taken away.
LEMMA BackedKept ==
  ASSUME NEW v, Backed(v),
         "active" \in draining => "active" \in draining',
         token'[v] = token[v], expire[v] \subseteq expire'[v],
         \A c \in Callers : calls[v][c] = "checked" => calls'[v][c] = "checked"
  PROVE  Backed(v)'
  <1>1. CASE "active" \in draining BY <1>1 DEF Backed
  <1>2. CASE token[v] > 0 /\ \E d \in expire[v] : d >= token[v] BY <1>2 DEF Backed
  <1>3. CASE token[v] = 0 /\ expire[v] # {} BY <1>3 DEF Backed
  <1>4. CASE token[v] = 0 /\ \E c \in Callers : calls[v][c] = "checked" BY <1>4 DEF Backed
  <1> QED BY <1>1, <1>2, <1>3, <1>4 DEF Backed

\* A token that is granted is backed by the message that will free its slot.
LEMMA ScheduleBacks ==
  ASSUME TypeOK, faults' = 0, NEW u \in Users, NEW d \in 1..TokenTTL,
         ScheduleExpiry(u, d), token'[u] = d
  PROVE  /\ Backed(u)'
         /\ \A v \in Users : expire[v] \subseteq expire'[v]
  <1>1. expire' = [expire EXCEPT ![u] = @ \cup {d}] BY FaultCounts DEF ScheduleExpiry
  <1>2. expire' = [v \in Users |-> IF v = u THEN expire[u] \cup {d} ELSE expire[v]]
    BY <1>1 DEF TypeOK
  <1>3. d \in expire'[u] /\ d \in Nat /\ d > 0 BY <1>2, WaitingRoomAssumption
  <1>4. Backed(u)' BY <1>3 DEF Backed
  <1> QED BY <1>2, <1>4

\* A token that is deleted leaves its slot to the message that was to free it.
LEMMA DeletedBacked ==
  ASSUME TypeOK, NEW u \in Users, Backed(u), token'[u] = 0, UNCHANGED <<draining, expire, calls>>
  PROVE  Backed(u)'
  BY DEF Backed

\* The script gives a slot to the head of the queue and takes nobody's message.
LEMMA AdvanceBacks ==
  ASSUME TypeOK, faults' = 0, NEW rest \in SUBSET active, AdvanceFrom(rest),
         UNCHANGED draining, \A v \in rest : Backed(v),
         \A v \in rest, c \in Callers : calls[v][c] = "checked" => calls'[v][c] = "checked"
  PROVE  \A v \in active' : Backed(v)'
  <1>1. CASE Cardinality(rest) < config.maxConcurrent /\ queue # << >>
    <2>0. Head(queue) \in Users /\ rest \subseteq Users BY <1>1, TailKeeps DEF TypeOK
    <2>h. PICK h \in Users : h = Head(queue) BY <2>0
    <2>1. /\ active' = rest \cup {h} /\ token' = [token EXCEPT ![h] = TokenTTL]
          /\ ScheduleExpiry(h, TokenTTL)
      BY <1>1, <2>h DEF AdvanceFrom
    <2>2. h \in Users /\ rest \subseteq Users BY <2>0
    <2>3. TokenTTL \in 1..TokenTTL BY WaitingRoomAssumption
    <2>4. token'[h] = TokenTTL /\ \A v \in Users \ {h} : token'[v] = token[v]
      BY <2>1, <2>2 DEF TypeOK
    <2>5. Backed(h)' /\ \A v \in Users : expire[v] \subseteq expire'[v]
      BY <2>1, <2>2, <2>3, <2>4, ScheduleBacks
    <2>6. ASSUME NEW v \in rest, v # h PROVE Backed(v)'
      <3>1. v \in Users /\ Backed(v) BY <2>2
      <3>2. token'[v] = token[v] /\ expire[v] \subseteq expire'[v] BY <2>4, <2>5, <2>6, <3>1
      <3> QED BY <3>1, <3>2, BackedKept
    <2> QED BY <2>1, <2>5, <2>6
  <1>2. CASE ~(Cardinality(rest) < config.maxConcurrent /\ queue # << >>)
    <2>1. active' = rest /\ UNCHANGED <<token, expire>> BY <1>2 DEF AdvanceFrom
    <2> QED BY <2>1, BackedKept
  <1> QED BY <1>1, <1>2

\* Once its key is drained the set is empty, so a call that is dropped because
\* the room is disabled leaves no slot behind.
LEMMA ExpiryBacks ==
  ASSUME RInv, NEW u \in Users, TokenExpire(u), NEW v \in active, Backed(v)
  PROVE  Backed(v)'
  <1> USE DEF RInv
  <1>1. UNCHANGED <<draining, token, active>>
    BY DEF TokenExpire, roomVars
  <1>2. expire' = [w \in Users |-> IF w = u THEN expire[u] \ {0} ELSE expire[w]]
    BY DEF TokenExpire, TypeOK
  <1>3. \A w \in Users, c \in Callers : calls[w][c] = "checked" => calls'[w][c] = "checked"
    <2>1. CASE CallStarts(u, "expire") BY <2>1 DEF CallStarts, TypeOK
    <2>2. CASE UNCHANGED calls BY <2>2
    <2> QED BY <2>1, <2>2 DEF TokenExpire
  <1>4. v \in Users BY DEF TypeOK
  <1>5. CASE v # u BY <1>1, <1>2, <1>3, <1>4, <1>5, BackedKept
  <1>6. CASE v = u /\ token[u] > 0
    <2>1. \A d \in expire[u] : d >= token[u] => d # 0 BY <1>6 DEF TypeOK
    <2>2. \A d \in expire[u] : d >= token[u] => d \in expire'[u] BY <1>2, <2>1
    <2> QED BY <1>1, <1>6, <2>2 DEF Backed
  <1>7. CASE v = u /\ token[u] = 0 /\ config.enabled
    <2>1. calls'[u]["expire"] = "checked" BY <1>7 DEF TokenExpire, CallStarts, TypeOK, Callers
    <2> QED BY <1>1, <1>7, <2>1 DEF Backed, Callers
  <1>8. CASE ~config.enabled BY <1>1, <1>8 DEF Drained, Backed
  <1>9. token[u] > 0 \/ token[u] = 0 BY DEF TypeOK
  <1> QED BY <1>5, <1>6, <1>7, <1>8, <1>9

LEMMA TickBacks ==
  ASSUME TypeOK, Tick, NEW v \in Users, Backed(v) PROVE Backed(v)'
  <1>1. token'[v] = IF token[v] = 0 THEN 0 ELSE token[v] - 1 BY DEF Tick
  <1>2. expire'[v] = {IF d = 0 THEN 0 ELSE d - 1 : d \in expire[v]} BY DEF Tick
  <1>3. UNCHANGED <<draining, calls>> BY DEF Tick
  <1>4. token[v] \in Nat BY DEF TypeOK
  <1>5. expire[v] \subseteq Nat BY DEF TypeOK
  <1>6. CASE "active" \in draining BY <1>3, <1>6 DEF Backed
  <1>7. CASE token[v] = 0 BY <1>1, <1>2, <1>3, <1>7 DEF Backed
  <1>8. CASE token[v] > 0 /\ "active" \notin draining
    <2>1. PICK d \in expire[v] : d >= token[v] BY <1>4, <1>8 DEF Backed
    <2>2. d \in Nat /\ d # 0 BY <1>4, <1>5, <1>8, <2>1
    <2>3. d - 1 \in expire'[v] BY <1>2, <2>2
    <2>4. token'[v] = token[v] - 1 /\ d - 1 >= token'[v] BY <1>1, <1>4, <1>8, <2>1, <2>2
    <2>5. token'[v] = 0 \/ token'[v] > 0 BY <1>4, <1>8, <2>4
    <2> QED BY <2>3, <2>4, <2>5 DEF Backed
  <1> QED BY <1>4, <1>6, <1>7, <1>8

LEMMA BackedNext ==
  ASSUME RInv, Next, faults' = 0, \A v \in active : Backed(v)
  PROVE  \A v \in active' : Backed(v)'
  <1> DEFINE Goal == \A v \in active' : Backed(v)'
  <1> USE DEF RInv, roomVars, msgVars, userVars
  <1>0. active \subseteq Users BY DEF TypeOK
  <1>a. ASSUME active' \subseteq active, UNCHANGED <<draining, token>>,
               \A v \in Users : expire[v] \subseteq expire'[v],
               \A v \in Users, c \in Callers : calls[v][c] = "checked" => calls'[v][c] = "checked"
        PROVE  Goal
    BY <1>0, <1>a, BackedKept
  <1>b. ASSUME active' \subseteq active, UNCHANGED <<draining, token, expire, calls>> PROVE Goal
    BY <1>a, <1>b
  <1>1. CASE Configure
    <2>1. CASE Enable BY <1>b, <2>1 DEF Enable
    <2>2. CASE Disable BY <2>2 DEF Disable, Backed
    <2>3. CASE DrainQueueKey BY <1>0, <2>3, BackedKept DEF DrainQueueKey
    <2>4. CASE DrainActiveKey BY <2>4 DEF DrainActiveKey
    <2> QED BY <1>1, <2>1, <2>2, <2>3, <2>4 DEF Configure
  <1>2. CASE Tick BY <1>0, <1>2, TickBacks DEF Tick
  <1>3. ASSUME NEW u \in Users, Join(u) PROVE Goal
    <2>1. CASE JoinDisabled(u) BY <1>b, <2>1 DEF JoinDisabled, Joining
    <2>2. CASE JoinReconnect(u)
      <3>1. token[u] \in 1..TokenTTL BY <2>2 DEF JoinReconnect, TypeOK
      <3>2. \A v \in Users : expire[v] \subseteq expire'[v]
        BY <2>2, <3>1, ScheduleBacks DEF JoinReconnect
      <3> QED BY <1>a, <2>2, <3>2 DEF JoinReconnect, Joining
    <2>3. CASE JoinAlreadyQueued(u)
      BY <1>b, <2>3 DEF JoinAlreadyQueued, Joining, Others
    <2>4. CASE JoinGranted(u)
      <3>1. TokenTTL \in 1..TokenTTL BY WaitingRoomAssumption
      <3>2. token'[u] = TokenTTL /\ \A v \in Users \ {u} : token'[v] = token[v]
        BY <2>4 DEF JoinGranted, TypeOK
      <3>3. Backed(u)' /\ \A v \in Users : expire[v] \subseteq expire'[v]
        BY <2>4, <3>1, <3>2, ScheduleBacks DEF JoinGranted
      <3>4. active' = (active \ {u}) \cup {u} /\ UNCHANGED <<draining, calls>>
        BY <2>4 DEF JoinGranted, Joining, Others
      <3>5. \A v \in active \ {u} : Backed(v)' BY <1>0, <3>2, <3>3, <3>4, BackedKept
      <3> QED BY <3>3, <3>4, <3>5
    <2>5. CASE JoinFull(u) BY <1>b, <2>5 DEF JoinFull, Joining, Others
    <2>6. CASE JoinEnqueued(u) BY <1>b, <2>6 DEF JoinEnqueued, Joining, Others
    <2> QED BY <1>3, <2>1, <2>2, <2>3, <2>4, <2>5, <2>6 DEF Join
  <1>4. ASSUME NEW u \in Users, Consumer(u) PROVE Goal
    <2>1. CASE SlotEvent(u)
      <3>1. \A v \in Users, c \in Callers : calls[v][c] = "checked" => calls'[v][c] = "checked"
        BY <2>1 DEF SlotEvent, CallStarts, TypeOK
      <3> QED BY <1>a, <2>1, <3>1 DEF SlotEvent
    <2>2. CASE TokenExpire(u) BY <2>2, ExpiryBacks DEF TokenExpire
    <2>3. CASE HoldReleased(u)
      <3>1. \A v \in Users, c \in Callers : calls[v][c] = "checked" => calls'[v][c] = "checked"
        BY <2>3 DEF HoldReleased, CallStarts, TypeOK
      <3> QED BY <1>a, <2>3, <3>1 DEF HoldReleased
    <2>4. ASSUME NEW c \in Callers, CallAdvance(u, c) PROVE Goal
      <3>1. active \ {u} \in SUBSET active OBVIOUS
      <3>2. \A v \in Users \ {u} : calls'[v] = calls[v] BY <2>4 DEF CallAdvance, TypeOK
      <3> QED BY <1>0, <2>4, <3>1, <3>2, AdvanceBacks DEF CallAdvance
    <2>5. ASSUME NEW c \in Callers, CallAck(u, c) PROVE Goal
      <3>1. \A v \in Users, b \in Callers : calls[v][b] = "checked" => calls'[v][b] = "checked"
        BY <2>5 DEF CallAck, TypeOK
      <3> QED BY <1>a, <2>5, <3>1 DEF CallAck
    <2>6. ASSUME NEW c \in Callers, CallCrash(u, c) PROVE Goal
      BY <2>6, FaultCounts DEF CallCrash
    <2> QED BY <1>4, <2>1, <2>2, <2>3, <2>4, <2>5, <2>6 DEF Consumer
  <1>5. ASSUME NEW u \in Users, Leave(u) PROVE Goal
    <2>1. CASE LeaveQueue(u) \/ LeaveActive(u) \/ LeaveCheck(u)
      BY <1>b, <2>1 DEF LeaveQueue, LeaveActive, LeaveCheck
    <2>2. CASE LeaveToken(u)
      <3>1. token'[u] = 0 /\ \A v \in Users \ {u} : token'[v] = token[v]
        BY <2>2 DEF LeaveToken, TypeOK
      <3>2. UNCHANGED <<draining, active, expire, calls>> BY <2>2 DEF LeaveToken
      <3>3. \A v \in active \ {u} : Backed(v)' BY <1>0, <3>1, <3>2, BackedKept
      <3>4. u \in active => Backed(u)' BY <3>1, <3>2, DeletedBacked
      <3> QED BY <3>2, <3>3, <3>4
    <2>3. CASE LeaveAdvance(u) BY <2>3, AdvanceBacks DEF LeaveAdvance
    <2>4. CASE LeaveCrash(u) BY <2>4, FaultCounts DEF LeaveCrash
    <2> QED BY <1>5, <2>1, <2>2, <2>3, <2>4 DEF Leave
  <1>6. ASSUME NEW u \in Users, Reserve(u) PROVE Goal
    <2>1. CASE ReserveDone(u) /\ config.enabled
      <3>1. token'[u] = 0 /\ \A v \in Users \ {u} : token'[v] = token[v]
        BY <2>1 DEF ReserveDone, TypeOK
      <3>2. UNCHANGED <<draining, active, expire, calls>> BY <2>1 DEF ReserveDone
      <3>3. \A v \in active \ {u} : Backed(v)' BY <1>0, <3>1, <3>2, BackedKept
      <3>4. u \in active => Backed(u)' BY <3>1, <3>2, DeletedBacked
      <3> QED BY <3>2, <3>3, <3>4
    <2>2. CASE ~(ReserveDone(u) /\ config.enabled)
      BY <1>b, <1>6, <2>2 DEF Reserve, ReserveValidate, ReserveDone, ReserveRefused, PaymentDone
    <2> QED BY <2>1, <2>2
  <1>7. ASSUME NEW u \in Users, DisconnectCleanup(u) PROVE Goal
    BY <1>b, <1>7 DEF DisconnectCleanup
  <1> QED BY <1>1, <1>2, <1>3, <1>4, <1>5, <1>6, <1>7 DEF Next

\* Faults are only counted up, so a state without faults has a past without
\* faults, and where none is allowed none is counted.
LEMMA FaultsGrow ==
  ASSUME TypeOK, [Next]_vars
  PROVE  faults' = faults \/ (faults' = faults + 1 /\ faults < MaxFaults)
  <1> DEFINE Goal == faults' = faults \/ (faults' = faults + 1 /\ faults < MaxFaults)
  <1> USE DEF Fault
  <1>1. ASSUME NEW u, NEW d, ScheduleExpiry(u, d) PROVE Goal BY <1>1 DEF ScheduleExpiry
  <1>2. ASSUME NEW rest, AdvanceFrom(rest) PROVE Goal BY <1>1, <1>2 DEF AdvanceFrom
  <1>3. ASSUME NEW u, PublishSlotFreed(u) PROVE Goal BY <1>3 DEF PublishSlotFreed
  <1> HIDE DEF Goal
  <1>4. (Configure \/ Tick) => Goal
    BY DEF Configure, Enable, Disable, DrainQueueKey, DrainActiveKey, Tick, Goal
  <1>5. ASSUME NEW u \in Users, Join(u) PROVE Goal
    BY <1>1, <1>5 DEF Join, JoinDisabled, JoinReconnect, JoinAlreadyQueued, JoinGranted, JoinFull,
                      JoinEnqueued, Goal
  <1>6. ASSUME NEW u \in Users, Consumer(u) PROVE Goal
    BY <1>2, <1>6 DEF Consumer, SlotEvent, TokenExpire, HoldReleased, CallAdvance, CallAck,
                      CallCrash, Goal
  <1>7. ASSUME NEW u \in Users, Leave(u) PROVE Goal
    BY <1>2, <1>7 DEF Leave, LeaveQueue, LeaveActive, LeaveToken, LeaveCheck, LeaveAdvance,
                      LeaveCrash, Goal
  <1>8. ASSUME NEW u \in Users, Reserve(u) PROVE Goal
    BY <1>3, <1>8 DEF Reserve, ReserveValidate, ReserveDone, ReserveRefused, PaymentDone, Goal
  <1>9. ASSUME NEW u \in Users, DisconnectCleanup(u) PROVE Goal
    BY <1>9 DEF DisconnectCleanup, Goal
  <1>10. UNCHANGED vars => Goal BY DEF vars, Goal
  <1>11. Goal BY <1>4, <1>5, <1>6, <1>7, <1>8, <1>9, <1>10 DEF Next
  <1> QED BY <1>11 DEF Goal

\* Until something dies or gets lost, every slot is on its way back.
THEOREM SlotsComeBackUntilFault == Spec => [](faults = 0 => SlotComesBack)
  <1> DEFINE Safe == faults = 0 => \A v \in active : Backed(v)
  <1>1. Init => Safe BY DEF Init
  <1>2. RInv /\ Safe /\ [Next]_vars => Safe'
    <2> SUFFICES ASSUME RInv, Safe, [Next]_vars, faults' = 0 PROVE \A v \in active' : Backed(v)'
      OBVIOUS
    <2>1. faults = 0 BY FaultsGrow DEF RInv, TypeOK
    <2>2. CASE Next BY <2>1, <2>2, BackedNext
    <2>3. CASE UNCHANGED vars
      BY <2>1, <2>3, BackedKept DEF vars, roomVars, msgVars
    <2> QED BY <2>2, <2>3
  <1>3. Safe => (faults = 0 => SlotComesBack) BY DEF SlotComesBack, Backed
  <1> QED BY <1>1, <1>2, <1>3, RoomInvariant, PTL DEF Spec

\* With no faults at all a slot whose user vanished, reserved or left is
\* always about to be freed: its token has a message that is not due before
\* it, or the message or the call that frees it is pending.
THEOREM SlotsComeBack ==
  ASSUME MaxFaults = 0
  PROVE  Spec => []SlotComesBack
  <1>1. Init => faults = 0 BY DEF Init
  <1>2. TypeOK /\ faults = 0 /\ [Next]_vars => (faults = 0)'
    BY FaultsGrow
  <1> QED BY <1>1, <1>2, TypeCorrect, SlotsComeBackUntilFault, PTL DEF Spec

-----------------------------------------------------------------------------
(* No slot is idle while somebody waits *)

\* An organizer may open and close the room and resize its queue, and keeps
\* the number of slots.
SameSlots == \A c, d \in Configs : c.maxConcurrent = d.maxConcurrent

ConfigKnown == config.enabled => \E c \in Configs : config.maxConcurrent = c.maxConcurrent

WInv ==
    /\ WorkConserving
    /\ ConfigKnown

LEMMA BusyFinite ==
  ASSUME TypeOK
  PROVE  /\ IsFiniteSet(active) /\ Cardinality(active) \in Nat
         /\ IsFiniteSet(Leavers) /\ Cardinality(Leavers) \in Nat
         /\ config.maxConcurrent \in Nat
  <1>1. IsFiniteSet(active) /\ IsFiniteSet(Leavers)
    BY WaitingRoomAssumption, FS_Subset DEF TypeOK, Leavers
  <1> QED BY <1>1, FS_CardinalityType DEF TypeOK, Config

\* Somebody who leaves hands the slot over between two counts.
LEMMA LeaverLeaves ==
  ASSUME TypeOK, NEW u \in Users, leaving[u] = "checked",
         leaving' = [leaving EXCEPT ![u] = "idle"]
  PROVE  Cardinality(Leavers') = Cardinality(Leavers) - 1
  <1>1. Leavers' = Leavers \ {u} /\ u \in Leavers BY DEF Leavers, TypeOK
  <1> QED BY <1>1, BusyFinite, FS_RemoveElement

LEMMA LeaverComes ==
  ASSUME TypeOK, NEW u \in Users, leaving[u] = "zrem",
         leaving' = [leaving EXCEPT ![u] = "srem"]
  PROVE  Cardinality(Leavers') = Cardinality(Leavers) + 1
  <1>1. Leavers' = Leavers \cup {u} /\ u \notin Leavers BY DEF Leavers, TypeOK
  <1> QED BY <1>1, BusyFinite, FS_AddElement

LEMMA OneFewer ==
  ASSUME TypeOK, NEW u
  PROVE  /\ Cardinality(active \ {u}) \in Nat
         /\ Cardinality(active \ {u}) >= Cardinality(active) - 1
  <1>1. /\ IsFiniteSet(active \ {u})
        /\ Cardinality(active \ {u}) = IF u \in active THEN Cardinality(active) - 1
                                       ELSE Cardinality(active)
    BY BusyFinite, FS_RemoveElement
  <1>2. Cardinality(active \ {u}) \in Nat BY <1>1, FS_CardinalityType
  <1> QED BY <1>1, <1>2, BusyFinite

\* The script leaves no slot free that the queue could fill, and never makes
\* the room emptier by more than the user it frees.
LEMMA AdvanceFills ==
  ASSUME TypeOK, WaitingOrServed, NEW rest \in SUBSET active, AdvanceFrom(rest)
  PROVE  /\ Cardinality(active') \in Nat
         /\ queue' # << >> => queue # << >>
         /\ queue' # << >> => \/ Cardinality(active') >= config.maxConcurrent
                              \/ Cardinality(active') = Cardinality(rest) + 1
  <1>1. IsFiniteSet(rest) /\ Cardinality(rest) \in Nat
    BY BusyFinite, FS_Subset, FS_CardinalityType
  <1>2. config.maxConcurrent \in Nat BY BusyFinite
  <1>3. CASE Cardinality(rest) < config.maxConcurrent /\ queue # << >>
    <2>1. active' = rest \cup {Head(queue)} BY <1>3 DEF AdvanceFrom
    <2>2. Head(queue) \in Range(queue) BY <1>3, TailKeeps DEF TypeOK
    <2>3. Head(queue) \notin rest BY <2>2 DEF WaitingOrServed
    <2>4. Cardinality(active') = Cardinality(rest) + 1 BY <1>1, <2>1, <2>3, FS_AddElement
    <2> QED BY <1>1, <1>3, <2>4
  <1>4. CASE ~(Cardinality(rest) < config.maxConcurrent /\ queue # << >>)
    <2>1. active' = rest /\ queue' = queue BY <1>4 DEF AdvanceFrom
    <2> QED BY <1>1, <1>2, <1>4, <2>1
  <1> QED BY <1>3, <1>4

\* Nothing changes that the count depends on, or the room only gets fuller.
LEMMA FullStaysFull ==
  ASSUME TypeOK, TypeOK', WorkConserving, UNCHANGED <<config, draining>>,
         leaving' = leaving, queue' # << >> => queue # << >>, active \subseteq active'
  PROVE  WorkConserving'
  <1>1. Leavers' = Leavers BY DEF Leavers
  <1>2. IsFiniteSet(active') BY WaitingRoomAssumption, FS_Subset DEF TypeOK
  <1>3. Cardinality(active) <= Cardinality(active') BY <1>2, FS_Subset
  <1>4. Cardinality(active') \in Nat BY <1>2, FS_CardinalityType
  <1> QED BY <1>1, <1>3, <1>4, BusyFinite DEF WorkConserving

\* A script that has found the room full, or made it so.
LEMMA FullRoom ==
  ASSUME TypeOK', Cardinality(active') >= config'.maxConcurrent
  PROVE  WorkConserving'
  <1>1. /\ IsFiniteSet(active') /\ Cardinality(active') \in Nat
        /\ IsFiniteSet(Leavers') /\ Cardinality(Leavers') \in Nat
        /\ config'.maxConcurrent \in Nat
    <2>1. IsFiniteSet(active') /\ IsFiniteSet(Leavers')
      BY WaitingRoomAssumption, FS_Subset DEF TypeOK, Leavers
    <2> QED BY <2>1, FS_CardinalityType DEF TypeOK, Config
  <1> QED BY <1>1 DEF WorkConserving

\* A room that was not open, or is not open now, promises nothing.
LEMMA NobodyWaits ==
  ASSUME ~(config'.enabled /\ draining' = {} /\ queue' # << >>)
  PROVE  WorkConserving'
  BY DEF WorkConserving

LEMMA WorkNext ==
  ASSUME SameSlots, RInv, TypeOK', WInv, Next, faults' = 0
  PROVE  WorkConserving'
  <1> USE DEF RInv, WInv, roomVars, msgVars, userVars
  <1>0. /\ config.maxConcurrent \in Nat
        /\ Cardinality(active) \in Nat /\ Cardinality(Leavers) \in Nat
    BY BusyFinite
  <1>a. CASE UNCHANGED <<config, draining, active, queue, leaving>> BY <1>a, FullStaysFull
  <1>1. CASE Configure
    <2>1. CASE Enable
      <3>1. CASE queue = << >> BY <2>1, <3>1, NobodyWaits DEF Enable
      <3>2. CASE queue # << >>
        <4>1. config.enabled BY <2>1, <3>2 DEF Enable, Drained
        <4>2. PICK c \in Configs : config.maxConcurrent = c.maxConcurrent
          BY <4>1 DEF ConfigKnown
        <4>3. config'.maxConcurrent = config.maxConcurrent
          BY <2>1, <4>2 DEF Enable, SameSlots
        <4>4. Leavers' = Leavers BY <2>1 DEF Enable, Leavers
        <4> QED BY <2>1, <3>2, <4>1, <4>3, <4>4 DEF Enable, WorkConserving
      <3> QED BY <3>1, <3>2
    <2>2. CASE Disable BY <2>2, NobodyWaits DEF Disable
    <2>3. CASE DrainQueueKey BY <2>3, NobodyWaits DEF DrainQueueKey
    <2>4. CASE DrainActiveKey
      <3>1. ~config.enabled BY <2>4 DEF DrainActiveKey, Drained
      <3> QED BY <2>4, <3>1, NobodyWaits DEF DrainActiveKey
    <2> QED BY <1>1, <2>1, <2>2, <2>3, <2>4 DEF Configure
  <1>2. CASE Tick BY <1>a, <1>2 DEF Tick
  <1>3. ASSUME NEW u \in Users, Join(u) PROVE WorkConserving'
    <2>1. CASE JoinDisabled(u) \/ JoinReconnect(u)
      BY <1>a, <2>1 DEF JoinDisabled, JoinReconnect, Joining
    <2>2. CASE JoinAlreadyQueued(u)
      <3>1. active' = active BY <2>2 DEF JoinAlreadyQueued, Others, WaitingOrServed
      <3> QED BY <1>a, <2>2, <3>1 DEF JoinAlreadyQueued, Joining
    <2>3. CASE JoinGranted(u)
      <3>1. active \subseteq active' BY <2>3 DEF JoinGranted, Others
      <3> QED BY <2>3, <3>1, FullStaysFull DEF JoinGranted, Joining
    <2>4. CASE JoinFull(u) \/ JoinEnqueued(u)
      BY <2>4, FullRoom DEF JoinFull, JoinEnqueued, Joining
    <2> QED BY <1>3, <2>1, <2>2, <2>3, <2>4 DEF Join
  <1>4. ASSUME NEW u \in Users, Consumer(u) PROVE WorkConserving'
    <2>1. ASSUME NEW c \in Callers, CallAdvance(u, c) PROVE WorkConserving'
      <3>1. active \ {u} \in SUBSET active OBVIOUS
      <3>2. /\ Cardinality(active') \in Nat
            /\ queue' # << >> => queue # << >>
            /\ queue' # << >> => \/ Cardinality(active') >= config.maxConcurrent
                                 \/ Cardinality(active') = Cardinality(active \ {u}) + 1
        BY <2>1, <3>1, AdvanceFills DEF CallAdvance
      <3>3. Cardinality(active \ {u}) >= Cardinality(active) - 1
            /\ Cardinality(active \ {u}) \in Nat
        BY OneFewer
      <3>4. Leavers' = Leavers /\ UNCHANGED <<config, draining>>
        BY <2>1 DEF CallAdvance, Leavers
      <3>5. CASE Cardinality(active') >= config.maxConcurrent BY <3>4, <3>5, FullRoom
      <3>6. CASE Cardinality(active') >= Cardinality(active)
        BY <1>0, <3>2, <3>4, <3>6 DEF WorkConserving
      <3>7. CASE queue' = << >> BY <3>7, NobodyWaits
      <3> QED BY <1>0, <3>2, <3>3, <3>5, <3>6, <3>7
    <2>2. CASE ~\E c \in Callers : CallAdvance(u, c)
      BY <1>a, <1>4, <2>2 DEF Consumer, SlotEvent, TokenExpire, HoldReleased, CallAck, CallCrash
    <2> QED BY <2>1, <2>2
  <1>5. ASSUME NEW u \in Users, Leave(u) PROVE WorkConserving'
    <2>1. CASE LeaveQueue(u)
      <3>1. Leavers' = Leavers BY <2>1 DEF LeaveQueue, Leavers, TypeOK
      <3>2. queue' # << >> => queue # << >> BY <2>1, RemoveFirstShrinks DEF LeaveQueue
      <3> QED BY <2>1, <3>1, <3>2 DEF LeaveQueue, WorkConserving
    <2>2. CASE LeaveActive(u)
      <3>1. Cardinality(Leavers') = Cardinality(Leavers) + 1
        BY <2>2, LeaverComes DEF LeaveActive
      <3>2. Cardinality(active') >= Cardinality(active) - 1 /\ Cardinality(active') \in Nat
        BY <2>2, OneFewer DEF LeaveActive
      <3> QED BY <1>0, <2>2, <3>1, <3>2 DEF LeaveActive, WorkConserving
    <2>3. CASE LeaveToken(u)
      <3>1. Leavers' = Leavers BY <2>3 DEF LeaveToken, Leavers, TypeOK
      <3> QED BY <2>3, <3>1 DEF LeaveToken, WorkConserving
    <2>4. CASE LeaveCheck(u)
      <3>1. config.enabled => Leavers' = Leavers BY <2>4 DEF LeaveCheck, Leavers, TypeOK
      <3> QED BY <2>4, <3>1 DEF LeaveCheck, WorkConserving
    <2>5. CASE LeaveAdvance(u)
      <3>1. /\ Cardinality(active') \in Nat
            /\ queue' # << >> => queue # << >>
            /\ queue' # << >> => \/ Cardinality(active') >= config.maxConcurrent
                                 \/ Cardinality(active') = Cardinality(active) + 1
        BY <2>5, AdvanceFills DEF LeaveAdvance
      <3>2. Cardinality(Leavers') = Cardinality(Leavers) - 1
        BY <2>5, LeaverLeaves DEF LeaveAdvance
      <3>3. UNCHANGED <<config, draining>> BY <2>5 DEF LeaveAdvance
      <3>4. CASE Cardinality(active') >= config.maxConcurrent BY <3>3, <3>4, FullRoom
      <3>5. CASE Cardinality(active') = Cardinality(active) + 1
        BY <1>0, <3>1, <3>2, <3>3, <3>5 DEF WorkConserving
      <3>6. CASE queue' = << >> BY <3>6, NobodyWaits
      <3> QED BY <3>1, <3>4, <3>5, <3>6
    <2>6. CASE LeaveCrash(u) BY <2>6, FaultCounts DEF LeaveCrash
    <2> QED BY <1>5, <2>1, <2>2, <2>3, <2>4, <2>5, <2>6 DEF Leave
  <1>6. ASSUME NEW u \in Users, Reserve(u) PROVE WorkConserving'
    BY <1>a, <1>6 DEF Reserve, ReserveValidate, ReserveDone, ReserveRefused, PaymentDone
  <1>7. ASSUME NEW u \in Users, DisconnectCleanup(u) PROVE WorkConserving'
    <2>1. queue' # << >> => queue # << >> BY <1>7, RemoveFirstShrinks DEF DisconnectCleanup
    <2> QED BY <1>7, <2>1, FullStaysFull DEF DisconnectCleanup
  <1> QED BY <1>1, <1>2, <1>3, <1>4, <1>5, <1>6, <1>7 DEF Next

LEMMA ConfigStaysKnown == ASSUME TypeOK, ConfigKnown, [Next]_vars PROVE ConfigKnown'
  <1>1. CASE Enable BY <1>1 DEF Enable, ConfigKnown
  <1>2. CASE Disable BY <1>2 DEF Disable, ConfigKnown, TypeOK, Config
  <1>3. CASE UNCHANGED config BY <1>3 DEF ConfigKnown
  <1>4. Enable \/ Disable \/ UNCHANGED config
    BY DEF vars, roomVars, Next, Configure, DrainQueueKey, DrainActiveKey, Tick, Join, Joining,
           JoinDisabled, JoinReconnect, JoinAlreadyQueued, JoinGranted, JoinFull, JoinEnqueued,
           Consumer, SlotEvent, TokenExpire, HoldReleased, CallAdvance, CallAck, CallCrash,
           Leave, LeaveQueue, LeaveActive, LeaveToken, LeaveCheck, LeaveAdvance, LeaveCrash,
           Reserve, ReserveValidate, ReserveDone, ReserveRefused, PaymentDone, DisconnectCleanup
  <1> QED BY <1>1, <1>2, <1>3, <1>4

\* Until a process dies in the middle of leave(), a free slot is never left
\* idle while somebody waits, as long as the number of slots is not raised.
THEOREM WorkConservedUntilFault ==
  ASSUME SameSlots
  PROVE  Spec => [](faults = 0 => WorkConserving)
  <1> DEFINE Safe == ConfigKnown /\ (faults = 0 => WorkConserving)
  <1>1. Init => Safe BY DEF Init, ConfigKnown, WorkConserving
  <1>2. RInv /\ RInv' /\ Safe /\ [Next]_vars => Safe'
    <2> SUFFICES ASSUME RInv, RInv', Safe, [Next]_vars PROVE Safe'
      OBVIOUS
    <2>1. ConfigKnown' BY ConfigStaysKnown DEF RInv
    <2>2. ASSUME faults' = 0 PROVE WorkConserving'
      <3>1. faults = 0 BY <2>2, FaultsGrow DEF RInv, TypeOK
      <3>2. CASE Next BY <2>2, <3>1, <3>2, WorkNext DEF RInv, WInv
      <3>3. CASE UNCHANGED vars
        BY <3>1, <3>3, FullStaysFull DEF RInv, vars, roomVars, userVars
      <3> QED BY <3>2, <3>3
    <2> QED BY <2>1, <2>2
  <1>3. Safe => (faults = 0 => WorkConserving) OBVIOUS
  <1> QED BY <1>1, <1>2, <1>3, RoomInvariant, PTL DEF Spec

\* With no faults at all no slot is idle while somebody waits.
THEOREM WorkConserved ==
  ASSUME SameSlots, MaxFaults = 0
  PROVE  Spec => []WorkConserving
  <1>1. Init => faults = 0 BY DEF Init
  <1>2. TypeOK /\ faults = 0 /\ [Next]_vars => (faults = 0)'
    BY FaultsGrow
  <1> QED BY <1>1, <1>2, TypeCorrect, WorkConservedUntilFault, PTL DEF Spec

-----------------------------------------------------------------------------
(* Refinement *)

\* The desk counts, and takes out of its line, as the room does.
LEMMA DeskOperators ==
  ASSUME NEW S, NEW q, NEW e, NEW n
  PROVE  /\ Desk!Cardinality(S) = Cardinality(S)
         /\ Desk!Range(q) = Range(q)
         /\ Desk!RemoveFirst(q, e) = RemoveFirst(q, e)
         /\ Desk!InsertAt(q, n, e) = InsertAt(q, n, e)
  <1>1. Desk!Cardinality(S) = Cardinality(S) BY DEF Desk!Cardinality, Cardinality
  <1>2. Desk!Range(q) = Range(q) BY DEF Desk!Range, Range
  <1>3. Desk!RemoveFirst(q, e) = RemoveFirst(q, e)
    BY DEF Desk!RemoveFirst, RemoveFirst, Desk!SelectInSeq, SelectInSeq, Desk!RemoveAt, RemoveAt,
           Desk!Min, Min
  <1>4. Desk!InsertAt(q, n, e) = InsertAt(q, n, e) BY DEF Desk!InsertAt, InsertAt
  <1> QED BY <1>1, <1>2, <1>3, <1>4

LEMMA AdvanceIsTurn ==
  ASSUME TypeOK, NEW gone, AdvanceFrom(active \ gone), UNCHANGED config
  PROVE  Desk!Turn(gone) \/ (active' = active \ gone /\ UNCHANGED <<config, queue, instant>>)
  <1>1. CASE Cardinality(active \ gone) < config.maxConcurrent /\ queue # << >>
    BY <1>1, DeskOperators DEF AdvanceFrom, Desk!Turn, Desk!deskVars
  <1>2. CASE ~(Cardinality(active \ gone) < config.maxConcurrent /\ queue # << >>)
    BY <1>2 DEF AdvanceFrom
  <1> QED BY <1>1, <1>2

LEMMA StepRefines == ASSUME RInv, Next PROVE [Desk!Next]_(Desk!vars)
  <1> USE DEF RInv, roomVars, msgVars, userVars
  <1> DEFINE Same == UNCHANGED <<config, active, queue, instant>>
  <1>0. Same => UNCHANGED Desk!vars BY DEF Desk!vars, Desk!deskVars
  <1> HIDE DEF Same
  <1>1. CASE Configure
    <2>1. CASE Enable
      <3>1. config'.enabled \in BOOLEAN /\ UNCHANGED <<active, queue, instant>>
        BY <2>1 DEF Enable
      <3> QED BY <3>1 DEF Desk!Next, Desk!Reconfigure
    <2>2. CASE Disable
      <3>1. config'.enabled \in BOOLEAN /\ UNCHANGED <<active, queue, instant>>
        BY <2>2 DEF Disable, TypeOK, Config
      <3> QED BY <3>1 DEF Desk!Next, Desk!Reconfigure
    <2>3. CASE DrainQueueKey
      <3>1. ~config.enabled BY <2>3 DEF DrainQueueKey, Drained
      <3> QED BY <2>3, <3>1 DEF DrainQueueKey, Desk!Next, Desk!EmptyLine, Desk!deskVars
    <2>4. CASE DrainActiveKey
      <3>1. ~config.enabled BY <2>4 DEF DrainActiveKey, Drained
      <3> QED BY <2>4, <3>1 DEF DrainActiveKey, Desk!Next, Desk!EmptyRoom, Desk!deskVars
    <2> QED BY <1>1, <2>1, <2>2, <2>3, <2>4 DEF Configure
  <1>2. CASE Tick
    <2>1. Desk!Pass BY <1>2 DEF Tick, Desk!Pass, Desk!deskVars
    <2> QED BY <2>1 DEF Desk!Next
  <1>3. ASSUME NEW u \in Users, Join(u) PROVE [Desk!Next]_(Desk!vars)
    <2>1. CASE JoinDisabled(u) \/ JoinReconnect(u)
      BY <1>0, <2>1 DEF JoinDisabled, JoinReconnect, Joining, Same
    <2>2. CASE JoinAlreadyQueued(u) \/ JoinFull(u)
      BY <2>2 DEF JoinAlreadyQueued, JoinFull, Joining, Others, Desk!Next, Desk!Depart,
                  Desk!deskVars
    <2>3. CASE JoinGranted(u)
      <3>1. Desk!Enter(u)
        BY <2>3, DeskOperators DEF JoinGranted, Joining, Reevaluated, Others, Desk!Enter, Desk!deskVars
      <3> QED BY <3>1 DEF Desk!Next
    <2>4. CASE JoinEnqueued(u)
      <3>1. PICK i \in 1..Len(queue) + 1 :
               /\ queue' = InsertAt(queue, i, u)
               /\ \/ i = Len(queue) + 1 /\ instant' = {u}
                  \/ /\ \A j \in i..Len(queue) : queue[j] \in instant
                     /\ instant' = instant \cup {u}
        BY <2>4 DEF JoinEnqueued, LinesUp
      <3>2. /\ config.enabled /\ u \notin Range(queue) /\ Len(queue) < config.maxQueueSize
            /\ Cardinality(active \ {u}) >= config.maxConcurrent
            /\ active' = active \ {u} /\ config' = config
        BY <2>4 DEF JoinEnqueued, Joining, Reevaluated, Others
      <3>3. /\ Desk!Range(queue) = Range(queue)
            /\ Desk!Cardinality(active \ {u}) = Cardinality(active \ {u})
            /\ Desk!InsertAt(queue, i, u) = InsertAt(queue, i, u)
        BY DeskOperators
      <3>4. Desk!Wait(u) BY <3>1, <3>2, <3>3 DEF Desk!Wait, Desk!deskVars
      <3> QED BY <3>4 DEF Desk!Next
    <2> QED BY <1>3, <2>1, <2>2, <2>3, <2>4 DEF Join
  <1>4. ASSUME NEW u \in Users, Consumer(u) PROVE [Desk!Next]_(Desk!vars)
    <2>1. ASSUME NEW c \in Callers, CallAdvance(u, c) PROVE [Desk!Next]_(Desk!vars)
      <3>1. Desk!Turn({u}) \/ (active' = active \ {u} /\ UNCHANGED <<config, queue, instant>>)
        BY <2>1, AdvanceIsTurn DEF CallAdvance
      <3> QED BY <3>1 DEF Desk!Next, Desk!Depart, Desk!deskVars
    <2>2. CASE ~\E c \in Callers : CallAdvance(u, c)
      BY <1>0, <1>4, <2>2 DEF Consumer, SlotEvent, TokenExpire, HoldReleased, CallAck,
                              CallCrash, Same
    <2> QED BY <2>1, <2>2
  <1>5. ASSUME NEW u \in Users, Leave(u) PROVE [Desk!Next]_(Desk!vars)
    <2>1. CASE LeaveQueue(u)
      BY <2>1, DeskOperators DEF LeaveQueue, Desk!Next, Desk!GiveUp, Desk!deskVars
    <2>2. CASE LeaveActive(u)
      BY <2>2 DEF LeaveActive, Desk!Next, Desk!Depart, Desk!deskVars
    <2>3. CASE LeaveAdvance(u)
      <3>1. active \ {} = active OBVIOUS
      <3>2. Desk!Turn({}) \/ (active' = active \ {} /\ UNCHANGED <<config, queue, instant>>)
        BY <2>3, <3>1, AdvanceIsTurn DEF LeaveAdvance
      <3>3. CASE Desk!Turn({}) BY <3>3 DEF Desk!Next
      <3>4. CASE active' = active \ {} /\ UNCHANGED <<config, queue, instant>>
        BY <1>0, <3>1, <3>4 DEF Same
      <3> QED BY <3>2, <3>3, <3>4
    <2>4. CASE LeaveToken(u) \/ LeaveCheck(u) \/ LeaveCrash(u)
      BY <1>0, <2>4 DEF LeaveToken, LeaveCheck, LeaveCrash, Same
    <2> QED BY <1>5, <2>1, <2>2, <2>3, <2>4 DEF Leave
  <1>6. ASSUME NEW u \in Users, Reserve(u) PROVE [Desk!Next]_(Desk!vars)
    BY <1>0, <1>6 DEF Reserve, ReserveValidate, ReserveDone, ReserveRefused, PaymentDone, Same
  <1>7. ASSUME NEW u \in Users, DisconnectCleanup(u) PROVE [Desk!Next]_(Desk!vars)
    BY <1>7, DeskOperators DEF DisconnectCleanup, Desk!Next, Desk!GiveUp, Desk!deskVars
  <1> QED BY <1>1, <1>2, <1>3, <1>4, <1>5, <1>6, <1>7 DEF Next

\* The scripts and handlers of the waiting room implement the admission desk:
\* people enter directly or from the head of one line, and only while there
\* is room, and in the line nobody passes anybody but, when joining, those who
\* joined in the same millisecond.
THEOREM RoomIsDesk == Spec => ImplementsAdmission
  <1>1. Init => Desk!Init BY DEF Init, Desk!Init
  <1>2. RInv /\ [Next]_vars => [Desk!Next]_(Desk!vars)
    <2>1. CASE UNCHANGED vars
      BY <2>1 DEF vars, roomVars, Desk!vars, Desk!deskVars
    <2> QED BY <2>1, StepRefines
  <1> QED BY <1>1, <1>2, RoomInvariant, PTL DEF Spec, ImplementsAdmission, Desk!Spec

=============================================================================
