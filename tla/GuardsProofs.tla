---------------------------- MODULE GuardsProofs ----------------------------
(***************************************************************************)
(* Who may come in, and what goes out.  What holds of Guards for every set *)
(* of requests and nonces, every limit and every life time with WindowTTL  *)
(* < LockoutTTL; of Presence for every set of users and sockets and every  *)
(* MaxConnections > 1; and, in the last part, of Delivery for every set of *)
(* letters and every bound.                                                *)
(***************************************************************************)
EXTENDS Guards, Presence, Delivery, SequenceTheorems, FiniteSetTheorems, TLAPS

\* Requests between the guard and their wrong password, and requests that
\* have counted beyond the limit and are about to lock.
Inside == {r \in Logins : login[r].at = "in"}
Over == {r \in Logins : login[r].at \in {"counted", "window"} /\ login[r].count >= MaxAttempts}

\* Whoever is under way while the lock is there came before it.
LockIsYoung == (\E r \in Logins : login[r].at # "out") => lock \in {0, LockoutTTL}

\* The counter expires before the lock does.
CounterFirst == lock > 0 => attemptsTTL < lock

\* A counter without an end of life is about to get one.
CounterExpires == (\A r \in Logins : login[r].at # "counted") /\ attempts > 0 => attemptsTTL > 0

\* Each attempt beyond the limit belongs to a request that will lock; once
\* one has, to a request that was let in before.
CountedOnce ==
    IF lock = 0 THEN attempts <= MaxAttempts - 1 + Cardinality(Over)
    ELSE attempts + Cardinality(Inside) <= MaxAttempts - 1 + Cardinality(Logins)

\* Without the lock there is a request that will set it.
OverLocks == lock = 0 /\ attempts >= MaxAttempts => Over # {}

LoginInv == LockIsYoung /\ CounterFirst /\ CounterExpires /\ CountedOnce /\ OverLocks

\* A request has its nonce from the guard on, and only then.
FoundIsIssued ==
    \A s \in Submissions :
        /\ submission[s].at = "out" => submission[s].with = {}
        /\ submission[s].with \subseteq issued
        /\ submission[s].at = "in" => \A n \in submission[s].with : nonce[n] = 0

\* A nonce that bought is deleted, and whoever found it before finds a
\* reservation.
BoughtIsSpent ==
    \A n \in Nonces :
        /\ bought[n] > 0 => n \in issued /\ nonce[n] = 0
        /\ bought[n] > 0 => \A s \in Submissions : n \in submission[s].with => hold > 0
        /\ nonce[n] > 0 => n \in issued

NonceInv == FoundIsIssued /\ BoughtIsSpent /\ NonceBuysOnce

GuardsInv == GuardsTypeOK /\ LoginInv /\ NonceInv

-----------------------------------------------------------------------------
(* Sets of requests                                                        *)

LEMMA SetsFinite ==
  /\ IsFiniteSet(Logins) /\ IsFiniteSet(Inside) /\ IsFiniteSet(Over)
  /\ Cardinality(Logins) \in Nat /\ Cardinality(Inside) \in Nat /\ Cardinality(Over) \in Nat
  <1>1. Inside \subseteq Logins /\ Over \subseteq Logins
    BY DEF Inside, Over
  <1> QED BY <1>1, GuardsAssumption, FS_Subset, FS_CardinalityType

\* A request is not in both sets.
LEMMA SetsDisjoint == Cardinality(Over) + Cardinality(Inside) <= Cardinality(Logins)
  <1>1. Inside \cap Over = {} /\ Inside \cup Over \subseteq Logins
    BY DEF Inside, Over
  <1>2. Cardinality(Inside \cup Over)
           = Cardinality(Inside) + Cardinality(Over) - Cardinality(Inside \cap Over)
    BY SetsFinite, FS_Union
  <1>3. Cardinality(Inside \cap Over) = 0
    BY <1>1, FS_EmptySet
  <1>4. Cardinality(Inside \cup Over) <= Cardinality(Logins)
    BY <1>1, GuardsAssumption, FS_Subset
  <1> QED BY <1>2, <1>3, <1>4, SetsFinite

-----------------------------------------------------------------------------
(* Types *)

LEMMA TypeInit == GuardsInit => GuardsTypeOK
  BY GuardsAssumption
  DEF GuardsInit, GuardsTypeOK, LoggedOut, Unsent, LoginState, SubmissionState

LEMMA TypeNext == GuardsTypeOK /\ [GuardsNext]_guardVars => GuardsTypeOK'
  <1> SUFFICES ASSUME GuardsTypeOK, [GuardsNext]_guardVars PROVE GuardsTypeOK'
    OBVIOUS
  <1> USE GuardsAssumption DEF GuardsTypeOK, LoginState, SubmissionState, loginVars, nonceVars
  <1>1. ASSUME NEW r \in Logins, LoginGuard(r) PROVE GuardsTypeOK'
    BY <1>1 DEF LoginGuard
  <1>2. ASSUME NEW r \in Logins, LoginCount(r) PROVE GuardsTypeOK'
    BY <1>2 DEF LoginCount
  <1>3. ASSUME NEW r \in Logins, LoginWindow(r) PROVE GuardsTypeOK'
    BY <1>3 DEF LoginWindow
  <1>4. ASSUME NEW r \in Logins, LoginLock(r) PROVE GuardsTypeOK'
    BY <1>4 DEF LoginLock, LoggedOut
  <1>5. ASSUME NEW r \in Logins, LoginRight(r) PROVE GuardsTypeOK'
    BY <1>5 DEF LoginRight, LoggedOut
  <1>6. ASSUME NEW n \in Nonces, GetNonce(n) PROVE GuardsTypeOK'
    BY <1>6 DEF GetNonce
  <1>7. ASSUME NEW n \in Nonces, NEW s \in Submissions, NonceFound(s, n) PROVE GuardsTypeOK'
    BY <1>7 DEF NonceFound
  <1>8. ASSUME NEW s \in Submissions, NonceDeleted(s) PROVE GuardsTypeOK'
    BY <1>8 DEF NonceDeleted
  <1>9. ASSUME NEW s \in Submissions, Submitted(s) PROVE GuardsTypeOK'
    BY <1>9 DEF Submitted, Unsent
  <1>10. CASE HoldPaid
    BY <1>10 DEF HoldPaid
  <1>11. CASE GuardTick
    BY <1>11 DEF GuardTick, Lower
  <1>12. CASE UNCHANGED guardVars
    BY <1>12 DEF guardVars
  <1> QED BY <1>1, <1>2, <1>3, <1>4, <1>5, <1>6, <1>7, <1>8, <1>9, <1>10, <1>11, <1>12
          DEF GuardsNext

-----------------------------------------------------------------------------
(* Login *)

LEMMA LoginStart == GuardsInit => LoginInv
  <1> SUFFICES ASSUME GuardsInit PROVE LoginInv
    OBVIOUS
  <1> QED BY GuardsAssumption, SetsFinite
          DEF GuardsInit, LoginInv, LockIsYoung, CounterFirst, CounterExpires, CountedOnce,
              OverLocks, LoggedOut

\* A request that leaves "in" or "window" leaves the set it was counted in.
LEMMA InsideLoses ==
  ASSUME NEW r \in Logins, r \in Inside, Inside' = Inside \ {r}
  PROVE  Cardinality(Inside') = Cardinality(Inside) - 1
  BY SetsFinite, FS_RemoveElement

LEMMA OverGains ==
  ASSUME NEW r \in Logins, r \notin Over, Over' = Over \cup {r}
  PROVE  Cardinality(Over') = Cardinality(Over) + 1
  BY SetsFinite, FS_AddElement

\* With the lock, and when it comes, at most everybody has counted.
LEMMA LoginNext == GuardsTypeOK /\ LoginInv /\ [GuardsNext]_guardVars => LoginInv'
  <1> SUFFICES ASSUME GuardsTypeOK, LoginInv, [GuardsNext]_guardVars PROVE LoginInv'
    OBVIOUS
  <1>t. /\ attempts \in Nat /\ attemptsTTL \in 0..WindowTTL /\ lock \in 0..LockoutTTL
        /\ login \in [Logins -> [at: LoginState, count: Nat]]
        /\ MaxAttempts \in Nat \ {0} /\ LockoutTTL \in Nat /\ WindowTTL \in Nat \ {0}
        /\ WindowTTL < LockoutTTL
    BY GuardsAssumption DEF GuardsTypeOK
  <1>i. LockIsYoung /\ CounterFirst /\ CounterExpires /\ CountedOnce /\ OverLocks
    BY DEF LoginInv
  <1>f. /\ Cardinality(Logins) \in Nat /\ Cardinality(Inside) \in Nat /\ Cardinality(Over) \in Nat
        /\ Cardinality(Over) + Cardinality(Inside) <= Cardinality(Logins)
    BY SetsFinite, SetsDisjoint
  <1>1. ASSUME NEW r \in Logins, LoginGuard(r) PROVE LoginInv'
    <2>0. lock = 0 /\ UNCHANGED <<attempts, attemptsTTL, lock>>
      BY <1>1 DEF LoginGuard
    <2>1. Over' = Over
      BY <1>1, <1>t DEF Over, LoginGuard
    <2>2. CounterExpires'
      BY <1>1, <1>i, <1>t DEF CounterExpires, LoginGuard
    <2> QED BY <1>i, <2>0, <2>1, <2>2
            DEF LoginInv, LockIsYoung, CounterFirst, CountedOnce, OverLocks
  <1>2. ASSUME NEW r \in Logins, LoginCount(r) PROVE LoginInv'
    <2>0. /\ attempts' = attempts + 1 /\ UNCHANGED <<attemptsTTL, lock>>
          /\ login[r].at = "in"
          /\ login' = [login EXCEPT ![r] = [at |-> "counted", count |-> attempts + 1]]
      BY <1>2 DEF LoginCount
    <2>1. LockIsYoung' /\ CounterFirst'
      BY <1>i, <2>0 DEF LockIsYoung, CounterFirst
    <2>2. CounterExpires'
      BY <2>0, <1>t DEF CounterExpires
    <2>3. Inside' = Inside \ {r} /\ r \in Inside /\ r \notin Over
      BY <2>0, <1>t DEF Inside, Over
    <2>4. Over' = IF attempts + 1 >= MaxAttempts THEN Over \cup {r} ELSE Over
      BY <2>0, <1>t DEF Over
    <2>5. Cardinality(Inside') = Cardinality(Inside) - 1
      BY <2>3, InsideLoses
    <2>6. CASE attempts + 1 >= MaxAttempts
      <3>1. Cardinality(Over') = Cardinality(Over) + 1
        BY <2>3, <2>4, <2>6, OverGains
      <3>2. CountedOnce'
        BY <2>0, <2>5, <3>1, <1>i, <1>t, <1>f DEF CountedOnce
      <3>3. OverLocks'
        BY <2>4, <2>6 DEF OverLocks
      <3> QED BY <2>1, <2>2, <3>2, <3>3 DEF LoginInv
    <2>7. CASE ~(attempts + 1 >= MaxAttempts)
      <3>1. CountedOnce'
        BY <2>0, <2>4, <2>5, <2>7, <1>i, <1>t, <1>f DEF CountedOnce
      <3>2. OverLocks'
        BY <2>0, <2>7 DEF OverLocks
      <3> QED BY <2>1, <2>2, <3>1, <3>2 DEF LoginInv
    <2> QED BY <2>6, <2>7
  <1>3. ASSUME NEW r \in Logins, LoginWindow(r) PROVE LoginInv'
    <2>0. /\ attemptsTTL' = IF attempts > 0 THEN WindowTTL ELSE 0
          /\ UNCHANGED <<attempts, lock>> /\ login[r].at = "counted"
          /\ login' = [login EXCEPT ![r].at = "window"]
      BY <1>3 DEF LoginWindow
    <2>1. Over' = Over /\ Inside' = Inside
      BY <2>0, <1>t DEF Over, Inside
    <2>2. LockIsYoung' /\ CounterFirst' /\ CounterExpires'
      BY <2>0, <1>i, <1>t DEF LockIsYoung, CounterFirst, CounterExpires
    <2> QED BY <1>i, <2>0, <2>1, <2>2 DEF LoginInv, CountedOnce, OverLocks
  <1>4. ASSUME NEW r \in Logins, LoginLock(r) PROVE LoginInv'
    <2>0. /\ lock' = IF login[r].count >= MaxAttempts THEN LockoutTTL ELSE lock
          /\ UNCHANGED <<attempts, attemptsTTL>> /\ login[r].at = "window"
          /\ login' = [login EXCEPT ![r] = LoggedOut]
      BY <1>4 DEF LoginLock
    <2>1. Inside' = Inside
      BY <2>0, <1>t DEF Inside, LoggedOut
    <2>2. LockIsYoung' /\ CounterFirst'
      BY <2>0, <1>i, <1>t DEF LockIsYoung, CounterFirst
    <2>3. CounterExpires'
      BY <1>4, <1>i, <1>t, <2>0 DEF CounterExpires, LoggedOut
    <2>4. CASE login[r].count >= MaxAttempts
      <3>1. CountedOnce'
        BY <2>0, <2>1, <2>4, <1>i, <1>t, <1>f DEF CountedOnce
      <3>2. OverLocks'
        BY <2>0, <2>4, <1>t DEF OverLocks
      <3> QED BY <2>2, <2>3, <3>1, <3>2 DEF LoginInv
    <2>5. CASE ~(login[r].count >= MaxAttempts)
      <3>1. Over' = Over
        BY <2>0, <2>5, <1>t DEF Over, LoggedOut
      <3> QED BY <2>0, <2>1, <2>2, <2>3, <2>5, <3>1, <1>i DEF LoginInv, CountedOnce, OverLocks
    <2> QED BY <2>4, <2>5
  <1>5. ASSUME NEW r \in Logins, LoginRight(r) PROVE LoginInv'
    <2>0. /\ attempts' = 0 /\ attemptsTTL' = 0 /\ lock' = lock
          /\ login[r].at = "in" /\ login' = [login EXCEPT ![r] = LoggedOut]
      BY <1>5 DEF LoginRight
    <2>1. Inside' = Inside \ {r} /\ r \in Inside
      BY <2>0, <1>t DEF Inside, LoggedOut
    <2>2. Cardinality(Inside') = Cardinality(Inside) - 1
      BY <2>1, InsideLoses
    <2>3. LockIsYoung'
      BY <2>0, <1>i, <1>t DEF LockIsYoung, LoggedOut
    <2>4. Over' = Over
      BY <2>0, <1>t DEF Over, LoggedOut
    <2>5. CounterFirst' /\ CounterExpires' /\ OverLocks'
      BY <2>0, <1>t DEF CounterFirst, CounterExpires, OverLocks
    <2>6. CountedOnce'
      BY <2>0, <2>2, <2>4, <1>t, <1>f DEF CountedOnce
    <2> QED BY <2>3, <2>5, <2>6 DEF LoginInv
  <1>6. CASE GuardTick
    <2>0. /\ \A r \in Logins : login[r].at = "out"
          /\ attemptsTTL' = Lower(attemptsTTL) /\ lock' = Lower(lock) /\ login' = login
          /\ attempts' = IF attemptsTTL' = 0 THEN 0 ELSE attempts
      BY <1>6 DEF GuardTick
    <2>1. Inside = {} /\ Inside' = {} /\ Over = {} /\ Over' = {}
      BY <2>0 DEF Inside, Over
    <2>2. /\ Cardinality(Inside) = 0 /\ Cardinality(Inside') = 0
          /\ Cardinality(Over) = 0 /\ Cardinality(Over') = 0
      BY <2>1, FS_EmptySet
    <2>3. LockIsYoung'
      BY <2>0 DEF LockIsYoung
    <2>4. CounterFirst' /\ CounterExpires'
      BY <2>0, <1>i, <1>t DEF CounterFirst, CounterExpires, Lower
    <2>5. CountedOnce'
      BY <2>0, <2>2, <1>i, <1>t, <1>f DEF CountedOnce, CounterFirst, CounterExpires, Lower
    <2>6. OverLocks'
      BY <2>0, <2>1, <1>i, <1>t DEF OverLocks, CounterFirst, CounterExpires, Lower
    <2> QED BY <2>3, <2>4, <2>5, <2>6 DEF LoginInv
  <1>7. CASE UNCHANGED loginVars
    BY <1>7, <1>i
    DEF loginVars, LoginInv, LockIsYoung, CounterFirst, CounterExpires, CountedOnce, OverLocks,
        Over, Inside
  <1>8. \/ \E r \in Logins : LoginGuard(r) \/ LoginCount(r) \/ LoginWindow(r) \/ LoginLock(r)
                                \/ LoginRight(r)
        \/ GuardTick
        \/ UNCHANGED loginVars
    BY DEF GuardsNext, guardVars, GetNonce, NonceFound, NonceDeleted, Submitted, HoldPaid
  <1> QED BY <1>1, <1>2, <1>3, <1>4, <1>5, <1>6, <1>7, <1>8

-----------------------------------------------------------------------------
(* Booking *)

LEMMA NonceStart == GuardsInit => NonceInv
  BY DEF GuardsInit, NonceInv, FoundIsIssued, BoughtIsSpent, NonceBuysOnce, Unsent

LEMMA NonceNext == GuardsTypeOK /\ NonceInv /\ [GuardsNext]_guardVars => NonceInv'
  <1> SUFFICES ASSUME GuardsTypeOK, NonceInv, [GuardsNext]_guardVars PROVE NonceInv'
    OBVIOUS
  <1>t. /\ issued \subseteq Nonces /\ nonce \in [Nonces -> 0..NonceTTL]
        /\ submission \in [Submissions -> [at: SubmissionState, with: SUBSET Nonces]]
        /\ hold \in 0..HoldTTL /\ bought \in [Nonces -> Nat]
        /\ NonceTTL \in Nat \ {0} /\ HoldTTL \in Nat /\ NonceTTL <= HoldTTL
    BY GuardsAssumption DEF GuardsTypeOK
  <1>i. FoundIsIssued /\ BoughtIsSpent /\ NonceBuysOnce
    BY DEF NonceInv
  <1> USE DEF NonceInv, FoundIsIssued, BoughtIsSpent, NonceBuysOnce
  <1>1. ASSUME NEW n \in Nonces, GetNonce(n) PROVE NonceInv'
    BY <1>1, <1>t, <1>i DEF GetNonce
  <1>2. ASSUME NEW n \in Nonces, NEW s \in Submissions, NonceFound(s, n) PROVE NonceInv'
    <2>1. bought[n] = 0 /\ n \in issued
      BY <1>2, <1>t, <1>i DEF NonceFound
    <2> QED BY <1>2, <2>1, <1>t, <1>i DEF NonceFound
  <1>3. ASSUME NEW s \in Submissions, NonceDeleted(s) PROVE NonceInv'
    BY <1>3, <1>t, <1>i DEF NonceDeleted
  <1>4. ASSUME NEW s \in Submissions, Submitted(s) PROVE NonceInv'
    <2>1. CASE hold = 0
      <3>1. \A n \in submission[s].with : bought[n] = 0 /\ nonce[n] = 0 /\ n \in issued
        BY <1>4, <2>1, <1>t, <1>i DEF Submitted
      <3>2. hold' = HoldTTL /\ HoldTTL > 0
        BY <1>4, <2>1, <1>t DEF Submitted
      <3>3. \A n \in Nonces : bought'[n] = IF n \in submission[s].with THEN 1 ELSE bought[n]
        BY <1>4, <2>1, <3>1, <1>t DEF Submitted
      <3> QED BY <1>4, <3>1, <3>2, <3>3, <1>t, <1>i DEF Submitted, Unsent
    <2>2. CASE hold # 0
      BY <1>4, <2>2, <1>t, <1>i DEF Submitted, Unsent
    <2> QED BY <2>1, <2>2
  <1>5. CASE HoldPaid
    BY <1>5, <1>t, <1>i DEF HoldPaid
  <1>6. CASE GuardTick
    BY <1>6, <1>t, <1>i DEF GuardTick, Lower
  <1>7. CASE UNCHANGED nonceVars
    BY <1>7, <1>i DEF nonceVars
  <1>8. \/ \E n \in Nonces : GetNonce(n) \/ \E s \in Submissions : NonceFound(s, n)
        \/ \E s \in Submissions : NonceDeleted(s) \/ Submitted(s)
        \/ HoldPaid \/ GuardTick \/ UNCHANGED nonceVars
    BY DEF GuardsNext, guardVars, LoginGuard, LoginCount, LoginWindow, LoginLock, LoginRight
  <1> QED BY <1>1, <1>2, <1>3, <1>4, <1>5, <1>6, <1>7, <1>8

-----------------------------------------------------------------------------

\* Everything the next theorems need holds of every behaviour.
THEOREM GuardsInductive == GuardsSpec => []GuardsInv
  <1>1. GuardsInit => GuardsInv
    BY TypeInit, LoginStart, NonceStart DEF GuardsInv
  <1>2. GuardsInv /\ [GuardsNext]_guardVars => GuardsInv'
    BY TypeNext, LoginNext, NonceNext DEF GuardsInv
  <1> QED BY <1>1, <1>2, PTL DEF GuardsSpec

\* At most as many wrong passwords are counted beyond the limit as requests
\* were let in before the lock.
THEOREM AttemptsStayBounded == GuardsSpec => []AttemptsBounded
  <1>1. GuardsInv => AttemptsBounded
    <2> SUFFICES ASSUME GuardsInv PROVE AttemptsBounded
      OBVIOUS
    <2>1. attempts \in Nat /\ MaxAttempts \in Nat /\ CountedOnce
      BY GuardsAssumption DEF GuardsInv, GuardsTypeOK, LoginInv
    <2> QED BY <2>1, SetsFinite, SetsDisjoint DEF CountedOnce, AttemptsBounded
  <1> QED BY <1>1, GuardsInductive, PTL

\* The counter never outlives the lock.
THEOREM CounterUnderLock == GuardsSpec => []LockHolds
  <1>1. GuardsInv => LockHolds
    BY DEF GuardsInv, GuardsTypeOK, LoginInv, OverLocks, Over, LockHolds, Locking
  <1> QED BY <1>1, GuardsInductive, PTL

\* Two submissions with one nonce make one reservation.
THEOREM OnePurchase == GuardsSpec => []NonceBuysOnce
  <1>1. GuardsInv => NonceBuysOnce
    BY DEF GuardsInv, NonceInv
  <1> QED BY <1>1, GuardsInductive, PTL

-----------------------------------------------------------------------------
(* Presence: lists of sockets.                                             *)

Once(list) == \A i, j \in DOMAIN list : list[i] = list[j] => i = j

\* What is left of a list when one element is taken out.
LEMMA RemoveAtLeaves ==
  ASSUME NEW S, NEW list \in Seq(S), NEW i \in 1..Len(list)
  PROVE  /\ RemoveAt(list, i) \in Seq(S)
         /\ Len(RemoveAt(list, i)) = Len(list) - 1
         /\ \A k \in 1..(Len(list) - 1) :
               RemoveAt(list, i)[k] = IF k < i THEN list[k] ELSE list[k + 1]
  <1> DEFINE before == SubSeq(list, 1, i - 1)
             after == SubSeq(list, i + 1, Len(list))
  <1>n. i \in Nat /\ Len(list) \in Nat /\ 1 <= i /\ i <= Len(list)
    OBVIOUS
  <1>1. /\ before \in Seq(S) /\ Len(before) = i - 1
        /\ \A k \in 1..(i - 1) : before[k] = list[k]
    BY <1>n
  <1>2. /\ after \in Seq(S) /\ Len(after) = Len(list) - i
        /\ \A k \in 1..(Len(list) - i) : after[k] = list[i + k]
    BY <1>n
  <1> HIDE DEF before, after
  <1>3. RemoveAt(list, i) = before \o after
    BY DEF RemoveAt, before, after
  <1>4. before \o after \in Seq(S) /\ Len(before \o after) = Len(list) - 1
    <2>1. before \o after \in Seq(S) /\ Len(before \o after) = Len(before) + Len(after)
      <3>1. before \in Seq(S) /\ after \in Seq(S)
        BY <1>1, <1>2
      <3> QED BY ONLY <3>1, ConcatProperties
    <2> QED BY <2>1, <1>n, <1>1, <1>2
  <1>5. ASSUME NEW k \in 1..(Len(list) - 1)
        PROVE  (before \o after)[k] = IF k < i THEN list[k] ELSE list[k + 1]
    <2>1. CASE k < i
      BY <2>1, <1>n, <1>1, <1>2
    <2>2. CASE ~(k < i)
      <3>1. k - (i - 1) \in 1..(Len(list) - i) /\ i + (k - (i - 1)) = k + 1
        BY <2>2, <1>n
      <3>2. (before \o after)[k] = after[k - (i - 1)]
        BY <2>2, <1>n, <1>1, <1>2
      <3> QED BY <2>2, <3>1, <3>2, <1>2
    <2> QED BY <2>1, <2>2
  <1> QED BY <1>3, <1>4, <1>5

LEMMA WithoutLeaves ==
  ASSUME NEW S, NEW list \in Seq(S), NEW s, Once(list)
  PROVE  /\ Without(list, s) \in Seq(S) /\ Once(Without(list, s))
         /\ ToSet(Without(list, s)) = ToSet(list) \ {s}
         /\ Len(Without(list, s)) <= Len(list)
  <1>1. CASE s \notin ToSet(list)
    BY <1>1 DEF Without
  <1>2. CASE s \in ToSet(list)
    <2>1. PICK i \in 1..Len(list) : list[i] = s /\ Without(list, s) = RemoveAt(list, i)
      <3>1. DOMAIN list = 1..Len(list)
        OBVIOUS
      <3>2. \E i \in DOMAIN list : list[i] = s
        BY <1>2 DEF ToSet
      <3>3. PICK i \in DOMAIN list : i = CHOOSE k \in DOMAIN list : list[k] = s
        BY <3>2
      <3>4. list[i] = s
        BY <3>2, <3>3
      <3> QED BY <1>2, <3>1, <3>3, <3>4 DEF Without
    <2> DEFINE rest == RemoveAt(list, i)
    <2>2. /\ rest \in Seq(S) /\ Len(rest) = Len(list) - 1
          /\ \A k \in 1..(Len(list) - 1) : rest[k] = IF k < i THEN list[k] ELSE list[k + 1]
      BY RemoveAtLeaves
    <2> HIDE DEF rest
    <2>3. DOMAIN rest = 1..(Len(list) - 1) /\ DOMAIN list = 1..Len(list)
      BY <2>2
    <2>4. Once(rest)
      <3> SUFFICES ASSUME NEW j \in DOMAIN rest, NEW k \in DOMAIN rest, rest[j] = rest[k]
                   PROVE  j = k
        BY DEF Once
      <3>1. rest[j] = list[IF j < i THEN j ELSE j + 1] /\ rest[k] = list[IF k < i THEN k ELSE k + 1]
        BY <2>2, <2>3
      <3>2. (IF j < i THEN j ELSE j + 1) = (IF k < i THEN k ELSE k + 1)
        <4>1. (IF j < i THEN j ELSE j + 1) \in DOMAIN list /\ (IF k < i THEN k ELSE k + 1) \in DOMAIN list
          BY <2>3
        <4> QED BY <3>1, <4>1 DEF Once
      <3> QED BY <3>2, <2>3
    <2>5. ToSet(rest) \subseteq ToSet(list) \ {s}
      <3> SUFFICES ASSUME NEW k \in DOMAIN rest PROVE rest[k] \in ToSet(list) \ {s}
        BY DEF ToSet
      <3>1. PICK j \in DOMAIN list : rest[k] = list[j] /\ j # i
        <4>1. k \in 1..(Len(list) - 1) /\ i \in 1..Len(list) /\ Len(list) \in Nat
          BY <2>1, <2>3
        <4>2. CASE k < i
          BY <4>1, <4>2, <2>2, <2>3
        <4>3. CASE ~(k < i)
          <5>1. k + 1 \in DOMAIN list /\ k + 1 # i
            BY <4>1, <4>3, <2>3
          <5> QED BY <5>1, <4>1, <4>3, <2>2
        <4> QED BY <4>2, <4>3
      <3> QED BY <3>1, <2>1, <2>3 DEF Once, ToSet
    <2>6. ASSUME NEW j \in DOMAIN list, list[j] # s PROVE list[j] \in ToSet(rest)
      <3>1. j # i
        BY <2>1, <2>6
      <3>2. PICK k \in DOMAIN rest : rest[k] = list[j]
        <4>1. CASE j < i
          BY <4>1, <2>2, <2>3
        <4>2. CASE j > i
          <5>1. j - 1 \in 1..(Len(list) - 1) /\ ~(j - 1 < i) /\ (j - 1) + 1 = j
            BY <4>2, <2>3
          <5> QED BY <5>1, <2>2, <2>3
        <4> QED BY <3>1, <4>1, <4>2, <2>3
      <3> QED BY <3>2 DEF ToSet
    <2>7. ToSet(list) \ {s} \subseteq ToSet(rest)
      BY <2>6 DEF ToSet
    <2> QED BY <2>1, <2>2, <2>4, <2>5, <2>7 DEF rest
  <1> QED BY <1>1, <1>2

LEMMA AppendLeaves ==
  ASSUME NEW S, NEW list \in Seq(S), NEW s \in S, Once(list), s \notin ToSet(list)
  PROVE  /\ Append(list, s) \in Seq(S) /\ Once(Append(list, s))
         /\ ToSet(Append(list, s)) = ToSet(list) \cup {s}
         /\ Len(Append(list, s)) = Len(list) + 1
  <1>1. /\ Append(list, s) \in Seq(S) /\ Len(Append(list, s)) = Len(list) + 1
        /\ \A k \in 1..Len(list) : Append(list, s)[k] = list[k]
        /\ Append(list, s)[Len(list) + 1] = s /\ Len(list) \in Nat
    OBVIOUS
  <1>2. DOMAIN Append(list, s) = 1..(Len(list) + 1) /\ DOMAIN list = 1..Len(list)
    BY <1>1
  <1>3. \A k \in DOMAIN list : list[k] # s
    BY DEF ToSet
  <1>4. Once(Append(list, s))
    BY <1>1, <1>2, <1>3 DEF Once
  <1>5. ToSet(Append(list, s)) \subseteq ToSet(list) \cup {s}
    BY <1>1, <1>2 DEF ToSet
  <1>6. ToSet(list) \cup {s} \subseteq ToSet(Append(list, s))
    BY <1>1, <1>2 DEF ToSet
  <1> QED BY <1>1, <1>4, <1>5, <1>6

-----------------------------------------------------------------------------
(* Presence: who is filed, and who is in the room.                         *)

\* A list holds sockets of its namespace and tag, each once, and none beyond
\* the limit.
ListsAreOwn ==
    \A n \in Spaces, t \in Tags :
        /\ Once(filed[n][t]) /\ Len(filed[n][t]) <= MaxConnections
        /\ \A s \in ToSet(filed[n][t]) :
              Space[s] = n /\ TagOf(s) = t /\ conn[s] \in {"open", "ghost"}

OpenIsFiled ==
    \A s \in Sockets : conn[s] \in {"open", "ghost"} => s \in ToSet(filed[Space[s]][TagOf(s)])

PresenceInv == PresenceTypeOK /\ ListsAreOwn /\ OpenIsFiled

LEMMA SocketsAreFiled ==
  ASSUME NEW s \in Sockets
  PROVE  Space[s] \in Spaces /\ TagOf(s) \in Tags
  BY PresenceAssumption DEF Spaces, TagOf, Tags

\* One list changes: what has to hold of it, and of the connections.
LEMMA Refiled ==
  ASSUME PresenceInv, NEW n \in Spaces, NEW t \in Tags, NEW list \in Seq(Sockets),
         filed' = [filed EXCEPT ![n][t] = list], conn' \in [Sockets -> Conn],
         Once(list), Len(list) <= MaxConnections,
         \A s \in ToSet(list) : Space[s] = n /\ TagOf(s) = t /\ conn'[s] \in {"open", "ghost"},
         \A s \in Sockets : conn'[s] \in {"open", "ghost"} /\ Space[s] = n /\ TagOf(s) = t
                             => s \in ToSet(list),
         \A s \in Sockets : ~(Space[s] = n /\ TagOf(s) = t) => conn'[s] = conn[s]
  PROVE  /\ filed' \in [Spaces -> [Tags -> Seq(Sockets)]]
         /\ ListsAreOwn' /\ OpenIsFiled'
  <1>t. PresenceTypeOK /\ ListsAreOwn /\ OpenIsFiled
    BY DEF PresenceInv
  <1>1. filed' \in [Spaces -> [Tags -> Seq(Sockets)]]
    BY <1>t DEF PresenceTypeOK
  <1>2. \A m \in Spaces, u \in Tags :
          filed'[m][u] = IF m = n /\ u = t THEN list ELSE filed[m][u]
    BY <1>t DEF PresenceTypeOK
  <1>3. ASSUME NEW m \in Spaces, NEW u \in Tags
        PROVE  /\ Once(filed'[m][u]) /\ Len(filed'[m][u]) <= MaxConnections
               /\ \A s \in ToSet(filed'[m][u]) :
                     Space[s] = m /\ TagOf(s) = u /\ conn'[s] \in {"open", "ghost"}
    <2>1. CASE m = n /\ u = t
      BY <2>1, <1>2
    <2>2. CASE ~(m = n /\ u = t)
      <3>1. filed'[m][u] = filed[m][u]
        BY <2>2, <1>2
      <3>2. ASSUME NEW s \in ToSet(filed[m][u])
            PROVE  Space[s] = m /\ TagOf(s) = u /\ conn'[s] \in {"open", "ghost"}
        <4>1. s \in Sockets /\ Space[s] = m /\ TagOf(s) = u /\ conn[s] \in {"open", "ghost"}
          BY <1>t DEF ListsAreOwn, PresenceTypeOK, ToSet
        <4> QED BY <4>1, <2>2
      <3> QED BY <3>1, <3>2, <1>t DEF ListsAreOwn
    <2> QED BY <2>1, <2>2
  <1>4. ASSUME NEW s \in Sockets, conn'[s] \in {"open", "ghost"}
        PROVE  s \in ToSet(filed'[Space[s]][TagOf(s)])
    <2>1. CASE Space[s] = n /\ TagOf(s) = t
      BY <2>1, <1>4, <1>2
    <2>2. CASE ~(Space[s] = n /\ TagOf(s) = t)
      BY <2>2, <1>4, <1>2, <1>t, SocketsAreFiled DEF OpenIsFiled
    <2> QED BY <2>1, <2>2
  <1> QED BY <1>1, <1>3, <1>4 DEF ListsAreOwn, OpenIsFiled, TagOf

LEMMA PresenceStart == PresenceInit => PresenceInv
  <1> SUFFICES ASSUME PresenceInit PROVE PresenceInv
    OBVIOUS
  <1>1. PresenceTypeOK
    BY DEF PresenceInit, PresenceTypeOK, Conn
  <1>2. \A n \in Spaces, t \in Tags : filed[n][t] = <<>>
    BY DEF PresenceInit
  <1>3. ListsAreOwn
    BY <1>2, PresenceAssumption DEF ListsAreOwn, Once, ToSet
  <1> QED BY <1>1, <1>3 DEF PresenceInit, PresenceInv, OpenIsFiled

LEMMA AcceptedKeeps == ASSUME PresenceInv, NEW s \in Sockets, Accepted(s) PROVE PresenceInv'
  <1> DEFINE n == Space[s]
             t == TagOf(s)
             list == filed[n][t]
  <1>t. PresenceTypeOK /\ ListsAreOwn /\ OpenIsFiled
    BY DEF PresenceInv
  <1>n. n \in Spaces /\ t \in Tags
    BY SocketsAreFiled
  <1>l. /\ list \in Seq(Sockets) /\ Once(list) /\ Len(list) < MaxConnections
        /\ \A c \in ToSet(list) : Space[c] = n /\ TagOf(c) = t /\ conn[c] \in {"open", "ghost"}
    BY <1>t, <1>n DEF PresenceTypeOK, ListsAreOwn, Accepted
  <1>a. /\ conn[s] \in {"verifying", "left"}
        /\ conn' = [conn EXCEPT ![s] = IF @ = "left" THEN "ghost" ELSE "open"]
        /\ filed' = [filed EXCEPT ![n][t] = Append(list, s)]
        /\ room' = room /\ waiting' = waiting /\ cleanup' = cleanup
    BY DEF Accepted
  <1>f. filed' = [filed EXCEPT ![n][t] = Append(list, s)]
    BY <1>a
  <1> HIDE DEF n, t, list
  <1>1. s \notin ToSet(list)
    BY <1>a, <1>l
  <1>3. /\ Append(list, s) \in Seq(Sockets) /\ Once(Append(list, s))
        /\ ToSet(Append(list, s)) = ToSet(list) \cup {s}
        /\ Len(Append(list, s)) <= MaxConnections
    <2>1. Len(list) \in Nat /\ MaxConnections \in Nat
      BY <1>l, PresenceAssumption
    <2>2. /\ Append(list, s) \in Seq(Sockets) /\ Once(Append(list, s))
          /\ ToSet(Append(list, s)) = ToSet(list) \cup {s}
          /\ Len(Append(list, s)) = Len(list) + 1
      BY <1>1, <1>l, AppendLeaves
    <2> QED BY <2>1, <2>2, <1>l
  <1>4. conn' \in [Sockets -> Conn] /\ conn'[s] \in {"open", "ghost"}
        /\ \A c \in Sockets \ {s} : conn'[c] = conn[c]
    BY <1>a, <1>t DEF PresenceTypeOK, Conn
  <1>5. \A c \in ToSet(list) : c \in Sockets \ {s}
    <2>1. ToSet(list) \subseteq Sockets
      BY ONLY <1>l DEF ToSet
    <2> QED BY <2>1, <1>1
  <1>6. \A c \in ToSet(Append(list, s)) :
          Space[c] = n /\ TagOf(c) = t /\ conn'[c] \in {"open", "ghost"}
    BY <1>3, <1>4, <1>5, <1>l DEF n, t
  <1>7. ASSUME NEW c \in Sockets, conn'[c] \in {"open", "ghost"}, Space[c] = n, TagOf(c) = t
        PROVE  c \in ToSet(Append(list, s))
    <2>1. CASE c = s
      BY <2>1, <1>3
    <2>2. CASE c # s
      BY <2>2, <1>3, <1>4, <1>7, <1>t DEF OpenIsFiled, list
    <2> QED BY <2>1, <2>2
  <1>8. \A c \in Sockets : ~(Space[c] = n /\ TagOf(c) = t) => conn'[c] = conn[c]
    BY <1>4 DEF n, t
  <1>9. filed' \in [Spaces -> [Tags -> Seq(Sockets)]] /\ ListsAreOwn' /\ OpenIsFiled'
    <2>1. \A c \in Sockets : conn'[c] \in {"open", "ghost"} /\ Space[c] = n /\ TagOf(c) = t
                             => c \in ToSet(Append(list, s))
      BY <1>7
    <2>2. PresenceInv
      OBVIOUS
    <2> QED BY ONLY <2>1, <2>2, <1>n, <1>f, <1>3, <1>4, <1>6, <1>8, Refiled
  <1>10. PresenceTypeOK'
    BY <1>a, <1>t, <1>4, <1>9 DEF PresenceTypeOK
  <1> QED BY <1>9, <1>10 DEF PresenceInv

\* A socket that was open goes, and with it its place in the list.
LEMMA GoneKeeps ==
  ASSUME PresenceInv, NEW s \in Sockets, conn[s] = "open",
         conn' = [conn EXCEPT ![s] = "closed"],
         filed' = [filed EXCEPT ![Space[s]][TagOf(s)] = Without(filed[Space[s]][TagOf(s)], s)],
         room' = room \ {s}, waiting' = waiting, cleanup' \subseteq cleanup \cup {s}
  PROVE  PresenceInv'
  <1> DEFINE n == Space[s]
             t == TagOf(s)
             list == filed[n][t]
  <1>t. PresenceTypeOK /\ ListsAreOwn /\ OpenIsFiled
    BY DEF PresenceInv
  <1>n. n \in Spaces /\ t \in Tags
    BY SocketsAreFiled
  <1>l. /\ list \in Seq(Sockets) /\ Once(list) /\ Len(list) <= MaxConnections
        /\ \A c \in ToSet(list) : Space[c] = n /\ TagOf(c) = t /\ conn[c] \in {"open", "ghost"}
    BY <1>t, <1>n DEF PresenceTypeOK, ListsAreOwn
  <1>f. filed' = [filed EXCEPT ![n][t] = Without(list, s)]
    OBVIOUS
  <1> HIDE DEF n, t, list
  <1>1. /\ Without(list, s) \in Seq(Sockets) /\ Once(Without(list, s))
        /\ ToSet(Without(list, s)) = ToSet(list) \ {s}
        /\ Len(Without(list, s)) <= MaxConnections
    <2>1. Len(list) \in Nat /\ MaxConnections \in Nat
      BY <1>l, PresenceAssumption
    <2>2. /\ Without(list, s) \in Seq(Sockets) /\ Once(Without(list, s))
          /\ ToSet(Without(list, s)) = ToSet(list) \ {s}
          /\ Len(Without(list, s)) <= Len(list)
      BY <1>l, WithoutLeaves
    <2>3. Len(Without(list, s)) \in Nat
      BY <2>2
    <2> QED BY <2>1, <2>2, <2>3, <1>l
  <1>2. conn' \in [Sockets -> Conn] /\ \A c \in Sockets \ {s} : conn'[c] = conn[c]
    BY <1>t DEF PresenceTypeOK, Conn
  <1>3. \A c \in ToSet(Without(list, s)) :
          Space[c] = n /\ TagOf(c) = t /\ conn'[c] \in {"open", "ghost"}
    <2>1. \A c \in ToSet(Without(list, s)) : c \in Sockets \ {s} /\ c \in ToSet(list)
      <3>1. ToSet(list) \subseteq Sockets
        BY ONLY <1>l DEF ToSet
      <3> QED BY <3>1, <1>1
    <2> QED BY <2>1, <1>2, <1>l
  <1>4. ASSUME NEW c \in Sockets, conn'[c] \in {"open", "ghost"}, Space[c] = n, TagOf(c) = t
        PROVE  c \in ToSet(Without(list, s))
    <2>1. c # s /\ conn[c] \in {"open", "ghost"}
      BY <1>4, <1>t DEF PresenceTypeOK
    <2> QED BY <2>1, <1>4, <1>1, <1>t DEF OpenIsFiled, list
  <1>5. \A c \in Sockets : ~(Space[c] = n /\ TagOf(c) = t) => conn'[c] = conn[c]
    BY <1>2 DEF n, t
  <1>6. filed' \in [Spaces -> [Tags -> Seq(Sockets)]] /\ ListsAreOwn' /\ OpenIsFiled'
    <2>1. \A c \in Sockets : conn'[c] \in {"open", "ghost"} /\ Space[c] = n /\ TagOf(c) = t
                             => c \in ToSet(Without(list, s))
      BY <1>4
    <2>2. PresenceInv
      OBVIOUS
    <2> QED BY ONLY <2>1, <2>2, <1>n, <1>f, <1>1, <1>2, <1>3, <1>5, Refiled
  <1>7. PresenceTypeOK'
    BY <1>t, <1>2, <1>6 DEF PresenceTypeOK
  <1> QED BY <1>6, <1>7 DEF PresenceInv

\* Nothing else touches the lists, or who is open.
LEMMA UnfiledKeeps ==
  ASSUME PresenceInv, PresenceTypeOK', filed' = filed,
         \A s \in Sockets : conn[s] \in {"open", "ghost"} => conn'[s] = conn[s],
         \A s \in Sockets : conn'[s] \in {"open", "ghost"} => conn'[s] = conn[s]
  PROVE  PresenceInv'
  <1>1. ListsAreOwn'
    <2>1. ASSUME NEW n \in Spaces, NEW t \in Tags, NEW s \in ToSet(filed[n][t])
          PROVE  s \in Sockets /\ Space[s] = n /\ TagOf(s) = t /\ conn'[s] \in {"open", "ghost"}
      <3>1. s \in Sockets
        BY DEF PresenceInv, PresenceTypeOK, ToSet
      <3> QED BY <3>1 DEF PresenceInv, ListsAreOwn
    <2> QED BY <2>1 DEF PresenceInv, ListsAreOwn, TagOf
  <1>2. OpenIsFiled'
    BY DEF PresenceInv, OpenIsFiled, TagOf
  <1> QED BY <1>1, <1>2 DEF PresenceInv

LEMMA PresenceStep == PresenceInv /\ [PresenceNext]_presenceVars => PresenceInv'
  <1> SUFFICES ASSUME PresenceInv, [PresenceNext]_presenceVars PROVE PresenceInv'
    OBVIOUS
  <1>t. PresenceTypeOK /\ ListsAreOwn /\ OpenIsFiled
    BY DEF PresenceInv
  <1>1. ASSUME NEW s \in Sockets, Dial(s) PROVE PresenceInv'
    <2>1. PresenceTypeOK'
      BY <1>1, <1>t DEF Dial, PresenceTypeOK, Conn
    <2> QED BY <2>1, <1>1, <1>t, UnfiledKeeps DEF Dial, PresenceTypeOK
  <1>2. ASSUME NEW s \in Sockets, Rejected(s) \/ GoneEarly(s) PROVE PresenceInv'
    <2>1. PresenceTypeOK'
      BY <1>2, <1>t DEF Rejected, GoneEarly, PresenceTypeOK, Conn
    <2> QED BY <2>1, <1>2, <1>t, UnfiledKeeps DEF Rejected, GoneEarly, PresenceTypeOK
  <1>3. ASSUME NEW s \in Sockets, Accepted(s) PROVE PresenceInv'
    BY <1>3, AcceptedKeeps
  <1>r. ASSUME NEW s \in Sockets, TurnedAway(s) PROVE PresenceInv'
    <2>1. PresenceTypeOK'
      BY <1>r, <1>t DEF TurnedAway, PresenceTypeOK, Conn
    <2> QED BY <2>1, <1>r, <1>t, UnfiledKeeps DEF TurnedAway, PresenceTypeOK
  <1>4. ASSUME NEW s \in Sockets, Disconnected(s) PROVE PresenceInv'
    BY <1>4, <1>t, SocketsAreFiled, GoneKeeps DEF Disconnected, PresenceTypeOK
  <1>5. ASSUME NEW s \in Sockets, Unsubscribed(s) PROVE PresenceInv'
    BY <1>5, <1>t, SocketsAreFiled, GoneKeeps DEF Unsubscribed, PresenceTypeOK
  <1>6. ASSUME NEW s \in Sockets, JoinRoom(s) \/ LeaveRoom(s) \/ Subscribe(s) PROVE PresenceInv'
    <2>1. PresenceTypeOK'
      BY <1>6, <1>t DEF JoinRoom, LeaveRoom, Subscribe, PresenceTypeOK
    <2> QED BY <2>1, <1>6, UnfiledKeeps DEF JoinRoom, LeaveRoom, Subscribe
  <1>7. ASSUME NEW s \in Sockets, CleanUp(s) \/ CleanUpGivenUp(s) PROVE PresenceInv'
    <2>1. PresenceTypeOK'
      BY <1>7, <1>t DEF CleanUp, CleanUpGivenUp, PresenceTypeOK
    <2> QED BY <2>1, <1>7, UnfiledKeeps DEF CleanUp, CleanUpGivenUp
  <1>8. ASSUME NEW u \in Visitors, Enqueue(u) PROVE PresenceInv'
    <2>1. PresenceTypeOK'
      BY <1>8, <1>t DEF Enqueue, PresenceTypeOK
    <2> QED BY <2>1, <1>8, UnfiledKeeps DEF Enqueue
  <1>9. CASE UNCHANGED presenceVars
    <2>1. PresenceTypeOK'
      BY <1>9, <1>t DEF presenceVars, PresenceTypeOK
    <2> QED BY <2>1, <1>9, UnfiledKeeps DEF presenceVars
  <1> QED BY <1>1, <1>2, <1>3, <1>r, <1>4, <1>5, <1>6, <1>7, <1>8, <1>9 DEF PresenceNext

\* What the tables of sockets keep to, whatever order sockets come and go in.
THEOREM PresenceInductive == PresenceSpec => []PresenceInv
  BY PresenceStart, PresenceStep, PTL DEF PresenceSpec

\* The variables of Presence have their types.
THEOREM PresenceTypeCorrect == PresenceSpec => []PresenceTypeOK
  <1>1. PresenceInv => PresenceTypeOK
    BY DEF PresenceInv
  <1> QED BY <1>1, PresenceInductive, PTL

\* The lists hold the open sockets, those that had left before they were
\* filed, and no more than the limit.
THEOREM ConnectionsStayBounded == PresenceSpec => []ConnectionsBounded
  <1>1. PresenceInv => ConnectionsBounded
    <2> SUFFICES ASSUME PresenceInv, NEW n \in Spaces, NEW t \in Tags
                 PROVE  /\ Len(filed[n][t]) <= MaxConnections
                        /\ ToSet(filed[n][t]) =
                             {s \in Sockets : Space[s] = n /\ TagOf(s) = t
                                              /\ conn[s] \in {"open", "ghost"}}
      BY DEF ConnectionsBounded
    <2>1. ToSet(filed[n][t]) \subseteq Sockets
      BY DEF PresenceInv, PresenceTypeOK, ToSet
    <2>2. \A s \in ToSet(filed[n][t]) :
            Space[s] = n /\ TagOf(s) = t /\ conn[s] \in {"open", "ghost"}
      BY DEF PresenceInv, ListsAreOwn
    <2>3. \A s \in Sockets : Space[s] = n /\ TagOf(s) = t /\ conn[s] \in {"open", "ghost"}
                             => s \in ToSet(filed[n][t])
      BY DEF PresenceInv, OpenIsFiled
    <2> QED BY <2>1, <2>2, <2>3 DEF PresenceInv, ListsAreOwn
  <1> QED BY <1>1, PresenceInductive, PTL

-----------------------------------------------------------------------------
(* Delivery: letters and where they are.                                   *)

\* A copy on its way is one of a letter that has been sent.
OnlySent == \A m \in live : m.letter \in sent

\* Only what has been handled is acknowledged.
DoneIsHandled == \A m \in live : m.place = "done" => m.letter \in handled

\* Each retry a copy carries is for a failure.
RetriedIsFailed == \A m \in live : m.retry <= failed[m.letter]

\* Copies for the handler.
Pending(l) == {m \in live : m.letter = l /\ m.place # "rejected"}
ActiveBounded ==
    \A l \in Letters : IsFiniteSet(Pending(l)) /\ Cardinality(Pending(l)) <= 1 + redeliveries

DeliveryInv ==
    /\ DeliveryTypeOK /\ OnlySent /\ DoneIsHandled /\ RetriedIsFailed
    /\ ActiveBounded /\ LostOnlyByFailures

-----------------------------------------------------------------------------
(* Bindings and sets of copies                                             *)

\* A publication makes at most one copy, and it is one for the handler.
LEMMA PublicationType ==
  ASSUME NEW l \in Letters, NEW exchange, NEW r \in 0..MaxRetries, NEW k \in 0..MaxFailures
  PROVE  /\ Publication(l, exchange, r, k) \subseteq Copy
         /\ \A m \in Publication(l, exchange, r, k) :
               m.letter = l /\ m.retry = r /\ m.place \notin {"done", "rejected"}
         /\ \E n : Publication(l, exchange, r, k) \subseteq {n}
  BY DEF Publication, Copy, Place

\* What a service publishes first reaches a queue.
LEMMA FirstReaches ==
  ASSUME NEW l \in Letters
  PROVE  Publication(l, Home(l), 0, 0) # {}
  <1>1. <<Home(l), Key[l]>> \in Bound
    <2> USE DeliveryAssumption
        DEF Home, Key, Bound, SlotBindings, DisconnectBindings, ReleaseBindings, RefundBindings
    <2>1. CASE l = "slot" BY <2>1
    <2>2. CASE l = "token" BY <2>2
    <2>3. CASE l = "disconnect" BY <2>3
    <2>4. CASE l = "release" BY <2>4
    <2>5. CASE l = "refund" BY <2>5
    <2> QED BY <2>1, <2>2, <2>3, <2>4, <2>5
  <1> QED BY <1>1 DEF Publication

\* A retry reaches a queue, but for that of a slot event.
LEMMA RetryReaches ==
  ASSUME NEW l \in {"token", "disconnect"}, NEW r, NEW k
  PROVE  Publication(l, "delayed-exchange", r, k) # {}
  <1>1. CASE l = "token"
    BY <1>1 DEF Publication, Key, Bound, SlotBindings
  <1>2. CASE l = "disconnect"
    BY <1>2 DEF Publication, Key, Bound, DisconnectBindings
  <1> QED BY <1>1, <1>2

\* One copy makes room for at most one.
LEMMA OneForOne ==
  ASSUME NEW A, IsFiniteSet(A), NEW m \in A, NEW n, NEW B, B \subseteq (A \ {m}) \cup {n}
  PROVE  IsFiniteSet(B) /\ Cardinality(B) <= Cardinality(A)
  <1> DEFINE C == A \ {m}
             D == C \cup {n}
  <1>1. IsFiniteSet(C) /\ Cardinality(C) = Cardinality(A) - 1 /\ Cardinality(A) \in Nat
    BY FS_RemoveElement, FS_CardinalityType
  <1> HIDE DEF C
  <1>2. IsFiniteSet(D) /\ Cardinality(D) \in {Cardinality(C), Cardinality(C) + 1}
    <2>1. IsFiniteSet(C \cup {n})
      BY <1>1, FS_AddElement
    <2>2. Cardinality(C \cup {n}) = IF n \in C THEN Cardinality(C) ELSE Cardinality(C) + 1
      BY <1>1, FS_AddElement
    <2> QED BY <2>1, <2>2
  <1>3. B \subseteq D
    BY DEF C
  <1> HIDE DEF D
  <1>4. IsFiniteSet(B) /\ Cardinality(B) <= Cardinality(D)
    <2>1. IsFiniteSet(B)
      BY <1>2, <1>3, FS_Subset
    <2>2. Cardinality(B) <= Cardinality(D)
      BY <1>2, <1>3, FS_Subset
    <2> QED BY <2>1, <2>2
  <1>5. Cardinality(B) \in Nat /\ Cardinality(D) \in Nat
    BY <1>2, <1>4, FS_CardinalityType
  <1> QED BY <1>1, <1>2, <1>4, <1>5

LEMMA OneMore ==
  ASSUME NEW A, IsFiniteSet(A), NEW n, NEW B, B \subseteq A \cup {n}
  PROVE  IsFiniteSet(B) /\ Cardinality(B) <= Cardinality(A) + 1
  <1> DEFINE D == A \cup {n}
  <1>1. IsFiniteSet(D)
    BY FS_AddElement
  <1>2. Cardinality(D) = IF n \in A THEN Cardinality(A) ELSE Cardinality(A) + 1
    BY FS_AddElement
  <1>3. Cardinality(A) \in Nat
    BY FS_CardinalityType
  <1> HIDE DEF D
  <1>4. B \subseteq D
    BY DEF D
  <1>5. IsFiniteSet(B)
    BY <1>1, <1>4, FS_Subset
  <1>6. Cardinality(B) <= Cardinality(D)
    BY <1>1, <1>4, FS_Subset
  <1>7. Cardinality(B) \in Nat
    BY <1>5, FS_CardinalityType
  <1> QED BY <1>2, <1>3, <1>5, <1>6, <1>7

\* No more copies than before.
LEMMA NoMore ==
  ASSUME NEW A, IsFiniteSet(A), NEW B, B \subseteq A
  PROVE  IsFiniteSet(B) /\ Cardinality(B) <= Cardinality(A)
  <1>1. IsFiniteSet(B)
    BY FS_Subset
  <1>2. Cardinality(B) <= Cardinality(A)
    BY FS_Subset
  <1> QED BY <1>1, <1>2

LEMMA NoneOrOne ==
  ASSUME NEW n, NEW B, B \subseteq {n}
  PROVE  IsFiniteSet(B) /\ Cardinality(B) <= 1
  <1>1. IsFiniteSet({n}) /\ Cardinality({n}) = 1
    BY FS_Singleton
  <1> QED BY <1>1, NoMore

-----------------------------------------------------------------------------
(* The steps                                                               *)

LEMMA DeliveryTypes ==
  ASSUME DeliveryInv
  PROVE  /\ \A l \in Letters : failed[l] \in Nat /\ Cardinality(Pending(l)) \in Nat
         /\ redeliveries \in Nat
         /\ \A m \in live : m \in Copy /\ m.letter \in Letters /\ m.letter \in sent
                            /\ m.retry \in Nat
  <1>1. \A l \in Letters : failed[l] \in Nat
    BY DeliveryAssumption DEF DeliveryInv, DeliveryTypeOK
  <1>2. \A l \in Letters : Cardinality(Pending(l)) \in Nat
    BY FS_CardinalityType DEF DeliveryInv, ActiveBounded
  <1>3. redeliveries \in Nat
    BY DeliveryAssumption DEF DeliveryInv, DeliveryTypeOK
  <1>4. \A m \in live : m \in Copy /\ m.letter \in Letters /\ m.letter \in sent /\ m.retry \in Nat
    BY DeliveryAssumption DEF DeliveryInv, DeliveryTypeOK, OnlySent, Copy
  <1> QED BY <1>1, <1>2, <1>3, <1>4

\* The steps of one copy, and what they have in common: it may come back from
\* the rejected ones if that is counted.
LEMMA MoveNext ==
  ASSUME DeliveryInv, NEW m \in live, NEW place \in {"queued", "working", "done"},
         Moves(m, place), sent' = sent, handled \subseteq handled', handled' \subseteq sent,
         place = "done" => m.letter \in handled',
         failed' \in [Letters -> 0..MaxFailures], \A l \in Letters : failed[l] <= failed'[l],
         redeliveries' \in 0..MaxRedeliveries, redeliveries <= redeliveries',
         m.place = "rejected" => redeliveries' = redeliveries + 1
  PROVE  DeliveryInv'
  <1> DEFINE n == [m EXCEPT !.place = place]
  <1>t. /\ \A l \in Letters : failed[l] \in Nat /\ failed'[l] \in Nat
        /\ redeliveries \in Nat /\ redeliveries' \in Nat
        /\ \A l \in Letters : Cardinality(Pending(l)) \in Nat
    BY DeliveryTypes, DeliveryAssumption
  <1>1. /\ m \in Copy /\ n \in Copy /\ n.letter = m.letter /\ n.retry = m.retry
        /\ n.place = place /\ m.letter \in Letters /\ m.letter \in sent /\ m.retry \in Nat
    BY DeliveryTypes DEF Copy, Place
  <1>2. live' = (live \ {m}) \cup {n} BY DEF Moves
  <1> HIDE DEF n
  <1>3. DeliveryTypeOK' BY <1>1, <1>2 DEF DeliveryInv, DeliveryTypeOK
  <1>4. OnlySent' BY <1>1, <1>2 DEF DeliveryInv, OnlySent
  <1>5. DoneIsHandled' BY <1>1, <1>2 DEF DeliveryInv, DoneIsHandled
  <1>6. RetriedIsFailed'
    <2> SUFFICES ASSUME NEW c \in live' PROVE c.retry <= failed'[c.letter]
      BY DEF RetriedIsFailed
    <2>1. PICK d \in live : c.retry = d.retry /\ c.letter = d.letter
      BY <1>1, <1>2
    <2>2. d.retry <= failed[d.letter] /\ d.retry \in Nat /\ d.letter \in Letters
      BY DeliveryTypes DEF DeliveryInv, RetriedIsFailed
    <2>3. failed[d.letter] <= failed'[d.letter]
      BY <2>2
    <2> QED BY <1>t, <2>1, <2>2, <2>3
  <1>7. ActiveBounded'
    <2> SUFFICES ASSUME NEW l \in Letters
                 PROVE  IsFiniteSet(Pending(l)') /\ Cardinality(Pending(l)') <= 1 + redeliveries'
      BY DEF ActiveBounded
    <2>1. IsFiniteSet(Pending(l)) /\ Cardinality(Pending(l)) <= 1 + redeliveries
      BY DEF DeliveryInv, ActiveBounded
    <2>2. CASE l # m.letter
      <3>1. Pending(l)' \subseteq Pending(l)
        BY <2>2, <1>1, <1>2 DEF Pending
      <3>2. IsFiniteSet(Pending(l)') /\ Cardinality(Pending(l)') <= Cardinality(Pending(l))
        BY <3>1, <2>1, NoMore
      <3>3. Cardinality(Pending(l)') \in Nat
        BY <3>2, FS_CardinalityType
      <3> QED BY <1>t, <2>1, <3>2, <3>3
    <2>3. CASE l = m.letter /\ m.place # "rejected"
      <3>1. m \in Pending(l) /\ Pending(l)' \subseteq (Pending(l) \ {m}) \cup {n}
        BY <2>3, <1>2 DEF Pending
      <3>2. IsFiniteSet(Pending(l)') /\ Cardinality(Pending(l)') <= Cardinality(Pending(l))
        BY <3>1, <2>1, OneForOne
      <3>3. Cardinality(Pending(l)') \in Nat
        BY <3>2, FS_CardinalityType
      <3> QED BY <1>t, <2>1, <3>2, <3>3
    <2>4. CASE l = m.letter /\ m.place = "rejected"
      <3>1. Pending(l)' \subseteq Pending(l) \cup {n}
        BY <1>2 DEF Pending
      <3>2. IsFiniteSet(Pending(l)') /\ Cardinality(Pending(l)') <= Cardinality(Pending(l)) + 1
        BY <3>1, <2>1, OneMore
      <3>3. Cardinality(Pending(l)') \in Nat
        BY <3>2, FS_CardinalityType
      <3> QED BY <1>t, <2>1, <2>4, <3>2, <3>3
    <2> QED BY <2>2, <2>3, <2>4
  <1>8. LostOnlyByFailures'
    <2> SUFFICES ASSUME NEW l \in sent, l \notin handled', ~(failed'[l] > Patience(l))
                 PROVE  \E c \in live' : c.letter = l /\ c.place # "rejected"
      BY DEF LostOnlyByFailures, Patience
    <2>1. l \in Letters
      BY DEF DeliveryInv, DeliveryTypeOK
    <2>2. ~(failed[l] > Patience(l))
      <3>1. failed[l] <= failed'[l]
        BY <2>1
      <3>2. Patience(l) \in Nat
        BY <2>1, DeliveryAssumption DEF Patience
      <3> QED BY <2>1, <3>1, <3>2, <1>t
    <2>3. PICK c \in live : c.letter = l /\ c.place # "rejected"
      BY <2>2 DEF DeliveryInv, LostOnlyByFailures
    <2>4. CASE c = m
      BY <2>3, <2>4, <1>1, <1>2
    <2>5. CASE c # m
      BY <2>3, <2>5, <1>2
    <2> QED BY <2>4, <2>5
  <1> QED BY <1>3, <1>4, <1>5, <1>6, <1>7, <1>8 DEF DeliveryInv

LEMMA SendNext ==
  ASSUME DeliveryInv, NEW l \in Letters, Send(l)
  PROVE  DeliveryInv'
  <1> DEFINE new == Publication(l, Home(l), 0, 0)
  <1>1. /\ new \subseteq Copy
        /\ \A m \in new : m.letter = l /\ m.retry = 0 /\ m.place \notin {"done", "rejected"}
        /\ \E n : new \subseteq {n}
    BY PublicationType, DeliveryAssumption
  <1>2. new # {} BY FirstReaches
  <1> HIDE DEF new
  <1>3. /\ l \notin sent /\ sent' = sent \cup {l} /\ live' = live \cup new
        /\ UNCHANGED <<handled, failed, redeliveries>>
    BY DEF Send, new
  <1>4. DeliveryTypeOK' BY <1>1, <1>3 DEF DeliveryInv, DeliveryTypeOK
  <1>5. OnlySent' BY <1>1, <1>3 DEF DeliveryInv, OnlySent
  <1>6. DoneIsHandled' BY <1>1, <1>3 DEF DeliveryInv, DoneIsHandled
  <1>7. RetriedIsFailed'
    <2>1. 0 <= failed[l]
      BY DeliveryTypes
    <2> QED BY <2>1, <1>1, <1>3 DEF DeliveryInv, RetriedIsFailed
  <1>8. ActiveBounded'
    <2> SUFFICES ASSUME NEW k \in Letters
                 PROVE  IsFiniteSet(Pending(k)') /\ Cardinality(Pending(k)') <= 1 + redeliveries
      BY <1>3 DEF ActiveBounded
    <2>1. CASE k # l
      <3>1. Pending(k)' = Pending(k)
        BY <2>1, <1>1, <1>3 DEF Pending
      <3> QED BY <3>1 DEF DeliveryInv, ActiveBounded
    <2>2. CASE k = l
      <3>1. PICK n : new \subseteq {n}
        BY <1>1
      <3>2. Pending(k)' \subseteq {n}
        BY <2>2, <1>3, <3>1 DEF DeliveryInv, OnlySent, Pending
      <3>3. IsFiniteSet(Pending(k)') /\ Cardinality(Pending(k)') <= 1
        BY <3>2, NoneOrOne
      <3>4. Cardinality(Pending(k)') \in Nat
        BY <3>3, FS_CardinalityType
      <3> QED BY <3>3, <3>4, DeliveryTypes
    <2> QED BY <2>1, <2>2
  <1>9. LostOnlyByFailures' BY <1>1, <1>2, <1>3 DEF DeliveryInv, LostOnlyByFailures, Patience
  <1> QED BY <1>4, <1>5, <1>6, <1>7, <1>8, <1>9 DEF DeliveryInv

LEMMA AcknowledgeNext ==
  ASSUME DeliveryInv, NEW m \in live, Acknowledge(m)
  PROVE  DeliveryInv'
  <1>1. /\ live' = live \ {m} /\ m.place \in {"done", "rejected"}
        /\ UNCHANGED <<sent, handled, failed, redeliveries>>
    BY DEF Acknowledge
  <1>2. (DeliveryTypeOK /\ OnlySent /\ DoneIsHandled /\ RetriedIsFailed)'
    BY <1>1 DEF DeliveryInv, DeliveryTypeOK, OnlySent, DoneIsHandled, RetriedIsFailed
  <1>3. ActiveBounded'
    <2> SUFFICES ASSUME NEW l \in Letters
                 PROVE  IsFiniteSet(Pending(l)') /\ Cardinality(Pending(l)') <= 1 + redeliveries
      BY <1>1 DEF ActiveBounded
    <2>1. IsFiniteSet(Pending(l)) /\ Cardinality(Pending(l)) <= 1 + redeliveries
      BY DEF DeliveryInv, ActiveBounded
    <2>2. Pending(l)' \subseteq Pending(l)
      BY <1>1 DEF Pending
    <2>3. IsFiniteSet(Pending(l)') /\ Cardinality(Pending(l)') <= Cardinality(Pending(l))
      BY <2>1, <2>2, NoMore
    <2>4. Cardinality(Pending(l)') \in Nat
      BY <2>3, FS_CardinalityType
    <2> QED BY <2>1, <2>3, <2>4, DeliveryTypes
  <1>4. LostOnlyByFailures'
    <2> SUFFICES ASSUME NEW l \in sent, l \notin handled, ~(failed[l] > Patience(l))
                 PROVE  \E c \in live' : c.letter = l /\ c.place # "rejected"
      BY <1>1 DEF LostOnlyByFailures, Patience
    <2>1. PICK c \in live : c.letter = l /\ c.place # "rejected"
      BY DEF DeliveryInv, LostOnlyByFailures
    <2>2. c # m
      BY <1>1, <2>1 DEF DeliveryInv, DoneIsHandled
    <2> QED BY <1>1, <2>1, <2>2
  <1> QED BY <1>2, <1>3, <1>4 DEF DeliveryInv

LEMMA ConsumeNext ==
  ASSUME DeliveryInv, NEW l \in Letters, Consume(l)
  PROVE  DeliveryInv'
  <1>1. PICK m \in live : Arrive(m) \/ Take(m) \/ Succeed(m) \/ Acknowledge(m)
    BY DEF Consume
  <1>2. /\ handled \subseteq sent /\ m.letter \in sent
        /\ failed \in [Letters -> 0..MaxFailures] /\ \A k \in Letters : failed[k] <= failed[k]
        /\ redeliveries \in 0..MaxRedeliveries /\ redeliveries <= redeliveries
    BY DeliveryTypes DEF DeliveryInv, DeliveryTypeOK, OnlySent
  <1>3. CASE Arrive(m) BY <1>2, <1>3, MoveNext DEF Arrive
  <1>4. CASE Take(m) BY <1>2, <1>4, MoveNext DEF Take
  <1>5. CASE Succeed(m) BY <1>2, <1>5, MoveNext DEF Succeed
  <1>6. CASE Acknowledge(m) BY <1>6, AcknowledgeNext
  <1> QED BY <1>1, <1>3, <1>4, <1>5, <1>6

LEMMA RedeliverNext ==
  ASSUME DeliveryInv, NEW m \in live, Redeliver(m)
  PROVE  DeliveryInv'
  <1>1. redeliveries' \in 0..MaxRedeliveries /\ redeliveries' = redeliveries + 1
        /\ redeliveries <= redeliveries'
    <2>1. redeliveries \in 0..MaxRedeliveries BY DEF DeliveryInv, DeliveryTypeOK
    <2> QED BY <2>1, DeliveryAssumption DEF Redeliver
  <1>2. /\ handled \subseteq sent /\ failed \in [Letters -> 0..MaxFailures]
        /\ \A k \in Letters : failed[k] <= failed[k]
    BY DeliveryTypes DEF DeliveryInv, DeliveryTypeOK
  <1> QED BY <1>1, <1>2, MoveNext DEF Redeliver

\* A failure is counted, for the letter and for no other.
LEMMA FailingCounts ==
  ASSUME DeliveryInv, NEW m \in live, Failing(m)
  PROVE  /\ UNCHANGED <<sent, handled, redeliveries>> /\ m.place = "working"
         /\ failed' \in [Letters -> 0..MaxFailures]
         /\ \A l \in Letters : failed'[l] = IF l = m.letter THEN failed[l] + 1 ELSE failed[l]
         /\ \A l \in Letters : failed[l] <= failed'[l]
  <1>1. m.letter \in Letters /\ \A l \in Letters : failed[l] \in Nat
    BY DeliveryTypes
  <1>2. failed \in [Letters -> 0..MaxFailures]
    BY DEF DeliveryInv, DeliveryTypeOK
  <1>3. /\ UNCHANGED <<sent, handled, redeliveries>> /\ m.place = "working"
        /\ failed' = [failed EXCEPT ![m.letter] = failed[m.letter] + 1]
        /\ failed[m.letter] < MaxFailures
    BY DEF Failing
  <1>4. failed[m.letter] + 1 \in 0..MaxFailures
    <2>1. failed[m.letter] \in Nat /\ failed[m.letter] < MaxFailures
      BY <1>1, <1>3
    <2>2. MaxFailures \in Nat
      BY DeliveryAssumption
    <2> QED BY ONLY <2>1, <2>2
  <1>5. \A l \in Letters : failed'[l] = IF l = m.letter THEN failed[l] + 1 ELSE failed[l]
    BY <1>1, <1>2, <1>3
  <1>6. failed' \in [Letters -> 0..MaxFailures]
    BY <1>2, <1>3, <1>4
  <1>7. \A l \in Letters : failed[l] <= failed'[l]
    BY <1>1, <1>5
  <1> QED BY <1>3, <1>5, <1>6, <1>7

LEMMA FailThrownNext ==
  ASSUME DeliveryInv, NEW m \in live, FailThrown(m)
  PROVE  DeliveryInv'
  <1>1. Failing(m) /\ Moves(m, "queued")
    BY DEF FailThrown
  <1>2. /\ handled \subseteq sent /\ redeliveries \in 0..MaxRedeliveries
        /\ redeliveries <= redeliveries
    BY DeliveryTypes DEF DeliveryInv, DeliveryTypeOK
  <1> QED BY <1>1, <1>2, FailingCounts, MoveNext

\* A failure puts what is published in the place of the copy.
LEMMA FailRetriedNext ==
  ASSUME DeliveryInv, NEW m \in live, FailRetried(m)
  PROVE  DeliveryInv'
  <1> DEFINE n == [m EXCEPT !.place = "rejected"]
             new == Retry(m)
  <1>t. /\ \A l \in Letters : failed[l] \in Nat /\ Cardinality(Pending(l)) \in Nat
        /\ redeliveries \in Nat
        /\ m \in Copy /\ m.letter \in Letters /\ m.letter \in sent /\ m.retry \in Nat
    BY DeliveryTypes
  <1>1. /\ UNCHANGED <<sent, handled, redeliveries>> /\ m.place = "working"
        /\ failed' \in [Letters -> 0..MaxFailures]
        /\ \A l \in Letters : failed'[l] = IF l = m.letter THEN failed[l] + 1 ELSE failed[l]
        /\ \A l \in Letters : failed[l] <= failed'[l]
    BY FailingCounts DEF FailRetried
  <1>2. /\ n \in Copy /\ n.letter = m.letter /\ n.retry = m.retry /\ n.place = "rejected"
    BY <1>t DEF Copy, Place
  <1>3. /\ new \subseteq Copy
        /\ \A c \in new : /\ c.letter = m.letter /\ c.retry = m.retry + 1
                          /\ c.place \notin {"done", "rejected"}
        /\ \E c : new \subseteq {c}
    <2>1. CASE m.retry < MaxRetries
      <3>1. m.retry + 1 \in 0..MaxRetries
        BY <2>1, <1>t, DeliveryAssumption
      <3>2. failed[m.letter] + 1 \in 0..MaxFailures
        BY <1>t, <1>1
      <3>3. new = Publication(m.letter, "delayed-exchange", m.retry + 1, failed[m.letter] + 1)
        BY <2>1 DEF Retry
      <3> QED BY <3>1, <3>2, <3>3, <1>t, PublicationType
    <2>2. CASE ~(m.retry < MaxRetries)
      BY <2>2 DEF Retry
    <2> QED BY <2>1, <2>2
  <1>4. live' = (live \ {m}) \cup {n} \cup new
    BY DEF FailRetried
  <1>5. m.letter \in {"token", "disconnect"} /\ m.retry < MaxRetries => new # {}
    BY <1>t, RetryReaches DEF Retry
  <1>6. m.letter \in {"slot", "token", "disconnect"}
    BY DEF FailRetried
  <1> HIDE DEF n, new
  <1>7. DeliveryTypeOK'
    BY <1>1, <1>2, <1>3, <1>4 DEF DeliveryInv, DeliveryTypeOK
  <1>8. OnlySent' BY <1>t, <1>1, <1>2, <1>3, <1>4 DEF DeliveryInv, OnlySent
  <1>9. DoneIsHandled' BY <1>1, <1>2, <1>3, <1>4 DEF DeliveryInv, DoneIsHandled
  <1>10. RetriedIsFailed'
    <2> SUFFICES ASSUME NEW c \in live' PROVE c.retry <= failed'[c.letter]
      BY DEF RetriedIsFailed
    <2>1. m.retry <= failed[m.letter]
      BY DEF DeliveryInv, RetriedIsFailed
    <2>2. CASE c \in live
      <3>1. c.retry <= failed[c.letter] /\ c.retry \in Nat /\ c.letter \in Letters
        BY <2>2, DeliveryTypes DEF DeliveryInv, RetriedIsFailed
      <3> QED BY <3>1, <1>t, <1>1
    <2>3. CASE c = n
      BY <2>1, <2>3, <1>t, <1>1, <1>2
    <2>4. CASE c \in new
      BY <2>1, <2>4, <1>t, <1>1, <1>3
    <2> QED BY <2>2, <2>3, <2>4, <1>4
  <1>11. ActiveBounded'
    <2> SUFFICES ASSUME NEW l \in Letters
                 PROVE  IsFiniteSet(Pending(l)') /\ Cardinality(Pending(l)') <= 1 + redeliveries
      BY <1>1 DEF ActiveBounded
    <2>1. IsFiniteSet(Pending(l)) /\ Cardinality(Pending(l)) <= 1 + redeliveries
      BY DEF DeliveryInv, ActiveBounded
    <2>2. IsFiniteSet(Pending(l)') /\ Cardinality(Pending(l)') <= Cardinality(Pending(l))
      <3>1. CASE l = m.letter
        <4>1. PICK c : new \subseteq {c}
          BY <1>3
        <4>2. m \in Pending(l) /\ Pending(l)' \subseteq (Pending(l) \ {m}) \cup {c}
          BY <3>1, <4>1, <1>1, <1>2, <1>4 DEF Pending
        <4> QED BY <2>1, <4>2, OneForOne
      <3>2. CASE l # m.letter
        <4>1. Pending(l)' \subseteq Pending(l)
          BY <3>2, <1>2, <1>3, <1>4 DEF Pending
        <4> QED BY <2>1, <4>1, NoMore
      <3> QED BY <3>1, <3>2
    <2>3. Cardinality(Pending(l)') \in Nat
      BY <2>2, FS_CardinalityType
    <2> QED BY <2>1, <2>2, <2>3, <1>t
  <1>12. LostOnlyByFailures'
    <2> SUFFICES ASSUME NEW l \in sent, l \notin handled, ~(failed'[l] > Patience(l))
                 PROVE  \E c \in live' : c.letter = l /\ c.place # "rejected"
      BY <1>1 DEF LostOnlyByFailures, Patience
    <2>1. l \in Letters
      BY DEF DeliveryInv, DeliveryTypeOK
    <2>2. CASE l # m.letter
      <3>1. PICK c \in live : c.letter = l /\ c.place # "rejected"
        BY <2>1, <2>2, <1>1 DEF DeliveryInv, LostOnlyByFailures
      <3> QED BY <2>2, <3>1, <1>4
    <2>3. CASE l = m.letter
      <3>1. failed'[l] = failed[l] + 1 /\ failed[l] \in Nat /\ m.retry <= failed[l]
        BY <2>1, <2>3, <1>t, <1>1 DEF DeliveryInv, RetriedIsFailed
      <3>2. l \in {"token", "disconnect"} /\ m.retry < MaxRetries
        BY <2>3, <3>1, <1>t, <1>6, DeliveryAssumption DEF Patience
      <3> QED BY <2>3, <3>2, <1>3, <1>4, <1>5
    <2> QED BY <2>2, <2>3
  <1> QED BY <1>7, <1>8, <1>9, <1>10, <1>11, <1>12 DEF DeliveryInv

-----------------------------------------------------------------------------
(* The theorems                                                            *)

\* What holds of the letters and their copies, wherever handlers fail and
\* consumers die.
THEOREM DeliveryInductive == DeliverySpec => []DeliveryInv
  <1>1. DeliveryInit => DeliveryInv
    <2> SUFFICES ASSUME DeliveryInit PROVE DeliveryInv
      OBVIOUS
    <2>1. \A l \in Letters : Pending(l) = {}
      BY DEF DeliveryInit, Pending
    <2>2. IsFiniteSet({}) /\ Cardinality({}) = 0
      BY FS_EmptySet
    <2>3. ActiveBounded
      BY <2>1, <2>2 DEF DeliveryInit, ActiveBounded
    <2> QED
      BY <2>3, DeliveryAssumption DEF DeliveryInit, DeliveryInv, DeliveryTypeOK, OnlySent,
         DoneIsHandled, RetriedIsFailed, LostOnlyByFailures
  <1>2. DeliveryInv /\ [DeliveryNext]_deliveryVars => DeliveryInv'
    <2> SUFFICES ASSUME DeliveryInv, [DeliveryNext]_deliveryVars PROVE DeliveryInv'
      OBVIOUS
    <2>1. CASE DeliveryNext
      BY <2>1, SendNext, ConsumeNext, RedeliverNext, FailRetriedNext, FailThrownNext
         DEF DeliveryNext
    <2>2. CASE UNCHANGED deliveryVars
      BY <2>2 DEF deliveryVars, DeliveryInv, DeliveryTypeOK, OnlySent, DoneIsHandled,
         RetriedIsFailed, ActiveBounded, Pending, LostOnlyByFailures, Patience
    <2> QED BY <2>1, <2>2
  <1> QED BY <1>1, <1>2, PTL DEF DeliverySpec

\* Copies and counts keep their types; no retry count exceeds MaxRetries.
THEOREM DeliveryTypeCorrect == DeliverySpec => []DeliveryTypeOK
  <1>1. DeliveryInv => DeliveryTypeOK BY DEF DeliveryInv
  <1> QED BY <1>1, DeliveryInductive, PTL

\* No message is lost before its handler has failed more often than it is
\* retried, for every number of retries and wherever the consumers die.
THEOREM NothingLostEarly == DeliverySpec => []LostOnlyByFailures
  <1>1. DeliveryInv => LostOnlyByFailures BY DEF DeliveryInv
  <1> QED BY <1>1, DeliveryInductive, PTL

\* A message has as many copies for its handler as consumers died, and one.
THEOREM TwinsAreCounted == DeliverySpec => []TwinsOnlyByCrash
  <1>1. DeliveryInv => TwinsOnlyByCrash
    BY DEF DeliveryInv, ActiveBounded, Pending, TwinsOnlyByCrash
  <1> QED BY <1>1, DeliveryInductive, PTL
=============================================================================
