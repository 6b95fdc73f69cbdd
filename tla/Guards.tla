------------------------------- MODULE Guards -------------------------------
(***************************************************************************)
(* Guards in front of the handlers, and the keys they keep in Redis.       *)
(*                                                                         *)
(* Login: LoginAttemptGuard looks for a lock, validateUser counts a wrong  *)
(* password and, when there were too many, locks.  The keys belong to one  *)
(* address and one account; Logins are the requests that may overlap.      *)
(*                                                                         *)
(* Booking: BookingNonceGuard finds the nonce and deletes it, then the     *)
(* reservation script runs (module Booking).  One user, one ticket type.   *)
(***************************************************************************)
EXTENDS Naturals, FiniteSets

CONSTANTS
    Logins,          \* login requests that may be under way at once
    MaxAttempts, LockoutTTL, WindowTTL,
    Submissions,     \* booking requests
    Nonces,          \* nonces that may be handed out
    NonceTTL, HoldTTL

ASSUME GuardsAssumption ==
    /\ IsFiniteSet(Logins)
    /\ MaxAttempts \in Nat \ {0} /\ WindowTTL \in Nat \ {0} /\ NonceTTL \in Nat \ {0}
    /\ LockoutTTL \in Nat /\ WindowTTL < LockoutTTL
    /\ HoldTTL \in Nat /\ NonceTTL <= HoldTTL

VARIABLES
    attempts,     \* login_attempts: its value, 0 when there is no such key
    attemptsTTL,  \* its remaining life; 0 while it has none
    lock,         \* remaining life of login_lock
    login,        \* where each login request is, and the count it got
    issued,       \* nonces handed out
    nonce,        \* remaining life of each nonce
    submission,   \* where each booking request is, and its nonce
    hold,         \* remaining life of the reservation
    bought        \* history: reservations made with each nonce

loginVars == <<attempts, attemptsTTL, lock, login>>
nonceVars == <<issued, nonce, submission, hold, bought>>
guardVars == <<loginVars, nonceVars>>

LoginState == {"out", "in", "counted", "window"}
SubmissionState == {"out", "found", "in"}

GuardsTypeOK ==
    /\ attempts \in Nat /\ attemptsTTL \in 0..WindowTTL
    /\ lock \in 0..LockoutTTL
    /\ login \in [Logins -> [at: LoginState, count: Nat]]
    /\ issued \subseteq Nonces /\ nonce \in [Nonces -> 0..NonceTTL]
    /\ submission \in [Submissions -> [at: SubmissionState, with: SUBSET Nonces]]
    /\ hold \in 0..HoldTTL
    /\ bought \in [Nonces -> Nat]

LoggedOut == [at |-> "out", count |-> 0]
Unsent == [at |-> "out", with |-> {}]

GuardsInit ==
    /\ attempts = 0 /\ attemptsTTL = 0 /\ lock = 0
    /\ login = [r \in Logins |-> LoggedOut]
    /\ issued = {} /\ nonce = [n \in Nonces |-> 0]
    /\ submission = [s \in Submissions |-> Unsent]
    /\ hold = 0
    /\ bought = [n \in Nonces |-> 0]

-----------------------------------------------------------------------------
(* Login                                                                   *)

\* Mutant: the guard does not ask for the lock.
LoginGuardOpen(r) ==
    /\ login[r].at = "out"
    /\ login' = [login EXCEPT ![r].at = "in"]
    /\ UNCHANGED <<attempts, attemptsTTL, lock, nonceVars>>

LoginGuard(r) ==
    /\ login[r].at = "out"
    /\ lock = 0
    /\ login' = [login EXCEPT ![r].at = "in"]
    /\ UNCHANGED <<attempts, attemptsTTL, lock, nonceVars>>

\* INCR makes a key that has no end of life yet, or adds to the one there is.
LoginCount(r) ==
    /\ login[r].at = "in"
    /\ attempts' = attempts + 1
    /\ login' = [login EXCEPT ![r] = [at |-> "counted", count |-> attempts + 1]]
    /\ UNCHANGED <<attemptsTTL, lock, nonceVars>>

\* EXPIRE, if the key is still there.
LoginWindow(r) ==
    /\ login[r].at = "counted"
    /\ attemptsTTL' = IF attempts > 0 THEN WindowTTL ELSE 0
    /\ login' = [login EXCEPT ![r].at = "window"]
    /\ UNCHANGED <<attempts, lock, nonceVars>>

\* Mutant: the lock lives as long as the window.
LoginLockShort(r) ==
    /\ login[r].at = "window"
    /\ lock' = IF login[r].count >= MaxAttempts THEN WindowTTL - 1 ELSE lock
    /\ login' = [login EXCEPT ![r] = LoggedOut]
    /\ UNCHANGED <<attempts, attemptsTTL, nonceVars>>

\* The request is refused; too many of them, and SETEX of the lock.
LoginLock(r) ==
    /\ login[r].at = "window"
    /\ lock' = IF login[r].count >= MaxAttempts THEN LockoutTTL ELSE lock
    /\ login' = [login EXCEPT ![r] = LoggedOut]
    /\ UNCHANGED <<attempts, attemptsTTL, nonceVars>>

\* The password is right: DEL of the counter.
LoginRight(r) ==
    /\ login[r].at = "in"
    /\ attempts' = 0 /\ attemptsTTL' = 0
    /\ login' = [login EXCEPT ![r] = LoggedOut]
    /\ UNCHANGED <<lock, nonceVars>>

-----------------------------------------------------------------------------
(* Booking                                                                 *)

GetNonce(n) ==
    /\ n \notin issued
    /\ issued' = issued \cup {n}
    /\ nonce' = [nonce EXCEPT ![n] = NonceTTL]
    /\ UNCHANGED <<loginVars, submission, hold, bought>>

\* The guard gets the nonce ...
NonceFound(s, n) ==
    /\ submission[s].at = "out"
    /\ nonce[n] > 0
    /\ submission' = [submission EXCEPT ![s] = [at |-> "found", with |-> {n}]]
    /\ UNCHANGED <<loginVars, issued, nonce, hold, bought>>

\* Mutant: the nonce is left to expire.
NonceKept(s) ==
    /\ submission[s].at = "found"
    /\ submission' = [submission EXCEPT ![s].at = "in"]
    /\ UNCHANGED <<loginVars, issued, nonce, hold, bought>>

\* ... and deletes it, which it may have been already.
NonceDeleted(s) ==
    /\ submission[s].at = "found"
    /\ nonce' = [n \in Nonces |-> IF n \in submission[s].with THEN 0 ELSE nonce[n]]
    /\ submission' = [submission EXCEPT ![s].at = "in"]
    /\ UNCHANGED <<loginVars, issued, hold, bought>>

\* The reservation script, which refuses while a reservation lives.
Submitted(s) ==
    /\ submission[s].at = "in"
    /\ IF hold = 0
       THEN /\ hold' = HoldTTL
            /\ bought' = [n \in Nonces |-> IF n \in submission[s].with THEN bought[n] + 1
                                           ELSE bought[n]]
       ELSE UNCHANGED <<hold, bought>>
    /\ submission' = [submission EXCEPT ![s] = Unsent]
    /\ UNCHANGED <<loginVars, issued, nonce>>

\* The reservation is paid and its key deleted.  No request takes as long as
\* a payment does.
HoldPaid ==
    /\ hold > 0
    /\ \A s \in Submissions : submission[s].at = "out"
    /\ hold' = 0
    /\ UNCHANGED <<loginVars, issued, nonce, submission, bought>>

-----------------------------------------------------------------------------

Lower(n) == IF n > 0 THEN n - 1 ELSE 0

\* Requests take less than one unit of time.
GuardTick ==
    /\ \A r \in Logins : login[r].at = "out"
    /\ \A s \in Submissions : submission[s].at = "out"
    /\ attemptsTTL' = Lower(attemptsTTL)
    /\ attempts' = IF attemptsTTL' = 0 THEN 0 ELSE attempts
    /\ lock' = Lower(lock)
    /\ nonce' = [n \in Nonces |-> Lower(nonce[n])]
    /\ hold' = Lower(hold)
    /\ UNCHANGED <<login, issued, submission, bought>>

GuardsNext ==
    \/ \E r \in Logins :
          \/ LoginGuard(r)
          \/ LoginCount(r)
          \/ LoginWindow(r)
          \/ LoginLock(r)
          \/ LoginRight(r)
    \/ \E n \in Nonces : GetNonce(n) \/ \E s \in Submissions : NonceFound(s, n)
    \/ \E s \in Submissions : NonceDeleted(s) \/ Submitted(s)
    \/ HoldPaid
    \/ GuardTick

GuardsSpec == GuardsInit /\ [][GuardsNext]_guardVars

-----------------------------------------------------------------------------
(* Properties *)

\* Five wrong passwords lock, however the requests overlap: only those that
\* were let in before the lock are counted beyond the limit.
AttemptsBounded == attempts <= MaxAttempts - 1 + Cardinality(Logins)

Locking == \E r \in Logins : login[r].at \in {"counted", "window"}

\* The counter is at its limit only while the lock is there or about to be
\* set: it never outlives the lock, so that the first wrong password after a
\* lockout would lock again.
LockHolds == attempts >= MaxAttempts => lock > 0 \/ Locking

\* A form that is sent twice buys once: a nonce that has been deleted is not
\* found, and of two requests that found it the script serves one.
NonceBuysOnce == \A n \in Nonces : bought[n] <= 1

=============================================================================
