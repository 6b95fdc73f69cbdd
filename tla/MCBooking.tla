----------------------------- MODULE MCBooking -----------------------------
(* Small instances of Booking for TLC.  The unit of time is five minutes,  *)
(* in booking_once two and a half (only there can a payment that has begun *)
(* outlive its reservation), so the lives and limits keep the proportions  *)
(* they have in the code (10, 5, 10, 15 and 30 minutes); only Requeue, one *)
(* minute, is rounded up.                                                  *)
(***************************************************************************)
EXTENDS Booking, Integers

\* A hold is named <<user, type, n>>, an order <<hold, n>>.
FirstOf(p) == p[1]
BuyerOf == [h \in Holds |-> h[1]]
KindOf == [h \in Holds |-> h[2]]
PaidHold == [o \in Orders |-> o[1]]

\* A release message is named <<hold, n>>; only a crash needs a second one.
OneLetter == Holds \X {1}
TwoLetters == Holds \X {1, 2}
LetterHold == [m \in Letters |-> m[1]]
FirstLetter == [h \in Holds |-> <<h, 1>>]

\* Each user buys once; four tickets are asked for and three are there.
OncePerUser == {<<u, "t1", 1>> : u \in Users}
AskUneven == [h \in Holds |-> IF h[1] = "u1" THEN 2 ELSE 1]
OneOrderEach == {<<h, 1>> : h \in Holds}
AskOne == [h \in Holds |-> 1]
Three == [t \in Types |-> 3]

\* One user buys two types, one of them perhaps twice.
TwoTypes == {<<"u1", "t1", 1>>, <<"u1", "t2", 1>>}
TwiceAndOnce == {<<"u1", "t1", 1>>, <<"u1", "t1", 2>>, <<"u1", "t2", 1>>}
\* One user, one reservation.
Single == {<<"u1", "t1", 1>>}
\* A second attempt to pay for the first type only.
SecondAttempt == {<<h, 1>> : h \in Holds} \cup {<<h, 2>> : h \in {g \in Holds : g[2] = "t1"}}
=============================================================================
