----------------------------- MODULE BoxOffice -----------------------------
(***************************************************************************)
(* What the bookings promise to buyers who each reserve once: a box office *)
(* that takes tickets from the stock for a buyer, and then either sells    *)
(* them to that buyer or puts them back, never both and never twice.       *)
(* Nothing is said of keys, messages, orders and clocks.                   *)
(***************************************************************************)
EXTENDS Naturals

CONSTANTS Types, Holds, Kind, Asked, Quantity

VARIABLES
    onSale,     \* ticket types the office has opened
    stock,      \* tickets of each type it can still give out
    sold,       \* tickets of each type it has sold
    fate        \* of each hold

boxVars == <<onSale, stock, sold, fate>>

Fate == {"free", "held", "sold", "back"}

BoxInit ==
    /\ onSale = {}
    /\ stock = [t \in Types |-> 0] /\ sold = [t \in Types |-> 0]
    /\ fate = [h \in Holds |-> "free"]

Moves(h, from, to) ==
    /\ fate[h] = from
    /\ fate' = [fate EXCEPT ![h] = to]

Open ==
    /\ onSale' = Types
    /\ stock' = [t \in Types |-> IF t \in onSale THEN stock[t] ELSE Quantity[t]]
    /\ UNCHANGED <<sold, fate>>

Take(h) ==
    /\ Kind[h] \in onSale /\ stock[Kind[h]] >= Asked[h]
    /\ Moves(h, "free", "held")
    /\ stock' = [stock EXCEPT ![Kind[h]] = @ - Asked[h]]
    /\ UNCHANGED <<onSale, sold>>

Sell(h) ==
    /\ Moves(h, "held", "sold")
    /\ sold' = [sold EXCEPT ![Kind[h]] = @ + Asked[h]]
    /\ UNCHANGED <<onSale, stock>>

PutBack(h) ==
    /\ Moves(h, "held", "back")
    /\ stock' = [stock EXCEPT ![Kind[h]] = @ + Asked[h]]
    /\ UNCHANGED <<onSale, sold>>

BoxNext == Open \/ \E h \in Holds : Take(h) \/ Sell(h) \/ PutBack(h)

BoxSpec == BoxInit /\ [][BoxNext]_boxVars

=============================================================================
