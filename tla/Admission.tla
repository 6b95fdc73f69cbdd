----------------------------- MODULE Admission -----------------------------
(***************************************************************************)
(* What a waiting room promises: a desk that lets people in while there is *)
(* room and keeps the others in one line.  People enter either directly or *)
(* from the head of the line, never beyond the capacity.  Nobody in the    *)
(* line overtakes another, and a newcomer stands behind all who came       *)
(* before; of those who come together, any may stand first.  The desk may  *)
(* close, and then empties the line and the room.                          *)
(***************************************************************************)
EXTENDS Naturals, FiniteSets, SequencesExt

CONSTANT People

VARIABLES
    open,       \* the desk takes people
    capacity,   \* people who may be inside
    limit,      \* people who may stand in the line
    inside,     \* who is inside
    line,       \* who waits, first come first
    together    \* who stands in the line since this moment

deskVars == <<open, capacity, limit>>
vars == <<deskVars, inside, line, together>>

Init == ~open /\ inside = {} /\ line = << >> /\ together = {}

\* p enters directly (or stays, if already inside).
Enter(p) ==
    /\ open /\ p \notin Range(line)
    /\ Cardinality(inside \ {p}) < capacity
    /\ inside' = inside \cup {p}
    /\ UNCHANGED <<deskVars, line, together>>

\* p, for whom there is no place inside, goes to the end of the line, at a new
\* moment or together with some who stand there.
Wait(p) ==
    /\ open /\ p \notin Range(line)
    /\ Cardinality(inside \ {p}) >= capacity
    /\ Len(line) < limit
    /\ inside' = inside \ {p}
    /\ \E i \in 1..Len(line) + 1 :
          /\ line' = InsertAt(line, i, p)
          /\ \/ i = Len(line) + 1 /\ together' = {p}
             \/ /\ \A j \in i..Len(line) : line[j] \in together
                /\ together' = together \cup {p}
    /\ UNCHANGED deskVars

\* The head of the line enters, perhaps in the place of those who go.
Turn(gone) ==
    /\ line # << >>
    /\ Cardinality(inside \ gone) < capacity
    /\ inside' = (inside \ gone) \cup {Head(line)}
    /\ line' = Tail(line) /\ together' = together \ {Head(line)}
    /\ UNCHANGED deskVars

Depart(p) ==
    /\ inside' = inside \ {p}
    /\ UNCHANGED <<deskVars, line, together>>

GiveUp(p) ==
    /\ line' = RemoveFirst(line, p) /\ together' = together \ {p}
    /\ UNCHANGED <<deskVars, inside>>

Reconfigure ==
    /\ open' \in BOOLEAN
    /\ UNCHANGED <<inside, line, together>>

Pass == together' = {} /\ UNCHANGED <<deskVars, inside, line>>

EmptyLine ==
    /\ ~open /\ line' = << >> /\ together' = {}
    /\ UNCHANGED <<deskVars, inside>>

EmptyRoom ==
    /\ ~open /\ inside' = {}
    /\ UNCHANGED <<deskVars, line, together>>

Next ==
    \/ Reconfigure \/ Pass \/ EmptyLine \/ EmptyRoom
    \/ \E p \in People : Enter(p) \/ Wait(p) \/ Turn({p}) \/ Depart(p) \/ GiveUp(p)
    \/ Turn({})

Spec == Init /\ [][Next]_vars

=============================================================================
