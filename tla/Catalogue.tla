----------------------------- MODULE Catalogue -----------------------------
(***************************************************************************)
(* What an event offers: its sessions and ticket types, made with the      *)
(* event or added later, and the seat map that assigns ticket types to     *)
(* zones (SeatMapService).  Nothing takes a session or a type away.        *)
(***************************************************************************)
EXTENDS Naturals, FiniteSets

CONSTANTS
    Shows,      \* events
    Sessions,   \* bound: sessions that may be made
    Articles,   \* bound: ticket types that may be made
    Planners,   \* requests of organizers that may overlap
    MaxMaps     \* bound: seat maps that are made

ASSUME CatalogueAssumption == MaxMaps \in Nat /\ Shows \cap Sessions = {}

VARIABLES
    created,   \* events that exist
    sessionOf, \* the event of each session, {} when there is no such session
    articleOf, \* where a ticket type hangs: an event or a session, or {}
    seatMap,   \* of each event: row number and ticket types of the zones
    rows,      \* seat maps made so far, at most MaxMaps
    plan       \* what each request does, and what it remembers

catalogueVars == <<created, sessionOf, articleOf, seatMap, rows, plan>>

NoPlan == [op |-> "none"]
NoMap == [id |-> 0, zones |-> {}]

CatalogueTypeOK ==
    /\ created \subseteq Shows
    /\ sessionOf \in [Sessions -> SUBSET Shows]
    /\ articleOf \in [Articles -> SUBSET (Shows \cup Sessions)]
    /\ seatMap \in [Shows -> [id: Nat, zones: SUBSET Articles]]
    /\ rows \in Nat
    /\ \A p \in Planners : plan[p] = NoPlan \/ plan[p].show \in Shows

CatalogueInit ==
    /\ created = {}
    /\ sessionOf = [s \in Sessions |-> {}]
    /\ articleOf = [a \in Articles |-> {}]
    /\ seatMap = [e \in Shows |-> NoMap]
    /\ rows = 0
    /\ plan = [p \in Planners |-> NoPlan]

SessionsOf(e) == {s \in Sessions : sessionOf[s] = {e}}
RootArticles(e) == {a \in Articles : articleOf[a] = {e}}
SessionArticles(e) == {a \in Articles : articleOf[a] # {} /\ articleOf[a] \subseteq SessionsOf(e)}
Offers(e) == RootArticles(e) \cup SessionArticles(e)
New(set, f) == \A x \in set : f[x] = {}

-----------------------------------------------------------------------------

\* createEvent, one transaction: sessions, or ticket types, or neither.
CreateWithSessions(e, sessions) ==
    /\ e \notin created /\ sessions # {} /\ New(sessions, sessionOf)
    /\ created' = created \cup {e}
    /\ sessionOf' = [s \in Sessions |-> IF s \in sessions THEN {e} ELSE sessionOf[s]]
    /\ UNCHANGED <<articleOf, seatMap, rows, plan>>

CreateWithArticles(e, articles) ==
    /\ e \notin created /\ New(articles, articleOf)
    /\ created' = created \cup {e}
    /\ articleOf' = [a \in Articles |-> IF a \in articles THEN {e} ELSE articleOf[a]]
    /\ UNCHANGED <<sessionOf, seatMap, rows, plan>>

\* Mutant: the sessions of the event are not looked at.
AddToEventAlways(e, a) ==
    /\ e \in created /\ articleOf[a] = {}
    /\ articleOf' = [articleOf EXCEPT ![a] = {e}]
    /\ UNCHANGED <<created, sessionOf, seatMap, rows, plan>>

\* addTicketTypeToEvent
AddToEvent(e, a) ==
    /\ e \in created /\ articleOf[a] = {}
    /\ SessionsOf(e) = {}
    /\ articleOf' = [articleOf EXCEPT ![a] = {e}]
    /\ UNCHANGED <<created, sessionOf, seatMap, rows, plan>>

\* addTicketToSession; ticket types of sessions made with them are added so, too.
\* Its body is not validated: one that carries the id of a type there is would
\* move that type to the session, which is left out.
AddToSession(s, a) ==
    /\ sessionOf[s] # {} /\ articleOf[a] = {}
    /\ articleOf' = [articleOf EXCEPT ![a] = {s}]
    /\ UNCHANGED <<created, sessionOf, seatMap, rows, plan>>

\* Mutant: the types are not checked.
PlanCheckNothing(p, e, zones) ==
    /\ plan[p] = NoPlan
    /\ e \in created
    /\ plan' = [plan EXCEPT ![p] = [op |-> "checked", show |-> e, zones |-> zones]]
    /\ UNCHANGED <<created, sessionOf, articleOf, seatMap, rows>>

\* saveSeatMap checks that the types are of the event, ...
PlanCheck(p, e, zones) ==
    /\ plan[p] = NoPlan
    /\ e \in created /\ zones \subseteq Offers(e)
    /\ plan' = [plan EXCEPT ![p] = [op |-> "checked", show |-> e, zones |-> zones]]
    /\ UNCHANGED <<created, sessionOf, articleOf, seatMap, rows>>

\* ... looks for the row after the upload, ...
PlanFind(p) ==
    /\ plan[p].op = "checked"
    /\ rows < MaxMaps
    /\ plan' = [plan EXCEPT ![p] = [op |-> "found", show |-> @.show, zones |-> @.zones,
                                    id |-> seatMap[@.show].id]]
    /\ UNCHANGED <<created, sessionOf, articleOf, seatMap, rows>>

\* ... and saves it.  No row is written when another request has made one: the
\* foreign key is unique.  When the row that was found is gone, a new one is
\* inserted, but it belongs to no event: the relation was not loaded.
PlanSave(p) ==
    LET e == plan[p].show
        new == plan[p].id = 0
    IN  /\ plan[p].op = "found"
        /\ IF seatMap[e].id = plan[p].id
           THEN /\ rows' = IF new THEN rows + 1 ELSE rows
                /\ seatMap' = [seatMap EXCEPT ![e] = [id |-> IF new THEN rows + 1 ELSE @.id,
                                                      zones |-> plan[p].zones]]
           ELSE UNCHANGED <<seatMap, rows>>
        /\ plan' = [plan EXCEPT ![p] = NoPlan]
        /\ UNCHANGED <<created, sessionOf, articleOf>>

\* deleteSeatMap
PlanDelete(e) ==
    /\ seatMap[e].id # 0
    /\ seatMap' = [seatMap EXCEPT ![e] = NoMap]
    /\ UNCHANGED <<created, sessionOf, articleOf, rows, plan>>

CatalogueNext ==
    \/ \E e \in Shows :
          \/ \E ss \in SUBSET Sessions : CreateWithSessions(e, ss)
          \/ \E as \in SUBSET Articles : CreateWithArticles(e, as)
          \/ \E a \in Articles : AddToEvent(e, a)
          \/ \E p \in Planners, zones \in SUBSET Articles : PlanCheck(p, e, zones)
          \/ PlanDelete(e)
    \/ \E s \in Sessions, a \in Articles : AddToSession(s, a)
    \/ \E p \in Planners : PlanFind(p) \/ PlanSave(p)

CatalogueSpec == CatalogueInit /\ [][CatalogueNext]_catalogueVars

-----------------------------------------------------------------------------
(* Properties *)

\* Tickets are sold for the event or for its sessions, never both, although
\* three handlers add ticket types and one of them does not look.
RootOrSessions == \A e \in Shows : RootArticles(e) = {} \/ SessionsOf(e) = {}

\* The zones of a seat map have ticket types of its event, although they were
\* checked before an upload, and maps are replaced and deleted meanwhile.
ZonesOffered == \A e \in Shows : seatMap[e].zones \subseteq Offers(e)

=============================================================================
