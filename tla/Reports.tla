------------------------------ MODULE Reports ------------------------------
(***************************************************************************)
(* What the reports about an event say, and what its dashboard shows, as   *)
(* payments, check-ins and refunds go on.  The orders of the event are     *)
(* followed from the payment on: how they come to be is module Booking,    *)
(* how refunds are queued is module Cancellation.  An organizer who edits  *)
(* the event writes the sold column, too: the ticket types of its sessions *)
(* are saved with it.                                                      *)
(***************************************************************************)
EXTENDS Naturals, FiniteSets, Functions

CONSTANTS
    Sales,      \* orders
    Lines,      \* ticket types
    LineOf, Amount, Price,
    OfSessions, \* the ticket types that hang on sessions of the event
    Scans,      \* check-in requests that may overlap
    Edits       \* edits of the event that may overlap

ASSUME ReportsAssumption ==
    /\ IsFiniteSet(Sales) /\ IsFiniteSet(Lines)
    /\ LineOf \in [Sales -> Lines]
    /\ Amount \in [Sales -> Nat \ {0}]
    /\ Price \in [Lines -> Nat]
    /\ OfSessions \subseteq Lines

VARIABLES
    bill,       \* status of each order
    pay,        \* where its webhook is, and the sold column it read
    soldOf,     \* ticket-types.sold
    stub,       \* status of each ticket
    scan,       \* where each check-in is, its ticket, and its count
    shownSold, shownIn, \* what the dashboard shows of each type
    edit,       \* where each edit is, the sold columns it loaded, what it will write
    wiped       \* history: what edits took out of each sold column

reportVars == <<bill, pay, soldOf, stub, scan, shownSold, shownIn, edit, wiped>>

Stubs == UNION {{s} \X (1..Amount[s]) : s \in Sales}
Bill == {"PENDING", "COMPLETED", "REFUNDED"}
Stub == {"none", "UNCHECKED", "CHECKED_IN", "CANCELLED"}
NoPay == [at |-> "out", sold |-> 0]
NoScan == [at |-> "out", stubs |-> {}, count |-> 0]
NoEdit == [at |-> "out", sold |-> [t \in Lines |-> 0], lines |-> {}]

ReportsTypeOK ==
    /\ bill \in [Sales -> Bill]
    /\ pay \in [Sales -> [at: {"out", "in", "paid"}, sold: Nat]]
    /\ soldOf \in [Lines -> Nat]
    /\ stub \in [Stubs -> Stub]
    /\ scan \in [Scans -> [at: {"out", "read", "saved", "counted"}, stubs: SUBSET Stubs,
                           count: Nat]]
    /\ shownSold \in [Lines -> Nat] /\ shownIn \in [Lines -> Nat]
    /\ edit \in [Edits -> [at: {"out", "loaded", "compared"}, sold: [Lines -> Nat],
                           lines: SUBSET Lines]]
    /\ wiped \in [Lines -> Nat]

ReportsInit ==
    /\ bill = [s \in Sales |-> "PENDING"]
    /\ pay = [s \in Sales |-> NoPay]
    /\ soldOf = [t \in Lines |-> 0]
    /\ stub = [k \in Stubs |-> "none"]
    /\ scan = [g \in Scans |-> NoScan]
    /\ shownSold = [t \in Lines |-> 0] /\ shownIn = [t \in Lines |-> 0]
    /\ edit = [e \in Edits |-> NoEdit]
    /\ wiped = [t \in Lines |-> 0]

Line(k) == LineOf[k[1]]
CheckedIn(t) == {k \in Stubs : Line(k) = t /\ stub[k] = "CHECKED_IN"}

-----------------------------------------------------------------------------
(* What happens                                                            *)

\* The transaction of the webhook reads the ticket type ...
PayRead(s) ==
    /\ bill[s] = "PENDING" /\ pay[s].at = "out"
    /\ pay' = [pay EXCEPT ![s] = [at |-> "in", sold |-> soldOf[LineOf[s]]]]
    /\ UNCHANGED <<bill, soldOf, stub, scan, shownSold, shownIn, edit, wiped>>

\* Mutant: what was read is written back.
PayCommitStale(s) ==
    /\ pay[s].at = "in"
    /\ bill' = [bill EXCEPT ![s] = "COMPLETED"]
    /\ stub' = [k \in Stubs |-> IF k[1] = s THEN "UNCHECKED" ELSE stub[k]]
    /\ soldOf' = [soldOf EXCEPT ![LineOf[s]] = pay[s].sold + Amount[s]]
    /\ pay' = [pay EXCEPT ![s].at = "paid"]
    /\ UNCHANGED <<scan, shownSold, shownIn, edit, wiped>>

\* ... and commits the order, its tickets, and an increment.
PayCommit(s) ==
    /\ pay[s].at = "in"
    /\ bill' = [bill EXCEPT ![s] = "COMPLETED"]
    /\ stub' = [k \in Stubs |-> IF k[1] = s THEN "UNCHECKED" ELSE stub[k]]
    /\ soldOf' = [soldOf EXCEPT ![LineOf[s]] = @ + Amount[s]]
    /\ pay' = [pay EXCEPT ![s].at = "paid"]
    /\ UNCHANGED <<scan, shownSold, shownIn, edit, wiped>>

\* Mutant: the order is added to what is sold by now.
PayShowTwice(s) ==
    /\ pay[s].at = "paid"
    /\ shownSold' = [shownSold EXCEPT ![LineOf[s]] = soldOf[LineOf[s]] + Amount[s]]
    /\ pay' = [pay EXCEPT ![s] = NoPay]
    /\ UNCHANGED <<bill, soldOf, stub, scan, shownIn, edit, wiped>>

\* emitTicketSoldStats, some time later.
PayShow(s) ==
    /\ pay[s].at = "paid"
    /\ shownSold' = [shownSold EXCEPT ![LineOf[s]] = pay[s].sold + Amount[s]]
    /\ pay' = [pay EXCEPT ![s] = NoPay]
    /\ UNCHANGED <<bill, soldOf, stub, scan, shownIn, edit, wiped>>

\* checkInTicket reads and validates, saves, counts, and shows the count.
ScanRead(g, k) ==
    /\ scan[g].at = "out" /\ stub[k] = "UNCHECKED"
    /\ scan' = [scan EXCEPT ![g] = [at |-> "read", stubs |-> {k}, count |-> 0]]
    /\ UNCHANGED <<bill, pay, soldOf, stub, shownSold, shownIn, edit, wiped>>

ScanSave(g) ==
    /\ scan[g].at = "read"
    /\ stub' = [k \in Stubs |-> IF k \in scan[g].stubs THEN "CHECKED_IN" ELSE stub[k]]
    /\ scan' = [scan EXCEPT ![g].at = "saved"]
    /\ UNCHANGED <<bill, pay, soldOf, shownSold, shownIn, edit, wiped>>

ScanLine(g) == Line(CHOOSE k \in scan[g].stubs : TRUE)

ScanCount(g) ==
    /\ scan[g].at = "saved"
    /\ scan' = [scan EXCEPT ![g].at = "counted",
                            ![g].count = Cardinality(CheckedIn(ScanLine(g)))]
    /\ UNCHANGED <<bill, pay, soldOf, stub, shownSold, shownIn, edit, wiped>>

ScanShow(g) ==
    /\ scan[g].at = "counted"
    /\ shownIn' = [shownIn EXCEPT ![ScanLine(g)] = scan[g].count]
    /\ scan' = [scan EXCEPT ![g] = NoScan]
    /\ UNCHANGED <<bill, pay, soldOf, stub, shownSold, edit, wiped>>

\* A refund marks the order, and then cancels the tickets nobody has used.
\* What was sold stays as it is.
RefundBill(s) ==
    /\ bill[s] = "COMPLETED"
    /\ bill' = [bill EXCEPT ![s] = "REFUNDED"]
    /\ UNCHANGED <<pay, soldOf, stub, scan, shownSold, shownIn, edit, wiped>>

RefundStubs(s) ==
    /\ bill[s] = "REFUNDED"
    /\ \E k \in Stubs : k[1] = s /\ stub[k] = "UNCHECKED"
    /\ stub' = [k \in Stubs |-> IF k[1] = s /\ stub[k] = "UNCHECKED" THEN "CANCELLED"
                                ELSE stub[k]]
    /\ UNCHANGED <<bill, pay, soldOf, scan, shownSold, shownIn, edit, wiped>>

\* updateEvent of the organizer loads the event with the ticket types of its
\* sessions ...
EditLoad(e) ==
    /\ edit[e].at = "out"
    /\ edit' = [edit EXCEPT ![e] = [at |-> "loaded", sold |-> soldOf, lines |-> {}]]
    /\ UNCHANGED <<bill, pay, soldOf, stub, scan, shownSold, shownIn, wiped>>

\* ... refuses to move what is sold already ...
EditRefuse(e) ==
    /\ edit[e].at = "loaded"
    /\ \E t \in Lines : edit[e].sold[t] > 0
    /\ edit' = [edit EXCEPT ![e] = NoEdit]
    /\ UNCHANGED <<bill, pay, soldOf, stub, scan, shownSold, shownIn, wiped>>

\* ... and saves them all: what was loaded is compared with the rows as they are
\* by now ...
EditCompare(e) ==
    /\ edit[e].at = "loaded"
    /\ edit' = [edit EXCEPT ![e].at = "compared",
                            ![e].lines = {t \in OfSessions : edit[e].sold[t] # soldOf[t]}]
    /\ UNCHANGED <<bill, pay, soldOf, stub, scan, shownSold, shownIn, wiped>>

\* ... and written where it differs.
EditWrite(e) ==
    /\ edit[e].at = "compared"
    /\ soldOf' = [t \in Lines |-> IF t \in edit[e].lines THEN edit[e].sold[t] ELSE soldOf[t]]
    /\ wiped' = [t \in Lines |-> IF t \in edit[e].lines
                                  THEN (soldOf[t] + wiped[t]) - edit[e].sold[t] ELSE wiped[t]]
    /\ edit' = [edit EXCEPT ![e] = NoEdit]
    /\ UNCHANGED <<bill, pay, stub, scan, shownSold, shownIn>>

ReportsNext ==
    \/ \E s \in Sales :
          \/ PayRead(s) \/ PayCommit(s) \/ PayShow(s)
          \/ RefundBill(s) \/ RefundStubs(s)
    \/ \E g \in Scans :
          \/ \E k \in Stubs : ScanRead(g, k)
          \/ ScanSave(g) \/ ScanCount(g) \/ ScanShow(g)
    \/ \E e \in Edits : EditLoad(e) \/ EditRefuse(e) \/ EditCompare(e) \/ EditWrite(e)

ReportsSpec == ReportsInit /\ [][ReportsNext]_reportVars

-----------------------------------------------------------------------------
(* The reports                                                             *)

Worth == [s \in Sales |-> Price[LineOf[s]] * Amount[s]]
Billed(b) == {s \in Sales : bill[s] = b}

\* AdminService.getOrganizerRevenue: the total by orders, ...
AdminTotal == SumFunctionOnSet(Worth, Billed("COMPLETED"))

\* ... and the lines of the events by tickets.
StubPrice == [k \in Stubs |-> IF bill[k[1]] = "COMPLETED" /\ stub[k] # "none"
                              THEN Price[Line(k)] ELSE 0]
AdminLines == SumFunctionOnSet(StubPrice, Stubs)

\* OrganizersService.getOrganizerRevenue
LineWorth == [t \in Lines |-> Price[t] * soldOf[t]]
OrganizerTotal == SumFunctionOnSet(LineWorth, Lines)

\* EventsService.getTotalSoldTickets
TotalSold == SumFunctionOnSet(soldOf, Lines)

\* EventsService.getEventStats
EventStats == [revenue |-> OrganizerTotal, sold |-> TotalSold,
               checkedIn |-> [t \in Lines |-> Cardinality(CheckedIn(t))]]

-----------------------------------------------------------------------------
(* Properties *)

\* What edits took out of the column.
WipedWorth == [t \in Lines |-> Price[t] * wiped[t]]

\* The reports of admin and organizer are made from different tables, and agree
\* but for what was refunded, which nothing takes out of the organizer's, and
\* what edits wrote over: no payment is lost or counted twice in any other way.
ReportsAgree ==
    /\ AdminTotal = AdminLines
    /\ EventStats.revenue + SumFunctionOnSet(WipedWorth, Lines)
         = AdminTotal + SumFunctionOnSet(Worth, Billed("REFUNDED"))
    /\ EventStats.sold + SumFunctionOnSet(wiped, Lines)
         = Cardinality({k \in Stubs : stub[k] # "none"})

\* The dashboard may be late, as its messages overtake each other, but it never
\* shows more tickets sold or checked in than there are: what edits wrote over
\* was sold.
DashboardNotAhead ==
    \A t \in Lines : /\ shownSold[t] <= soldOf[t] + wiped[t]
                     /\ shownIn[t] <= EventStats.checkedIn[t]

=============================================================================
