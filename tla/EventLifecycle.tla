--------------------------- MODULE EventLifecycle ---------------------------
(***************************************************************************)
(* From draft to publication: the row of ONE event in the table `events`,  *)
(* which the organizer edits and submits (EventsService), an admin reviews *)
(* and changes on request (AdminService), and a cancellation closes.  The  *)
(* routes of OrganizersService write and remove the same row, and ask for  *)
(* no status.                                                              *)
(*                                                                         *)
(* A handler reads the whole row, waits (for an upload, a mail, the        *)
(* database) and saves the row it remembers.  repository.save compares     *)
(* that row with a fresh read and updates the columns that differ, so it   *)
(* is two steps; repository.update writes the named columns in one.        *)
(***************************************************************************)
EXTENDS Naturals, FiniteSets

CONSTANTS
    Versions,   \* what the fields that need a review may hold
    Tabs,       \* requests of the organizer that may overlap
    Admins,     \* requests of admins that may overlap
    Requests,   \* bound: change requests
    MaxFaults   \* bound: processes that die inside a handler

ASSUME LifecycleAssumption == MaxFaults \in Nat /\ Tabs \cap Admins = {}

Handlers == Tabs \cup Admins

VARIABLES
    row,       \* status, reviewed fields, fee agreed, soft-deleted
    work,      \* what each handler does, and what it remembers of the row
    change,    \* the change requests
    cancel,    \* the cancel request (module Cancellation has its details)
    approved,  \* history: versions an admin has approved
    bypassed,  \* history: a route that asks for no status has written the row
    faults     \* crashes so far

history == <<approved, bypassed>>
vars == <<row, work, change, cancel, history, faults>>

-----------------------------------------------------------------------------
(* Types.  ONGOING and ENDED are states no code ever writes.               *)

Status == {"none", "DRAFT", "PENDING_REVIEW", "NEEDS_REVISION", "REJECTED", "UPCOMING",
           "CANCELLED"}
Editable == {"DRAFT", "NEEDS_REVISION"}
Published == {"UPCOMING", "CANCELLED"}

Row == [status: Status, core: Versions, fee: BOOLEAN, deleted: BOOLEAN]
Fields == {"status", "core", "fee", "deleted"}

\* What a handler is doing, and how far it is: it has read the row, it has
\* compared what it wants to save with the row, or it is about to write.
Doing == {"nothing", "edit", "minor edit", "submit", "delete", "request change",
          "review", "decide", "apply", "route edit", "route delete"}
Idle == [doing |-> "nothing", step |-> "start"]
Working(op, mem) == [doing |-> op, step |-> "loaded", mem |-> mem]

TypeOK ==
    /\ row \in Row
    /\ \A h \in Handlers :
          /\ work[h].doing \in Doing
          /\ work[h].step \in {"start", "loaded", "compared"}
          /\ work[h].step = "compared" => work[h].mem \in Row /\ work[h].diff \subseteq Fields \cup {"new"}
    /\ change \in [Requests -> [status: {"none", "PENDING", "APPROVED", "REJECTED"},
                                to: Versions]]
    /\ cancel \in {"none", "PENDING", "APPROVED"}
    /\ approved \subseteq Versions /\ bypassed \in BOOLEAN
    /\ faults \in Nat

Init ==
    /\ row \in [status: {"none"}, core: Versions, fee: {FALSE}, deleted: {FALSE}]
    /\ work = [h \in Handlers |-> Idle]
    /\ change \in [Requests -> [status: {"none"}, to: Versions]]
    /\ cancel = "none"
    /\ approved = {} /\ bypassed = FALSE
    /\ faults = 0

\* findOne sees no row that is soft-deleted.
Visible == row.status # "none" /\ ~row.deleted

\* The row has been removed.
Gone == row.status = "none" /\ row.deleted

-----------------------------------------------------------------------------
(* Saving                                                                  *)

Begins(h, job) ==
    /\ work[h] = Idle
    /\ work' = [work EXCEPT ![h] = job]
    /\ UNCHANGED <<row, change, cancel, history, faults>>

Saving == {"edit", "minor edit", "submit", "review", "route edit"}

\* save() reads the row again and finds the columns that differ; when there is
\* no row it makes a new one.
SaveCompare(h) ==
    /\ work[h].doing \in Saving /\ work[h].step = "loaded"
    /\ work' = [work EXCEPT ![h] =
                  [doing |-> @.doing, step |-> "compared", mem |-> @.mem,
                   diff |-> IF Gone THEN Fields \cup {"new"}
                           ELSE {f \in Fields : @.mem[f] # row[f]}]]
    /\ UNCHANGED <<row, change, cancel, history, faults>>

\* It updates these, to what the handler remembers.
SaveWrite(h) ==
    /\ work[h].doing \in Saving /\ work[h].step = "compared"
    /\ row' = [f \in Fields |-> IF f \in work[h].diff /\ (Gone => "new" \in work[h].diff)
                                THEN work[h].mem[f] ELSE row[f]]
    /\ approved' = IF work[h].doing = "review" /\ work[h].mem.status = "UPCOMING"
                   THEN approved \cup {work[h].mem.core} ELSE approved
    /\ bypassed' = (bypassed \/ work[h].doing = "route edit")
    /\ work' = [work EXCEPT ![h] = Idle]
    /\ UNCHANGED <<change, cancel, faults>>

-----------------------------------------------------------------------------
(* The organizer                                                           *)

\* createEvent: one transaction, all or nothing.
Create(v) ==
    /\ row.status = "none" /\ ~row.deleted
    /\ row' = [status |-> "DRAFT", core |-> v, fee |-> FALSE, deleted |-> FALSE]
    /\ UNCHANGED <<work, change, cancel, history, faults>>

\* Mutant: an event under review can be edited, too.
EditAlways(t, v) ==
    /\ Visible /\ row.status \in Editable \cup {"PENDING_REVIEW"}
    /\ Begins(t, Working("edit", [row EXCEPT !.core = v]))

\* updateEvent on an unpublished event.
Edit(t, v) ==
    /\ Visible /\ row.status \in Editable
    /\ Begins(t, Working("edit", [row EXCEPT !.core = v]))

\* updateEvent on a published one: only fields that need no review change.
MinorEdit(t) ==
    /\ Visible /\ row.status = "UPCOMING"
    /\ Begins(t, Working("minor edit", row))

Submit(t) ==
    /\ Visible /\ row.status \in Editable
    /\ Begins(t, Working("submit", [row EXCEPT !.status = "PENDING_REVIEW"]))

DeleteRead(t) ==
    /\ Visible /\ row.status = "DRAFT"
    /\ Begins(t, Working("delete", row))

SoftDelete(t) ==
    /\ work[t].doing = "delete"
    /\ row' = [row EXCEPT !.deleted = TRUE]
    /\ work' = [work EXCEPT ![t] = Idle]
    /\ UNCHANGED <<change, cancel, history, faults>>

ChangeCheck(t) ==
    /\ Visible /\ row.status = "UPCOMING"
    /\ \A r \in Requests : change[r].status # "PENDING"
    /\ Begins(t, Working("request change", row))

ChangeInsert(t, r, v) ==
    /\ work[t].doing = "request change"
    /\ change[r].status = "none" /\ ~Gone
    /\ change' = [change EXCEPT ![r] = [status |-> "PENDING", to |-> v]]
    /\ work' = [work EXCEPT ![t] = Idle]
    /\ UNCHANGED <<row, cancel, history, faults>>

\* OrganizersService.updateEvent: whatever the status.  (With tickets sold
\* five of the fields are locked, the others are not.)
RouteEdit(t, v) ==
    /\ Visible
    /\ Begins(t, Working("route edit", [row EXCEPT !.core = v]))

RouteDeleteRead(t) ==
    /\ Visible
    /\ Begins(t, Working("route delete", row))

\* A request refers to the row.
Referred == cancel # "none" \/ \E r \in Requests : change[r].status # "none"

\* OrganizersService.deleteEvent
RouteDelete(t) ==
    /\ work[t].doing = "route delete"
    /\ ~Referred
    /\ row' = [row EXCEPT !.status = "none", !.deleted = TRUE]
    /\ bypassed' = TRUE
    /\ work' = [work EXCEPT ![t] = Idle]
    /\ UNCHANGED <<change, cancel, approved, faults>>

\* The database refuses to remove a row that is referred to, or to refer to
\* one that is not there.
RequestRefused(t) ==
    /\ \/ work[t].doing = "route delete" /\ Referred
       \/ work[t].doing = "request change" /\ Gone
    /\ work' = [work EXCEPT ![t] = Idle]
    /\ UNCHANGED <<row, change, cancel, history, faults>>

CancelRequest ==
    /\ Visible /\ row.status = "UPCOMING" /\ cancel = "none"
    /\ cancel' = "PENDING"
    /\ UNCHANGED <<row, work, change, history, faults>>

-----------------------------------------------------------------------------
(* Admins and the refund consumer                                          *)

Verdict(s) == [row EXCEPT !.status = s, !.fee = @ \/ s = "UPCOMING"]

\* Mutant: any event can be reviewed, at any time.
ReviewAny(a, s) ==
    /\ Visible
    /\ Begins(a, Working("review", Verdict(s)))

\* Mutant: the decision of the request is stored as the status.
ReviewUnnamed(a, s) ==
    /\ Visible /\ row.status = "PENDING_REVIEW"
    /\ Begins(a, Working("review", Verdict(IF s = "UPCOMING" THEN "APPROVED" ELSE s)))

\* reviewEvent
Review(a, s) ==
    /\ Visible /\ row.status = "PENDING_REVIEW"
    /\ Begins(a, Working("review", Verdict(s)))

\* reviewChangeRequest reads the request, ...
DecideRead(a, r) ==
    /\ change[r].status = "PENDING"
    /\ Begins(a, Working("decide", r))

\* ... saves the decision, ...
DecideReject(a) ==
    /\ work[a].doing = "decide"
    /\ change' = [change EXCEPT ![work[a].mem].status = "REJECTED"]
    /\ work' = [work EXCEPT ![a] = Idle]
    /\ UNCHANGED <<row, cancel, history, faults>>

\* Mutant: the decision is all that is saved.
DecideApproveOnly(a) ==
    /\ work[a].doing = "decide"
    /\ change' = [change EXCEPT ![work[a].mem].status = "APPROVED"]
    /\ work' = [work EXCEPT ![a] = Idle]
    /\ UNCHANGED <<row, cancel, history, faults>>

DecideApprove(a) ==
    /\ work[a].doing = "decide"
    /\ change' = [change EXCEPT ![work[a].mem].status = "APPROVED"]
    /\ work' = [work EXCEPT ![a].doing = "apply"]
    /\ UNCHANGED <<row, cancel, history, faults>>

\* ... and updates the columns of the event.
Apply(a) ==
    /\ work[a].doing = "apply"
    /\ row' = [row EXCEPT !.core = change[work[a].mem].to]
    /\ approved' = approved \cup {change[work[a].mem].to}
    /\ work' = [work EXCEPT ![a] = Idle]
    /\ UNCHANGED <<change, cancel, bypassed, faults>>

CancelApprove ==
    /\ cancel = "PENDING"
    /\ cancel' = "APPROVED"
    /\ UNCHANGED <<row, work, change, history, faults>>

\* The last refund chunk updates the status.
MarkCancelled ==
    /\ cancel = "APPROVED"
    /\ row' = [row EXCEPT !.status = "CANCELLED"]   \* with a request the row is there
    /\ UNCHANGED <<work, change, cancel, history, faults>>

\* The process dies, or a command of the handler fails.
Crash(h) ==
    /\ faults < MaxFaults /\ faults' = faults + 1
    /\ work[h] # Idle
    /\ work' = [work EXCEPT ![h] = Idle]
    /\ UNCHANGED <<row, change, cancel, history>>

-----------------------------------------------------------------------------

Organizer(t) ==
    \/ \E v \in Versions : Edit(t, v) \/ RouteEdit(t, v) \/ \E r \in Requests : ChangeInsert(t, r, v)
    \/ MinorEdit(t)
    \/ Submit(t)
    \/ DeleteRead(t)
    \/ SoftDelete(t)
    \/ ChangeCheck(t)
    \/ RouteDeleteRead(t)
    \/ RouteDelete(t)
    \/ RequestRefused(t)

Admin(a) ==
    \/ \E s \in {"UPCOMING", "NEEDS_REVISION", "REJECTED"} : Review(a, s)
    \/ \E r \in Requests : DecideRead(a, r)
    \/ DecideReject(a)
    \/ DecideApprove(a)
    \/ Apply(a)

Next ==
    \/ \E v \in Versions : Create(v)
    \/ \E t \in Tabs : Organizer(t)
    \/ \E a \in Admins : Admin(a)
    \/ \E h \in Handlers : SaveCompare(h) \/ SaveWrite(h) \/ Crash(h)
    \/ CancelRequest
    \/ CancelApprove
    \/ MarkCancelled

Spec == Init /\ [][Next]_vars

-----------------------------------------------------------------------------
(* Properties *)

\* What is on sale, or was until it was cancelled, is what an admin approved,
\* by a review or by a change request, although every save of the organizer
\* writes columns from an older read.  (One request of the organizer and one
\* of an admin at a time, and no route that bypasses the review; see the
\* README.)
PublishedIsApproved ==
    row.status \in Published /\ ~bypassed => row.core \in approved /\ row.fee

\* A published event never goes back to where it can be edited, unless a route
\* that bypasses the review wrote it.
PublishedStaysPublished ==
    [][row.status \in Published /\ ~bypassed' =>
          row'.status \in Published /\ ~row'.deleted]_vars

\* An approved change request has reached the event when its handler is done,
\* although the decision and the change are saved one after the other.
ApprovedIsApplied ==
    \A r \in Requests :
        \/ change[r].status # "APPROVED" \/ faults > 0
        \/ change[r].to \in approved
        \/ \E a \in Admins : work[a].doing = "apply" /\ work[a].mem = r

\* What updateEvent says of published events: only description and main image
\* can be edited, so the save of such an edit leaves the other fields alone.
OnlyMinorFields ==
    [][\A t \in Tabs : work[t].doing = "minor edit" /\ work'[t] = Idle => row' = row]_vars

=============================================================================
