------------------------ MODULE EventLifecycleProofs ------------------------
(***************************************************************************)
(* What holds of EventLifecycle for all versions, change requests and      *)
(* faults: the types and the fate of approved changes for any number of    *)
(* overlapping requests, what is on sale for one tab and one admin.  In    *)
(* the last part, what holds of Catalogue for every set of events,         *)
(* sessions, ticket types and requests, without a bound on the seat maps.  *)
(***************************************************************************)
EXTENDS EventLifecycle, Catalogue, TLAPS

\* What a handler may be doing, and what it remembers.
Job ==
    {Idle}
    \cup [doing: Saving \cup {"delete", "request change", "route delete"},
          step: {"loaded"}, mem: Row]
    \cup [doing: Saving, step: {"compared"}, mem: Row, diff: SUBSET (Fields \cup {"new"})]
    \cup [doing: {"decide", "apply"}, step: {"loaded"}, mem: Requests]

TypeInv == TypeOK /\ work \in [Handlers -> Job]

LEMMA NoSharedHandler == ASSUME NEW t \in Tabs PROVE t \notin Admins /\ t \in Handlers
  BY LifecycleAssumption DEF Handlers

-----------------------------------------------------------------------------
(* Types *)

\* A job is as TypeOK has it.
LEMMA JobType ==
  ASSUME NEW j \in Job
  PROVE  /\ j.doing \in Doing
         /\ j.step \in {"start", "loaded", "compared"}
         /\ j.step = "compared" => j.mem \in Row /\ j.diff \subseteq Fields \cup {"new"}
         /\ j.doing \in Saving => j.mem \in Row
         /\ j.doing \in {"decide", "apply"}
              => j \in [doing: {"decide", "apply"}, step: {"loaded"}, mem: Requests]
  <1>1. CASE j = Idle
    BY <1>1 DEF Idle, Doing, Saving
  <1>2. CASE j \in [doing: Saving \cup {"delete", "request change", "route delete"},
                    step: {"loaded"}, mem: Row]
    BY <1>2 DEF Doing, Saving
  <1>3. CASE j \in [doing: Saving, step: {"compared"}, mem: Row,
                    diff: SUBSET (Fields \cup {"new"})]
    BY <1>3 DEF Doing, Saving
  <1>4. CASE j \in [doing: {"decide", "apply"}, step: {"loaded"}, mem: Requests]
    BY <1>4 DEF Doing, Saving
  <1> QED BY <1>1, <1>2, <1>3, <1>4 DEF Job

LEMMA LifecycleTypeInit == Init => TypeInv
  <1> SUFFICES ASSUME Init PROVE TypeInv
    OBVIOUS
  <1>1. work \in [Handlers -> Job]
    BY DEF Init, Job
  <1>2. row \in Row /\ change \in [Requests -> [status: {"none", "PENDING", "APPROVED", "REJECTED"},
                                                to: Versions]]
    BY DEF Init, Row, Status
  <1> QED BY <1>1, <1>2, JobType DEF Init, TypeInv, TypeOK

\* A new job is one: what is remembered is a row.
LEMMA BeginsType ==
  ASSUME TypeInv, NEW h \in Handlers, NEW mem \in Row,
         NEW op \in Saving \cup {"delete", "request change", "route delete"},
         Begins(h, Working(op, mem))
  PROVE  TypeInv'
  <1>1. Working(op, mem) \in Job
    BY DEF Working, Job
  <1>2. (work \in [Handlers -> Job])'
    BY <1>1 DEF Begins, TypeInv
  <1>3. UNCHANGED <<row, change, cancel, approved, bypassed, faults>>
    BY DEF Begins, history
  <1> QED BY <1>2, <1>3, JobType DEF TypeInv, TypeOK

\* A handler that ends rests.
LEMMA IdleType ==
  ASSUME TypeInv, NEW h \in Handlers, work' = [work EXCEPT ![h] = Idle],
         row' \in Row,
         change' \in [Requests -> [status: {"none", "PENDING", "APPROVED", "REJECTED"},
                                   to: Versions]],
         cancel' = cancel, approved' \subseteq Versions, bypassed' \in BOOLEAN, faults' \in Nat
  PROVE  TypeInv'
  <1>1. (work \in [Handlers -> Job])'
    BY DEF TypeInv, Job
  <1> QED BY <1>1, JobType DEF TypeInv, TypeOK

\* What save() writes is a row.
LEMMA WrittenType ==
  ASSUME NEW old \in Row, NEW mem \in Row, NEW which
  PROVE  [f \in Fields |-> IF f \in which THEN mem[f] ELSE old[f]] \in Row
  <1> DEFINE new == [f \in Fields |-> IF f \in which THEN mem[f] ELSE old[f]]
  <1>1. \A f \in Fields : new[f] = mem[f] \/ new[f] = old[f]
    OBVIOUS
  <1>2. /\ new.status \in Status /\ new.core \in Versions
        /\ new.fee \in BOOLEAN /\ new.deleted \in BOOLEAN
    BY <1>1 DEF Row, Fields
  <1>3. new = [status |-> new.status, core |-> new.core, fee |-> new.fee, deleted |-> new.deleted]
    BY DEF Fields
  <1> QED BY <1>2, <1>3 DEF Row

LEMMA SaveType ==
  ASSUME TypeInv, NEW h \in Handlers, SaveCompare(h) \/ SaveWrite(h)
  PROVE  TypeInv'
  <1>1. CASE SaveCompare(h)
    <2>1. work[h].mem \in Row /\ work[h].doing \in Saving
      BY <1>1, JobType DEF SaveCompare, TypeInv
    <2>2. work'[h] \in Job
      BY <1>1, <2>1 DEF SaveCompare, TypeInv, Job, Saving
    <2>3. (work \in [Handlers -> Job])'
      BY <1>1, <2>2 DEF SaveCompare, TypeInv
    <2> QED BY <1>1, <2>3, JobType DEF SaveCompare, history, TypeInv, TypeOK
  <1>2. CASE SaveWrite(h)
    <2> DEFINE which == {f \in Fields : f \in work[h].diff /\ (Gone => "new" \in work[h].diff)}
    <2>1. work[h].mem \in Row
      BY <1>2 DEF SaveWrite, TypeInv, TypeOK
    <2>2. row' = [f \in Fields |-> IF f \in which THEN work[h].mem[f] ELSE row[f]]
      BY <1>2 DEF SaveWrite
    <2> HIDE DEF which
    <2>3. row \in Row
      BY DEF TypeInv, TypeOK
    <2>5. [f \in Fields |-> IF f \in which THEN work[h].mem[f] ELSE row[f]] \in Row
      BY <2>1, <2>3, WrittenType
    <2>4. work[h].mem.core \in Versions
      BY <2>1 DEF Row
    <2> QED BY <1>2, <2>2, <2>4, <2>5, IdleType DEF SaveWrite, TypeInv, TypeOK
  <1> QED BY <1>1, <1>2

LEMMA LifecycleTypeNext == TypeInv /\ [Next]_vars => TypeInv'
  <1> SUFFICES ASSUME TypeInv, [Next]_vars PROVE TypeInv'
    OBVIOUS
  <1>t. /\ row \in Row /\ work \in [Handlers -> Job] /\ faults \in Nat /\ MaxFaults \in Nat
        /\ change \in [Requests -> [status: {"none", "PENDING", "APPROVED", "REJECTED"},
                                     to: Versions]]
        /\ cancel \in {"none", "PENDING", "APPROVED"}
        /\ approved \subseteq Versions /\ bypassed \in BOOLEAN
    BY LifecycleAssumption DEF TypeInv, TypeOK
  <1>r. row.status \in Status /\ row.core \in Versions /\ row.fee \in BOOLEAN /\ row.deleted \in BOOLEAN
    BY <1>t DEF Row
  <1>e. /\ \A v \in Versions : [row EXCEPT !.core = v] \in Row
        /\ \A s \in Status : [row EXCEPT !.status = s] \in Row /\ Verdict(s) \in Row
        /\ [row EXCEPT !.deleted = TRUE] \in Row
        /\ [row EXCEPT !.status = "none", !.deleted = TRUE] \in Row
    BY <1>t DEF Row, Status, Verdict
  <1>1. ASSUME NEW v \in Versions, Create(v) PROVE TypeInv'
    <2>1. row' \in Row
      BY <1>1 DEF Create, Row, Status
    <2> QED BY <1>1, <1>t, <2>1 DEF Create, history, TypeInv, TypeOK
  <1>2. ASSUME NEW t \in Tabs, Organizer(t) PROVE TypeInv'
    <2> t \in Handlers
      BY NoSharedHandler
    <2>1. ASSUME NEW v \in Versions, Edit(t, v) \/ RouteEdit(t, v) PROVE TypeInv'
      BY <2>1, <1>e, BeginsType DEF Edit, RouteEdit, Saving
    <2>2. CASE MinorEdit(t) \/ DeleteRead(t) \/ ChangeCheck(t) \/ RouteDeleteRead(t)
      BY <2>2, <1>t, BeginsType DEF MinorEdit, DeleteRead, ChangeCheck, RouteDeleteRead, Saving
    <2>3. CASE Submit(t)
      BY <2>3, <1>e, BeginsType DEF Submit, Saving, Status
    <2>4. CASE SoftDelete(t)
      BY <2>4, <1>e, <1>t, IdleType DEF SoftDelete, history
    <2>5. ASSUME NEW r \in Requests, NEW v \in Versions, ChangeInsert(t, r, v) PROVE TypeInv'
      BY <2>5, <1>t, IdleType DEF ChangeInsert, history
    <2>6. CASE RouteDelete(t)
      BY <2>6, <1>e, <1>t, IdleType DEF RouteDelete
    <2>7. CASE RequestRefused(t)
      BY <2>7, <1>t, IdleType DEF RequestRefused, history
    <2> QED BY <1>2, <2>1, <2>2, <2>3, <2>4, <2>5, <2>6, <2>7 DEF Organizer
  <1>3. ASSUME NEW a \in Admins, Admin(a) PROVE TypeInv'
    <2> a \in Handlers
      BY DEF Handlers
    <2>1. ASSUME NEW s \in {"UPCOMING", "NEEDS_REVISION", "REJECTED"}, Review(a, s) PROVE TypeInv'
      BY <2>1, <1>e, BeginsType DEF Review, Saving, Status
    <2>2. ASSUME NEW r \in Requests, DecideRead(a, r) PROVE TypeInv'
      <3>1. (work \in [Handlers -> Job])'
        BY <2>2, <1>t DEF DecideRead, Begins, Working, Job
      <3> QED BY <2>2, <3>1, JobType DEF DecideRead, Begins, history, TypeInv, TypeOK
    <2>3. CASE DecideReject(a)
      BY <2>3, <1>t, IdleType DEF DecideReject, history
    <2>4. CASE DecideApprove(a)
      <3>1. work[a] \in [doing: {"decide", "apply"}, step: {"loaded"}, mem: Requests]
        BY <2>4, <1>t, JobType DEF DecideApprove
      <3>a. [work[a] EXCEPT !.doing = "apply"] \in Job
        BY <3>1 DEF Job
      <3>2. (work \in [Handlers -> Job])'
        BY <2>4, <3>a, <1>t DEF DecideApprove
      <3>3. change' \in [Requests -> [status: {"none", "PENDING", "APPROVED", "REJECTED"},
                                      to: Versions]]
        BY <2>4, <1>t DEF DecideApprove
      <3> QED BY <2>4, <3>2, <3>3, JobType DEF DecideApprove, history, TypeInv, TypeOK
    <2>5. CASE Apply(a)
      <3>1. work[a].mem \in Requests
        BY <2>5, <1>t, JobType DEF Apply
      <3>2. change[work[a].mem].to \in Versions
        BY <3>1, <1>t
      <3> QED BY <2>5, <3>2, <1>e, <1>t, IdleType DEF Apply
    <2> QED BY <1>3, <2>1, <2>2, <2>3, <2>4, <2>5 DEF Admin
  <1>4. ASSUME NEW h \in Handlers, SaveCompare(h) \/ SaveWrite(h) PROVE TypeInv'
    BY <1>4, SaveType
  <1>5. ASSUME NEW h \in Handlers, Crash(h) PROVE TypeInv'
    <2>1. faults' \in Nat /\ UNCHANGED <<row, change, cancel, approved, bypassed>>
      BY <1>5, <1>t DEF Crash, history
    <2> QED BY <1>5, <2>1, <1>t, IdleType DEF Crash
  <1>6. CASE CancelRequest \/ CancelApprove
    BY <1>6 DEF CancelRequest, CancelApprove, history, TypeInv, TypeOK
  <1>7. CASE MarkCancelled
    BY <1>7, <1>e DEF MarkCancelled, history, TypeInv, TypeOK, Status
  <1>8. CASE UNCHANGED vars
    BY <1>8 DEF vars, history, TypeInv, TypeOK
  <1> QED BY <1>1, <1>2, <1>3, <1>4, <1>5, <1>6, <1>7, <1>8 DEF Next

-----------------------------------------------------------------------------
(* Approved changes                                                        *)

\* The handler that carries out the change of r.
Carries(a, r) == work[a].doing = "apply" /\ work[a].mem = r

Applied(r) ==
    \/ change[r].status # "APPROVED" \/ faults > 0
    \/ change[r].to \in approved
    \/ \E a \in Admins : Carries(a, r)

\* A step that carries nothing out, and approves nothing, leaves it so.
LEMMA AppliedStays ==
  ASSUME NEW r \in Requests, Applied(r),
         change'[r] = change[r] \/ change'[r].status # "APPROVED",
         approved \subseteq approved', faults > 0 => faults' > 0,
         \A a \in Admins : Carries(a, r) => Carries(a, r)' \/ faults' > 0
  PROVE  Applied(r)'
  BY DEF Applied

LEMMA AppliedNext ==
  ASSUME TypeInv, \A r \in Requests : Applied(r), [Next]_vars
  PROVE  \A r \in Requests : Applied(r)'
  <1> SUFFICES ASSUME NEW r \in Requests PROVE Applied(r)'
    OBVIOUS
  <1>t. /\ work \in [Handlers -> Job] /\ faults \in Nat
        /\ change \in [Requests -> [status: {"none", "PENDING", "APPROVED", "REJECTED"},
                                     to: Versions]]
        /\ Applied(r) /\ Admins \subseteq Handlers
    BY DEF TypeInv, TypeOK, Handlers
  <1>1. ASSUME NEW h \in Handlers, NEW j, work' = [work EXCEPT ![h] = j],
               work[h].doing # "apply",
               change'[r] = change[r] \/ change'[r].status # "APPROVED",
               approved \subseteq approved', faults' = faults
        PROVE  Applied(r)'
    <2>1. \A a \in Admins : Carries(a, r) => Carries(a, r)'
      BY <1>1, <1>t DEF Carries
    <2> QED BY <1>1, <1>t, <2>1, AppliedStays
  <1>2. ASSUME UNCHANGED <<work, faults>>, change' = change, approved' = approved
        PROVE  Applied(r)'
    BY <1>2, <1>t, AppliedStays DEF Carries
  <1>3. ASSUME NEW h \in Handlers, NEW j, Begins(h, j) PROVE Applied(r)'
    <2>1. /\ work' = [work EXCEPT ![h] = j] /\ work[h].doing # "apply"
          /\ UNCHANGED <<change, approved, faults>>
      BY <1>3 DEF Begins, Idle, history
    <2> QED BY <1>1, <2>1
  <1>4. ASSUME NEW h \in Handlers, SaveCompare(h) \/ SaveWrite(h) PROVE Applied(r)'
    <2>1. work[h].doing # "apply"
      BY <1>4 DEF SaveCompare, SaveWrite, Saving
    <2>2. change' = change /\ faults' = faults /\ approved \subseteq approved'
      BY <1>4 DEF SaveCompare, SaveWrite, history
    <2>3. \E j : work' = [work EXCEPT ![h] = j]
      BY <1>4 DEF SaveCompare, SaveWrite
    <2> QED BY <1>1, <2>1, <2>2, <2>3
  <1>5. ASSUME NEW t \in Tabs, Organizer(t) PROVE Applied(r)'
    <2> t \in Handlers
      BY NoSharedHandler
    <2>1. ASSUME NEW v \in Versions, Edit(t, v) \/ RouteEdit(t, v) PROVE Applied(r)'
      BY <2>1, <1>3 DEF Edit, RouteEdit
    <2>2. CASE MinorEdit(t) \/ DeleteRead(t) \/ ChangeCheck(t) \/ RouteDeleteRead(t) \/ Submit(t)
      BY <2>2, <1>3 DEF MinorEdit, DeleteRead, ChangeCheck, RouteDeleteRead, Submit
    <2>3. CASE SoftDelete(t)
      BY <2>3, <1>1 DEF SoftDelete, history
    <2>4. ASSUME NEW q \in Requests, NEW v \in Versions, ChangeInsert(t, q, v) PROVE Applied(r)'
      <3>1. change'[r] = change[r] \/ change'[r].status # "APPROVED"
        BY <2>4, <1>t DEF ChangeInsert
      <3> QED BY <2>4, <3>1, <1>1 DEF ChangeInsert, history
    <2>5. CASE RouteDelete(t)
      BY <2>5, <1>1 DEF RouteDelete
    <2>6. CASE RequestRefused(t)
      BY <2>6, <1>1 DEF RequestRefused, history
    <2> QED BY <1>5, <2>1, <2>2, <2>3, <2>4, <2>5, <2>6 DEF Organizer
  <1>6. ASSUME NEW a \in Admins, Admin(a) PROVE Applied(r)'
    <2> a \in Handlers
      BY <1>t
    <2>1. ASSUME NEW s \in {"UPCOMING", "NEEDS_REVISION", "REJECTED"}, Review(a, s) PROVE Applied(r)'
      BY <2>1, <1>3 DEF Review
    <2>2. ASSUME NEW q \in Requests, DecideRead(a, q) PROVE Applied(r)'
      BY <2>2, <1>3 DEF DecideRead
    <2>3. CASE DecideReject(a)
      <3>1. change'[r] = change[r] \/ change'[r].status # "APPROVED"
        BY <2>3, <1>t DEF DecideReject
      <3> QED BY <2>3, <3>1, <1>1 DEF DecideReject, history
    <2>4. CASE DecideApprove(a)
      <3>0. /\ work[a].doing = "decide" /\ work' = [work EXCEPT ![a].doing = "apply"]
            /\ change' = [change EXCEPT ![work[a].mem].status = "APPROVED"]
            /\ UNCHANGED <<approved, faults>>
        BY <2>4 DEF DecideApprove, history
      <3>1. work[a] \in [doing: {"decide", "apply"}, step: {"loaded"}, mem: Requests]
        BY <3>0, <1>t, JobType
      <3>2. CASE work[a].mem = r
        BY <3>0, <3>1, <3>2, <1>t DEF Applied, Carries
      <3>3. CASE work[a].mem # r
        <4>1. change'[r] = change[r]
          BY <3>0, <3>3, <1>t
        <4>2. \A b \in Admins : Carries(b, r) => Carries(b, r)'
          BY <3>0, <1>t DEF Carries
        <4> QED BY <3>0, <4>1, <4>2, <1>t, AppliedStays
      <3> QED BY <3>2, <3>3
    <2>5. CASE Apply(a)
      <3>0. /\ approved' = approved \cup {change[work[a].mem].to}
            /\ work' = [work EXCEPT ![a] = Idle] /\ UNCHANGED <<change, faults>>
        BY <2>5 DEF Apply
      <3>1. CASE Carries(a, r)
        BY <3>0, <3>1 DEF Carries, Applied
      <3>2. CASE ~Carries(a, r)
        <4>1. \A b \in Admins : Carries(b, r) => Carries(b, r)'
          BY <3>0, <3>2, <1>t DEF Carries
        <4> QED BY <3>0, <4>1, <1>t, AppliedStays
      <3> QED BY <3>1, <3>2
    <2> QED BY <1>6, <2>1, <2>2, <2>3, <2>4, <2>5 DEF Admin
  <1>7. ASSUME NEW h \in Handlers, Crash(h) PROVE Applied(r)'
    BY <1>7, <1>t DEF Crash, Applied
  <1>8. CASE \/ \E v \in Versions : Create(v)
             \/ CancelRequest \/ CancelApprove \/ MarkCancelled \/ UNCHANGED vars
    BY <1>8, <1>2 DEF Create, CancelRequest, CancelApprove, MarkCancelled, vars, history
  <1> QED BY <1>4, <1>5, <1>6, <1>7, <1>8 DEF Next

-----------------------------------------------------------------------------
(* What is on sale, with one tab and one admin                             *)

OneEach == (\A t, u \in Tabs : t = u) /\ (\A a, b \in Admins : a = b)

\* What a request of the organizer under way says of the row.
TabStage(t) ==
    /\ work[t].doing \notin {"review", "decide", "apply"}
    /\ work[t].doing \in {"edit", "submit", "delete"} => row.status \in Editable
    /\ work[t].doing \in {"edit", "submit"} => work[t].mem.status \in Editable \cup {"PENDING_REVIEW"}
    /\ work[t].doing = "minor edit" =>
          /\ row.status \in Published
          /\ work[t].mem.status = "UPCOMING" /\ ~work[t].mem.deleted
          /\ work[t].mem.core \in approved /\ work[t].mem.fee

\* The fields in which a remembered row differs from another.
Differs(mem, other) == {f \in Fields : mem[f] # other[f]}

\* What a review under way says of it: the row is as it was read.
AdminStage(a) ==
    /\ work[a].doing \in {"nothing", "review", "decide", "apply"}
    /\ work[a].doing = "review" =>
        /\ row.status = "PENDING_REVIEW" /\ ~row.deleted
        /\ work[a].mem.status \in {"UPCOMING", "NEEDS_REVISION", "REJECTED"}
        /\ work[a].mem.core = row.core /\ ~work[a].mem.deleted
        /\ work[a].mem.status = "UPCOMING" => work[a].mem.fee
        /\ work[a].step = "compared" => work[a].diff = Differs(work[a].mem, row)

\* What is published is approved and there; what is to be cancelled is published.
OnSale ==
    /\ row.status \in Published => row.core \in approved /\ row.fee /\ ~row.deleted
    /\ cancel # "none" => row.status \in Published

SaleInv == ~bypassed => OnSale /\ (\A t \in Tabs : TabStage(t)) /\ \A a \in Admins : AdminStage(a)

\* A handler at rest says nothing of the row.
LEMMA TabRests == ASSUME NEW t \in Tabs, work[t] = Idle PROVE TabStage(t)
  <1>1. work[t].doing = "nothing"
    BY DEF Idle
  <1> QED BY <1>1 DEF TabStage

LEMMA AdminRests == ASSUME NEW a \in Admins, work[a] = Idle PROVE AdminStage(a)
  <1>1. work[a].doing = "nothing"
    BY DEF Idle
  <1> QED BY <1>1 DEF AdminStage

LEMMA RestNext ==
  /\ \A t \in Tabs : work'[t] = Idle => TabStage(t)'
  /\ \A a \in Admins : work'[a] = Idle => AdminStage(a)'
  <1>1. Idle.doing = "nothing"
    BY DEF Idle
  <1> QED BY <1>1 DEF TabStage, AdminStage

\* A step that leaves the row and the requests under way alone, but perhaps ends
\* or begins one that says nothing of it.
LEMMA SaleStays ==
  ASSUME SaleInv, bypassed' = bypassed, row' = row, approved' = approved,
         cancel' # "none" => row.status \in Published \/ cancel # "none",
         \A t \in Tabs : work'[t] = work[t]
            \/ work'[t].doing \in {"nothing", "request change", "route edit", "route delete"},
         \A a \in Admins : work'[a] = work[a] \/ work'[a].doing \in {"nothing", "decide", "apply"}
  PROVE  SaleInv'
  <1> SUFFICES ASSUME ~bypassed PROVE OnSale' /\ (\A t \in Tabs : TabStage(t)') /\ \A a \in Admins : AdminStage(a)'
    BY DEF SaleInv
  <1>1. OnSale /\ (\A t \in Tabs : TabStage(t)) /\ \A a \in Admins : AdminStage(a)
    BY DEF SaleInv
  <1>2. OnSale'
    BY <1>1 DEF OnSale
  <1>3. \A t \in Tabs : TabStage(t)'
    BY <1>1 DEF TabStage
  <1>4. \A a \in Admins : AdminStage(a)'
    BY <1>1 DEF AdminStage
  <1> QED BY <1>2, <1>3, <1>4

LEMMA SaleNext ==
  ASSUME OneEach, TypeInv, SaleInv, [Next]_vars
  PROVE  /\ SaleInv'
         /\ row.status \in Published /\ ~bypassed' => row'.status \in Published /\ ~row'.deleted
  <1> DEFINE Stays == row.status \in Published /\ ~bypassed' => row'.status \in Published /\ ~row'.deleted
             Goal == SaleInv' /\ Stays
  <1>t. /\ row \in Row /\ work \in [Handlers -> Job] /\ faults \in Nat
        /\ Admins \subseteq Handlers /\ Tabs \subseteq Handlers /\ Tabs \cap Admins = {}
        /\ bypassed \in BOOLEAN
    BY LifecycleAssumption DEF TypeInv, TypeOK, Handlers
  <1>1. ASSUME row' = row, bypassed' = bypassed PROVE Stays
    BY <1>1 DEF SaleInv, OnSale
  <1>2. ASSUME NEW v \in Versions, Create(v) PROVE Goal
    BY <1>2, <1>t DEF Create, history, SaleInv, OnSale, TabStage, AdminStage, Editable, Published
  <1>3. ASSUME NEW t \in Tabs, Organizer(t) PROVE Goal
    <2> t \in Handlers /\ t \notin Admins
      BY <1>t
    <2>1. ASSUME NEW v \in Versions, Edit(t, v) PROVE Goal
      BY <2>1, <1>1, <1>t
      DEF Edit, Begins, Working, history, SaleInv, OnSale, TabStage, AdminStage, Editable, Row
    <2>2. ASSUME NEW v \in Versions, RouteEdit(t, v) PROVE Goal
      BY <2>2, <1>1, <1>t, SaleStays DEF RouteEdit, Begins, Working, history
    <2>3. CASE MinorEdit(t)
      BY <2>3, <1>1, <1>t
      DEF MinorEdit, Begins, Working, history, SaleInv, OnSale, TabStage, AdminStage, Published, Visible
    <2>4. CASE Submit(t)
      BY <2>4, <1>1, <1>t
      DEF Submit, Begins, Working, history, SaleInv, OnSale, TabStage, AdminStage, Editable, Row
    <2>5. CASE DeleteRead(t)
      BY <2>5, <1>1, <1>t
      DEF DeleteRead, Begins, Working, history, SaleInv, OnSale, TabStage, AdminStage, Editable
    <2>6. CASE SoftDelete(t)
      <3>1. \A u \in Tabs : work'[u] = Idle
        BY <2>6, <1>t DEF SoftDelete, OneEach
      <3>2. \A a \in Admins : work'[a] = work[a]
        BY <2>6, <1>t DEF SoftDelete
      <3>3. row'.status = row.status /\ UNCHANGED <<cancel, approved, bypassed>>
        BY <2>6, <1>t DEF SoftDelete, history, Row
      <3>4. ~bypassed => row.status \in Editable
        BY <2>6 DEF SoftDelete, SaleInv, TabStage
      <3>5. CASE bypassed
        BY <3>3, <3>5 DEF SaleInv
      <3>6. CASE ~bypassed
        <4>1. OnSale' /\ row.status \notin Published
          BY <3>3, <3>4, <3>6 DEF SaleInv, OnSale, Editable, Published
        <4>2. \A u \in Tabs : TabStage(u)'
          BY <3>1, RestNext
        <4>3. \A a \in Admins : AdminStage(a)'
          BY <3>2, <3>4, <3>6 DEF SaleInv, AdminStage, Editable
        <4> QED BY <4>1, <4>2, <4>3 DEF SaleInv
      <3> QED BY <3>5, <3>6
    <2>a. ASSUME UNCHANGED <<row, approved, bypassed, cancel>>, NEW j, work' = [work EXCEPT ![t] = j],
                 j.doing \in {"nothing", "request change", "route edit", "route delete"}
          PROVE  Goal
      <3>1. /\ \A u \in Tabs : work'[u] = work[u] \/ work'[u] = j
            /\ \A a \in Admins : work'[a] = work[a]
        BY <2>a, <1>t
      <3> QED BY <2>a, <3>1, <1>1, SaleStays
    <2>7. CASE ChangeCheck(t) \/ RouteDeleteRead(t)
      <3>1. \E op \in {"request change", "route delete"} : Begins(t, Working(op, row))
        BY <2>7 DEF ChangeCheck, RouteDeleteRead
      <3> QED BY <3>1, <2>a DEF Begins, Working, history
    <2>8. CASE \/ \E r \in Requests, v \in Versions : ChangeInsert(t, r, v)
               \/ RequestRefused(t)
      <3>1. work' = [work EXCEPT ![t] = Idle] /\ UNCHANGED <<row, approved, bypassed, cancel>>
        BY <2>8 DEF ChangeInsert, RequestRefused, history
      <3> QED BY <3>1, <2>a DEF Idle
    <2>9. CASE RouteDelete(t)
      BY <2>9 DEF RouteDelete, SaleInv
    <2> QED BY <1>3, <2>1, <2>2, <2>3, <2>4, <2>5, <2>6, <2>7, <2>8, <2>9 DEF Organizer
  <1>4. ASSUME NEW a \in Admins, Admin(a) PROVE Goal
    <2> a \in Handlers /\ a \notin Tabs
      BY <1>t
    <2>1. ASSUME NEW s \in {"UPCOMING", "NEEDS_REVISION", "REJECTED"}, Review(a, s) PROVE Goal
      <3>0. /\ row.status = "PENDING_REVIEW" /\ ~row.deleted
            /\ work' = [work EXCEPT ![a] = Working("review", Verdict(s))]
            /\ UNCHANGED <<row, cancel, approved, bypassed>>
        BY <2>1 DEF Review, Begins, history, Visible
      <3>1. /\ Verdict(s).status = s /\ Verdict(s).core = row.core
            /\ ~Verdict(s).deleted /\ (s = "UPCOMING" => Verdict(s).fee)
        BY <3>0, <1>t DEF Verdict, Row
      <3> QED BY <3>0, <3>1, <1>1, <1>t
              DEF Working, SaleInv, OnSale, TabStage, AdminStage
    <2>2. ASSUME NEW r \in Requests, DecideRead(a, r) PROVE Goal
      BY <2>2, <1>1, <1>t, SaleStays DEF DecideRead, Begins, Working, history
    <2>3. CASE DecideReject(a)
      BY <2>3, <1>1, <1>t, SaleStays DEF DecideReject, history, Idle
    <2>4. CASE DecideApprove(a)
      <3>1. work'[a].doing = "apply"
        <4>1. work[a] \in [doing: {"decide", "apply"}, step: {"loaded"}, mem: Requests]
          BY <2>4, <1>t, JobType DEF DecideApprove
        <4> QED BY <2>4, <4>1, <1>t DEF DecideApprove
      <3> QED BY <2>4, <3>1, <1>1, <1>t, SaleStays DEF DecideApprove, history
    <2>5. CASE Apply(a)
      <3>0. /\ row'.status = row.status /\ row'.fee = row.fee /\ row'.deleted = row.deleted
            /\ row'.core \in approved' /\ approved \subseteq approved' /\ UNCHANGED <<cancel, bypassed>>
        BY <2>5, <1>t DEF Apply, Row
      <3>1. \A b \in Admins : work'[b] = Idle
        BY <2>5, <1>t DEF Apply, OneEach
      <3>2. \A t \in Tabs : work'[t] = work[t]
        BY <2>5, <1>t DEF Apply
      <3>3. CASE bypassed
        BY <3>0, <3>3 DEF SaleInv
      <3>4. CASE ~bypassed
        <4>1. OnSale' /\ Stays
          BY <3>0, <3>4 DEF SaleInv, OnSale
        <4>2. \A t \in Tabs : TabStage(t)'
          BY <3>0, <3>2, <3>4 DEF SaleInv, TabStage
        <4>3. \A b \in Admins : AdminStage(b)'
          BY <3>1 DEF AdminStage, Idle
        <4> QED BY <4>1, <4>2, <4>3 DEF SaleInv
      <3> QED BY <3>3, <3>4
    <2> QED BY <1>4, <2>1, <2>2, <2>3, <2>4, <2>5 DEF Admin
  <1>5. ASSUME NEW h \in Handlers, SaveCompare(h) PROVE Goal
    <2> DEFINE diff == IF Gone THEN Fields \cup {"new"} ELSE {f \in Fields : work[h].mem[f] # row[f]}
               job == [doing |-> work[h].doing, step |-> "compared", mem |-> work[h].mem, diff |-> diff]
    <2>0. /\ work' = [work EXCEPT ![h] = job]
          /\ UNCHANGED <<row, cancel, approved, bypassed>>
      BY <1>5 DEF SaveCompare, history
    <2>1. ~bypassed /\ h \in Admins /\ work[h].doing = "review"
             => diff = Differs(work[h].mem, row)
      BY DEF Gone, SaleInv, AdminStage, Differs
    <2> HIDE DEF diff
    <2>2. \A t \in Tabs : work'[t].doing = work[t].doing /\
                             (work[t].doing \in Saving => work'[t].mem = work[t].mem)
      BY <2>0, <1>5, <1>t DEF SaveCompare
    <2>3. ~bypassed => \A t \in Tabs : TabStage(t)'
      <3> SUFFICES ASSUME ~bypassed, NEW t \in Tabs PROVE TabStage(t)'
        OBVIOUS
      <3>1. TabStage(t) /\ UNCHANGED <<row, approved>>
        BY <2>0 DEF SaleInv
      <3>2. /\ work'[t].doing = work[t].doing
            /\ work[t].doing \in {"edit", "submit", "minor edit"} => work'[t].mem = work[t].mem
        BY <2>2 DEF Saving
      <3> QED BY <3>1, <3>2 DEF TabStage
    <2>4. ~bypassed => \A a \in Admins : AdminStage(a)'
      BY <2>0, <2>1, <1>t DEF SaleInv, AdminStage
    <2> QED BY <2>0, <2>3, <2>4, <1>1 DEF SaleInv, OnSale
  <1>6. ASSUME NEW h \in Handlers, SaveWrite(h) PROVE Goal
    <2>0. /\ work[h].doing \in Saving /\ work[h].step = "compared"
          /\ work' = [work EXCEPT ![h] = Idle] /\ cancel' = cancel
          /\ bypassed' = (bypassed \/ work[h].doing = "route edit")
          /\ approved' = IF work[h].doing = "review" /\ work[h].mem.status = "UPCOMING"
                         THEN approved \cup {work[h].mem.core} ELSE approved
      BY <1>6 DEF SaveWrite
    <2>1. \A f \in Fields : row'[f] = IF f \in work[h].diff /\ (Gone => "new" \in work[h].diff)
                                    THEN work[h].mem[f] ELSE row[f]
      BY <1>6 DEF SaveWrite
    <2>2. /\ row'.status \in {row.status, work[h].mem.status}
          /\ row'.core \in {row.core, work[h].mem.core}
          /\ row'.fee \in {row.fee, work[h].mem.fee}
          /\ row'.deleted \in {row.deleted, work[h].mem.deleted}
      BY <2>1 DEF Fields
    <2>3. CASE bypassed'
      BY <2>3 DEF SaleInv
    <2>4. ASSUME ~bypassed', h \in Tabs PROVE Goal
      <3>1. ~bypassed /\ TabStage(h) /\ OnSale /\ \A a \in Admins : AdminStage(a)
        BY <2>0, <2>4, <1>t DEF SaleInv
      <3>2. /\ \A t \in Tabs : work'[t] = Idle
            /\ \A a \in Admins : work'[a] = work[a]
        BY <2>0, <2>4, <1>t DEF OneEach
      <3>3. work[h].doing \in {"edit", "submit", "minor edit", "review"}
        BY <2>0, <2>4 DEF Saving
      <3>4. CASE work[h].doing \in {"edit", "submit"}
        <4>1. row.status \in Editable /\ row'.status \in Editable \cup {"PENDING_REVIEW"} /\ approved' = approved
          BY <2>0, <2>2, <3>1, <3>4 DEF TabStage
        <4>2. \A a \in Admins : work[a].doing # "review"
          BY <3>1, <4>1 DEF AdminStage, Editable
        <4>3. OnSale' /\ Stays
          BY <2>0, <3>1, <4>1 DEF OnSale, Editable, Published
        <4>4. (\A t \in Tabs : TabStage(t)') /\ \A a \in Admins : AdminStage(a)'
          <5>1. ASSUME NEW a \in Admins PROVE AdminStage(a)'
            BY <3>1, <3>2, <4>2 DEF AdminStage
          <5> QED BY <3>2, <5>1, RestNext
        <4> QED BY <4>3, <4>4 DEF SaleInv
      <3>5. CASE work[h].doing = "minor edit"
        <4>1. /\ row.status \in Published /\ row'.status \in Published /\ approved' = approved
              /\ row'.core \in approved /\ row'.fee /\ ~row'.deleted
          BY <2>0, <2>2, <3>1, <3>5 DEF TabStage, OnSale, Published
        <4>2. \A a \in Admins : work[a].doing # "review"
          BY <3>1, <4>1 DEF AdminStage, Published
        <4>3. OnSale' /\ Stays
          BY <2>0, <3>1, <4>1 DEF OnSale
        <4>4. (\A t \in Tabs : TabStage(t)') /\ \A a \in Admins : AdminStage(a)'
          <5>1. ASSUME NEW a \in Admins PROVE AdminStage(a)'
            BY <3>1, <3>2, <4>2 DEF AdminStage
          <5> QED BY <3>2, <5>1, RestNext
        <4> QED BY <4>3, <4>4 DEF SaleInv
      <3>6. work[h].doing # "review"
        BY <3>1 DEF TabStage
      <3> QED BY <3>3, <3>4, <3>5, <3>6
    <2>5. ASSUME ~bypassed', h \in Admins PROVE Goal
      <3>1. ~bypassed /\ AdminStage(h) /\ OnSale /\ \A t \in Tabs : TabStage(t)
        BY <2>0, <2>5 DEF SaleInv
      <3>2. /\ \A a \in Admins : work'[a] = Idle
            /\ \A t \in Tabs : work'[t] = work[t]
        BY <2>0, <2>5, <1>t DEF OneEach
      <3>3. work[h].doing = "review"
        BY <2>0, <3>1 DEF Saving, AdminStage
      <3>4. /\ row.status = "PENDING_REVIEW" /\ ~row.deleted
            /\ work[h].mem.status \in {"UPCOMING", "NEEDS_REVISION", "REJECTED"}
            /\ work[h].mem.core = row.core /\ ~work[h].mem.deleted
            /\ work[h].mem.status = "UPCOMING" => work[h].mem.fee
            /\ work[h].diff = {f \in Fields : work[h].mem[f] # row[f]}
        BY <2>0, <3>1, <3>3 DEF AdminStage, Differs
      <3>5. row'.status = work[h].mem.status /\ row'.fee = work[h].mem.fee
        BY <2>1, <3>4 DEF Fields, Gone
      <3>6. OnSale' /\ Stays
        BY <2>0, <2>2, <3>1, <3>3, <3>4, <3>5 DEF OnSale, Published
      <3>7. \A t \in Tabs : work[t].doing \notin {"edit", "submit", "delete", "minor edit"}
        BY <3>1, <3>4 DEF TabStage, Editable, Published
      <3>8. (\A t \in Tabs : TabStage(t)') /\ \A a \in Admins : AdminStage(a)'
        <4>1. ASSUME NEW t \in Tabs PROVE TabStage(t)'
          BY <3>1, <3>2, <3>7 DEF TabStage
        <4> QED BY <3>2, <4>1, RestNext
      <3> QED BY <3>6, <3>8 DEF SaleInv
    <2> QED BY <2>3, <2>4, <2>5 DEF Handlers
  <1>7. ASSUME NEW h \in Handlers, Crash(h) PROVE Goal
    BY <1>7, <1>1, <1>t, SaleStays DEF Crash, history, Idle
  <1>8. CASE CancelRequest \/ CancelApprove
    BY <1>8, <1>1, SaleStays DEF CancelRequest, CancelApprove, history, Published
  <1>9. CASE MarkCancelled
    <2>0. /\ row'.status = "CANCELLED" /\ row'.core = row.core /\ row'.fee = row.fee
          /\ row'.deleted = row.deleted /\ cancel = "APPROVED" /\ UNCHANGED <<work, cancel, approved, bypassed>>
      BY <1>9, <1>t DEF MarkCancelled, history, Row
    <2>1. ~bypassed => row.status \in Published
      BY <2>0 DEF SaleInv, OnSale
    <2> QED BY <2>0, <2>1 DEF SaleInv, OnSale, TabStage, AdminStage, Editable, Published
  <1>10. CASE UNCHANGED vars
    BY <1>10, <1>1 DEF vars, history, SaleInv, OnSale, TabStage, AdminStage
  <1> QED BY <1>2, <1>3, <1>4, <1>5, <1>6, <1>7, <1>8, <1>9, <1>10 DEF Next

-----------------------------------------------------------------------------

\* Every variable has its type, and every handler remembers what its work needs.
THEOREM LifecycleTypeCorrect == Spec => []TypeInv
  BY LifecycleTypeInit, LifecycleTypeNext, PTL DEF Spec

\* An approved change request reaches the event unless its handler dies, for
\* any number of admins who decide at once.
THEOREM ChangesAreApplied == Spec => []ApprovedIsApplied
  <1> DEFINE AllApplied == \A r \in Requests : Applied(r)
  <1>1. Init => TypeInv /\ AllApplied
    BY LifecycleTypeInit DEF Init, Applied
  <1>2. TypeInv /\ AllApplied /\ [Next]_vars => TypeInv' /\ AllApplied'
    BY LifecycleTypeNext, AppliedNext
  <1>3. AllApplied => ApprovedIsApplied
    BY DEF Applied, Carries, ApprovedIsApplied
  <1> QED BY <1>1, <1>2, <1>3, PTL DEF Spec

LEMMA SaleInit == Init => SaleInv
  <1> SUFFICES ASSUME Init PROVE OnSale /\ (\A t \in Tabs : TabStage(t)) /\ \A a \in Admins : AdminStage(a)
    BY DEF SaleInv
  <1>1. OnSale
    BY DEF Init, OnSale, Published
  <1>2. \A h \in Handlers : work[h] = Idle
    BY DEF Init
  <1> QED BY <1>1, <1>2, TabRests, AdminRests DEF Handlers

\* With one tab and one admin, what is on sale is what was approved.
THEOREM OnSaleIsApproved == ASSUME OneEach PROVE Spec => []PublishedIsApproved
  <1>1. Init => TypeInv /\ SaleInv
    BY LifecycleTypeInit, SaleInit
  <1>2. TypeInv /\ SaleInv /\ [Next]_vars => TypeInv' /\ SaleInv'
    BY LifecycleTypeNext, SaleNext
  <1>3. SaleInv => PublishedIsApproved
    BY DEF SaleInv, OnSale, PublishedIsApproved
  <1> QED BY <1>1, <1>2, <1>3, PTL DEF Spec

\* And it does not go back to where it can be edited.
THEOREM OnSaleStays == ASSUME OneEach PROVE Spec => PublishedStaysPublished
  <1>1. Init => TypeInv /\ SaleInv
    BY LifecycleTypeInit, SaleInit
  <1>2. TypeInv /\ SaleInv /\ [Next]_vars => TypeInv' /\ SaleInv'
    BY LifecycleTypeNext, SaleNext
  <1>3. TypeInv /\ SaleInv /\ [Next]_vars
          => [row.status \in Published /\ ~bypassed'
                => row'.status \in Published /\ ~row'.deleted]_vars
    BY SaleNext
  <1> QED BY <1>1, <1>2, <1>3, PTL DEF Spec, PublishedStaysPublished

-----------------------------------------------------------------------------
(* The catalogue of an event.                                              *)

\* What a request may remember.
Plan == {NoPlan} \cup [op: {"checked"}, show: Shows, zones: SUBSET Articles]
                 \cup [op: {"found"}, show: Shows, zones: SUBSET Articles, id: Nat]

\* Sessions and ticket types hang on events that exist.
OfCreated ==
    /\ \A s \in Sessions : sessionOf[s] \subseteq created
    /\ \A a \in Articles : articleOf[a] \cap Shows \subseteq created

\* What a request has checked holds until it saves.
PlansOffered == \A p \in Planners : plan[p] # NoPlan => plan[p].zones \subseteq Offers(plan[p].show)

CatalogueInv ==
    /\ CatalogueTypeOK /\ plan \in [Planners -> Plan]
    /\ OfCreated /\ PlansOffered /\ RootOrSessions /\ ZonesOffered

-----------------------------------------------------------------------------

\* An event that did not exist offered nothing.
LEMMA NewIsBare ==
  ASSUME CatalogueInv, NEW e \in Shows, e \notin created
  PROVE  SessionsOf(e) = {} /\ RootArticles(e) = {}
  BY DEF CatalogueInv, OfCreated, SessionsOf, RootArticles

\* Ticket types and sessions stay where they are.
OffersStay == 
    /\ \A s \in Sessions : sessionOf[s] # {} => sessionOf'[s] = sessionOf[s]
    /\ \A a \in Articles : articleOf[a] # {} => articleOf'[a] = articleOf[a]

LEMMA OffersGrow ==
  ASSUME CatalogueInv, OffersStay, NEW e \in Shows
  PROVE  Offers(e) \subseteq Offers(e)'
  <1>1. SessionsOf(e) \subseteq SessionsOf(e)'
    BY DEF OffersStay, SessionsOf
  <1>2. RootArticles(e) \subseteq RootArticles(e)'
    BY DEF OffersStay, RootArticles
  <1>3. SessionArticles(e) \subseteq SessionArticles(e)'
    BY <1>1 DEF OffersStay, SessionArticles
  <1> QED BY <1>2, <1>3 DEF Offers

LEMMA CatalogueStart == CatalogueInit => CatalogueInv
  <1> SUFFICES ASSUME CatalogueInit PROVE CatalogueInv
    OBVIOUS
  <1>1. CatalogueTypeOK /\ plan \in [Planners -> Plan]
    BY DEF CatalogueInit, CatalogueTypeOK, Plan, NoMap
  <1>2. OfCreated /\ PlansOffered
    BY DEF CatalogueInit, OfCreated, PlansOffered
  <1>3. RootOrSessions /\ ZonesOffered
    BY DEF CatalogueInit, NoMap, RootOrSessions, ZonesOffered, SessionsOf, RootArticles
  <1> QED BY <1>1, <1>2, <1>3 DEF CatalogueInv

\* A request that did not change its plan, or the map of an event, relies on
\* what is offered still.
LEMMA ZonesStay ==
  ASSUME CatalogueInv, OffersStay, UNCHANGED <<seatMap, plan>>
  PROVE  ZonesOffered' /\ PlansOffered'
  <1>1. ASSUME NEW e \in Shows PROVE seatMap'[e].zones \subseteq Offers(e)'
    BY OffersGrow DEF CatalogueInv, ZonesOffered
  <1>2. ASSUME NEW p \in Planners, plan'[p] # NoPlan
        PROVE  plan'[p].zones \subseteq Offers(plan[p].show)'
    <2>1. plan[p].show \in Shows
      BY <1>2 DEF CatalogueInv, Plan
    <2> QED BY <1>2, <2>1, OffersGrow DEF CatalogueInv, PlansOffered
  <1>3. ZonesOffered'
    BY <1>1 DEF ZonesOffered
  <1>4. PlansOffered'
    BY <1>2 DEF PlansOffered, Offers, RootArticles, SessionArticles, SessionsOf
  <1> QED BY <1>3, <1>4

LEMMA CatalogueStepOK == CatalogueInv /\ [CatalogueNext]_catalogueVars => CatalogueInv'
  <1> SUFFICES ASSUME CatalogueInv, [CatalogueNext]_catalogueVars PROVE CatalogueInv'
    OBVIOUS
  <1>t. CatalogueTypeOK /\ plan \in [Planners -> Plan] /\ Shows \cap Sessions = {}
    BY CatalogueAssumption DEF CatalogueInv
  <1>i. OfCreated /\ PlansOffered /\ RootOrSessions /\ ZonesOffered
    BY DEF CatalogueInv
  <1>1. ASSUME NEW e \in Shows, NEW ss \in SUBSET Sessions, CreateWithSessions(e, ss)
        PROVE  CatalogueInv'
    <2> USE <1>1 DEF CreateWithSessions
    <2>1. CatalogueTypeOK' /\ (plan \in [Planners -> Plan])'
      BY <1>t DEF CatalogueTypeOK
    <2>2. OffersStay
      BY <1>t DEF OffersStay, New, CatalogueTypeOK
    <2>3. OfCreated'
      BY <1>t, <1>i DEF OfCreated, CatalogueTypeOK
    <2>4. RootOrSessions'
      <3>1. \A d \in Shows : RootArticles(d)' = RootArticles(d)
        BY DEF RootArticles
      <3>2. \A d \in Shows \ {e} : SessionsOf(d)' = SessionsOf(d)
        BY <1>t DEF SessionsOf, New, CatalogueTypeOK
      <3> QED BY <3>1, <3>2, <1>i, NewIsBare DEF RootOrSessions
    <2> QED BY <2>1, <2>2, <2>3, <2>4, ZonesStay DEF CatalogueInv
  <1>2. ASSUME NEW e \in Shows, NEW as \in SUBSET Articles, CreateWithArticles(e, as)
        PROVE  CatalogueInv'
    <2> USE <1>2 DEF CreateWithArticles
    <2>1. CatalogueTypeOK' /\ (plan \in [Planners -> Plan])'
      BY <1>t DEF CatalogueTypeOK
    <2>2. OffersStay
      BY <1>t DEF OffersStay, New, CatalogueTypeOK
    <2>3. OfCreated'
      BY <1>t, <1>i DEF OfCreated, CatalogueTypeOK
    <2>4. RootOrSessions'
      <3>1. \A d \in Shows : SessionsOf(d)' = SessionsOf(d)
        BY DEF SessionsOf
      <3>2. ASSUME NEW d \in Shows \ {e} PROVE RootArticles(d)' = RootArticles(d)
        <4>1. \A a \in Articles : articleOf'[a] = {d} <=> articleOf[a] = {d}
          BY DEF New
        <4> QED BY <4>1 DEF RootArticles
      <3> QED BY <3>1, <3>2, <1>i, NewIsBare DEF RootOrSessions
    <2> QED BY <2>1, <2>2, <2>3, <2>4, ZonesStay DEF CatalogueInv
  <1>3. ASSUME NEW e \in Shows, NEW a \in Articles, AddToEvent(e, a) PROVE CatalogueInv'
    <2> USE <1>3 DEF AddToEvent
    <2>1. CatalogueTypeOK' /\ (plan \in [Planners -> Plan])'
      BY <1>t DEF CatalogueTypeOK
    <2>2. OffersStay
      BY <1>t DEF OffersStay, CatalogueTypeOK
    <2>3. OfCreated'
      BY <1>t, <1>i DEF OfCreated, CatalogueTypeOK
    <2>4. RootOrSessions'
      <3>1. \A d \in Shows : SessionsOf(d)' = SessionsOf(d)
        BY DEF SessionsOf
      <3>2. \A d \in Shows \ {e} : RootArticles(d)' = RootArticles(d)
        BY <1>t DEF RootArticles, CatalogueTypeOK
      <3> QED BY <3>1, <3>2, <1>i DEF RootOrSessions
    <2> QED BY <2>1, <2>2, <2>3, <2>4, ZonesStay DEF CatalogueInv
  <1>4. ASSUME NEW s \in Sessions, NEW a \in Articles, AddToSession(s, a) PROVE CatalogueInv'
    <2> USE <1>4 DEF AddToSession
    <2>1. CatalogueTypeOK' /\ (plan \in [Planners -> Plan])'
      BY <1>t DEF CatalogueTypeOK
    <2>2. OffersStay
      BY <1>t DEF OffersStay, CatalogueTypeOK
    <2>3. OfCreated'
      BY <1>t, <1>i DEF OfCreated, CatalogueTypeOK
    <2>4. RootOrSessions'
      <3>1. \A d \in Shows : SessionsOf(d)' = SessionsOf(d)
        BY DEF SessionsOf
      <3>2. \A d \in Shows : RootArticles(d)' = RootArticles(d)
        BY <1>t DEF RootArticles, CatalogueTypeOK
      <3> QED BY <3>1, <3>2, <1>i DEF RootOrSessions
    <2> QED BY <2>1, <2>2, <2>3, <2>4, ZonesStay DEF CatalogueInv
  <1>5. ASSUME UNCHANGED <<created, sessionOf, articleOf>>, ZonesOffered', PlansOffered',
               CatalogueTypeOK', (plan \in [Planners -> Plan])'
        PROVE  CatalogueInv'
    BY <1>5, <1>i DEF CatalogueInv, OfCreated, RootOrSessions, RootArticles, SessionsOf
  <1>6. ASSUME UNCHANGED <<created, sessionOf, articleOf>>, NEW e \in Shows
        PROVE  Offers(e)' = Offers(e)
    BY <1>6 DEF Offers, RootArticles, SessionArticles, SessionsOf
  <1>7. ASSUME NEW e \in Shows, NEW p \in Planners, NEW zones \in SUBSET Articles,
               PlanCheck(p, e, zones)
        PROVE  CatalogueInv'
    <2>0. /\ UNCHANGED <<created, sessionOf, articleOf, seatMap, rows>>
          /\ plan' = [plan EXCEPT ![p] = [op |-> "checked", show |-> e, zones |-> zones]]
          /\ zones \subseteq Offers(e)
      BY <1>7 DEF PlanCheck
    <2>1. CatalogueTypeOK' /\ (plan \in [Planners -> Plan])'
      BY <2>0, <1>t DEF CatalogueTypeOK, Plan
    <2>2. PlansOffered'
      BY <2>0, <1>t, <1>i
      DEF PlansOffered, Offers, RootArticles, SessionArticles, SessionsOf
    <2>3. ZonesOffered'
      BY <2>0, <1>6, <1>i DEF ZonesOffered
    <2> QED BY <1>5, <2>0, <2>1, <2>2, <2>3
  <1>8. ASSUME NEW p \in Planners, PlanFind(p) PROVE CatalogueInv'
    <2>0. /\ UNCHANGED <<created, sessionOf, articleOf, seatMap, rows>>
          /\ plan[p].op = "checked"
          /\ plan' = [plan EXCEPT ![p] = [op |-> "found", show |-> @.show, zones |-> @.zones,
                                          id |-> seatMap[@.show].id]]
      BY <1>8 DEF PlanFind
    <2>a. plan[p].show \in Shows /\ plan[p].zones \in SUBSET Articles /\ plan[p] # NoPlan
      BY <2>0, <1>t DEF Plan, NoPlan
    <2>1. CatalogueTypeOK' /\ (plan \in [Planners -> Plan])'
      BY <2>0, <2>a, <1>t DEF CatalogueTypeOK, Plan
    <2>2. PlansOffered'
      BY <2>0, <2>a, <1>t, <1>i
      DEF PlansOffered, Offers, RootArticles, SessionArticles, SessionsOf
    <2>3. ZonesOffered'
      BY <2>0, <1>6, <1>i DEF ZonesOffered
    <2> QED BY <1>5, <2>0, <2>1, <2>2, <2>3
  <1>9. ASSUME NEW p \in Planners, PlanSave(p) PROVE CatalogueInv'
    <2> DEFINE e == plan[p].show
               new == plan[p].id = 0
    <2>0. /\ UNCHANGED <<created, sessionOf, articleOf>>
          /\ plan[p].op = "found" /\ plan' = [plan EXCEPT ![p] = NoPlan]
          /\ IF seatMap[e].id = plan[p].id
             THEN /\ rows' = IF new THEN rows + 1 ELSE rows
                  /\ seatMap' = [seatMap EXCEPT ![e] = [id |-> IF new THEN rows + 1 ELSE @.id,
                                                        zones |-> plan[p].zones]]
             ELSE UNCHANGED <<seatMap, rows>>
      BY <1>9 DEF PlanSave
    <2>a. e \in Shows /\ plan[p].zones \in SUBSET Articles /\ plan[p] # NoPlan
      BY <2>0, <1>t DEF Plan, NoPlan
    <2>b. plan[p].zones \subseteq Offers(e)
      BY <2>a, <1>i DEF PlansOffered
    <2> HIDE DEF e, new
    <2>c. (plan \in [Planners -> Plan])'
      BY <2>0, <1>t DEF Plan
    <2>d. rows' \in Nat /\ seatMap' \in [Shows -> [id: Nat, zones: SUBSET Articles]]
      BY <2>0, <2>a, <1>t DEF CatalogueTypeOK
    <2>1. CatalogueTypeOK' /\ (plan \in [Planners -> Plan])'
      BY <2>0, <2>c, <2>d, <1>t DEF CatalogueTypeOK, Plan
    <2>2. PlansOffered'
      BY <2>0, <1>t, <1>i
      DEF PlansOffered, Offers, RootArticles, SessionArticles, SessionsOf
    <2>3. \A d \in Shows : seatMap'[d].zones = seatMap[d].zones
                              \/ (d = e /\ seatMap'[d].zones = plan[p].zones)
      BY <2>0, <2>a, <1>t DEF CatalogueTypeOK
    <2>4. ZonesOffered'
      BY <2>0, <2>b, <2>3, <1>6, <1>i DEF ZonesOffered
    <2> QED BY <1>5, <2>0, <2>1, <2>2, <2>4
  <1>10. ASSUME NEW e \in Shows, PlanDelete(e) PROVE CatalogueInv'
    <2>0. /\ UNCHANGED <<created, sessionOf, articleOf, rows, plan>>
          /\ seatMap' = [seatMap EXCEPT ![e] = NoMap]
      BY <1>10 DEF PlanDelete
    <2>1. CatalogueTypeOK' /\ (plan \in [Planners -> Plan])'
      BY <2>0, <1>t DEF CatalogueTypeOK, NoMap
    <2>2. PlansOffered'
      BY <2>0, <1>i DEF PlansOffered, Offers, RootArticles, SessionArticles, SessionsOf
    <2>3. \A d \in Shows : seatMap'[d].zones \subseteq seatMap[d].zones
      BY <2>0, <1>t DEF CatalogueTypeOK, NoMap
    <2>4. ZonesOffered'
      BY <2>0, <2>3, <1>6, <1>i DEF ZonesOffered
    <2> QED BY <1>5, <2>0, <2>1, <2>2, <2>4
  <1>11. CASE UNCHANGED catalogueVars
    BY <1>11, <1>t, <1>i
    DEF catalogueVars, CatalogueInv, CatalogueTypeOK, OfCreated, PlansOffered, RootOrSessions,
        ZonesOffered, Offers, RootArticles, SessionArticles, SessionsOf
  <1> QED BY <1>1, <1>2, <1>3, <1>4, <1>7, <1>8, <1>9, <1>10, <1>11 DEF CatalogueNext

-----------------------------------------------------------------------------

\* The invariant, and with it that every variable has its type.
THEOREM CatalogueInductive == CatalogueSpec => []CatalogueInv
  BY CatalogueStart, CatalogueStepOK, PTL DEF CatalogueSpec

\* No event has both ticket types of its own and sessions.
THEOREM NeverBoth == CatalogueSpec => []RootOrSessions
  <1>1. CatalogueInv => RootOrSessions
    BY DEF CatalogueInv
  <1> QED BY <1>1, CatalogueInductive, PTL

\* No seat map has a zone with a ticket type of another event.
THEOREM MapsOfOwnTypes == CatalogueSpec => []ZonesOffered
  <1>1. CatalogueInv => ZonesOffered
    BY DEF CatalogueInv
  <1> QED BY <1>1, CatalogueInductive, PTL
=============================================================================
