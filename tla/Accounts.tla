------------------------------ MODULE Accounts ------------------------------
(***************************************************************************)
(* Who is what: applications to become an organizer and their review       *)
(* (OrganizersService, AdminService), invitations of collaborators         *)
(* (CollaboratorsService) and the role that each of them writes into the   *)
(* row of the user.                                                        *)
(*                                                                         *)
(* A handler reads rows, waits, and saves what it remembers.  save() finds *)
(* the row again, and then updates the columns that differ from it, or     *)
(* inserts it.  Of a user and of a collaboration one column matters, and   *)
(* their save is one step: the second one if there is something to write,  *)
(* the first one otherwise.  A transaction is a step when it reads nothing *)
(* it could write back stale.                                              *)
(***************************************************************************)
EXTENDS Naturals, FiniteSets

CONSTANTS
    People,        \* users who may apply, be invited, be removed
    Hosts,         \* profiles of organizers who invite
    Docs,          \* identity documents
    AccountCalls,  \* handlers that may be under way at once
    MaxRequests,   \* bound: requests made
    AccountFaults  \* bound: handlers that die

ASSUME AccountsAssumption ==
    /\ MaxRequests \in Nat /\ AccountFaults \in Nat

VARIABLES
    role,     \* users.role
    profile,  \* organizers row of the user; id 0: there is none
    made,     \* profiles created so far
    host,     \* whether the profile of the host is still there
    collab,   \* collaborators row of host and user
    job,      \* what each handler does, and what it remembers
    seen,     \* history: documents a reviewer who approved had read
    crossed,  \* history: two saves of the profile had both found the row
              \* before either wrote it
    asked,    \* requests made
    died      \* handlers that died

accountVars == <<role, profile, made, host, collab, job, seen, crossed, asked, died>>

-----------------------------------------------------------------------------
(* Types.  Administrators keep their role and are left out.  An           *)
(* application that has to be revised may be submitted again, as a         *)
(* rejected one may: "REJECTED" stands for both.                           *)

\* "none": there is no such user.
Roles == {"none", "USER", "COLLABORATOR", "ORGANIZER"}
Kyc == {"PENDING", "APPROVED", "REJECTED"}
Decisions == Kyc \ {"PENDING"}
Profile == [id: Nat, kyc: Kyc, docs: SUBSET Docs]
NoProfile == [id |-> 0, kyc |-> "PENDING", docs |-> {}]
Collaboration == {"none", "active", "inactive"}

Rest == [op |-> "rest"]
Writing == {"update profile", "insert profile"}
SavingProfile == {"save profile"} \cup Writing

AccountsTypeOK ==
    /\ role \in [People -> Roles]
    /\ profile \in [People -> Profile]
    /\ made \in [People -> Nat]
    /\ host \in [Hosts -> BOOLEAN]
    /\ collab \in [Hosts -> [People -> Collaboration]]
    /\ seen \in [People -> SUBSET SUBSET Docs] /\ crossed \in [People -> BOOLEAN]
    /\ asked \in Nat /\ died \in Nat
    /\ \A c \in AccountCalls :
          job[c] = Rest \/ (job[c].who \in People
                              /\ (job[c].op \in SavingProfile => job[c].mem \in Profile))

AccountsInit ==
    /\ role = [p \in People |-> "none"]
    /\ profile = [p \in People |-> NoProfile]
    /\ made = [p \in People |-> 0]
    /\ host = [h \in Hosts |-> TRUE]
    /\ collab = [h \in Hosts |-> [p \in People |-> "none"]]
    /\ job = [c \in AccountCalls |-> Rest]
    /\ seen = [p \in People |-> {}] /\ crossed = [p \in People |-> FALSE]
    /\ asked = 0 /\ died = 0

Asks == asked < MaxRequests /\ asked' = asked + 1
Starts(c, j) == Asks /\ job[c] = Rest /\ job' = [job EXCEPT ![c] = j]
Goes(c, from, j) == job[c].op = from /\ job' = [job EXCEPT ![c] = j] /\ UNCHANGED asked
Who(c) == job[c].who

-----------------------------------------------------------------------------
(* Registering                                                             *)

\* register, and the first login by Google: nobody has the address ...
Register(c, p) ==
    /\ role[p] = "none"
    /\ Starts(c, [op |-> "register", who |-> p])
    /\ UNCHANGED <<role, profile, made, host, collab, seen, crossed, died>>

\* ... and the insert, which the unique index refuses if somebody has by now.
Registered(c) ==
    /\ Goes(c, "register", Rest)
    /\ role' = IF role[Who(c)] = "none" THEN [role EXCEPT ![Who(c)] = "USER"] ELSE role
    /\ UNCHANGED <<profile, made, host, collab, seen, crossed, died>>

-----------------------------------------------------------------------------
(* Applying and reviewing                                                  *)

\* submitKyc: nobody who is an organizer or whose application is decided upon.
SubmitKyc(c, p, d) ==
    /\ role[p] \in {"USER", "COLLABORATOR"}
    /\ profile[p].id # 0 => profile[p].kyc = "REJECTED"
    /\ Starts(c, [op |-> "save profile", who |-> p, linked |-> profile[p].id = 0,
                  mem |-> [id |-> profile[p].id, kyc |-> "PENDING", docs |-> {d}],
                  cols |-> {}, promote |-> FALSE])
    /\ UNCHANGED <<role, profile, made, host, collab, seen, crossed, died>>

\* OrganizersService.update: name and description.
Rename(c, p) ==
    /\ profile[p].id # 0
    /\ Starts(c, [op |-> "save profile", who |-> p, linked |-> FALSE, mem |-> profile[p],
                  cols |-> {}, promote |-> FALSE])
    /\ UNCHANGED <<role, profile, made, host, collab, seen, crossed, died>>

\* reviewKycApplication: any decision on a profile in any state.
ReviewKyc(c, p, d) ==
    /\ profile[p].id # 0
    /\ Starts(c, [op |-> "save profile", who |-> p, linked |-> TRUE,
                  mem |-> [profile[p] EXCEPT !.kyc = d], cols |-> {}, promote |-> d = "APPROVED"])
    /\ seen' = IF d = "APPROVED" THEN [seen EXCEPT ![p] = @ \cup {profile[p].docs}] ELSE seen
    /\ UNCHANGED <<role, profile, made, host, collab, crossed, died>>

\* The save of these three finds the row, and what differs from it ...
Differ(row, m) == {col \in {"kyc", "docs"} : row[col] # m[col]}

Crosses(p) == \E c \in AccountCalls : job[c].op \in Writing /\ job[c].who = p

\* Mutant: of a row that is there, a review updates the state alone.
ProfileFoundState(c) ==
    LET j == job[c]
        row == profile[j.who]
    IN  /\ Goes(c, "save profile",
                [j EXCEPT !.op = IF j.mem.id = 0 \/ row.id # j.mem.id THEN "insert profile"
                                 ELSE "update profile",
                          !.cols = IF j.promote THEN {"kyc"} ELSE Differ(row, j.mem)])
        /\ crossed' = [crossed EXCEPT ![j.who] = @ \/ Crosses(j.who)]
        /\ UNCHANGED <<role, profile, made, host, collab, seen, died>>

ProfileFound(c) ==
    LET j == job[c]
        row == profile[j.who]
    IN  /\ Goes(c, "save profile",
                [j EXCEPT !.op = IF j.mem.id = 0 \/ row.id # j.mem.id THEN "insert profile"
                                 ELSE "update profile",
                          !.cols = Differ(row, j.mem)])
        /\ crossed' = [crossed EXCEPT ![j.who] = @ \/ Crosses(j.who)]
        /\ UNCHANGED <<role, profile, made, host, collab, seen, died>>

\* An approval goes on with the user.
Then(c) == IF job[c].promote THEN [op |-> "promote", who |-> Who(c)] ELSE Rest

\* ... and updates these columns, of the row if it is still there, ...
ProfileUpdated(c) ==
    LET j == job[c]
        row == profile[j.who]
    IN  /\ Goes(c, "update profile", Then(c))
        /\ profile' = IF row.id = j.mem.id
                      THEN [profile EXCEPT
                              ![j.who].kyc = IF "kyc" \in j.cols THEN j.mem.kyc ELSE @,
                              ![j.who].docs = IF "docs" \in j.cols THEN j.mem.docs ELSE @]
                      ELSE profile
        /\ UNCHANGED <<role, made, host, collab, seen, crossed, died>>

\* ... or inserts the row, for this user if the entity names the user (linked),
\* and for nobody otherwise: ids and users are unique.
Refused(c) ==
    LET j == job[c] IN profile[j.who].id # 0 /\ (j.linked \/ profile[j.who].id = j.mem.id)

ProfileInserted(c) ==
    LET j == job[c]
        id == IF j.mem.id = 0 THEN made[j.who] + 1 ELSE j.mem.id
    IN  /\ Goes(c, "insert profile", Then(c))
        /\ ~Refused(c)
        /\ made' = IF j.mem.id = 0 THEN [made EXCEPT ![j.who] = id] ELSE made
        /\ profile' = IF j.linked THEN [profile EXCEPT ![j.who] = [j.mem EXCEPT !.id = id]]
                      ELSE profile
        /\ UNCHANGED <<role, host, collab, seen, crossed, died>>

ProfileRefused(c) ==
    /\ Goes(c, "insert profile", Rest)
    /\ Refused(c)
    /\ UNCHANGED <<role, profile, made, host, collab, seen, crossed, died>>

\* An approval then saves the user.
Promote(c) ==
    /\ Goes(c, "promote", Rest)
    /\ role' = [role EXCEPT ![Who(c)] = "ORGANIZER"]
    /\ UNCHANGED <<profile, made, host, collab, seen, crossed, died>>

\* createAndAssignRole, one transaction: a profile that nobody has reviewed.
CreateOrganizer(p) ==
    /\ Asks
    /\ role[p] \in {"USER", "COLLABORATOR"}
    /\ profile[p].id = 0
    /\ profile' = [profile EXCEPT ![p] = [NoProfile EXCEPT !.id = made[p] + 1]]
    /\ made' = [made EXCEPT ![p] = @ + 1]
    /\ role' = [role EXCEPT ![p] = "ORGANIZER"]
    /\ UNCHANGED <<host, collab, job, seen, crossed, died>>

\* OrganizersService.remove, one transaction; collaborators go with the host.
RemoveOrganizer(p) ==
    /\ Asks
    /\ profile[p].id # 0
    /\ profile' = [profile EXCEPT ![p] = NoProfile]
    /\ role' = [role EXCEPT ![p] = "USER"]
    /\ UNCHANGED <<made, host, collab, job, seen, crossed, died>>

RemoveHost(h) ==
    /\ Asks
    /\ host[h]
    /\ host' = [host EXCEPT ![h] = FALSE]
    /\ collab' = [collab EXCEPT ![h] = [p \in People |-> "none"]]
    /\ UNCHANGED <<role, profile, made, job, seen, crossed, died>>

\* updateUserStatus and updateUserProfile save the row of the user they read.
UserRead(c, p) ==
    /\ role[p] # "none"
    /\ Starts(c, [op |-> "save user", who |-> p, role |-> role[p]])
    /\ UNCHANGED <<role, profile, made, host, collab, seen, crossed, died>>

UserSaved(c) ==
    /\ Goes(c, "save user", Rest)
    /\ role' = [role EXCEPT ![Who(c)] = job[c].role]
    /\ UNCHANGED <<profile, made, host, collab, seen, crossed, died>>

-----------------------------------------------------------------------------
(* Collaborators                                                           *)

\* inviteCollaborator reads the user, if there is one ...
Invite(c, h, p) ==
    /\ host[h]
    /\ role[p] # "ORGANIZER"
    /\ Starts(c, [op |-> "invite", who |-> p, host |-> h, found |-> role[p]])
    /\ UNCHANGED <<role, profile, made, host, collab, seen, crossed, died>>

\* The transaction commits unless the profile of the host has been removed, or
\* the user it is about to insert has registered.
Commits(c) ==
    /\ host[job[c].host]
    /\ job[c].found = "none" => role[Who(c)] = "none"

\* ... and commits user, role and collaboration together.
Invited(c) ==
    /\ job[c].op = "invite" /\ Commits(c)
    /\ role' = IF job[c].found = "COLLABORATOR" THEN role
               ELSE [role EXCEPT ![Who(c)] = "COLLABORATOR"]
    /\ collab' = [collab EXCEPT ![job[c].host][Who(c)] = "active"]
    /\ Goes(c, "invite", Rest)
    /\ UNCHANGED <<profile, made, host, seen, crossed, died>>

InviteFails(c) ==
    /\ job[c].op = "invite" /\ ~Commits(c)
    /\ Goes(c, "invite", Rest)
    /\ UNCHANGED <<role, profile, made, host, collab, seen, crossed, died>>

\* removeCollaborator
RemoveCollaborator(c, h, p) ==
    /\ collab[h][p] # "none"
    /\ Starts(c, [op |-> "count", who |-> p, host |-> h, to |-> "none"])
    /\ collab' = [collab EXCEPT ![h][p] = "none"]
    /\ UNCHANGED <<role, profile, made, host, seen, crossed, died>>

\* updateCollaborator: a deactivation counts first and is saved afterwards.
UpdateCollaborator(c, h, p, to) ==
    /\ collab[h][p] # "none"
    /\ Starts(c, [op |-> IF to = "inactive" THEN "count" ELSE "save collaborator",
                  who |-> p, host |-> h, to |-> to])
    /\ UNCHANGED <<role, profile, made, host, collab, seen, crossed, died>>

Active(p) == \E h \in Hosts : collab[h][p] = "active"

\* revokeRoleIfNoActiveCollaboration: count, ...
After(c) == IF job[c].to = "none" THEN Rest ELSE [job[c] EXCEPT !.op = "save collaborator"]

\* Mutant: collaborations that are switched off count, too.
CountAny(c) ==
    /\ Goes(c, "count", IF \E h \in Hosts : collab[h][Who(c)] # "none" THEN After(c)
                        ELSE [job[c] EXCEPT !.op = "revoke"])
    /\ UNCHANGED <<role, profile, made, host, collab, seen, crossed, died>>

Count(c) ==
    /\ Goes(c, "count", IF Active(Who(c)) THEN After(c) ELSE [job[c] EXCEPT !.op = "revoke"])
    /\ UNCHANGED <<role, profile, made, host, collab, seen, crossed, died>>

\* ... and, if there is none, an UPDATE of the role, whatever it is by now.
Revoke(c) ==
    /\ Goes(c, "revoke", After(c))
    /\ role' = [role EXCEPT ![Who(c)] = "USER"]
    /\ UNCHANGED <<profile, made, host, collab, seen, crossed, died>>

\* save() inserts a row again that was removed in the meantime.
CollaboratorSaved(c) ==
    /\ job[c].op = "save collaborator" /\ host[job[c].host]
    /\ collab' = [collab EXCEPT ![job[c].host][Who(c)] = job[c].to]
    /\ Goes(c, "save collaborator", Rest)
    /\ UNCHANGED <<role, profile, made, host, seen, crossed, died>>

\* The profile of the host has been removed: the foreign key refuses.
HostGone(c) ==
    /\ job[c].op = "save collaborator" /\ ~host[job[c].host]
    /\ Goes(c, "save collaborator", Rest)
    /\ UNCHANGED <<role, profile, made, host, collab, seen, crossed, died>>

HandlerDies(c) ==
    /\ died < AccountFaults /\ died' = died + 1
    /\ job[c] # Rest
    /\ job' = [job EXCEPT ![c] = Rest]
    /\ UNCHANGED <<role, profile, made, host, collab, seen, crossed, asked>>

-----------------------------------------------------------------------------

AccountRequest(c, p) ==
    \/ \E d \in Docs : SubmitKyc(c, p, d)
    \/ \E d \in Decisions : ReviewKyc(c, p, d)
    \/ Register(c, p)
    \/ Rename(c, p)
    \/ UserRead(c, p)
    \/ \E h \in Hosts :
          \/ Invite(c, h, p)
          \/ RemoveCollaborator(c, h, p)
          \/ \E to \in {"active", "inactive"} : UpdateCollaborator(c, h, p, to)

AccountStep(c) ==
    \/ Registered(c)
    \/ ProfileFound(c)
    \/ ProfileUpdated(c)
    \/ ProfileInserted(c)
    \/ ProfileRefused(c)
    \/ Promote(c)
    \/ UserSaved(c)
    \/ Invited(c)
    \/ InviteFails(c)
    \/ Count(c)
    \/ Revoke(c)
    \/ CollaboratorSaved(c)
    \/ HostGone(c)

AccountsNext ==
    \/ \E p \in People :
          \/ CreateOrganizer(p)
          \/ RemoveOrganizer(p)
          \/ \E c \in AccountCalls : AccountRequest(c, p)
    \/ \E h \in Hosts : RemoveHost(h)
    \/ \E c \in AccountCalls : AccountStep(c) \/ HandlerDies(c)

AccountsSpec == AccountsInit /\ [][AccountsNext]_accountVars

\* A handler that has begun goes on to its end.
AccountsFairness == \A c \in AccountCalls : WF_accountVars(AccountStep(c))

-----------------------------------------------------------------------------
(* Properties *)

\* Nobody is shown as approved with documents that no approving reviewer has
\* read, although reviews look at no state, and run over resubmissions and edits
\* of the name, unless two saves of the profile wrote after both had found it.
ApprovedDocsSeen ==
    \A p \in People :
        profile[p].kyc = "APPROVED" => profile[p].docs \in seen[p] \/ crossed[p]

\* A user whose last collaboration is being removed loses the role, or is
\* invited or activated again in the meantime.
RevokeFollowsRemoval ==
    \A p \in People :
        (\E c \in AccountCalls :
            job[c].op = "count" /\ job[c].who = p /\ job[c].to = "none" /\ ~Active(p))
          ~> (role[p] # "COLLABORATOR" \/ Active(p) \/ died > 0)

\* What the revocation says of itself: it lowers a COLLABORATOR to USER, so
\* the user it changes is not an organizer.
RevokesOnlyCollaborators ==
    [][\A c \in AccountCalls : Revoke(c) => role[Who(c)] # "ORGANIZER"]_accountVars

=============================================================================
