--------------------------- MODULE AccountsProofs ---------------------------
(***************************************************************************)
(* What holds of Accounts for all people, hosts, documents, any number of  *)
(* overlapping requests and of handlers that die.                          *)
(***************************************************************************)
EXTENDS Accounts, TLAPS

\* What a handler may be doing, and what it remembers.
SaveJob == [op: SavingProfile, who: People, linked: BOOLEAN, mem: Profile,
            cols: SUBSET {"kyc", "docs"}, promote: BOOLEAN]
UserJob == [op: {"save user"}, who: People, role: Roles]
InviteJob == [op: {"invite"}, who: People, host: Hosts, found: Roles]
TeamJob == [op: {"count", "revoke", "save collaborator"}, who: People, host: Hosts,
            to: Collaboration]
AccountJob ==
    {Rest} \cup [op: {"register", "promote"}, who: People]
           \cup SaveJob \cup UserJob \cup InviteJob \cup TeamJob

\* Profiles that are there, or remembered, have been made.
Ids == \A p \in People : profile[p].id <= made[p]

\* What is about to be saved as approved has been read by who approved it.  An
\* update that nobody crosses makes the row what it remembers, if the row is
\* still there: what it leaves out is so already.
Fits(c) ==
    /\ job[c].op \in SavingProfile =>
          /\ job[c].mem.id <= made[job[c].who]
          /\ job[c].mem.kyc = "APPROVED" =>
                job[c].mem.docs \in seen[job[c].who] \/ crossed[job[c].who]
    /\ job[c].op = "update profile" =>
          /\ job[c].mem.id # 0
          /\ \/ crossed[job[c].who]
             \/ profile[job[c].who].id # job[c].mem.id
             \/ /\ "kyc" \in job[c].cols \/ profile[job[c].who].kyc = job[c].mem.kyc
                /\ "docs" \in job[c].cols \/ profile[job[c].who].docs = job[c].mem.docs

\* Two handlers write one profile when they cross only.
Writes(c, p) == job[c].op \in Writing /\ job[c].who = p
OneWriter ==
    \A c, d \in AccountCalls, p \in People : Writes(c, p) /\ Writes(d, p) => c = d \/ crossed[p]

AccountsInv ==
    /\ AccountsTypeOK /\ job \in [AccountCalls -> AccountJob]
    /\ Ids /\ (\A c \in AccountCalls : Fits(c)) /\ OneWriter
    /\ ApprovedDocsSeen

-----------------------------------------------------------------------------
(* Jobs *)

\* A job is known by its name.
LEMMA JobKind ==
  ASSUME NEW j \in AccountJob
  PROVE  /\ j # Rest => j.who \in People
         /\ j.op \in SavingProfile => j \in SaveJob
         /\ j.op = "save user" => j \in UserJob
         /\ j.op = "invite" => j \in InviteJob
         /\ j.op \in {"count", "revoke", "save collaborator"} => j \in TeamJob
         /\ j.op # "rest" => j # Rest
  <1>0. j.op # "rest" => j # Rest
    BY DEF Rest, SavingProfile, Writing
  <1>1. CASE j = Rest
    BY <1>1 DEF Rest, SavingProfile, Writing
  <1>2. CASE j \in [op: {"register", "promote"}, who: People]
    BY <1>0, <1>2 DEF SavingProfile, Writing
  <1>3. CASE j \in SaveJob
    BY <1>0, <1>3 DEF SaveJob, SavingProfile, Writing
  <1>4. CASE j \in UserJob
    BY <1>0, <1>4 DEF UserJob, SavingProfile, Writing
  <1>5. CASE j \in InviteJob
    BY <1>0, <1>5 DEF InviteJob, SavingProfile, Writing
  <1>6. CASE j \in TeamJob
    BY <1>0, <1>6 DEF TeamJob, SavingProfile, Writing
  <1> QED BY <1>1, <1>2, <1>3, <1>4, <1>5, <1>6 DEF AccountJob

\* What the type invariant says beside the jobs.
Rows ==
    /\ role \in [People -> Roles] /\ profile \in [People -> Profile]
    /\ made \in [People -> Nat] /\ host \in [Hosts -> BOOLEAN]
    /\ collab \in [Hosts -> [People -> Collaboration]]
    /\ seen \in [People -> SUBSET SUBSET Docs] /\ crossed \in [People -> BOOLEAN]
    /\ asked \in Nat /\ died \in Nat

LEMMA TypesFromRows ==
  ASSUME Rows, job \in [AccountCalls -> AccountJob]
  PROVE  AccountsTypeOK
  <1>1. ASSUME NEW c \in AccountCalls
        PROVE  job[c] = Rest \/ (job[c].who \in People
                                  /\ (job[c].op \in SavingProfile => job[c].mem \in Profile))
    <2>1. job[c] \in AccountJob
      OBVIOUS
    <2> QED BY <2>1, JobKind DEF SaveJob
  <1> QED BY <1>1 DEF Rows, AccountsTypeOK

LEMMA RowsNow == ASSUME AccountsInv PROVE Rows
  BY DEF AccountsInv, AccountsTypeOK, Rows

\* What a step leaves to the handlers that are not in C.
Frame(C) ==
    /\ \A p \in People : /\ made[p] <= made'[p] /\ seen[p] \subseteq seen'[p]
                         /\ crossed[p] => crossed'[p]
    /\ \A p \in People : \/ profile'[p] = profile[p]
                         \/ profile'[p].id = 0 \/ profile'[p].id > made[p]
                         \/ \E c \in C : Writes(c, p)

LEMMA OthersFit ==
  ASSUME AccountsInv, NEW C \in SUBSET AccountCalls, Frame(C), Rows',
         NEW d \in AccountCalls, d \notin C, job'[d] = job[d]
  PROVE  Fits(d)'
  <1>1. Fits(d) /\ OneWriter /\ job[d] \in AccountJob /\ Rows
    BY RowsNow DEF AccountsInv
  <1>2. CASE job[d].op \notin SavingProfile
    BY <1>2 DEF Fits, SavingProfile, Writing
  <1>3. CASE job[d].op \in SavingProfile
    <2> DEFINE p == job[d].who
               m == job[d].mem
    <2>1. p \in People /\ m \in Profile
      BY <1>1, <1>3, JobKind DEF SaveJob
    <2>2. m.id \in Nat /\ made[p] \in Nat /\ made'[p] \in Nat /\ made[p] <= made'[p]
      BY <1>1, <2>1 DEF Rows, Profile, Frame
    <2>3. m.id <= made[p] /\ (m.kyc = "APPROVED" => m.docs \in seen[p] \/ crossed[p])
      BY <1>1, <1>3 DEF Fits
    <2>4. m.id <= made'[p] /\ (m.kyc = "APPROVED" => m.docs \in seen'[p] \/ crossed'[p])
      BY <2>1, <2>2, <2>3 DEF Frame
    <2>5. ASSUME job[d].op = "update profile", ~crossed'[p], profile'[p].id = m.id
          PROVE  profile'[p] = profile[p]
      <3>1. m.id # 0
        BY <1>1, <2>5 DEF Fits
      <3>2. ~crossed[p]
        BY <2>1, <2>5 DEF Frame
      <3>3. ~\E c \in C : Writes(c, p)
        <4>1. Writes(d, p)
          BY <2>5 DEF Writes, Writing
        <4> HIDE DEF p
        <4> SUFFICES ASSUME NEW c \in C, Writes(c, p) PROVE FALSE
          OBVIOUS
        <4>2. c \in AccountCalls /\ c # d
          OBVIOUS
        <4> QED BY <1>1, <2>1, <3>2, <4>1, <4>2 DEF OneWriter
      <3>4. ~(profile'[p].id > made[p])
        <4>1. profile'[p].id = m.id
          BY <2>5
        <4> HIDE DEF m
        <4> QED BY <2>2, <2>3, <4>1
      <3> QED BY <2>1, <2>5, <3>1, <3>3, <3>4 DEF Frame
    <2>6. ASSUME job[d].op = "update profile"
          PROVE  /\ m.id # 0
                 /\ \/ crossed'[p]
                    \/ profile'[p].id # m.id
                    \/ /\ "kyc" \in job[d].cols \/ profile'[p].kyc = m.kyc
                       /\ "docs" \in job[d].cols \/ profile'[p].docs = m.docs
      <3>1. crossed[p] => crossed'[p]
        BY <2>1 DEF Frame
      <3> QED BY <1>1, <2>5, <2>6, <3>1 DEF Fits
    <2> QED BY <2>4, <2>6 DEF Fits
  <1> QED BY <1>2, <1>3

LEMMA TypesThen ==
  ASSUME Rows', (job \in [AccountCalls -> AccountJob])'
  PROVE  AccountsTypeOK'
  BY TypesFromRows, PTL

\* A step in which one job goes on.
LEMMA JobStep ==
  ASSUME AccountsInv, NEW c \in AccountCalls, NEW j \in AccountJob,
         job' = [job EXCEPT ![c] = j], Frame({c}), Rows', Ids', ApprovedDocsSeen', Fits(c)',
         j.op \in Writing => \/ crossed'[j.who]
                             \/ \A d \in AccountCalls : ~Writes(d, j.who)
  PROVE  AccountsInv'
  <1>1. (job \in [AccountCalls -> AccountJob])'
    BY DEF AccountsInv
  <1>2. \A d \in AccountCalls : job'[d] = IF d = c THEN j ELSE job[d]
    BY DEF AccountsInv
  <1>3. ASSUME NEW d \in AccountCalls PROVE Fits(d)'
    <2>1. CASE d = c
      BY <2>1
    <2>2. CASE d # c
      <3>1. {c} \in SUBSET AccountCalls /\ d \notin {c} /\ job'[d] = job[d]
        BY <1>2, <2>2
      <3> QED BY <3>1, OthersFit
    <2> QED BY <2>1, <2>2
  <1>4. OneWriter'
    <2> SUFFICES ASSUME NEW d \in AccountCalls, NEW e \in AccountCalls, NEW p \in People,
                        Writes(d, p)', Writes(e, p)', d # e, ~crossed'[p]
                 PROVE  FALSE
      BY DEF OneWriter
    <2>1. ~crossed[p]
      BY DEF Frame
    <2>2. CASE d # c /\ e # c
      <3>1. Writes(d, p) /\ Writes(e, p)
        BY <1>2, <2>2 DEF Writes
      <3> QED BY <2>1, <3>1 DEF AccountsInv, OneWriter
    <2>3. CASE d = c \/ e = c
      <3>1. PICK o \in {d, e} : o # c
        BY <2>3
      <3>2. Writes(o, p) /\ j.op \in Writing /\ j.who = p
        BY <1>2, <2>3, <3>1 DEF Writes
      <3> QED BY <3>1, <3>2
    <2> QED BY <2>2, <2>3
  <1>5. AccountsTypeOK'
    BY <1>1, TypesThen
  <1> QED BY <1>1, <1>3, <1>4, <1>5 DEF AccountsInv

\* Profiles are left alone, and so is what was seen of them.
LEMMA Still ==
  ASSUME AccountsInv, UNCHANGED <<profile, made, seen, crossed>>, NEW C
  PROVE  Frame(C) /\ Ids' /\ ApprovedDocsSeen'
  <1>1. Rows /\ Ids /\ ApprovedDocsSeen
    BY RowsNow DEF AccountsInv
  <1>2. \A p \in People : made[p] \in Nat
    BY <1>1 DEF Rows
  <1> QED BY <1>1, <1>2 DEF Frame, Ids, ApprovedDocsSeen

\* A job that goes on and is no save of a profile.
LEMMA OtherStep ==
  ASSUME AccountsInv, NEW c \in AccountCalls, NEW j \in AccountJob,
         job' = [job EXCEPT ![c] = j], UNCHANGED <<profile, made, seen, crossed>>, Rows',
         j.op \notin SavingProfile
  PROVE  AccountsInv'
  <1>1. job'[c] = j
    BY DEF AccountsInv
  <1>2. Fits(c)' /\ j.op \notin Writing
    BY <1>1 DEF Fits, SavingProfile, Writing
  <1>3. Frame({c}) /\ Ids' /\ ApprovedDocsSeen'
    BY Still
  <1> QED BY <1>2, <1>3, JobStep

-----------------------------------------------------------------------------
(* Steps *)

LEMMA AccountsStart == AccountsInit => AccountsInv
  <1> SUFFICES ASSUME AccountsInit PROVE AccountsInv
    OBVIOUS
  <1>1. Rows
    BY DEF AccountsInit, Rows, NoProfile, Profile, Kyc, Roles, Collaboration
  <1>2. job \in [AccountCalls -> AccountJob]
    BY DEF AccountsInit, AccountJob
  <1>3. ApprovedDocsSeen /\ Ids
    BY DEF AccountsInit, ApprovedDocsSeen, Ids, NoProfile
  <1>4. (\A c \in AccountCalls : Fits(c)) /\ OneWriter
    BY DEF AccountsInit, Fits, OneWriter, Writes, SavingProfile, Writing, Rest
  <1> QED BY <1>1, <1>2, <1>3, <1>4, TypesFromRows DEF AccountsInv

LEMMA AsksType == ASSUME Rows, Asks PROVE asked' \in Nat
  BY DEF Rows, Asks

\* A request on which nothing but a job is written.
LEMMA Begun ==
  ASSUME AccountsInv, NEW c \in AccountCalls, NEW j \in AccountJob, Starts(c, j),
         UNCHANGED <<role, profile, made, host, collab, seen, crossed, died>>,
         j.op \notin Writing,
         j.op = "save profile" => /\ j.mem.id <= made[j.who]
                                  /\ j.mem.kyc = "APPROVED" =>
                                        j.mem.docs \in seen[j.who] \/ crossed[j.who]
  PROVE  AccountsInv'
  <1>1. job' = [job EXCEPT ![c] = j]
    BY DEF Starts
  <1>2. Rows'
    <2>1. Rows
      BY RowsNow
    <2>2. /\ role' = role /\ profile' = profile /\ made' = made /\ host' = host
          /\ collab' = collab /\ seen' = seen /\ crossed' = crossed /\ died' = died
      OBVIOUS
    <2>3. asked' \in Nat
      BY <2>1, AsksType DEF Starts
    <2> QED BY <2>1, <2>2, <2>3, Zenon DEF Rows
  <1>3. job'[c] = j
    BY <1>1 DEF AccountsInv
  <1>4. made' = made /\ seen' = seen /\ crossed' = crossed
    OBVIOUS
  <1>5. Fits(c)'
    BY <1>3, <1>4 DEF Fits, SavingProfile, Writing
  <1>6. Frame({c}) /\ Ids' /\ ApprovedDocsSeen'
    BY Still
  <1> QED BY <1>1, <1>2, <1>5, <1>6, JobStep

LEMMA RequestNext ==
  ASSUME AccountsInv, NEW c \in AccountCalls, NEW p \in People, AccountRequest(c, p)
  PROVE  AccountsInv'
  <1>t. /\ role[p] \in Roles /\ profile[p] \in Profile
        /\ profile[p].kyc = "APPROVED" => profile[p].docs \in seen[p] \/ crossed[p]
        /\ made \in [People -> Nat] /\ profile[p].id \in Nat /\ profile[p].id <= made[p]
        /\ crossed \in [People -> BOOLEAN]
        /\ role \in [People -> Roles] /\ seen \in [People -> SUBSET SUBSET Docs]
        /\ collab \in [Hosts -> [People -> Collaboration]] /\ asked \in Nat
    BY DEF AccountsInv, AccountsTypeOK, ApprovedDocsSeen, Ids, Profile
  <1>w. "save profile" \notin Writing /\ "save profile" \in SavingProfile
    BY DEF Writing, SavingProfile
  <1>v. \A op \in {"register", "save user", "invite", "count", "save collaborator"} :
            op \notin Writing /\ op \notin SavingProfile
    BY DEF Writing, SavingProfile
  <1>1. ASSUME NEW d \in Docs, SubmitKyc(c, p, d) PROVE AccountsInv'
    <2> DEFINE mem == [id |-> profile[p].id, kyc |-> "PENDING", docs |-> {d}]
               j == [op |-> "save profile", who |-> p, linked |-> profile[p].id = 0, mem |-> mem,
                     cols |-> {}, promote |-> FALSE]
    <2>1. mem \in Profile
      BY <1>t DEF Profile, Kyc
    <2>2. j \in AccountJob
      BY <2>1, <1>w DEF AccountJob, SaveJob
    <2>3. j.op = "save profile" /\ j.mem.id <= made[j.who] /\ j.mem.kyc # "APPROVED"
      BY <1>t
    <2>4. Starts(c, j) /\ UNCHANGED <<role, profile, made, host, collab, seen, crossed, died>>
      BY <1>1 DEF SubmitKyc
    <2> HIDE DEF j, mem
    <2> QED BY <2>2, <2>3, <2>4, <1>w, Begun
  <1>2. CASE Rename(c, p)
    <2> DEFINE j == [op |-> "save profile", who |-> p, linked |-> FALSE, mem |-> profile[p],
                     cols |-> {}, promote |-> FALSE]
    <2>1. j \in AccountJob
      BY <1>t, <1>w DEF AccountJob, SaveJob
    <2>2. /\ j.op = "save profile" /\ j.mem.id <= made[j.who]
          /\ j.mem.kyc = "APPROVED" => j.mem.docs \in seen[j.who] \/ crossed[j.who]
      BY <1>t
    <2>3. Starts(c, j) /\ UNCHANGED <<role, profile, made, host, collab, seen, crossed, died>>
      BY <1>2 DEF Rename
    <2> HIDE DEF j
    <2> QED BY <2>1, <2>2, <2>3, <1>w, Begun
  <1>3. ASSUME NEW d \in Decisions, ReviewKyc(c, p, d) PROVE AccountsInv'
    <2> DEFINE mem == [profile[p] EXCEPT !.kyc = d]
               j == [op |-> "save profile", who |-> p, linked |-> TRUE, mem |-> mem,
                     cols |-> {}, promote |-> d = "APPROVED"]
    <2>0. /\ job' = [job EXCEPT ![c] = j] /\ asked' = asked + 1
          /\ seen' = IF d = "APPROVED" THEN [seen EXCEPT ![p] = @ \cup {profile[p].docs}] ELSE seen
          /\ UNCHANGED <<role, profile, made, host, collab, crossed, died>>
      BY <1>3 DEF ReviewKyc, Starts, Asks
    <2>1. mem \in Profile /\ mem.docs = profile[p].docs /\ mem.kyc = d /\ mem.id = profile[p].id
      BY <1>t DEF Profile, Decisions, Kyc
    <2>2. j \in AccountJob
      BY <2>1, <1>w DEF AccountJob, SaveJob
    <2>k. j.op = "save profile" /\ j.mem = mem /\ j.who = p
      OBVIOUS
    <2> HIDE DEF mem, j
    <2>3. \A q \in People : seen[q] \subseteq seen'[q]
      BY <2>0, <1>t
    <2>4. Frame({c}) /\ Ids' /\ ApprovedDocsSeen'
      <3>1. Rows /\ Ids /\ ApprovedDocsSeen
        BY RowsNow DEF AccountsInv
      <3>2. \A q \in People : made[q] \in Nat
        BY <1>t
      <3> QED BY <2>0, <2>3, <3>1, <3>2 DEF Frame, Ids, ApprovedDocsSeen
    <2>5. job'[c] = j
      BY <2>0 DEF AccountsInv
    <2>6. Fits(c)'
      <3>1. d = "APPROVED" => seen'[p] = seen[p] \cup {profile[p].docs}
        BY <2>0, <1>t
      <3>2. j.mem.kyc = "APPROVED" => j.mem.docs \in seen'[p]
        BY <3>1, <2>1, <2>k
      <3>3. j.mem.id <= made'[p]
        BY <2>0, <2>1, <2>k, <1>t
      <3> QED BY <2>5, <2>k, <3>2, <3>3 DEF Fits
    <2>7. Rows'
      BY <2>0, <1>t, RowsNow DEF Rows, Profile
    <2> QED BY <2>0, <2>2, <2>4, <2>6, <2>7, <2>k, <1>w, JobStep
  <1>4. CASE Register(c, p)
    <2>1. [op |-> "register", who |-> p] \in AccountJob
      BY DEF AccountJob
    <2> QED BY <1>4, <1>v, <2>1, Begun DEF Register
  <1>5. CASE UserRead(c, p)
    <2>1. [op |-> "save user", who |-> p, role |-> role[p]] \in AccountJob
      BY <1>t DEF AccountJob, UserJob
    <2> QED BY <1>5, <1>v, <2>1, Begun DEF UserRead
  <1>6. ASSUME NEW h \in Hosts, Invite(c, h, p) PROVE AccountsInv'
    <2>1. [op |-> "invite", who |-> p, host |-> h, found |-> role[p]] \in AccountJob
      BY <1>t DEF AccountJob, InviteJob
    <2> QED BY <1>6, <1>v, <2>1, Begun DEF Invite
  <1>7. ASSUME NEW h \in Hosts, RemoveCollaborator(c, h, p) PROVE AccountsInv'
    <2> DEFINE j == [op |-> "count", who |-> p, host |-> h, to |-> "none"]
    <2>1. j \in AccountJob
      BY DEF AccountJob, TeamJob, Collaboration
    <2>2. /\ job' = [job EXCEPT ![c] = j] /\ asked' = asked + 1
          /\ collab' = [collab EXCEPT ![h][p] = "none"]
          /\ UNCHANGED <<role, profile, made, host, seen, crossed, died>>
      BY <1>7 DEF RemoveCollaborator, Starts, Asks
    <2>3. Rows'
      BY <2>2, <1>t, RowsNow DEF Rows, Collaboration
    <2>4. j.op \notin SavingProfile
      BY <1>v
    <2> QED BY <2>1, <2>2, <2>3, <2>4, OtherStep
  <1>8. ASSUME NEW h \in Hosts, NEW to \in {"active", "inactive"}, UpdateCollaborator(c, h, p, to)
        PROVE  AccountsInv'
    <2> DEFINE j == [op |-> IF to = "inactive" THEN "count" ELSE "save collaborator",
                     who |-> p, host |-> h, to |-> to]
    <2>1. j \in AccountJob
      BY DEF AccountJob, TeamJob, Collaboration
    <2>2. j.op \notin Writing /\ j.op # "save profile"
      BY <1>v
    <2> QED BY <1>8, <2>1, <2>2, Begun DEF UpdateCollaborator
  <1> QED BY <1>1, <1>2, <1>3, <1>4, <1>5, <1>6, <1>7, <1>8 DEF AccountRequest

LEMMA FoundNext ==
  ASSUME AccountsInv, NEW c \in AccountCalls, ProfileFound(c)
  PROVE  AccountsInv'
  <1> DEFINE p == job[c].who
             m == job[c].mem
             row == profile[p]
             op == IF m.id = 0 \/ row.id # m.id THEN "insert profile" ELSE "update profile"
             cols == Differ(row, m)
             j == [job[c] EXCEPT !.op = op, !.cols = cols]
  <1>1. /\ job[c].op = "save profile" /\ job' = [job EXCEPT ![c] = j]
        /\ crossed' = [crossed EXCEPT ![p] = @ \/ Crosses(p)]
        /\ UNCHANGED <<role, profile, made, host, collab, seen, asked, died>>
    BY DEF ProfileFound, Goes
  <1>2. job[c] \in SaveJob /\ Rows
    BY <1>1, JobKind, RowsNow DEF AccountsInv, SavingProfile
  <1>3. p \in People /\ m \in Profile /\ row \in Profile
    BY <1>2 DEF SaveJob, Rows
  <1>4. cols \subseteq {"kyc", "docs"} /\ op \in Writing /\ op \in SavingProfile
    BY DEF Differ, Writing, SavingProfile
  <1>5. m.id <= made[p] /\ (m.kyc = "APPROVED" => m.docs \in seen[p] \/ crossed[p])
    BY <1>1 DEF AccountsInv, Fits, SavingProfile
  <1>6. /\ "kyc" \in cols \/ row.kyc = m.kyc
        /\ "docs" \in cols \/ row.docs = m.docs
        /\ op = "update profile" => m.id # 0
    BY DEF Differ
  <1>7. /\ j \in AccountJob /\ j.op = op /\ j.mem = m /\ j.who = p /\ j.cols = cols
    <2> HIDE DEF cols, op
    <2>1. j \in SaveJob
      BY <1>2, <1>4 DEF SaveJob
    <2> QED BY <1>2, <2>1 DEF AccountJob, SaveJob
  <1> HIDE DEF j, cols, op
  <1>8. /\ crossed' \in [People -> BOOLEAN] /\ \A q \in People : crossed[q] => crossed'[q]
    BY <1>1, <1>2, <1>3 DEF Rows, Crosses
  <1>9. crossed'[p] \/ \A d \in AccountCalls : ~Writes(d, p)
    BY <1>1, <1>2, <1>3 DEF Rows, Crosses, Writes
  <1>10. Rows'
    BY <1>1, <1>2, <1>8 DEF Rows
  <1>11. Frame({c}) /\ Ids' /\ ApprovedDocsSeen'
    <2>1. \A q \in People : made[q] \in Nat
      BY <1>2 DEF Rows
    <2>2. profile' = profile /\ made' = made /\ seen' = seen
      BY <1>1
    <2>3. Frame({c})
      BY <1>8, <2>1, <2>2 DEF Frame
    <2>4. Ids'
      BY <2>2 DEF AccountsInv, Ids
    <2>5. ApprovedDocsSeen'
      BY <1>8, <2>2 DEF AccountsInv, ApprovedDocsSeen
    <2> QED BY <2>3, <2>4, <2>5
  <1>12. job'[c] = j
    BY <1>1 DEF AccountsInv
  <1>13. Fits(c)'
    <2>1. m.kyc = "APPROVED" => m.docs \in seen'[p] \/ crossed'[p]
      BY <1>1, <1>3, <1>5, <1>8
    <2>2. m.id <= made'[p] /\ profile'[p] = row
      BY <1>1, <1>5
    <2> HIDE DEF p, m, row
    <2> QED BY <1>6, <1>7, <1>12, <2>1, <2>2 DEF Fits
  <1> QED BY <1>1, <1>7, <1>9, <1>10, <1>11, <1>13, JobStep

LEMMA ThenJob ==
  ASSUME AccountsInv, NEW c \in AccountCalls, job[c].op \in SavingProfile
  PROVE  Then(c) \in AccountJob /\ Then(c).op \notin SavingProfile
  <1>1. job[c].who \in People
    BY JobKind DEF AccountsInv, SaveJob
  <1> QED BY <1>1 DEF Then, Who, AccountJob, Rest, SavingProfile, Writing

LEMMA UpdatedNext ==
  ASSUME AccountsInv, NEW c \in AccountCalls, ProfileUpdated(c)
  PROVE  AccountsInv'
  <1> DEFINE p == job[c].who
             m == job[c].mem
             row == profile[p]
             cols == job[c].cols
             new == [row EXCEPT !.kyc = IF "kyc" \in cols THEN m.kyc ELSE @,
                                !.docs = IF "docs" \in cols THEN m.docs ELSE @]
  <1>0. job[c].op = "update profile" /\ job[c].op \in SavingProfile /\ job[c].op \in Writing
    BY DEF ProfileUpdated, Goes, SavingProfile, Writing
  <1>1. /\ job' = [job EXCEPT ![c] = Then(c)]
        /\ UNCHANGED <<role, made, host, collab, seen, crossed, asked, died>>
    BY DEF ProfileUpdated, Goes
  <1>2. job[c] \in SaveJob /\ Rows
    BY <1>0, JobKind, RowsNow DEF AccountsInv
  <1>3. p \in People /\ m \in Profile /\ row \in Profile
    BY <1>2 DEF SaveJob, Rows
  <1>4. new \in Profile /\ new.id = row.id
        /\ new.kyc = (IF "kyc" \in cols THEN m.kyc ELSE row.kyc)
        /\ new.docs = (IF "docs" \in cols THEN m.docs ELSE row.docs)
    BY <1>3 DEF Profile
  <1>5. profile' = profile \/ (row.id = m.id /\ profile' = [profile EXCEPT ![p] = new])
    BY <1>2, <1>3 DEF ProfileUpdated, Rows, Profile
  <1> HIDE DEF new
  <1>6. profile' \in [People -> Profile] /\ \A q \in People : profile'[q].id = profile[q].id
    BY <1>2, <1>3, <1>4, <1>5 DEF Rows
  <1>7. Rows'
    BY <1>1, <1>2, <1>6 DEF Rows
  <1>8. Ids'
    BY <1>1, <1>6 DEF AccountsInv, Ids
  <1>9. Frame({c})
    <2>1. \A q \in People : made[q] \in Nat
      BY <1>2 DEF Rows
    <2>2. Writes(c, p)
      BY <1>0 DEF Writes
    <2>3. \A q \in People : q # p => profile'[q] = profile[q]
      BY <1>2, <1>5 DEF Rows
    <2> QED BY <1>1, <2>1, <2>2, <2>3 DEF Frame
  <1>10. ApprovedDocsSeen'
    <2> SUFFICES ASSUME NEW q \in People, profile'[q].kyc = "APPROVED", ~crossed[q]
                 PROVE  profile'[q].docs \in seen[q]
      BY <1>1 DEF ApprovedDocsSeen
    <2>1. CASE profile'[q] = profile[q]
      BY <2>1 DEF AccountsInv, ApprovedDocsSeen
    <2>2. CASE profile'[q] # profile[q]
      <3>1. q = p /\ row.id = m.id /\ profile'[q] = new
        BY <1>2, <1>5, <2>2 DEF Rows
      <3>2. /\ "kyc" \in cols \/ row.kyc = m.kyc
            /\ "docs" \in cols \/ row.docs = m.docs
        BY <1>0, <3>1 DEF AccountsInv, Fits
      <3>3. m.kyc = "APPROVED" => m.docs \in seen[p]
        BY <1>0, <3>1 DEF AccountsInv, Fits
      <3>4. new.kyc = m.kyc /\ new.docs = m.docs
        BY <1>4, <3>2
      <3> QED BY <3>1, <3>3, <3>4
    <2> QED BY <2>1, <2>2
  <1>11. Then(c) \in AccountJob /\ Then(c).op \notin SavingProfile
    BY <1>0, ThenJob
  <1>12. Fits(c)' /\ Then(c).op \notin Writing
    <2>1. job'[c] = Then(c)
      BY <1>1 DEF AccountsInv
    <2> QED BY <1>11, <2>1 DEF Fits, SavingProfile, Writing
  <1> QED BY <1>1, <1>7, <1>8, <1>9, <1>10, <1>11, <1>12, JobStep

LEMMA InsertedNext ==
  ASSUME AccountsInv, NEW c \in AccountCalls, ProfileInserted(c)
  PROVE  AccountsInv'
  <1> DEFINE p == job[c].who
             m == job[c].mem
             id == IF m.id = 0 THEN made[p] + 1 ELSE m.id
             new == [m EXCEPT !.id = id]
  <1>0. job[c].op = "insert profile" /\ job[c].op \in SavingProfile /\ job[c].op \in Writing
    BY DEF ProfileInserted, Goes, SavingProfile, Writing
  <1>1. /\ job' = [job EXCEPT ![c] = Then(c)]
        /\ UNCHANGED <<role, host, collab, seen, crossed, asked, died>>
        /\ made' = IF m.id = 0 THEN [made EXCEPT ![p] = id] ELSE made
        /\ profile' = profile \/ profile' = [profile EXCEPT ![p] = new]
    BY DEF ProfileInserted, Goes
  <1>2. job[c] \in SaveJob /\ Rows
    BY <1>0, JobKind, RowsNow DEF AccountsInv
  <1>3. p \in People /\ m \in Profile /\ made[p] \in Nat /\ m.id \in Nat
    BY <1>2 DEF SaveJob, Rows, Profile
  <1>4. m.id <= made[p] /\ (m.kyc = "APPROVED" => m.docs \in seen[p] \/ crossed[p])
    BY <1>0 DEF AccountsInv, Fits
  <1>5. id \in Nat /\ new \in Profile /\ new.id = id /\ new.kyc = m.kyc /\ new.docs = m.docs
    BY <1>3 DEF Profile
  <1>6. /\ made' \in [People -> Nat] /\ \A q \in People : made[q] <= made'[q]
        /\ id <= made'[p]
    <2>1. \A q \in People : made[q] \in Nat
      BY <1>2 DEF Rows
    <2>2. CASE m.id = 0
      BY <1>1, <1>2, <1>3, <2>1, <2>2 DEF Rows
    <2>3. CASE m.id # 0
      BY <1>1, <1>2, <1>3, <1>4, <2>1, <2>3 DEF Rows
    <2> QED BY <2>2, <2>3
  <1> HIDE DEF id, new
  <1>7. /\ profile' \in [People -> Profile]
        /\ \A q \in People : profile'[q] = profile[q] \/ (q = p /\ profile'[q] = new)
    BY <1>1, <1>2, <1>3, <1>5 DEF Rows
  <1>8. Rows'
    BY <1>1, <1>2, <1>6, <1>7 DEF Rows
  <1>9. Ids'
    <2> SUFFICES ASSUME NEW q \in People PROVE profile'[q].id <= made'[q]
      BY DEF Ids
    <2>1. profile[q].id <= made[q] /\ profile[q].id \in Nat /\ made[q] \in Nat /\ made'[q] \in Nat
      BY <1>2, <1>6 DEF AccountsInv, Ids, Rows, Profile
    <2> QED BY <1>5, <1>6, <1>7, <2>1
  <1>10. Frame({c})
    <2>1. Writes(c, p)
      BY <1>0 DEF Writes
    <2> QED BY <1>1, <1>6, <1>7, <2>1 DEF Frame
  <1>11. ApprovedDocsSeen'
    <2> SUFFICES ASSUME NEW q \in People, profile'[q].kyc = "APPROVED"
                 PROVE  profile'[q].docs \in seen[q] \/ crossed[q]
      BY <1>1 DEF ApprovedDocsSeen
    <2> QED BY <1>4, <1>5, <1>7 DEF AccountsInv, ApprovedDocsSeen
  <1>12. Then(c) \in AccountJob /\ Then(c).op \notin SavingProfile
    BY <1>0, ThenJob
  <1>13. Fits(c)' /\ Then(c).op \notin Writing
    <2>1. job'[c] = Then(c)
      BY <1>1 DEF AccountsInv
    <2> QED BY <1>12, <2>1 DEF Fits, SavingProfile, Writing
  <1> QED BY <1>1, <1>8, <1>9, <1>10, <1>11, <1>12, <1>13, JobStep

LEMMA StepNext ==
  ASSUME AccountsInv, NEW c \in AccountCalls, AccountStep(c)
  PROVE  AccountsInv'
  <1>r. Rows /\ job[c] \in AccountJob /\ ApprovedDocsSeen
    BY RowsNow DEF AccountsInv
  <1>e. Rest \in AccountJob /\ Rest.op \notin SavingProfile
    BY DEF AccountJob, Rest, SavingProfile, Writing
  \* Nothing but roles and collaborations is written, and the job goes on as j.
  <1>1. ASSUME NEW j \in AccountJob, j.op \notin SavingProfile, job' = [job EXCEPT ![c] = j],
               role' \in [People -> Roles], collab' \in [Hosts -> [People -> Collaboration]],
               UNCHANGED <<profile, made, host, seen, crossed, asked, died>>
        PROVE  AccountsInv'
    <2>1. Rows'
      BY <1>r, <1>1 DEF Rows
    <2> QED BY <1>1, <2>1, OtherStep
  <1>2. job[c].op # "rest" => job[c].who \in People
    BY <1>r, JobKind
  <1>3. /\ role \in [People -> Roles] /\ collab \in [Hosts -> [People -> Collaboration]]
    BY <1>r DEF Rows
  <1>4. \A v \in Roles : job[c].op # "rest" => [role EXCEPT ![Who(c)] = v] \in [People -> Roles]
    BY <1>2, <1>3 DEF Who
  <1>s. {"USER", "COLLABORATOR", "ORGANIZER"} \subseteq Roles
    BY DEF Roles
  <1>5. CASE Registered(c)
    <2>1. role' \in [People -> Roles]
      BY <1>5, <1>3, <1>4, <1>s DEF Registered, Goes
    <2> QED BY <1>5, <1>1, <1>3, <1>e, <2>1 DEF Registered, Goes
  <1>6. CASE ProfileFound(c)
    BY <1>6, FoundNext
  <1>17. CASE ProfileUpdated(c)
    BY <1>17, UpdatedNext
  <1>18. CASE ProfileInserted(c)
    BY <1>18, InsertedNext
  <1>7. CASE ProfileRefused(c)
    BY <1>7, <1>1, <1>3, <1>e DEF ProfileRefused, Goes
  <1>8. CASE Promote(c)
    <2>1. role' \in [People -> Roles]
      BY <1>8, <1>3, <1>4, <1>s DEF Promote, Goes
    <2> QED BY <1>8, <1>1, <1>3, <1>e, <2>1 DEF Promote, Goes
  <1>9. CASE UserSaved(c)
    <2>1. job[c] \in UserJob
      BY <1>9, <1>r, JobKind DEF UserSaved, Goes
    <2>2. role' \in [People -> Roles]
      BY <1>9, <1>3, <1>4, <2>1 DEF UserSaved, Goes, UserJob
    <2> QED BY <1>9, <1>1, <1>3, <1>e, <2>2 DEF UserSaved, Goes
  <1>10. CASE Invited(c)
    <2>1. job[c] \in InviteJob
      BY <1>10, <1>r, JobKind DEF Invited, Goes
    <2>2. role' \in [People -> Roles]
      BY <1>10, <1>3, <1>4, <1>s DEF Invited, Goes
    <2>3. collab' \in [Hosts -> [People -> Collaboration]]
      BY <1>10, <1>3, <2>1 DEF Invited, Who, InviteJob, Collaboration
    <2> QED BY <1>10, <1>1, <1>e, <2>2, <2>3 DEF Invited, Goes
  <1>11. CASE InviteFails(c)
    BY <1>11, <1>1, <1>3, <1>e DEF InviteFails, Goes
  <1>12. ASSUME job[c].op \in {"count", "revoke", "save collaborator"}
         PROVE  /\ job[c] \in TeamJob
                /\ After(c) \in AccountJob /\ After(c).op \notin SavingProfile
                /\ [job[c] EXCEPT !.op = "revoke"] \in AccountJob
                /\ [job[c] EXCEPT !.op = "revoke"].op \notin SavingProfile
    <2>1. job[c] \in TeamJob
      BY <1>12, <1>r, JobKind
    <2>2. [job[c] EXCEPT !.op = "revoke"] \in TeamJob
      BY <2>1 DEF TeamJob
    <2>3. [job[c] EXCEPT !.op = "save collaborator"] \in TeamJob
      BY <2>1 DEF TeamJob
    <2>4. "revoke" \notin SavingProfile /\ "save collaborator" \notin SavingProfile
      BY DEF SavingProfile, Writing
    <2> QED BY <2>1, <2>2, <2>3, <2>4, <1>e DEF After, AccountJob, TeamJob
  <1>13. CASE Count(c)
    <2>1. job[c].op = "count"
      BY <1>13 DEF Count, Goes
    <2>2. /\ \/ job' = [job EXCEPT ![c] = After(c)]
             \/ job' = [job EXCEPT ![c] = [job[c] EXCEPT !.op = "revoke"]]
          /\ UNCHANGED <<role, profile, made, host, collab, seen, crossed, asked, died>>
      BY <1>13 DEF Count, Goes
    <2>3. CASE job' = [job EXCEPT ![c] = After(c)]
      BY <2>1, <2>2, <2>3, <1>1, <1>3, <1>12
    <2>4. CASE job' = [job EXCEPT ![c] = [job[c] EXCEPT !.op = "revoke"]]
      <3> DEFINE j == [job[c] EXCEPT !.op = "revoke"]
      <3>1. j \in AccountJob /\ j.op \notin SavingProfile /\ job' = [job EXCEPT ![c] = j]
        BY <2>1, <2>4, <1>12
      <3> HIDE DEF j
      <3> QED BY <2>2, <3>1, <1>1, <1>3
    <2> QED BY <2>2, <2>3, <2>4
  <1>14. CASE Revoke(c)
    <2>1. job[c].op = "revoke"
      BY <1>14 DEF Revoke, Goes
    <2>2. role' \in [People -> Roles]
      BY <1>14, <2>1, <1>3, <1>4, <1>s DEF Revoke
    <2> QED BY <1>14, <1>1, <1>3, <1>12, <2>1, <2>2 DEF Revoke, Goes
  <1>15. CASE CollaboratorSaved(c)
    <2>1. job[c] \in TeamJob
      BY <1>15, <1>12 DEF CollaboratorSaved
    <2>2. collab' \in [Hosts -> [People -> Collaboration]]
      BY <1>15, <1>3, <2>1 DEF CollaboratorSaved, Who, TeamJob
    <2> QED BY <1>15, <1>1, <1>3, <1>e, <2>2 DEF CollaboratorSaved, Goes
  <1>16. CASE HostGone(c)
    BY <1>16, <1>1, <1>3, <1>e DEF HostGone, Goes
  <1> QED BY <1>5, <1>6, <1>7, <1>8, <1>9, <1>10, <1>11, <1>13, <1>14, <1>15, <1>16,
         <1>17, <1>18
          DEF AccountStep

\* Steps of one transaction, in which no job goes on.
LEMMA AtOnce ==
  ASSUME AccountsInv, UNCHANGED job, Frame({}), Rows', Ids', ApprovedDocsSeen'
  PROVE  AccountsInv'
  <1>1. (job \in [AccountCalls -> AccountJob])'
    BY DEF AccountsInv
  <1>2. \A c \in AccountCalls : Fits(c)'
    <2> SUFFICES ASSUME NEW c \in AccountCalls PROVE Fits(c)'
      OBVIOUS
    <2>1. {} \in SUBSET AccountCalls /\ c \notin {} /\ job'[c] = job[c]
      OBVIOUS
    <2> QED BY <2>1, OthersFit
  <1>3. OneWriter'
    BY DEF AccountsInv, OneWriter, Writes, Frame
  <1>4. AccountsTypeOK'
    BY <1>1, TypesThen
  <1> QED BY <1>1, <1>2, <1>3, <1>4 DEF AccountsInv

LEMMA AccountsStepOK == AccountsInv /\ [AccountsNext]_accountVars => AccountsInv'
  <1> SUFFICES ASSUME AccountsInv, [AccountsNext]_accountVars PROVE AccountsInv'
    OBVIOUS
  <1>r. Rows /\ Ids /\ ApprovedDocsSeen
    BY RowsNow DEF AccountsInv
  <1>1. ASSUME NEW p \in People, CreateOrganizer(p) PROVE AccountsInv'
    <2> DEFINE new == [NoProfile EXCEPT !.id = made[p] + 1]
    <2>0. made[p] \in Nat /\ \A q \in People : made[q] \in Nat /\ profile[q].id \in Nat
      BY <1>r DEF Rows, Profile
    <2>1. new \in Profile /\ new.kyc = "PENDING" /\ new.id = made[p] + 1
      BY <2>0 DEF NoProfile, Profile, Kyc
    <2>2. /\ profile' = [profile EXCEPT ![p] = new] /\ UNCHANGED <<job, seen, crossed>>
          /\ made' = [made EXCEPT ![p] = made[p] + 1]
      BY <1>1 DEF CreateOrganizer
    <2> HIDE DEF new
    <2>3. asked' \in Nat
      BY <1>1, <1>r, AsksType DEF CreateOrganizer
    <2>4. Rows'
      <3>1. role' = [role EXCEPT ![p] = "ORGANIZER"] /\ UNCHANGED <<host, collab, died>>
        BY <1>1 DEF CreateOrganizer
      <3>2. role' \in [People -> Roles]
        BY <1>r, <3>1 DEF Rows, Roles
      <3>3. profile' \in [People -> Profile]
        BY <1>r, <2>1, <2>2 DEF Rows
      <3>4. made[p] + 1 \in Nat
        BY <2>0
      <3>5. made' \in [People -> Nat]
        BY <1>r, <2>2, <3>4 DEF Rows
      <3> QED BY <1>r, <2>2, <2>3, <3>1, <3>2, <3>3, <3>5 DEF Rows
    <2>5. \A q \in People : /\ profile'[q] = IF q = p THEN new ELSE profile[q]
                            /\ made'[q] = IF q = p THEN made[p] + 1 ELSE made[q]
      BY <1>r, <2>2 DEF Rows
    <2>6. ApprovedDocsSeen'
      BY <1>r, <2>1, <2>2, <2>5 DEF ApprovedDocsSeen
    <2>7. Ids'
      BY <1>r, <2>0, <2>1, <2>5 DEF Ids
    <2>8. Frame({})
      BY <2>0, <2>1, <2>2, <2>5 DEF Frame
    <2> QED BY <2>2, <2>4, <2>6, <2>7, <2>8, AtOnce
  <1>2. ASSUME NEW p \in People, RemoveOrganizer(p) PROVE AccountsInv'
    <2>1. NoProfile \in Profile /\ NoProfile.kyc = "PENDING" /\ NoProfile.id = 0
      BY DEF NoProfile, Profile, Kyc
    <2>2. asked' \in Nat
      BY <1>2, <1>r, AsksType DEF RemoveOrganizer
    <2>3. Rows'
      BY <1>2, <1>r, <2>1, <2>2 DEF RemoveOrganizer, Rows, Roles
    <2>4. /\ \A q \in People : profile'[q] = IF q = p THEN NoProfile ELSE profile[q]
          /\ UNCHANGED <<made, seen, crossed, job>>
      BY <1>2, <1>r DEF RemoveOrganizer, Rows
    <2>5. \A q \in People : made[q] \in Nat
      BY <1>r DEF Rows
    <2>6. ApprovedDocsSeen' /\ Ids' /\ Frame({})
      BY <1>r, <2>1, <2>4, <2>5 DEF ApprovedDocsSeen, Ids, Frame
    <2> QED BY <2>3, <2>4, <2>6, AtOnce
  <1>3. ASSUME NEW h \in Hosts, RemoveHost(h) PROVE AccountsInv'
    <2>1. asked' \in Nat
      BY <1>3, <1>r, AsksType DEF RemoveHost
    <2>2. Rows'
      BY <1>3, <1>r, <2>1 DEF RemoveHost, Rows, Collaboration
    <2>3. UNCHANGED <<job, profile, made, seen, crossed>>
      BY <1>3 DEF RemoveHost
    <2>4. Frame({}) /\ Ids' /\ ApprovedDocsSeen'
      BY <2>3, Still
    <2> QED BY <2>2, <2>3, <2>4, AtOnce
  <1>4. ASSUME NEW c \in AccountCalls, HandlerDies(c) PROVE AccountsInv'
    <2>1. Rest \in AccountJob /\ Rest.op \notin SavingProfile
      BY DEF AccountJob, Rest, SavingProfile, Writing
    <2>2. Rows'
      BY <1>4, <1>r DEF HandlerDies, Rows
    <2> QED BY <1>4, <2>1, <2>2, OtherStep DEF HandlerDies
  <1>5. CASE UNCHANGED accountVars
    <2>1. UNCHANGED <<job, profile, made, seen, crossed>>
      BY <1>5 DEF accountVars
    <2>2. Rows'
      BY <1>5, <1>r DEF accountVars, Rows
    <2>3. Frame({}) /\ Ids' /\ ApprovedDocsSeen'
      BY <2>1, Still
    <2> QED BY <2>1, <2>2, <2>3, AtOnce
  <1> QED BY <1>1, <1>2, <1>3, <1>4, <1>5, RequestNext, StepNext DEF AccountsNext

-----------------------------------------------------------------------------
(* Whose role a revocation lowers                                          *)

\* A user with a collaboration, or for whom one is being made or ended.
TeamWork == {"invite", "count", "revoke", "save collaborator"}
InTeam(p) ==
    \/ \E h \in Hosts : collab[h][p] # "none"
    \/ \E c \in AccountCalls : job[c].op \in TeamWork /\ job[c].who = p

\* Whoever becomes an organizer in this step is in no team.
PromotesOutsiders ==
    \A p \in People : role[p] # "ORGANIZER" /\ role'[p] = "ORGANIZER" => ~InTeam(p)

OrganizersApart == \A p \in People : role[p] = "ORGANIZER" => ~InTeam(p)

LEMMA ApartStart == AccountsInit => OrganizersApart
  BY DEF AccountsInit, OrganizersApart

\* One job changes, and for nobody in a team of p; no collaboration of p is made.
LEMMA StaysOut ==
  ASSUME job \in [AccountCalls -> AccountJob], NEW p \in People, ~InTeam(p),
         NEW c \in AccountCalls, NEW j, job' = [job EXCEPT ![c] = j],
         j.op \in TeamWork => j.who # p,
         \A h \in Hosts : collab'[h][p] = "none"
  PROVE  ~InTeam(p)'
  <1>1. \A d \in AccountCalls : job'[d] = IF d = c THEN j ELSE job[d]
    OBVIOUS
  <1> QED BY <1>1 DEF InTeam

\* Nobody who is an organizer after the step enters a team by it.
LEMMA OrganizersStayOut ==
  ASSUME AccountsInv, AccountsNext, NEW p \in People, ~InTeam(p), role'[p] = "ORGANIZER"
  PROVE  ~InTeam(p)'
  <1>t. /\ job \in [AccountCalls -> AccountJob]
        /\ collab \in [Hosts -> [People -> Collaboration]] /\ role \in [People -> Roles]
    BY RowsNow DEF AccountsInv, Rows
  <1>o. /\ \A h \in Hosts : collab[h][p] = "none"
        /\ \A c \in AccountCalls : job[c].op \in TeamWork => job[c].who # p
    BY DEF InTeam
  <1>r. Rest.op \notin TeamWork
    BY DEF Rest, TeamWork
  <1>1. ASSUME UNCHANGED job, \A h \in Hosts : collab'[h][p] = "none" PROVE ~InTeam(p)'
    BY <1>1, <1>o DEF InTeam
  <1>7. ASSUME NEW c \in AccountCalls, NEW j, Starts(c, j), j.op \in TeamWork => j.who # p,
               \A h \in Hosts : collab'[h][p] = "none"
        PROVE  ~InTeam(p)'
    BY <1>7, <1>t, StaysOut DEF Starts
  <1>2. ASSUME NEW c \in AccountCalls, NEW q \in People, AccountRequest(c, q) PROVE ~InTeam(p)'
    <2>1. ASSUME NEW d \in Docs, SubmitKyc(c, q, d) PROVE ~InTeam(p)'
      <3> DEFINE j == [op |-> "save profile", who |-> q, linked |-> profile[q].id = 0,
                       mem |-> [id |-> profile[q].id, kyc |-> "PENDING", docs |-> {d}],
                       cols |-> {}, promote |-> FALSE]
      <3>1. Starts(c, j) /\ UNCHANGED collab
        BY <2>1 DEF SubmitKyc
      <3>2. j.op \notin TeamWork
        BY DEF TeamWork
      <3> QED BY <3>1, <3>2, <1>7, <1>o
    <2>2. ASSUME NEW d \in Decisions, ReviewKyc(c, q, d) PROVE ~InTeam(p)'
      <3> DEFINE j == [op |-> "save profile", who |-> q, linked |-> TRUE,
                       mem |-> [profile[q] EXCEPT !.kyc = d], cols |-> {}, promote |-> d = "APPROVED"]
      <3>1. Starts(c, j) /\ UNCHANGED collab
        BY <2>2 DEF ReviewKyc
      <3>2. j.op \notin TeamWork
        BY DEF TeamWork
      <3> QED BY <3>1, <3>2, <1>7, <1>o
    <2>3. CASE Register(c, q)
      <3> DEFINE j == [op |-> "register", who |-> q]
      <3>1. Starts(c, j) /\ UNCHANGED collab /\ j.op \notin TeamWork
        BY <2>3 DEF Register, TeamWork
      <3> QED BY <3>1, <1>7, <1>o
    <2>4. CASE Rename(c, q)
      <3> DEFINE j == [op |-> "save profile", who |-> q, linked |-> FALSE, mem |-> profile[q],
                       cols |-> {}, promote |-> FALSE]
      <3>1. Starts(c, j) /\ UNCHANGED collab /\ j.op \notin TeamWork
        BY <2>4 DEF Rename, TeamWork
      <3> QED BY <3>1, <1>7, <1>o
    <2>5. CASE UserRead(c, q)
      <3> DEFINE j == [op |-> "save user", who |-> q, role |-> role[q]]
      <3>1. Starts(c, j) /\ UNCHANGED collab /\ j.op \notin TeamWork
        BY <2>5 DEF UserRead, TeamWork
      <3> QED BY <3>1, <1>7, <1>o
    <2>6. ASSUME NEW h \in Hosts, Invite(c, h, q) PROVE ~InTeam(p)'
      <3> DEFINE j == [op |-> "invite", who |-> q, host |-> h, found |-> role[q]]
      <3>1. Starts(c, j) /\ UNCHANGED collab /\ j.who # p
        BY <2>6 DEF Invite
      <3> QED BY <3>1, <1>7, <1>o
    <2>7. ASSUME NEW h \in Hosts, RemoveCollaborator(c, h, q) PROVE ~InTeam(p)'
      <3> DEFINE j == [op |-> "count", who |-> q, host |-> h, to |-> "none"]
      <3>1. Starts(c, j) /\ j.who # p
        BY <2>7, <1>o DEF RemoveCollaborator
      <3>2. \A k \in Hosts : collab'[k][p] = "none"
        BY <2>7, <3>1, <1>t, <1>o DEF RemoveCollaborator
      <3> QED BY <3>1, <3>2, <1>7
    <2>8. ASSUME NEW h \in Hosts, NEW to \in {"active", "inactive"}, UpdateCollaborator(c, h, q, to)
          PROVE  ~InTeam(p)'
      <3> DEFINE j == [op |-> IF to = "inactive" THEN "count" ELSE "save collaborator",
                       who |-> q, host |-> h, to |-> to]
      <3>1. Starts(c, j) /\ UNCHANGED collab /\ j.who # p
        BY <2>8, <1>o DEF UpdateCollaborator
      <3> QED BY <3>1, <1>7, <1>o
    <2> QED BY <1>2, <2>1, <2>2, <2>3, <2>4, <2>5, <2>6, <2>7, <2>8 DEF AccountRequest
  <1>3. ASSUME NEW c \in AccountCalls, AccountStep(c) PROVE ~InTeam(p)'
    <2>1. CASE /\ job' = [job EXCEPT ![c] = Rest]
               /\ UNCHANGED collab
      BY <2>1, <1>t, <1>o, <1>r, StaysOut
    <2>2. CASE ProfileFound(c)
      <3> DEFINE op == IF job[c].mem.id = 0 \/ profile[job[c].who].id # job[c].mem.id
                       THEN "insert profile" ELSE "update profile"
                 cols == Differ(profile[job[c].who], job[c].mem)
                 j == [job[c] EXCEPT !.op = op, !.cols = cols]
      <3>1. job' = [job EXCEPT ![c] = j] /\ UNCHANGED collab /\ job[c].op = "save profile"
        BY <2>2 DEF ProfileFound, Goes
      <3>2. job[c] \in SaveJob
        BY <3>1, <1>t, JobKind DEF SavingProfile
      <3>3. op \notin TeamWork
        BY DEF TeamWork
      <3> HIDE DEF op, cols
      <3>4. j.op \notin TeamWork
        BY <3>2, <3>3 DEF SaveJob
      <3> HIDE DEF j
      <3> QED BY <3>1, <3>4, <1>t, <1>o, StaysOut
    <2>6. CASE ProfileUpdated(c) \/ ProfileInserted(c)
      <3>1. job' = [job EXCEPT ![c] = Then(c)] /\ UNCHANGED collab
        BY <2>6 DEF ProfileUpdated, ProfileInserted, Goes
      <3>2. Then(c).op \notin TeamWork
        BY <1>r DEF Then, TeamWork
      <3> QED BY <3>1, <3>2, <1>t, <1>o, StaysOut
    <2>3. CASE Invited(c)
      <3>1. Who(c) # p /\ job[c].op = "invite"
        BY <2>3, <1>o DEF Invited, Who, TeamWork
      <3>0. job[c] \in InviteJob
        BY <3>1, <1>t, JobKind
      <3>2. job[c].host \in Hosts /\ Who(c) \in People
        BY <3>0 DEF Who, InviteJob
      <3>3. \A k \in Hosts : collab'[k][p] = "none"
        BY <2>3, <3>1, <3>2, <1>t, <1>o DEF Invited
      <3> QED BY <2>3, <3>3, <1>t, <1>r, StaysOut DEF Invited, Goes
    <2>4. CASE CollaboratorSaved(c)
      <3>1. Who(c) # p /\ job[c].op = "save collaborator"
        BY <2>4, <1>o DEF CollaboratorSaved, Who, TeamWork
      <3>0. job[c] \in TeamJob
        BY <3>1, <1>t, JobKind
      <3>2. job[c].host \in Hosts /\ Who(c) \in People
        BY <3>0 DEF Who, TeamJob
      <3>3. \A k \in Hosts : collab'[k][p] = "none"
        BY <2>4, <3>1, <3>2, <1>t, <1>o DEF CollaboratorSaved
      <3> QED BY <2>4, <3>3, <1>t, <1>r, StaysOut DEF CollaboratorSaved, Goes
    <2>5. CASE Count(c) \/ Revoke(c)
      <3>1. job[c].op \in {"count", "revoke"}
        BY <2>5 DEF Count, Revoke, Goes
      <3>2. job[c].who # p /\ job[c] \in TeamJob
        BY <3>1, <1>t, <1>o, JobKind DEF TeamWork
      <3>3. PICK j \in {After(c), [job[c] EXCEPT !.op = "revoke"]} : job' = [job EXCEPT ![c] = j]
        BY <2>5 DEF Count, Revoke, Goes
      <3>4. j.op \in TeamWork => j.who # p
        BY <3>2, <1>r DEF After, TeamJob
      <3> QED BY <2>5, <3>3, <3>4, <1>t, <1>o, StaysOut DEF Count, Revoke
    <2> QED BY <1>3, <2>1, <2>2, <2>3, <2>4, <2>5, <2>6
            DEF AccountStep, Registered, ProfileRefused, Promote, UserSaved, InviteFails, HostGone,
                Goes
  <1>4. ASSUME NEW c \in AccountCalls, HandlerDies(c) PROVE ~InTeam(p)'
    BY <1>4, <1>t, <1>o, <1>r, StaysOut DEF HandlerDies
  <1>5. ASSUME NEW q \in People, CreateOrganizer(q) \/ RemoveOrganizer(q) PROVE ~InTeam(p)'
    BY <1>1, <1>5, <1>o DEF CreateOrganizer, RemoveOrganizer
  <1>6. ASSUME NEW h \in Hosts, RemoveHost(h) PROVE ~InTeam(p)'
    BY <1>1, <1>6, <1>t, <1>o DEF RemoveHost
  <1> QED BY <1>2, <1>3, <1>4, <1>5, <1>6 DEF AccountsNext

LEMMA ApartNext ==
  ASSUME AccountsInv, OrganizersApart, [AccountsNext]_accountVars,
         [PromotesOutsiders]_accountVars
  PROVE  OrganizersApart'
  <1>1. CASE UNCHANGED accountVars
    BY <1>1 DEF accountVars, OrganizersApart, InTeam
  <1>2. CASE ~UNCHANGED accountVars
    <2>1. AccountsNext /\ PromotesOutsiders
      BY <1>2
    <2>2. ASSUME NEW p \in People, role'[p] = "ORGANIZER" PROVE ~InTeam(p)'
      <3>1. ~InTeam(p)
        BY <2>1, <2>2 DEF OrganizersApart, PromotesOutsiders
      <3> QED BY <2>1, <2>2, <3>1, OrganizersStayOut
    <2> QED BY <2>2 DEF OrganizersApart
  <1> QED BY <1>1, <1>2

LEMMA RevokesInTeam ==
  ASSUME AccountsInv, OrganizersApart, NEW c \in AccountCalls, Revoke(c)
  PROVE  role[Who(c)] # "ORGANIZER"
  <1>1. job[c].op = "revoke" /\ job[c] \in AccountJob
    BY DEF Revoke, Goes, AccountsInv
  <1>2. Who(c) \in People
    BY <1>1, JobKind DEF Who, TeamJob
  <1>3. InTeam(Who(c))
    BY <1>1 DEF InTeam, TeamWork, Who
  <1> QED BY <1>2, <1>3 DEF OrganizersApart

-----------------------------------------------------------------------------

\* Every variable has its type, and every handler remembers what its work needs.
THEOREM AccountsTypeCorrect == AccountsSpec => [](AccountsTypeOK /\ job \in [AccountCalls -> AccountJob])
  <1>1. AccountsInv => AccountsTypeOK /\ job \in [AccountCalls -> AccountJob]
    BY DEF AccountsInv
  <1> QED BY <1>1, AccountsStart, AccountsStepOK, PTL DEF AccountsSpec

\* Nobody is shown as approved with documents no approving reviewer has read,
\* for any number of people, reviewers and resubmissions, unless two saves of
\* the profile crossed: no other order of reads and writes does it.
THEOREM ApprovedWereSeen == AccountsSpec => []ApprovedDocsSeen
  <1>1. AccountsInv => ApprovedDocsSeen
    BY DEF AccountsInv
  <1> QED BY <1>1, AccountsStart, AccountsStepOK, PTL DEF AccountsSpec

\* The revocation says of itself that it lowers a COLLABORATOR.  It does, with
\* any number of overlapping requests, unless somebody who has a collaboration,
\* or for whom one is being made or ended, is made an organizer.
THEOREM LowersNoOrganizer ==
  AccountsSpec /\ [][PromotesOutsiders]_accountVars => RevokesOnlyCollaborators
  <1>1. AccountsInv /\ OrganizersApart /\ [AccountsNext]_accountVars
          /\ [PromotesOutsiders]_accountVars => OrganizersApart'
    BY ApartNext
  <1>2. AccountsInv /\ OrganizersApart =>
          [\A c \in AccountCalls : Revoke(c) => role[Who(c)] # "ORGANIZER"]_accountVars
    BY RevokesInTeam
  <1> QED BY <1>1, <1>2, AccountsStart, AccountsStepOK, ApartStart, PTL
          DEF AccountsSpec, RevokesOnlyCollaborators
=============================================================================
