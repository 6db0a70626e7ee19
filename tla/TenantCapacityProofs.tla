------------------------ MODULE TenantCapacityProofs -------------------------
(***************************************************************************)
(* Theorems about TenantCapacity, for any number of people and requests    *)
(* and for any limits.                                                     *)
(***************************************************************************)
EXTENDS TenantCapacity, FiniteSetTheorems, TLAPS

JobType  == [pc : {"idle", "sum", "read", "write"}, used : Nat, target : Int, month : Months]
CallType == [pc : Pcs, email : Emails \cup {"none"}, role : Roles, nr : Nat, month : Months]

\* What a request that is under way relies on in tables that only grow.
EntryOK(k, ni, np) ==
  /\ k.pc \in {"send", "join", "assign"} => k.email \in Emails
  /\ k.pc \in {"join", "seal"} => k.nr \in 1..ni
  /\ k.pc \in {"setup", "archive", "restore"} => k.nr \in 1..np

Tables == /\ users \in [Emails -> Roles \cup {"none"}]
          /\ invs \in Seq(InvRows) /\ projects \in Seq(Projects)
          /\ counter \in [Months -> Int] /\ stored \in Nat /\ month \in Months
          /\ job \in JobType
          /\ started \in Nat /\ faults \in Nat
Typed  == /\ Tables /\ call \in [Calls -> CallType]
          /\ \A p \in Calls : EntryOK(call[p], Len(invs), Len(projects))

LEMMA TypedImplies == Typed => TypeOK
PROOF BY DEF Typed, Tables, EntryOK, TypeOK, CallType, JobType

LEMMA IdleOK ==
  /\ Idle \in CallType /\ Idle.pc = "idle" /\ Idle.nr = 0 /\ Idle.email = "none" /\ Idle.role \in Roles
  /\ \A ni, np : EntryOK(Idle, ni, np)
  /\ JobIdle \in JobType
PROOF
<1>1. 0 \in Months
  BY CapacityAssumption DEF Months
<1> QED BY <1>1 DEF Idle, JobIdle, JobType, CallType, Pcs, Roles, EntryOK

\* Every step of a request gives it one new entry.
LEMMA StepTyped ==
  ASSUME Typed, Tables', NEW p \in Calls, NEW k \in CallType, call' = [call EXCEPT ![p] = k],
         Len(invs) <= Len(invs'), Len(projects) <= Len(projects'),
         EntryOK(k, Len(invs'), Len(projects'))
  PROVE  Typed'
PROOF
<1>a. invs \in Seq(InvRows) /\ projects \in Seq(Projects)
  BY DEF Typed, Tables
<1>b. invs' \in Seq(InvRows) /\ projects' \in Seq(Projects)
  BY DEF Tables
<1>c. Len(invs) \in Nat /\ Len(projects) \in Nat
  BY <1>a
<1>d. Len(invs') \in Nat /\ Len(projects') \in Nat
  BY <1>b
<1>e. call \in [Calls -> CallType]
  BY DEF Typed
<1>1. /\ Len(invs) \in Nat /\ Len(invs') \in Nat /\ Len(projects) \in Nat /\ Len(projects') \in Nat
      /\ call \in [Calls -> CallType]
  BY <1>c, <1>d, <1>e
<1>2. call' \in [Calls -> CallType]
  BY <1>1
<1>3. ASSUME NEW q \in Calls PROVE EntryOK(call'[q], Len(invs'), Len(projects'))
  <2>1. CASE q = p
    BY <2>1, <1>1
  <2>2. CASE q # p
    <3>1. call'[q] = call[q] /\ EntryOK(call[q], Len(invs), Len(projects)) /\ call[q].nr \in Nat
      BY <2>2, <1>1 DEF Typed, CallType
    <3> QED BY <3>1, <1>1 DEF EntryOK
  <2> QED BY <2>1, <2>2
<1> QED BY <1>2, <1>3 DEF Typed

\* A request that ends, or goes on to a step that relies on nothing.
LEMMA EndsTyped ==
  ASSUME Typed, Tables', NEW p \in Calls, Ends(p),
         Len(invs) <= Len(invs'), Len(projects) <= Len(projects')
  PROVE  Typed'
PROOF BY IdleOK, StepTyped DEF Ends

LEMMA GoesEntry ==
  ASSUME Typed, NEW p \in Calls, NEW pc \in Pcs, Goes(p, pc)
  PROVE  LET k == [call[p] EXCEPT !.pc = pc]
         IN  /\ k \in CallType /\ call' = [call EXCEPT ![p] = k] /\ k.pc = pc
             /\ k.email = call[p].email /\ k.role = call[p].role /\ k.nr = call[p].nr /\ k.month = call[p].month
PROOF
<1>1. call[p] \in CallType /\ call \in [Calls -> CallType]
  BY DEF Typed
<1> QED BY <1>1 DEF Goes, CallType

LEMMA BeginsTyped ==
  ASSUME Typed, NEW p \in Calls, NEW op, NEW k \in CallType, Begins(p, op, k),
         EntryOK(k, Len(invs), Len(projects)),
         UNCHANGED <<users, invs, projects, counter, stored, month, job, faults>>
  PROVE  Typed' /\ call' = [call EXCEPT ![p] = k]
PROOF
<1>1. call' = [call EXCEPT ![p] = k] /\ started' = started + 1
  BY DEF Begins
<1>2. Tables'
  BY <1>1 DEF Typed, Tables
<1>3. Len(invs) \in Nat /\ Len(projects) \in Nat /\ invs' = invs /\ projects' = projects
  BY DEF Typed, Tables
<1>4. EntryOK(k, Len(invs'), Len(projects')) /\ Len(invs) <= Len(invs') /\ Len(projects) <= Len(projects')
  BY <1>3
<1> QED BY <1>1, <1>2, <1>4, StepTyped

\* The entry a starting request has.
LEMMA StartEntry ==
  ASSUME Typed, NEW p \in Calls, Starts(p)
  PROVE  /\ Typed' /\ UNCHANGED <<users, invs, projects, counter, stored, month, job, faults>>
         /\ \E k \in CallType :
              /\ call' = [call EXCEPT ![p] = k]
              /\ k.pc \in {"send", "join", "assign", "create", "archive", "restore", "reserve"}
              /\ k.pc = "join" =>
                   /\ k.nr \in 1..Len(invs) /\ k.email = invs[k.nr].email
                   /\ HasRoom(Pool(k.role))
              /\ k.pc = "assign" => k.email \in Emails /\ (users[k.email] # k.role => HasRoom(Pool(k.role)))
              /\ k.pc = "restore" => k.nr \in 1..Len(projects)
              /\ k.pc \in {"create", "restore"} => HasRoom("projects")
              /\ k.pc = "reserve" => k.month = month /\ HasRoom("storage")
PROOF
<1>i. /\ Idle \in CallType /\ invs \in Seq(InvRows) /\ Len(invs) \in Nat /\ Len(projects) \in Nat /\ month \in Months
  BY IdleOK DEF Typed, Tables
<1>u. UNCHANGED <<users, invs, projects, counter, stored, month, job, faults>>
  BY DEF Starts, Invite, Accept, ChangeRole, CreateProject, ArchiveProject, RestoreProject, Upload
<1>1. CASE Invite(p)
  <2>1. PICK e \in Emails, r \in Roles : Begins(p, "invite", [Idle EXCEPT !.pc = "send", !.email = e, !.role = r])
    BY <1>1 DEF Invite
  <2> DEFINE k == [Idle EXCEPT !.pc = "send", !.email = e, !.role = r]
  <2>2. k \in CallType /\ k.pc = "send" /\ k.email = e
    BY <1>i DEF CallType, Pcs
  <2>3. EntryOK(k, Len(invs), Len(projects))
    BY <2>2 DEF EntryOK
  <2> HIDE DEF k
  <2> QED BY <2>1, <2>2, <2>3, <1>u, BeginsTyped DEF k
<1>2. CASE Accept(p)
  <2>1. PICK i \in 1..Len(invs) :
       /\ HasRoom(Pool(invs[i].role))
       /\ Begins(p, "accept", [Idle EXCEPT !.pc = "join", !.email = invs[i].email, !.role = invs[i].role, !.nr = i])
    BY <1>2 DEF Accept
  <2> DEFINE k == [Idle EXCEPT !.pc = "join", !.email = invs[i].email, !.role = invs[i].role, !.nr = i]
  <2>r. invs[i] \in InvRows
    BY <1>i
  <2>t. invs[i].email \in Emails /\ invs[i].role \in Roles /\ i \in Nat
    BY <2>r, <1>i DEF InvRows
  <2>2. k \in CallType /\ k.pc = "join" /\ k.email = invs[i].email /\ k.nr = i /\ k.role = invs[i].role
    BY <1>i, <2>t DEF CallType, Pcs
  <2>3. EntryOK(k, Len(invs), Len(projects))
    BY <2>2, <2>t DEF EntryOK
  <2>4. Begins(p, "accept", k) /\ HasRoom(Pool(k.role))
    BY <2>1, <2>2
  <2> HIDE DEF k
  <2> QED BY <2>2, <2>3, <2>4, <1>u, BeginsTyped
<1>3. CASE ChangeRole(p)
  <2>1. PICK e \in Emails, r \in Roles :
       /\ users[e] # r => HasRoom(Pool(r))
       /\ Begins(p, "role", [Idle EXCEPT !.pc = "assign", !.email = e, !.role = r])
    BY <1>3 DEF ChangeRole
  <2> DEFINE k == [Idle EXCEPT !.pc = "assign", !.email = e, !.role = r]
  <2>2. k \in CallType /\ k.pc = "assign" /\ k.email = e /\ k.role = r
    BY <1>i DEF CallType, Pcs
  <2>3. EntryOK(k, Len(invs), Len(projects))
    BY <2>2 DEF EntryOK
  <2>4. Begins(p, "role", k)
    BY <2>1
  <2> HIDE DEF k
  <2> QED BY <2>1, <2>2, <2>3, <2>4, <1>u, BeginsTyped
<1>4. CASE CreateProject(p)
  <2> DEFINE k == [Idle EXCEPT !.pc = "create"]
  <2>2. k \in CallType /\ k.pc = "create"
    BY <1>i DEF CallType, Pcs
  <2>3. EntryOK(k, Len(invs), Len(projects))
    BY <2>2 DEF EntryOK
  <2>4. Begins(p, "create", k) /\ HasRoom("projects")
    BY <1>4 DEF CreateProject
  <2> HIDE DEF k
  <2> QED BY <2>2, <2>3, <2>4, <1>u, BeginsTyped
<1>5. CASE ArchiveProject(p)
  <2>1. PICK i \in ActiveProjects : Begins(p, "archive", [Idle EXCEPT !.pc = "archive", !.nr = i])
    BY <1>5 DEF ArchiveProject
  <2> DEFINE k == [Idle EXCEPT !.pc = "archive", !.nr = i]
  <2>t. i \in 1..Len(projects) /\ i \in Nat
    BY <1>i DEF ActiveProjects
  <2>2. k \in CallType /\ k.pc = "archive" /\ k.nr = i
    BY <1>i, <2>t DEF CallType, Pcs
  <2>3. EntryOK(k, Len(invs), Len(projects))
    BY <2>2, <2>t DEF EntryOK
  <2>4. Begins(p, "archive", k)
    BY <2>1
  <2> HIDE DEF k
  <2> QED BY <2>2, <2>3, <2>4, <1>u, BeginsTyped
<1>6. CASE RestoreProject(p)
  <2>1. PICK i \in 1..Len(projects) \ ActiveProjects : Begins(p, "restore", [Idle EXCEPT !.pc = "restore", !.nr = i])
    BY <1>6 DEF RestoreProject
  <2> DEFINE k == [Idle EXCEPT !.pc = "restore", !.nr = i]
  <2>t. i \in 1..Len(projects) /\ i \in Nat
    BY <1>i
  <2>2. k \in CallType /\ k.pc = "restore" /\ k.nr = i
    BY <1>i, <2>t DEF CallType, Pcs
  <2>3. EntryOK(k, Len(invs), Len(projects))
    BY <2>2, <2>t DEF EntryOK
  <2>4. Begins(p, "restore", k) /\ HasRoom("projects")
    BY <2>1, <1>6 DEF RestoreProject
  <2> HIDE DEF k
  <2> QED BY <2>2, <2>3, <2>4, <2>t, <1>u, BeginsTyped
<1>7. CASE Upload(p)
  <2> DEFINE k == [Idle EXCEPT !.pc = "reserve", !.month = month]
  <2>2. k \in CallType /\ k.pc = "reserve" /\ k.month = month
    BY <1>i DEF CallType, Pcs
  <2>3. EntryOK(k, Len(invs), Len(projects))
    BY <2>2 DEF EntryOK
  <2>4. Begins(p, "upload", k) /\ HasRoom("storage")
    BY <1>7 DEF Upload
  <2> HIDE DEF k
  <2> QED BY <2>2, <2>3, <2>4, <1>u, BeginsTyped
<1> QED BY <1>1, <1>2, <1>3, <1>4, <1>5, <1>6, <1>7 DEF Starts

\* Where a request is after a step that did not start it.
Later == {"idle", "seal", "setup", "save", "release", "clamp", "clampSave"}
Proceeds(p) == Continues(p) \/ SaveFails(p) \/ Crash(p)

\* The entry a request has after a later step: it waits for room no more, and
\* only a new user is followed by the seal of the invitation.
LEMMA LaterEntry ==
  ASSUME Typed, NEW p \in Calls, Proceeds(p)
  PROVE  /\ Typed'
         /\ \E k \in CallType :
              /\ call' = [call EXCEPT ![p] = k]
              /\ k.pc \in Later
              /\ k.pc = "seal" => Join(p) /\ k.nr = call[p].nr /\ users[call[p].email] = "none"
              /\ k.pc = "clamp" => k.month = month
              /\ k.pc = "clampSave" => call[p].pc = "reserve" /\ k.month = call[p].month
PROOF
<1>i. /\ Idle \in CallType /\ Idle.pc = "idle" /\ call[p] \in CallType /\ call \in [Calls -> CallType]
      /\ invs \in Seq(InvRows) /\ Len(invs) \in Nat /\ projects \in Seq(Projects) /\ Len(projects) \in Nat
      /\ counter \in [Months -> Int] /\ month \in Months /\ users \in [Emails -> Roles \cup {"none"}]
      /\ EntryOK(call[p], Len(invs), Len(projects)) /\ EntryOK(Idle, Len(invs), Len(projects))
      /\ \A q \in 1..Len(invs) : invs[q] \in InvRows
      /\ \A q \in 1..Len(projects) : projects[q] \in Projects
  BY IdleOK DEF Typed, Tables
<1>k. call[p].role \in Roles /\ call[p].nr \in Nat /\ call[p].month \in Months
  BY <1>i DEF CallType
<1>e. ASSUME Ends(p), Tables', Len(invs) <= Len(invs'), Len(projects) <= Len(projects')
      PROVE  /\ Typed'
             /\ \E k \in CallType :
                  /\ call' = [call EXCEPT ![p] = k]
                  /\ k.pc \in Later
                  /\ k.pc \notin {"seal", "clamp", "clampSave"}
  BY <1>e, <1>i, EndsTyped DEF Ends, Later
<1>a. ASSUME NEW m \in Months, NEW n \in {1, -1}, Adds(m, n)
      PROVE  counter' \in [Months -> Int]
  BY <1>a, <1>i DEF Adds
<1>1. CASE Send(p)
  <2>1. call[p].email \in Emails
    BY <1>1, <1>i DEF Send, EntryOK
  <2>2. Invitation(call[p].email, call[p].role) \in InvRows
    BY <2>1, <1>k DEF Invitation, InvRows
  <2>3. invs' \in Seq(InvRows) /\ Len(invs') = Len(invs) + 1
    BY <2>2, <1>1, <1>i DEF Send
  <2>4. Tables' /\ Len(invs) <= Len(invs') /\ Len(projects) <= Len(projects')
    BY <2>3, <1>1, <1>i DEF Send, Tables, Typed
  <2> QED BY <2>4, <1>1, <1>e DEF Send
<1>2. CASE Join(p)
  <2>1. CASE users[call[p].email] # "none"
    <3>1. Tables' /\ Len(invs) <= Len(invs') /\ Len(projects) <= Len(projects') /\ Ends(p)
      BY <2>1, <1>2, <1>i DEF Join, Tables, Typed
    <3> QED BY <3>1, <1>e
  <2>2. CASE users[call[p].email] = "none"
    <3>1. call[p].pc = "join" /\ call[p].email \in Emails
      BY <1>2, <1>i DEF Join, EntryOK
    <3>2. Goes(p, "seal") /\ users' = [users EXCEPT ![call[p].email] = call[p].role]
      BY <2>2, <1>2 DEF Join
    <3>3. users' \in [Emails -> Roles \cup {"none"}]
      BY <3>2, <1>i, <1>k
    <3>4. Tables' /\ Len(invs) <= Len(invs') /\ Len(projects) <= Len(projects') /\ invs' = invs /\ projects' = projects
      BY <3>3, <1>2, <1>i DEF Join, Tables, Typed
    <3> DEFINE k == [call[p] EXCEPT !.pc = "seal"]
    <3>5. k \in CallType /\ call' = [call EXCEPT ![p] = k] /\ k.pc = "seal" /\ k.nr = call[p].nr
      BY <3>2, GoesEntry DEF Pcs
    <3>6. EntryOK(k, Len(invs'), Len(projects'))
      BY <3>1, <3>4, <3>5, <1>i DEF EntryOK
    <3> HIDE DEF k
    <3> QED BY <3>4, <3>5, <3>6, <2>2, <1>2, StepTyped DEF Later
  <2> QED BY <2>1, <2>2
<1>3. CASE Seal(p)
  <2>1. call[p].nr \in 1..Len(invs)
    BY <1>3, <1>i DEF Seal, EntryOK
  <2>2. invs[call[p].nr] \in InvRows
    BY <2>1, <1>i
  <2>3. [invs[call[p].nr] EXCEPT !.accepted = TRUE] \in InvRows
    BY <2>2 DEF InvRows
  <2>4. invs' \in Seq(InvRows) /\ Len(invs') = Len(invs)
    BY <2>1, <2>3, <1>3, <1>i DEF Seal
  <2>5. Tables' /\ Len(invs) <= Len(invs') /\ Len(projects) <= Len(projects')
    BY <2>4, <1>3, <1>i DEF Seal, Tables, Typed
  <2> QED BY <2>5, <1>3, <1>e DEF Seal
<1>4. CASE Assign(p)
  <2>1. users' \in [Emails -> Roles \cup {"none"}]
    BY <1>4, <1>i, <1>k DEF Assign
  <2>2. Tables' /\ Len(invs) <= Len(invs') /\ Len(projects) <= Len(projects')
    BY <2>1, <1>4, <1>i DEF Assign, Tables, Typed
  <2> QED BY <2>2, <1>4, <1>e DEF Assign
<1>5. CASE Create(p)
  <2> DEFINE k == [Idle EXCEPT !.pc = "setup", !.nr = Len(projects) + 1]
  <2>1. [active |-> TRUE, ready |-> FALSE] \in Projects
    BY DEF Projects
  <2>2. projects' \in Seq(Projects) /\ Len(projects') = Len(projects) + 1
    BY <2>1, <1>5, <1>i DEF Create
  <2>3. Tables' /\ Len(invs) <= Len(invs') /\ Len(projects) <= Len(projects')
    BY <2>2, <1>5, <1>i DEF Create, Tables, Typed
  <2>4. Len(projects) + 1 \in Nat
    BY <1>i
  <2>5. k \in CallType /\ k.pc = "setup" /\ k.nr = Len(projects) + 1
    BY <2>4, <1>i DEF CallType, Pcs
  <2>6. EntryOK(k, Len(invs'), Len(projects'))
    BY <2>2, <2>5, <1>i DEF EntryOK
  <2>7. call' = [call EXCEPT ![p] = k]
    BY <1>5 DEF Create
  <2> HIDE DEF k
  <2> QED BY <2>3, <2>5, <2>6, <2>7, StepTyped DEF Later
<1>6. CASE Setup(p) \/ Archive(p) \/ Restore(p)
  <2>1. call[p].nr \in 1..Len(projects) /\ Ends(p)
    BY <1>6, <1>i DEF Setup, Archive, Restore, EntryOK
  <2>2. projects[call[p].nr] \in Projects
    BY <2>1, <1>i
  <2>3. /\ [projects[call[p].nr] EXCEPT !.ready = TRUE] \in Projects
        /\ [projects[call[p].nr] EXCEPT !.active = TRUE] \in Projects
        /\ [projects[call[p].nr] EXCEPT !.active = FALSE] \in Projects
    BY <2>2 DEF Projects
  <2>4. projects' \in Seq(Projects) /\ Len(projects') = Len(projects)
    <3>1. \E r \in Projects : projects' = [projects EXCEPT ![call[p].nr] = r]
      <4>1. CASE Setup(p)
        <5>1. projects' = [projects EXCEPT ![call[p].nr] = [projects[call[p].nr] EXCEPT !.ready = TRUE]]
          BY <4>1, <2>1, <1>i DEF Setup
        <5> QED BY <5>1, <2>3
      <4>2. CASE Archive(p)
        <5>1. projects' = [projects EXCEPT ![call[p].nr] = [projects[call[p].nr] EXCEPT !.active = FALSE]]
          BY <4>2, <2>1, <1>i DEF Archive
        <5> QED BY <5>1, <2>3
      <4>3. CASE Restore(p)
        <5>1. projects' = [projects EXCEPT ![call[p].nr] = [projects[call[p].nr] EXCEPT !.active = TRUE]]
          BY <4>3, <2>1, <1>i DEF Restore
        <5> QED BY <5>1, <2>3
      <4> QED BY <4>1, <4>2, <4>3, <1>6
    <3> QED BY <3>1, <2>1, <1>i
  <2>5. Tables' /\ Len(invs) <= Len(invs') /\ Len(projects) <= Len(projects')
    BY <2>4, <1>6, <1>i DEF Setup, Archive, Restore, Tables, Typed
  <2> QED BY <2>1, <2>5, <1>e
<1>7. CASE Reserve(p) \/ SaveFails(p) \/ (Clamp(p) /\ call[p].pc = "clampSave")
  <2>1. counter' \in [Months -> Int]
    BY <1>7, <1>a, <1>i, <1>k DEF Reserve, SaveFails, Clamp
  <2>u. UNCHANGED <<users, invs, projects, stored, month, job, started>>
    BY <1>7 DEF Reserve, SaveFails, Clamp
  <2>f. faults \in Nat /\ faults' \in Nat
    BY <1>7 DEF Reserve, SaveFails, Clamp, Typed, Tables
  <2>t. Tables'
    BY <2>1, <2>u, <2>f DEF Tables, Typed
  <2>2. /\ Tables' /\ Len(invs) <= Len(invs') /\ Len(projects) <= Len(projects')
        /\ invs' = invs /\ projects' = projects
    BY <2>t, <2>u, <1>i
  <2>3. PICK pc \in {"save", "release", "clampSave"} :
          Goes(p, pc) /\ (pc = "clampSave" => call[p].pc = "reserve")
    BY <1>7 DEF Reserve, SaveFails, Clamp
  <2> DEFINE k == [call[p] EXCEPT !.pc = pc]
  <2>4. k \in CallType /\ call' = [call EXCEPT ![p] = k] /\ k.pc = pc /\ k.month = call[p].month
    <3>1. pc \in Pcs
      BY DEF Pcs
    <3> QED BY <2>3, <3>1, GoesEntry
  <2>5. EntryOK(k, Len(invs'), Len(projects'))
    BY <2>3, <2>4 DEF EntryOK
  <2> HIDE DEF k
  <2> QED BY <2>2, <2>3, <2>4, <2>5, StepTyped DEF Later
<1>8. CASE Save(p) \/ (Release(p) /\ Ends(p)) \/ Crash(p) \/ (Clamp(p) /\ call[p].pc = "clamp")
  <2>1. counter' \in [Months -> Int]
    BY <1>8, <1>a, <1>i, <1>k DEF Save, Release, Crash, Clamp
  <2>2. stored' \in Nat /\ faults' \in Nat
    BY <1>8 DEF Save, Release, Crash, Clamp, Typed, Tables
  <2>3. Tables' /\ Len(invs) <= Len(invs') /\ Len(projects) <= Len(projects') /\ Ends(p)
    BY <2>1, <2>2, <1>8, <1>i DEF Save, Release, Crash, Clamp, Tables, Typed
  <2> QED BY <2>3, <1>e
<1>9. CASE Release(p) /\ ~ Ends(p)
  <2> DEFINE k == [Idle EXCEPT !.pc = "clamp", !.month = month]
  <2>1. counter' \in [Months -> Int]
    BY <1>9, <1>a, <1>i DEF Release
  <2>2. Tables' /\ Len(invs) <= Len(invs') /\ Len(projects) <= Len(projects')
    BY <2>1, <1>9, <1>i DEF Release, Tables, Typed
  <2>3. k \in CallType /\ k.pc = "clamp" /\ k.month = month
    BY <1>i DEF CallType, Pcs
  <2>4. call' = [call EXCEPT ![p] = k]
    BY <1>9 DEF Release
  <2>5. EntryOK(k, Len(invs'), Len(projects'))
    BY <2>3 DEF EntryOK
  <2> HIDE DEF k
  <2> QED BY <2>2, <2>3, <2>4, <2>5, StepTyped DEF Later
<1>c. Clamp(p) => call[p].pc \in {"clamp", "clampSave"}
  BY DEF Clamp
<1> QED BY <1>1, <1>2, <1>3, <1>4, <1>5, <1>6, <1>7, <1>8, <1>9, <1>c DEF Proceeds, Continues

\* Steps of nobody's request.
World == Job \/ Expire \/ NewMonth \/ UNCHANGED vars

LEMMA WorldTyped ==
  ASSUME Typed, World
  PROVE  /\ Typed' /\ UNCHANGED <<users, projects, call>> /\ Len(invs') = Len(invs)
         /\ \A i \in 1..Len(invs) : invs'[i].email = invs[i].email /\ invs'[i].accepted = invs[i].accepted
PROOF
<1>i. /\ invs \in Seq(InvRows) /\ Len(invs) \in Nat
      /\ counter \in [Months -> Int] /\ month \in Months /\ stored \in Nat
      /\ job \in JobType
      /\ \A q \in 1..Len(invs) : invs[q] \in InvRows
      /\ JobIdle \in JobType
  BY IdleOK DEF Typed, Tables
<1>u. UNCHANGED <<users, projects, call, stored, started, faults>>
  BY DEF World, Job, JobList, JobSum, JobRead, JobWrite, JobFails, Expire, NewMonth, vars
<1>n. /\ \A m \in Months : counter[m] \in Int /\ Larger(counter[m], 0) \in Nat
      /\ job.month \in Months /\ job.target \in Int
      /\ Lesser(job.target, counter[job.month]) \in Int
  BY <1>i DEF Larger, Lesser, JobType
<1>1. CASE JobList \/ JobSum \/ JobRead \/ JobFails
  <2>1. job' \in JobType
    <3> DEFINE least == Lesser(job.target, counter[job.month])
               most  == Larger(counter[month], 0)
    <3>1. least \in Int /\ most \in Nat
      BY <1>i, <1>n
    <3> HIDE DEF least, most
    <3>2. [job EXCEPT !.pc = "write", !.target = least] \in JobType
      BY <3>1, <1>i DEF JobType
    <3>3. [job EXCEPT !.pc = "read", !.used = 0, !.target = stored] \in JobType
      <4>1. stored \in Int
        BY <1>i
      <4> QED BY <4>1, <1>i DEF JobType
    <3>4. [JobIdle EXCEPT !.pc = "sum", !.used = most, !.month = month] \in JobType
      BY <3>1, <1>i DEF JobType
    <3> QED BY <1>1, <3>2, <3>3, <3>4, <1>i DEF JobList, JobSum, JobRead, JobFails, least, most
  <2>2. UNCHANGED <<invs, counter, month>>
    BY <1>1 DEF JobList, JobSum, JobRead, JobFails
  <2> QED BY <2>1, <2>2, <1>u DEF Typed, Tables
<1>2. CASE JobWrite
  <2>1. counter' \in [Months -> Int]
    BY <1>2, <1>i, <1>n DEF JobWrite
  <2>2. UNCHANGED <<invs, month>> /\ job' = JobIdle
    BY <1>2 DEF JobWrite
  <2> QED BY <2>1, <2>2, <1>u, <1>i DEF Typed, Tables
<1>3. CASE Expire
  <2>1. PICK i \in 1..Len(invs) : invs' = [invs EXCEPT ![i].open = FALSE]
    BY <1>3 DEF Expire
  <2>2. invs[i] \in InvRows /\ [invs[i] EXCEPT !.open = FALSE] \in InvRows
    <3>1. invs[i] \in InvRows
      BY <1>i
    <3> QED BY <3>1 DEF InvRows
  <2>3. /\ invs' \in Seq(InvRows) /\ Len(invs') = Len(invs)
        /\ invs'[i] = [invs[i] EXCEPT !.open = FALSE]
        /\ \A q \in 1..Len(invs) \ {i} : invs'[q] = invs[q]
    <3>1. invs' = [invs EXCEPT ![i] = [invs[i] EXCEPT !.open = FALSE]]
      BY <2>1, <1>i
    <3>2. PICK r \in InvRows : r = [invs[i] EXCEPT !.open = FALSE]
      BY <2>2
    <3>3. invs' = [invs EXCEPT ![i] = r]
      BY <3>1, <3>2
    <3>4. invs' \in Seq(InvRows) /\ Len(invs') = Len(invs) /\ invs'[i] = r
          /\ \A q \in 1..Len(invs) \ {i} : invs'[q] = invs[q]
      BY <3>3, <1>i
    <3> QED BY <3>2, <3>4
  <2>4. \A q \in 1..Len(invs) : invs'[q].email = invs[q].email /\ invs'[q].accepted = invs[q].accepted
    BY <2>2, <2>3 DEF InvRows
  <2>5. UNCHANGED <<counter, month, job>>
    BY <1>3 DEF Expire
  <2> QED BY <2>3, <2>4, <2>5, <1>u, <1>i DEF Typed, Tables
<1>4. CASE NewMonth
  <2>1. month' \in Months
    BY <1>4, <1>i, CapacityAssumption DEF NewMonth, Months
  <2>2. UNCHANGED <<invs, counter, job>>
    BY <1>4 DEF NewMonth
  <2> QED BY <2>1, <2>2, <1>u DEF Typed, Tables
<1>5. CASE UNCHANGED vars
  <2>1. UNCHANGED <<invs, counter, job, month>>
    BY <1>5 DEF vars
  <2> QED BY <2>1, <1>u DEF Typed, Tables
<1> QED BY <1>1, <1>2, <1>3, <1>4, <1>5 DEF World, Job

LEMMA NextCases ==
  ASSUME [Next]_vars
  PROVE  (\E p \in Calls : Starts(p) \/ Proceeds(p)) \/ World
PROOF BY DEF Next, Proceeds, World

LEMMA TypedInit == Init => Typed
PROOF
<1> SUFFICES ASSUME Init PROVE Typed
  OBVIOUS
<1>1. Idle \in CallType /\ EntryOK(Idle, Len(invs), Len(projects))
      /\ JobIdle \in JobType
  BY IdleOK
<1>2. invs \in Seq(InvRows)
  <2>1. ASSUME NEW e \in Emails, NEW r \in Roles PROVE Invitation(e, r) \in InvRows
    BY DEF Invitation, InvRows
  <2>2. "MEMBER" \in Roles
    BY DEF Roles
  <2>3. CASE invs = <<>>
    BY <2>3
  <2>4. ASSUME NEW e \in Emails, NEW g \in Emails, invs = <<Invitation(e, "MEMBER"), Invitation(g, "MEMBER")>>
        PROVE  invs \in Seq(InvRows)
    BY <2>1, <2>2, <2>4
  <2> QED BY <2>3, <2>4 DEF Init
<1>3. projects \in Seq(Projects)
  <2>1. PICK b \in BOOLEAN : projects = <<[active |-> b, ready |-> TRUE]>>
    BY DEF Init
  <2>2. [active |-> b, ready |-> TRUE] \in Projects
    BY DEF Projects
  <2> QED BY <2>1, <2>2
<1>4. 0 \in Months
  BY CapacityAssumption DEF Months
<1>5. Tables
  BY <1>1, <1>2, <1>3, <1>4 DEF Init, Tables
<1> QED BY <1>1, <1>5 DEF Init, Typed

LEMMA TypedNext == Typed /\ [Next]_vars => Typed'
PROOF BY NextCases, StartEntry, LaterEntry, WorldTyped

(***************************************************************************)
(* Acceptances.  A person who accepted is a user, and at most one of the   *)
(* invitations of an e-mail is accepted or about to be.                    *)
(***************************************************************************)
Sealing(p) == call[p].pc = "seal"
Invited(p) == invs[call[p].nr].email
Claims ==
  /\ \A p \in Calls : call[p].pc = "join" => call[p].email = Invited(p)
  /\ \A p \in Calls : Sealing(p) => users[Invited(p)] # "none"
  /\ \A i \in 1..Len(invs) : invs[i].accepted => users[invs[i].email] # "none"
  /\ \A i, j \in 1..Len(invs) : invs[i].accepted /\ invs[j].accepted /\ invs[i].email = invs[j].email => i = j
  /\ \A p \in Calls, i \in 1..Len(invs) : Sealing(p) /\ invs[i].accepted => Invited(p) # invs[i].email
  /\ \A p, q \in Calls : Sealing(p) /\ Sealing(q) /\ Invited(p) = Invited(q) => p = q

LEMMA RowsTyped ==
  ASSUME Typed
  PROVE  /\ Len(invs) \in Nat /\ invs \in Seq(InvRows) /\ call \in [Calls -> CallType]
         /\ users \in [Emails -> Roles \cup {"none"}]
         /\ \A i \in 1..Len(invs) : invs[i] \in InvRows /\ invs[i].email \in Emails
         /\ \A q \in Calls : call[q].pc \in {"join", "seal"} => call[q].nr \in 1..Len(invs)
PROOF
<1>1. invs \in Seq(InvRows) /\ Len(invs) \in Nat
  BY DEF Typed, Tables
<1>2. \A i \in 1..Len(invs) : invs[i] \in InvRows
  BY <1>1
<1>3. \A i \in 1..Len(invs) : invs[i].email \in Emails
  BY <1>2 DEF InvRows
<1>4. \A q \in Calls : call[q].pc \in {"join", "seal"} => call[q].nr \in 1..Len(invs)
  BY DEF Typed, EntryOK
<1> QED BY <1>1, <1>2, <1>3, <1>4 DEF Typed, Tables

\* Steps that neither add a user nor accept an invitation.
LEMMA ClaimsKept ==
  ASSUME Typed, Typed', Claims, NEW p \in Calls, NEW k \in CallType, call' = [call EXCEPT ![p] = k],
         k.pc # "seal", k.pc = "join" => k.nr \in 1..Len(invs) /\ k.email = invs[k.nr].email,
         \A e \in Emails : users[e] # "none" => users'[e] # "none",
         Len(invs) <= Len(invs'),
         \A i \in 1..Len(invs) : invs'[i].email = invs[i].email /\ invs'[i].accepted = invs[i].accepted,
         \A i \in 1..Len(invs') : i > Len(invs) => ~ invs'[i].accepted
  PROVE  Claims'
PROOF
<1>n. Len(invs') \in Nat
  BY DEF Typed, Tables
<1>1. /\ Len(invs) \in Nat /\ call \in [Calls -> CallType]
      /\ \A i \in 1..Len(invs) : invs[i].email \in Emails
      /\ \A q \in Calls : call[q].pc \in {"join", "seal"} => call[q].nr \in 1..Len(invs)
  BY RowsTyped
<1>2. call'[p] = k /\ \A q \in Calls \ {p} : call'[q] = call[q]
  BY <1>1
<1>3. \A q \in Calls : Sealing(q)' => Sealing(q) /\ call'[q] = call[q] /\ Invited(q)' = Invited(q)
  BY <1>1, <1>2 DEF Sealing, Invited
<1>4. \A i \in 1..Len(invs') : invs'[i].accepted =>
         i \in 1..Len(invs) /\ invs[i].accepted /\ invs'[i].email = invs[i].email
  BY <1>1, <1>n
<1>5. ASSUME NEW q \in Calls, call'[q].pc = "join" PROVE call'[q].email = Invited(q)'
  <2>1. CASE q = p
    BY <2>1, <1>2, <1>5, <1>1 DEF Invited
  <2>2. CASE q # p
    BY <2>2, <1>2, <1>5, <1>1 DEF Invited, Claims
  <2> QED BY <2>1, <2>2
<1>6. \A q \in Calls : Sealing(q)' => (users[Invited(q)] # "none")'
  <2>1. \A q \in Calls : Sealing(q) => Invited(q) \in Emails /\ users[Invited(q)] # "none"
    BY <1>1 DEF Claims, Sealing, Invited
  <2> QED BY <2>1, <1>3
<1>7. \A i \in 1..Len(invs') : invs'[i].accepted => users'[invs'[i].email] # "none"
  BY <1>1, <1>4 DEF Claims
<1>8. \A i, j \in 1..Len(invs') : invs'[i].accepted /\ invs'[j].accepted /\ invs'[i].email = invs'[j].email => i = j
  BY <1>4 DEF Claims
<1>9. \A q \in Calls, i \in 1..Len(invs') : Sealing(q)' /\ invs'[i].accepted => Invited(q)' # invs'[i].email
  BY <1>3, <1>4 DEF Claims
<1>10. \A q, r \in Calls : Sealing(q)' /\ Sealing(r)' /\ Invited(q)' = Invited(r)' => q = r
  BY <1>3 DEF Claims
<1> QED BY <1>5, <1>6, <1>7, <1>8, <1>9, <1>10 DEF Claims

\* A user is created: nobody with the e-mail had accepted or was about to.
LEMMA JoinClaims ==
  ASSUME Typed, Typed', Claims, NEW p \in Calls, Join(p), users[call[p].email] = "none"
  PROVE  Claims'
PROOF
<1>1. /\ Len(invs) \in Nat /\ call \in [Calls -> CallType] /\ users \in [Emails -> Roles \cup {"none"}]
      /\ \A i \in 1..Len(invs) : invs[i].email \in Emails
      /\ \A q \in Calls : call[q].pc \in {"join", "seal"} => call[q].nr \in 1..Len(invs)
  BY RowsTyped
<1> DEFINE e == call[p].email
           k == [call[p] EXCEPT !.pc = "seal"]
<1>2. call[p].pc = "join" /\ Goes(p, "seal") /\ invs' = invs /\ users' = [users EXCEPT ![e] = call[p].role]
  BY DEF Join
<1>3. k.pc = "seal" /\ k.nr = call[p].nr /\ call' = [call EXCEPT ![p] = k]
  <2>1. "seal" \in Pcs
    BY DEF Pcs
  <2> QED BY <2>1, <1>2, GoesEntry
<1>4. call'[p] = k /\ \A q \in Calls \ {p} : call'[q] = call[q]
  BY <1>1, <1>3
<1>5. e = Invited(p) /\ e \in Emails /\ call[p].role # "none"
  <2>1. call[p].role \in Roles
    BY <1>1 DEF CallType
  <2> QED BY <1>1, <1>2, <2>1 DEF Claims, Invited, Roles
<1>6. users'[e] # "none" /\ \A a \in Emails : users[a] # "none" => users'[a] # "none"
  BY <1>1, <1>2, <1>5
<1>7. \A q \in Calls : Invited(q)' = Invited(q)
  BY <1>2, <1>3, <1>4 DEF Invited
<1>8. \A q \in Calls : (Sealing(q)' <=> q = p \/ Sealing(q)) /\ (q # p => call'[q] = call[q])
  BY <1>3, <1>4 DEF Sealing
<1>9. \A q \in Calls : Sealing(q) => Invited(q) # e /\ Invited(q) \in Emails /\ users[Invited(q)] # "none"
  BY <1>1 DEF Claims, Sealing, Invited
<1>10. \A i \in 1..Len(invs) : invs[i].accepted => invs[i].email # e
  BY DEF Claims
<1>11. \A q \in Calls : call'[q].pc = "join" => call'[q].email = Invited(q)'
  BY <1>3, <1>4, <1>7 DEF Claims
<1>12. \A q \in Calls : Sealing(q)' => users'[Invited(q)'] # "none"
  BY <1>5, <1>6, <1>7, <1>8, <1>9
<1>13. \A i \in 1..Len(invs) : invs[i].accepted => users'[invs[i].email] # "none"
  BY <1>1, <1>6 DEF Claims
<1>14. \A q \in Calls, i \in 1..Len(invs) : Sealing(q)' /\ invs[i].accepted => Invited(q)' # invs[i].email
  BY <1>5, <1>7, <1>8, <1>10 DEF Claims
<1>15. \A q, r \in Calls : Sealing(q)' /\ Sealing(r)' /\ Invited(q)' = Invited(r)' => q = r
  BY <1>5, <1>7, <1>8, <1>9 DEF Claims
<1> QED BY <1>2, <1>11, <1>12, <1>13, <1>14, <1>15 DEF Claims

\* The invitation of the new user is sealed.
LEMMA SealClaims ==
  ASSUME Typed, Typed', Claims, NEW p \in Calls, Seal(p)
  PROVE  Claims'
PROOF
<1>1. /\ Len(invs) \in Nat /\ invs \in Seq(InvRows) /\ call \in [Calls -> CallType]
      /\ \A i \in 1..Len(invs) : invs[i] \in InvRows
      /\ \A q \in Calls : call[q].pc \in {"join", "seal"} => call[q].nr \in 1..Len(invs)
  BY RowsTyped
<1> DEFINE n == call[p].nr
<1>2. Sealing(p) /\ n \in 1..Len(invs) /\ call' = [call EXCEPT ![p] = Idle] /\ users' = users /\ Idle.pc = "idle"
  BY <1>1, IdleOK DEF Seal, Sealing, Ends
<1>3. /\ Len(invs') = Len(invs)
      /\ \A i \in 1..Len(invs) : invs'[i].email = invs[i].email /\ (invs'[i].accepted => i = n \/ invs[i].accepted)
  <2>1. CASE invs' = invs
    BY <2>1, <1>1
  <2>2. CASE invs' = [invs EXCEPT ![n].accepted = TRUE]
    <3>1. invs' = [invs EXCEPT ![n] = [invs[n] EXCEPT !.accepted = TRUE]]
      BY <2>2, <1>1
    <3>2. [invs[n] EXCEPT !.accepted = TRUE] \in InvRows /\ [invs[n] EXCEPT !.accepted = TRUE].email = invs[n].email
      BY <1>1, <1>2 DEF InvRows
    <3>3. PICK r \in InvRows : r = [invs[n] EXCEPT !.accepted = TRUE] /\ r.email = invs[n].email
      BY <3>2
    <3>4. invs' = [invs EXCEPT ![n] = r]
      BY <3>1, <3>3
    <3>5. Len(invs') = Len(invs) /\ invs'[n] = r /\ \A i \in 1..Len(invs) \ {n} : invs'[i] = invs[i]
      BY <3>4, <1>1, <1>2
    <3> QED BY <3>3, <3>5
  <2> QED BY <2>1, <2>2 DEF Seal
<1>4. \A q \in Calls : (Sealing(q)' => q # p /\ Sealing(q)) /\ (q # p => call'[q] = call[q])
  BY <1>1, <1>2 DEF Sealing
<1>5. \A q \in Calls : q # p /\ call[q].pc \in {"join", "seal"} => Invited(q)' = Invited(q)
  BY <1>1, <1>3, <1>4 DEF Invited
<1>6. \A q \in Calls : call'[q].pc = "join" => call'[q].email = Invited(q)'
  BY <1>1, <1>2, <1>4, <1>5 DEF Claims
<1>7. \A q \in Calls : Sealing(q)' => users'[Invited(q)'] # "none"
  BY <1>2, <1>4, <1>5 DEF Claims, Sealing
<1>8. \A i \in 1..Len(invs) : invs'[i].accepted => users'[invs'[i].email] # "none"
  BY <1>2, <1>3 DEF Claims, Invited
<1>9. \A i, j \in 1..Len(invs) : invs'[i].accepted /\ invs'[j].accepted /\ invs'[i].email = invs'[j].email => i = j
  BY <1>2, <1>3 DEF Claims, Invited
<1>10. \A q \in Calls, i \in 1..Len(invs) : Sealing(q)' /\ invs'[i].accepted => Invited(q)' # invs'[i].email
  <2> SUFFICES ASSUME NEW q \in Calls, NEW i \in 1..Len(invs), Sealing(q)', invs'[i].accepted
               PROVE  Invited(q)' # invs'[i].email
    OBVIOUS
  <2>1. Sealing(q) /\ q # p /\ Invited(q)' = Invited(q)
    BY <1>4, <1>5 DEF Sealing
  <2>2. CASE i = n
    BY <2>1, <2>2, <1>2, <1>3 DEF Claims, Invited
  <2>3. CASE i # n
    BY <2>1, <2>3, <1>3 DEF Claims
  <2> QED BY <2>2, <2>3
<1>11. \A q, r \in Calls : Sealing(q)' /\ Sealing(r)' /\ Invited(q)' = Invited(r)' => q = r
  BY <1>4, <1>5 DEF Claims, Sealing
<1> QED BY <1>3, <1>6, <1>7, <1>8, <1>9, <1>10, <1>11 DEF Claims

LEMMA ClaimsNext ==
  ASSUME Typed, Claims, [Next]_vars
  PROVE  Claims'
PROOF
<1>t. Typed'
  BY TypedNext
<1>i. Len(invs) \in Nat /\ invs \in Seq(InvRows) /\ users \in [Emails -> Roles \cup {"none"}] /\ call \in [Calls -> CallType]
  BY DEF Typed, Tables
\* No invitation is written.
<1>q. ASSUME NEW p \in Calls, NEW k \in CallType, call' = [call EXCEPT ![p] = k], k.pc # "seal",
             k.pc = "join" => k.nr \in 1..Len(invs) /\ k.email = invs[k.nr].email,
             \A e \in Emails : users[e] # "none" => users'[e] # "none", invs' = invs
      PROVE  Claims'
  <2>1. \A i \in 1..Len(invs) : invs'[i].email = invs[i].email /\ invs'[i].accepted = invs[i].accepted
    BY <1>q
  <2>2. Len(invs) <= Len(invs') /\ \A i \in 1..Len(invs') : i > Len(invs) => ~ invs'[i].accepted
    BY <1>q, <1>i
  <2> QED BY <1>q, <1>t, <2>1, <2>2, ClaimsKept
<1>1. ASSUME NEW p \in Calls, Starts(p) PROVE Claims'
  <2>1. UNCHANGED <<users, invs>>
    BY <1>1, StartEntry
  <2>2. PICK k \in CallType : /\ call' = [call EXCEPT ![p] = k] /\ k.pc # "seal"
                              /\ k.pc = "join" => k.nr \in 1..Len(invs) /\ k.email = invs[k.nr].email
    BY <1>1, StartEntry
  <2> QED BY <2>1, <2>2, <1>i, <1>t, <1>q
<1>2. ASSUME NEW p \in Calls, Proceeds(p) PROVE Claims'
  <2>1. PICK k \in CallType :
              /\ call' = [call EXCEPT ![p] = k]
              /\ k.pc \in Later
              /\ k.pc = "seal" => Join(p) /\ k.nr = call[p].nr /\ users[call[p].email] = "none"
    BY <1>2, LaterEntry
  <2>2. CASE k.pc = "seal"
    BY <2>1, <2>2, <1>t, JoinClaims
  <2>3. CASE Seal(p)
    BY <2>3, <1>t, SealClaims
  <2>4. CASE Send(p)
    <3>1. invs' = Append(invs, Invitation(call[p].email, call[p].role)) /\ users' = users
      BY <2>4 DEF Send
    <3>2. /\ Len(invs') = Len(invs) + 1 /\ \A i \in 1..Len(invs) : invs'[i] = invs[i]
          /\ ~ invs'[Len(invs) + 1].accepted
      BY <3>1, <1>i DEF Invitation
    <3>3. k.pc \notin {"seal", "join"}
      BY <2>1, <2>4, <1>i, IdleOK DEF Send, Ends
    <3>4. /\ Len(invs) <= Len(invs') /\ \A i \in 1..Len(invs') : i > Len(invs) => ~ invs'[i].accepted
          /\ \A i \in 1..Len(invs) : invs'[i].email = invs[i].email /\ invs'[i].accepted = invs[i].accepted
          /\ \A e \in Emails : users[e] # "none" => users'[e] # "none"
      <4>1. \A i \in 1..Len(invs') : i > Len(invs) => i = Len(invs) + 1
        BY <3>2, <1>i
      <4> QED BY <3>1, <3>2, <4>1, <1>i
    <3> QED BY <2>1, <3>3, <3>4, <1>t, ClaimsKept
  <2>5. CASE k.pc # "seal" /\ ~ Seal(p) /\ ~ Send(p)
    <3>1. invs' = invs
      BY <1>2, <2>5 DEF Proceeds, Continues, Join, Assign, Create, Setup, Archive, Restore, Reserve, Save, Release, Clamp,
                        SaveFails, Crash
    <3>2. \A e \in Emails : users[e] # "none" => users'[e] # "none"
      <4>1. CASE users' = users
        BY <4>1
      <4>2. CASE users' = [users EXCEPT ![call[p].email] = call[p].role]
        <5>1. call[p].role \in Roles /\ "none" \notin Roles
          BY <1>i DEF CallType, Roles
        <5> QED BY <4>2, <5>1, <1>i
      <4> QED BY <4>1, <4>2, <1>2, <2>5 DEF Proceeds, Continues, Join, Assign, Create, Setup, Archive, Restore,
                                            Reserve, Save, Release, Clamp, SaveFails, Crash
    <3> QED BY <2>1, <2>5, <3>1, <3>2, <1>q DEF Later
  <2> QED BY <2>2, <2>3, <2>4, <2>5
<1>3. CASE World
  <2>1. /\ UNCHANGED <<users, call>> /\ Len(invs') = Len(invs)
        /\ \A i \in 1..Len(invs) : invs'[i].email = invs[i].email /\ invs'[i].accepted = invs[i].accepted
    BY <1>3, WorldTyped
  <2>2. \A p \in Calls : call[p].pc \in {"join", "seal"} => Invited(p)' = Invited(p)
    BY <2>1, RowsTyped DEF Invited
  <2> QED BY <2>1, <2>2 DEF Claims, Sealing
<1> QED BY <1>1, <1>2, <1>3, NextCases

LEMMA ClaimsInit == Init => Claims
PROOF
<1> SUFFICES ASSUME Init PROVE Claims
  OBVIOUS
<1>1. \A p \in Calls : call[p].pc = "idle"
  BY IdleOK DEF Init
<1>2. \A i \in 1..Len(invs) : ~ invs[i].accepted
  <2>1. CASE invs = <<>>
    BY <2>1
  <2>2. ASSUME NEW e \in Emails, NEW g \in Emails, invs = <<Invitation(e, "MEMBER"), Invitation(g, "MEMBER")>>
        PROVE  \A i \in 1..Len(invs) : ~ invs[i].accepted
    <3>1. Len(invs) = 2 /\ ~ invs[1].accepted /\ ~ invs[2].accepted
      BY <2>2 DEF Invitation
    <3> QED BY <3>1
  <2> QED BY <2>1, <2>2 DEF Init
<1> QED BY <1>1, <1>2 DEF Claims, Sealing

(***************************************************************************)
(* Capacity.  For each pool, the rows that count and what the requests     *)
(* under way may still add are a set that grows only when a request finds  *)
(* room, and then it is the rows, fewer than the limit, with at most one   *)
(* addition of each request.                                               *)
(***************************************************************************)
Coming(r)  == {p \in Calls : call[p].pc \in {"join", "assign"} /\ call[p].role = r}
Claimed(r) == Holders(r) \cup {call[p].email : p \in Coming(r)}
SeatsBounded == \A r \in Roles : Cardinality(Claimed(r)) < Limit[Pool(r)] + Cardinality(Calls)

Creating  == {p \in Calls : call[p].pc = "create"}
Restoring == {p \in Calls : call[p].pc = "restore"}
Restored  == ActiveProjects \cup {call[p].nr : p \in Restoring}
ProjectsBounded == Cardinality(Restored) + Cardinality(Creating) < Limit["projects"] + Cardinality(Calls)

Reserving(m)   == {p \in Calls : call[p].pc = "reserve" /\ call[p].month = m}
StorageCap     == Larger(Limit["storage"] - 1, stored) + Cardinality(Calls)
StorageBounded == \A m \in Months : counter[m] + Cardinality(Reserving(m)) <= StorageCap

LEMMA Limits ==
  /\ IsFiniteSet(Calls) /\ Cardinality(Calls) \in Nat /\ Cardinality(Calls) > 0 /\ IsFiniteSet(Emails)
  /\ \A pool \in {"seats", "viewers", "projects", "storage"} : Limit[pool] \in Nat /\ Limit[pool] > 0
  /\ \A r \in Roles : Pool(r) \in {"seats", "viewers"}
PROOF
<1>1. Cardinality(Calls) \in Nat /\ Cardinality(Calls) # 0
  BY CapacityAssumption, FS_CardinalityType, FS_EmptySet
<1>2. \A pool \in {"seats", "viewers", "projects", "storage"} : Limit[pool] \in Nat \ {0}
  BY CapacityAssumption
<1> QED BY <1>1, <1>2, CapacityAssumption DEF Pool

\* A finite set, and at most one thing more for each request of a set.
LEMMA AddsAtMost ==
  ASSUME NEW S, IsFiniteSet(S), NEW T, T \subseteq Calls, NEW g, NEW U,
         \A x \in U : x \in S \/ \E p \in T : x = g[p]
  PROVE  /\ IsFiniteSet(U) /\ Cardinality(U) <= Cardinality(S) + Cardinality(T)
         /\ Cardinality(T) <= Cardinality(Calls)
         /\ Cardinality(U) \in Nat /\ Cardinality(S) \in Nat /\ Cardinality(T) \in Nat
PROOF
<1>1. IsFiniteSet(T) /\ Cardinality(T) <= Cardinality(Calls)
  BY Limits, FS_Subset
<1> DEFINE img == {g[p] : p \in T}
           h == [p \in T |-> g[p]]
<1>2. IsFiniteSet(img) /\ Cardinality(img) <= Cardinality(T)
  <2>1. h \in Surjection(T, img)
    BY DEF Surjection
  <2> QED BY <2>1, <1>1, FS_Surjection
<1>3. IsFiniteSet(S \cup img) /\ Cardinality(S \cup img) = Cardinality(S) + Cardinality(img) - Cardinality(S \cap img)
  BY <1>2, FS_Union
<1>4. U \subseteq S \cup img
  OBVIOUS
<1>5. IsFiniteSet(U) /\ Cardinality(U) <= Cardinality(S \cup img)
  BY <1>3, <1>4, FS_Subset
<1>6. /\ Cardinality(S \cap img) \in Nat /\ Cardinality(S) \in Nat /\ Cardinality(img) \in Nat
      /\ Cardinality(T) \in Nat /\ Cardinality(S \cup img) \in Nat /\ Cardinality(U) \in Nat
  BY <1>1, <1>2, <1>3, <1>5, FS_Intersection, FS_CardinalityType
<1> QED BY <1>1, <1>2, <1>3, <1>5, <1>6

\* One user row changes, to the role a request under way was let in for.
LEMMA SeatsStep ==
  ASSUME Typed, SeatsBounded, NEW p \in Calls, NEW k \in CallType, call' = [call EXCEPT ![p] = k], Typed',
         k.pc = "join" => users' = users /\ HasRoom(Pool(k.role)),
         k.pc = "assign" => users' = users /\ (users[k.email] # k.role => HasRoom(Pool(k.role))),
         \/ users' = users
         \/ /\ call[p].pc \in {"join", "assign"}
            /\ users' = [users EXCEPT ![call[p].email] = call[p].role]
  PROVE  SeatsBounded'
PROOF
<1> SUFFICES ASSUME NEW r \in Roles
             PROVE  Cardinality(Claimed(r)') < Limit[Pool(r)] + Cardinality(Calls)
  BY DEF SeatsBounded
<1>i. /\ users \in [Emails -> Roles \cup {"none"}] /\ call \in [Calls -> CallType]
      /\ \A q \in Calls : call[q].pc \in {"join", "assign"} => call[q].email \in Emails
      /\ \A q \in Calls : call'[q].pc \in {"join", "assign"} => call'[q].email \in Emails
  BY DEF Typed, Tables, EntryOK
<1>c. call'[p] = k /\ \A q \in Calls \ {p} : call'[q] = call[q]
  BY <1>i
<1>f. Claimed(r) \subseteq Emails /\ IsFiniteSet(Claimed(r)) /\ Holders(r) \subseteq Emails /\ IsFiniteSet(Holders(r))
  <2>1. Claimed(r) \subseteq Emails /\ Holders(r) \subseteq Emails
    BY <1>i DEF Claimed, Holders, Coming
  <2> QED BY <2>1, Limits, FS_Subset
<1>l. Limit[Pool(r)] \in Nat /\ Cardinality(Calls) \in Nat /\ Cardinality(Claimed(r)) < Limit[Pool(r)] + Cardinality(Calls)
  BY Limits DEF SeatsBounded
<1>1. CASE Claimed(r)' \subseteq Claimed(r)
  <2>1. Cardinality(Claimed(r)') <= Cardinality(Claimed(r)) /\ IsFiniteSet(Claimed(r)')
    BY <1>1, <1>f, FS_Subset
  <2>2. Cardinality(Claimed(r)') \in Nat /\ Cardinality(Claimed(r)) \in Nat
    BY <2>1, <1>f, FS_CardinalityType
  <2> QED BY <2>1, <2>2, <1>l
<1>2. CASE users' = users /\ HasRoom(Pool(r))
  <2> DEFINE g == [q \in Calls |-> call'[q].email]
  <2>1. Claimed(r)' = Holders(r) \cup {g[q] : q \in Coming(r)'}
    BY <1>2 DEF Claimed, Holders, Coming
  <2>2. Coming(r)' \subseteq Calls
    BY DEF Coming
  <2>3. Cardinality(Holders(r)) < Limit[Pool(r)]
    BY <1>2 DEF HasRoom, Used, Pool, Roles
  <2> HIDE DEF g
  <2>4. /\ Cardinality(Claimed(r)') <= Cardinality(Holders(r)) + Cardinality(Coming(r)')
        /\ Cardinality(Coming(r)') <= Cardinality(Calls)
        /\ Cardinality(Claimed(r)') \in Nat /\ Cardinality(Holders(r)) \in Nat /\ Cardinality(Coming(r)') \in Nat
    <3>1. \A x \in Claimed(r)' : x \in Holders(r) \/ \E q \in Coming(r)' : x = g[q]
      BY <2>1
    <3> QED BY <3>1, <2>2, <1>f, AddsAtMost
  <2> QED BY <2>3, <2>4, <1>l
<1>3. CASE k.pc \in {"join", "assign"} /\ k.role = r /\ users' = users /\ ~ HasRoom(Pool(r))
  <2>1. k.pc = "assign" /\ users[k.email] = r
    BY <1>3
  <2>2. k.email \in Holders(r)
    BY <2>1, <1>c, <1>i DEF Holders
  <2>3. Claimed(r)' \subseteq Claimed(r)
    BY <2>2, <1>3, <1>c DEF Claimed, Coming, Holders
  <2> QED BY <2>3, <1>1
<1>4. CASE ~ (k.pc \in {"join", "assign"} /\ k.role = r)
  <2>1. \A q \in Coming(r)' : q \in Coming(r) /\ call'[q] = call[q]
    BY <1>4, <1>c DEF Coming
  <2>2. Holders(r)' \subseteq Claimed(r)
    <3>1. CASE users' = users
      BY <3>1 DEF Holders, Claimed
    <3>2. CASE call[p].pc \in {"join", "assign"} /\ users' = [users EXCEPT ![call[p].email] = call[p].role]
      <4>1. ASSUME NEW e \in Emails, users'[e] = r PROVE e \in Claimed(r)
        <5>1. CASE e = call[p].email
          BY <5>1, <4>1, <3>2, <1>i DEF Claimed, Coming
        <5>2. CASE e # call[p].email
          BY <5>2, <4>1, <3>2, <1>i DEF Claimed, Holders
        <5> QED BY <5>1, <5>2
      <4> QED BY <4>1 DEF Holders
    <3> QED BY <3>1, <3>2
  <2>3. Claimed(r)' \subseteq Claimed(r)
    BY <2>1, <2>2 DEF Claimed
  <2> QED BY <2>3, <1>1
<1> QED BY <1>2, <1>3, <1>4

LEMMA SeatsNext ==
  ASSUME Typed, SeatsBounded, [Next]_vars
  PROVE  SeatsBounded'
PROOF
<1>t. Typed'
  BY TypedNext
<1>1. ASSUME NEW p \in Calls, Starts(p) PROVE SeatsBounded'
  <2>1. users' = users
    BY <1>1, StartEntry
  <2>2. PICK k \in CallType :
          /\ call' = [call EXCEPT ![p] = k]
          /\ k.pc = "join" => HasRoom(Pool(k.role))
          /\ k.pc = "assign" => (users[k.email] # k.role => HasRoom(Pool(k.role)))
    BY <1>1, StartEntry
  <2> QED BY <2>1, <2>2, <1>t, SeatsStep
<1>2. ASSUME NEW p \in Calls, Proceeds(p) PROVE SeatsBounded'
  <2>1. PICK k \in CallType :
              /\ call' = [call EXCEPT ![p] = k]
              /\ k.pc \in Later
    BY <1>2, LaterEntry
  <2>2. \/ users' = users
        \/ /\ call[p].pc \in {"join", "assign"}
           /\ users' = [users EXCEPT ![call[p].email] = call[p].role]
    BY <1>2 DEF Proceeds, Continues, Send, Join, Seal, Assign, Create, Setup, Archive, Restore, Reserve, Save, Release, Clamp,
                SaveFails, Crash
  <2> QED BY <2>1, <2>2, <1>t, SeatsStep DEF Later
<1>3. CASE World
  <2>1. UNCHANGED <<users, call>>
    BY <1>3, WorldTyped
  <2> QED BY <2>1 DEF SeatsBounded, Claimed, Holders, Coming
<1> QED BY <1>1, <1>2, <1>3, NextCases

LEMMA ProjectsStep ==
  ASSUME Typed, ProjectsBounded, NEW p \in Calls, NEW k \in CallType, call' = [call EXCEPT ![p] = k], Typed',
         k.pc \in {"create", "restore"} => projects' = projects /\ HasRoom("projects"),
         \/ ActiveProjects' \subseteq ActiveProjects
         \/ /\ call[p].pc = "restore"
            /\ ActiveProjects' \subseteq ActiveProjects \cup {call[p].nr}
         \/ /\ call[p].pc = "create" /\ k.pc # "create"
            /\ ActiveProjects' \subseteq ActiveProjects \cup {Len(projects) + 1}
  PROVE  ProjectsBounded'
PROOF
<1>i. /\ call \in [Calls -> CallType] /\ Len(projects) \in Nat
      /\ \A q \in Calls : call[q].pc = "restore" => call[q].nr \in 1..Len(projects)
  <2>1. Tables /\ call \in [Calls -> CallType] /\ \A q \in Calls : EntryOK(call[q], Len(invs), Len(projects))
    BY DEF Typed
  <2>2. projects \in Seq(Projects)
    BY <2>1 DEF Tables
  <2>3. Len(projects) \in Nat
    BY <2>2
  <2> QED BY <2>1, <2>3 DEF EntryOK
<1>c. call'[p] = k /\ \A q \in Calls \ {p} : call'[q] = call[q]
  BY <1>i
<1>f. /\ IsFiniteSet(Restored) /\ IsFiniteSet(Creating) /\ IsFiniteSet(ActiveProjects)
      /\ Cardinality(Restored) \in Nat /\ Cardinality(Creating) \in Nat /\ Cardinality(ActiveProjects) \in Nat
  <2>1. Restored \subseteq 1..Len(projects) /\ ActiveProjects \subseteq 1..Len(projects) /\ Creating \subseteq Calls
    BY <1>i DEF Restored, Restoring, ActiveProjects, Creating
  <2>2. IsFiniteSet(1..Len(projects))
    BY <1>i, FS_Interval
  <2>3. IsFiniteSet(Restored) /\ IsFiniteSet(Creating) /\ IsFiniteSet(ActiveProjects)
    BY <2>1, <2>2, Limits, FS_Subset
  <2> QED BY <2>3, FS_CardinalityType
<1>l. Limit["projects"] \in Nat /\ Cardinality(Calls) \in Nat
  BY Limits
<1>1. CASE Restored' \subseteq Restored /\ Creating' \subseteq Creating
  <2>1. /\ Cardinality(Restored') <= Cardinality(Restored) /\ Cardinality(Creating') <= Cardinality(Creating)
        /\ IsFiniteSet(Restored') /\ IsFiniteSet(Creating')
    BY <1>1, <1>f, FS_Subset
  <2>2. Cardinality(Restored') \in Nat /\ Cardinality(Creating') \in Nat
    BY <2>1, FS_CardinalityType
  <2> QED BY <2>1, <2>2, <1>f, <1>l DEF ProjectsBounded
<1>2. CASE k.pc \in {"create", "restore"}
  <2> DEFINE g == [q \in Calls |-> call'[q].nr]
  <2>1. Restoring' \subseteq Calls /\ ActiveProjects' = ActiveProjects /\ Cardinality(ActiveProjects) < Limit["projects"]
    BY <1>2 DEF Restoring, ActiveProjects, HasRoom, Used
  <2>2. \A x \in Restored' : x \in ActiveProjects \/ \E q \in Restoring' : x = g[q]
    BY <2>1 DEF Restored, Restoring
  <2> HIDE DEF g
  <2>3. /\ Cardinality(Restored') <= Cardinality(ActiveProjects) + Cardinality(Restoring')
        /\ Cardinality(Restored') \in Nat /\ Cardinality(Restoring') \in Nat
    <3>1. \A x \in Restored' : x \in ActiveProjects \/ \E q \in Restoring' : x = g[q]
      BY <2>2
    <3>2. IsFiniteSet(ActiveProjects)
      BY <1>f
    <3>3. Restoring' \subseteq Calls
      BY <2>1
    <3>4. PICK S, T, U : S = ActiveProjects /\ T = Restoring' /\ U = Restored'
      OBVIOUS
    <3>5. IsFiniteSet(S) /\ T \subseteq Calls /\ \A x \in U : x \in S \/ \E q \in T : x = g[q]
      BY <3>1, <3>2, <3>3, <3>4
    <3>6. /\ IsFiniteSet(U) /\ Cardinality(U) <= Cardinality(S) + Cardinality(T)
          /\ Cardinality(T) <= Cardinality(Calls)
          /\ Cardinality(U) \in Nat /\ Cardinality(S) \in Nat /\ Cardinality(T) \in Nat
      BY <3>5, AddsAtMost
    <3> QED BY <3>4, <3>6
  <2>4. /\ Cardinality(Restoring') + Cardinality(Creating') <= Cardinality(Calls) /\ Cardinality(Creating') \in Nat
    <3>1. Restoring' \subseteq Calls /\ Creating' \subseteq Calls /\ Restoring' \cap Creating' = {}
      BY DEF Restoring, Creating
    <3>2. IsFiniteSet(Restoring') /\ IsFiniteSet(Creating')
      BY <3>1, Limits, FS_Subset
    <3>3. Cardinality(Restoring' \cup Creating') = Cardinality(Restoring') + Cardinality(Creating') - 0
      BY <3>1, <3>2, FS_Union, FS_EmptySet
    <3>4. Restoring' \cup Creating' \subseteq Calls
      BY <3>1
    <3>5. Cardinality(Restoring' \cup Creating') <= Cardinality(Calls)
      BY <3>4, Limits, FS_Subset
    <3>6. Cardinality(Restoring') \in Nat /\ Cardinality(Creating') \in Nat
      BY <3>2, FS_CardinalityType
    <3> QED BY <3>3, <3>5, <3>6
  <2> QED BY <2>1, <2>3, <2>4, <1>f, <1>l DEF ProjectsBounded
<1>3. CASE k.pc \notin {"create", "restore"} /\ call[p].pc # "create"
  <2>1. \A q \in Calls : q \in Restoring' => q \in Restoring /\ call'[q] = call[q]
    BY <1>3, <1>c DEF Restoring
  <2>2. Creating' \subseteq Creating
    BY <1>3, <1>c DEF Creating
  <2>3. ActiveProjects' \subseteq Restored
    BY <1>3 DEF Restored, Restoring
  <2>4. Restored' \subseteq Restored
    BY <2>1, <2>3 DEF Restored, Restoring
  <2> QED BY <2>2, <2>4, <1>1
<1>4. CASE k.pc \notin {"create", "restore"} /\ call[p].pc = "create"
  <2>1. \A q \in Calls : q \in Restoring' => q \in Restoring /\ call'[q] = call[q]
    BY <1>4, <1>c DEF Restoring
  <2>2. Creating' \subseteq Creating \ {p} /\ p \in Creating
    BY <1>4, <1>c DEF Creating
  <2>3. Restored' \subseteq Restored \cup {Len(projects) + 1}
    BY <1>4, <2>1 DEF Restored, Restoring
  <2>4. /\ IsFiniteSet(Restored \cup {Len(projects) + 1})
        /\ Cardinality(Restored \cup {Len(projects) + 1}) <= Cardinality(Restored) + 1
    <3>1. /\ IsFiniteSet(Restored \cup {Len(projects) + 1})
          /\ \/ Cardinality(Restored \cup {Len(projects) + 1}) = Cardinality(Restored)
             \/ Cardinality(Restored \cup {Len(projects) + 1}) = Cardinality(Restored) + 1
      BY <1>f, FS_AddElement
    <3> QED BY <3>1, <1>f
  <2>5. Cardinality(Restored') <= Cardinality(Restored \cup {Len(projects) + 1}) /\ IsFiniteSet(Restored')
    BY <2>3, <2>4, FS_Subset
  <2>6. /\ Cardinality(Creating \ {p}) = Cardinality(Creating) - 1 /\ IsFiniteSet(Creating \ {p})
    BY <2>2, <1>f, FS_RemoveElement
  <2>7. Cardinality(Creating') <= Cardinality(Creating \ {p}) /\ IsFiniteSet(Creating')
    BY <2>2, <2>6, FS_Subset
  <2>8. /\ Cardinality(Restored') \in Nat /\ Cardinality(Creating') \in Nat
        /\ Cardinality(Restored \cup {Len(projects) + 1}) \in Nat
    BY <2>4, <2>5, <2>7, FS_CardinalityType
  <2> QED BY <2>4, <2>5, <2>6, <2>7, <2>8, <1>f, <1>l DEF ProjectsBounded
<1> QED BY <1>2, <1>3, <1>4

LEMMA ProjectsNext ==
  ASSUME Typed, ProjectsBounded, [Next]_vars
  PROVE  ProjectsBounded'
PROOF
<1>t. Typed'
  BY TypedNext
<1>1. ASSUME NEW p \in Calls, Starts(p) PROVE ProjectsBounded'
  <2>1. projects' = projects
    BY <1>1, StartEntry
  <2>2. PICK k \in CallType :
          /\ call' = [call EXCEPT ![p] = k]
          /\ k.pc \in {"create", "restore"} => HasRoom("projects")
    BY <1>1, StartEntry
  <2>3. ActiveProjects' \subseteq ActiveProjects
    BY <2>1 DEF ActiveProjects
  <2> QED BY <2>1, <2>2, <2>3, <1>t, ProjectsStep
<1>2. ASSUME NEW p \in Calls, Proceeds(p) PROVE ProjectsBounded'
  <2>1. PICK k \in CallType :
              /\ call' = [call EXCEPT ![p] = k]
              /\ k.pc \in Later
    BY <1>2, LaterEntry
  <2>i. /\ projects \in Seq(Projects) /\ Len(projects) \in Nat /\ EntryOK(call[p], Len(invs), Len(projects))
        /\ \A q \in 1..Len(projects) : projects[q] \in Projects
    BY DEF Typed, Tables
  <2>2. CASE Create(p)
    <3>1. projects' = Append(projects, [active |-> TRUE, ready |-> FALSE]) /\ call[p].pc = "create"
      BY <2>2 DEF Create
    <3>2. Len(projects') = Len(projects) + 1 /\ \A q \in 1..Len(projects) : projects'[q] = projects[q]
      BY <3>1, <2>i
    <3>3. ActiveProjects' \subseteq ActiveProjects \cup {Len(projects) + 1}
      BY <3>2, <2>i DEF ActiveProjects
    <3> QED BY <2>1, <3>1, <3>3, <1>t, ProjectsStep DEF Later
  <2>3. CASE Setup(p) \/ Archive(p) \/ Restore(p)
    <3> DEFINE n == call[p].nr
    <3>1. n \in 1..Len(projects) /\ projects[n] \in Projects
      BY <2>3, <2>i DEF Setup, Archive, Restore, EntryOK
    <3>2. PICK r \in Projects : /\ projects' = [projects EXCEPT ![n] = r]
                                /\ r.active => projects[n].active \/ Restore(p)
      <4>1. CASE Setup(p)
        <5>1. projects' = [projects EXCEPT ![n] = [projects[n] EXCEPT !.ready = TRUE]]
          BY <4>1, <3>1, <2>i DEF Setup
        <5>2. [projects[n] EXCEPT !.ready = TRUE] \in Projects /\ [projects[n] EXCEPT !.ready = TRUE].active = projects[n].active
          BY <3>1 DEF Projects
        <5> QED BY <5>1, <5>2
      <4>2. CASE Archive(p)
        <5>1. projects' = [projects EXCEPT ![n] = [projects[n] EXCEPT !.active = FALSE]]
          BY <4>2, <3>1, <2>i DEF Archive
        <5>2. [projects[n] EXCEPT !.active = FALSE] \in Projects /\ ~ [projects[n] EXCEPT !.active = FALSE].active
          BY <3>1 DEF Projects
        <5> QED BY <5>1, <5>2
      <4>3. CASE Restore(p)
        <5>1. projects' = [projects EXCEPT ![n] = [projects[n] EXCEPT !.active = TRUE]]
          BY <4>3, <3>1, <2>i DEF Restore
        <5>2. [projects[n] EXCEPT !.active = TRUE] \in Projects
          BY <3>1 DEF Projects
        <5> QED BY <5>1, <5>2, <4>3
      <4> QED BY <4>1, <4>2, <4>3, <2>3
    <3>3. Len(projects') = Len(projects) /\ projects'[n] = r /\ \A q \in 1..Len(projects) \ {n} : projects'[q] = projects[q]
      BY <3>1, <3>2, <2>i
    <3>4. CASE r.active /\ ~ projects[n].active
      <4>1. call[p].pc = "restore"
        BY <3>2, <3>4 DEF Restore
      <4>2. ActiveProjects' \subseteq ActiveProjects \cup {n}
        BY <3>3 DEF ActiveProjects
      <4> QED BY <4>1, <4>2, <2>1, <1>t, ProjectsStep DEF Later
    <3>5. CASE ~ (r.active /\ ~ projects[n].active)
      <4>1. ActiveProjects' \subseteq ActiveProjects
        BY <3>3, <3>5 DEF ActiveProjects
      <4> QED BY <4>1, <2>1, <1>t, ProjectsStep DEF Later
    <3> QED BY <3>4, <3>5
  <2>4. CASE ~ (Create(p) \/ Setup(p) \/ Archive(p) \/ Restore(p))
    <3>1. projects' = projects
      BY <1>2, <2>4 DEF Proceeds, Continues, Send, Join, Seal, Assign, Reserve, Save, Release, Clamp, SaveFails, Crash
    <3>2. ActiveProjects' \subseteq ActiveProjects
      BY <3>1 DEF ActiveProjects
    <3> QED BY <2>1, <3>2, <1>t, ProjectsStep DEF Later
  <2> QED BY <2>2, <2>3, <2>4
<1>3. CASE World
  <2>1. UNCHANGED <<projects, call>>
    BY <1>3, WorldTyped
  <2> QED BY <2>1 DEF ProjectsBounded, Restored, Restoring, Creating, ActiveProjects
<1> QED BY <1>1, <1>2, <1>3, NextCases

\* The counters of months to come are untouched, and what the reconciliation
\* is about to write is on record.
StorageBooks ==
  /\ \A m \in Months : m > month => counter[m] = 0
  /\ job.month <= month
  /\ job.pc \in {"read", "write"} => job.target <= stored
  /\ \A p \in Calls : call[p].pc \in {"reserve", "clamp", "clampSave"} => call[p].month <= month

LEMMA MonthFacts ==
  ASSUME Typed
  PROVE  /\ month \in Months /\ month \in Nat /\ 0 <= month /\ stored \in Nat
         /\ counter \in [Months -> Int] /\ call \in [Calls -> CallType]
         /\ \A m \in Months : m \in Nat /\ counter[m] \in Int
         /\ \A p \in Calls : call[p] \in CallType /\ call[p].month \in Months
         /\ job \in JobType
PROOF
<1>1. /\ month \in Months /\ stored \in Nat /\ counter \in [Months -> Int] /\ call \in [Calls -> CallType]
      /\ job \in JobType
  BY DEF Typed, Tables
<1>2. \A m \in Months : m \in Nat /\ 0 <= m
  BY CapacityAssumption DEF Months
<1>3. \A p \in Calls : call[p] \in CallType /\ call[p].month \in Months
  BY <1>1 DEF CallType
<1> QED BY <1>1, <1>2, <1>3

\* What the reconciliation writes is never more than what is on record, and it
\* writes the month it looked at.
LEMMA JobSums ==
  ASSUME Typed, StorageBooks, Job
  PROVE  /\ UNCHANGED <<month, stored, call>>
         /\ job'.month <= month
         /\ job'.pc \in {"read", "write"} => job'.target <= stored
         /\ \A m \in Months : counter'[m] = counter[m] \/ (m <= month /\ counter'[m] <= stored)
PROOF
<1>a. UNCHANGED <<month, stored, call>>
  BY DEF Job, JobList, JobSum, JobRead, JobWrite, JobFails
<1>b. /\ month \in Nat /\ 0 <= month /\ stored \in Nat /\ counter \in [Months -> Int]
      /\ job \in JobType /\ job.month \in Months /\ job.target \in Int
      /\ \A m \in Months : counter[m] \in Int
  BY MonthFacts DEF JobType
<1>1. CASE JobList
  <2>1. /\ counter' = counter
        /\ job' = [JobIdle EXCEPT !.pc = "sum", !.used = Larger(counter[month], 0), !.month = month]
    BY <1>1 DEF JobList
  <2>2. job'.pc = "sum" /\ job'.month = month
    BY <2>1 DEF JobIdle
  <2> QED BY <1>a, <1>b, <2>1, <2>2
<1>5. CASE JobFails
  <2>1. counter' = counter /\ job' = JobIdle
    BY <1>5 DEF JobFails
  <2> QED BY <1>a, <1>b, <2>1 DEF JobIdle
<1>2. CASE JobSum
  BY <1>2, <1>a, <1>b DEF JobSum, JobIdle, JobType, StorageBooks
<1>3. CASE JobRead
  <2>1. /\ job.pc = "read" /\ counter' = counter
        /\ job' = [job EXCEPT !.pc = "write", !.target = Lesser(job.target, counter[job.month])]
    BY <1>3 DEF JobRead
  <2>2. job'.month = job.month /\ job'.target = Lesser(job.target, counter[job.month])
    BY <2>1, <1>b DEF JobType
  <2>3. job.target <= stored /\ job.month <= month
    BY <2>1 DEF StorageBooks
  <2>4. Lesser(job.target, counter[job.month]) <= stored
    BY <2>3, <1>b DEF Lesser
  <2> QED BY <1>a, <2>1, <2>2, <2>3, <2>4
<1>4. CASE JobWrite
  <2>1. job.pc = "write" /\ counter' = [counter EXCEPT ![job.month] = job.target] /\ job' = JobIdle
    BY <1>4 DEF JobWrite
  <2>2. job.target <= stored /\ job.month <= month
    BY <2>1 DEF StorageBooks
  <2> QED BY <1>a, <1>b, <2>1, <2>2 DEF JobIdle
<1> QED BY <1>1, <1>2, <1>3, <1>4, <1>5 DEF Job

LEMMA StorageBooksNext ==
  ASSUME Typed, StorageBooks, [Next]_vars
  PROVE  StorageBooks'
PROOF
<1>a. /\ month \in Months /\ month \in Nat /\ counter \in [Months -> Int] /\ stored \in Nat
      /\ call \in [Calls -> CallType] /\ \A m \in Months : m \in Nat /\ counter[m] \in Int
  BY MonthFacts
<1>1. ASSUME NEW p \in Calls, Starts(p) PROVE StorageBooks'
  <2>1. UNCHANGED <<counter, stored, month, job>>
    BY <1>1, StartEntry
  <2>2. PICK k \in CallType : /\ call' = [call EXCEPT ![p] = k] /\ (k.pc = "reserve" => k.month = month)
                              /\ k.pc \in {"send", "join", "assign", "create", "archive", "restore", "reserve"}
    BY <1>1, StartEntry
  <2>3. \A q \in Calls : call'[q].pc \in {"reserve", "clamp", "clampSave"} => call'[q].month <= month
    BY <1>a, <2>2 DEF StorageBooks
  <2> QED BY <2>1, <2>3 DEF StorageBooks
<1>2. ASSUME NEW p \in Calls, Proceeds(p) PROVE StorageBooks'
  <2>1. UNCHANGED <<month, job>> /\ (stored' = stored \/ stored' = stored + 1)
    BY <1>2 DEF Proceeds, Continues, Send, Join, Seal, Assign, Create, Setup, Archive, Restore,
       Reserve, Save, Release, Clamp, SaveFails, Crash
  <2>2. PICK k \in CallType : /\ call' = [call EXCEPT ![p] = k] /\ k.pc \in Later
                              /\ k.pc = "clamp" => k.month = month
                              /\ k.pc = "clampSave" => call[p].pc = "reserve" /\ k.month = call[p].month
    BY <1>2, LaterEntry
  <2>3. \A q \in Calls : call'[q].pc \in {"reserve", "clamp", "clampSave"} => call'[q].month <= month
    BY <1>a, <2>2 DEF StorageBooks, Later
  <2>4. \A m \in Months : m > month => counter'[m] = counter[m]
    <3>1. CASE Reserve(p) \/ Clamp(p)
      <4>1. call[p].month \in Months /\ call[p].month <= month
        BY <3>1, MonthFacts DEF Reserve, Clamp, StorageBooks
      <4>2. \A m \in Months : m > month => m # call[p].month
        BY <1>a, <4>1
      <4> QED BY <1>a, <3>1, <4>2 DEF Reserve, Clamp, Adds
    <3>2. CASE Release(p)
      <4>1. \A m \in Months : m > month => m # month
        BY <1>a
      <4> QED BY <1>a, <3>2, <4>1 DEF Release, Adds
    <3>3. CASE counter' = counter
      BY <3>3
    <3> QED BY <1>2, <3>1, <3>2, <3>3 DEF Proceeds, Continues, Send, Join, Seal, Assign, Create, Setup,
            Archive, Restore, Save, SaveFails, Crash
  <2>5. job.pc \in {"read", "write"} => job.target <= stored'
    <3>1. job.target \in Int
      BY MonthFacts DEF JobType
    <3> QED BY <1>a, <2>1, <3>1 DEF StorageBooks
  <2> QED BY <2>1, <2>3, <2>4, <2>5 DEF StorageBooks
<1>3. CASE Job
  <2>1. \A m \in Months : m > month => counter'[m] = 0
    <3>1. \A m \in Months : counter'[m] = counter[m] \/ m <= month
      BY <1>3, JobSums
    <3> QED BY <1>a, <3>1 DEF StorageBooks
  <2> QED BY <1>3, <2>1, JobSums DEF StorageBooks
<1>4. CASE NewMonth
  <2>1. month' = month + 1 /\ UNCHANGED <<counter, stored, job, call>>
    BY <1>4 DEF NewMonth
  <2>2. \A m \in Months : (m <= month => m <= month') /\ (m > month' => m > month)
    BY <1>a, <2>1
  <2>3. job.month \in Months /\ \A q \in Calls : call[q].month \in Months
    BY MonthFacts DEF JobType
  <2> QED BY <2>1, <2>2, <2>3 DEF StorageBooks
<1>5. CASE Expire \/ UNCHANGED vars
  <2>1. UNCHANGED <<counter, stored, month, call, job>>
    BY <1>5 DEF Expire, vars
  <2> QED BY <2>1 DEF StorageBooks
<1> QED BY <1>1, <1>2, <1>3, <1>4, <1>5, NextCases DEF World

LEMMA StorageBooksInit == Init => StorageBooks
PROOF
<1> SUFFICES ASSUME Init PROVE StorageBooks
  OBVIOUS
<1>1. month = 0 /\ job = JobIdle /\ call = [p \in Calls |-> Idle] /\ counter = [m \in Months |-> 0]
  BY DEF Init
<1> QED BY <1>1 DEF StorageBooks, JobIdle, Idle

\* The rows and the limit bound the counter by themselves: a reservation needs
\* room, a clamp writes nothing, the reconciliation at most what is on record.
LEMMA StorageNext ==
  ASSUME Typed, StorageBooks, StorageBounded, [Next]_vars
  PROVE  StorageBounded'
PROOF
<1> SUFFICES ASSUME NEW m \in Months
             PROVE  counter'[m] + Cardinality(Reserving(m)') <= StorageCap'
  BY DEF StorageBounded
<1>t. Typed'
  BY TypedNext
<1>i. /\ call \in [Calls -> CallType] /\ counter \in [Months -> Int] /\ month \in Months
      /\ counter[m] \in Int /\ counter'[m] \in Int /\ stored \in Nat /\ stored' \in Nat
  BY <1>t DEF Typed, Tables
<1>f. /\ IsFiniteSet(Reserving(m)) /\ Cardinality(Reserving(m)) \in Nat
      /\ IsFiniteSet(Reserving(m)') /\ Cardinality(Reserving(m)') \in Nat
      /\ Cardinality(Reserving(m)') <= Cardinality(Calls)
  <2>1. Reserving(m) \subseteq Calls /\ Reserving(m)' \subseteq Calls
    BY DEF Reserving
  <2>2. IsFiniteSet(Reserving(m)) /\ IsFiniteSet(Reserving(m)') /\ Cardinality(Reserving(m)') <= Cardinality(Calls)
    BY <2>1, Limits, FS_Subset
  <2> QED BY <2>2, FS_CardinalityType
<1>g. stored <= stored'
  <2>1. UNCHANGED stored \/ stored' = stored + 1
    BY DEF Next, vars, Starts, Invite, Accept, ChangeRole, CreateProject, ArchiveProject, RestoreProject, Upload,
       Continues, Send, Join, Seal, Assign, Create, Setup, Archive, Restore, Reserve, Save, Release, Clamp,
       SaveFails, Crash, Job, JobList, JobSum, JobRead, JobWrite, JobFails, Expire, NewMonth
  <2> QED BY <2>1, <1>i
<1>l. /\ Limit["storage"] \in Nat /\ Limit["storage"] > 0 /\ Cardinality(Calls) \in Nat
      /\ StorageCap \in Int /\ StorageCap' \in Int /\ StorageCap <= StorageCap'
      /\ Limit["storage"] - 1 + Cardinality(Calls) <= StorageCap'
      /\ stored + Cardinality(Calls) <= StorageCap'
      /\ counter[m] + Cardinality(Reserving(m)) <= StorageCap
  <2>1. Limit["storage"] \in Nat /\ Limit["storage"] > 0 /\ Cardinality(Calls) \in Nat
    BY Limits
  <2> QED BY <2>1, <1>i, <1>g DEF StorageCap, Larger, StorageBounded
<1> HIDE DEF StorageCap
<1>s. ASSUME counter'[m] <= counter[m], Reserving(m)' \subseteq Reserving(m)
      PROVE  counter'[m] + Cardinality(Reserving(m)') <= StorageCap'
  <2>1. Cardinality(Reserving(m)') <= Cardinality(Reserving(m))
    BY <1>s, <1>f, FS_Subset
  <2> QED BY <2>1, <1>s, <1>i, <1>f, <1>l
<1>r. ASSUME counter'[m] <= stored
      PROVE  counter'[m] + Cardinality(Reserving(m)') <= StorageCap'
  BY <1>r, <1>i, <1>f, <1>l
<1>1. ASSUME NEW p \in Calls, Starts(p)
      PROVE  counter'[m] + Cardinality(Reserving(m)') <= StorageCap'
  <2>1. UNCHANGED counter
    BY <1>1, StartEntry
  <2>2. PICK k \in CallType :
          /\ call' = [call EXCEPT ![p] = k]
          /\ k.pc = "reserve" => k.month = month /\ HasRoom("storage")
    BY <1>1, StartEntry
  <2>3. CASE k.pc = "reserve" /\ m = month
    <3>1. counter[m] < Limit["storage"]
      BY <2>2, <2>3 DEF HasRoom, Used
    <3> QED BY <2>1, <3>1, <1>i, <1>f, <1>l
  <2>4. CASE ~ (k.pc = "reserve" /\ m = month)
    <3>1. Reserving(m)' \subseteq Reserving(m)
      BY <2>2, <2>4, <1>i DEF Reserving
    <3> QED BY <2>1, <3>1, <1>s, <1>i
  <2> QED BY <2>3, <2>4
<1>2. ASSUME NEW p \in Calls, Proceeds(p)
      PROVE  counter'[m] + Cardinality(Reserving(m)') <= StorageCap'
  <2>1. PICK k \in CallType :
              /\ call' = [call EXCEPT ![p] = k]
              /\ k.pc \in Later
    BY <1>2, LaterEntry
  <2>2. Reserving(m)' \subseteq Reserving(m) \ {p}
    BY <2>1, <1>i DEF Reserving, Later
  <2>3. CASE Reserve(p) /\ call[p].month = m
    <3>1. p \in Reserving(m) /\ counter'[m] = counter[m] + 1
      BY <2>3, <1>i DEF Reserve, Adds, Reserving
    <3>2. Cardinality(Reserving(m) \ {p}) = Cardinality(Reserving(m)) - 1 /\ IsFiniteSet(Reserving(m) \ {p})
      BY <3>1, <1>f, FS_RemoveElement
    <3>3. Cardinality(Reserving(m)') <= Cardinality(Reserving(m)) - 1
      BY <2>2, <3>2, FS_Subset
    <3> QED BY <3>1, <3>3, <1>i, <1>f, <1>l
  <2>4. CASE Clamp(p) /\ call[p].month = m
    <3>1. counter'[m] = 0
      BY <2>4, <1>i DEF Clamp
    <3> QED BY <3>1, <1>i, <1>r
  <2>5. CASE ~ ((Reserve(p) \/ Clamp(p)) /\ call[p].month = m)
    <3>1. counter'[m] <= counter[m]
      <4>1. CASE Reserve(p) \/ Clamp(p)
        <5>1. call[p].month # m
          BY <2>5, <4>1
        <5> QED BY <4>1, <5>1, <1>i DEF Reserve, Clamp, Adds
      <4>2. CASE Release(p)
        BY <4>2, <1>i DEF Release, Adds
      <4>3. CASE counter' = counter
        BY <4>3, <1>i
      <4> QED BY <1>2, <4>1, <4>2, <4>3
              DEF Proceeds, Continues, Send, Join, Seal, Assign, Create, Setup, Archive, Restore, Save, SaveFails, Crash
    <3>2. Reserving(m)' \subseteq Reserving(m)
      BY <2>2
    <3> QED BY <3>1, <3>2, <1>s
  <2> QED BY <2>3, <2>4, <2>5
<1>3. CASE World
  <2>1. UNCHANGED call /\ (counter'[m] = counter[m] \/ counter'[m] <= stored)
    <3>1. UNCHANGED call
      BY <1>3, WorldTyped
    <3>2. CASE Job
      BY <3>1, <3>2, JobSums
    <3>3. CASE Expire \/ NewMonth \/ UNCHANGED vars
      BY <3>1, <3>3 DEF Expire, NewMonth, vars
    <3> QED BY <1>3, <3>2, <3>3 DEF World
  <2>2. Reserving(m)' \subseteq Reserving(m)
    BY <2>1 DEF Reserving
  <2> QED BY <2>1, <2>2, <1>s, <1>r, <1>i
<1> QED BY <1>1, <1>2, <1>3, NextCases

LEMMA BoundsInit == Init => SeatsBounded /\ ProjectsBounded /\ StorageBounded
PROOF
<1> SUFFICES ASSUME Init PROVE SeatsBounded /\ ProjectsBounded /\ StorageBounded
  OBVIOUS
<1>1. \A p \in Calls : call[p].pc = "idle"
  BY IdleOK DEF Init
<1>2. /\ \A r \in Roles : Coming(r) = {}
      /\ Creating = {} /\ Restoring = {}
      /\ \A m \in Months : Reserving(m) = {}
  BY <1>1 DEF Coming, Creating, Restoring, Reserving
<1>3. \A pool \in {"seats", "viewers", "projects", "storage"} : Used(pool) <= Limit[pool]
  BY CapacityAssumption DEF Init
<1>4. Cardinality({}) = 0
  BY FS_EmptySet
<1>5. SeatsBounded
  <2> SUFFICES ASSUME NEW r \in Roles PROVE Cardinality(Claimed(r)) < Limit[Pool(r)] + Cardinality(Calls)
    BY DEF SeatsBounded
  <2>1. Claimed(r) = Holders(r)
    BY <1>2 DEF Claimed
  <2>2. Cardinality(Holders(r)) = Used(Pool(r))
    BY DEF Used, Pool, Roles
  <2>3. IsFiniteSet(Holders(r))
    <3>1. Holders(r) \subseteq Emails
      BY DEF Holders
    <3> QED BY <3>1, Limits, FS_Subset
  <2>4. Cardinality(Holders(r)) \in Nat
    BY <2>3, FS_CardinalityType
  <2>5. Used(Pool(r)) <= Limit[Pool(r)] /\ Limit[Pool(r)] \in Nat
    BY <1>3, Limits
  <2> QED BY <2>1, <2>2, <2>4, <2>5, Limits
<1>6. ProjectsBounded
  <2>1. Restored = ActiveProjects
    BY <1>2 DEF Restored
  <2>2. Cardinality(ActiveProjects) <= Limit["projects"]
    BY <1>3 DEF Used
  <2>3. Cardinality(ActiveProjects) \in Nat
    <3>1. ActiveProjects \subseteq 1..Len(projects) /\ Len(projects) \in Nat
      BY TypedInit DEF ActiveProjects, Typed, Tables
    <3>i. IsFiniteSet(1..Len(projects))
      BY <3>1, FS_Interval
    <3>2. IsFiniteSet(ActiveProjects)
      BY <3>1, <3>i, FS_Subset
    <3> QED BY <3>2, FS_CardinalityType
  <2> QED BY <2>1, <2>2, <2>3, <1>2, <1>4, Limits DEF ProjectsBounded
<1>7. StorageBounded
  <2>1. \A m \in Months : counter[m] = 0
    BY DEF Init
  <2>2. stored = 0
    BY DEF Init
  <2> QED BY <2>1, <2>2, <1>2, <1>4, Limits DEF StorageBounded, StorageCap, Larger
<1> QED BY <1>5, <1>6, <1>7

LEMMA BoundsImply ==
  ASSUME Typed, SeatsBounded, ProjectsBounded, StorageBounded
  PROVE  CapacityBounded
PROOF
<1>l. Cardinality(Calls) \in Nat /\ \A pool \in {"seats", "viewers", "projects", "storage"} : Limit[pool] \in Nat
  BY Limits
<1>1. ASSUME NEW r \in Roles PROVE Cardinality(Holders(r)) < Limit[Pool(r)] + Cardinality(Calls)
  <2>1. Claimed(r) \subseteq Emails /\ Holders(r) \subseteq Claimed(r)
    BY DEF Claimed, Coming, Holders, Typed, EntryOK
  <2>2. IsFiniteSet(Claimed(r)) /\ IsFiniteSet(Holders(r)) /\ Cardinality(Holders(r)) <= Cardinality(Claimed(r))
    BY <2>1, Limits, FS_Subset
  <2>3. Cardinality(Claimed(r)) \in Nat /\ Cardinality(Holders(r)) \in Nat
    BY <2>2, FS_CardinalityType
  <2>4. Limit[Pool(r)] \in Nat /\ Cardinality(Claimed(r)) < Limit[Pool(r)] + Cardinality(Calls)
    BY Limits DEF SeatsBounded
  <2> QED BY <2>2, <2>3, <2>4, <1>l
<1>2. Used("seats") < Limit["seats"] + Cardinality(Calls) /\ Used("viewers") < Limit["viewers"] + Cardinality(Calls)
  <2>1. "MEMBER" \in Roles /\ "VIEWER" \in Roles /\ Pool("MEMBER") = "seats" /\ Pool("VIEWER") = "viewers"
    BY DEF Roles, Pool
  <2>2. Used("seats") = Cardinality(Holders("MEMBER")) /\ Used("viewers") = Cardinality(Holders("VIEWER"))
    BY DEF Used
  <2> QED BY <1>1, <2>1, <2>2
<1>3. Used("projects") < Limit["projects"] + Cardinality(Calls)
  <2>1. Restored \subseteq 1..Len(projects) /\ ActiveProjects \subseteq Restored /\ Len(projects) \in Nat /\ Creating \subseteq Calls
    BY DEF Restored, Restoring, ActiveProjects, Creating, Typed, Tables, EntryOK
  <2>i. IsFiniteSet(1..Len(projects))
    BY <2>1, FS_Interval
  <2>2. IsFiniteSet(Restored) /\ IsFiniteSet(Creating)
    BY <2>1, <2>i, FS_Subset, Limits
  <2>3. Cardinality(ActiveProjects) <= Cardinality(Restored) /\ IsFiniteSet(ActiveProjects)
    BY <2>1, <2>2, FS_Subset
  <2>4. Cardinality(Restored) \in Nat /\ Cardinality(Creating) \in Nat /\ Cardinality(ActiveProjects) \in Nat
    BY <2>2, <2>3, FS_CardinalityType
  <2>5. Used("projects") = Cardinality(ActiveProjects)
    BY DEF Used
  <2> QED BY <2>3, <2>4, <2>5, <1>l DEF ProjectsBounded
<1>4. ASSUME NEW m \in Months PROVE counter[m] <= Larger(Limit["storage"] - 1, stored) + Cardinality(Calls)
  <2>1. IsFiniteSet(Reserving(m)) /\ counter[m] \in Int /\ stored \in Nat
    <3>1. Reserving(m) \subseteq Calls
      BY DEF Reserving
    <3> QED BY <3>1, Limits, FS_Subset DEF Typed, Tables
  <2>2. Cardinality(Reserving(m)) \in Nat
    BY <2>1, FS_CardinalityType
  <2>3. StorageCap \in Int /\ StorageCap = Larger(Limit["storage"] - 1, stored) + Cardinality(Calls)
    BY <2>1, <1>l DEF StorageCap, Larger
  <2>4. counter[m] + Cardinality(Reserving(m)) <= StorageCap
    BY DEF StorageBounded
  <2> QED BY <2>1, <2>2, <2>3, <2>4
<1> QED BY <1>2, <1>3, <1>4 DEF CapacityBounded

\* Every variable keeps its type, and entries refer to rows that exist.
THEOREM TypeCorrect == Spec => []TypeOK
PROOF
<1>1. Init => Typed
  BY TypedInit
<1>2. Typed /\ [Next]_vars => Typed'
  BY TypedNext
<1>3. Typed => TypeOK
  BY TypedImplies
<1> QED BY <1>1, <1>2, <1>3, PTL DEF Spec

\* However acceptances overlap, a person accepts one invitation and is a user
\* (AcceptInvitationHandler and the unique index on users).
THEOREM Accepted == Spec => []AcceptedOnce
PROOF
<1>1. Init => Typed /\ Claims
  BY TypedInit, ClaimsInit
<1>2. (Typed /\ Claims) /\ [Next]_vars => (Typed /\ Claims)'
  BY TypedNext, ClaimsNext
<1>3. Claims => AcceptedOnce
  BY DEF Claims, AcceptedOnce
<1> QED BY <1>1, <1>2, <1>3, PTL DEF Spec

\* A limit is passed by less than the number of requests under way, for each
\* pool, and the storage counter by at most that over the limit and the bytes on
\* record (applyEntitlementLimit before the write in each handler; add() and
\* setUsed() by two statements each).
THEOREM Capacity == Spec => []CapacityBounded
PROOF
<1> DEFINE Bounds == SeatsBounded /\ ProjectsBounded /\ StorageBooks /\ StorageBounded
<1>1. Init => Typed /\ Bounds
  BY TypedInit, BoundsInit, StorageBooksInit
<1>2. (Typed /\ Bounds) /\ [Next]_vars => (Typed /\ Bounds)'
  BY TypedNext, SeatsNext, ProjectsNext, StorageBooksNext, StorageNext
<1>3. Typed /\ Bounds => CapacityBounded
  BY BoundsImply
<1> QED BY <1>1, <1>2, <1>3, PTL DEF Spec

(***************************************************************************)
(* Storage that leaked is given back                                       *)
(***************************************************************************)

Rest    == \A p \in Calls : call[p].pc = "idle"
Settled == counter[month] <= stored

\* A run of the reconciliation gets to its end: there was nothing to correct, or
\* it has written.  That it does so again and again is what its schedule is for.
JobCompletes == JobWrite \/ (JobSum /\ job' = JobIdle)

\* What the reconciliation is working on was read from this month's counter.
Fresh ==
  \/ job.pc = "idle"
  \/ job.pc = "sum" /\ job.month = month /\ job.used = Larger(counter[month], 0)
  \/ job.pc \in {"read", "write"} /\ job.month = month

\* At rest nobody but the reconciliation touches the counter.
LEMMA AtRest ==
  ASSUME Typed, Rest, Rest', [Next]_vars
  PROVE  Job \/ NewMonth \/ UNCHANGED <<counter, stored, month, job>>
PROOF
<1>a. call \in [Calls -> CallType]
  BY MonthFacts
<1>1. ASSUME NEW p \in Calls, Starts(p) PROVE FALSE
  <2>1. PICK k \in CallType :
          /\ call' = [call EXCEPT ![p] = k]
          /\ k.pc \in {"send", "join", "assign", "create", "archive", "restore", "reserve"}
    BY <1>1, StartEntry
  <2> QED BY <1>a, <2>1 DEF Rest
<1>2. ASSUME NEW p \in Calls, Proceeds(p) PROVE FALSE
  <2>1. call[p].pc = "idle"
    BY DEF Rest
  <2> QED BY <1>2, <2>1 DEF Proceeds, Continues, Send, Join, Seal, Assign, Create, Setup, Archive,
          Restore, Reserve, Save, Release, Clamp, SaveFails, Crash
<1>3. CASE Expire \/ UNCHANGED vars
  BY <1>3 DEF Expire, vars
<1> QED BY <1>1, <1>2, <1>3, NextCases DEF World

LEMMA NewMonthSettles ==
  ASSUME Typed, StorageBooks, NewMonth
  PROVE  Settled'
PROOF
<1>1. month' = month + 1 /\ month < MaxMonths /\ UNCHANGED <<counter, stored>>
  BY DEF NewMonth
<1>2. month' \in Months /\ month' > month
  <2>1. month \in Nat
    BY MonthFacts
  <2> QED BY <1>1, <2>1, CapacityAssumption DEF Months
<1>3. counter[month'] = 0 /\ stored \in Nat
  BY <1>2, MonthFacts DEF StorageBooks
<1> QED BY <1>1, <1>3 DEF Settled

LEMMA StaysSettled ==
  ASSUME Typed, StorageBooks, Rest, Rest', [Next]_vars, Settled
  PROVE  Settled'
PROOF
<1>1. CASE Job
  <2>1. UNCHANGED <<month, stored>> /\ (counter'[month] = counter[month] \/ counter'[month] <= stored)
    BY <1>1, JobSums, MonthFacts
  <2> QED BY <2>1 DEF Settled
<1>2. CASE UNCHANGED <<counter, stored, month, job>>
  BY <1>2 DEF Settled
<1> QED BY <1>1, <1>2, AtRest, NewMonthSettles

LEMMA StaysFresh ==
  ASSUME Typed, StorageBooks, Rest, Rest', [Next]_vars, Fresh
  PROVE  Fresh' \/ Settled'
PROOF
<1>a. job \in JobType
  BY MonthFacts
<1>1. CASE Job
  <2>1. CASE JobList
    BY <2>1 DEF JobList, Fresh, JobIdle
  <2>2. CASE JobSum
    BY <2>2, <1>a DEF JobSum, Fresh, JobIdle, JobType
  <2>3. CASE JobRead
    BY <2>3, <1>a DEF JobRead, Fresh, JobType
  <2>4. CASE JobWrite \/ JobFails
    BY <2>4 DEF JobWrite, JobFails, Fresh, JobIdle
  <2> QED BY <1>1, <2>1, <2>2, <2>3, <2>4 DEF Job
<1>2. CASE UNCHANGED <<counter, stored, month, job>>
  BY <1>2 DEF Fresh
<1> QED BY <1>1, <1>2, AtRest, NewMonthSettles

\* A run of the reconciliation that began at rest leaves no leak behind.
LEMMA FreshRunSettles ==
  ASSUME Typed, StorageBooks, Fresh, JobCompletes
  PROVE  Settled'
PROOF
<1>a. /\ month \in Months /\ counter \in [Months -> Int] /\ counter[month] \in Int /\ stored \in Nat
      /\ job \in JobType
  BY MonthFacts
<1>1. CASE JobWrite
  <2>1. /\ job.pc = "write" /\ counter' = [counter EXCEPT ![job.month] = job.target]
        /\ UNCHANGED <<month, stored>>
    BY <1>1 DEF JobWrite
  <2>2. job.month = month /\ job.target <= stored
    BY <2>1 DEF Fresh, StorageBooks
  <2> QED BY <2>1, <2>2, <1>a DEF Settled
<1>2. CASE JobSum /\ job' = JobIdle
  <2>1. job.pc = "sum" /\ UNCHANGED <<month, counter, stored>>
    BY <1>2 DEF JobSum
  <2>2. job.used = Larger(counter[month], 0)
    BY <2>1 DEF Fresh
  <2>3. ~ (job.used > stored)
    <3>1. [job EXCEPT !.pc = "read", !.used = 0, !.target = stored].pc = "read"
      BY <1>a DEF JobType
    <3>2. job'.pc = "idle"
      BY <1>2 DEF JobIdle
    <3>3. job' = IF job.used > stored THEN [job EXCEPT !.pc = "read", !.used = 0, !.target = stored]
                                      ELSE JobIdle
      BY <1>2 DEF JobSum
    <3> QED BY <3>1, <3>2, <3>3
  <2>4. counter[month] <= stored
    BY <2>2, <2>3, <1>a DEF Larger
  <2> QED BY <2>1, <2>4 DEF Settled
<1> QED BY <1>1, <1>2 DEF JobCompletes

\* If the storage reconciliation completes again and again, reservations that
\* dead processes leave behind do not outlast the requests.
THEOREM LeaksAreHealed == Spec /\ []<><<JobCompletes>>_vars => LeaksHealed
PROOF
<1>1. Init => Typed /\ StorageBooks
  BY TypedInit, StorageBooksInit
<1>2. (Typed /\ StorageBooks) /\ [Next]_vars => (Typed /\ StorageBooks)'
  BY TypedNext, StorageBooksNext
<1> DEFINE Sane == Typed /\ StorageBooks
<1>3. Sane /\ Rest /\ Rest' /\ [Next]_vars /\ Settled => Settled'
  BY StaysSettled
<1>4. Sane /\ Rest /\ Rest' /\ [Next]_vars /\ Fresh => Fresh' \/ Settled'
  BY StaysFresh
<1>5. <<JobCompletes>>_vars => Fresh'
  BY DEF JobCompletes, JobWrite, Fresh, JobIdle
<1>6. Sane /\ Fresh /\ <<JobCompletes>>_vars => Settled'
  BY FreshRunSettles
<1>7. LeaksHealed <=> (<>[]Rest => <>[]Settled)
  BY DEF LeaksHealed, Rest, Settled
<1> HIDE DEF Sane
<1>8. Sane <=> Typed /\ StorageBooks
  BY DEF Sane
<1> QED BY <1>1, <1>2, <1>3, <1>4, <1>5, <1>6, <1>7, <1>8, PTL DEF Spec
=============================================================================
