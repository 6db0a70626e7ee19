--------------------------- MODULE TenantCapacity ----------------------------
(***************************************************************************)
(* What a tenant's plan limits: full seats, viewer seats, active projects  *)
(* and bytes of managed storage.  Requests compare a count with the limit  *)
(* and write afterwards; storage is counted per month by a counter that    *)
(* uploads reserve on and a scheduled job corrects; each of the two moves  *)
(* the counter by two statements, with anybody's steps in between.         *)
(***************************************************************************)
EXTENDS Integers, Sequences, FiniteSets

CONSTANTS
  Emails,      \* people who may be invited
  Limit,       \* limit of each pool: "seats", "viewers", "projects", "storage"
  Requests,    \* kinds of requests made
  Calls,       \* slots of concurrent requests
  MaxStarts,   \* bound: requests
  MaxMonths,   \* bound: months
  MaxFaults    \* bound: failed statements and dead processes

Roles == {"MEMBER", "VIEWER"}  \* MEMBER: every role that takes a full seat
Ops   == {"invite", "accept", "role", "create", "restore", "archive", "upload"}

ASSUME CapacityAssumption ==
  /\ IsFiniteSet(Emails) /\ "none" \notin Emails
  /\ IsFiniteSet(Calls) /\ Calls # {} /\ "none" \notin Calls
  /\ Limit \in [{"seats", "viewers", "projects", "storage"} -> Nat \ {0}]
  /\ Requests \subseteq Ops
  /\ {MaxStarts, MaxMonths, MaxFaults} \subseteq Nat

VARIABLES
  users,     \* User rows: the role of each e-mail, unique in the tenant
  invs,      \* Invitation rows
  projects,  \* Project rows
  counter,   \* UsageCounter of managed storage, by month
  stored,    \* bytes of the evidence rows
  month,     \* the current month
  call,      \* local state of each request
  job,       \* local state of the storage reconciliation
  started,   \* requests so far
  faults     \* failures and crashes so far

vars == <<users, invs, projects, counter, stored, month, call, job, started, faults>>

Months   == 0..MaxMonths
InvRows  == [email : Emails, role : Roles, open : BOOLEAN, accepted : BOOLEAN]
Projects == [active : BOOLEAN, ready : BOOLEAN]
Pcs      == {"idle", "send", "join", "seal", "assign", "create", "setup", "restore",
             "archive", "reserve", "clampSave", "save", "release", "clamp"}
Idle     == [pc |-> "idle", email |-> "none", role |-> "VIEWER", nr |-> 0, month |-> 0]
JobIdle  == [pc |-> "idle", used |-> 0, target |-> 0, month |-> 0]

Invitation(e, r) == [email |-> e, role |-> r, open |-> TRUE, accepted |-> FALSE]
Pool(role) == IF role = "VIEWER" THEN "viewers" ELSE "seats"
Holders(role) == {e \in Emails : users[e] = role}
Lesser(a, b) == IF a < b THEN a ELSE b
Larger(a, b) == IF a < b THEN b ELSE a
ActiveProjects == {i \in 1..Len(projects) : projects[i].active}
Used(pool) == CASE pool = "seats"    -> Cardinality(Holders("MEMBER"))
                [] pool = "viewers"  -> Cardinality(Holders("VIEWER"))
                [] pool = "projects" -> Cardinality(ActiveProjects)
                [] pool = "storage"  -> counter[month]
\* applyEntitlementLimit() in its default mode: at the limit the request ends.
HasRoom(pool) == Used(pool) < Limit[pool]

Begins(p, op, c) ==
  /\ call[p].pc = "idle" /\ op \in Requests
  /\ started < MaxStarts /\ started' = started + 1
  /\ call' = [call EXCEPT ![p] = c]
Goes(p, pc) == call' = [call EXCEPT ![p].pc = pc]
Ends(p)     == call' = [call EXCEPT ![p] = Idle]
\* add(): the counter is incremented; a result below zero is clamped by a second
\* statement.
Adds(m, n)   == counter' = [counter EXCEPT ![m] = @ + n]
Falls(m, n)  == counter[m] + n < 0

-----------------------------------------------------------------------------
(* Seats *)

\* An invitation is checked against the seats of users, and reserves none.
Invite(p) ==
  /\ \E e \in Emails, r \in Roles :
       /\ users[e] = "none" /\ HasRoom(Pool(r))
       /\ Begins(p, "invite", [Idle EXCEPT !.pc = "send", !.email = e, !.role = r])
  /\ UNCHANGED <<users, invs, projects, counter, stored, month, job, faults>>

Send(p) ==
  /\ call[p].pc = "send"
  /\ invs' = Append(invs, Invitation(call[p].email, call[p].role))
  /\ Ends(p)
  /\ UNCHANGED <<users, projects, counter, stored, month, job, started, faults>>

\* The seats are counted again when the invitation is accepted.
Accept(p) ==
  /\ \E i \in 1..Len(invs) :
       /\ invs[i].open /\ ~ invs[i].accepted /\ users[invs[i].email] = "none"
       /\ HasRoom(Pool(invs[i].role))
       /\ Begins(p, "accept", [Idle EXCEPT !.pc = "join", !.email = invs[i].email,
                                           !.role = invs[i].role, !.nr = i])
  /\ UNCHANGED <<users, invs, projects, counter, stored, month, job, faults>>

\* Wrong: a second user with the e-mail is taken for success.
JoinTaken(p) ==
  /\ call[p].pc = "join"
  /\ users' = [users EXCEPT ![call[p].email] = call[p].role]
  /\ Goes(p, "seal")
  /\ UNCHANGED <<invs, projects, counter, stored, month, job, started, faults>>

\* users.create(): the database refuses a second user with the e-mail.
Join(p) ==
  /\ call[p].pc = "join"
  /\ IF users[call[p].email] # "none" THEN Ends(p) /\ UNCHANGED users
     ELSE /\ users' = [users EXCEPT ![call[p].email] = call[p].role]
          /\ Goes(p, "seal")
  /\ UNCHANGED <<invs, projects, counter, stored, month, job, started, faults>>

\* accept() on the invitation as it was read, but for the time, which is asked
\* again: an invitation that expired meanwhile stays, its user exists.
Seal(p) ==
  /\ call[p].pc = "seal"
  /\ invs' = IF invs[call[p].nr].open THEN [invs EXCEPT ![call[p].nr].accepted = TRUE] ELSE invs
  /\ Ends(p)
  /\ UNCHANGED <<users, projects, counter, stored, month, job, started, faults>>

Expire ==
  /\ \E i \in 1..Len(invs) :
       /\ invs[i].open /\ ~ invs[i].accepted
       /\ invs' = [invs EXCEPT ![i].open = FALSE]
  /\ UNCHANGED <<users, projects, counter, stored, month, call, job, started, faults>>

\* Into or out of VIEWER the other pool must have room.
ChangeRole(p) ==
  /\ \E e \in Emails, r \in Roles :
       /\ users[e] # "none"
       /\ users[e] # r => HasRoom(Pool(r))
       /\ Begins(p, "role", [Idle EXCEPT !.pc = "assign", !.email = e, !.role = r])
  /\ UNCHANGED <<users, invs, projects, counter, stored, month, job, faults>>

Assign(p) ==
  /\ call[p].pc = "assign"
  /\ users' = [users EXCEPT ![call[p].email] = call[p].role]
  /\ Ends(p)
  /\ UNCHANGED <<invs, projects, counter, stored, month, job, started, faults>>

-----------------------------------------------------------------------------
(* Projects *)

\* Wrong: the projects are not counted.
CreateUncounted(p) ==
  /\ Begins(p, "create", [Idle EXCEPT !.pc = "create"])
  /\ UNCHANGED <<users, invs, projects, counter, stored, month, job, faults>>

CreateProject(p) ==
  /\ HasRoom("projects")
  /\ Begins(p, "create", [Idle EXCEPT !.pc = "create"])
  /\ UNCHANGED <<users, invs, projects, counter, stored, month, job, faults>>

\* Wrong: the new project's identity is not kept for its setup row.
CreateForgets(p) ==
  /\ call[p].pc = "create"
  /\ projects' = Append(projects, [active |-> TRUE, ready |-> FALSE])
  /\ call' = [call EXCEPT ![p] = [Idle EXCEPT !.pc = "setup"]]
  /\ UNCHANGED <<users, invs, counter, stored, month, job, started, faults>>

Create(p) ==
  /\ call[p].pc = "create"
  /\ projects' = Append(projects, [active |-> TRUE, ready |-> FALSE])
  /\ call' = [call EXCEPT ![p] = [Idle EXCEPT !.pc = "setup", !.nr = Len(projects) + 1]]
  /\ UNCHANGED <<users, invs, counter, stored, month, job, started, faults>>

\* The ProjectSetup row, which a failure leaves out for ever.
Setup(p) ==
  /\ call[p].pc = "setup"
  /\ projects' = [projects EXCEPT ![call[p].nr].ready = TRUE]
  /\ Ends(p)
  /\ UNCHANGED <<users, invs, counter, stored, month, job, started, faults>>

ArchiveProject(p) ==
  /\ \E i \in ActiveProjects : Begins(p, "archive", [Idle EXCEPT !.pc = "archive", !.nr = i])
  /\ UNCHANGED <<users, invs, projects, counter, stored, month, job, faults>>

Archive(p) ==
  /\ call[p].pc = "archive"
  /\ projects' = [projects EXCEPT ![call[p].nr].active = FALSE]
  /\ Ends(p)
  /\ UNCHANGED <<users, invs, counter, stored, month, job, started, faults>>

RestoreProject(p) ==
  /\ HasRoom("projects")
  /\ \E i \in 1..Len(projects) \ ActiveProjects :
       Begins(p, "restore", [Idle EXCEPT !.pc = "restore", !.nr = i])
  /\ UNCHANGED <<users, invs, projects, counter, stored, month, job, faults>>

Restore(p) ==
  /\ call[p].pc = "restore"
  /\ projects' = [projects EXCEPT ![call[p].nr].active = TRUE]
  /\ Ends(p)
  /\ UNCHANGED <<users, invs, counter, stored, month, job, started, faults>>

-----------------------------------------------------------------------------
(* Managed storage; a file is one unit *)

Upload(p) ==
  /\ HasRoom("storage")
  /\ Begins(p, "upload", [Idle EXCEPT !.pc = "reserve", !.month = month])
  /\ UNCHANGED <<users, invs, projects, counter, stored, month, job, faults>>

Reserve(p) ==
  /\ call[p].pc = "reserve"
  /\ Adds(call[p].month, 1)
  /\ Goes(p, IF Falls(call[p].month, 1) THEN "clampSave" ELSE "save")
  /\ UNCHANGED <<users, invs, projects, stored, month, job, started, faults>>

\* The file is written and its evidence row stored.
Save(p) ==
  /\ call[p].pc = "save"
  /\ stored' = stored + 1
  /\ Ends(p)
  /\ UNCHANGED <<users, invs, projects, counter, month, job, started, faults>>

\* The file or its row could not be written ...
SaveFails(p) ==
  /\ call[p].pc = "save"
  /\ faults < MaxFaults /\ faults' = faults + 1
  /\ Goes(p, "release")
  /\ UNCHANGED <<users, invs, projects, counter, stored, month, job, started>>

\* ... and the reservation is taken from the month it is by now.
Release(p) ==
  /\ call[p].pc = "release"
  /\ Adds(month, -1)
  /\ IF Falls(month, -1) THEN call' = [call EXCEPT ![p] = [Idle EXCEPT !.pc = "clamp", !.month = month]]
                         ELSE Ends(p)
  /\ UNCHANGED <<users, invs, projects, stored, month, job, started, faults>>

\* The second statement of add(), whatever the counter is by now.
Clamp(p) ==
  /\ call[p].pc \in {"clamp", "clampSave"}
  /\ IF call[p].pc = "clamp" THEN Ends(p) ELSE Goes(p, "save")
  /\ counter' = [counter EXCEPT ![call[p].month] = 0]
  /\ UNCHANGED <<users, invs, projects, stored, month, job, started, faults>>

\* The reconciliation reads the counter of the month, then the evidence rows ...
JobList ==
  /\ job.pc = "idle"
  /\ job' = [JobIdle EXCEPT !.pc = "sum", !.used = Larger(counter[month], 0), !.month = month]
  /\ UNCHANGED <<users, invs, projects, counter, stored, month, call, started, faults>>

\* Wrong: only a counter that is twice too high is corrected.
JobSumLazy ==
  /\ job.pc = "sum"
  /\ job' = IF job.used > stored + 1 THEN [job EXCEPT !.pc = "read", !.used = 0, !.target = stored]
                                     ELSE JobIdle
  /\ UNCHANGED <<users, invs, projects, counter, stored, month, call, started, faults>>

JobSum ==
  /\ job.pc = "sum"
  /\ job' = IF job.used > stored THEN [job EXCEPT !.pc = "read", !.used = 0, !.target = stored]
                                 ELSE JobIdle
  /\ UNCHANGED <<users, invs, projects, counter, stored, month, call, started, faults>>

\* ... setUsed() reads the counter again, to lower it only ...
JobRead ==
  /\ job.pc = "read"
  /\ job' = [job EXCEPT !.pc = "write", !.target = Lesser(job.target, counter[job.month])]
  /\ UNCHANGED <<users, invs, projects, counter, stored, month, call, started, faults>>

\* ... and writes the lesser value over whatever the counter is by then.
JobWrite ==
  /\ job.pc = "write"
  /\ counter' = [counter EXCEPT ![job.month] = job.target]
  /\ job' = JobIdle
  /\ UNCHANGED <<users, invs, projects, stored, month, call, started, faults>>

\* A statement of the run fails; the next run begins afresh.
JobFails ==
  /\ job.pc # "idle"
  /\ job' = JobIdle
  /\ UNCHANGED <<users, invs, projects, counter, stored, month, call, started, faults>>

-----------------------------------------------------------------------------
(* The environment *)

NewMonth ==
  /\ month < MaxMonths /\ month' = month + 1
  /\ UNCHANGED <<users, invs, projects, counter, stored, call, job, started, faults>>

\* A statement fails or the process dies: the request ends where it is.
Crash(p) ==
  /\ call[p].pc # "idle"
  /\ faults < MaxFaults /\ faults' = faults + 1
  /\ Ends(p)
  /\ UNCHANGED <<users, invs, projects, counter, stored, month, job, started>>

-----------------------------------------------------------------------------
\* A tenant within its limits, perhaps with two invitations to full seats on
\* their way to one person or to two.
Init ==
  /\ users \in [Emails -> Roles \cup {"none"}]
  /\ \/ invs = <<>>
     \/ \E e, f \in Emails :
          /\ users[e] = "none" /\ users[f] = "none"
          /\ invs = <<Invitation(e, "MEMBER"), Invitation(f, "MEMBER")>>
  /\ \E b \in BOOLEAN : projects = <<[active |-> b, ready |-> TRUE]>>
  /\ stored = 0
  /\ counter = [m \in Months |-> 0]
  /\ month = 0
  /\ \A pool \in DOMAIN Limit : Used(pool) <= Limit[pool]
  /\ call = [p \in Calls |-> Idle] /\ job = JobIdle
  /\ started = 0 /\ faults = 0

Starts(p) ==
  \/ Invite(p) \/ Accept(p) \/ ChangeRole(p) \/ CreateProject(p) \/ ArchiveProject(p)
  \/ RestoreProject(p) \/ Upload(p)
Continues(p) ==
  \/ Send(p) \/ Join(p) \/ Seal(p) \/ Assign(p) \/ Create(p) \/ Setup(p) \/ Archive(p)
  \/ Restore(p) \/ Reserve(p) \/ Save(p) \/ Release(p) \/ Clamp(p)
Job == JobList \/ JobSum \/ JobRead \/ JobWrite \/ JobFails

Next ==
  \/ \E p \in Calls : Starts(p) \/ Continues(p) \/ SaveFails(p) \/ Crash(p)
  \/ Job \/ Expire \/ NewMonth

\* The reconciliation is scheduled and does not fail on every run for ever.
JobFairness == WF_vars(JobList) /\ SF_vars(JobSum) /\ SF_vars(JobRead) /\ SF_vars(JobWrite)

Spec == Init /\ [][Next]_vars /\ JobFairness /\ \A p \in Calls : WF_vars(Continues(p))

-----------------------------------------------------------------------------
(* What holds *)

\* Every variable keeps its type and entries refer to rows that exist; the
\* counter may dip below zero between the two statements of add().
TypeOK ==
  /\ users \in [Emails -> Roles \cup {"none"}]
  /\ invs \in Seq(InvRows) /\ projects \in Seq(Projects)
  /\ counter \in [Months -> Int] /\ stored \in Nat /\ month \in Months
  /\ call \in [Calls -> [pc : Pcs, email : Emails \cup {"none"}, role : Roles, nr : Nat, month : Months]]
  /\ \A p \in Calls : /\ call[p].pc \in {"send", "join", "assign"} => call[p].email \in Emails
                      /\ call[p].pc = "seal" => call[p].nr \in 1..Len(invs)
                      /\ call[p].pc \in {"setup", "archive", "restore"} => call[p].nr \in 1..Len(projects)
  /\ job \in [pc : {"idle", "sum", "read", "write"}, used : Nat, target : Int, month : Months]
  /\ started \in Nat /\ faults \in Nat

\* Counting and writing are two steps, so a limit can be passed, but only by
\* the requests that were under way when it was reached.  The storage counter
\* holds to that up to the bytes on record: past both the limit and them it is
\* never by more than the requests, although clamps and the reconciliation
\* write over reservations made and released since they read it.
CapacityBounded ==
  /\ \A pool \in {"seats", "viewers", "projects"} : Used(pool) < Limit[pool] + Cardinality(Calls)
  /\ \A m \in Months : counter[m] <= Larger(Limit["storage"] - 1, stored) + Cardinality(Calls)

\* An accepted invitation has its user, and of several invitations of a person
\* at most one is accepted, however their acceptances overlap.
AcceptedOnce ==
  \A i, j \in 1..Len(invs) : invs[i].accepted =>
    /\ users[invs[i].email] # "none"
    /\ invs[j].accepted /\ invs[j].email = invs[i].email => i = j

\* Reservations that crashes leave behind do not stay: at rest, the month's
\* counter comes down to the bytes on record.
LeaksHealed ==
  <>[](\A p \in Calls : call[p].pc = "idle") => <>[](counter[month] <= stored)
=============================================================================
