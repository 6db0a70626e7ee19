--------------------------- MODULE ReportLifecycle ---------------------------
(***************************************************************************)
(* The reports of one reporting period: its drafts, from generation over   *)
(* review to approval, and the period row they advance.  Every handler     *)
(* reads rows, changes them in memory and writes them back whole, without  *)
(* a transaction, so one step is one statement.  Background narrations     *)
(* hold the period and the draft they were started with until they end.    *)
(***************************************************************************)
EXTENDS Integers, FiniteSets

CONSTANTS
  MaxDrafts,  \* bound: drafts the period gets
  Calls,      \* slots of concurrent handler calls
  MaxCalls    \* bound: handler calls

ASSUME LifecycleAssumption == MaxDrafts \in Nat \ {0} /\ MaxCalls \in Nat

VARIABLES
  draft,      \* the ReportDraft rows, numbered in order of creation
  period,     \* the ReportingPeriod row
  call,       \* local state of each handler call
  narration,  \* the background generation of each draft
  calls,      \* handler calls so far
  reviewed,   \* history: drafts that have been under review
  approved    \* history: drafts that have been approved

vars == <<draft, period, call, narration, calls, reviewed, approved>>

Drafts        == 1..MaxDrafts
DraftStatuses == {"ABSENT", "DRAFT", "UNDER_REVIEW", "APPROVED"}
Rows          == [status : DraftStatuses, superseded : BOOLEAN]
Absent        == [status |-> "ABSENT", superseded |-> FALSE]
Fresh         == [status |-> "DRAFT", superseded |-> FALSE]
Working(r)    == r.status \in {"DRAFT", "UNDER_REVIEW"}
Current(r)    == Working(r) /\ ~ r.superseded

\* ReportStatus, without the values no handler gives a period.
PeriodStatuses == {"NOT_STARTED", "DRAFT_GENERATED", "APPROVED"}
Rank           == [s \in PeriodStatuses |->
                     IF s = "NOT_STARTED" THEN 0 ELSE IF s = "DRAFT_GENERATED" THEN 1 ELSE 2]
Periods        == [status : PeriodStatuses, cancelled : BOOLEAN]
NewPeriod      == [status |-> "NOT_STARTED", cancelled |-> FALSE]
\* advanceStatus(): forward only, from the status the entity was read with.
Advanced(p, status) == IF Rank[status] >= Rank[p.status] THEN [p EXCEPT !.status = status] ELSE p

Ops     == {"generate", "stop", "activate", "submit", "reject", "approve", "cancel", "restore"}
CallPc  == {"idle", "list", "supersede", "create", "start", "write", "period", "advance", "done"}
Nothing == [d \in Drafts |-> Absent]
Idle    == [op |-> "none", pc |-> "idle", d |-> 1, seen |-> Nothing, todo |-> {}, period |-> NewPeriod]
Quiet   == [pc |-> "none", period |-> NewPeriod]

Becomes(c, rec) == call' = [call EXCEPT ![c] = rec]
Goes(c, pc)     == Becomes(c, [call[c] EXCEPT !.pc = pc])
\* The handler has written its last row; the audit record and the answer remain.
Done(c)         == Becomes(c, [Idle EXCEPT !.op = call[c].op, !.pc = "done", !.d = call[c].d])
Begins(c)       == call[c].pc = "idle" /\ calls < MaxCalls /\ calls' = calls + 1
At(c, op, pc)   == call[c].op = op /\ call[c].pc = pc
IsLatest(d, S)  == d \in S /\ \A e \in S : e <= d

-----------------------------------------------------------------------------
(* The draft repository *)

\* Wrong: an absent supersededAt is written as null.
StoresAll(d, r) == draft' = [draft EXCEPT ![d] = r]

\* drafts.update(): status and supersededAt as the entity has them, but an
\* absent supersededAt is not written.
Stores(d, r) ==
  draft' = [draft EXCEPT ![d] = [status     |-> r.status,
                                 superseded |-> draft[d].superseded \/ r.superseded]]

-----------------------------------------------------------------------------
(* GenerateReportDraftHandler *)

\* loadBase(): the period entity the narration will write back at its end.
GenerateReads(c) ==
  /\ Begins(c)
  /\ Becomes(c, [Idle EXCEPT !.op = "generate", !.pc = "list", !.period = period])
  /\ UNCHANGED <<draft, period, narration, reviewed, approved>>

\* The working drafts that are not superseded, as they are now.
Lists(c) ==
  /\ call[c].op \in {"generate", "activate"} /\ call[c].pc = "list"
  /\ LET others == Drafts \ (IF call[c].op = "activate" THEN {call[c].d} ELSE {})
     IN  Becomes(c, [call[c] EXCEPT !.pc = "supersede",
                                    !.seen = [d \in Drafts |-> IF d \in others THEN draft[d] ELSE @[d]],
                                    !.todo = {d \in others : Current(draft[d])}])
  /\ UNCHANGED <<draft, period, narration, calls, reviewed, approved>>

\* Wrong: one earlier draft is superseded, not all.
SupersedesOne(c) ==
  /\ call[c].pc = "supersede"
  /\ \E d \in call[c].todo :
       /\ IsLatest(d, call[c].todo)
       /\ Stores(d, [call[c].seen[d] EXCEPT !.superseded = TRUE])
       /\ Becomes(c, [call[c] EXCEPT !.todo = {}])
  /\ UNCHANGED <<period, narration, calls, reviewed, approved>>

\* One listed draft after the other, each written as it was listed.
Supersedes(c) ==
  /\ call[c].pc = "supersede"
  /\ \E d \in call[c].todo :
       /\ IsLatest(d, call[c].todo)
       /\ Stores(d, [call[c].seen[d] EXCEPT !.superseded = TRUE])
       /\ Becomes(c, [call[c] EXCEPT !.todo = @ \ {d}])
  /\ UNCHANGED <<period, narration, calls, reviewed, approved>>

\* The new draft is created; run, sections and plan are stored next.
Creates(c) ==
  /\ At(c, "generate", "supersede") /\ call[c].todo = {}
  /\ \E d \in Drafts :
       /\ draft[d] = Absent
       /\ \A e \in Drafts : draft[e] = Absent => d <= e
       /\ draft' = [draft EXCEPT ![d] = Fresh]
       /\ Becomes(c, [call[c] EXCEPT !.pc = "start", !.d = d, !.seen = Nothing])
  /\ UNCHANGED <<period, narration, calls, reviewed, approved>>

\* The narration goes on in background; the call answers.
Starts(c) ==
  /\ At(c, "generate", "start")
  /\ narration' = [narration EXCEPT ![call[c].d] = [pc |-> "running", period |-> call[c].period]]
  /\ Done(c)
  /\ UNCHANGED <<draft, period, calls, reviewed, approved>>

\* AI is off: the skeleton is the result and the period advances at once.
StartsWithoutAi(c) ==
  /\ At(c, "generate", "start")
  /\ period' = Advanced(call[c].period, "DRAFT_GENERATED")
  /\ Done(c)
  /\ UNCHANGED <<draft, narration, calls, reviewed, approved>>

-----------------------------------------------------------------------------
(* The end of generateSectionsInBackground() *)

Narrated(d) ==
  /\ narration[d].pc = "running"
  /\ narration' = [narration EXCEPT ![d].pc = "finish"]
  /\ UNCHANGED <<draft, period, call, calls, reviewed, approved>>

\* The draft fell back or failed: it is written back as it was created.
Corrects(d) ==
  /\ narration[d].pc = "running"
  /\ Stores(d, Fresh)
  /\ narration' = [narration EXCEPT ![d].pc = "finish"]
  /\ UNCHANGED <<period, call, calls, reviewed, approved>>

\* The period is written back as it was read before the narration.
Finishes(d) ==
  /\ narration[d].pc = "finish"
  /\ period' = Advanced(narration[d].period, "DRAFT_GENERATED")
  /\ narration' = [narration EXCEPT ![d] = Quiet]
  /\ UNCHANGED <<draft, call, calls, reviewed, approved>>

\* An error, or the end of the process.
Dies(d) ==
  /\ narration[d].pc # "none"
  /\ narration' = [narration EXCEPT ![d] = Quiet]
  /\ UNCHANGED <<draft, period, call, calls, reviewed, approved>>

Narration(d) == Narrated(d) \/ Corrects(d) \/ Finishes(d) \/ Dies(d)

-----------------------------------------------------------------------------
(* The people working on the period's drafts *)

\* CancelReportGenerationHandler: the newest draft that is not superseded, if
\* it is a working draft.
StopReads(c) ==
  /\ Begins(c)
  /\ \E d \in Drafts :
       /\ IsLatest(d, {e \in Drafts : draft[e] # Absent /\ ~ draft[e].superseded})
       /\ Working(draft[d])
       /\ Becomes(c, [Idle EXCEPT !.op = "stop", !.pc = "write", !.d = d, !.seen[d] = draft[d]])
  /\ UNCHANGED <<draft, period, narration, reviewed, approved>>

\* Wrong: approve() does not ask for a review.
MayBeginUnreviewed(op, r) ==
  \/ op \in {"activate", "approve"} /\ Working(r)
  \/ op = "submit" /\ r.status = "DRAFT"
  \/ op = "reject" /\ r.status = "UNDER_REVIEW"

\* ActivateReportDraftHandler, SubmitReportForReviewHandler, RejectReportHandler
\* and ApproveReportHandler read one draft and look at its status only.
MayBegin(op, r) ==
  \/ op = "activate" /\ Working(r)
  \/ op = "submit" /\ r.status = "DRAFT"
  \/ op \in {"reject", "approve"} /\ r.status = "UNDER_REVIEW"

DraftReads(c, op, d) ==
  /\ Begins(c)
  /\ MayBegin(op, draft[d])
  /\ Becomes(c, [Idle EXCEPT !.op = op, !.pc = IF op = "activate" THEN "list" ELSE "write",
                             !.d = d, !.seen[d] = draft[d]])
  /\ UNCHANGED <<draft, period, narration, reviewed, approved>>

StopWrites(c) ==
  /\ At(c, "stop", "write")
  /\ Stores(call[c].d, [call[c].seen[call[c].d] EXCEPT !.superseded = TRUE])
  /\ Done(c)
  /\ UNCHANGED <<period, narration, calls, reviewed, approved>>

\* activate() clears supersededAt of the draft as it was read at the start.
ActivateWrites(c) ==
  /\ At(c, "activate", "supersede") /\ call[c].todo = {}
  /\ Stores(call[c].d, [call[c].seen[call[c].d] EXCEPT !.superseded = FALSE])
  /\ Done(c)
  /\ UNCHANGED <<period, narration, calls, reviewed, approved>>

SubmitWrites(c) ==
  /\ At(c, "submit", "write")
  /\ Stores(call[c].d, [call[c].seen[call[c].d] EXCEPT !.status = "UNDER_REVIEW"])
  /\ reviewed' = reviewed \cup {call[c].d}
  /\ Done(c)
  /\ UNCHANGED <<period, narration, calls, approved>>

RejectWrites(c) ==
  /\ At(c, "reject", "write")
  /\ Stores(call[c].d, [call[c].seen[call[c].d] EXCEPT !.status = "DRAFT"])
  /\ Done(c)
  /\ UNCHANGED <<period, narration, calls, reviewed, approved>>

\* The gate has been evaluated and the approver checked in between.
ApproveWrites(c) ==
  /\ At(c, "approve", "write")
  /\ Stores(call[c].d, [call[c].seen[call[c].d] EXCEPT !.status = "APPROVED"])
  /\ approved' = approved \cup {call[c].d}
  /\ Goes(c, "period")
  /\ UNCHANGED <<period, narration, calls, reviewed>>

\* Wrong: the period is advanced before the draft is written.
ApproveReadsEarly(c) ==
  /\ \/ At(c, "approve", "write")
     \/ At(c, "approve", "period")
  /\ Becomes(c, [call[c] EXCEPT !.pc = "advance", !.period = period])
  /\ UNCHANGED <<draft, period, narration, calls, reviewed, approved>>

ApproveReadsPeriod(c) ==
  /\ At(c, "approve", "period")
  /\ Becomes(c, [call[c] EXCEPT !.pc = "advance", !.period = period])
  /\ UNCHANGED <<draft, period, narration, calls, reviewed, approved>>

ApproveAdvances(c) ==
  /\ At(c, "approve", "advance")
  /\ period' = Advanced(call[c].period, "APPROVED")
  /\ Done(c)
  /\ UNCHANGED <<draft, narration, calls, reviewed, approved>>

-----------------------------------------------------------------------------
(* CancelReportingPeriodHandler and RestoreReportingPeriodHandler *)

PeriodReads(c, op) ==
  /\ Begins(c)
  /\ op \in {"cancel", "restore"}
  /\ Becomes(c, [Idle EXCEPT !.op = op, !.pc = "list", !.period = period])
  /\ UNCHANGED <<draft, period, narration, reviewed, approved>>

\* checkCancelPeriod() on the drafts as they are now, checkRestorePeriod().
PeriodChecks(c) ==
  /\ \/ At(c, "cancel", "list") /\ ~ call[c].period.cancelled
        /\ \A d \in Drafts : draft[d].status # "APPROVED"
     \/ At(c, "restore", "list") /\ call[c].period.cancelled
  /\ Goes(c, "write")
  /\ UNCHANGED <<draft, period, narration, calls, reviewed, approved>>

\* Wrong: the cancellation is a status.
PeriodWritesStatus(c) ==
  /\ call[c].op \in {"cancel", "restore"} /\ call[c].pc = "write"
  /\ period' = [call[c].period EXCEPT !.status = "CANCELLED"]
  /\ Done(c)
  /\ UNCHANGED <<draft, narration, calls, reviewed, approved>>

PeriodWrites(c) ==
  /\ call[c].op \in {"cancel", "restore"} /\ call[c].pc = "write"
  /\ period' = [call[c].period EXCEPT !.cancelled = (call[c].op = "cancel")]
  /\ Done(c)
  /\ UNCHANGED <<draft, narration, calls, reviewed, approved>>

\* The answer; or a refusal, an error or the end of the process, at any point.
Returns(c) ==
  /\ call[c].pc # "idle"
  /\ Becomes(c, Idle)
  /\ UNCHANGED <<draft, period, narration, calls, reviewed, approved>>

CallStep(c) ==
  \/ GenerateReads(c) \/ Lists(c) \/ Supersedes(c) \/ Creates(c) \/ Starts(c) \/ StartsWithoutAi(c)
  \/ StopReads(c) \/ StopWrites(c)
  \/ \E op \in Ops, d \in Drafts : DraftReads(c, op, d)
  \/ ActivateWrites(c) \/ SubmitWrites(c) \/ RejectWrites(c)
  \/ ApproveWrites(c) \/ ApproveReadsPeriod(c) \/ ApproveAdvances(c)
  \/ \E op \in Ops : PeriodReads(c, op)
  \/ PeriodChecks(c) \/ PeriodWrites(c)
  \/ Returns(c)

-----------------------------------------------------------------------------
Init ==
  /\ draft = Nothing
  /\ period = NewPeriod
  /\ call = [c \in Calls |-> Idle]
  /\ narration = [d \in Drafts |-> Quiet]
  /\ calls = 0
  /\ reviewed = {}
  /\ approved = {}

Next ==
  \/ \E c \in Calls : CallStep(c)
  \/ \E d \in Drafts : Narration(d)

Spec == Init /\ [][Next]_vars

-----------------------------------------------------------------------------
(* Properties *)

\* Every variable keeps its type: in particular the period's status is one
\* ReportStatus knows, so that advanceStatus() can compare it.
TypeOK ==
  /\ draft \in [Drafts -> Rows]
  /\ period \in Periods
  /\ call \in [Calls -> [op : Ops \cup {"none"}, pc : CallPc, d : Drafts,
                         seen : [Drafts -> Rows], todo : SUBSET Drafts, period : Periods]]
  /\ narration \in [Drafts -> [pc : {"none", "running", "finish"}, period : Periods]]
  /\ calls \in Nat
  /\ reviewed \subseteq Drafts
  /\ approved \subseteq Drafts

\* Whatever stale entities other handlers and narrations write meanwhile, a
\* generation or an activation that has swept the drafts it listed leaves none
\* of them current: another current draft appeared after the listing.
SweepHolds ==
  \A c \in Calls : call[c].pc = "supersede" =>
    \A d \in Drafts \ call[c].todo :
      (call[c].op = "generate" \/ d # call[c].d) /\ Current(call[c].seen[d]) => draft[d].superseded

\* A draft that was stopped or replaced stays so, though its narration and the
\* handlers that read it earlier still write it: nobody's stop is lost.
StopIsFinal ==
  [][\A d \in Drafts : draft[d].superseded => draft'[d].superseded]_vars

\* No draft is approved, and none is under review, that was never sent for
\* review, whichever stale row is written last.
ApprovedWasReviewed ==
  \A d \in Drafts : draft[d].status \in {"UNDER_REVIEW", "APPROVED"} => d \in reviewed

\* The period is never ahead of its reports: it is APPROVED only after one of
\* them has been, although the two rows are written one after the other and
\* narrations, cancellations and restorations write the period back stale.
PeriodFollowsDraft ==
  period.status = "APPROVED" => approved # {}

\* ActivateReportDraftHandler: "there is always exactly one current working
\* draft", so at least the period has one when an activation has been written.
ActivationRestores ==
  \A c \in Calls : At(c, "activate", "done") => \E d \in Drafts : Current(draft[d])
=============================================================================
