------------------------------ MODULE AiCredits ------------------------------
(***************************************************************************)
(* AI draft credits of one tenant: the monthly usage counter, the ledger   *)
(* of billable LLM runs, the purchased credit packs, and everything that   *)
(* moves them concurrently -- report generations, the hourly release of    *)
(* stale reservations, and the refunds, suspensions and reactivations of   *)
(* packs.  One step is one database statement: the handlers run without a  *)
(* transaction, so any other process may run between two of them.          *)
(***************************************************************************)
EXTENDS Integers, FiniteSets

CONSTANTS
  Gens,        \* slots of concurrent GenerateReportDraft calls
  Admins,      \* slots of concurrent pack refund/suspend/reactivate calls
  Limit,       \* entitlement.limits.monthlyAiDraftCredits
  NumPacks,    \* packs 1..NumPacks in purchase order, oldest first
  Credits,     \* credits[p] bought with pack p
  Standing,    \* the GROWTH_STANDING_BALANCE packs; the others are TOPUP
  Mode,        \* ENTITLEMENT_ENFORCEMENT: "enforce" or "report"
  Polluted,    \* counter values the first month may start from
  Months,      \* bound: months the model runs through
  MaxAdminOps  \* bound: pack administration calls

Packs == 1..NumPacks

ASSUME CreditsAssumption ==
  /\ IsFiniteSet(Gens) /\ Gens # {}
  /\ Limit \in Nat /\ NumPacks \in Nat /\ Months \in Nat \ {0} /\ MaxAdminOps \in Nat
  /\ Credits \in [Packs -> Nat \ {0}]
  /\ Standing \subseteq Packs
  /\ Mode \in {"enforce", "report"}
  /\ Polluted \subseteq Nat /\ 0 \in Polluted

VARIABLES
  month,       \* the current month
  counter,     \* UsageCounter.used of AI_DRAFT_CREDITS, per month
  ledger,      \* billable successful REPORT_DRAFT runs, per month
  pack,        \* the PurchasedCreditPack rows: used and status
  gen,         \* local state of each generation
  job,         \* local state of ReleaseStaleUsageReservations
  adm,         \* local state of each pack administration call
  adminOps,    \* administration calls so far
  planDrafts,  \* history: drafts billed to the plan quota, per month
  packDrafts   \* history: real drafts a pack paid for

vars == <<month, counter, ledger, pack, gen, job, adm, adminOps, planDrafts, packDrafts>>

PackStatus == {"ACTIVE", "EXHAUSTED", "REFUNDED", "SUSPENDED"}
Resting    == {"idle", "refused"}
GenPc      == Resting \cup {"counted", "heal", "reserve", "undo", "packs", "draw",
                            "setup", "running", "release", "clamp"}
MonthIds   == 1..Months

GenIdle == [pc |-> "idle", month |-> 1, seen |-> 0, excess |-> 0,
            fund |-> "NONE", from |-> 0, todo |-> {}, then |-> "idle"]
JobIdle == [pc |-> "idle", month |-> 1, used |-> 0, target |-> 0]
AdmIdle == [op |-> "none", pack |-> 0, used |-> 0]

AtLeastZero(n)  == IF n < 0 THEN 0 ELSE n
Lesser(a, b)    == IF a < b THEN a ELSE b
To(g, pc)       == [gen[g] EXCEPT !.pc = pc]
Become(g, rec)  == gen' = [gen EXCEPT ![g] = rec]

-----------------------------------------------------------------------------
(* Pack rows *)

CanReserve(p) == pack[p].status = "ACTIVE" /\ pack[p].used + 1 <= Credits[p]

\* Wrong: a pack drained to its last credit stays ACTIVE.
ReservedOffByOne(p) ==
  [used   |-> pack[p].used + 1,
   status |-> IF pack[p].used + 1 > Credits[p] THEN "EXHAUSTED" ELSE pack[p].status]

\* reserve(): one conditional UPDATE.
Reserved(p) ==
  [used   |-> pack[p].used + 1,
   status |-> IF pack[p].used + 1 >= Credits[p] THEN "EXHAUSTED" ELSE pack[p].status]

\* release(): one UPDATE; only EXHAUSTED flips back to ACTIVE.
Released(p) ==
  LET used == AtLeastZero(pack[p].used - 1)
  IN  [used   |-> used,
       status |-> IF pack[p].status = "EXHAUSTED" /\ used < Credits[p]
                  THEN "ACTIVE" ELSE pack[p].status]

-----------------------------------------------------------------------------
(* The usage counter *)

\* add(): increment, and a second statement that clamps a negative result.
AddTo(g, m, d, next) ==
  /\ counter' = [counter EXCEPT ![m] = @ + d]
  /\ Become(g, IF counter[m] + d < 0
               THEN [next EXCEPT !.pc = "clamp", !.then = next.pc, !.month = m]
               ELSE next)

Clamp(g) ==
  /\ gen[g].pc = "clamp"
  /\ counter' = [counter EXCEPT ![gen[g].month] = 0]
  /\ Become(g, [To(g, gen[g].then) EXCEPT !.then = "idle"])
  /\ UNCHANGED <<month, ledger, pack, job, adm, adminOps, planDrafts, packDrafts>>

-----------------------------------------------------------------------------
(* GenerateReportDraftHandler *)

\* The ledger is counted for the month that is current at the start.
CountLedger(g) ==
  /\ gen[g].pc \in Resting
  /\ Become(g, [GenIdle EXCEPT !.pc = "counted", !.month = month, !.seen = ledger[month]])
  /\ UNCHANGED <<month, counter, ledger, pack, job, adm, adminOps, planDrafts, packDrafts>>

\* Wrong: heals whatever the difference is.
ReadCounterHealsAlways(g) ==
  /\ gen[g].pc = "counted"
  /\ Become(g, [To(g, "heal") EXCEPT !.excess = counter[gen[g].month] - gen[g].seen])
  /\ UNCHANGED <<month, counter, ledger, pack, job, adm, adminOps, planDrafts, packDrafts>>

\* Wrong: trusts the counter as it is.
ReadCounterHealsNever(g) ==
  /\ gen[g].pc = "counted"
  /\ Become(g, To(g, "reserve"))
  /\ UNCHANGED <<month, counter, ledger, pack, job, adm, adminOps, planDrafts, packDrafts>>

ReadCounter(g) ==
  /\ gen[g].pc = "counted"
  /\ LET excess == AtLeastZero(counter[gen[g].month]) - gen[g].seen
     IN  Become(g, IF excess > 0 THEN [To(g, "heal") EXCEPT !.excess = excess]
                                 ELSE To(g, "reserve"))
  /\ UNCHANGED <<month, counter, ledger, pack, job, adm, adminOps, planDrafts, packDrafts>>

\* The self-heal subtracts the excess it read, not the excess there is now.
Heal(g) ==
  /\ gen[g].pc = "heal"
  /\ AddTo(g, gen[g].month, - gen[g].excess, [To(g, "reserve") EXCEPT !.excess = 0])
  /\ UNCHANGED <<month, ledger, pack, job, adm, adminOps, planDrafts, packDrafts>>

\* Wrong: the ledger is not looked at, only the counter.
ReservePlanByCounter(g) ==
  /\ gen[g].pc = "reserve"
  /\ AddTo(g, month, 1, IF counter[month] + 1 <= Limit
                        THEN [GenIdle EXCEPT !.pc = "setup", !.fund = "PLAN"]
                        ELSE [GenIdle EXCEPT !.pc = "undo", !.month = month])
  /\ UNCHANGED <<month, ledger, pack, job, adm, adminOps, planDrafts, packDrafts>>

\* Plan quota, in the month that is current now.
ReservePlan(g) ==
  /\ gen[g].pc = "reserve"
  /\ gen[g].seen < Limit
  /\ AddTo(g, month, 1, IF counter[month] + 1 <= Limit
                        THEN [GenIdle EXCEPT !.pc = "setup", !.fund = "PLAN"]
                        ELSE [GenIdle EXCEPT !.pc = "undo", !.month = month])
  /\ UNCHANGED <<month, ledger, pack, job, adm, adminOps, planDrafts, packDrafts>>

UndoPlan(g) ==
  /\ gen[g].pc = "undo"
  /\ AddTo(g, gen[g].month, -1, To(g, "packs"))
  /\ UNCHANGED <<month, ledger, pack, job, adm, adminOps, planDrafts, packDrafts>>

ListPacks(g) ==
  /\ \/ gen[g].pc = "packs"
     \/ gen[g].pc = "reserve" /\ gen[g].seen >= Limit
  /\ Become(g, [GenIdle EXCEPT !.pc = "draw", !.todo = {p \in Packs : pack[p].status = "ACTIVE"}])
  /\ UNCHANGED <<month, counter, ledger, pack, job, adm, adminOps, planDrafts, packDrafts>>

\* A pack drained since the listing is a CONFLICT: the next oldest is tried.
DrawPack(g) ==
  /\ gen[g].pc = "draw"
  /\ \E p \in gen[g].todo :
       /\ \A q \in gen[g].todo : p <= q
       /\ \/ /\ CanReserve(p)
             /\ pack' = [pack EXCEPT ![p] = Reserved(p)]
             /\ Become(g, [GenIdle EXCEPT !.pc = "setup", !.fund = "PACK", !.from = p])
          \/ /\ ~ CanReserve(p)
             /\ pack' = pack
             /\ Become(g, [gen[g] EXCEPT !.todo = @ \ {p}])
  /\ UNCHANGED <<month, counter, ledger, job, adm, adminOps, planDrafts, packDrafts>>

\* AI_CREDITS_EXHAUSTED; in report mode the draft goes ahead unmetered.
NoCredit(g) ==
  /\ gen[g].pc = "draw"
  /\ gen[g].todo = {}
  /\ Become(g, To(g, IF Mode = "report" THEN "setup" ELSE "refused"))
  /\ UNCHANGED <<month, counter, ledger, pack, job, adm, adminOps, planDrafts, packDrafts>>

\* Draft, run, sections and plan are stored; narration starts in background.
StoreDraft(g) ==
  /\ gen[g].pc = "setup"
  /\ Become(g, To(g, "running"))
  /\ UNCHANGED <<month, counter, ledger, pack, job, adm, adminOps, planDrafts, packDrafts>>

\* A create fails, or a section falls back to the stub or the loop throws.
GenerationFails(g) ==
  /\ gen[g].pc \in {"setup", "running"}
  /\ Become(g, To(g, "release"))
  /\ UNCHANGED <<month, counter, ledger, pack, job, adm, adminOps, planDrafts, packDrafts>>

\* Reading or superseding the earlier drafts fails: returned as it is.
SupersedeFails(g) ==
  /\ gen[g].pc = "setup"
  /\ Become(g, GenIdle)
  /\ UNCHANGED <<month, counter, ledger, pack, job, adm, adminOps, planDrafts, packDrafts>>

PackPays(g) ==
  packDrafts' = IF gen[g].fund = "PACK"
                THEN [packDrafts EXCEPT ![gen[g].from] = @ + 1] ELSE packDrafts

\* A real AI draft: one billable run enters the ledger.
Bill(g) ==
  /\ gen[g].pc = "running"
  /\ ledger' = [ledger EXCEPT ![month] = @ + 1]
  /\ planDrafts' = IF gen[g].fund = "PLAN"
                   THEN [planDrafts EXCEPT ![month] = @ + 1] ELSE planDrafts
  /\ PackPays(g)
  /\ Become(g, GenIdle)
  /\ UNCHANGED <<month, counter, pack, job, adm, adminOps>>

\* recordRun fails; its result is not looked at.
BillFails(g) ==
  /\ gen[g].pc = "running"
  /\ PackPays(g)
  /\ Become(g, GenIdle)
  /\ UNCHANGED <<month, counter, ledger, pack, job, adm, adminOps, planDrafts>>

\* releaseCreditReservation(), in the month that is current now.
Release(g) ==
  /\ gen[g].pc = "release"
  /\ \/ /\ gen[g].fund = "PLAN"
        /\ AddTo(g, month, -1, GenIdle)
        /\ pack' = pack
     \/ /\ gen[g].fund = "PACK"
        /\ pack' = [pack EXCEPT ![gen[g].from] = Released(gen[g].from)]
        /\ Become(g, GenIdle)
        /\ counter' = counter
     \/ /\ gen[g].fund = "NONE"
        /\ Become(g, GenIdle)
        /\ UNCHANGED <<counter, pack>>
  /\ UNCHANGED <<month, ledger, job, adm, adminOps, planDrafts, packDrafts>>

\* The process dies; nothing undoes what it reserved.
Crash(g) ==
  /\ gen[g].pc \notin Resting
  /\ Become(g, GenIdle)
  /\ UNCHANGED <<month, counter, ledger, pack, job, adm, adminOps, planDrafts, packDrafts>>

GenStep(g) ==
  \/ CountLedger(g) \/ ReadCounter(g) \/ Heal(g) \/ ReservePlan(g) \/ UndoPlan(g)
  \/ ListPacks(g) \/ DrawPack(g) \/ NoCredit(g) \/ StoreDraft(g) \/ GenerationFails(g)
  \/ SupersedeFails(g) \/ Bill(g) \/ BillFails(g) \/ Release(g) \/ Clamp(g) \/ Crash(g)

-----------------------------------------------------------------------------
(* ReleaseStaleUsageReservationsHandler, hourly *)

JobList ==
  /\ job.pc = "idle"
  /\ job' = [pc |-> "listed", month |-> month, used |-> AtLeastZero(counter[month]), target |-> 0]
  /\ UNCHANGED <<month, counter, ledger, pack, gen, adm, adminOps, planDrafts, packDrafts>>

JobCount ==
  /\ job.pc = "listed"
  /\ job' = IF job.used <= ledger[job.month]
            THEN JobIdle
            ELSE [job EXCEPT !.pc = "clamp", !.used = 0, !.target = ledger[job.month]]
  /\ UNCHANGED <<month, counter, ledger, pack, gen, adm, adminOps, planDrafts, packDrafts>>

\* Wrong: writes back what it read.
JobReadCurrentKeeps ==
  /\ job.pc = "clamp"
  /\ job' = [job EXCEPT !.pc = "write", !.target = AtLeastZero(counter[job.month])]
  /\ UNCHANGED <<month, counter, ledger, pack, gen, adm, adminOps, planDrafts, packDrafts>>

\* setUsed(): the committed value is read ...
JobReadCurrent ==
  /\ job.pc = "clamp"
  /\ job' = [job EXCEPT !.pc = "write", !.target = Lesser(job.target, counter[job.month])]
  /\ UNCHANGED <<month, counter, ledger, pack, gen, adm, adminOps, planDrafts, packDrafts>>

\* ... and the lesser of the two values is written later.
JobWrite ==
  /\ job.pc = "write"
  /\ counter' = [counter EXCEPT ![job.month] = job.target]
  /\ job' = JobIdle
  /\ UNCHANGED <<month, ledger, pack, gen, adm, adminOps, planDrafts, packDrafts>>

JobCrash ==
  /\ job.pc # "idle"
  /\ job' = JobIdle
  /\ UNCHANGED <<month, counter, ledger, pack, gen, adm, adminOps, planDrafts, packDrafts>>

JobStep == JobList \/ JobCount \/ JobReadCurrent \/ JobWrite \/ JobCrash

-----------------------------------------------------------------------------
(* Refund (webhook or back office), suspension and reactivation (subscription
   sync): the row is read, changed in memory and written back whole. *)

\* Wrong: suspension and reactivation do not look at the pack's source.
MayDoAnySource(op, p) ==
  \/ op = "REFUNDED" /\ pack[p].status # "REFUNDED"
  \/ op = "SUSPENDED" /\ pack[p].status = "ACTIVE"
  \/ op = "ACTIVE" /\ pack[p].status = "SUSPENDED"

MayRefund(p)     == pack[p].status # "REFUNDED"
MaySuspend(p)    == p \in Standing /\ pack[p].status = "ACTIVE"
MayReactivate(p) == p \in Standing /\ pack[p].status = "SUSPENDED"

MayDo(op, p) ==
  \/ op = "REFUNDED" /\ MayRefund(p)
  \/ op = "SUSPENDED" /\ MaySuspend(p)
  \/ op = "ACTIVE" /\ MayReactivate(p)

AdminRead(a, op, p) ==
  /\ adm[a] = AdmIdle
  /\ adminOps < MaxAdminOps
  /\ MayDo(op, p)
  /\ adm' = [adm EXCEPT ![a] = [op |-> op, pack |-> p, used |-> pack[p].used]]
  /\ adminOps' = adminOps + 1
  /\ UNCHANGED <<month, counter, ledger, pack, gen, job, planDrafts, packDrafts>>

AdminWrite(a) ==
  /\ adm[a] # AdmIdle
  /\ pack' = [pack EXCEPT ![adm[a].pack] = [used |-> adm[a].used, status |-> adm[a].op]]
  /\ adm' = [adm EXCEPT ![a] = AdmIdle]
  /\ UNCHANGED <<month, counter, ledger, gen, job, adminOps, planDrafts, packDrafts>>

-----------------------------------------------------------------------------
NewMonth ==
  /\ month < Months
  /\ month' = month + 1
  /\ UNCHANGED <<counter, ledger, pack, gen, job, adm, adminOps, planDrafts, packDrafts>>

Init ==
  /\ month = 1
  /\ \E c \in Polluted : counter = [m \in MonthIds |-> IF m = 1 THEN c ELSE 0]
  /\ ledger = [m \in MonthIds |-> 0]
  /\ pack = [p \in Packs |-> [used |-> 0, status |-> "ACTIVE"]]
  /\ gen = [g \in Gens |-> GenIdle]
  /\ job = JobIdle
  /\ adm = [a \in Admins |-> AdmIdle]
  /\ adminOps = 0
  /\ planDrafts = [m \in MonthIds |-> 0]
  /\ packDrafts = [p \in Packs |-> 0]

Next ==
  \/ \E g \in Gens : GenStep(g)
  \/ JobStep
  \/ \E a \in Admins : AdminWrite(a) \/ \E op \in PackStatus, p \in Packs : AdminRead(a, op, p)
  \/ NewMonth

\* The job is scheduled every hour and does not fail on every run for ever.
JobFairness ==
  WF_vars(JobList) /\ SF_vars(JobCount) /\ SF_vars(JobReadCurrent) /\ SF_vars(JobWrite)

Spec == Init /\ [][Next]_vars
FairSpec == Spec /\ JobFairness

-----------------------------------------------------------------------------
(* Properties *)

\* Every variable keeps its type; the counter may dip below zero between the
\* two statements of add() (PrismaUsageCounterRepository).
TypeOK ==
  /\ month \in MonthIds
  /\ counter \in [MonthIds -> Int]
  /\ ledger \in [MonthIds -> Nat]
  /\ pack \in [Packs -> [used : Nat, status : PackStatus]]
  /\ gen \in [Gens -> [pc : GenPc, month : MonthIds, seen : Nat, excess : Nat,
                       fund : {"NONE", "PLAN", "PACK"}, from : 0..NumPacks,
                       todo : SUBSET Packs, then : GenPc]]
  /\ job \in [pc : {"idle", "listed", "clamp", "write"}, month : MonthIds, used : Nat, target : Int]
  /\ adm \in [Admins -> {AdmIdle} \cup [op : PackStatus, pack : Packs, used : Nat]]
  /\ adminOps \in Nat
  /\ planDrafts \in [MonthIds -> Nat]
  /\ packDrafts \in [Packs -> Nat]

\* A pack row agrees with itself whatever refunds, suspensions, releases and
\* draws interleave: an ACTIVE or SUSPENDED pack still has a credit (so the
\* remaining > 0 test of AiCreditGate equals "some pack is ACTIVE"), an
\* EXHAUSTED one has none, and no pack is overdrawn.
PackShape ==
  \A p \in Packs :
    /\ pack[p].used <= Credits[p]
    /\ pack[p].status \in {"ACTIVE", "SUSPENDED"} => pack[p].used < Credits[p]
    /\ pack[p].status = "EXHAUSTED" => pack[p].used = Credits[p]

\* Generations that hold a credit of pack p.
Holders(p) == {g \in Gens : gen[g].fund = "PACK" /\ gen[g].from = p}

\* A top-up pack never pays for more drafts than it has credits, counting the
\* drafts under way, though refunds write a stale `used` over concurrent draws.
TopUpNeverOversold ==
  \A p \in Packs \ Standing : packDrafts[p] + Cardinality(Holders(p)) <= Credits[p]

\* The self-heal and the stale-release job erase reservations in flight, so
\* the plan quota can be exceeded -- but never by as many drafts as there are
\* generations in flight at once, because each one started from a ledger below
\* the limit.
PlanOvershootBounded ==
  \A m \in MonthIds : planDrafts[m] <= Limit - 1 + Cardinality(Gens)

\* Reservations leaked by crashes or by unreleased failures do not stay on the
\* current month's counter once generations rest: the hourly job removes them.
LeaksHealed ==
  <>[](\A g \in Gens : gen[g].pc \in Resting) => <>[](counter[month] <= ledger[month])

OneAtATime == \A g, h \in Gens : g = h \/ gen[g].pc \in Resting \/ gen[h].pc \in Resting

\* A polluted or leaked counter cannot lock a tenant out: once the ledger stays
\* below the limit and generations run one at a time, they are refused at most
\* finitely often, whatever each of them leaks to the next by failing or
\* crashing and whatever the hourly job writes (the self-heal of
\* GenerateReportDraftHandler).
NotLockedOut ==
  <>[](OneAtATime /\ ledger[month] < Limit) => <>[][\A g \in Gens : ~ NoCredit(g)]_vars

\* PurchasedCreditPack: "Refunds stop further draw-down", so a refunded pack
\* never becomes drawable again.
RefundStopsDrawDown ==
  \A p \in Packs : [](pack[p].status = "REFUNDED" => [](pack[p].status # "ACTIVE"))
=============================================================================
