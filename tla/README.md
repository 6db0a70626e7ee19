# DonorDesk: verification models

DonorDesk writes donor reports for NGOs: activities, indicators and evidence of a
reporting period become a report draft that a language model narrates section by
section, people review and approve, and a billing system meters. The code is a
TypeScript monorepo (`src/packages/domain`, `application`, `infrastructure`,
`src/apps/api`, `web`, `workers`) on Postgres through Prisma.

Nearly every handler of the application reads rows, changes entities in memory and
writes rows back, **without a transaction and without a lock**. Several API processes
run side by side, long narrations run in the background of one of them, and an hourly
scheduler runs jobs. So the step of every model here is *one database statement* (or
one call of the writer), and anybody may run between two steps of a handler.

Contents: 1 inventory, 2 plan, 3 modules and code, 4 runs, 5 what the violation runs
show, 6 fairness, 7 proofs, 8 what is not modelled.

## 1. Inventory

Paths: GRD = `application/.../reporting/generate-report-draft.ts`. PROJECT.json lists
every component with its sources, and every hazard with its line.

| component | state | operations | hard behaviour | what makes it correct | |
|---|---|---|---|---|---|
| AI draft credits | `UsageCounter`, `LlmRun` ledger, `PurchasedCreditPack` | reserve, release, self-heal, bill, hourly release, refund, suspend, reactivate | two sources of truth (counter and ledger) repaired from stale reads; crashes leak; months roll over | quota exceeded at most boundedly, packs never overdrawn, no lock-out, leaks go away | modelled in part |
| Section generation | `ReportDraft`, `ReportSection`, the background run | pool of workers, two phases, settle; stop, edit, reorder, mark, delete | minutes between read and write, stale rows put back, a dying worker, a stop | one writer call per section, summaries last, honest billing, prompt stop, the run settles | modelled in part |
| Draft lifecycle and period | `ReportDraft` rows of a period, `ReportingPeriod` | generate, stop, activate, submit, reject, approve, cancel, restore | stale rows written whole; two rows written one after the other | nothing unreviewed approved, stops final, sweeps hold, period not ahead of reports | modelled in part |
| Repeatable creates | `RequestIdempotency` row | begin (insert, find, judge, free), finish (complete, release) | simultaneous repeats, timeouts, outages, slow requests taken for dead | one creation per key | modelled in part |
| Regeneration, rewriting, charts | section rows, run rows | regenerate, rewrite, reorder, chart setting | regenerations of one section overlap, for the in-memory tracker is made anew with every request; rows written back minutes after they were read | the row shows its revision's text; an hour's regenerations are bounded | modelled in part |
| Revision assurance and claims | revisions, claims | edit, assess, resolve, reopen, reassess, approve a section, change of scope | claims replaced from early reads; two assessments at once | claims belong to their revision, decisions to their statement, approval to an assessed revision | modelled in part |
| Approval gate, snapshots, exports | reads all of the above | evaluate, seal, export | reads spread over time | what is approved is what was checked | next candidate |
| Billing synchronisation, webhook inbox | inbox rows, subscription, entitlement grants, pack | receive, process, retry, reconcile, synchronise | late, reordered, lost events; dead processes; three writers of the same rows | access was paid for, no event is stuck, the provider is followed | modelled in part |
| Entitlements, seats, invitations, projects, evidence uploads | users, invitations, projects, storage counter, evidence rows | invite, accept, change role, create, archive, restore, upload, storage job | count, then write; reservations that leak or are erased | limits passed at most boundedly, one acceptance, leaks go away | modelled in part |
| Collaboration gateway | channels, sockets, presence | join, leave, close | a close before the join is finished; two sockets of one user | presence equals open sockets | candidate |
| Audit hash chain | audit rows of a tenant, its advisory lock | append; deletion of the trail by an operator | concurrent appends, clocks that differ, rollbacks, a deletion without the lock | the trail verifies and stands in order; nobody waits for ever | modelled |
| Checklist, activities, logframe, memory, templates, finance | one row each, mostly | read, change, write | lost updates of the same kind | as in their unit tests | not modelled |
| Jobs, events, outgoing webhooks, replica router | queues in memory or Redis | enqueue | fire and forget by design, or unused | - | not modelled |
| HTTP API, web, contracts, Python workers, operator tooling | none shared | routing, rendering, stateless services | - | - | not modelled |

How they interact. A generation reads the period and the credit state, reserves a
credit, supersedes the earlier drafts, creates draft, sections and plan, answers the
request, and goes on in the background: workers call the writer, commit revisions,
have them assessed; at the end the credit is billed or released, the draft corrected
and the period advanced. People edit, stop, submit, approve and cancel meanwhile.
Provider events refund, suspend or reactivate packs meanwhile. The hourly job resets
counters meanwhile. Any create request may be repeated by the client. Webhooks, the inbox
retry and the reconciliation call one synchroniser, which writes the grants that limits
are resolved from and the packs that generations draw on. Every commit of a text, by
whomever, goes through `commitChange` and `assessRevision`.

## 2. Plan

Written so far, most important first:

1. `AiCredits`: what is charged. The credit side of a generation; its narration is one
   nondeterministic outcome.
2. `PaidDraft` (abstract) and `SectionGeneration` (shown to implement it): what is
   written. The narration of one draft; credits, claims and the period are left to the
   other modules, and the credit is one outcome.
3. `ReportLifecycle`: what becomes of drafts and period. Many drafts; a narration is
   here only the two stale writes at its end.
4. `CreateOnce` (abstract) and `RequestIdempotency` (detailed, shown to implement it).
5. `RevisionHistory` (abstract) and `SectionAssurance` (shown to implement it): what is
   assured. One section with all its revisions, claims and
   decisions, and every request that touches them; the background generation, which
   `SectionGeneration` has, is here only as its result.
6. `BillingInbox`: what is paid. It supplies the refunds, suspensions and reactivations
   that are inputs of `AiCredits`.
7. `TenantCapacity`: what is limited: seats, viewers, projects, storage.
8. `AuditTrail` (abstract) and `AuditChain` (shown to implement it): what is
   remembered. Every handler above ends with an append to it; none
   reads it, so it stands alone.

The modules cut one system along its rows: each owns the rows its properties speak of and
sees the others as free outcomes, which over-approximates them. They meet in GRD: the
`outcome` of `SectionGeneration` is `Bill`/`GenerationFails` of `AiCredits`, its
`Supersede` is `StopWrites`/`Supersedes` of `ReportLifecycle`; `Close` of
`SectionAssurance` is its submission or sweep. `Shelve` and the refund of `BillingInbox`
are the `AdminWrite` of `AiCredits`.

Next, in this order:

9. `ApprovalGate` over 3 and 5: what is approved, sealed and exported is what was
   checked; cancellation against approval. `evaluate` reads nine repositories.
10. `CollaborationGateway`: sockets, channels and presence of one instance.

Theorem planned: a `SectionGeneration` step maps to `AiCredits`' view of it, as it
already does to `PaidDraft`'s.

## 3. Modules and code

A definition whose comment starts with "Wrong:" is a plausible bug, used only to show
that a property notices it; no specification refers to it.

**AiCredits** (GRD 89-205, 393-451, 524-535; `release-stale-usage-reservations.ts`;
`repositories/billing.ts`; `purchased-credit-pack.ts`). `counter[m]` is
`UsageCounter.used` of month m, `ledger[m]` the count of billable runs, `pack[p]` used
and status, `gen[g]` the locals of one `handle()` with its background end, `job` those
of the hourly handler, `adm[a]` those of one refund, suspension or reactivation.
`planDrafts` and `packDrafts` are history. `CountLedger`, `ReadCounter`, `Heal` are the
self-heal, three statements apart; `ReservePlan`/`UndoPlan` is
reserve-then-compare-then-undo; `Clamp` is the second statement of `add()`; `DrawPack`
and `Released` are the single conditional UPDATEs of the pack repository;
`JobReadCurrent`/`JobWrite` the two statements of `setUsed()`; `AdminWrite` writes back
the row as read. A release uses the month that is current *then*, as the code does.

**SectionGeneration** (GRD 453-668, `section-generation-service.ts`,
`llm-report-draft-generator.ts`, `report-revision-service.ts`,
`report-assurance-service.ts`, `update-report-section.ts`, `delete-report-section.ts`,
`reorder-report-sections.ts`, `mark-summary-current.ts`,
`update-report-section-chart.ts`, `approve-report-section.ts`). `row[i]` is a section row,
`run` the state object of the background function (`queue` is what is left of the
phase, `stopped`, `fallback`, `failed` its flags), `worker[w]` a member of the pool,
`editor[e]` a manual request under way: an edit, with its commit and assessment, or one of
the handlers that read a whole row and later write it back without a new text
(`TouchRead`, `TouchWrite`); a reordering takes one slot for each section it moves. Between them they stand for every
caller of `sections.update` and `commitChange`: a rewriting is an edit that takes longer, an
assessment after a decision is the second form of `TouchWrite`, as an approval is. Deleted
rows stay in `row` as DELETED. The writer answers in three ways (`Answers`): with the
provider's text ("ai"), with the stub it fell back to ("stub"), which raises the fallback
flag, and for a section whose required input was never recorded (`Thin`) with a stub the
provider was not asked for ("gap"), which raises no flag and is billed. `undone` is history:
the started sections that a stale row has put back to NOT_STARTED; with them alone a summary
can be written over a section that is not there, or a billed draft be incomplete.
**PaidDraft** is what the credit of a draft buys, without workers, phases, editors or
failures: ask for a section once, for a summary only over texts in place, store an answer
once, bill once and last, and only when every answer was stored and none was fallen back to,
or release. It says openly that a gap is paid for like the provider's text. The refinement
mapping: asked = `calls`, text = `wrote`, outcome = `run.outcome`; every other statement is a
stutter.

**ReportLifecycle** (GRD 209-238, 331-375, 535-575, `activate-report-draft.ts`,
`cancel-report-generation.ts`, `submit-report-for-review.ts`, `reject-report.ts`,
`approve-report.ts`, `period-lifecycle-handlers.ts`, `report-draft.ts`,
`reporting-period.ts`, `repositories/reporting.ts`). `draft[d]` is a row, drafts being
numbered in order of creation; `call[c]` is a handler call with the rows it has `seen`,
those still to supersede (`todo`) and the period it read; `narration[d]` is the
background end of draft d's generation with the period *it* read. `Stores` is
`drafts.update()`, which does not write an absent `supersededAt`.

**RequestIdempotency** (`request-idempotency-service.ts`, its repository, the verdict
in `domain/core/idempotency.ts`, the middleware, and `create-project.ts` for a handler that
answers an error after it stored its row). `record` is the row of one key, `req[r]` a
request with its round and the record it has `seen`. A request that meets a dead store
becomes "untracked" and still runs its handler (`RunUntracked`), as the middleware lets it;
a failed handler may have stored its row. Both are kept in `stray`, the exceptions of
`CreatedOnce`. **CreateOnce** says in permits what a key promises: a run answered with an
error gives its permit back whether it stored or not, and runs outside the key are a step of
the promise (`Bypass`, `CreateOutside`), so that it says what a client can rely on and no
more. The refinement mapping: permits = 1 + frees + failures - starts; running = requests in
their handler under the key; replies = the replayed records; created and stray as they are.

**SectionAssurance** (`update-report-section.ts`, `rewrite-report-section.ts`,
`regenerate-report-section.ts`, `report-revision-service.ts`,
`report-assurance-service.ts`, `resolve-`, `reopen-report-claim.ts`,
`reassess-report-revision.ts`, `approve-report-section.ts`,
`update-reporting-period-scope.ts`, the repositories of revisions and claims). `section` is the row, `revs` the revisions by number, `claims` the claims with
the revision (`rev`) and the assessment (`by`) they come from, `call[p]` the locals of one request: the row as it read it, its new text,
the evidence it saw, the claims still to store. A text is a set of statements; evidence
supports a statement or not (`weak`). `Number`/`Insert` are the two statements of
`createNextForSection` with its retry, `Store` the whole-row write of `commitChange`,
`Look` to `Review` the statements of `assessRevision` that others can see. `passed` and
`decided` are history. The tracker of running regenerations has no state here: it is made
in `createContainer` (`infrastructure/src/container.ts` 1105), which `server.ts` 145-147
calls for every request, so `runningAmong` answers nothing and `tryStart` never refuses.
`regens` is the count of the draft's regeneration runs of the last hour, which `Elapse`
lowers; it is compared in `Regenerate` and raised in `Prepare`. **RevisionHistory** is what a reader of a section can rely on: texts
are only added, each under its number, and the row shows one of them word for word,
approved only if it was examined. The refinement mapping: texts = the texts of `revs`,
examined = `passed`, shown = text, number and approval of `section`; claims, decisions
and the rows in the hands of requests do not occur in it.
Simplifications: a left-out statement is a failing, decided one; draft and row are read
in one step; the expected version can only refuse, so it is not kept; the ten attempts
at a revision number are not exhausted; the section is not deleted meanwhile.

**BillingInbox** (`process-billing-webhook.ts`, `retry-billing-inbox.ts`,
`reconcile-billing-subscriptions.ts`, `billing-subscription-synchronizer.ts`,
`repositories/billing.ts`). `issued` is the list of states the provider gave the
subscription, and a number stands for each wherever the code holds a snapshot: in an
event, in a process, in `local`. `inbox[e]` is the inbox row of event e, `grants` the
entitlement windows that were not ended, `pack` the pack of one order, `proc[p]` the
locals of a webhook request or of one of the two jobs. `Find` to `Shelve` is the
synchroniser, shared by the three callers. `Mint` and `Refund` are the writes of an order's
pack, each with its failure. A repeated delivery is the same as none. `attempts` has no cap,
as in the code: `maxAttempts` is looked at only when the provider does not answer or the
synchronisation returns an error, so rounds that die, throw or skip are counted past it.
Simplifications: ACTIVE stands for the statuses that give access (trialing, past due);
one order, with fewer standing-balance packs than the cap beside it
(`process-billing-webhook.ts` 149-172, where a purchase over the cap is acknowledged and not
stored); the tenant is known; `markProcessing` and the read of the order's pack after it are
one step; a retry is only of a row whose webhook is gone (the
15-minute threshold); the six hours of the reconciliation are not counted.

**TenantCapacity** (`invite-user.ts`, `accept-invitation.ts`, `change-role.ts`,
`create-`, `archive-`, `restore-project.ts`, `upload-evidence.ts`,
`reconcile-managed-storage.ts`, `entitlement-service.ts`). `users[e]` is the role of a
person or "none", `invs` the invitations, `projects` the projects with their setup row
(`ready`), `counter[m]` the storage counter of month m, `stored` the bytes of the
evidence rows, `call[p]` a request between its check and its last write, `job` the
reconciliation. A file is one byte; a reservation is released from the month it is by
then, as the code does. The counter is moved by two statements each time, with anybody's
steps in between: `Adds` and, if the result is negative, `Clamp` (`add()`); `JobRead` and
`JobWrite` (`setUsed()`), the second of which writes over whatever the counter is by then.
So the counter may be negative for a while, and a stale write may lower it under a
reservation or raise it over a release.

**AuditChain** (`repositories/support.ts` 130-231, `audit/chain.ts`; `forceDeleteTenant`
in `control-plane.ts`). The trail of one tenant. `rows` are its committed events, `lock`
the holder of `pg_advisory_xact_lock`, `writer[p]` the locals of one `append()`, `purge`
the deletion under way with the rows its DELETE found. An event's number stands for its
hash too, so equal hashes are equal events; recomputing a stored hash is not modelled,
since no code updates a row. **AuditTrail** is a list that grows at its end by one event,
or loses a beginning to the deletion; the refinement mapping (`Trail`) gives the events, the
order verifyChain() reads them in (`ReadOrder`), what each is linked to (`Links`) and
whether anything was deleted. Each append reads its own clock: any value up to a bound.
`seen` is history: what was recorded before the event was asked for. `ChainVerifies` is the
loop of `verifyChain()`.

The MC modules only add constants and symmetry sets. Actions and their source lines:
PROJECT.json, "map".

## 4. Runs

Times are for two workers.

| run | instance | what it shows |
|---|---|---|
| MCAiCredits | 2 generations, quota 1, 2 months, counter clean or polluted by 1, the hourly job; 596k states, 115 s | `PlanOvershootBounded`: at most Limit - 1 + generations drafts on the plan, however often reservations are erased; `NotLockedOut`, `LeaksHealed` with the job running |
| MCCreditPacks | 2 generations, quota 0, a top-up of 1 and a standing pack of 2 credits, 2 administrations; 341k states, 19 s | `PackShape`, `TopUpNeverOversold` against stale pack rows |
| MCSectionGeneration | 3 sections, the *first* a summary, the second with nothing to be written from, 2 workers, 1 editor, 1 edit, deletion or stale row; 655k states, 85 s | `SynthesisLast`, `BilledIsReal`, `StopIsPrompt`, `RunSettles`, and `Delivers`: it implements `PaidDraft`, which includes `NarratedOnce` |
| MCReportLifecycle | 2 drafts, 2 concurrent calls, 5 calls in all; 549k states, 23 s | `SweepHolds`, `StopIsFinal`, `ApprovedWasReviewed`, `PeriodFollowsDraft` |
| MCSectionAssurance | statements s1 and s2 (s2 unsupported), 2 concurrent requests of nine kinds, 1 regeneration an hour, perhaps used up, 1 failure, crash, change of evidence, closing of the draft or run past its hour; 3.44M states, 105 s | `ApprovedWasExamined`, `ClaimsOfTheirRevision`, `DecisionsNotSpread`, `RegenerationsBounded`, and `KeepsHistory`: it implements `RevisionHistory`, which includes `RowMatchesRevision` |
| MCBillingInbox | 1 webhook at a time beside both jobs, 2 provider events, 1 renewal, 1 order, 2 attempts before giving up, 1 fault; 1.23M states, 120 s | `AccessWasPaid`, `ProcessedTookEffect`, `StuckEventsSettle`, `ProviderIsFollowed` |
| MCTenantCapacity | 2 people, limits of 1, 2 concurrent requests of seven kinds, 2 months, 1 fault, the storage job; 534k states, 90 s | `CapacityBounded`, `AcceptedOnce`, `LeaksHealed` |
| MCAuditChain | 3 writers, 4 events, clocks 0 or 1, 1 deletion; 155k states, 55 s | `ChainVerifies`, `RecordedInOrder`, `AppendsEnd`, and `KeepsTrail`: it implements `AuditTrail` |
| MCRequestIdempotency | 3 requests, pending timeout 1, TTL 2, clock to 3; 1.54M states, 50 s | `CreatedOnce`, and `KeepsPromise`: it implements `CreateOnce` |

Why the bounds are enough. Two generations are the least that erase each other's
reservations; with one unit of quota every conflict is on the last unit; two months
give a release in the wrong month. Two packs with one and two credits have the last
credit, a pack that stays ACTIVE after a draw, and both kinds. Two workers and three
sections give a worker without work, one alive beside a dead one, and a summary that
would be taken first if phases did not exist; with one edit every race of an edit or a stale
row with each statement of a worker happens. Two drafts are what superseding needs; two
concurrent calls and three earlier ones reach every pair of stale writers from every
status. Three requests are one slow, one that replaces it and one that meets both; the
clock passes both timeouts once. Two requests on one section give every pair of
overlapping requests from an untouched, an assessed, a decided and an approved section,
two regenerations of the section at once among them, and two statements are what a decision
can spread between. One webhook beside the two jobs is
three synchronisations at once, two events are one overtaking the other, and one fault
falls on every statement in turn. The attempts of an inbox row are bounded by the faults and
periods of the instance, not by a guard, and pass the maximum there. At limits of one, two requests are two checks before
either write. Three writers are one that holds the lock
and two that wait; four events are one before and one after each of two that race, and two
clock values put any clock behind any other. The proofs of section 7 then lift each safety
property to all values. Deadlock is checked where the system never stops (credits: a generation
slot is used again and again); the other models are bounded runs that end, and their
configurations say `CHECK_DEADLOCK FALSE`.

Each property of these runs is violated once one mapped definition is replaced by its
"Wrong:" form (PROJECT.json, "mutants").

## 5. Where the code and its comments disagree

Each of these runs checks one sentence of the repository and finds it violated; the
quotation and the trace are in PROJECT.json, "findings".

* **MCRefundUndone**: "Refunds stop further draw-down". A reactivation with a stale row
  revives a refunded pack. Checked with the job's fairness; the counterexample does not
  depend on it.
* **MCActivation**: "there is always exactly one current working draft". Activation
  never reaches the database, because Prisma ignores the undefined `supersededAt`.
  The same fact is what makes `StopIsFinal` hold: were null written, narrations and
  stale handlers would revive stopped drafts (the mutant `StoresAll`).
* **MCPurchaseLost**: the retry "converges to the same state the event would have
  produced". A purchase whose webhook died is marked processed and its pack never stored.

Further sentences the code does not keep, seen in the models or in reading; no run is
kept for them, and the properties above state what does hold:

* "capacity is never exceeded under concurrency" (`usage-counter.ts` 20-22): the
  self-heal takes a reservation in flight for pollution. What holds: `PlanOvershootBounded`.
* "approved reports remain the historical record" (`report-draft.ts` 89): the narration of
  a draft approved meanwhile writes it back as DRAFT (GRD 546).
* "a report that is approved stays approved when a later regeneration touches the period"
  (`reporting-period.ts` 195-196): it is the stale entity that is advanced (GRD 574).
* "a repeat while it is still running is told to wait"
  (`request-idempotency-service.ts` 13): freeing an old record deletes by key (38), and
  may delete a live one. What holds: `CreatedOnce`.
* A claim reopened on a CURRENT revision should block it again
  (`reopen-report-claim.ts` 10-11), but CURRENT to FAILED is no transition
  (`report-assurance-service.ts` 248-250): the revision stays CURRENT with a failing claim.
* Decisions are to survive re-checks (`resolve-report-claim.ts` 26-27): an assessment that
  read the claims before a decision and stores its own after it loses the decision.
* Two editors with one expected version both succeed (`update-report-section.ts` 66), and
  a late edit changes the section of a report that was submitted meanwhile.
* A storage reservation in flight should be preserved, and the counter only ever reduced
  (`reconcile-managed-storage.ts` 20-23, `billing.ts` 384-385): the job lowers the counter to
  the sum of stored rows, below the reservation, and as it writes what it read a statement
  before, it can also raise the counter over a release. What holds: `CapacityBounded`.
* "Exact for a single api instance" (`section-regeneration-tracker.ts` 5-7): the tracker is
  made anew for every request, so two regenerations of one section overlap even in one
  process, and both are stored. What holds: `RegenerationsBounded`, `KeepsHistory`.
* "Reordering never touches content or revisions" (`reorder-report-sections.ts` 14-15): the
  whole row goes back as it was read, over a text stored or a revision set meanwhile. During
  a generation it can put a finished section back to NOT_STARTED, in a draft that is then
  billed. What holds: `SynthesisLast`, `BilledIsReal`, `RowMatchesRevision`.
* "A real AI draft is one the configured provider actually produced" (GRD 526), and one whose
  text it did not produce "must not be presented as AI-generated" (536-539): a section that
  was never put to the provider, because its input was not recorded, gets the stub's text
  without the fallback flag (GRD 646-650), and the draft is billed and stays AI-generated.
  The regeneration of one section treats the same answer as a failure
  (`regenerate-report-section.ts` 234). What holds: `BilledIsReal`, `Delivers`.
* "The store is down: run the request normally" (`middleware/idempotency.ts` 23) and a create
  that fails after storing its row (`create-project.ts` 76-93, after which the key is freed)
  each let one key create twice. No comment denies it; `CreatedOnce` counts both.
* Invitations are said to reserve seats (`invite-user.ts` 35); only users are counted.
* A subscription that ends should end access (`billing-subscription-synchronizer.ts`
  218-222): a window without an end gets a second, expired window and stays open.

* "Tamper-evident control-plane audit chain" (`SUPERADMIN-PORTAL.md` 293): the operators'
  own trail reads its last hash and inserts without a lock (`control-plane.ts` 1051), so
  two actions at once fork it. The tenants' trail takes a lock, and is proved not to.
* "The outbox pattern is wired in `PrismaAuditRepository.record()`"
  (`Features/16-Audit-Log.md` 125): `record()` is a transaction of its own after the
  handler's writes; a process that dies in between leaves a change without its event.

A trail deleted while an event is being appended keeps that event, which links to one
that is gone: `verifyChain()` refuses it ever after. `ChainVerifies` says so.

Two more were seen while reading and need no run. `generatedByAi` is corrected in
memory after a fallback and not among the columns `update()` writes
(`repositories/reporting.ts` 186-199). A generation stopped before it is complete is
settled as a success and billed (GRD 530 looks at fallback and failure only):
`BilledIsReal` asks a billed draft to be complete only if it was not superseded.

## 6. Fairness

Safety runs use none. The jobs have HTTP routes (`routes/internal.ts` 200-230) and no
schedule of their own: `Features/19-Tiers-And-Payments.md` 711-713 asks the deployment to call
them (stale reservations hourly, the inbox retry often, reconciliation daily, storage from
time to time), but no flow under `workflows/kestra` calls a `/internal/billing/` route. That
they are called again and again is an assumption about the deployment, made for all four jobs;
without it `LeaksHealed` (of both modules), `StuckEventsSettle` and `ProviderIsFollowed` do not hold.

`FairSpec` of AiCredits: the release job is called every hour, so its first statement is weakly fair, and its further
statements strongly fair because a run may fail but not every run for ever
(`JobCrash` is not restricted). Generations, people and months are not fair.
`LeaksHealed` and `NotLockedOut` carry their own premise (generations come to rest, or
run one at a time with the ledger below the limit). `Spec` of SectionGeneration: every await of a worker
and of the supervisor settles, because writer calls and statements answer, fail or time
out; `Throw` and `PersistFails` are among those answers. People and crashes are not fair.
`Spec` of BillingInbox: the retry and the reconciliation are called again and again, so their
first statements are weakly fair, and every statement of a process that lives answers or fails. Webhooks
need not be delivered; faults are not fair and are bounded, which is the premise "if
failures end". `ProcessedTookEffect` speaks of histories without a fault only: what a lost or
failed first delivery leaves is the business of the two liveness properties and, for purchases,
of MCPurchaseLost. `Spec` of TenantCapacity: requests under way go on; the storage job is
called again and again (`JobFairness`), and its further statements, the read and the write of
`setUsed` each for itself, are strongly fair because a run may fail (`JobFails`, unbounded) but
not every run for ever. `Spec` of AuditChain: PostgreSQL grants a free advisory lock to those waiting in
the order they came, so `Lock` is strongly fair; the statements of a transaction answer
or fail. Rollbacks are neither fair nor bounded.

## 7. Proofs

All theorems are for every value of the constants, under the modules' named ASSUMEs,
which say: the slots are finite sets, bounds are natural numbers, a pack has at least
one credit, there is at least one section, worker and generation, editors are not
workers, and Timeout <= Ttl (two minutes and a day in the code).

| module | theorems (property) | strengthening and why it is needed |
|---|---|---|
| AiCreditsProofs | TypeCorrect; PacksKeepShape; TopUpsNeverOversold; PlanOvershootIsBounded; BooksAreKept; NeverLockedOut; LeaksAreHealed | `AdminShape`: a stale row in a call's hands was well shaped and has a credit left if it is to be written ACTIVE or SUSPENDED. `TopUpAccounts`: drafts paid plus holders stay within the credits, and within `used` unless the pack is refunded, after which nobody draws on it. `PlanAccounts`: drafts on the plan plus generations that may still bill it, each of which saw a ledger below the limit; the counter does not occur in it, which is why erasing it cannot break the bound. `Books`: nothing is counted in a month to come, and what the job is about to write is covered by the ledger. `AllServed`: after its first refusal a tenant's counter above the ledger has been healed, and each statement of the next generation finds it so. `Fresh`: a run of the job that starts at rest works on the counter as it stands |
| SectionGenerationProofs | TypeCorrect; WriterAskedOnce; SummariesComeLast; BilledOnlyForReal; CancellationIsPrompt; RunIsBounded; DeliversWhatIsPaid | `Claims`: a section is in the queue or with one worker. `RowsStarted` and `Progress`: what a phase has not started is queued or held, unless the pool stopped or lost a worker or a stale row put it back (`Begun`), so an ended phase has started everything. `Honest`: the flag is raised before text fallen back to is stored; `Fitting`: a worker's text is an answer for its section. `Prompt`: sections stored late plus workers past their check. `Delivered`: what was asked for and is not stored is in a worker's hands, unless the run failed or lost a worker; once the summaries are reached the body is neither queued nor in any hand. `StepsLeft` (RunIsBounded) is the safety half of `RunSettles`: a measure that no step raises and every step of the pool lowers |
| ReportLifecycleProofs | TypeCorrect; StopsAreFinal; SweepsHold; ApprovedWereReviewed; PeriodFollows | `Swept` per call, from StopsAreFinal. `Reviews`: not only rows, also the rows seen by calls in flight were reviewed. `Approvals`: every period entity in any hand that says APPROVED follows an approval |
| SectionAssuranceProofs | TypeCorrect; RowAgrees; ApprovalExamined; ClaimsBelong; DecisionsKeptApart; RegenerationLimit; HistoryIsKept | The rows in the hands of requests are like the row itself (`RowOK`), the claims they are about to store like those stored (`ClaimOK`): stale, but true of revisions, which only grow and never change their text, and of `passed` and `decided`, which only grow. `Counted`: regenerations in the hour plus requests that were let in and are not yet counted stay below limit plus slots. HistoryIsKept is the refinement to RevisionHistory: from the invariant before and after a step, and that a step does one of three things: it adds a revision, records a finding, or writes the row (`OneWrite`) |
| TenantCapacityProofs | TypeCorrect; Accepted; Capacity; LeaksAreHealed | `Claims`: who is about to mark an invitation has made the user, and an accepted invitation of the same person leaves nobody about to. Per pool: use plus requests that passed the check and have not written yet stays below limit plus slots. `StorageBooks`: counters of months to come are zero, and the job writes a sum it has read; `FreshSum`, `FreshSet`: a run that starts at rest works on the counter and the bytes as they stand |
| BillingInboxProofs | TypeCorrect; AccessPaid; ProcessedEffective; InboxGoesOnward; RoundsCatchUp | `Knows` says of each process, by the statement it is at, what it relies on in lists that only grow: that its event has a kind, its snapshot was issued and, where it opens a window, was active. `Effects`: not only a processed event, also one left in processing by a webhook that is gone had its effect, or the retry job, which does not look, could not mark it. `Owned`: an event is in the hands of one process at most, and its row says which statement that is at; it rests on the reading that a row PROCESSING for 15 minutes has no webhook at work. `ChargedAhead`: an active subscription has time left. `Fresh`: what a round begun in quiet has looked up is still so when it writes, and what it has written by then |
| AuditChainProofs | TypeCorrect; Verifies; InOrder; KeepsATrail | `Held`: whoever reads or inserts has the lock. `Dated`: no two events have one time. `Ready`: the head a holder has read is still the last, or the trail is empty after a deletion. `Linked`: by times alone, which is what makes order and link independent of identifiers. `Doomed`: a deletion under way has found a prefix of the trail. `Unknown`: nobody has seen an event that is under way. `Named`: identifiers are given in order, so the row inserted is a new one. KeepsATrail is the refinement to AuditTrail |
| RequestIdempotencyProofs | TypeCorrect; CreatesOnce; Implements | `Budget`: insertions plus requests about to delete the record, against the record's existence, frees and failures. `Spent`: every insertion is running, created, failed or lost. `Traced`: what records and requests know (a start, a creation) is true whenever they act on it. `Implements` is the refinement to CreateOnce: initial states and every step |

Each proof has one step per action (through a lemma on a whole family of actions where
they share an argument) and a temporal step by PTL.

What is proved of the liveness properties. `NotLockedOut` has the form "if from some time on
P, then from some time on Q at every step": it needs no fairness, and NeverLockedOut proves
it as it stands. `LeaksHealed` (of both modules) and `ProviderIsFollowed` are proved under
hypotheses that name what fairness is for, and nothing else:

* LeaksAreHealed: the job completes a run again and again, of credits and of storage.
* RoundsCatchUp: from some time on nobody but the reconciliation is at work and the provider
  leaves the subscription as it is; and its rounds get to an end again and again, or the
  row is written off again and again, for then there are no rounds: reconciliation passes
  over a row it has as cancelled or does not have.

That the specifications' fairness and bounds supply these hypotheses is checked by TLC only.
Of `RunSettles` the bound on the work is proved (RunIsBounded), of `StuckEventsSettle` that a
row never goes back and attempts only grow (InboxGoesOnward).

Only model-checked: the step from WF and SF to "again and again", which needs ENABLED, in
all of these, and with it `RunSettles`, `StuckEventsSettle` and `AppendsEnd`, which also
count down a bound of work, attempts or waiters: an induction over numbers under temporal
operators that the provers do not do. Every invariant and every action property of the
runs, and each refinement, is proved.

## 8. Not modelled, and why

* Credits: enforcement mode "off", tenants without a limit or with their own model key
  (nothing is reserved), expiry,
  report-only audit rows. Pack credits leaked by a crash stay leaked: nothing in the
  code promises their return and no property asks for it.
* Narration: sections added by hand (`create-report-section.ts` numbers and stores a row of its
  own, which no worker looks at); what the writer and the assessor compute. With the AI
  reporter sidecar as writer every section is put to the model: `Thin` is empty then. Plans with an unusual order are
  covered, since the summaries are any subset of the sections.
* Lifecycle: the gate (approval may be refused; the model lets it succeed, and a
  draft still under narration does get through, since the gate does not look at sections
  not yet written), EXPORTED and SUBMITTED, renaming, conversion to a Final period, and the
  writers of story, scope and template, which lose updates of the period row as its status
  is lost. A period restored must not overlap
  another; here it may be refused at any point (`Returns`).
* Idempotency: malformed keys (refused with 400), clocks that differ between processes,
  answers that are not JSON (the key is freed; to the model a failure), `abandon()`,
  which nothing calls.
* Assurance: how a statement is verified against evidence, records and figures; non-material
  claims; the merging and restoring of texts (both are `commitChange` with another text);
  deletion of the section while a request is under way.
* Billing: signatures, payload parsing, prices and catalogue, events without a tenant
  (failed at once, for manual review), a second order, the cap on standing-balance packs. `inbox.create` takes any database
  error for a duplicate and acknowledges: to the model, an event never delivered. Rows
  left RECEIVED are never retried, and are not in `StuckEventsSettle`. A past-due period
  that has ended would make `Cover` throw; here past due counts as active with a new end.
* Capacity: enforcement modes other than the default, plan resolution, expiry of trials,
  sign-up, passwords (a role change writes the user row whole, a stale password with it),
  members, fields of a project, workspaces, Google Drive uploads (no quota), linking and
  events after an upload. A crash between project and setup row leaves `ready` false
  for ever; nothing promises otherwise.
* Repositories are taken as they are used: `findById` answers a row or throws. Drafts
  are never deleted by the code, so they are not here.
* Audit: the computation of hashes, the listing with its filters, the operators' own trail
  (nothing in the repository reads it back, so nothing is promised of it by code).
