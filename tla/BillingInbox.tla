---------------------------- MODULE BillingInbox -----------------------------
(***************************************************************************)
(* One tenant, its subscription and one order of a credit pack at the      *)
(* payment provider; the webhook handler with its inbox, the job that      *)
(* retries stuck inbox rows and the job that reconciles with the provider. *)
(* All three bring the local subscription row, the tenant's entitlement    *)
(* grants and its pack up to what they heard.  Events are late, reordered  *)
(* or lost, and processes die in between.                                  *)
(***************************************************************************)
EXTENDS Integers, Sequences, FiniteSets

CONSTANTS
  Hooks,        \* slots of webhook requests handled at the same time
  Endless,      \* whether the provider gives subscriptions without a period end
  Orders,       \* whether the tenant may buy a pack
  MaxAttempts,  \* maxAttempts of the retry job
  MaxEvents,    \* bound: events the provider emits
  MaxPeriods,   \* bound: billing periods
  MaxFaults     \* bound: failed statements, unanswered calls, dead processes

ASSUME BillingAssumption ==
  /\ IsFiniteSet(Hooks) /\ Hooks \cap {"retry", "reconcile"} = {}
  /\ Endless \in BOOLEAN /\ Orders \in BOOLEAN
  /\ MaxAttempts \in Nat \ {0}
  /\ {MaxEvents, MaxPeriods, MaxFaults} \subseteq Nat

VARIABLES
  issued,  \* provider: the states of the subscription so far; the last is its state
  order,   \* provider: the order of the pack
  events,  \* provider: events so far, with the state they carry
  now,     \* the billing period
  inbox,   \* BillingEventInbox: the row of each event
  local,   \* BillingSubscription: the state it was written from, 0 for no row
  grants,  \* EntitlementGrant rows of the subscription that were not ended
  pack,    \* PurchasedCreditPack of the order, a standing-balance pack
  proc,    \* local state of each webhook request and of the two jobs
  faults   \* failures and crashes so far

provider == <<issued, order, events, now>>
vars     == <<provider, inbox, local, grants, pack, proc, faults>>

Procs     == Hooks \cup {"retry", "reconcile"}
Statuses  == {"ACTIVE", "UNPAID", "PAUSED", "CANCELLED"}  \* ACTIVE: also trialing, past due
NoEnd     == 0
Snapshots == [status : Statuses, plan : {"TEAM", "GROWTH"}, until : Nat]
Events    == [kind : {"active", "other", "purchase", "refund"}, state : Nat]
NoRow     == [status |-> "NONE", attempts |-> 0]
Rows      == [status : {"NONE", "RECEIVED", "PROCESSING", "PROCESSED", "FAILED"},
              attempts : Nat]
Grants    == [id : Nat, plan : {"TEAM", "GROWTH"}, until : Nat]
Idle      == [pc |-> "idle", ev |-> 0, state |-> 0, at |-> 0, new |-> FALSE,
              stale |-> {}, cover |-> FALSE]
Pcs       == {"idle", "claim", "mint", "fetch", "find", "write", "list", "end",
              "cover", "packs", "shelve", "refund", "mark"}

Latest        == issued[Len(issued)]
Covers(g, s)  == g.plan = s.plan /\ (s.until = NoEnd \/ g.until = s.until)
OpenAt(t)     == {g \in grants : g.until = NoEnd \/ g.until > t}
Refundable    == pack \notin {"none", "REFUNDED"}
Heard(p)      == issued[proc[p].state]
OnGrowth(s)   == s.status = "ACTIVE" /\ s.plan = "GROWTH"
\* Identifiers tell windows of one plan and end apart.
Windows       == grants \cup UNION {proc[p].stale : p \in Procs}
Taken(s)      == {g.id : g \in {h \in Windows : h.plan = s.plan /\ h.until = s.until}}
FreshId(s)    == CHOOSE i \in 1..(Cardinality(Taken(s)) + 1) : i \notin Taken(s)

Goes(p, pc)   == proc' = [proc EXCEPT ![p].pc = pc]
\* What was read for the windows is forgotten.
ToPacks(p)    == proc' = [proc EXCEPT ![p] = [@ EXCEPT !.pc = "packs", !.at = 0, !.new = FALSE,
                                                       !.cover = FALSE]]
Leaves(p)     == proc' = [proc EXCEPT ![p] = Idle]
Marks(p, st)  == inbox' = [inbox EXCEPT ![proc[p].ev].status = st]
\* sync() reads the clock and looks for the row.
Finds(p, n)   == proc' = [proc EXCEPT ![p] = [@ EXCEPT !.pc = "write", !.state = n, !.at = now,
                                                      !.new = (local = 0)]]
\* sync() returned: reconciliation has nothing to mark.
Synced(p)     == IF p = "reconcile" THEN Leaves(p)
                 ELSE proc' = [proc EXCEPT ![p] = [Idle EXCEPT !.pc = "mark", !.ev = proc[p].ev]]
\* An error is returned: a webhook marks its row, the retry job the last time.
Fails(p) ==
  /\ Leaves(p)
  /\ IF \/ p \in Hooks
        \/ p = "retry" /\ inbox[proc[p].ev].attempts >= MaxAttempts
     THEN Marks(p, "FAILED") ELSE UNCHANGED inbox

-----------------------------------------------------------------------------
(* The provider *)

Emits(kind, n) == /\ Len(events) < MaxEvents
                  /\ events' = Append(events, [kind |-> kind, state |-> n])
                  /\ inbox' = Append(inbox, NoRow)
Becomes(s, kind) ==
  /\ issued' = Append(issued, s)
  /\ Emits(kind, Len(issued) + 1)

ChangePlan ==
  /\ Latest.status = "ACTIVE"
  /\ Becomes([Latest EXCEPT !.plan = IF @ = "TEAM" THEN "GROWTH" ELSE "TEAM"], "other")
  /\ UNCHANGED <<order, now, local, grants, pack, proc, faults>>

Suspend ==
  /\ Latest.status = "ACTIVE"
  /\ \E st \in {"UNPAID", "PAUSED"} : Becomes([Latest EXCEPT !.status = st], "other")
  /\ UNCHANGED <<order, now, local, grants, pack, proc, faults>>

Resume ==
  /\ Latest.status \in {"UNPAID", "PAUSED"}
  /\ Becomes([Latest EXCEPT !.status = "ACTIVE", !.until = IF Endless THEN NoEnd ELSE now + 1], "active")
  /\ UNCHANGED <<order, now, local, grants, pack, proc, faults>>

Cancel ==
  /\ Latest.status # "CANCELLED"
  /\ Becomes([Latest EXCEPT !.status = "CANCELLED"], "other")
  /\ UNCHANGED <<order, now, local, grants, pack, proc, faults>>

\* A period ends; an active subscription is renewed.
NextPeriod ==
  /\ ~ Endless /\ now < MaxPeriods
  /\ now' = now + 1
  /\ IF Latest.status = "ACTIVE" THEN Becomes([Latest EXCEPT !.until = now + 2], "active")
     ELSE UNCHANGED <<issued, events, inbox>>
  /\ UNCHANGED <<order, local, grants, pack, proc, faults>>

Buy ==
  /\ Orders /\ order = "none" /\ order' = "paid"
  /\ Emits("purchase", 0)
  /\ UNCHANGED <<issued, now, local, grants, pack, proc, faults>>

RefundOrder ==
  /\ order = "paid" /\ order' = "refunded"
  /\ Emits("refund", 0)
  /\ UNCHANGED <<issued, now, local, grants, pack, proc, faults>>

-----------------------------------------------------------------------------
(* The webhook handler *)

\* A repeated delivery finds the row there and has no effect.
Deliver(p) ==
  /\ p \in Hooks /\ proc[p].pc = "idle"
  /\ \E e \in 1..Len(events) :
       /\ inbox[e].status = "NONE"
       /\ inbox' = [inbox EXCEPT ![e].status = "RECEIVED"]
       /\ proc' = [proc EXCEPT ![p].pc = "claim", ![p].ev = e]
  /\ UNCHANGED <<provider, local, grants, pack, faults>>

\* Wrong: the pack of the order is stored only if it is there.
ClaimSwapped(p) ==
  /\ proc[p].pc = "claim"
  /\ inbox' = [inbox EXCEPT ![proc[p].ev] = [status |-> "PROCESSING", attempts |-> 1]]
  /\ LET e == events[proc[p].ev]
     IN  CASE e.kind = "active"   -> Finds(p, e.state)
           [] e.kind = "other"    -> Goes(p, "fetch")
           [] e.kind = "purchase" -> Goes(p, IF pack = "none" THEN "mark" ELSE "mint")
           [] e.kind = "refund"   -> Goes(p, IF Refundable THEN "refund" ELSE "mark")
  /\ UNCHANGED <<provider, local, grants, pack, faults>>

\* markProcessing(); for a purchase or a refund the pack of the order is read.
\* Subscription events other than paid and active are looked up again.
Claim(p) ==
  /\ proc[p].pc = "claim"
  /\ inbox' = [inbox EXCEPT ![proc[p].ev] = [status |-> "PROCESSING", attempts |-> 1]]
  /\ LET e == events[proc[p].ev]
     IN  CASE e.kind = "active"   -> Finds(p, e.state)
           [] e.kind = "other"    -> Goes(p, "fetch")
           [] e.kind = "purchase" -> Goes(p, IF pack = "none" THEN "mint" ELSE "mark")
           [] e.kind = "refund"   -> Goes(p, IF Refundable THEN "refund" ELSE "mark")
  /\ UNCHANGED <<provider, local, grants, pack, faults>>

\* One pack per order: the database refuses a second.
Mint(p) ==
  /\ proc[p].pc = "mint"
  /\ IF pack = "none" THEN pack' = "ACTIVE" /\ Synced(p) /\ UNCHANGED inbox
     ELSE Fails(p) /\ UNCHANGED pack
  /\ UNCHANGED <<provider, local, grants, faults>>

\* The pack as it was read goes back refunded.
Refund(p) ==
  /\ proc[p].pc = "refund"
  /\ pack' = "REFUNDED"
  /\ Synced(p)
  /\ UNCHANGED <<provider, inbox, local, grants, faults>>

Mark(p) ==
  /\ proc[p].pc = "mark"
  /\ Marks(p, "PROCESSED")
  /\ Leaves(p)
  /\ UNCHANGED <<provider, local, grants, pack, faults>>

-----------------------------------------------------------------------------
(* The jobs *)

\* Wrong: without a subscription there is nothing to do and nothing is marked.
RetrySynced ==
  /\ proc["retry"].pc = "idle"
  /\ \E e \in 1..Len(events) :
       /\ inbox[e].status = "PROCESSING" /\ local # 0
       /\ \A h \in Hooks : proc[h].ev # e
       /\ inbox' = [inbox EXCEPT ![e].attempts = @ + 1]
       /\ proc' = [proc EXCEPT !["retry"].pc = "fetch", !["retry"].ev = e]
  /\ UNCHANGED <<provider, local, grants, pack, faults>>

\* A row that has been PROCESSING for longer than any webhook takes.  Whatever
\* the event was, the subscription is synchronised if there is one.  Rounds that
\* die, throw or cannot read the subscription are counted past the last attempt.
Retry ==
  /\ proc["retry"].pc = "idle"
  /\ \E e \in 1..Len(events) :
       /\ inbox[e].status = "PROCESSING"
       /\ \A h \in Hooks : proc[h].ev # e
       /\ inbox' = [inbox EXCEPT ![e].attempts = @ + 1]
       /\ proc' = [proc EXCEPT !["retry"].pc = IF local = 0 THEN "mark" ELSE "fetch",
                               !["retry"].ev = e]
  /\ UNCHANGED <<provider, local, grants, pack, faults>>

\* listReconcileCandidates(): not the cancelled and not the paused.
Reconcile ==
  /\ proc["reconcile"].pc = "idle"
  /\ local # 0 /\ issued[local].status \in {"ACTIVE", "UNPAID"}
  /\ proc' = [proc EXCEPT !["reconcile"].pc = "fetch", !["reconcile"].state = local]
  /\ UNCHANGED <<provider, inbox, local, grants, pack, faults>>

\* getSubscription(); a row that is newer than the answer is left alone.
Fetch(p) ==
  /\ proc[p].pc = "fetch"
  /\ IF p = "reconcile" /\ Len(issued) < proc[p].state THEN Leaves(p)
     ELSE proc' = [proc EXCEPT ![p].pc = "find", ![p].state = Len(issued)]
  /\ UNCHANGED <<provider, inbox, local, grants, pack, faults>>

\* No answer: a webhook goes on with what the event carried.
Unanswered(p) ==
  /\ proc[p].pc = "fetch"
  /\ faults < MaxFaults /\ faults' = faults + 1
  /\ IF p \in Hooks THEN Finds(p, events[proc[p].ev].state) /\ UNCHANGED inbox
     ELSE Fails(p)
  /\ UNCHANGED <<provider, local, grants, pack>>

-----------------------------------------------------------------------------
(* BillingSubscriptionSynchronizer.sync() *)

Find(p) ==
  /\ proc[p].pc = "find"
  /\ Finds(p, proc[p].state)
  /\ UNCHANGED <<provider, inbox, local, grants, pack, faults>>

\* The row takes whatever was heard, be it older; a second row is refused.
WriteRow(p) ==
  /\ proc[p].pc = "write"
  /\ IF proc[p].new /\ local # 0 THEN Fails(p) /\ UNCHANGED local
     ELSE local' = proc[p].state /\ Goes(p, "list") /\ UNCHANGED inbox
  /\ UNCHANGED <<provider, grants, pack, faults>>

\* Wrong: an open window covers, whatever its plan and period.
ListAnyOpen(p) ==
  /\ proc[p].pc = "list"
  /\ IF Heard(p).status = "ACTIVE" /\ OpenAt(proc[p].at) = {} THEN Goes(p, "cover") ELSE ToPacks(p)
  /\ UNCHANGED <<provider, inbox, local, grants, pack, faults>>

\* Access granted: windows with another plan or end are stale, one of the rest
\* covers.  Not granted: a window with an end runs out, and for one without an
\* end a second, expired window is stored, which changes no access.
List(p) ==
  /\ proc[p].pc = "list"
  /\ LET s     == Heard(p)
         open  == OpenAt(proc[p].at)
         stale == {g \in open : ~ Covers(g, s)}
     IN  IF s.status # "ACTIVE" THEN ToPacks(p)
         ELSE proc' = [proc EXCEPT ![p] =
                [@ EXCEPT !.new = FALSE, !.stale = stale, !.cover = (open = stale),
                          !.pc = IF stale # {} THEN "end" ELSE IF open = {} THEN "cover" ELSE "packs"]]
  /\ UNCHANGED <<provider, inbox, local, grants, pack, faults>>

EndGrant(p) ==
  /\ proc[p].pc = "end"
  /\ \E g \in proc[p].stale :
       /\ grants' = grants \ {g}
       /\ proc' = [proc EXCEPT ![p] =
            [@ EXCEPT !.stale = proc[p].stale \ {g}, !.pc = IF proc[p].stale # {g} THEN "end"
                                                 ELSE IF proc[p].cover THEN "cover" ELSE "packs"]]
  /\ UNCHANGED <<provider, inbox, local, pack, faults>>

\* Wrong: the window is stored without an end.
CoverForever(p) ==
  /\ proc[p].pc = "cover"
  /\ LET s == [Heard(p) EXCEPT !.until = NoEnd]
     IN  grants' = grants \cup {[id |-> FreshId(s), plan |-> s.plan, until |-> NoEnd]}
  /\ ToPacks(p)
  /\ UNCHANGED <<provider, inbox, local, pack, faults>>

\* EntitlementGrant.create() throws on a window that has already ended: the
\* request or job is over and marks nothing.
Cover(p) ==
  /\ proc[p].pc = "cover"
  /\ LET s == Heard(p)
     IN  IF s.until # NoEnd /\ s.until <= proc[p].at THEN Leaves(p) /\ UNCHANGED grants
         ELSE /\ grants' = grants \cup {[id |-> FreshId(s), plan |-> s.plan, until |-> s.until]}
              /\ ToPacks(p)
  /\ UNCHANGED <<provider, inbox, local, pack, faults>>

\* Standing-balance packs are read ...
Packs(p) ==
  /\ proc[p].pc = "packs"
  /\ IF pack = (IF OnGrowth(Heard(p)) THEN "SUSPENDED" ELSE "ACTIVE") THEN Goes(p, "shelve")
     ELSE Synced(p)
  /\ UNCHANGED <<provider, inbox, local, grants, pack, faults>>

\* Wrong: the pack takes the status of the subscription.
ShelveAlike(p) ==
  /\ proc[p].pc = "shelve"
  /\ pack' = IF OnGrowth(Heard(p)) THEN "ACTIVE" ELSE Heard(p).status
  /\ Synced(p)
  /\ UNCHANGED <<provider, inbox, local, grants, faults>>

\* ... and written back suspended, or active again.
Shelve(p) ==
  /\ proc[p].pc = "shelve"
  /\ pack' = IF OnGrowth(Heard(p)) THEN "ACTIVE" ELSE "SUSPENDED"
  /\ Synced(p)
  /\ UNCHANGED <<provider, inbox, local, grants, faults>>

-----------------------------------------------------------------------------
(* Failures *)

\* A statement of a repository that turns failures into results.
Refused(p) ==
  /\ proc[p].pc \in {"mint", "refund", "write", "end", "cover", "shelve"}
  /\ faults < MaxFaults /\ faults' = faults + 1
  /\ Fails(p)
  /\ UNCHANGED <<provider, local, grants, pack>>

\* The process dies, or a statement throws; or the retry job cannot read the
\* subscription and leaves the row as it is.
Crash(p) ==
  /\ proc[p].pc # "idle"
  /\ faults < MaxFaults /\ faults' = faults + 1
  /\ Leaves(p)
  /\ UNCHANGED <<provider, inbox, local, grants, pack>>

-----------------------------------------------------------------------------
First == [status |-> "ACTIVE", plan |-> "TEAM", until |-> IF Endless THEN NoEnd ELSE 1]

\* Just subscribed, the first event on its way; or synchronised.
Init ==
  /\ issued = <<First>> /\ order = "none" /\ now = 0
  /\ \/ /\ events = <<[kind |-> "active", state |-> 1]>> /\ inbox = <<NoRow>>
        /\ local = 0 /\ grants = {}
     \/ /\ events = <<>> /\ inbox = <<>>  \* those of the past are settled
        /\ local = 1
        /\ grants = {[id |-> 1, plan |-> "TEAM", until |-> First.until]}
  /\ pack = "none"
  /\ proc = [p \in Procs |-> Idle]
  /\ faults = 0

Provider == ChangePlan \/ Suspend \/ Resume \/ Cancel \/ NextPeriod \/ Buy \/ RefundOrder
Continues(p) ==
  \/ Claim(p) \/ Mint(p) \/ Refund(p) \/ Mark(p) \/ Fetch(p) \/ Find(p) \/ WriteRow(p)
  \/ List(p) \/ EndGrant(p) \/ Cover(p) \/ Packs(p) \/ Shelve(p)

Next ==
  \/ Provider \/ Retry \/ Reconcile
  \/ \E p \in Procs : Deliver(p) \/ Continues(p) \/ Unanswered(p) \/ Refused(p) \/ Crash(p)

Spec == /\ Init /\ [][Next]_vars
        /\ \A p \in Procs : WF_vars(proc[p].pc # "idle" /\ Continues(p))
        /\ WF_vars(Retry) /\ WF_vars(Reconcile)

-----------------------------------------------------------------------------
(* What holds *)

TypeOK ==
  /\ issued \in Seq(Snapshots) /\ issued # <<>>
  /\ order \in {"none", "paid", "refunded"} /\ now \in Nat
  /\ events \in Seq(Events) /\ inbox \in Seq(Rows) /\ Len(inbox) = Len(events)
  /\ local \in 0..Len(issued)
  /\ grants \subseteq Grants
  /\ pack \in {"none", "ACTIVE", "SUSPENDED", "REFUNDED"}
  /\ proc \in [Procs -> [pc : Pcs, ev : 0..Len(events), state : 0..Len(issued), at : Nat,
                         new : BOOLEAN, stale : SUBSET Grants, cover : BOOLEAN]]
  /\ faults \in Nat

\* Access comes from payment: every window, whoever stored it and however late,
\* is one the provider gave for an active subscription, and a pack was paid.
AccessWasPaid ==
  /\ \A g \in grants : \E n \in 1..Len(issued) : issued[n].status = "ACTIVE" /\ Covers(g, issued[n])
  /\ pack # "none" => order # "none"

\* While nothing fails, an event that was processed took effect: the purchase
\* has its pack, the subscription its row.
ProcessedTookEffect ==
  faults = 0 => \A e \in 1..Len(events) : inbox[e].status = "PROCESSED" =>
    CASE events[e].kind = "purchase"          -> pack # "none"
      [] events[e].kind = "refund"            -> TRUE
      [] events[e].kind \in {"active", "other"} -> local # 0

\* No row stays PROCESSING, whatever died while working on it.
StuckEventsSettle ==
  <>[](\A e \in 1..Len(events) : inbox[e].status # "PROCESSING")

\* The subscription is followed.  Once the provider cancelled it the row stops
\* saying it is active, even if the event never came or a late one undid it.
\* While it is active there, and not written off here, its open windows are
\* those of its plan and period, wherever a synchronisation was cut off.
ProviderIsFollowed ==
  <>[](/\ local # 0 /\ Latest.status = "CANCELLED" => issued[local].status # "ACTIVE"
       /\ local # 0 /\ Latest.status = "ACTIVE" /\ issued[local].status \in {"ACTIVE", "UNPAID"} =>
            OpenAt(now) # {} /\ \A g \in OpenAt(now) : Covers(g, Latest))

-----------------------------------------------------------------------------
(* What the code says and does not do *)

\* retry-billing-inbox.ts: the state the event would have produced.
RetryConverges ==
  \A e \in 1..Len(events) :
    events[e].kind = "purchase" /\ inbox[e].status = "PROCESSED" => pack # "none"
=============================================================================
