------------------------- MODULE BillingInboxProofs --------------------------
(***************************************************************************)
(* Theorems about BillingInbox, for any number of webhooks, events,        *)
(* periods and faults.                                                     *)
(***************************************************************************)
EXTENDS BillingInbox, FiniteSetTheorems, TLAPS

ProcType   == [pc : Pcs, ev : Nat, state : Nat, at : Nat, new : BOOLEAN,
               stale : SUBSET Grants, cover : BOOLEAN]
PackStates == {"none", "ACTIVE", "SUSPENDED", "REFUNDED"}
Syncs      == {"find", "write", "list", "end", "cover", "packs", "shelve"}
Wrote      == {"list", "end", "cover", "packs", "shelve"}

Tables ==
  /\ issued \in Seq(Snapshots) /\ issued # <<>>
  /\ order \in {"none", "paid", "refunded"} /\ now \in Nat
  /\ events \in Seq(Events) /\ inbox \in Seq(Rows) /\ Len(inbox) = Len(events)
  /\ local \in 0..Len(issued)
  /\ grants \in SUBSET Grants /\ IsFiniteSet(grants)
  /\ pack \in PackStates
  /\ faults \in Nat
  /\ \A e \in 1..Len(events) :
       /\ events[e].kind \in {"active", "other"} => events[e].state \in 1..Len(issued)
       /\ events[e].kind = "purchase" => order # "none"

\* What process p with local state k relies on, in lists that only grow.
Knows(p, k) ==
  /\ k.ev \in 0..Len(events) /\ k.state \in 0..Len(issued) /\ IsFiniteSet(k.stale)
  /\ k.pc = "idle" => k.ev = 0
  /\ k.pc # "idle" /\ p # "reconcile" => k.ev # 0
  /\ k.pc \in {"claim", "mint", "refund"} => p \in Hooks
  /\ k.pc = "mark" => p # "reconcile"
  /\ p \in Hooks => /\ k.pc = "fetch" => events[k.ev].kind = "other"
                    /\ k.pc \in Syncs => events[k.ev].kind \in {"active", "other"}
                    /\ k.pc = "mint"  => events[k.ev].kind = "purchase"
                    /\ k.pc = "refund" => events[k.ev].kind = "refund"
  /\ k.pc \in Syncs => k.state # 0
  /\ k.pc \in Wrote => local # 0
  /\ k.pc \in {"end", "cover"} => issued[k.state].status = "ACTIVE"
  /\ k.pc \in {"shelve", "refund"} => pack # "none"

Typed == /\ Tables /\ proc \in [Procs -> ProcType]
         /\ \A p \in Procs : Knows(p, proc[p])

\* The event took effect.
Useful(e) == /\ events[e].kind = "purchase" => pack # "none"
             /\ events[e].kind \in {"active", "other"} => local # 0
\* In processing, and no webhook at work on it.
Lost(e)   == inbox[e].status = "PROCESSING" /\ \A h \in Hooks : proc[h].ev # e

\* While nothing fails: an event that is lost had its effect before, so the
\* retry job, which does not look at it, may mark it processed.
Effects ==
  faults = 0 =>
    /\ \A e \in 1..Len(events) : inbox[e].status = "PROCESSED" \/ Lost(e) => Useful(e)
    /\ \A p \in Procs : (p = "retry" /\ proc[p].pc # "idle") \/ (p \in Hooks /\ proc[p].pc = "mark")
                          => Useful(proc[p].ev)

Backed(g) == \E n \in 1..Len(issued) : issued[n].status = "ACTIVE" /\ Covers(g, issued[n])

Inv == Typed /\ AccessWasPaid /\ Effects

-----------------------------------------------------------------------------
(* Facts used throughout *)

LEMMA ProcNames ==
  /\ "retry" \in Procs /\ "reconcile" \in Procs /\ Hooks \subseteq Procs
  /\ "retry" \notin Hooks /\ "reconcile" \notin Hooks /\ "retry" # "reconcile"
PROOF BY BillingAssumption DEF Procs

LEMMA IdleOK ==
  /\ Idle \in ProcType /\ Idle.pc = "idle" /\ Idle.ev = 0 /\ Idle.stale = {}
  /\ Typed => \A p : Knows(p, Idle)
PROOF
<1>1. Idle \in ProcType /\ Idle.pc = "idle" /\ Idle.ev = 0 /\ Idle.state = 0 /\ Idle.stale = {}
  BY DEF Idle, ProcType, Pcs
<1>2. IsFiniteSet(Idle.stale)
  BY <1>1, FS_EmptySet
<1>3. ASSUME Typed PROVE Len(events) \in Nat /\ Len(issued) \in Nat
  <2>1. events \in Seq(Events) /\ issued \in Seq(Snapshots)
    BY <1>3 DEF Typed, Tables
  <2> QED BY <2>1
<1> QED BY <1>1, <1>2, <1>3 DEF Knows, Syncs, Wrote

\* Replacing one element of a sequence.
LEMMA SeqExcept ==
  ASSUME NEW S, NEW s \in Seq(S), NEW e \in 1..Len(s), NEW v \in S
  PROVE  /\ [s EXCEPT ![e] = v] \in Seq(S) /\ Len([s EXCEPT ![e] = v]) = Len(s)
         /\ \A i \in 1..Len(s) : [s EXCEPT ![e] = v][i] = IF i = e THEN v ELSE s[i]
PROOF OBVIOUS

LEMMA TypedFacts ==
  ASSUME Typed
  PROVE  /\ issued \in Seq(Snapshots) /\ events \in Seq(Events) /\ inbox \in Seq(Rows)
         /\ Len(issued) \in Nat \ {0} /\ Len(events) \in Nat /\ Len(inbox) = Len(events)
         /\ \A n \in 1..Len(issued) : issued[n] \in Snapshots
         /\ \A e \in 1..Len(events) : events[e] \in Events /\ inbox[e] \in Rows
         /\ \A p \in Procs : proc[p] \in ProcType /\ Knows(p, proc[p])
PROOF
<1>1. issued \in Seq(Snapshots) /\ issued # <<>> /\ events \in Seq(Events) /\ inbox \in Seq(Rows)
  BY DEF Typed, Tables
<1>2. Len(inbox) = Len(events)
  BY DEF Typed, Tables
<1>3. Len(issued) \in Nat \ {0}
  BY <1>1
<1>4. Len(events) \in Nat
  BY <1>1
<1>5. \A n \in 1..Len(issued) : issued[n] \in Snapshots
  BY <1>1
<1>6. \A e \in 1..Len(events) : events[e] \in Events /\ inbox[e] \in Rows
  BY <1>1, <1>2
<1>7. \A p \in Procs : proc[p] \in ProcType /\ Knows(p, proc[p])
  BY DEF Typed
<1> QED BY <1>1, <1>2, <1>3, <1>4, <1>5, <1>6, <1>7

-----------------------------------------------------------------------------
(* One step of one process *)

Settles(p, k) ==
  faults' = 0 =>
    /\ faults = 0
    /\ \A e \in 1..Len(events) :
         /\ inbox'[e].status = "PROCESSED" => inbox[e].status = "PROCESSED" \/ Useful(e)
         /\ inbox'[e].status = "PROCESSING" => inbox[e].status = "PROCESSING" \/ (p \in Hooks /\ k.ev = e)
         /\ p \in Hooks /\ proc[p].ev = e /\ k.ev # e =>
              inbox'[e].status # "PROCESSING" \/ Useful(e)
    /\ (p = "retry" /\ k.pc # "idle") \/ (p \in Hooks /\ k.pc = "mark") =>
         /\ events[k.ev].kind = "purchase" => pack' # "none"
         /\ events[k.ev].kind \in {"active", "other"} => local' # 0

LEMMA StepTyped ==
  ASSUME Typed, NEW p \in Procs, NEW k \in ProcType, proc' = [proc EXCEPT ![p] = k],
         UNCHANGED provider,
         inbox' \in Seq(Rows), Len(inbox') = Len(inbox), local' \in 0..Len(issued),
         grants' \in SUBSET Grants, IsFiniteSet(grants'), pack' \in PackStates, faults' \in Nat,
         local # 0 => local' # 0, pack # "none" => pack' # "none",
         Knows(p, k)'
  PROVE  Typed'
PROOF
<1>1. issued' = issued /\ order' = order /\ events' = events /\ now' = now
  BY DEF provider
<1>2. Tables'
  BY <1>1 DEF Typed, Tables
<1>3. proc' \in [Procs -> ProcType]
  BY DEF Typed
<1>4. ASSUME NEW q \in Procs PROVE Knows(q, proc[q])' 
  <2>1. CASE q = p
    <3>1. proc'[q] = k
      BY <2>1 DEF Typed
    <3> QED BY <3>1, <2>1 DEF Knows
  <2>2. CASE q # p
    <3>1. proc'[q] = proc[q] /\ Knows(q, proc[q])
      BY <2>2 DEF Typed
    <3> QED BY <3>1, <1>1 DEF Knows
  <2> QED BY <2>1, <2>2
<1> QED BY <1>2, <1>3, <1>4 DEF Typed

LEMMA StepEffects ==
  ASSUME Typed, Effects, NEW p \in Procs, NEW k \in ProcType, proc' = [proc EXCEPT ![p] = k],
         UNCHANGED provider, local # 0 => local' # 0, pack # "none" => pack' # "none",
         Settles(p, k)
  PROVE  Effects'
PROOF
<1>1. issued' = issued /\ events' = events
  BY DEF provider
<1>p. proc \in [Procs -> ProcType] /\ Hooks \subseteq Procs
  BY ProcNames DEF Typed
<1>2. SUFFICES ASSUME faults' = 0
      PROVE  /\ \A e \in 1..Len(events) : inbox'[e].status = "PROCESSED" \/ Lost(e)' => Useful(e)'
             /\ \A q \in Procs : (q = "retry" /\ proc'[q].pc # "idle") \/ (q \in Hooks /\ proc'[q].pc = "mark")
                          => /\ events[proc'[q].ev].kind = "purchase" => pack' # "none"
                             /\ events[proc'[q].ev].kind \in {"active", "other"} => local' # 0
  BY <1>1 DEF Effects, Useful
<1>3. faults = 0
  BY <1>2 DEF Settles
<1>4. ASSUME NEW e \in 1..Len(events), Useful(e) PROVE Useful(e)'
  BY <1>4, <1>1 DEF Useful
<1>5. ASSUME NEW e \in 1..Len(events), inbox'[e].status = "PROCESSED" PROVE Useful(e)'
  BY <1>2, <1>3, <1>4, <1>5 DEF Settles, Effects
<1>6. ASSUME NEW e \in 1..Len(events), Lost(e)' PROVE Useful(e)'
  <2>1. inbox'[e].status = "PROCESSING" /\ \A h \in Hooks : proc'[h].ev # e
    BY <1>6 DEF Lost
  <2>2. \A h \in Hooks : h # p => proc[h].ev # e
    BY <2>1, <1>p
  <2>3. p \in Hooks => k.ev # e
    BY <2>1, <1>p
  <2>4. inbox[e].status = "PROCESSING"
    BY <2>1, <2>3, <1>2 DEF Settles
  <2>5. CASE p \in Hooks /\ proc[p].ev = e
    <3>1. Useful(e)
      BY <2>5, <2>3, <2>1, <1>2 DEF Settles
    <3> QED BY <3>1, <1>4
  <2>6. CASE ~ (p \in Hooks /\ proc[p].ev = e)
    <3>1. Lost(e)
      BY <2>6, <2>2, <2>4 DEF Lost
    <3>2. Useful(e)
      BY <3>1, <1>3 DEF Effects
    <3> QED BY <3>2, <1>4
  <2> QED BY <2>5, <2>6
<1>7. ASSUME NEW q \in Procs, (q = "retry" /\ proc'[q].pc # "idle") \/ (q \in Hooks /\ proc'[q].pc = "mark")
      PROVE  /\ events[proc'[q].ev].kind = "purchase" => pack' # "none"
             /\ events[proc'[q].ev].kind \in {"active", "other"} => local' # 0
  <2>1. CASE q = p
    <3>1. proc'[q] = k
      BY <2>1, <1>p
    <3> QED BY <3>1, <2>1, <1>7, <1>2 DEF Settles
  <2>2. CASE q # p
    <3>1. proc'[q] = proc[q]
      BY <2>2, <1>p
    <3>2. Useful(proc[q].ev)
      BY <3>1, <1>7, <1>3 DEF Effects
    <3> QED BY <3>1, <3>2 DEF Useful
  <2> QED BY <2>1, <2>2
<1> QED BY <1>5, <1>6, <1>7

LEMMA Step ==
  ASSUME Inv, NEW p \in Procs, NEW k \in ProcType, proc' = [proc EXCEPT ![p] = k],
         UNCHANGED provider,
         inbox' \in Seq(Rows), Len(inbox') = Len(inbox), local' \in 0..Len(issued),
         grants' \in SUBSET Grants, IsFiniteSet(grants'), pack' \in PackStates, faults' \in Nat,
         local # 0 => local' # 0, pack # "none" => pack' # "none",
         Knows(p, k)', Settles(p, k),
         \A g \in grants' : g \in grants \/ Backed(g),
         pack' # "none" => order # "none"
  PROVE  Inv'
PROOF
<1>1. issued' = issued /\ order' = order
  BY DEF provider
<1>2. AccessWasPaid'
  <2>1. \A g \in grants' : \E n \in 1..Len(issued) : issued[n].status = "ACTIVE" /\ Covers(g, issued[n])
    BY DEF Inv, AccessWasPaid, Backed
  <2> QED BY <2>1, <1>1 DEF AccessWasPaid, Covers
<1>3. Typed'
  BY StepTyped DEF Inv
<1>4. Effects'
  BY StepEffects DEF Inv
<1> QED BY <1>2, <1>3, <1>4 DEF Inv

\* A step that changes no row but perhaps one of the inbox.
LEMMA QuietStep ==
  ASSUME Inv, NEW p \in Procs, NEW k \in ProcType, proc' = [proc EXCEPT ![p] = k],
         UNCHANGED <<provider, local, grants, pack>>, faults' \in Nat,
         inbox' \in Seq(Rows), Len(inbox') = Len(inbox), Knows(p, k), Settles(p, k)
  PROVE  Inv'
PROOF
<1>1. UNCHANGED provider /\ issued' = issued /\ events' = events /\ local' = local /\ grants' = grants /\ pack' = pack
  BY DEF provider
<1>2. Knows(p, k)'
  BY <1>1 DEF Knows
<1>3. /\ local \in 0..Len(issued) /\ grants \in SUBSET Grants /\ IsFiniteSet(grants) /\ pack \in PackStates
      /\ pack # "none" => order # "none"
  BY DEF Inv, Typed, Tables, AccessWasPaid
<1> QED BY <1>1, <1>2, <1>3, Step

\* A process goes on with its event.
LEMMA GoOn ==
  ASSUME Inv, NEW p \in Procs, proc[p].pc # "idle",
         NEW k \in ProcType, proc' = [proc EXCEPT ![p] = k],
         UNCHANGED <<provider, inbox, local, grants, pack, faults>>,
         Knows(p, k), k.ev = proc[p].ev,
         p \in Hooks /\ k.pc = "mark" /\ faults = 0 => Useful(k.ev)
  PROVE  Inv'
PROOF
<1>1. inbox' = inbox /\ faults' = faults /\ pack' = pack /\ local' = local
  OBVIOUS
<1>2. Settles(p, k)
  <2>1. ASSUME faults = 0, p = "retry" PROVE Useful(k.ev)
    <3>1. Useful(proc[p].ev)
      BY <2>1 DEF Inv, Effects
    <3> QED BY <3>1
  <2>2. ASSUME faults = 0, (p = "retry" /\ k.pc # "idle") \/ (p \in Hooks /\ k.pc = "mark")
        PROVE  /\ events[k.ev].kind = "purchase" => pack' # "none"
               /\ events[k.ev].kind \in {"active", "other"} => local' # 0
    BY <2>1, <2>2, <1>1 DEF Useful
  <2> QED BY <2>2, <1>1 DEF Settles
<1>3. inbox \in Seq(Rows) /\ faults \in Nat
  BY DEF Inv, Typed, Tables
<1> QED BY <1>1, <1>2, <1>3, QuietStep

-----------------------------------------------------------------------------
(* What the small steps leave *)

\* There is always an identifier left.
LEMMA FreshIdType == ASSUME Typed, NEW s PROVE FreshId(s) \in Nat
PROOF
<1> DEFINE Lists == {proc[p].stale : p \in Procs}
           f     == [p \in Procs |-> proc[p].stale]
           All   == grants \cup UNION Lists
           Alike == {g \in All : g.plan = s.plan /\ g.until = s.until}
           id    == [g \in Alike |-> g.id]
<1>1. IsFiniteSet({"retry", "reconcile"}) /\ IsFiniteSet(Hooks)
  <2>1. IsFiniteSet({"retry"}) /\ IsFiniteSet({"reconcile"})
    BY FS_Singleton
  <2>2. IsFiniteSet({"retry"} \cup {"reconcile"})
    BY <2>1, FS_Union
  <2>3. {"retry"} \cup {"reconcile"} = {"retry", "reconcile"}
    OBVIOUS
  <2> QED BY <2>2, <2>3, BillingAssumption
<1>2. IsFiniteSet(Procs)
  BY <1>1, FS_Union DEF Procs
<1>3. f \in Surjection(Procs, Lists)
  BY DEF Surjection
<1>4. IsFiniteSet(Lists)
  BY <1>2, <1>3, FS_Surjection
<1>5. \A T \in Lists : IsFiniteSet(T)
  BY DEF Typed, Knows
<1>6. IsFiniteSet(UNION Lists)
  BY <1>4, <1>5, FS_UNION
<1>7. IsFiniteSet(grants)
  BY DEF Typed, Tables
<1>8. IsFiniteSet(Alike)
  <2>1. IsFiniteSet(All)
    BY <1>6, <1>7, FS_Union
  <2> QED BY <2>1, FS_Subset
<1>9. id \in Surjection(Alike, Taken(s))
  BY DEF Surjection, Taken, Windows
<1>10. IsFiniteSet(Taken(s))
  BY <1>8, <1>9, FS_Surjection
<1> DEFINE n == Cardinality(Taken(s))
<1>11. n \in Nat
  BY <1>10, FS_CardinalityType
<1>12. \E i \in 1..(n + 1) : i \notin Taken(s)
  <2>1. SUFFICES ASSUME 1..(n + 1) \subseteq Taken(s) PROVE FALSE
    OBVIOUS
  <2>2. Cardinality(1..(n + 1)) <= n
    BY <2>1, <1>10, FS_Subset
  <2>3. Cardinality(1..(n + 1)) = n + 1
    BY <1>11, FS_Interval
  <2> QED BY <2>2, <2>3, <1>11
<1>13. FreshId(s) \in 1..(n + 1) /\ FreshId(s) \notin Taken(s)
  BY <1>12 DEF FreshId
<1> QED BY <1>13, <1>11

LEMMA GoingToPacks ==
  ASSUME Typed, NEW p \in Procs, ToPacks(p)
  PROVE  \E k \in ProcType :
           /\ proc' = [proc EXCEPT ![p] = k]
           /\ k.pc = "packs" /\ k.ev = proc[p].ev /\ k.state = proc[p].state /\ k.stale = proc[p].stale
PROOF
<1> DEFINE k == [proc[p] EXCEPT !.pc = "packs", !.at = 0, !.new = FALSE, !.cover = FALSE]
<1>1. proc[p] \in ProcType
  BY TypedFacts
<1>2. /\ k \in ProcType
      /\ k.pc = "packs" /\ k.ev = proc[p].ev /\ k.state = proc[p].state /\ k.stale = proc[p].stale
  BY <1>1 DEF ProcType, Pcs
<1>3. proc' = [proc EXCEPT ![p] = k]
  BY DEF ToPacks
<1> QED BY <1>2, <1>3

LEMMA Going ==
  ASSUME Typed, NEW p \in Procs, NEW pc \in Pcs, Goes(p, pc)
  PROVE  \E k \in ProcType :
           /\ proc' = [proc EXCEPT ![p] = k]
           /\ k.pc = pc /\ k.ev = proc[p].ev /\ k.state = proc[p].state /\ k.stale = proc[p].stale
PROOF
<1> DEFINE k == [proc[p] EXCEPT !.pc = pc]
<1>1. proc[p] \in ProcType
  BY TypedFacts
<1>2. k \in ProcType /\ k.pc = pc /\ k.ev = proc[p].ev /\ k.state = proc[p].state /\ k.stale = proc[p].stale
  BY <1>1 DEF ProcType
<1>3. proc' = [proc EXCEPT ![p] = k]
  BY DEF Goes
<1> QED BY <1>2, <1>3

LEMMA Finding ==
  ASSUME Typed, NEW p \in Procs, NEW n \in Nat, Finds(p, n)
  PROVE  \E k \in ProcType :
           /\ proc' = [proc EXCEPT ![p] = k]
           /\ k.pc = "write" /\ k.ev = proc[p].ev /\ k.state = n /\ k.stale = proc[p].stale
PROOF
<1> DEFINE k == [proc[p] EXCEPT !.pc = "write", !.state = n, !.at = now, !.new = (local = 0)]
<1>1. proc[p] \in ProcType /\ now \in Nat
  BY TypedFacts DEF Typed, Tables
<1>2. k \in ProcType /\ k.pc = "write" /\ k.ev = proc[p].ev /\ k.state = n /\ k.stale = proc[p].stale
  BY <1>1 DEF ProcType, Pcs
<1>3. proc' = [proc EXCEPT ![p] = k]
  BY DEF Finds
<1> QED BY <1>2, <1>3

LEMMA Syncing ==
  ASSUME Typed, NEW p \in Procs, Synced(p)
  PROVE  \E k \in ProcType :
           /\ proc' = [proc EXCEPT ![p] = k]
           /\ k.pc = IF p = "reconcile" THEN "idle" ELSE "mark"
           /\ k.ev = IF p = "reconcile" THEN 0 ELSE proc[p].ev
           /\ k.state = 0 /\ k.stale = {}
PROOF
<1> DEFINE k == [Idle EXCEPT !.pc = "mark", !.ev = proc[p].ev]
<1>1. proc[p].ev \in Nat
  BY TypedFacts DEF ProcType
<1>2. k \in ProcType /\ k.pc = "mark" /\ k.ev = proc[p].ev /\ k.state = 0 /\ k.stale = {}
  BY <1>1 DEF ProcType, Pcs, Idle
<1>3. CASE p = "reconcile"
  BY <1>3, IdleOK DEF Synced, Leaves, Idle
<1>4. CASE p # "reconcile"
  BY <1>4, <1>2 DEF Synced
<1> QED BY <1>3, <1>4

LEMMA Marking ==
  ASSUME Typed, NEW p \in Procs, proc[p].ev # 0,
         NEW st \in {"PROCESSED", "FAILED"}, Marks(p, st)
  PROVE  /\ inbox' \in Seq(Rows) /\ Len(inbox') = Len(inbox) /\ proc[p].ev \in 1..Len(events)
         /\ \A e \in 1..Len(events) :
              inbox'[e].status = IF e = proc[p].ev THEN st ELSE inbox[e].status
PROOF
<1> DEFINE e == proc[p].ev
           r == [inbox[e] EXCEPT !.status = st]
<1>1. e \in 1..Len(events) /\ Len(inbox) = Len(events) /\ inbox \in Seq(Rows)
  BY TypedFacts DEF Knows
<1>2. inbox[e] \in Rows
  BY <1>1
<1>3. r \in Rows /\ r.status = st
  BY <1>2 DEF Rows
<1>4. inbox' = [inbox EXCEPT ![e] = r]
  BY DEF Marks
<1> QED BY <1>1, <1>3, <1>4, SeqExcept

LEMMA Failing ==
  ASSUME Typed, NEW p \in Procs, proc[p].pc # "idle", Fails(p)
  PROVE  /\ inbox' \in Seq(Rows) /\ Len(inbox') = Len(inbox) /\ proc' = [proc EXCEPT ![p] = Idle]
         /\ \A e \in 1..Len(events) : inbox'[e].status \in {inbox[e].status, "FAILED"}
         /\ p \in Hooks => inbox'[proc[p].ev].status = "FAILED"
PROOF
<1>1. inbox \in Seq(Rows) /\ proc' = [proc EXCEPT ![p] = Idle]
  BY TypedFacts DEF Fails, Leaves
<1>2. CASE UNCHANGED inbox /\ p \notin Hooks
  BY <1>2, <1>1
<1>3. CASE Marks(p, "FAILED") /\ p # "reconcile"
  <2>1. proc[p].ev # 0
    BY <1>3, TypedFacts DEF Knows
  <2> QED BY <2>1, <1>3, <1>1, Marking
<1> QED BY <1>2, <1>3, ProcNames DEF Fails

\* An error ends the process; with no fault the rows it leaves are settled.
LEMMA FailStep ==
  ASSUME Inv, NEW p \in Procs, proc[p].pc # "idle", Fails(p),
         UNCHANGED <<provider, local, grants, pack>>, faults' \in {faults, faults + 1}
  PROVE  Inv'
PROOF
<1>1. /\ inbox' \in Seq(Rows) /\ Len(inbox') = Len(inbox) /\ proc' = [proc EXCEPT ![p] = Idle]
      /\ \A e \in 1..Len(events) : inbox'[e].status \in {inbox[e].status, "FAILED"}
      /\ p \in Hooks => inbox'[proc[p].ev].status = "FAILED"
  BY Failing DEF Inv
<1>2. faults \in Nat
  BY DEF Inv, Typed, Tables
<1>3. faults' \in Nat /\ (faults' = 0 => faults = 0)
  BY <1>2
<1>4. Idle \in ProcType /\ Idle.pc = "idle" /\ Idle.ev = 0 /\ Knows(p, Idle)
  BY IdleOK DEF Inv
<1>5. Settles(p, Idle)
  BY <1>1, <1>3, <1>4 DEF Settles
<1> QED BY <1>1, <1>3, <1>4, <1>5, QuietStep

\* A process that dies leaves its row as it was.
LEMMA CrashStep ==
  ASSUME Inv, NEW p \in Procs, Crash(p)
  PROVE  Inv'
PROOF
<1>1. inbox \in Seq(Rows) /\ faults \in Nat
  BY DEF Inv, Typed, Tables
<1>2. faults' = faults + 1 /\ inbox' = inbox /\ proc' = [proc EXCEPT ![p] = Idle]
  BY DEF Crash, Leaves
<1>3. Idle \in ProcType /\ Knows(p, Idle)
  BY IdleOK DEF Inv
<1>4. Settles(p, Idle)
  BY <1>1, <1>2 DEF Settles
<1>5. UNCHANGED <<provider, local, grants, pack>> /\ Len(inbox') = Len(inbox) /\ faults' \in Nat
  BY <1>1, <1>2 DEF Crash
<1> QED BY <1>1, <1>2, <1>3, <1>4, <1>5, QuietStep

LEMMA DeliverStep ==
  ASSUME Inv, NEW p \in Procs, Deliver(p)
  PROVE  Inv'
PROOF
<1>1. PICK e \in 1..Len(events) :
        /\ inbox[e].status = "NONE" /\ inbox' = [inbox EXCEPT ![e].status = "RECEIVED"]
        /\ proc' = [proc EXCEPT ![p].pc = "claim", ![p].ev = e]
  BY DEF Deliver
<1>2. /\ inbox \in Seq(Rows) /\ Len(events) \in Nat /\ Len(inbox) = Len(events)
      /\ inbox[e] \in Rows /\ proc[p] \in ProcType /\ Knows(p, proc[p])
  BY TypedFacts DEF Inv
<1>3. p \in Hooks /\ proc[p].pc = "idle" /\ proc[p].ev = 0 /\ p # "retry" /\ p # "reconcile"
  BY <1>2, ProcNames DEF Deliver, Knows
<1>4. PICK k \in ProcType : k = [proc[p] EXCEPT !.pc = "claim", !.ev = e]
  <2>1. e \in Nat
    BY <1>2
  <2>2. [proc[p] EXCEPT !.pc = "claim", !.ev = e] \in ProcType
    BY <1>2, <2>1 DEF ProcType, Pcs
  <2> QED BY <2>2
<1>5. k.pc = "claim" /\ k.ev = e /\ k.state = proc[p].state /\ k.stale = proc[p].stale
  BY <1>2, <1>4 DEF ProcType
<1>6. proc' = [proc EXCEPT ![p] = k]
  <2>1. proc \in [Procs -> ProcType]
    BY DEF Inv, Typed
  <2> QED BY <2>1, <1>1, <1>4
<1>7. PICK r \in Rows : r = [inbox[e] EXCEPT !.status = "RECEIVED"]
  BY <1>2 DEF Rows
<1>8. r.status = "RECEIVED" /\ inbox' = [inbox EXCEPT ![e] = r]
  BY <1>1, <1>2, <1>7 DEF Rows
<1>9. /\ inbox' \in Seq(Rows) /\ Len(inbox') = Len(inbox)
      /\ \A i \in 1..Len(events) : inbox'[i].status = IF i = e THEN "RECEIVED" ELSE inbox[i].status
  BY <1>2, <1>8, SeqExcept
<1>10. Knows(p, k)
  BY <1>2, <1>3, <1>5 DEF Knows, Syncs, Wrote
<1>11. faults' = faults /\ faults \in Nat
  BY DEF Deliver, Inv, Typed, Tables
<1>12. Settles(p, k)
  BY <1>2, <1>3, <1>5, <1>9, <1>11 DEF Settles
<1> QED BY <1>6, <1>9, <1>10, <1>11, <1>12, QuietStep DEF Deliver

LEMMA MarkStep ==
  ASSUME Inv, NEW p \in Procs, Mark(p)
  PROVE  Inv'
PROOF
<1>1. proc[p].pc = "mark" /\ Knows(p, proc[p]) /\ Typed
  BY TypedFacts DEF Mark, Inv
<1>2. proc[p].ev # 0 /\ p # "reconcile" /\ (p \in Hooks \/ p = "retry")
  BY <1>1 DEF Knows, Procs
<1>3. /\ inbox' \in Seq(Rows) /\ Len(inbox') = Len(inbox)
      /\ \A e \in 1..Len(events) :
           inbox'[e].status = IF e = proc[p].ev THEN "PROCESSED" ELSE inbox[e].status
  BY <1>1, <1>2, Marking DEF Mark
<1>4. Idle \in ProcType /\ Idle.pc = "idle" /\ Idle.ev = 0 /\ Knows(p, Idle)
  BY <1>1, IdleOK
<1>5. faults = 0 => Useful(proc[p].ev)
  BY <1>1, <1>2 DEF Inv, Effects
<1>6. faults' = faults /\ faults \in Nat
  BY DEF Mark, Inv, Typed, Tables
<1>7. Settles(p, Idle)
  BY <1>3, <1>4, <1>5, <1>6 DEF Settles
<1> QED BY <1>3, <1>4, <1>6, <1>7, QuietStep DEF Mark, Leaves

LEMMA RetryStep ==
  ASSUME Inv, Retry
  PROVE  Inv'
PROOF
<1>1. PICK e \in 1..Len(events) :
        /\ inbox[e].status = "PROCESSING" /\ \A h \in Hooks : proc[h].ev # e
        /\ inbox' = [inbox EXCEPT ![e].attempts = @ + 1]
        /\ proc' = [proc EXCEPT !["retry"].pc = IF local = 0 THEN "mark" ELSE "fetch",
                                !["retry"].ev = e]
  BY DEF Retry
<1>2. "retry" \in Procs /\ "retry" \notin Hooks /\ "retry" # "reconcile"
  BY ProcNames
<1>3. /\ inbox \in Seq(Rows) /\ Len(events) \in Nat /\ Len(inbox) = Len(events)
      /\ inbox[e] \in Rows /\ proc["retry"] \in ProcType /\ Knows("retry", proc["retry"])
  BY <1>2, TypedFacts DEF Inv
<1>4. PICK k \in ProcType : k = [proc["retry"] EXCEPT !.pc = IF local = 0 THEN "mark" ELSE "fetch", !.ev = e]
  <2>1. e \in Nat
    BY <1>3
  <2>2. [proc["retry"] EXCEPT !.pc = IF local = 0 THEN "mark" ELSE "fetch", !.ev = e] \in ProcType
    BY <1>3, <2>1 DEF ProcType, Pcs
  <2> QED BY <2>2
<1>5. k.pc \in {"mark", "fetch"} /\ k.ev = e /\ k.state = proc["retry"].state /\ k.stale = proc["retry"].stale
  BY <1>3, <1>4 DEF ProcType
<1>6. proc' = [proc EXCEPT !["retry"] = k]
  <2>1. proc \in [Procs -> ProcType]
    BY DEF Inv, Typed
  <2> QED BY <2>1, <1>1, <1>2, <1>4
<1>7. PICK r \in Rows : r = [inbox[e] EXCEPT !.attempts = @ + 1]
  <2>1. inbox[e].attempts \in Nat
    BY <1>3 DEF Rows
  <2>2. inbox[e].attempts + 1 \in Nat
    BY <2>1
  <2>3. [inbox[e] EXCEPT !.attempts = @ + 1] \in Rows
    BY <1>3, <2>2 DEF Rows
  <2> QED BY <2>3
<1>8. r.status = "PROCESSING" /\ inbox' = [inbox EXCEPT ![e] = r]
  BY <1>1, <1>3, <1>7 DEF Rows
<1>9. /\ inbox' \in Seq(Rows) /\ Len(inbox') = Len(inbox)
      /\ \A i \in 1..Len(events) : inbox'[i].status = inbox[i].status
  <2>1. /\ inbox' \in Seq(Rows) /\ Len(inbox') = Len(inbox)
        /\ \A i \in 1..Len(events) : inbox'[i] = IF i = e THEN r ELSE inbox[i]
    BY <1>3, <1>8, SeqExcept
  <2> QED BY <2>1, <1>1, <1>8
<1>10. Knows("retry", k)
  BY <1>2, <1>3, <1>5 DEF Knows, Syncs, Wrote
<1>11. faults' = faults /\ faults \in Nat /\ local' = local /\ pack' = pack
  BY DEF Retry, Inv, Typed, Tables
<1>12. faults = 0 => Useful(e)
  BY <1>1 DEF Inv, Effects, Lost
<1>13. Settles("retry", k)
  BY <1>2, <1>5, <1>9, <1>11, <1>12 DEF Settles, Useful
<1> QED BY <1>2, <1>6, <1>9, <1>10, <1>11, <1>13, QuietStep DEF Retry

LEMMA ReconcileStep ==
  ASSUME Inv, Reconcile
  PROVE  Inv'
PROOF
<1>1. "reconcile" \in Procs /\ "reconcile" \notin Hooks /\ "retry" # "reconcile"
  BY ProcNames
<1>2. /\ proc["reconcile"] \in ProcType /\ Knows("reconcile", proc["reconcile"])
      /\ inbox \in Seq(Rows) /\ local \in 0..Len(issued) /\ faults \in Nat
  BY <1>1, TypedFacts DEF Inv, Typed, Tables
<1>3. Len(issued) \in Nat
  BY TypedFacts DEF Inv
<1>4. PICK k \in ProcType : k = [proc["reconcile"] EXCEPT !.pc = "fetch", !.state = local]
  <2>1. local \in Nat
    BY <1>2, <1>3
  <2>2. [proc["reconcile"] EXCEPT !.pc = "fetch", !.state = local] \in ProcType
    BY <1>2, <2>1 DEF ProcType, Pcs
  <2> QED BY <2>2
<1>5. k.pc = "fetch" /\ k.ev = proc["reconcile"].ev /\ k.state = local /\ k.stale = proc["reconcile"].stale
  BY <1>2, <1>4 DEF ProcType
<1>6. proc' = [proc EXCEPT !["reconcile"] = k]
  <2>1. proc \in [Procs -> ProcType]
    BY DEF Inv, Typed
  <2> QED BY <2>1, <1>1, <1>4 DEF Reconcile
<1>7. Knows("reconcile", k)
  BY <1>1, <1>2, <1>5 DEF Knows, Syncs, Wrote
<1>8. faults' = faults /\ inbox' = inbox
  BY DEF Reconcile
<1>9. Settles("reconcile", k)
  BY <1>1, <1>8 DEF Settles
<1> QED BY <1>1, <1>2, <1>6, <1>7, <1>8, <1>9, QuietStep DEF Reconcile

\* A webhook takes its event into processing.
LEMMA ClaimStep ==
  ASSUME Inv, NEW p \in Procs, Claim(p)
  PROVE  Inv'
PROOF
<1> DEFINE e   == events[proc[p].ev]
           row == [status |-> "PROCESSING", attempts |-> 1]
<1>1. Typed /\ proc[p] \in ProcType /\ Knows(p, proc[p]) /\ proc[p].pc = "claim"
  BY TypedFacts DEF Inv, Claim
<1>2. p \in Hooks /\ p # "retry" /\ p # "reconcile" /\ proc[p].ev \in 1..Len(events)
  BY <1>1, ProcNames, TypedFacts DEF Knows
<1>3. e \in Events /\ inbox \in Seq(Rows) /\ Len(inbox) = Len(events)
  BY <1>1, <1>2, TypedFacts
<1>4. row \in Rows
  BY BillingAssumption DEF Rows
<1>5. inbox' = [inbox EXCEPT ![proc[p].ev] = row]
  BY DEF Claim
<1>6. /\ inbox' \in Seq(Rows) /\ Len(inbox') = Len(inbox)
      /\ \A i \in 1..Len(events) :
           inbox'[i].status = IF i = proc[p].ev THEN "PROCESSING" ELSE inbox[i].status
  <2>1. /\ inbox' \in Seq(Rows) /\ Len(inbox') = Len(inbox)
        /\ \A i \in 1..Len(events) : inbox'[i] = IF i = proc[p].ev THEN row ELSE inbox[i]
    BY <1>2, <1>3, <1>4, <1>5, SeqExcept
  <2> QED BY <2>1
<1>7. /\ UNCHANGED <<provider, local, grants, faults>> /\ faults' = faults /\ faults \in Nat
      /\ local' = local /\ pack \in PackStates /\ local \in 0..Len(issued)
      /\ grants' \in SUBSET Grants /\ IsFiniteSet(grants') /\ grants' = grants
  BY DEF Claim, Inv, Typed, Tables
<1>8. ASSUME NEW k \in ProcType, proc' = [proc EXCEPT ![p] = k], k.ev = proc[p].ev,
             Knows(p, k)', pack' \in PackStates, pack # "none" => pack' # "none",
             pack' # "none" => order # "none",
             k.pc = "mark" => /\ e.kind = "purchase" => pack' # "none"
                              /\ e.kind \in {"active", "other"} => local' # 0
      PROVE  Inv'
  <2>1. Settles(p, k)
    BY <1>2, <1>6, <1>7, <1>8 DEF Settles
  <2> QED BY <2>1, <1>6, <1>7, <1>8, Step
<1>9. pack # "none" => order # "none"
  BY DEF Inv, AccessWasPaid
<1>10. issued' = issued /\ events' = events
  BY DEF Claim, provider
<1>11. CASE e.kind = "active"
  <2>1. Finds(p, e.state) /\ pack' = pack
    BY <1>11 DEF Claim
  <2>2. e.state \in 1..Len(issued) /\ e.state \in Nat
    BY <1>1, <1>2, <1>3, <1>11 DEF Typed, Tables, Events
  <2>3. PICK k \in ProcType : /\ proc' = [proc EXCEPT ![p] = k]
                              /\ k.pc = "write" /\ k.ev = proc[p].ev /\ k.state = e.state /\ k.stale = proc[p].stale
    BY <1>1, <2>1, <2>2, Finding
  <2>4. Knows(p, k)'
    BY <1>1, <1>2, <1>10, <1>11, <2>2, <2>3 DEF Knows, Syncs, Wrote
  <2> QED BY <1>8, <1>7, <1>9, <2>1, <2>3, <2>4
<1>12. CASE e.kind = "other"
  <2>1. Goes(p, "fetch") /\ pack' = pack /\ "fetch" \in Pcs
    BY <1>12 DEF Claim, Pcs
  <2>2. PICK k \in ProcType : /\ proc' = [proc EXCEPT ![p] = k] /\ k.pc = "fetch"
                              /\ k.ev = proc[p].ev /\ k.state = proc[p].state /\ k.stale = proc[p].stale
    BY <1>1, <2>1, Going
  <2>3. Knows(p, k)'
    BY <1>1, <1>2, <1>10, <1>12, <2>2 DEF Knows, Syncs, Wrote
  <2> QED BY <1>8, <1>7, <1>9, <2>1, <2>2, <2>3
<1>13. CASE e.kind = "purchase"
  <2> DEFINE pc == IF pack = "none" THEN "mint" ELSE "mark"
  <2>1. Goes(p, pc) /\ pack' = pack /\ pc \in Pcs
    BY <1>13 DEF Claim, Pcs
  <2>2. PICK k \in ProcType : /\ proc' = [proc EXCEPT ![p] = k] /\ k.pc = pc
                              /\ k.ev = proc[p].ev /\ k.state = proc[p].state /\ k.stale = proc[p].stale
    BY <1>1, <2>1, Going
  <2>3. Knows(p, k)'
    BY <1>1, <1>2, <1>10, <1>13, <2>2 DEF Knows, Syncs, Wrote
  <2> QED BY <1>8, <1>7, <1>9, <1>13, <2>1, <2>2, <2>3
<1>14. CASE e.kind = "refund"
  <2> DEFINE pc == IF Refundable THEN "refund" ELSE "mark"
  <2>1. Goes(p, pc) /\ pack' = pack /\ pc \in Pcs
    BY <1>14 DEF Claim, Pcs
  <2>2. PICK k \in ProcType : /\ proc' = [proc EXCEPT ![p] = k] /\ k.pc = pc
                              /\ k.ev = proc[p].ev /\ k.state = proc[p].state /\ k.stale = proc[p].stale
    BY <1>1, <2>1, Going
  <2>3. Knows(p, k)'
    BY <1>1, <1>2, <1>10, <1>14, <2>1, <2>2 DEF Knows, Syncs, Wrote, Refundable
  <2> QED BY <1>8, <1>7, <1>9, <1>14, <2>1, <2>2, <2>3
<1> QED BY <1>3, <1>11, <1>12, <1>13, <1>14 DEF Events

\* The pack of a paid order is stored.
LEMMA MintStep ==
  ASSUME Inv, NEW p \in Procs, Mint(p)
  PROVE  Inv'
PROOF
<1>1. Typed /\ proc[p] \in ProcType /\ Knows(p, proc[p]) /\ proc[p].pc = "mint"
  BY TypedFacts DEF Inv, Mint
<1>2. p \in Hooks /\ p # "retry" /\ p # "reconcile" /\ proc[p].ev \in 1..Len(events)
  BY <1>1, ProcNames, TypedFacts DEF Knows
<1>3. events[proc[p].ev].kind = "purchase" /\ order # "none"
  BY <1>1, <1>2 DEF Knows, Typed, Tables
<1>4. CASE pack = "none"
  <2>1. pack' = "ACTIVE" /\ Synced(p) /\ inbox' = inbox
    BY <1>4 DEF Mint
  <2>2. PICK k \in ProcType : /\ proc' = [proc EXCEPT ![p] = k] /\ k.pc = "mark"
                              /\ k.ev = proc[p].ev /\ k.state = 0 /\ k.stale = {}
    BY <1>1, <1>2, <2>1, Syncing
  <2>3. /\ UNCHANGED provider /\ issued' = issued /\ events' = events /\ faults' = faults
        /\ local' = local /\ grants' = grants
    BY DEF Mint, provider
  <2>4. /\ inbox \in Seq(Rows) /\ faults \in Nat /\ local \in 0..Len(issued)
        /\ grants \in SUBSET Grants /\ IsFiniteSet(grants)
    BY <1>1 DEF Typed, Tables
  <2>5. Knows(p, k)'
    BY <1>1, <1>2, <2>2, <2>3, FS_EmptySet DEF Knows, Syncs, Wrote
  <2>6. Settles(p, k)
    BY <1>2, <1>3, <2>1, <2>2, <2>3 DEF Settles
  <2> QED BY <1>3, <2>1, <2>2, <2>3, <2>4, <2>5, <2>6, Step DEF PackStates
<1>5. CASE pack # "none"
  BY <1>1, <1>5, FailStep DEF Mint
<1> QED BY <1>4, <1>5

\* The pack is stored refunded.
LEMMA RefundStep ==
  ASSUME Inv, NEW p \in Procs, Refund(p)
  PROVE  Inv'
PROOF
<1>1. Typed /\ proc[p] \in ProcType /\ Knows(p, proc[p]) /\ proc[p].pc = "refund"
  BY TypedFacts DEF Inv, Refund
<1>2. p \in Hooks /\ p # "retry" /\ p # "reconcile" /\ proc[p].ev \in 1..Len(events)
  BY <1>1, ProcNames, TypedFacts DEF Knows
<1>3. events[proc[p].ev].kind = "refund" /\ pack # "none" /\ order # "none"
  BY <1>1, <1>2 DEF Knows, Inv, AccessWasPaid
<1>4. pack' = "REFUNDED" /\ Synced(p) /\ inbox' = inbox
  BY DEF Refund
<1>5. PICK k \in ProcType : /\ proc' = [proc EXCEPT ![p] = k] /\ k.pc = "mark"
                            /\ k.ev = proc[p].ev /\ k.state = 0 /\ k.stale = {}
  BY <1>1, <1>2, <1>4, Syncing
<1>6. /\ UNCHANGED provider /\ issued' = issued /\ events' = events /\ faults' = faults
      /\ local' = local /\ grants' = grants
  BY DEF Refund, provider
<1>7. /\ inbox \in Seq(Rows) /\ faults \in Nat /\ local \in 0..Len(issued)
      /\ grants \in SUBSET Grants /\ IsFiniteSet(grants)
  BY <1>1 DEF Typed, Tables
<1>8. Knows(p, k)'
  BY <1>1, <1>2, <1>5, <1>6, FS_EmptySet DEF Knows, Syncs, Wrote
<1>9. Settles(p, k)
  BY <1>2, <1>3, <1>4, <1>5, <1>6 DEF Settles
<1> QED BY <1>3, <1>4, <1>5, <1>6, <1>7, <1>8, <1>9, Step DEF PackStates

-----------------------------------------------------------------------------
(* Looking the subscription up and synchronising it *)

LEMMA FetchStep ==
  ASSUME Inv, NEW p \in Procs, Fetch(p)
  PROVE  Inv'
PROOF
<1>1. /\ Typed /\ proc[p] \in ProcType /\ Knows(p, proc[p]) /\ proc[p].pc = "fetch"
      /\ Len(issued) \in Nat \ {0}
  BY TypedFacts DEF Inv, Fetch
<1>2. /\ inbox \in Seq(Rows) /\ faults \in Nat /\ inbox' = inbox /\ faults' = faults
      /\ UNCHANGED <<provider, local, grants, pack>>
  BY <1>1 DEF Typed, Tables, Fetch
<1>3. CASE p = "reconcile" /\ Len(issued) < proc[p].state
  <2>1. proc' = [proc EXCEPT ![p] = Idle]
    BY <1>3 DEF Fetch, Leaves
  <2>2. Idle \in ProcType /\ Idle.pc = "idle" /\ Idle.ev = 0 /\ Knows(p, Idle)
    BY <1>1, IdleOK
  <2>3. Settles(p, Idle)
    BY <1>2, <1>3, <2>2, ProcNames DEF Settles
  <2> QED BY <1>2, <2>1, <2>2, <2>3, QuietStep
<1>4. CASE ~ (p = "reconcile" /\ Len(issued) < proc[p].state)
  <2>1. PICK k \in ProcType : k = [proc[p] EXCEPT !.pc = "find", !.state = Len(issued)]
    <3>1. [proc[p] EXCEPT !.pc = "find", !.state = Len(issued)] \in ProcType
      BY <1>1 DEF ProcType, Pcs
    <3> QED BY <3>1
  <2>2. k.pc = "find" /\ k.ev = proc[p].ev /\ k.state = Len(issued) /\ k.stale = proc[p].stale
    BY <1>1, <2>1 DEF ProcType
  <2>3. proc' = [proc EXCEPT ![p] = k]
    <3>1. proc \in [Procs -> ProcType]
      BY <1>1 DEF Typed
    <3> QED BY <3>1, <1>4, <2>1 DEF Fetch
  <2>4. Knows(p, k)
    BY <1>1, <2>2 DEF Knows, Syncs, Wrote
  <2> QED BY <1>1, <1>2, <2>2, <2>3, <2>4, GoOn DEF Fetch
<1> QED BY <1>3, <1>4

LEMMA UnansweredStep ==
  ASSUME Inv, NEW p \in Procs, Unanswered(p)
  PROVE  Inv'
PROOF
<1>1. Typed /\ proc[p] \in ProcType /\ Knows(p, proc[p]) /\ proc[p].pc = "fetch"
  BY TypedFacts DEF Inv, Unanswered
<1>2. /\ inbox \in Seq(Rows) /\ faults \in Nat /\ faults' = faults + 1
      /\ UNCHANGED <<provider, local, grants, pack>>
  BY <1>1 DEF Typed, Tables, Unanswered
<1>3. CASE p \in Hooks
  <2>1. Finds(p, events[proc[p].ev].state) /\ inbox' = inbox
    BY <1>3 DEF Unanswered
  <2>2. proc[p].ev \in 1..Len(events) /\ events[proc[p].ev].kind = "other"
    BY <1>1, <1>3, ProcNames, TypedFacts DEF Knows
  <2>3. events[proc[p].ev].state \in 1..Len(issued) /\ Len(issued) \in Nat
    BY <1>1, <2>2, TypedFacts DEF Typed, Tables
  <2>4. PICK k \in ProcType :
          /\ proc' = [proc EXCEPT ![p] = k] /\ k.pc = "write" /\ k.ev = proc[p].ev
          /\ k.state = events[proc[p].ev].state /\ k.stale = proc[p].stale
    BY <1>1, <2>1, <2>3, Finding
  <2>5. Knows(p, k)
    BY <1>1, <2>2, <2>3, <2>4 DEF Knows, Syncs, Wrote
  <2>6. Settles(p, k) /\ faults' \in Nat
    BY <1>2 DEF Settles
  <2> QED BY <1>2, <2>1, <2>4, <2>5, <2>6, QuietStep
<1>4. CASE p \notin Hooks
  BY <1>1, <1>2, <1>4, FailStep DEF Unanswered
<1> QED BY <1>3, <1>4

LEMMA FindStep ==
  ASSUME Inv, NEW p \in Procs, Find(p)
  PROVE  Inv'
PROOF
<1>1. Typed /\ proc[p] \in ProcType /\ Knows(p, proc[p]) /\ proc[p].pc = "find"
  BY TypedFacts DEF Inv, Find
<1>2. proc[p].state \in Nat /\ Finds(p, proc[p].state)
  BY <1>1 DEF ProcType, Find
<1>3. PICK k \in ProcType :
        /\ proc' = [proc EXCEPT ![p] = k] /\ k.pc = "write" /\ k.ev = proc[p].ev
        /\ k.state = proc[p].state /\ k.stale = proc[p].stale
  BY <1>1, <1>2, Finding
<1>4. Knows(p, k)
  BY <1>1, <1>3 DEF Knows, Syncs, Wrote
<1> QED BY <1>1, <1>3, <1>4, GoOn DEF Find

\* The row is overwritten, and from here on it is there.
LEMMA WriteRowStep ==
  ASSUME Inv, NEW p \in Procs, WriteRow(p)
  PROVE  Inv'
PROOF
<1>1. Typed /\ proc[p] \in ProcType /\ Knows(p, proc[p]) /\ proc[p].pc = "write"
  BY TypedFacts DEF Inv, WriteRow
<1>2. CASE proc[p].new /\ local # 0
  BY <1>1, <1>2, FailStep DEF WriteRow
<1>3. CASE ~ (proc[p].new /\ local # 0)
  <2>1. local' = proc[p].state /\ Goes(p, "list") /\ inbox' = inbox /\ "list" \in Pcs
    BY <1>3 DEF WriteRow, Pcs
  <2>2. PICK k \in ProcType : /\ proc' = [proc EXCEPT ![p] = k] /\ k.pc = "list"
                              /\ k.ev = proc[p].ev /\ k.state = proc[p].state /\ k.stale = proc[p].stale
    BY <1>1, <2>1, Going
  <2>3. proc[p].state \in 0..Len(issued) /\ proc[p].state # 0
    BY <1>1 DEF Knows, Syncs
  <2>4. /\ UNCHANGED provider /\ issued' = issued /\ events' = events /\ faults' = faults
        /\ pack' = pack /\ grants' = grants
    BY DEF WriteRow, provider
  <2>5. /\ inbox \in Seq(Rows) /\ faults \in Nat /\ pack \in PackStates
        /\ grants \in SUBSET Grants /\ IsFiniteSet(grants) /\ (pack # "none" => order # "none")
    BY <1>1 DEF Typed, Tables, Inv, AccessWasPaid
  <2>6. Knows(p, k)'
    BY <1>1, <2>1, <2>2, <2>3, <2>4 DEF Knows, Syncs, Wrote
  <2>7. faults = 0 /\ p = "retry" => Useful(proc[p].ev)
    BY <1>1 DEF Inv, Effects
  <2>8. Settles(p, k)
    BY <2>1, <2>2, <2>3, <2>4, <2>7 DEF Settles, Useful
  <2> QED BY <2>1, <2>2, <2>3, <2>4, <2>5, <2>6, <2>8, Step
<1> QED BY <1>2, <1>3

LEMMA ListStep ==
  ASSUME Inv, NEW p \in Procs, List(p)
  PROVE  Inv'
PROOF
<1> DEFINE s     == Heard(p)
           open  == OpenAt(proc[p].at)
           stale == {g \in open : ~ Covers(g, s)}
<1>1. Typed /\ proc[p] \in ProcType /\ Knows(p, proc[p]) /\ proc[p].pc = "list"
  BY TypedFacts DEF Inv, List
<1>2. CASE s.status # "ACTIVE"
  <2>1. ToPacks(p)
    BY <1>2 DEF List
  <2>2. PICK k \in ProcType : /\ proc' = [proc EXCEPT ![p] = k] /\ k.pc = "packs"
                              /\ k.ev = proc[p].ev /\ k.state = proc[p].state /\ k.stale = proc[p].stale
    BY <1>1, <2>1, GoingToPacks
  <2>3. Knows(p, k)
    BY <1>1, <2>2 DEF Knows, Syncs, Wrote
  <2> QED BY <1>1, <2>2, <2>3, GoOn DEF List
<1>3. CASE s.status = "ACTIVE"
  <2> DEFINE pc == IF stale # {} THEN "end" ELSE IF open = {} THEN "cover" ELSE "packs"
             c  == (open = stale)
             w  == [proc[p] EXCEPT !.new = FALSE, !.stale = stale, !.cover = c, !.pc = pc]
  <2>1. stale \in SUBSET Grants /\ IsFiniteSet(stale)
    <3>1. stale \in SUBSET grants /\ grants \in SUBSET Grants /\ IsFiniteSet(grants)
      BY <1>1 DEF OpenAt, Typed, Tables
    <3>2. IsFiniteSet(stale)
      BY <3>1, FS_Subset
    <3> QED BY <3>1, <3>2
  <2>2. proc' = [proc EXCEPT ![p] = w]
    BY <1>3 DEF List
  <2>3. pc \in {"end", "cover", "packs"} /\ c \in BOOLEAN
    OBVIOUS
  <2> HIDE DEF stale, open, pc, c
  <2>4. w \in ProcType
    BY <1>1, <2>1, <2>3 DEF ProcType, Pcs
  <2>5. PICK k \in ProcType : k = w
    BY <2>4
  <2>6. k.pc = pc /\ k.ev = proc[p].ev /\ k.state = proc[p].state /\ k.stale = stale
    BY <1>1, <2>5 DEF ProcType
  <2>7. Knows(p, k)
    BY <1>1, <1>3, <2>1, <2>3, <2>6 DEF Knows, Syncs, Wrote, Heard
  <2>8. k.pc # "mark" /\ proc' = [proc EXCEPT ![p] = k]
    BY <2>2, <2>3, <2>5, <2>6
  <2> QED BY <1>1, <2>6, <2>7, <2>8, GoOn DEF List
<1> QED BY <1>2, <1>3

\* sync() took place: the row is there, and with it the effect of the event.
LEMMA SyncedStep ==
  ASSUME Inv, NEW p \in Procs, proc[p].pc \in {"packs", "shelve"}, Synced(p),
         UNCHANGED <<provider, inbox, local, grants, faults>>, pack' \in PackStates,
         pack # "none" <=> pack' # "none"
  PROVE  Inv'
PROOF
<1>1. Typed /\ proc[p] \in ProcType /\ Knows(p, proc[p])
  BY TypedFacts DEF Inv
<1>2. PICK k \in ProcType :
        /\ proc' = [proc EXCEPT ![p] = k]
        /\ k.pc = IF p = "reconcile" THEN "idle" ELSE "mark"
        /\ k.ev = IF p = "reconcile" THEN 0 ELSE proc[p].ev
        /\ k.state = 0 /\ k.stale = {}
  BY <1>1, Syncing
<1>3. /\ UNCHANGED provider /\ issued' = issued /\ events' = events /\ faults' = faults
      /\ local' = local /\ grants' = grants /\ inbox' = inbox
  BY DEF provider
<1>4. /\ inbox \in Seq(Rows) /\ faults \in Nat /\ local \in 0..Len(issued) /\ Len(events) \in Nat
      /\ Len(issued) \in Nat
      /\ grants \in SUBSET Grants /\ IsFiniteSet(grants) /\ (pack # "none" => order # "none")
  BY <1>1, TypedFacts DEF Typed, Tables, Inv, AccessWasPaid
<1>5. k.ev \in 0..Len(events) /\ k.state \in 0..Len(issued) /\ IsFiniteSet(k.stale)
  BY <1>1, <1>2, <1>4, FS_EmptySet DEF Knows
<1>6. Knows(p, k)'
  BY <1>1, <1>2, <1>3, <1>5, ProcNames DEF Knows, Syncs, Wrote
<1>7. local # 0 /\ (p \in Hooks => events[proc[p].ev].kind \in {"active", "other"})
  BY <1>1 DEF Knows, Syncs, Wrote
<1>8. faults = 0 /\ p = "retry" => Useful(proc[p].ev)
  BY <1>1 DEF Inv, Effects
<1>9. Settles(p, k)
  BY <1>2, <1>3, <1>7, <1>8, ProcNames DEF Settles, Useful
<1> QED BY <1>2, <1>3, <1>4, <1>6, <1>9, Step

LEMMA PacksStep ==
  ASSUME Inv, NEW p \in Procs, Packs(p)
  PROVE  Inv'
PROOF
<1>1. Typed /\ proc[p] \in ProcType /\ Knows(p, proc[p]) /\ proc[p].pc = "packs"
  BY TypedFacts DEF Inv, Packs
<1>2. CASE pack = (IF OnGrowth(Heard(p)) THEN "SUSPENDED" ELSE "ACTIVE")
  <2>1. Goes(p, "shelve") /\ "shelve" \in Pcs /\ pack # "none"
    BY <1>2 DEF Packs, Pcs
  <2>2. PICK k \in ProcType : /\ proc' = [proc EXCEPT ![p] = k] /\ k.pc = "shelve"
                              /\ k.ev = proc[p].ev /\ k.state = proc[p].state /\ k.stale = proc[p].stale
    BY <1>1, <2>1, Going
  <2>3. Knows(p, k)
    BY <1>1, <2>1, <2>2 DEF Knows, Syncs, Wrote
  <2> QED BY <1>1, <2>2, <2>3, GoOn DEF Packs
<1>3. CASE pack # (IF OnGrowth(Heard(p)) THEN "SUSPENDED" ELSE "ACTIVE")
  <2>1. pack \in PackStates /\ pack' = pack
    BY <1>1 DEF Typed, Tables, Packs
  <2> QED BY <1>1, <1>3, <2>1, SyncedStep DEF Packs
<1> QED BY <1>2, <1>3

LEMMA ShelveStep ==
  ASSUME Inv, NEW p \in Procs, Shelve(p)
  PROVE  Inv'
PROOF
<1>1. Knows(p, proc[p]) /\ proc[p].pc = "shelve"
  BY TypedFacts DEF Inv, Shelve
<1>2. pack # "none" /\ pack' \in {"ACTIVE", "SUSPENDED"}
  BY <1>1 DEF Knows, Shelve
<1> QED BY <1>1, <1>2, SyncedStep DEF Shelve, PackStates

\* Windows change while the row stays.
LEMMA WindowStep ==
  ASSUME Inv, NEW p \in Procs, proc[p].pc \in {"end", "cover"},
         NEW k \in ProcType, proc' = [proc EXCEPT ![p] = k],
         k.pc \in {"end", "cover", "packs"}, k.ev = proc[p].ev, k.state = proc[p].state,
         IsFiniteSet(k.stale),
         UNCHANGED <<provider, inbox, local, pack, faults>>,
         grants' \in SUBSET Grants, IsFiniteSet(grants'), \A g \in grants' : g \in grants \/ Backed(g)
  PROVE  Inv'
PROOF
<1>1. Typed /\ proc[p] \in ProcType /\ Knows(p, proc[p])
  BY TypedFacts DEF Inv
<1>2. /\ UNCHANGED provider /\ issued' = issued /\ events' = events /\ faults' = faults
      /\ local' = local /\ pack' = pack /\ inbox' = inbox
  BY DEF provider
<1>3. /\ inbox \in Seq(Rows) /\ faults \in Nat /\ local \in 0..Len(issued)
      /\ pack \in PackStates /\ (pack # "none" => order # "none")
  BY <1>1 DEF Typed, Tables, Inv, AccessWasPaid
<1>4. Knows(p, k)'
  BY <1>1, <1>2 DEF Knows, Syncs, Wrote
<1>5. faults = 0 /\ p = "retry" => Useful(proc[p].ev)
  BY <1>1 DEF Inv, Effects
<1>6. Settles(p, k)
  BY <1>2, <1>5 DEF Settles, Useful
<1> QED BY <1>2, <1>3, <1>4, <1>6, Step

LEMMA EndGrantStep ==
  ASSUME Inv, NEW p \in Procs, EndGrant(p)
  PROVE  Inv'
PROOF
<1>1. Typed /\ proc[p] \in ProcType /\ Knows(p, proc[p]) /\ proc[p].pc = "end"
  BY TypedFacts DEF Inv, EndGrant
<1>2. PICK g \in proc[p].stale :
        /\ grants' = grants \ {g}
        /\ proc' = [proc EXCEPT ![p] =
             [@ EXCEPT !.stale = proc[p].stale \ {g}, !.pc = IF proc[p].stale # {g} THEN "end"
                                                  ELSE IF proc[p].cover THEN "cover" ELSE "packs"]]
  BY DEF EndGrant
<1> DEFINE pc == IF proc[p].stale # {g} THEN "end" ELSE IF proc[p].cover THEN "cover" ELSE "packs"
           st == proc[p].stale \ {g}
           w  == [proc[p] EXCEPT !.stale = st, !.pc = pc]
<1>3. st \in SUBSET Grants /\ IsFiniteSet(st)
  <2>1. st \in SUBSET proc[p].stale /\ IsFiniteSet(proc[p].stale) /\ proc[p].stale \in SUBSET Grants
    BY <1>1 DEF Knows, ProcType
  <2>2. IsFiniteSet(st)
    BY <2>1, FS_Subset
  <2> QED BY <2>1, <2>2
<1>4. proc' = [proc EXCEPT ![p] = w]
  BY <1>2
<1>5. pc \in {"end", "cover", "packs"}
  OBVIOUS
<1>6. /\ grants' \in SUBSET grants /\ grants \in SUBSET Grants /\ IsFiniteSet(grants)
      /\ UNCHANGED <<provider, inbox, local, pack, faults>>
  BY <1>1, <1>2 DEF Typed, Tables, EndGrant
<1>7. IsFiniteSet(grants')
  BY <1>6, FS_Subset
<1> HIDE DEF pc, st
<1>8. w \in ProcType
  BY <1>1, <1>3, <1>5 DEF ProcType, Pcs
<1>9. PICK k \in ProcType : k = w
  BY <1>8
<1>10. k.pc = pc /\ k.ev = proc[p].ev /\ k.state = proc[p].state /\ k.stale = st
  BY <1>1, <1>9 DEF ProcType
<1>11. proc' = [proc EXCEPT ![p] = k]
  BY <1>4, <1>9
<1> QED BY <1>1, <1>3, <1>5, <1>6, <1>7, <1>10, <1>11, WindowStep

\* A window is stored as it was heard of, while that was active.
LEMMA CoverStep ==
  ASSUME Inv, NEW p \in Procs, Cover(p)
  PROVE  Inv'
PROOF
<1> DEFINE s == Heard(p)
           g == [id |-> FreshId(s), plan |-> s.plan, until |-> s.until]
<1>1. Typed /\ proc[p] \in ProcType /\ Knows(p, proc[p]) /\ proc[p].pc = "cover"
  BY TypedFacts DEF Inv, Cover
<1>2. /\ grants \in SUBSET Grants /\ IsFiniteSet(grants) /\ inbox \in Seq(Rows) /\ faults \in Nat
      /\ inbox' = inbox /\ faults' = faults /\ local' = local /\ pack' = pack
      /\ UNCHANGED <<provider, inbox, local, pack, faults>>
  BY <1>1 DEF Typed, Tables, Cover
<1>3. CASE s.until # NoEnd /\ s.until <= proc[p].at
  <2>1. proc' = [proc EXCEPT ![p] = Idle] /\ grants' = grants
    BY <1>3 DEF Cover, Leaves
  <2>2. Idle \in ProcType /\ Idle.pc = "idle" /\ Idle.ev = 0 /\ Knows(p, Idle)
    BY <1>1, IdleOK
  <2>3. ASSUME NEW e \in 1..Len(events), p \in Hooks, proc[p].ev = e PROVE Useful(e)
    BY <1>1, <2>3 DEF Knows, Syncs, Wrote, Useful
  <2>4. Settles(p, Idle)
    BY <1>2, <2>2, <2>3 DEF Settles
  <2> QED BY <1>2, <2>1, <2>2, <2>4, QuietStep
<1>4. CASE ~ (s.until # NoEnd /\ s.until <= proc[p].at)
  <2>1. grants' = grants \cup {g} /\ ToPacks(p)
    BY <1>4 DEF Cover
  <2>2. PICK k \in ProcType : /\ proc' = [proc EXCEPT ![p] = k] /\ k.pc = "packs"
                              /\ k.ev = proc[p].ev /\ k.state = proc[p].state /\ k.stale = proc[p].stale
    BY <1>1, <2>1, GoingToPacks
  <2>3. proc[p].state \in 1..Len(issued) /\ s = issued[proc[p].state] /\ s \in Snapshots /\ s.status = "ACTIVE"
    BY <1>1, TypedFacts DEF Knows, Syncs, Heard
  <2>4. g \in Grants
    BY <1>1, <2>3, FreshIdType DEF Grants, Snapshots
  <2>5. Backed(g)
    BY <2>3 DEF Backed, Covers
  <2>6. IsFiniteSet(grants')
    <3>1. IsFiniteSet({g})
      BY FS_Singleton
    <3>2. IsFiniteSet(grants \cup {g})
      BY <3>1, <1>2, FS_Union
    <3> QED BY <3>2, <2>1
  <2>7. grants' \in SUBSET Grants /\ \A h \in grants' : h \in grants \/ Backed(h)
    BY <1>2, <2>1, <2>4, <2>5
  <2>8. IsFiniteSet(k.stale)
    BY <1>1, <2>2 DEF Knows
  <2> QED BY <1>1, <1>2, <2>2, <2>6, <2>7, <2>8, WindowStep
<1> QED BY <1>3, <1>4

LEMMA RefusedStep ==
  ASSUME Inv, NEW p \in Procs, Refused(p)
  PROVE  Inv'
PROOF BY FailStep DEF Refused

-----------------------------------------------------------------------------
(* The provider *)

\* The lists at the provider grow; what was known of them stays true.
LEMMA ProviderStep ==
  ASSUME Inv, NEW kind \in {"active", "other", "purchase", "refund"}, NEW n \in Nat, Emits(kind, n),
         issued' \in Seq(Snapshots), Len(issued') >= Len(issued),
         \A i \in 1..Len(issued) : issued'[i] = issued[i],
         order' \in {"none", "paid", "refunded"}, order # "none" => order' # "none", now' \in Nat,
         kind \in {"active", "other"} => n \in 1..Len(issued'),
         kind = "purchase" => order' # "none",
         UNCHANGED <<local, grants, pack, proc, faults>>
  PROVE  Inv'
PROOF
<1> DEFINE ev == [kind |-> kind, state |-> n]
<1>1. /\ Typed /\ issued \in Seq(Snapshots) /\ events \in Seq(Events) /\ inbox \in Seq(Rows)
      /\ Len(inbox) = Len(events) /\ Len(events) \in Nat /\ Len(issued) \in Nat \ {0}
      /\ Len(issued') \in Nat
  BY TypedFacts DEF Inv
<1>2. ev \in Events /\ NoRow \in Rows
  BY BillingAssumption DEF Events, Rows, NoRow
<1>3. events' = Append(events, ev) /\ inbox' = Append(inbox, NoRow)
  BY DEF Emits
<1>4. /\ events' \in Seq(Events) /\ Len(events') = Len(events) + 1
      /\ events'[Len(events) + 1] = ev /\ \A e \in 1..Len(events) : events'[e] = events[e]
  BY <1>1, <1>2, <1>3
<1>5. /\ inbox' \in Seq(Rows) /\ Len(inbox') = Len(events) + 1
      /\ inbox'[Len(events) + 1].status = "NONE" /\ \A e \in 1..Len(events) : inbox'[e] = inbox[e]
  BY <1>1, <1>2, <1>3 DEF NoRow
<1>6. 1..Len(events') = 1..Len(events) \cup {Len(events) + 1} /\ 1..Len(issued) \subseteq 1..Len(issued')
  BY <1>1, <1>4
<1>7. Tables'
  <2>1. \A e \in 1..Len(events') :
          /\ events'[e].kind \in {"active", "other"} => events'[e].state \in 1..Len(issued')
          /\ events'[e].kind = "purchase" => order' # "none"
    <3>1. ASSUME NEW e \in 1..Len(events)
          PROVE  /\ events'[e].kind \in {"active", "other"} => events'[e].state \in 1..Len(issued')
                 /\ events'[e].kind = "purchase" => order' # "none"
      BY <1>1, <1>4, <1>6 DEF Typed, Tables
    <3>2. ev.kind = kind /\ ev.state = n
      OBVIOUS
    <3> QED BY <3>1, <3>2, <1>4, <1>6
  <2>2. local \in 0..Len(issued') /\ issued' # <<>>
    BY <1>1 DEF Typed, Tables
  <2>3. Len(inbox') = Len(events')
    BY <1>4, <1>5
  <2> QED BY <1>1, <1>4, <1>5, <2>1, <2>2, <2>3 DEF Typed, Tables
<1>8. ASSUME NEW p \in Procs PROVE Knows(p, proc[p])'
  <2>1. Knows(p, proc[p]) /\ proc' = proc /\ local' = local /\ pack' = pack
    BY TypedFacts, <1>1
  <2>2. proc[p].ev \in 0..Len(events') /\ proc[p].state \in 0..Len(issued')
    BY <2>1, <1>1, <1>4 DEF Knows
  <2>3. proc[p].ev # 0 => events'[proc[p].ev] = events[proc[p].ev]
    BY <2>1, <1>1, <1>4 DEF Knows
  <2>4. proc[p].state # 0 => issued'[proc[p].state] = issued[proc[p].state]
    BY <2>1, <1>1 DEF Knows
  <2>5. p \in Hooks /\ proc[p].pc # "idle" => proc[p].ev # 0
    BY <2>1, ProcNames DEF Knows
  <2> QED BY <2>1, <2>2, <2>3, <2>4, <2>5 DEF Knows, Syncs, Wrote
<1>9. AccessWasPaid'
  <2>1. \A g \in grants : \E i \in 1..Len(issued') : issued'[i].status = "ACTIVE" /\ Covers(g, issued'[i])
    <3>1. ASSUME NEW g \in grants
          PROVE  \E i \in 1..Len(issued') : issued'[i].status = "ACTIVE" /\ Covers(g, issued'[i])
      <4>1. PICK i \in 1..Len(issued) : issued[i].status = "ACTIVE" /\ Covers(g, issued[i])
        BY DEF Inv, AccessWasPaid
      <4> QED BY <4>1, <1>6
    <3> QED BY <3>1
  <2>2. pack' # "none" => order' # "none"
    BY DEF Inv, AccessWasPaid
  <2> QED BY <2>1, <2>2 DEF AccessWasPaid, Covers
<1>10. Effects'
  <2>1. SUFFICES ASSUME faults = 0 PROVE
          /\ \A e \in 1..Len(events') : inbox'[e].status = "PROCESSED" \/ Lost(e)' => Useful(e)'
          /\ \A p \in Procs : (p = "retry" /\ proc[p].pc # "idle") \/ (p \in Hooks /\ proc[p].pc = "mark")
                             => /\ events'[proc[p].ev].kind = "purchase" => pack # "none"
                                /\ events'[proc[p].ev].kind \in {"active", "other"} => local # 0
    BY DEF Effects, Useful
  <2>2. ASSUME NEW e \in 1..Len(events), inbox'[e].status = "PROCESSED" \/ Lost(e)' PROVE Useful(e)'
    <3>1. inbox[e].status = "PROCESSED" \/ Lost(e)
      BY <2>2, <1>5 DEF Lost
    <3>2. Useful(e)
      BY <3>1, <2>1 DEF Inv, Effects
    <3> QED BY <3>2, <1>4 DEF Useful
  <2>3. ASSUME NEW p \in Procs,
               (p = "retry" /\ proc[p].pc # "idle") \/ (p \in Hooks /\ proc[p].pc = "mark")
        PROVE  /\ events'[proc[p].ev].kind = "purchase" => pack # "none"
               /\ events'[proc[p].ev].kind \in {"active", "other"} => local # 0
    <3>1. Useful(proc[p].ev)
      BY <2>1, <2>3 DEF Inv, Effects
    <3>2. proc[p].ev \in 1..Len(events)
      BY <2>3, <1>1, TypedFacts, ProcNames DEF Knows
    <3> QED BY <3>1, <3>2, <1>4 DEF Useful
  <2>4. ASSUME NEW e \in 1..Len(events'), inbox'[e].status = "PROCESSED" \/ Lost(e)' PROVE Useful(e)'
    <3>1. CASE e \in 1..Len(events)
      BY <3>1, <2>2, <2>4
    <3>2. CASE e = Len(events) + 1
      BY <3>2, <2>4, <1>5 DEF Lost
    <3> QED BY <3>1, <3>2, <1>6
  <2> QED BY <2>3, <2>4
<1>11. proc' \in [Procs -> ProcType]
  BY <1>1 DEF Typed
<1> QED BY <1>7, <1>8, <1>9, <1>10, <1>11 DEF Inv, Typed

\* A new state of the subscription.
LEMMA BecomesStep ==
  ASSUME Inv, NEW s \in Snapshots, NEW kind \in {"active", "other"}, Becomes(s, kind),
         order' = order, now' \in Nat, UNCHANGED <<local, grants, pack, proc, faults>>
  PROVE  Inv'
PROOF
<1>1. issued \in Seq(Snapshots) /\ Len(issued) \in Nat \ {0} /\ order \in {"none", "paid", "refunded"}
  BY TypedFacts DEF Inv, Typed, Tables
<1>2. issued' = Append(issued, s) /\ Emits(kind, Len(issued) + 1)
  BY DEF Becomes
<1>3. /\ issued' \in Seq(Snapshots) /\ Len(issued') = Len(issued) + 1
      /\ \A i \in 1..Len(issued) : issued'[i] = issued[i]
  BY <1>1, <1>2
<1>4. /\ Len(issued') >= Len(issued) /\ Len(issued) + 1 \in 1..Len(issued') /\ Len(issued) + 1 \in Nat
      /\ order' \in {"none", "paid", "refunded"} /\ kind # "purchase"
  BY <1>1, <1>3
<1> QED BY <1>1, <1>2, <1>3, <1>4, ProviderStep

\* Nothing but time passes.
LEMMA TimeStep ==
  ASSUME Inv, now' \in Nat, UNCHANGED <<issued, order, events, inbox, local, grants, pack, proc, faults>>
  PROVE  Inv'
PROOF
<1>1. Tables'
  BY DEF Inv, Typed, Tables
<1>2. proc' \in [Procs -> ProcType] /\ \A p \in Procs : Knows(p, proc[p])'
  BY DEF Inv, Typed, Knows
<1>3. AccessWasPaid'
  BY DEF Inv, AccessWasPaid, Covers
<1>4. Effects'
  BY DEF Inv, Effects, Useful, Lost
<1> QED BY <1>1, <1>2, <1>3, <1>4 DEF Inv, Typed

LEMMA ProviderSteps ==
  ASSUME Inv, Provider
  PROVE  Inv'
PROOF
<1>1. /\ issued \in Seq(Snapshots) /\ Len(issued) \in Nat \ {0} /\ now \in Nat
      /\ order \in {"none", "paid", "refunded"} /\ Latest \in Snapshots
  BY TypedFacts DEF Inv, Typed, Tables, Latest
<1>2. CASE ChangePlan
  <2> DEFINE s == [Latest EXCEPT !.plan = IF @ = "TEAM" THEN "GROWTH" ELSE "TEAM"]
  <2>1. s \in Snapshots
    BY <1>1 DEF Snapshots
  <2> QED BY <1>1, <1>2, <2>1, BecomesStep DEF ChangePlan
<1>3. CASE Suspend
  <2>1. PICK st \in {"UNPAID", "PAUSED"} : Becomes([Latest EXCEPT !.status = st], "other")
    BY <1>3 DEF Suspend
  <2>2. [Latest EXCEPT !.status = st] \in Snapshots
    BY <1>1 DEF Snapshots, Statuses
  <2> QED BY <1>1, <1>3, <2>1, <2>2, BecomesStep DEF Suspend
<1>4. CASE Resume
  <2> DEFINE s == [Latest EXCEPT !.status = "ACTIVE", !.until = IF Endless THEN NoEnd ELSE now + 1]
  <2>1. s \in Snapshots
    <3>1. (IF Endless THEN NoEnd ELSE now + 1) \in Nat
      BY <1>1 DEF NoEnd
    <3> QED BY <3>1, <1>1 DEF Snapshots, Statuses
  <2> QED BY <1>1, <1>4, <2>1, BecomesStep DEF Resume
<1>5. CASE Cancel
  <2> DEFINE s == [Latest EXCEPT !.status = "CANCELLED"]
  <2>1. s \in Snapshots
    BY <1>1 DEF Snapshots, Statuses
  <2> QED BY <1>1, <1>5, <2>1, BecomesStep DEF Cancel
<1>6. CASE NextPeriod
  <2> DEFINE s == [Latest EXCEPT !.until = now + 2]
  <2>1. s \in Snapshots /\ now' \in Nat
    <3>1. now + 2 \in Nat /\ now' \in Nat
      BY <1>1, <1>6 DEF NextPeriod
    <3> QED BY <3>1, <1>1 DEF Snapshots
  <2>2. CASE Latest.status = "ACTIVE"
    BY <1>6, <2>1, <2>2, BecomesStep DEF NextPeriod
  <2>3. CASE Latest.status # "ACTIVE"
    BY <1>6, <2>1, <2>3, TimeStep DEF NextPeriod
  <2> QED BY <2>2, <2>3
<1>7. CASE Buy
  <2>1. Emits("purchase", 0) /\ order' = "paid" /\ issued' = issued /\ now' = now
    BY <1>7 DEF Buy
  <2> QED BY <1>1, <1>7, <2>1, ProviderStep DEF Buy
<1>8. CASE RefundOrder
  <2>1. Emits("refund", 0) /\ order' = "refunded" /\ issued' = issued /\ now' = now
    BY <1>8 DEF RefundOrder
  <2> QED BY <1>1, <1>8, <2>1, ProviderStep DEF RefundOrder
<1> QED BY <1>2, <1>3, <1>4, <1>5, <1>6, <1>7, <1>8 DEF Provider

-----------------------------------------------------------------------------
(* The theorems *)

LEMMA InitInv == Init => Inv
PROOF
<1> SUFFICES ASSUME Init PROVE Inv
  OBVIOUS
<1> DEFINE g == [id |-> 1, plan |-> "TEAM", until |-> First.until]
<1>1. First \in Snapshots /\ First.status = "ACTIVE" /\ First.plan = "TEAM"
  BY DEF First, Snapshots, Statuses, NoEnd
<1>2. /\ issued = <<First>> /\ order = "none" /\ now = 0 /\ pack = "none" /\ faults = 0
      /\ proc = [p \in Procs |-> Idle]
  BY DEF Init
<1>3. issued \in Seq(Snapshots) /\ Len(issued) = 1 /\ issued[1] = First /\ issued # <<>>
  BY <1>1, <1>2
<1>4. NoRow \in Rows /\ NoRow.status = "NONE"
  BY BillingAssumption DEF NoRow, Rows
<1>5. grants \in SUBSET Grants /\ IsFiniteSet(grants) /\ \A h \in grants : h = g
  <2>1. g \in Grants /\ IsFiniteSet({g})
    BY <1>1, FS_Singleton DEF Grants, Snapshots
  <2> QED BY <2>1, FS_EmptySet DEF Init
<1>6. /\ events \in Seq(Events) /\ inbox \in Seq(Rows) /\ Len(inbox) = Len(events) /\ local \in 0..1
      /\ \A e \in 1..Len(events) : /\ e = 1 /\ inbox[e] = NoRow
                                   /\ events[e].kind = "active" /\ events[e].state = 1
  <2>1. CASE events = <<[kind |-> "active", state |-> 1]>> /\ inbox = <<NoRow>> /\ local = 0
    <3>1. [kind |-> "active", state |-> 1] \in Events
      BY DEF Events
    <3> QED BY <2>1, <3>1, <1>4
  <2>2. CASE events = <<>> /\ inbox = <<>> /\ local = 1
    BY <2>2
  <2> QED BY <2>1, <2>2 DEF Init
<1>7. Tables
  BY <1>2, <1>3, <1>5, <1>6 DEF Tables, PackStates
<1>8. proc \in [Procs -> ProcType] /\ \A p \in Procs : proc[p] = Idle
  BY <1>2, IdleOK
<1>9. \A p \in Procs : Knows(p, proc[p])
  <2>1. /\ Idle.pc = "idle" /\ Idle.ev = 0 /\ Idle.state = 0 /\ IsFiniteSet(Idle.stale)
        /\ Len(events) \in Nat
    BY <1>6, FS_EmptySet DEF Idle
  <2> QED BY <2>1, <1>3, <1>8 DEF Knows, Syncs, Wrote
<1>10. AccessWasPaid
  BY <1>1, <1>2, <1>3, <1>5 DEF AccessWasPaid, Covers
<1>11. Effects
  <2>1. \A e \in 1..Len(events) : inbox[e].status = "NONE"
    BY <1>4, <1>6
  <2>2. \A p \in Procs : proc[p].pc = "idle"
    BY <1>8, IdleOK
  <2> QED BY <2>1, <2>2 DEF Effects, Lost
<1> QED BY <1>7, <1>8, <1>9, <1>10, <1>11 DEF Inv, Typed

LEMMA NextInv == Inv /\ [Next]_vars => Inv'
PROOF
<1> SUFFICES ASSUME Inv, [Next]_vars PROVE Inv'
  OBVIOUS
<1>1. CASE Provider
  BY <1>1, ProviderSteps
<1>2. CASE Retry
  BY <1>2, RetryStep
<1>3. CASE Reconcile
  BY <1>3, ReconcileStep
<1>4. ASSUME NEW p \in Procs, Deliver(p) \/ Continues(p) \/ Unanswered(p) \/ Refused(p) \/ Crash(p)
      PROVE  Inv'
  <2>1. CASE Deliver(p)     BY <2>1, DeliverStep
  <2>2. CASE Claim(p)       BY <2>2, ClaimStep
  <2>3. CASE Mint(p)        BY <2>3, MintStep
  <2>4. CASE Mark(p)        BY <2>4, MarkStep
  <2>5. CASE Fetch(p)       BY <2>5, FetchStep
  <2>6. CASE Find(p)        BY <2>6, FindStep
  <2>7. CASE WriteRow(p)    BY <2>7, WriteRowStep
  <2>8. CASE List(p)        BY <2>8, ListStep
  <2>9. CASE EndGrant(p)    BY <2>9, EndGrantStep
  <2>10. CASE Cover(p)      BY <2>10, CoverStep
  <2>11. CASE Packs(p)      BY <2>11, PacksStep
  <2>12. CASE Shelve(p)     BY <2>12, ShelveStep
  <2>13. CASE Unanswered(p) BY <2>13, UnansweredStep
  <2>14. CASE Refused(p)    BY <2>14, RefusedStep
  <2>15. CASE Crash(p)      BY <2>15, CrashStep
  <2>16. CASE Refund(p)     BY <2>16, RefundStep
  <2> QED BY <1>4, <2>1, <2>2, <2>3, <2>4, <2>5, <2>6, <2>7, <2>8, <2>9, <2>10,
             <2>11, <2>12, <2>13, <2>14, <2>15, <2>16 DEF Continues
<1>5. CASE UNCHANGED vars
  <2>1. UNCHANGED <<issued, order, events, inbox, local, grants, pack, proc, faults>> /\ now' = now
    BY <1>5 DEF vars, provider
  <2>2. now \in Nat
    BY DEF Inv, Typed, Tables
  <2> QED BY <2>1, <2>2, TimeStep
<1> QED BY <1>1, <1>2, <1>3, <1>4, <1>5 DEF Next

LEMMA InvTyped == Inv => TypeOK
PROOF
<1> SUFFICES ASSUME Inv PROVE TypeOK
  OBVIOUS
<1>1. Typed
  BY DEF Inv
<1>2. proc \in [Procs -> [pc : Pcs, ev : 0..Len(events), state : 0..Len(issued), at : Nat,
                         new : BOOLEAN, stale : SUBSET Grants, cover : BOOLEAN]]
  <2>1. proc \in [Procs -> ProcType]
    BY <1>1 DEF Typed
  <2>2. ASSUME NEW p \in Procs
        PROVE  proc[p] \in [pc : Pcs, ev : 0..Len(events), state : 0..Len(issued), at : Nat,
                            new : BOOLEAN, stale : SUBSET Grants, cover : BOOLEAN]
    <3>1. proc[p] \in ProcType /\ proc[p].ev \in 0..Len(events) /\ proc[p].state \in 0..Len(issued)
      BY <1>1, TypedFacts DEF Knows
    <3> QED BY <3>1 DEF ProcType
  <2> QED BY <2>1, <2>2
<1>3. grants \subseteq Grants /\ pack \in {"none", "ACTIVE", "SUSPENDED", "REFUNDED"}
  BY <1>1 DEF Typed, Tables, PackStates
<1> QED BY <1>1, <1>2, <1>3 DEF TypeOK, Typed, Tables

LEMMA AlwaysInv == Spec => []Inv
PROOF BY InitInv, NextInv, PTL DEF Spec

\* The tables and the local state of every request and job keep their types.
THEOREM TypeCorrect == Spec => []TypeOK
PROOF BY AlwaysInv, InvTyped, PTL

\* Every window of access, whichever of the webhooks and jobs stored it and
\* however old its news was, is one the provider gave for an active
\* subscription, and no pack is there without an order that was paid.
THEOREM AccessPaid == Spec => []AccessWasPaid
PROOF
<1>1. Inv => AccessWasPaid
  BY DEF Inv
<1> QED BY <1>1, AlwaysInv, PTL

\* While nothing fails, the inbox calls an event processed only when its pack
\* or its subscription row is there: the retry job marks events it never
\* looked at, but the row of such an event was left behind after its effect.
THEOREM ProcessedEffective == Spec => []ProcessedTookEffect
PROOF
<1>1. Inv => ProcessedTookEffect
  <2>1. SUFFICES ASSUME Inv, faults = 0, NEW e \in 1..Len(events), inbox[e].status = "PROCESSED"
        PROVE  CASE events[e].kind = "purchase" -> pack # "none"
                 [] events[e].kind = "refund" -> TRUE
                 [] events[e].kind \in {"active", "other"} -> local # 0
    BY DEF ProcessedTookEffect
  <2>2. Useful(e)
    BY <2>1 DEF Inv, Effects
  <2>3. events[e].kind \in {"active", "other", "purchase", "refund"}
    BY <2>1, TypedFacts DEF Inv, Events
  <2> QED BY <2>2, <2>3 DEF Useful
<1> QED BY <1>1, AlwaysInv, PTL

-----------------------------------------------------------------------------
(* What a step may do to the inbox *)

\* Nobody works on an event that another has, and the row of an event somebody
\* has says so: received until it is claimed, in processing from then on.
Owned ==
  /\ proc["reconcile"].ev = 0
  /\ \A p, q \in Procs : p # q /\ proc[p].ev # 0 => proc[p].ev # proc[q].ev
  /\ \A p \in Procs : proc[p].ev # 0 =>
       inbox[proc[p].ev].status = IF proc[p].pc = "claim" THEN "RECEIVED" ELSE "PROCESSING"
  /\ \A e \in 1..Len(events) : inbox[e].status \in {"NONE", "RECEIVED"} => inbox[e].attempts = 0

\* A row only goes on, its attempts are never taken back, and once it is
\* settled nothing touches it.  A row that somebody has is changed by nobody else.
Onward(e) ==
  /\ inbox[e].status \in {"PROCESSED", "FAILED"} => inbox'[e] = inbox[e]
  /\ inbox[e].status = "NONE"       => inbox'[e].status \in {"NONE", "RECEIVED"}
  /\ inbox[e].status = "RECEIVED"   => inbox'[e].status \in {"RECEIVED", "PROCESSING"}
  /\ inbox[e].status = "PROCESSING" => inbox'[e].status \in {"PROCESSING", "PROCESSED", "FAILED"}
  /\ inbox[e].attempts <= inbox'[e].attempts
  /\ inbox'[e] # inbox[e] => \A p \in Procs : proc[p].ev = e => proc'[p] # proc[p]

InboxOnward == [][Len(events) <= Len(events') /\ \A e \in 1..Len(events) : Onward(e)]_vars

\* How the row of the event at hand may change, for a process that ends as k.
Moves(i, k) ==
  /\ <<inbox[i].status, inbox'[i].status>> \in
        {<<"NONE", "RECEIVED">>, <<"RECEIVED", "RECEIVED">>, <<"RECEIVED", "PROCESSING">>,
         <<"PROCESSING", "PROCESSING">>, <<"PROCESSING", "PROCESSED">>, <<"PROCESSING", "FAILED">>}
  /\ inbox[i].attempts <= inbox'[i].attempts
  /\ inbox'[i].status = "RECEIVED" => inbox'[i].attempts = 0
  /\ k.ev = i => inbox'[i].status = IF k.pc = "claim" THEN "RECEIVED" ELSE "PROCESSING"

\* A step of process p, which ends as k, with the event i at hand, if any.
Handles(p, k, i) ==
  /\ proc' = [proc EXCEPT ![p] = k] /\ events' = events
  /\ k.ev \in {0, i} /\ (proc[p].ev # 0 => i = proc[p].ev) /\ (p = "reconcile" => k.ev = 0)
  /\ inbox' # inbox => k # proc[p]
  /\ \A e \in 1..Len(events) : e # i => inbox'[e] = inbox[e]
  /\ i # 0 => Moves(i, k) /\ \A q \in Procs : q # p => proc[q].ev # i

LEMMA OnwardStep ==
  ASSUME Typed, Owned, NEW p \in Procs, NEW k \in ProcType, NEW i \in 0..Len(events), Handles(p, k, i)
  PROVE  Owned' /\ \A e \in 1..Len(events) : Onward(e)
PROOF
<1>0. /\ proc' = [proc EXCEPT ![p] = k] /\ events' = events
      /\ k.ev \in {0, i} /\ (proc[p].ev # 0 => i = proc[p].ev) /\ (p = "reconcile" => k.ev = 0)
      /\ inbox' # inbox => k # proc[p]
      /\ \A e \in 1..Len(events) : e # i => inbox'[e] = inbox[e]
      /\ i # 0 => Moves(i, k) /\ \A q \in Procs : q # p => proc[q].ev # i
  BY DEF Handles
<1>1. proc \in [Procs -> ProcType] /\ Len(events) \in Nat /\ "reconcile" \in Procs
  BY TypedFacts, ProcNames DEF Typed
<1>2. \A q \in Procs : proc'[q] = IF q = p THEN k ELSE proc[q]
  BY <1>0, <1>1
<1>3. \A q \in Procs : proc[q].ev \in 0..Len(events)
  BY TypedFacts DEF Knows
<1>4. proc'["reconcile"].ev = 0
  BY <1>0, <1>1, <1>2 DEF Owned
<1>5. ASSUME NEW q \in Procs, NEW r \in Procs, q # r, proc'[q].ev # 0
      PROVE  proc'[q].ev # proc'[r].ev
  <2>1. CASE q = p
    BY <1>0, <1>2, <1>5, <2>1
  <2>2. CASE r = p
    BY <1>0, <1>2, <1>5, <2>2
  <2>3. CASE q # p /\ r # p
    BY <1>0, <1>2, <1>5, <2>3 DEF Owned
  <2> QED BY <2>1, <2>2, <2>3
<1>6. ASSUME NEW q \in Procs, proc'[q].ev # 0
      PROVE  inbox'[proc'[q].ev].status = IF proc'[q].pc = "claim" THEN "RECEIVED" ELSE "PROCESSING"
  <2>1. CASE q = p
    BY <1>0, <1>2, <1>6, <2>1 DEF Moves
  <2>2. CASE q # p
    <3>1. proc'[q] = proc[q] /\ proc[q].ev \in 1..Len(events) /\ proc[q].ev # i
      BY <1>0, <1>1, <1>2, <1>3, <1>6, <2>2
    <3>2. inbox'[proc[q].ev] = inbox[proc[q].ev]
      BY <1>0, <3>1
    <3> QED BY <3>1, <3>2 DEF Owned
  <2> QED BY <2>1, <2>2
<1>7. ASSUME NEW e \in 1..Len(events) PROVE inbox'[e].status \in {"NONE", "RECEIVED"} => inbox'[e].attempts = 0
  BY <1>0, <1>7 DEF Owned, Moves
<1>8. ASSUME NEW e \in 1..Len(events) PROVE Onward(e)
  <2>1. inbox[e].attempts \in Nat
    BY TypedFacts, BillingAssumption DEF Rows
  <2>2. CASE e = i
    <3>1. \A q \in Procs : proc[q].ev = e => q = p
      BY <1>0, <2>2, <1>1
    <3>2. inbox'[e] # inbox[e] => proc'[p] # proc[p]
      BY <1>0, <1>2
    <3> QED BY <1>0, <3>1, <3>2, <2>2, <1>1 DEF Onward, Moves
  <2>3. CASE e # i
    <3>1. inbox'[e] = inbox[e]
      BY <1>0, <2>3
    <3> QED BY <1>0, <2>1, <3>1, TypedFacts DEF Onward, Rows
  <2> QED BY <2>2, <2>3
<1> QED BY <1>0, <1>4, <1>5, <1>6, <1>7, <1>8 DEF Owned

\* A step with no row of the inbox in it.
LEMMA OnwardQuiet ==
  ASSUME Typed, Owned, NEW p \in Procs, NEW k \in ProcType, proc' = [proc EXCEPT ![p] = k],
         UNCHANGED <<events, inbox>>,
         k.ev \in {0, proc[p].ev}, k.ev # 0 => proc[p].pc # "claim" /\ k.pc # "claim"
  PROVE  Owned' /\ \A e \in 1..Len(events) : Onward(e)
PROOF
<1> DEFINE i == proc[p].ev
<1>1. i \in 0..Len(events) /\ Len(events) \in Nat
  BY TypedFacts DEF Knows
<1>2. p = "reconcile" => k.ev = 0
  BY DEF Owned
<1>3. \A q \in Procs : q # p /\ i # 0 => proc[q].ev # i
  BY DEF Owned
<1>4. ASSUME i # 0 PROVE Moves(i, k)
  <2>1. i \in 1..Len(events)
    BY <1>1, <1>4
  <2>2. inbox[i].attempts \in Nat
    BY <2>1, TypedFacts, BillingAssumption DEF Rows
  <2>3. inbox[i].status = IF proc[p].pc = "claim" THEN "RECEIVED" ELSE "PROCESSING"
    BY <1>4 DEF Owned
  <2>4. inbox[i].status = "RECEIVED" => inbox[i].attempts = 0
    BY <2>1 DEF Owned
  <2> HIDE DEF i
  <2> QED BY <2>2, <2>3, <2>4, <1>4 DEF Moves
<1> HIDE DEF i
<1>5. i = proc[p].ev
  BY DEF i
<1>6. Handles(p, k, i)
  BY <1>2, <1>3, <1>4, <1>5 DEF Handles
<1> QED BY <1>1, <1>6, OnwardStep

\* A step that settles the row of its event, or fails without.
LEMMA OnwardEnd ==
  ASSUME Typed, Owned, NEW p \in Procs, proc[p].pc \notin {"idle", "claim"},
         NEW st \in {"PROCESSED", "FAILED"}, Leaves(p), events' = events,
         (p # "reconcile" /\ Marks(p, st)) \/ UNCHANGED inbox
  PROVE  Owned' /\ \A e \in 1..Len(events) : Onward(e)
PROOF
<1> DEFINE i == proc[p].ev
<1>1. i \in 0..Len(events) /\ Len(events) \in Nat /\ proc' = [proc EXCEPT ![p] = Idle]
  BY TypedFacts DEF Knows, Leaves
<1>2. Idle \in ProcType /\ Idle.pc = "idle" /\ Idle.ev = 0 /\ Idle # proc[p]
  BY IdleOK
<1>3. CASE UNCHANGED inbox
  BY <1>1, <1>2, <1>3, OnwardQuiet
<1>4. CASE p # "reconcile" /\ Marks(p, st)
  <2>1. i \in 1..Len(events) /\ inbox[i].status = "PROCESSING"
    BY <1>1, <1>4, TypedFacts DEF Knows, Owned
  <2>2. inbox \in Seq(Rows) /\ Len(inbox) = Len(events) /\ inbox[i] \in Rows
    BY <2>1, TypedFacts
  <2>3. PICK r \in Rows : r = [inbox[i] EXCEPT !.status = st]
    BY <2>2 DEF Rows
  <2>4. r.status = st /\ r.attempts = inbox[i].attempts /\ r.attempts \in Nat
    BY <2>2, <2>3, BillingAssumption DEF Rows
  <2>5. \A e \in 1..Len(events) : inbox'[e] = IF e = i THEN r ELSE inbox[e]
    BY <2>1, <2>2, <2>3, <1>4, SeqExcept DEF Marks
  <2>6. inbox[i].attempts <= inbox'[i].attempts /\ inbox'[i].status = st
    BY <2>1, <2>4, <2>5
  <2>7. \A q \in Procs : q # p => proc[q].ev # i
    BY <2>1 DEF Owned
  <2> HIDE DEF i
  <2>8. Moves(i, Idle)
    BY <1>2, <2>1, <2>6 DEF Moves
  <2>9. \A e \in 1..Len(events) : e # i => inbox'[e] = inbox[e]
    BY <2>5
  <2>10. i = proc[p].ev
    BY DEF i
  <2>11. Handles(p, Idle, i)
    BY <1>1, <1>2, <2>7, <2>8, <2>9, <2>10 DEF Handles
  <2> QED BY <1>1, <1>2, <2>11, OnwardStep
<1> QED BY <1>3, <1>4

LEMMA OnwardFail ==
  ASSUME Typed, Owned, NEW p \in Procs, proc[p].pc \notin {"idle", "claim"}, Fails(p), events' = events
  PROVE  Owned' /\ \A e \in 1..Len(events) : Onward(e)
PROOF
<1>1. (p # "reconcile" /\ Marks(p, "FAILED")) \/ UNCHANGED inbox
  BY ProcNames DEF Fails
<1> QED BY <1>1, OnwardEnd DEF Fails

LEMMA OnwardDeliver ==
  ASSUME Typed, Owned, NEW p \in Procs, Deliver(p)
  PROVE  Owned' /\ \A e \in 1..Len(events) : Onward(e)
PROOF
<1>1. PICK i \in 1..Len(events) :
        /\ inbox[i].status = "NONE" /\ inbox' = [inbox EXCEPT ![i].status = "RECEIVED"]
        /\ proc' = [proc EXCEPT ![p].pc = "claim", ![p].ev = i]
  BY DEF Deliver
<1>2. /\ inbox \in Seq(Rows) /\ Len(events) \in Nat /\ Len(inbox) = Len(events) /\ inbox[i] \in Rows
      /\ proc \in [Procs -> ProcType] /\ proc[p] \in ProcType /\ Knows(p, proc[p])
  BY TypedFacts DEF Typed
<1>3. p # "reconcile" /\ proc[p].pc = "idle" /\ proc[p].ev = 0 /\ i \in 0..Len(events) /\ i # 0
  BY <1>2, ProcNames DEF Deliver, Knows
<1>4. PICK k \in ProcType : k = [proc[p] EXCEPT !.pc = "claim", !.ev = i]
  <2>1. i \in Nat
    BY <1>2
  <2>2. [proc[p] EXCEPT !.pc = "claim", !.ev = i] \in ProcType
    BY <1>2, <2>1 DEF ProcType, Pcs
  <2> QED BY <2>2
<1>5. k.pc = "claim" /\ k.ev = i /\ k # proc[p] /\ proc' = [proc EXCEPT ![p] = k]
  BY <1>1, <1>2, <1>3, <1>4 DEF ProcType
<1>6. PICK r \in Rows : r = [inbox[i] EXCEPT !.status = "RECEIVED"]
  BY <1>2 DEF Rows
<1>7. r.status = "RECEIVED" /\ r.attempts = inbox[i].attempts /\ inbox[i].attempts = 0
  BY <1>1, <1>2, <1>6 DEF Rows, Owned
<1>8. \A e \in 1..Len(events) : inbox'[e] = IF e = i THEN r ELSE inbox[e]
  BY <1>1, <1>2, <1>6, SeqExcept
<1>9. Moves(i, k)
  BY <1>1, <1>5, <1>7, <1>8 DEF Moves
<1>10. \A q \in Procs : proc[q].ev # i
  BY <1>1, <1>3 DEF Owned
<1>11. \A e \in 1..Len(events) : e # i => inbox'[e] = inbox[e]
  BY <1>8
<1>12. events' = events
  BY DEF Deliver, provider
<1>13. Handles(p, k, i)
  BY <1>3, <1>5, <1>9, <1>10, <1>11, <1>12 DEF Handles
<1> QED BY <1>3, <1>13, OnwardStep

LEMMA OnwardClaim ==
  ASSUME Typed, Owned, NEW p \in Procs, Claim(p)
  PROVE  Owned' /\ \A e \in 1..Len(events) : Onward(e)
PROOF
<1> DEFINE row == [status |-> "PROCESSING", attempts |-> 1]
<1>1. PICK i : i = proc[p].ev
  OBVIOUS
<1>2. proc[p] \in ProcType /\ Knows(p, proc[p]) /\ proc[p].pc = "claim" /\ p \in Hooks /\ p # "reconcile"
  BY TypedFacts, ProcNames DEF Claim, Knows
<1>3. i \in 1..Len(events) /\ i \in 0..Len(events) /\ i # 0 /\ events[i] \in Events
  BY <1>1, <1>2, TypedFacts DEF Knows
<1>4. inbox \in Seq(Rows) /\ Len(inbox) = Len(events) /\ row \in Rows
  BY TypedFacts, BillingAssumption DEF Rows
<1>5. inbox' = [inbox EXCEPT ![i] = row]
  BY <1>1 DEF Claim
<1>6. \A e \in 1..Len(events) : inbox'[e] = IF e = i THEN row ELSE inbox[e]
  BY <1>3, <1>4, <1>5, SeqExcept
<1>7. inbox[i].status = "RECEIVED" /\ inbox[i].attempts = 0
  BY <1>1, <1>2, <1>3 DEF Owned
<1>8. PICK k \in ProcType : proc' = [proc EXCEPT ![p] = k] /\ k.pc # "claim" /\ k.ev = i
  <2>1. CASE \E pc \in {"fetch", "mint", "refund", "mark"} : Goes(p, pc)
    <3>1. PICK pc \in {"fetch", "mint", "refund", "mark"} : Goes(p, pc)
      BY <2>1
    <3>2. pc \in Pcs
      BY DEF Pcs
    <3> QED BY <1>1, <3>1, <3>2, Going
  <2>2. CASE Finds(p, events[i].state)
    <3>1. events[i].state \in Nat
      BY <1>3 DEF Events
    <3> QED BY <1>1, <2>2, <3>1, Finding
  <2>3. events[i].kind \in {"active", "other", "purchase", "refund"}
    BY <1>3 DEF Events
  <2> QED BY <1>1, <2>1, <2>2, <2>3 DEF Claim
<1>9. Moves(i, k)
  BY <1>3, <1>6, <1>7, <1>8 DEF Moves
<1>10. \A q \in Procs : q # p => proc[q].ev # i
  BY <1>1, <1>3 DEF Owned
<1>11. \A e \in 1..Len(events) : e # i => inbox'[e] = inbox[e]
  BY <1>6
<1>12. events' = events /\ k # proc[p]
  BY <1>2, <1>8 DEF Claim, provider
<1>13. Handles(p, k, i)
  BY <1>1, <1>2, <1>8, <1>9, <1>10, <1>11, <1>12 DEF Handles
<1> QED BY <1>3, <1>13, OnwardStep

LEMMA OnwardRetry ==
  ASSUME Typed, Owned, Retry
  PROVE  Owned' /\ \A e \in 1..Len(events) : Onward(e)
PROOF
<1>1. PICK i \in 1..Len(events) :
        /\ inbox[i].status = "PROCESSING" /\ \A h \in Hooks : proc[h].ev # i
        /\ inbox' = [inbox EXCEPT ![i].attempts = @ + 1]
        /\ proc' = [proc EXCEPT !["retry"].pc = IF local = 0 THEN "mark" ELSE "fetch",
                                !["retry"].ev = i]
  BY DEF Retry
<1>2. PICK p \in Procs : p = "retry"
  BY ProcNames
<1>3. /\ inbox \in Seq(Rows) /\ Len(events) \in Nat /\ Len(inbox) = Len(events) /\ inbox[i] \in Rows
      /\ proc \in [Procs -> ProcType] /\ proc[p] \in ProcType /\ Knows(p, proc[p])
  BY TypedFacts DEF Typed
<1>4. p # "reconcile" /\ proc[p].pc = "idle" /\ proc[p].ev = 0 /\ i \in 0..Len(events) /\ i # 0
  BY <1>2, <1>3, ProcNames DEF Retry, Knows
<1>5. PICK k \in ProcType : k = [proc[p] EXCEPT !.pc = IF local = 0 THEN "mark" ELSE "fetch", !.ev = i]
  <2>1. i \in Nat
    BY <1>3
  <2>2. [proc[p] EXCEPT !.pc = IF local = 0 THEN "mark" ELSE "fetch", !.ev = i] \in ProcType
    BY <1>3, <2>1 DEF ProcType, Pcs
  <2> QED BY <2>2
<1>6. k.pc \in {"mark", "fetch"} /\ k.ev = i /\ k # proc[p] /\ proc' = [proc EXCEPT ![p] = k]
  BY <1>1, <1>2, <1>3, <1>4, <1>5 DEF ProcType
<1>7. PICK r \in Rows : r = [inbox[i] EXCEPT !.attempts = @ + 1]
  <2>1. inbox[i].attempts \in Nat
    BY <1>3 DEF Rows
  <2>2. inbox[i].attempts + 1 \in Nat
    BY <2>1
  <2>3. [inbox[i] EXCEPT !.attempts = @ + 1] \in Rows
    BY <1>3, <2>2 DEF Rows
  <2> QED BY <2>3
<1>8. r.status = "PROCESSING" /\ inbox[i].attempts <= r.attempts
  BY <1>1, <1>3, <1>7, BillingAssumption DEF Rows
<1>9. \A e \in 1..Len(events) : inbox'[e] = IF e = i THEN r ELSE inbox[e]
  BY <1>1, <1>3, <1>7, SeqExcept
<1>10. Moves(i, k)
  BY <1>1, <1>6, <1>8, <1>9 DEF Moves
<1>11. \A q \in Procs : q # p => proc[q].ev # i
  BY <1>1, <1>2, <1>4 DEF Owned, Procs
<1>12. \A e \in 1..Len(events) : e # i => inbox'[e] = inbox[e]
  BY <1>9
<1>13. events' = events
  BY DEF Retry, provider
<1>14. Handles(p, k, i)
  BY <1>4, <1>6, <1>10, <1>11, <1>12, <1>13 DEF Handles
<1> QED BY <1>4, <1>14, OnwardStep

LEMMA OnwardProvider ==
  ASSUME Typed, Owned, \/ Provider \/ UNCHANGED vars
  PROVE  /\ Owned' /\ Len(events) <= Len(events')
         /\ \A e \in 1..Len(events) : Onward(e)
PROOF
<1>1. /\ inbox \in Seq(Rows) /\ events \in Seq(Events) /\ Len(events) \in Nat /\ Len(inbox) = Len(events)
      /\ \A e \in 1..Len(events) : inbox[e] \in Rows
      /\ \A p \in Procs : proc[p].ev \in 0..Len(events)
  BY TypedFacts DEF Knows
<1>2. proc' = proc
  BY DEF Provider, ChangePlan, Suspend, Resume, Cancel, NextPeriod, Buy, RefundOrder, vars
<1>3. \/ \E kind, n : Emits(kind, n)
      \/ events' = events /\ inbox' = inbox
  BY DEF Provider, ChangePlan, Suspend, Resume, Cancel, NextPeriod, Buy, RefundOrder, Becomes, vars, provider
<1>4. /\ Len(events') \in {Len(events), Len(events) + 1}
      /\ \A e \in 1..Len(events) : inbox'[e] = inbox[e]
      /\ \A e \in 1..Len(events') : e \in 1..Len(events) \/ inbox'[e] = NoRow
  <2>1. CASE events' = events /\ inbox' = inbox
    BY <1>1, <2>1
  <2>2. ASSUME NEW kind, NEW n, Emits(kind, n)
        PROVE  /\ Len(events') = Len(events) + 1
               /\ \A e \in 1..Len(events) : inbox'[e] = inbox[e]
               /\ inbox'[Len(events) + 1] = NoRow
    BY <1>1, <2>2 DEF Emits
  <2> QED BY <1>1, <1>3, <2>1, <2>2
<1>5. ASSUME NEW e \in 1..Len(events) PROVE Onward(e)
  BY <1>1, <1>4, BillingAssumption DEF Onward, Rows
<1>6. \A e \in 1..Len(events') : inbox'[e].status \in {"NONE", "RECEIVED"} => inbox'[e].attempts = 0
  BY <1>4 DEF Owned, NoRow
<1>7. \A p \in Procs : proc[p].ev # 0 =>
        inbox'[proc[p].ev].status = IF proc[p].pc = "claim" THEN "RECEIVED" ELSE "PROCESSING"
  <2>1. ASSUME NEW p \in Procs, proc[p].ev # 0 PROVE inbox'[proc[p].ev] = inbox[proc[p].ev]
    BY <1>1, <1>4, <2>1
  <2> QED BY <2>1 DEF Owned
<1> QED BY <1>1, <1>2, <1>4, <1>5, <1>6, <1>7 DEF Owned

LEMMA OnwardNext ==
  ASSUME Typed, Owned, [Next]_vars
  PROVE  /\ Owned' /\ Len(events) <= Len(events')
         /\ \A e \in 1..Len(events) : Onward(e)
PROOF
<1>1. CASE Provider \/ UNCHANGED vars
  BY <1>1, OnwardProvider
<1>2. SUFFICES ASSUME ~ (Provider \/ UNCHANGED vars)
      PROVE  Owned' /\ \A e \in 1..Len(events) : Onward(e)
  <2>1. ~ (Provider \/ UNCHANGED vars) => events' = events
    <3> SUFFICES ASSUME ~ (Provider \/ UNCHANGED vars) PROVE events' = events
      OBVIOUS
    <3> QED BY DEF Next, Continues, Retry, Reconcile, Deliver, Claim, Mint, Refund, Mark, Fetch, Find, WriteRow, List,
                   EndGrant, Cover, Packs, Shelve, Unanswered, Refused, Crash, provider
  <2>2. Len(events) \in Nat
    BY TypedFacts
  <2> QED BY <1>1, <2>1, <2>2
<1>3. CASE Retry
  BY <1>3, OnwardRetry
<1>4. CASE Reconcile
  <2>1. PICK p \in Procs : p = "reconcile"
    BY ProcNames
  <2>2. proc[p] \in ProcType /\ proc \in [Procs -> ProcType] /\ local \in Nat /\ proc[p].ev = 0
    BY <2>1, TypedFacts DEF Typed, Tables, Owned
  <2>3. PICK k \in ProcType : k = [proc[p] EXCEPT !.pc = "fetch", !.state = local]
    <3>1. [proc[p] EXCEPT !.pc = "fetch", !.state = local] \in ProcType
      BY <2>2 DEF ProcType, Pcs
    <3> QED BY <3>1
  <2>4. k.ev = 0 /\ proc' = [proc EXCEPT ![p] = k] /\ events' = events /\ inbox' = inbox
    BY <1>4, <2>1, <2>2, <2>3 DEF ProcType, Reconcile, provider
  <2> QED BY <2>4, OnwardQuiet
<1>5. ASSUME NEW p \in Procs, Deliver(p) \/ Continues(p) \/ Unanswered(p) \/ Refused(p) \/ Crash(p)
      PROVE  Owned' /\ \A e \in 1..Len(events) : Onward(e)
  <2>1. proc[p] \in ProcType /\ proc \in [Procs -> ProcType]
    BY TypedFacts DEF Typed
  <2>2. ASSUME NEW k \in ProcType, proc' = [proc EXCEPT ![p] = k], proc[p].pc # "claim", k.pc # "claim",
               k.ev \in {0, proc[p].ev}, events' = events, inbox' = inbox
        PROVE  Owned' /\ \A e \in 1..Len(events) : Onward(e)
    BY <2>2, OnwardQuiet
  <2>3. ASSUME NEW pc \in Pcs \ {"claim"}, Goes(p, pc), proc[p].pc # "claim", events' = events, inbox' = inbox
        PROVE  Owned' /\ \A e \in 1..Len(events) : Onward(e)
    <3>1. PICK k \in ProcType : proc' = [proc EXCEPT ![p] = k] /\ k.pc = pc /\ k.ev = proc[p].ev
      BY <2>3, Going
    <3> QED BY <2>2, <2>3, <3>1
  <2>p. ASSUME ToPacks(p), proc[p].pc # "claim", events' = events, inbox' = inbox
        PROVE  Owned' /\ \A e \in 1..Len(events) : Onward(e)
    <3>1. PICK k \in ProcType : proc' = [proc EXCEPT ![p] = k] /\ k.pc = "packs" /\ k.ev = proc[p].ev
      BY <2>p, TypedFacts, GoingToPacks
    <3> QED BY <2>2, <2>p, <3>1
  <2>4. ASSUME NEW n \in Nat, Finds(p, n), proc[p].pc # "claim", events' = events, inbox' = inbox
        PROVE  Owned' /\ \A e \in 1..Len(events) : Onward(e)
    <3>1. PICK k \in ProcType : proc' = [proc EXCEPT ![p] = k] /\ k.pc = "write" /\ k.ev = proc[p].ev
      BY <2>4, Finding
    <3> QED BY <2>2, <2>4, <3>1
  <2>5. ASSUME Synced(p), proc[p].pc # "claim", events' = events, inbox' = inbox
        PROVE  Owned' /\ \A e \in 1..Len(events) : Onward(e)
    <3>1. PICK k \in ProcType : /\ proc' = [proc EXCEPT ![p] = k] /\ k.pc \in {"idle", "mark"}
                                /\ k.ev \in {0, proc[p].ev}
      BY <2>5, Syncing
    <3> QED BY <2>2, <2>5, <3>1
  <2>6. ASSUME Leaves(p), events' = events, inbox' = inbox
        PROVE  Owned' /\ \A e \in 1..Len(events) : Onward(e)
    <3>1. proc' = [proc EXCEPT ![p] = Idle] /\ Idle \in ProcType /\ Idle.ev = 0
      BY <2>6, IdleOK DEF Leaves
    <3> QED BY <2>6, <3>1, OnwardQuiet
  <2>7. CASE Deliver(p)
    BY <2>7, OnwardDeliver
  <2>8. CASE Claim(p)
    BY <2>8, OnwardClaim
  <2>9. CASE Mint(p)
    BY <2>9, <2>5, OnwardFail DEF Mint, provider
  <2>10. CASE Mark(p)
    <3>1. p # "reconcile"
      BY <2>10, TypedFacts DEF Mark, Knows
    <3> QED BY <2>10, <3>1, OnwardEnd DEF Mark, provider
  <2>11. CASE Fetch(p)
    <3>1. CASE Leaves(p)
      BY <2>11, <3>1, <2>6 DEF Fetch, provider
    <3>2. CASE proc' = [proc EXCEPT ![p].pc = "find", ![p].state = Len(issued)]
      <4>1. PICK k \in ProcType : k = [proc[p] EXCEPT !.pc = "find", !.state = Len(issued)]
        <5>1. [proc[p] EXCEPT !.pc = "find", !.state = Len(issued)] \in ProcType
          BY <2>1, TypedFacts DEF ProcType, Pcs
        <5> QED BY <5>1
      <4>2. proc' = [proc EXCEPT ![p] = k] /\ k.pc = "find" /\ k.ev = proc[p].ev
        BY <2>1, <3>2, <4>1 DEF ProcType
      <4> QED BY <2>2, <2>11, <4>2 DEF Fetch, provider
    <3> QED BY <2>11, <3>1, <3>2 DEF Fetch
  <2>12. CASE Find(p)
    <3>1. proc[p].state \in Nat
      BY <2>1 DEF ProcType
    <3> QED BY <2>12, <3>1, <2>4 DEF Find, provider
  <2>13. CASE WriteRow(p)
    <3>1. "list" \in Pcs \ {"claim"}
      BY DEF Pcs
    <3> QED BY <2>13, <3>1, <2>3, OnwardFail DEF WriteRow, provider
  <2>14. CASE List(p)
    <3>1. CASE ToPacks(p)
      BY <2>14, <3>1, <2>p DEF List, provider
    <3>2. CASE ~ ToPacks(p)
      <4> DEFINE stale == {g \in OpenAt(proc[p].at) : ~ Covers(g, Heard(p))}
                 k     == [proc[p] EXCEPT !.new = FALSE, !.stale = stale, !.cover = (OpenAt(proc[p].at) = stale),
                             !.pc = IF stale # {} THEN "end" ELSE IF OpenAt(proc[p].at) = {} THEN "cover" ELSE "packs"]
      <4>1. stale \in SUBSET Grants
        BY DEF Typed, Tables, OpenAt
      <4>2. k \in ProcType /\ k.pc # "claim" /\ k.ev = proc[p].ev
        BY <2>1, <4>1 DEF ProcType, Pcs
      <4>3. proc' = [proc EXCEPT ![p] = k] /\ events' = events /\ inbox' = inbox /\ proc[p].pc # "claim"
        BY <2>14, <3>2 DEF List, provider
      <4> HIDE DEF k, stale
      <4> QED BY <2>2, <4>2, <4>3
    <3> QED BY <3>1, <3>2
  <2>15. CASE EndGrant(p)
    <3>1. PICK g \in proc[p].stale :
            proc' = [proc EXCEPT ![p] =
              [@ EXCEPT !.stale = proc[p].stale \ {g}, !.pc = IF proc[p].stale # {g} THEN "end"
                                                 ELSE IF proc[p].cover THEN "cover" ELSE "packs"]]
      BY <2>15 DEF EndGrant
    <3>2. PICK k \in ProcType :
            k = [proc[p] EXCEPT !.stale = proc[p].stale \ {g}, !.pc = IF proc[p].stale # {g} THEN "end"
                                                 ELSE IF proc[p].cover THEN "cover" ELSE "packs"]
      <4>1. [proc[p] EXCEPT !.stale = proc[p].stale \ {g}, !.pc = IF proc[p].stale # {g} THEN "end"
                                                 ELSE IF proc[p].cover THEN "cover" ELSE "packs"] \in ProcType
        BY <2>1 DEF ProcType, Pcs
      <4> QED BY <4>1
    <3>3. proc' = [proc EXCEPT ![p] = k] /\ k.pc # "claim" /\ k.ev = proc[p].ev
      BY <2>1, <3>1, <3>2 DEF ProcType
    <3> QED BY <2>2, <2>15, <3>3 DEF EndGrant, provider
  <2>16. CASE Cover(p)
    BY <2>16, <2>p, <2>6 DEF Cover, provider
  <2>17. CASE Packs(p)
    <3>1. "shelve" \in Pcs \ {"claim"}
      BY DEF Pcs
    <3> QED BY <2>17, <3>1, <2>3, <2>5 DEF Packs, provider
  <2>18. CASE Shelve(p)
    BY <2>18, <2>5 DEF Shelve, provider
  <2>19. CASE Unanswered(p)
    <3>1. CASE p \in Hooks
      <4>1. proc[p].ev \in 1..Len(events)
        BY <2>19, <3>1, TypedFacts, ProcNames DEF Unanswered, Knows
      <4>2. events[proc[p].ev].state \in Nat
        BY <4>1, TypedFacts DEF Events
      <4> QED BY <2>19, <3>1, <4>2, <2>4 DEF Unanswered, provider
    <3>2. CASE p \notin Hooks
      BY <2>19, <3>2, OnwardFail DEF Unanswered, provider
    <3> QED BY <3>1, <3>2
  <2>20. CASE Refused(p)
    BY <2>20, OnwardFail DEF Refused, provider
  <2>21. CASE Crash(p)
    BY <2>21, <2>6 DEF Crash, provider
  <2>22. CASE Refund(p)
    <3>1. events' = events /\ inbox' = inbox /\ Synced(p) /\ proc[p].pc # "claim"
      BY <2>22 DEF Refund, provider
    <3> QED BY <3>1, <2>5
  <2> QED BY <1>5, <2>7, <2>8, <2>9, <2>10, <2>11, <2>12, <2>13, <2>14, <2>15, <2>16, <2>17, <2>18,
             <2>19, <2>20, <2>21, <2>22 DEF Continues
<1> QED BY <1>2, <1>3, <1>4, <1>5 DEF Next

\* The inbox settles each event once and for good.  However webhooks, the
\* retry of stuck rows, failures and dead processes interleave: a row never goes
\* back, its attempts are not taken back, a settled row is never touched again,
\* and only the one process that has the event at hand changes its row.
THEOREM InboxGoesOnward == Spec => InboxOnward
PROOF
<1>1. Init => Owned
  BY ProcNames, IdleOK DEF Init, Owned, NoRow
<1>2. Typed /\ Owned /\ [Next]_vars => Owned' /\ [Len(events) <= Len(events') /\ \A e \in 1..Len(events) : Onward(e)]_vars
  BY OnwardNext
<1>3. Inv => Typed
  BY DEF Inv
<1>4. Spec => []Owned
  BY <1>1, <1>2, <1>3, AlwaysInv, PTL DEF Spec
<1> QED BY <1>2, <1>3, <1>4, AlwaysInv, PTL DEF Spec, InboxOnward

-----------------------------------------------------------------------------
(* What one round of the reconciliation achieves *)

\* The provider charges ahead: an active subscription has time left.
ChargedAhead == Latest.status = "ACTIVE" /\ Latest.until # NoEnd => Latest.until > now

LEMMA AppendLatest ==
  ASSUME Typed, NEW s \in Snapshots, NEW kind, Becomes(s, kind)
  PROVE  Latest' = s
PROOF
<1>1. issued \in Seq(Snapshots) /\ issued' = Append(issued, s)
  BY TypedFacts DEF Becomes
<1> QED BY <1>1 DEF Latest

LEMMA ChargedAheadProvider ==
  ASSUME Typed, ChargedAhead, Provider
  PROVE  ChargedAhead'
PROOF
<1>1. Latest \in Snapshots /\ now \in Nat /\ NoEnd = 0
  BY TypedFacts DEF Typed, Tables, Latest, NoEnd
<1>2. Latest'.status = "ACTIVE" /\ Latest'.until # NoEnd => Latest'.until > now'
  <2>1. CASE ChangePlan
    <3> DEFINE s == [Latest EXCEPT !.plan = IF @ = "TEAM" THEN "GROWTH" ELSE "TEAM"]
    <3>1. s \in Snapshots /\ s.until = Latest.until /\ s.status = Latest.status
      BY <1>1 DEF Snapshots
    <3>2. Latest' = s /\ now' = now /\ Latest.status = "ACTIVE"
      BY <2>1, <3>1, AppendLatest DEF ChangePlan
    <3> QED BY <3>1, <3>2 DEF ChargedAhead
  <2>2. CASE Suspend
    <3>1. PICK st \in {"UNPAID", "PAUSED"} : Becomes([Latest EXCEPT !.status = st], "other")
      BY <2>2 DEF Suspend
    <3>2. [Latest EXCEPT !.status = st] \in Snapshots /\ [Latest EXCEPT !.status = st].status = st
      BY <1>1 DEF Snapshots, Statuses
    <3>3. Latest' = [Latest EXCEPT !.status = st]
      BY <3>1, <3>2, AppendLatest
    <3> QED BY <3>2, <3>3
  <2>3. CASE Resume
    <3> DEFINE u == IF Endless THEN NoEnd ELSE now + 1
               s == [Latest EXCEPT !.status = "ACTIVE", !.until = u]
    <3>1. u \in Nat /\ (u # NoEnd => u > now)
      BY <1>1
    <3>2. s \in Snapshots /\ s.until = u
      <4> HIDE DEF u
      <4> QED BY <1>1, <3>1 DEF Snapshots, Statuses
    <3>3. Latest' = s /\ now' = now
      BY <2>3, <3>2, AppendLatest DEF Resume
    <3> HIDE DEF s, u
    <3> QED BY <3>1, <3>2, <3>3
  <2>4. CASE Cancel
    <3> DEFINE s == [Latest EXCEPT !.status = "CANCELLED"]
    <3>1. s \in Snapshots /\ s.status = "CANCELLED"
      BY <1>1 DEF Snapshots, Statuses
    <3>2. Latest' = s
      BY <2>4, <3>1, AppendLatest DEF Cancel
    <3> QED BY <3>1, <3>2
  <2>5. CASE NextPeriod
    <3>1. CASE Latest.status = "ACTIVE"
      <4> DEFINE s == [Latest EXCEPT !.until = now + 2]
      <4>1. s \in Snapshots /\ s.until = now + 2
        BY <1>1 DEF Snapshots
      <4>2. Latest' = s /\ now' = now + 1
        BY <2>5, <3>1, <4>1, AppendLatest DEF NextPeriod
      <4> QED BY <1>1, <4>1, <4>2
    <3>2. CASE Latest.status # "ACTIVE"
      BY <2>5, <3>2 DEF NextPeriod, Latest
    <3> QED BY <3>1, <3>2
  <2>6. CASE Buy \/ RefundOrder
    <3>1. issued' = issued /\ now' = now
      BY <2>6 DEF Buy, RefundOrder
    <3> QED BY <3>1 DEF ChargedAhead, Latest
  <2> QED BY <2>1, <2>2, <2>3, <2>4, <2>5, <2>6 DEF Provider
<1> QED BY <1>2 DEF ChargedAhead

LEMMA ChargedAheadNext ==
  ASSUME Inv, ChargedAhead, [Next]_vars
  PROVE  ChargedAhead'
PROOF
<1>a. Typed
  BY DEF Inv
<1>1. CASE Provider
  BY <1>a, <1>1, ChargedAheadProvider
<1>2. CASE UNCHANGED <<issued, now>>
  BY <1>2 DEF ChargedAhead, Latest
<1>3. ASSUME NEW p \in Procs, Deliver(p) \/ Continues(p) \/ Unanswered(p) \/ Refused(p) \/ Crash(p)
      PROVE  UNCHANGED <<issued, now>>
  BY <1>3 DEF Continues, Deliver, Claim, Mint, Refund, Mark, Fetch, Find, WriteRow, List, EndGrant, Cover,
     Packs, Shelve, Unanswered, Refused, Crash, provider
<1>4. Retry \/ Reconcile \/ UNCHANGED vars => UNCHANGED <<issued, now>>
  BY DEF Retry, Reconcile, vars, provider
<1> QED BY <1>1, <1>2, <1>3, <1>4 DEF Next

LEMMA ChargedAheadInit == Init => ChargedAhead
PROOF
<1> SUFFICES ASSUME Init PROVE ChargedAhead
  OBVIOUS
<1>1. issued = <<First>> /\ now = 0
  BY DEF Init
<1>2. Latest = First
  BY <1>1 DEF Latest
<1> QED BY <1>1, <1>2 DEF ChargedAhead, First, NoEnd

\* Nobody but the reconciliation is at work.
Quiet == \A p \in Procs \ {"reconcile"} : proc[p].pc = "idle"
Round == proc["reconcile"]

\* listReconcileCandidates() passes the row over: there is none, or it says
\* paused or cancelled.
WrittenOff == local = 0 \/ issued[local].status \notin {"ACTIVE", "UNPAID"}

\* The reconciliation brings a round to its end.
RoundEnds == (Packs("reconcile") \/ Shelve("reconcile")) /\ proc'["reconcile"].pc = "idle"

\* The open windows are those of the subscription as it is at the provider.
Fits     == Latest.status = "ACTIVE" => OpenAt(now) # {} /\ \A g \in OpenAt(now) : Covers(g, Latest)
UpToDate == local = Len(issued)
Followed == UpToDate /\ Fits
Outdated == {g \in OpenAt(now) : ~ Covers(g, Latest)}

\* A round that began, or looked the subscription up, when all was quiet, and
\* what it has achieved so far.
Fresh ==
  /\ Round.pc # "idle" => local # 0
  /\ Round.pc \in Syncs => Round.state = Len(issued)
  /\ Round.pc = "write" => Round.at = now /\ ~ Round.new
  /\ Round.pc \in Wrote => UpToDate
  /\ Round.pc \in {"list", "end", "cover"} => Round.at = now
  /\ Round.pc = "end" => /\ Latest.status = "ACTIVE" /\ Round.stale = Outdated
                         /\ Round.cover <=> (Outdated = OpenAt(now))
  /\ Round.pc = "cover" => Latest.status = "ACTIVE" /\ OpenAt(now) = {}
  /\ Round.pc \in {"packs", "shelve"} => Fits

\* The steps there are when all is quiet.
LEMMA QuietSteps ==
  ASSUME Inv, Quiet, Quiet', [Next]_vars
  PROVE  \/ UNCHANGED <<local, grants, proc>>
         \/ proc'["reconcile"].pc = "idle" /\ UNCHANGED <<local, grants>>
         \/ Reconcile
         \/ LET p == "reconcile"
            IN  Fetch(p) \/ Find(p) \/ WriteRow(p) \/ List(p) \/ EndGrant(p) \/ Cover(p) \/ Packs(p)
PROOF
<1>a. /\ proc \in [Procs -> ProcType] /\ "reconcile" \in Procs /\ "retry" \in Procs
      /\ "reconcile" \notin Hooks /\ "retry" # "reconcile" /\ Hooks \subseteq Procs
      /\ Knows("reconcile", Round) /\ Idle.pc = "idle"
  BY ProcNames, TypedFacts, IdleOK DEF Inv, Typed, Round
<1>1. CASE Provider
  BY <1>1 DEF Provider, ChangePlan, Suspend, Resume, Cancel, NextPeriod, Buy, RefundOrder
<1>2. CASE Retry
  <2>1. proc'["retry"].pc \in {"mark", "fetch"}
    <3>1. proc["retry"] \in ProcType
      BY <1>a
    <3> QED BY <1>2, <1>a, <3>1 DEF Retry, ProcType
  <2> QED BY <2>1, <1>a DEF Quiet
<1>3. ASSUME NEW p \in Procs \ {"reconcile"},
             Deliver(p) \/ Continues(p) \/ Unanswered(p) \/ Refused(p) \/ Crash(p)
      PROVE  FALSE
  <2>1. proc[p].pc = "idle" /\ proc'[p].pc = "idle" /\ proc[p] \in ProcType
    BY <1>a DEF Quiet
  <2>2. CASE Deliver(p)
    <3>1. PICK e \in 1..Len(events) : proc' = [proc EXCEPT ![p].pc = "claim", ![p].ev = e]
      BY <2>2 DEF Deliver
    <3>2. proc'[p].pc = "claim"
      BY <1>a, <2>1, <3>1 DEF ProcType
    <3> QED BY <2>1, <3>2
  <2> QED BY <1>3, <2>1, <2>2 DEF Continues, Claim, Mint, Refund, Mark, Fetch, Find, WriteRow, List, EndGrant,
          Cover, Packs, Shelve, Unanswered, Refused, Crash
<1>4. CASE Unanswered("reconcile") \/ Refused("reconcile") \/ Crash("reconcile")
  <2>1. Leaves("reconcile") /\ UNCHANGED <<local, grants>>
    BY <1>4, <1>a DEF Unanswered, Refused, Crash, Fails
  <2> QED BY <1>a, <2>1 DEF Leaves
<1>5. CASE Shelve("reconcile")
  <2>1. Leaves("reconcile") /\ UNCHANGED <<local, grants>>
    BY <1>5 DEF Shelve, Synced
  <2> QED BY <1>a, <2>1 DEF Leaves
<1>6. ~ Deliver("reconcile") /\ ~ Claim("reconcile") /\ ~ Mint("reconcile") /\ ~ Refund("reconcile")
      /\ ~ Mark("reconcile")
  BY <1>a DEF Deliver, Claim, Mint, Refund, Mark, Knows, Round
<1>7. CASE UNCHANGED vars
  BY <1>7 DEF vars
<1> QED BY <1>1, <1>2, <1>3, <1>4, <1>5, <1>6, <1>7 DEF Next, Continues

\* A quiet step of the reconciliation, in the subscription's current period.
Calm == Inv /\ ChargedAhead /\ Quiet /\ Quiet' /\ UNCHANGED <<issued, now>>

LEMMA CalmFacts ==
  ASSUME Calm
  PROVE  /\ Round \in ProcType /\ proc \in [Procs -> ProcType] /\ "reconcile" \in Procs
         /\ Len(issued) \in Nat \ {0} /\ now \in Nat /\ NoEnd = 0
         /\ Latest \in Snapshots /\ Latest = issued[Len(issued)]
         /\ Knows("reconcile", Round) /\ Typed
         /\ Latest' = Latest /\ issued' = issued /\ now' = now
PROOF BY ProcNames, TypedFacts DEF Calm, Inv, Typed, Tables, Round, Latest, NoEnd

\* Where the rows stay, so does what was achieved.
LEMMA FitsKept ==
  ASSUME Calm, UNCHANGED grants
  PROVE  Fits' = Fits /\ Outdated' = Outdated /\ OpenAt(now)' = OpenAt(now)
PROOF
<1>1. Latest' = Latest /\ now' = now
  BY CalmFacts
<1>2. OpenAt(now)' = OpenAt(now)
  BY <1>1 DEF OpenAt
<1> QED BY <1>1, <1>2 DEF Fits, Outdated

LEMMA FreshWrite ==
  ASSUME Calm, Fresh, Reconcile \/ Fetch("reconcile") \/ Find("reconcile") \/ WriteRow("reconcile")
  PROVE  Fresh' /\ (Followed => Followed')
PROOF
<1>a. /\ Round \in ProcType /\ proc \in [Procs -> ProcType] /\ "reconcile" \in Procs
      /\ Round = proc["reconcile"] /\ issued' = issued /\ now' = now
  BY CalmFacts DEF Round
<1>g. UNCHANGED grants
  BY DEF Reconcile, Fetch, Find, WriteRow
<1>k. Fits' = Fits
  BY <1>g, FitsKept
<1>1. CASE Reconcile
  <2>1. Round' = [Round EXCEPT !.pc = "fetch", !.state = local] /\ local' = local /\ local # 0
    BY <1>1, <1>a DEF Reconcile, Round
  <2>2. Round'.pc = "fetch"
    BY <1>a, <2>1 DEF ProcType
  <2> QED BY <1>a, <1>k, <2>1, <2>2 DEF Fresh, Followed, UpToDate, Syncs, Wrote
<1>2. CASE Fetch("reconcile")
  <2>1. local' = local /\ Round.pc = "fetch"
    BY <1>2, <1>a DEF Fetch
  <2>2. CASE Round' = Idle
    BY <1>a, <1>k, <2>1, <2>2, IdleOK DEF Fresh, Followed, UpToDate, Syncs, Wrote
  <2>3. CASE Round' = [Round EXCEPT !.pc = "find", !.state = Len(issued)]
    <3>1. Round'.pc = "find" /\ Round'.state = Len(issued)
      BY <1>a, <2>3 DEF ProcType
    <3> QED BY <1>a, <1>k, <2>1, <3>1 DEF Fresh, Followed, UpToDate, Syncs, Wrote
  <2>4. Round' = Idle \/ Round' = [Round EXCEPT !.pc = "find", !.state = Len(issued)]
    BY <1>2, <1>a DEF Fetch, Leaves, Round
  <2> QED BY <2>2, <2>3, <2>4
<1>3. CASE Find("reconcile")
  <2>1. local' = local /\ Round.pc = "find"
    BY <1>3, <1>a DEF Find
  <2>2. Round' = [Round EXCEPT !.pc = "write", !.state = Round.state, !.at = now, !.new = (local = 0)]
    BY <1>3, <1>a DEF Find, Finds, Round
  <2>3. Round'.pc = "write" /\ Round'.state = Round.state /\ Round'.at = now /\ Round'.new = (local = 0)
    BY <1>a, <2>2 DEF ProcType
  <2> QED BY <1>a, <1>k, <2>1, <2>3 DEF Fresh, Followed, UpToDate, Syncs, Wrote
<1>4. CASE WriteRow("reconcile")
  <2>1. Round.pc = "write" /\ ~ Round.new /\ Round.state = Len(issued) /\ Round.at = now /\ local # 0
    BY <1>4, <1>a DEF WriteRow, Fresh, Syncs
  <2>2. local' = Len(issued) /\ Round' = [Round EXCEPT !.pc = "list"]
    BY <1>4, <1>a, <2>1 DEF WriteRow, Goes, Round
  <2>3. Round'.pc = "list" /\ Round'.state = Round.state /\ Round'.at = Round.at
    BY <1>a, <2>2 DEF ProcType
  <2>4. local' # 0
    BY <2>2, CalmFacts
  <2> QED BY <1>a, <1>k, <2>1, <2>2, <2>3, <2>4 DEF Fresh, Followed, UpToDate, Syncs, Wrote
<1> QED BY <1>1, <1>2, <1>3, <1>4

LEMMA FreshList ==
  ASSUME Calm, Fresh, List("reconcile") \/ Packs("reconcile")
  PROVE  Fresh' /\ (Followed => Followed')
PROOF
<1>a. /\ Round \in ProcType /\ proc \in [Procs -> ProcType] /\ "reconcile" \in Procs
      /\ Round = proc["reconcile"] /\ issued' = issued /\ now' = now /\ Latest' = Latest
      /\ Latest = issued[Len(issued)]
  BY CalmFacts DEF Round
<1>g. UNCHANGED <<grants, local>>
  BY DEF List, Packs
<1>k. Fits' = Fits /\ Outdated' = Outdated /\ OpenAt(now)' = OpenAt(now)
  BY <1>g, FitsKept
<1>f. Followed => Followed'
  BY <1>a, <1>g, <1>k DEF Followed, UpToDate
<1>1. CASE List("reconcile")
  <2>1. /\ Round.pc = "list" /\ Round.state = Len(issued) /\ Round.at = now /\ UpToDate /\ local # 0
        /\ Heard("reconcile") = Latest
    BY <1>1, <1>a DEF List, Fresh, Syncs, Wrote, Heard
  <2>2. CASE Latest.status # "ACTIVE"
    <3>1. Round' = [Round EXCEPT !.pc = "packs", !.at = 0, !.new = FALSE, !.cover = FALSE]
      BY <1>1, <1>a, <2>1, <2>2 DEF List, ToPacks, Round
    <3>2. Round'.pc = "packs" /\ Round'.state = Round.state
      BY <1>a, <3>1 DEF ProcType
    <3>3. Fits
      BY <2>2 DEF Fits
    <3> QED BY <1>a, <1>f, <1>g, <1>k, <2>1, <3>2, <3>3 DEF Fresh, UpToDate, Syncs, Wrote
  <2>3. CASE Latest.status = "ACTIVE"
    <3> DEFINE pc == IF Outdated # {} THEN "end" ELSE IF OpenAt(now) = {} THEN "cover" ELSE "packs"
               c  == (OpenAt(now) = Outdated)
    <3>1. Round' = [Round EXCEPT !.new = FALSE, !.stale = Outdated, !.cover = c, !.pc = pc]
      <4> DEFINE open  == OpenAt(Round.at)
                 stale == {g \in open : ~ Covers(g, Heard("reconcile"))}
      <4>1. stale = Outdated /\ open = OpenAt(now)
        BY <2>1 DEF Outdated
      <4>2. Heard("reconcile").status = "ACTIVE"
        BY <2>1, <2>3
      <4>3. Round' = [Round EXCEPT !.new = FALSE, !.stale = stale, !.cover = (open = stale),
                        !.pc = IF stale # {} THEN "end" ELSE IF open = {} THEN "cover" ELSE "packs"]
        BY <1>1, <1>a, <4>2 DEF List, Round
      <4> HIDE DEF open, stale
      <4> QED BY <4>1, <4>3
    <3>2. /\ pc = "end" \/ (pc = "cover" /\ OpenAt(now) = {}) \/ (pc = "packs" /\ Fits)
          /\ c <=> (Outdated = OpenAt(now))
      BY DEF Outdated, Fits
    <3> HIDE DEF pc, c
    <3>3. /\ Round'.pc = pc /\ Round'.state = Round.state /\ Round'.at = Round.at
          /\ Round'.stale = Outdated /\ Round'.cover = c
      BY <1>a, <3>1 DEF ProcType
    <3> QED BY <1>a, <1>f, <1>g, <1>k, <2>1, <2>3, <3>2, <3>3 DEF Fresh, UpToDate, Syncs, Wrote
  <2> QED BY <2>2, <2>3
<1>2. CASE Packs("reconcile")
  <2>1. /\ Round.pc = "packs" /\ Round.state = Len(issued) /\ UpToDate /\ local # 0
        /\ Fits
    BY <1>2, <1>a DEF Packs, Fresh, Syncs, Wrote
  <2>2. CASE Round' = Idle
    BY <1>f, <2>2, IdleOK DEF Fresh, Syncs, Wrote
  <2>3. CASE Round' = [Round EXCEPT !.pc = "shelve"]
    <3>1. Round'.pc = "shelve" /\ Round'.state = Round.state
      BY <1>a, <2>3 DEF ProcType
    <3> QED BY <1>a, <1>f, <1>g, <1>k, <2>1, <3>1 DEF Fresh, UpToDate, Syncs, Wrote
  <2>4. Round' = Idle \/ Round' = [Round EXCEPT !.pc = "shelve"]
    BY <1>2, <1>a DEF Packs, Synced, Leaves, Goes, Round
  <2> QED BY <2>2, <2>3, <2>4
<1> QED BY <1>1, <1>2

\* A window that does not fit is ended; others stay.
LEMMA FreshEnd ==
  ASSUME Calm, Fresh, EndGrant("reconcile")
  PROVE  Fresh' /\ (Followed => Followed')
PROOF
<1>a. /\ Round \in ProcType /\ proc \in [Procs -> ProcType] /\ "reconcile" \in Procs
      /\ Round = proc["reconcile"] /\ issued' = issued /\ now' = now /\ Latest' = Latest
  BY CalmFacts DEF Round
<1>1. /\ Round.pc = "end" /\ Round.state = Len(issued) /\ Round.at = now /\ UpToDate /\ local # 0
      /\ Latest.status = "ACTIVE" /\ Round.stale = Outdated
      /\ Round.cover <=> (Outdated = OpenAt(now))
  BY <1>a DEF EndGrant, Fresh, Syncs, Wrote
<1>2. PICK g \in Outdated :
        /\ grants' = grants \ {g}
        /\ Round' = [Round EXCEPT !.stale = Outdated \ {g},
                     !.pc = IF Outdated # {g} THEN "end" ELSE IF Round.cover THEN "cover" ELSE "packs"]
  BY <1>a, <1>1 DEF EndGrant, Round
<1>3. g \in grants /\ g \in OpenAt(now) /\ ~ Covers(g, Latest) /\ Outdated \subseteq OpenAt(now)
  BY DEF Outdated, OpenAt
<1>4. grants' = grants \ {g}
  BY <1>2, <1>3 DEF Calm, ChargedAhead
<1>5. OpenAt(now)' = OpenAt(now) \ {g}
  BY <1>a, <1>4 DEF OpenAt
<1>6. Outdated' = Outdated \ {g}
  BY <1>a, <1>5 DEF Outdated
<1>7. local' = local
  BY DEF EndGrant
<1>8. ~ Followed
  BY <1>1, <1>3 DEF Followed, Fits
<1> DEFINE pc == IF Outdated # {g} THEN "end" ELSE IF Round.cover THEN "cover" ELSE "packs"
<1>9. pc = "end" => (Round.cover <=> (Outdated' = OpenAt(now)'))
  BY <1>1, <1>2, <1>3, <1>5, <1>6
<1>10. pc = "cover" => OpenAt(now)' = {}
  BY <1>1, <1>5
<1>11. pc = "packs" => Fits'
  <2>1. SUFFICES ASSUME Outdated = {g}, ~ Round.cover PROVE Fits'
    OBVIOUS
  <2>2. PICK o \in OpenAt(now) : o \notin Outdated
    BY <1>1, <1>3, <2>1
  <2>3. o \in OpenAt(now)'
    BY <1>5, <2>1, <2>2
  <2>4. \A h \in OpenAt(now)' : Covers(h, Latest)
    BY <1>5, <2>1 DEF Outdated
  <2> QED BY <1>a, <2>3, <2>4 DEF Fits
<1>12. pc \in {"end", "cover", "packs"}
  OBVIOUS
<1>13. Round' = [Round EXCEPT !.stale = Outdated \ {g}, !.pc = pc]
  BY <1>2
<1> HIDE DEF pc
<1>14. /\ Round'.pc = pc /\ Round'.state = Round.state /\ Round'.at = Round.at
       /\ Round'.stale = Outdated \ {g} /\ Round'.cover = Round.cover
  BY <1>a, <1>13 DEF ProcType
<1> QED BY <1>a, <1>1, <1>6, <1>7, <1>8, <1>9, <1>10, <1>11, <1>12, <1>14
    DEF Fresh, UpToDate, Syncs, Wrote

\* Where no window is open, one of the subscription's plan and period is stored.
LEMMA FreshCover ==
  ASSUME Calm, Fresh, Cover("reconcile")
  PROVE  Fresh' /\ (Followed => Followed')
PROOF
<1>a. /\ Round \in ProcType /\ proc \in [Procs -> ProcType] /\ "reconcile" \in Procs
      /\ Round = proc["reconcile"] /\ issued' = issued /\ now' = now /\ Latest' = Latest
      /\ Latest = issued[Len(issued)] /\ Latest \in Snapshots /\ now \in Nat
  BY CalmFacts DEF Round
<1>1. /\ Round.pc = "cover" /\ Round.state = Len(issued) /\ Round.at = now /\ UpToDate /\ local # 0
      /\ Latest.status = "ACTIVE" /\ OpenAt(now) = {} /\ Heard("reconcile") = Latest
  BY <1>a DEF Cover, Fresh, Syncs, Wrote, Heard
<1>2. Latest.until \in Nat /\ (Latest.until # NoEnd => Latest.until > now)
  BY <1>a, <1>1 DEF Calm, ChargedAhead, Snapshots
<1> DEFINE w == [id |-> FreshId(Latest), plan |-> Latest.plan, until |-> Latest.until]
<1>3. /\ grants' = grants \cup {w} /\ local' = local
      /\ Round' = [Round EXCEPT !.pc = "packs", !.at = 0, !.new = FALSE, !.cover = FALSE]
  BY <1>a, <1>1, <1>2 DEF Cover, ToPacks, Round
<1>4. w.until = Latest.until /\ w.plan = Latest.plan
  OBVIOUS
<1> HIDE DEF w
<1>5. OpenAt(now)' = {w}
  BY <1>a, <1>1, <1>2, <1>3, <1>4 DEF OpenAt
<1>6. Fits'
  BY <1>a, <1>4, <1>5 DEF Fits, Covers
<1>7. Round'.pc = "packs" /\ Round'.state = Round.state
  BY <1>a, <1>3 DEF ProcType
<1> QED BY <1>a, <1>1, <1>3, <1>6, <1>7 DEF Fresh, Followed, UpToDate, Syncs, Wrote

LEMMA FreshNext ==
  ASSUME Calm, Fresh, [Next]_vars
  PROVE  Fresh' /\ (Followed => Followed')
PROOF
<1>1. CASE UNCHANGED <<local, grants, proc>>
  <2>1. Fits' = Fits /\ Outdated' = Outdated /\ OpenAt(now)' = OpenAt(now) /\ Latest' = Latest
        /\ issued' = issued /\ now' = now
    BY <1>1, FitsKept, CalmFacts
  <2> QED BY <1>1, <2>1 DEF Fresh, Followed, UpToDate, Round
<1>2. CASE proc'["reconcile"].pc = "idle" /\ UNCHANGED <<local, grants>>
  <2>1. Fits' = Fits /\ issued' = issued
    BY <1>2, FitsKept, CalmFacts
  <2> QED BY <1>2, <2>1 DEF Fresh, Followed, UpToDate, Round, Syncs, Wrote
<1> QED BY <1>1, <1>2, QuietSteps, FreshWrite, FreshList, FreshEnd, FreshCover DEF Calm

\* The row changes only when it is written, with what was looked up.
Late == Round.pc \in Wrote \cup {"mark"}

LEMMA RowChanges ==
  ASSUME Calm, [Next]_vars
  PROVE  /\ local' = local \/ (Round.pc = "write" /\ Round'.pc = "list" /\ local' = Round.state)
         /\ Late => Late' \/ Round'.pc = "idle"
PROOF
<1>a. /\ Round \in ProcType /\ proc \in [Procs -> ProcType] /\ "reconcile" \in Procs
      /\ Round = proc["reconcile"] /\ Idle.pc = "idle"
  BY CalmFacts, IdleOK DEF Round
<1>1. CASE UNCHANGED <<local, grants, proc>>
  BY <1>1 DEF Late, Round
<1>2. CASE proc'["reconcile"].pc = "idle" /\ UNCHANGED <<local, grants>>
  BY <1>2 DEF Round
<1>3. CASE Reconcile \/ Fetch("reconcile") \/ Find("reconcile")
  BY <1>3, <1>a DEF Reconcile, Fetch, Find, Late, Wrote
<1>4. CASE WriteRow("reconcile")
  <2>1. Round.pc = "write"
    BY <1>4, <1>a DEF WriteRow
  <2>2. CASE Round.new /\ local # 0
    BY <1>4, <1>a, <2>1, <2>2 DEF WriteRow, Late, Wrote
  <2>3. CASE ~ (Round.new /\ local # 0)
    <3>1. local' = Round.state /\ Round' = [Round EXCEPT !.pc = "list"]
      BY <1>4, <1>a, <2>3 DEF WriteRow, Goes, Round
    <3>2. Round'.pc = "list"
      BY <1>a, <3>1 DEF ProcType
    <3> QED BY <2>1, <3>1, <3>2 DEF Late, Wrote
  <2> QED BY <2>2, <2>3
<1>5. CASE List("reconcile")
  <2>1. local' = local
    BY <1>5 DEF List
  <2>2. CASE Heard("reconcile").status # "ACTIVE"
    <3>1. Round' = [Round EXCEPT !.pc = "packs", !.at = 0, !.new = FALSE, !.cover = FALSE]
      BY <1>5, <1>a, <2>2 DEF List, ToPacks, Round
    <3>2. Round'.pc = "packs"
      BY <1>a, <3>1 DEF ProcType
    <3> QED BY <2>1, <3>2 DEF Late, Wrote
  <2>3. CASE Heard("reconcile").status = "ACTIVE"
    <3> DEFINE open  == OpenAt(Round.at)
               stale == {g \in open : ~ Covers(g, Heard("reconcile"))}
               pc    == IF stale # {} THEN "end" ELSE IF open = {} THEN "cover" ELSE "packs"
    <3>1. Round' = [Round EXCEPT !.new = FALSE, !.stale = stale, !.cover = (open = stale), !.pc = pc]
      BY <1>5, <1>a, <2>3 DEF List, Round
    <3>2. pc \in {"packs", "end", "cover"}
      OBVIOUS
    <3> HIDE DEF open, stale, pc
    <3>3. Round'.pc = pc
      BY <1>a, <3>1 DEF ProcType
    <3> QED BY <2>1, <3>2, <3>3 DEF Late, Wrote
  <2> QED BY <2>2, <2>3
<1>6. CASE EndGrant("reconcile")
  <2>1. local' = local /\ Round.pc = "end"
    BY <1>6, <1>a DEF EndGrant
  <2>2. PICK g \in Round.stale : proc' = [proc EXCEPT !["reconcile"] =
          [@ EXCEPT !.stale = Round.stale \ {g},
                    !.pc = IF Round.stale # {g} THEN "end" ELSE IF Round.cover THEN "cover" ELSE "packs"]]
    BY <1>6 DEF EndGrant, Round
  <2> DEFINE pc   == IF Round.stale # {g} THEN "end" ELSE IF Round.cover THEN "cover" ELSE "packs"
             left == Round.stale \ {g}
  <2>3. Round' = [Round EXCEPT !.stale = left, !.pc = pc]
    BY <1>a, <2>2 DEF Round
  <2>4. pc \in {"packs", "end", "cover"}
    OBVIOUS
  <2> HIDE DEF left, pc
  <2>5. Round'.pc = pc
    BY <1>a, <2>3 DEF ProcType
  <2>6. Late'
    BY <2>4, <2>5 DEF Late, Wrote
  <2> QED BY <2>1, <2>6
<1>7. CASE Cover("reconcile") \/ Packs("reconcile")
  <2>1. local' = local
    BY <1>7 DEF Cover, Packs
  <2>2. \/ Round' = Idle
        \/ Round' = [Round EXCEPT !.pc = "packs", !.at = 0, !.new = FALSE, !.cover = FALSE]
        \/ Round' = [Round EXCEPT !.pc = "shelve"]
    BY <1>7, <1>a DEF Cover, Packs, Synced, Leaves, Goes, ToPacks, Round
  <2>3. CASE Round' = Idle
    BY <1>a, <2>1, <2>3
  <2>4. CASE Round' = [Round EXCEPT !.pc = "packs", !.at = 0, !.new = FALSE, !.cover = FALSE]
    <3>1. Round'.pc = "packs"
      BY <1>a, <2>4 DEF ProcType
    <3> QED BY <2>1, <3>1 DEF Late, Wrote
  <2>5. CASE Round' = [Round EXCEPT !.pc = "shelve"]
    <3>1. Round'.pc = "shelve"
      BY <1>a, <2>5 DEF ProcType
    <3> QED BY <2>1, <3>1 DEF Late, Wrote
  <2> QED BY <2>2, <2>3, <2>4, <2>5
<1> QED BY <1>1, <1>2, <1>3, <1>4, <1>5, <1>6, <1>7, QuietSteps DEF Calm

\* The provider leaves the subscription and its period as they are.
Stays == UNCHANGED <<issued, now>>

\* Once nobody else is at work and the provider leaves the subscription as it
\* is, the reconciliation makes good whatever went before -- events lost, late
\* or out of order, synchronisations cut off anywhere -- if its rounds get to an
\* end again and again, or it has the row written off.
THEOREM RoundsCatchUp ==
  /\ Spec
  /\ <>[]Quiet /\ <>[][Stays]_vars
  /\ []<>WrittenOff \/ []<><<RoundEnds>>_vars
  => ProviderIsFollowed
PROOF
<1> DEFINE Sane == Inv /\ ChargedAhead
           Good == /\ local # 0 /\ Latest.status = "CANCELLED" => issued[local].status # "ACTIVE"
                   /\ local # 0 /\ Latest.status = "ACTIVE" /\ issued[local].status \in {"ACTIVE", "UNPAID"} =>
                        OpenAt(now) # {} /\ \A g \in OpenAt(now) : Covers(g, Latest)
           Turn == Sane /\ Quiet /\ Quiet' /\ [Next]_vars /\ [Stays]_vars
<1>1. Init => ChargedAhead
  BY ChargedAheadInit
<1>2. Inv /\ ChargedAhead /\ [Next]_vars => ChargedAhead'
  BY ChargedAheadNext
<1>3. Turn => Calm /\ [Next]_vars
  BY DEF Calm, Stays, vars, provider
<1>4. Turn /\ Fresh => Fresh' /\ (Followed => Followed')
  BY <1>3, FreshNext
<1>5. <<RoundEnds>>_vars => Fresh'
  BY DEF RoundEnds, Fresh, Round, Syncs, Wrote
<1>6. Turn /\ Fresh /\ <<RoundEnds>>_vars => Followed'
  <2> SUFFICES ASSUME Calm, Fresh, RoundEnds PROVE Followed'
    BY <1>3
  <2>1. Round.pc \in {"packs", "shelve"} /\ UNCHANGED <<local, grants>>
    BY DEF RoundEnds, Packs, Shelve, Round
  <2>2. Fits' = Fits /\ issued' = issued
    BY <2>1, FitsKept, CalmFacts
  <2> QED BY <2>1, <2>2 DEF Fresh, Followed, UpToDate, Wrote
<1>7. Followed => Good
  BY DEF Followed, UpToDate, Fits, Latest
<1>8. WrittenOff => Good
  BY DEF WrittenOff
<1>9. Turn /\ local' = local => (WrittenOff' <=> WrittenOff)
  BY <1>3, CalmFacts DEF WrittenOff
<1>10. Turn /\ Fresh => /\ (WrittenOff' <=> WrittenOff) \/ UpToDate'
                        /\ UpToDate => UpToDate' /\ (WrittenOff' <=> WrittenOff)
  <2> SUFFICES ASSUME Turn, Fresh
               PROVE  local' = local \/ (local' = Len(issued) /\ issued' = issued)
    BY <1>3, <1>9, CalmFacts DEF UpToDate, WrittenOff
  <2> QED BY <1>3, RowChanges, CalmFacts DEF Fresh, Syncs
<1>11. Turn /\ ~ Fresh
          => /\ Late  => (Late' \/ Fresh') /\ (WrittenOff' <=> WrittenOff)
             /\ ~ Late => (WrittenOff' <=> WrittenOff) \/ Late'
  <2>1. Round'.pc = "idle" => Fresh'
    BY DEF Fresh, Syncs, Wrote
  <2>2. Round.pc = "write" => ~ Late
    BY DEF Late, Wrote
  <2>3. Round'.pc = "list" => Late'
    BY DEF Late, Wrote
  <2> QED BY <1>3, <1>9, <2>1, <2>2, <2>3, RowChanges
<1>12. ProviderIsFollowed <=> <>[]Good
  BY DEF ProviderIsFollowed
<1> HIDE DEF Good
<1> QED BY <1>1, <1>2, <1>4, <1>5, <1>6, <1>7, <1>8, <1>10, <1>11, <1>12,
       AlwaysInv, PTL DEF Spec

=============================================================================
