------------------------ MODULE ReportLifecycleProofs ------------------------
(***************************************************************************)
(* Theorems about ReportLifecycle, for any number of drafts and calls.     *)
(***************************************************************************)
EXTENDS ReportLifecycle, TLAPS

CallType      == [op : Ops \cup {"none"}, pc : CallPc, d : Drafts,
                  seen : [Drafts -> Rows], todo : SUBSET Drafts, period : Periods]
NarrationType == [pc : {"none", "running", "finish"}, period : Periods]

(***************************************************************************)
(* Types                                                                   *)
(***************************************************************************)

\* The rows and entities the handlers start from have their types.
LEMMA ConstantTypes ==
  /\ Absent \in Rows /\ Fresh \in Rows /\ Nothing \in [Drafts -> Rows]
  /\ NewPeriod \in Periods /\ Quiet \in NarrationType /\ Idle \in CallType /\ 1 \in Drafts
PROOF
<1>1. 1 \in Drafts
  BY LifecycleAssumption DEF Drafts
<1>2. Absent \in Rows /\ Fresh \in Rows /\ NewPeriod \in Periods
  BY DEF Absent, Fresh, Rows, DraftStatuses, NewPeriod, Periods, PeriodStatuses
<1>3. Nothing \in [Drafts -> Rows] /\ Quiet \in NarrationType
  BY <1>2 DEF Nothing, Quiet, NarrationType
<1>4. Idle \in CallType
  BY <1>1, <1>2, <1>3 DEF Idle, CallType, CallPc
<1> QED BY <1>1, <1>2, <1>3, <1>4

\* advanceStatus() yields a period again, and keeps the cancellation.
LEMMA AdvancedType ==
  ASSUME NEW p \in Periods, NEW s \in PeriodStatuses
  PROVE  Advanced(p, s) \in Periods /\ Advanced(p, s).status \in {p.status, s}
PROOF
  BY DEF Advanced, Periods

\* What drafts.update() leaves in the row, and that the others are untouched.
LEMMA StoresRow ==
  ASSUME draft \in [Drafts -> Rows], NEW d \in Drafts, NEW r \in Rows, Stores(d, r)
  PROVE  /\ draft' \in [Drafts -> Rows]
         /\ draft'[d].status = r.status
         /\ draft'[d].superseded = (draft[d].superseded \/ r.superseded)
         /\ \A e \in Drafts \ {d} : draft'[e] = draft[e]
PROOF
<1>1. draft' = [draft EXCEPT ![d] = [status |-> r.status,
                                     superseded |-> draft[d].superseded \/ r.superseded]]
  BY DEF Stores
<1>2. r.status \in DraftStatuses /\ r.superseded \in BOOLEAN /\ draft[d].superseded \in BOOLEAN
  BY DEF Rows
<1>3. [status |-> r.status, superseded |-> draft[d].superseded \/ r.superseded] \in Rows
  BY <1>2 DEF Rows
<1> QED BY <1>1, <1>2, <1>3

\* A handler that writes back a row it has seen changes one field of it.
LEMMA SeenRow ==
  ASSUME NEW k \in CallType, NEW d \in Drafts, NEW s \in DraftStatuses
  PROVE  /\ k.seen[d] \in Rows
         /\ [k.seen[d] EXCEPT !.superseded = TRUE] \in Rows
         /\ [k.seen[d] EXCEPT !.superseded = FALSE] \in Rows
         /\ [k.seen[d] EXCEPT !.superseded = TRUE].status = k.seen[d].status
         /\ [k.seen[d] EXCEPT !.superseded = FALSE].status = k.seen[d].status
         /\ [k.seen[d] EXCEPT !.superseded = TRUE].superseded
         /\ [k.seen[d] EXCEPT !.status = s] \in Rows
         /\ [k.seen[d] EXCEPT !.status = s].status = s
PROOF
<1>1. k.seen[d] \in Rows
  BY DEF CallType
<1> QED BY <1>1 DEF Rows

\* A call's step keeps the types.
LEMMA CallStepType ==
  ASSUME TypeOK, NEW c \in Calls, CallStep(c)
  PROVE  TypeOK'
PROOF
<1> USE DEF TypeOK
<1>k. call \in [Calls -> CallType] /\ call[c] \in CallType /\ narration \in [Drafts -> NarrationType]
  BY DEF CallType, NarrationType
<1>i. Idle \in CallType /\ Nothing \in [Drafts -> Rows]
  BY ConstantTypes
<1>1. SUFFICES /\ draft' \in [Drafts -> Rows] /\ period' \in Periods
               /\ call' \in [Calls -> CallType] /\ narration' \in [Drafts -> NarrationType]
               /\ calls' \in Nat /\ reviewed' \subseteq Drafts /\ approved' \subseteq Drafts
  BY DEF CallType, NarrationType
<1>b. ASSUME NEW rec \in CallType, Becomes(c, rec) PROVE call' \in [Calls -> CallType]
  BY <1>k, <1>b DEF Becomes
<1>d. ASSUME Done(c) PROVE call' \in [Calls -> CallType]
  <2>1. [Idle EXCEPT !.op = call[c].op, !.pc = "done", !.d = call[c].d] \in CallType
    BY <1>k, <1>i DEF CallType, CallPc
  <2> QED BY <1>d, <2>1, <1>b DEF Done
<1>g. ASSUME NEW pc \in CallPc, Goes(c, pc) PROVE call' \in [Calls -> CallType]
  <2>1. [call[c] EXCEPT !.pc = pc] \in CallType
    BY <1>k DEF CallType
  <2> QED BY <1>g, <2>1, <1>b DEF Goes
<1>2. CASE GenerateReads(c)
  <2>1. [Idle EXCEPT !.op = "generate", !.pc = "list", !.period = period] \in CallType
    BY <1>i DEF CallType, CallPc, Ops
  <2> QED BY <1>2, <2>1, <1>b, <1>k DEF GenerateReads, Begins
<1>3. CASE Lists(c)
  <2> DEFINE others == Drafts \ (IF call[c].op = "activate" THEN {call[c].d} ELSE {})
             now    == [d \in Drafts |-> IF d \in others THEN draft[d] ELSE call[c].seen[d]]
             rec    == [call[c] EXCEPT !.pc = "supersede", !.seen = now,
                                       !.todo = {d \in others : Current(draft[d])}]
  <2>1. now \in [Drafts -> Rows] /\ {d \in others : Current(draft[d])} \in SUBSET Drafts
    BY <1>k DEF CallType
  <2>2. rec \in CallType
    BY <1>k, <2>1 DEF CallType, CallPc
  <2>3. Becomes(c, rec)
    BY <1>3, <1>k DEF Lists, Becomes, CallType
  <2> QED BY <1>3, <2>2, <2>3, <1>b, <1>k DEF Lists
<1>4. CASE Supersedes(c)
  <2>1. PICK d \in call[c].todo :
          /\ Stores(d, [call[c].seen[d] EXCEPT !.superseded = TRUE])
          /\ Becomes(c, [call[c] EXCEPT !.todo = @ \ {d}])
    BY <1>4 DEF Supersedes
  <2>2. d \in Drafts /\ [call[c] EXCEPT !.todo = @ \ {d}] \in CallType
    BY <1>k DEF CallType
  <2>3. draft' \in [Drafts -> Rows]
    <3>1. [call[c].seen[d] EXCEPT !.superseded = TRUE] \in Rows
      BY <2>2, <1>k, SeenRow DEF DraftStatuses
    <3> QED BY <2>1, <2>2, <3>1, StoresRow
  <2>4. call' \in [Calls -> CallType]
    BY <2>1, <2>2, <1>b
  <2> QED BY <1>4, <2>3, <2>4, <1>k DEF Supersedes
<1>5. CASE Creates(c)
  <2>1. PICK d \in Drafts : /\ draft' = [draft EXCEPT ![d] = Fresh]
                            /\ Becomes(c, [call[c] EXCEPT !.pc = "start", !.d = d, !.seen = Nothing])
    BY <1>5 DEF Creates
  <2>2. [call[c] EXCEPT !.pc = "start", !.d = d, !.seen = Nothing] \in CallType
    BY <1>k, <1>i DEF CallType, CallPc
  <2>3. call' \in [Calls -> CallType]
    BY <2>1, <2>2, <1>b
  <2> QED BY <1>5, <2>1, <2>3, <1>k, ConstantTypes DEF Creates
<1>6. CASE Starts(c)
  <2>1. [pc |-> "running", period |-> call[c].period] \in NarrationType /\ call[c].d \in Drafts
    BY <1>k DEF CallType, NarrationType
  <2> QED BY <1>6, <2>1, <1>d, <1>k DEF Starts
<1>7. CASE StartsWithoutAi(c)
  <2>1. Advanced(call[c].period, "DRAFT_GENERATED") \in Periods
    BY <1>k, AdvancedType DEF CallType, PeriodStatuses
  <2> QED BY <1>7, <2>1, <1>d, <1>k DEF StartsWithoutAi
<1>8. CASE StopReads(c)
  <2>1. PICK d \in Drafts :
          Becomes(c, [Idle EXCEPT !.op = "stop", !.pc = "write", !.d = d, !.seen[d] = draft[d]])
    BY <1>8 DEF StopReads
  <2>2. [Idle EXCEPT !.op = "stop", !.pc = "write", !.d = d, !.seen[d] = draft[d]] \in CallType
    BY <1>i DEF CallType, CallPc, Ops
  <2>3. call' \in [Calls -> CallType]
    BY <2>1, <2>2, <1>b
  <2> QED BY <1>8, <2>3, <1>k DEF StopReads, Begins
<1>9. CASE StopWrites(c)
  <2>1. draft' \in [Drafts -> Rows]
    <3>1. call[c].d \in Drafts
      BY <1>k DEF CallType
    <3>2. [call[c].seen[call[c].d] EXCEPT !.superseded = TRUE] \in Rows
      BY <3>1, <1>k, SeenRow DEF DraftStatuses
    <3> QED BY <1>9, <3>1, <3>2, StoresRow DEF StopWrites
  <2> QED BY <1>9, <2>1, <1>d, <1>k DEF StopWrites
<1>10. CASE \E op \in Ops, d \in Drafts : DraftReads(c, op, d)
  <2>1. PICK op \in Ops, d \in Drafts : DraftReads(c, op, d)
    BY <1>10
  <2> DEFINE rec == [Idle EXCEPT !.op = op, !.pc = IF op = "activate" THEN "list" ELSE "write",
                                 !.d = d, !.seen[d] = draft[d]]
  <2>2. rec \in CallType
    BY <1>i DEF CallType, CallPc
  <2>3. call' \in [Calls -> CallType]
    BY <2>1, <2>2, <1>b DEF DraftReads
  <2> QED BY <2>1, <2>3, <1>k DEF DraftReads, Begins
<1>11. CASE ActivateWrites(c)
  <2>1. draft' \in [Drafts -> Rows]
    <3>1. call[c].d \in Drafts
      BY <1>k DEF CallType
    <3>2. [call[c].seen[call[c].d] EXCEPT !.superseded = FALSE] \in Rows
      BY <3>1, <1>k, SeenRow DEF DraftStatuses
    <3> QED BY <1>11, <3>1, <3>2, StoresRow DEF ActivateWrites
  <2> QED BY <1>11, <2>1, <1>d, <1>k DEF ActivateWrites
<1>12. CASE SubmitWrites(c)
  <2>1. draft' \in [Drafts -> Rows]
    BY <1>12, <1>k, SeenRow, StoresRow DEF SubmitWrites, CallType, DraftStatuses
  <2> QED BY <1>12, <2>1, <1>d, <1>k DEF SubmitWrites, CallType
<1>13. CASE RejectWrites(c)
  <2>1. draft' \in [Drafts -> Rows]
    BY <1>13, <1>k, SeenRow, StoresRow DEF RejectWrites, CallType, DraftStatuses
  <2> QED BY <1>13, <2>1, <1>d, <1>k DEF RejectWrites
<1>14. CASE ApproveWrites(c)
  <2>1. draft' \in [Drafts -> Rows]
    BY <1>14, <1>k, SeenRow, StoresRow DEF ApproveWrites, CallType, DraftStatuses
  <2> QED BY <1>14, <2>1, <1>g, <1>k DEF ApproveWrites, CallType, CallPc
<1>15. CASE ApproveReadsPeriod(c)
  <2>1. [call[c] EXCEPT !.pc = "advance", !.period = period] \in CallType
    BY <1>k DEF CallType, CallPc
  <2> QED BY <1>15, <2>1, <1>b, <1>k DEF ApproveReadsPeriod
<1>16. CASE ApproveAdvances(c)
  <2>1. Advanced(call[c].period, "APPROVED") \in Periods
    BY <1>k, AdvancedType DEF CallType, PeriodStatuses
  <2> QED BY <1>16, <2>1, <1>d, <1>k DEF ApproveAdvances
<1>17. CASE \E op \in Ops : PeriodReads(c, op)
  <2>1. PICK op \in Ops : PeriodReads(c, op)
    BY <1>17
  <2>2. [Idle EXCEPT !.op = op, !.pc = "list", !.period = period] \in CallType
    BY <1>i DEF CallType, CallPc
  <2> QED BY <2>1, <2>2, <1>b, <1>k DEF PeriodReads, Begins
<1>18. CASE PeriodChecks(c)
  BY <1>18, <1>g, <1>k DEF PeriodChecks, CallPc
<1>19. CASE PeriodWrites(c)
  <2>1. [call[c].period EXCEPT !.cancelled = (call[c].op = "cancel")] \in Periods
    BY <1>k DEF CallType, Periods
  <2> QED BY <1>19, <2>1, <1>d, <1>k DEF PeriodWrites
<1>20. CASE Returns(c)
  BY <1>20, <1>i, <1>b, <1>k DEF Returns
<1> QED
  BY <1>2, <1>3, <1>4, <1>5, <1>6, <1>7, <1>8, <1>9, <1>10, <1>11, <1>12, <1>13, <1>14, <1>15,
     <1>16, <1>17, <1>18, <1>19, <1>20 DEF CallStep

\* A narration's step keeps the types.
LEMMA NarrationStepType ==
  ASSUME TypeOK, NEW d \in Drafts, Narration(d)
  PROVE  TypeOK'
PROOF
<1> USE DEF TypeOK
<1>k. narration \in [Drafts -> NarrationType] /\ narration[d] \in NarrationType
  BY DEF NarrationType
<1>1. SUFFICES /\ draft' \in [Drafts -> Rows] /\ period' \in Periods
               /\ narration' \in [Drafts -> NarrationType]
               /\ UNCHANGED <<call, calls, reviewed, approved>>
  BY DEF NarrationType
<1>f. [narration[d] EXCEPT !.pc = "finish"] \in NarrationType /\ Quiet \in NarrationType
  BY <1>k, ConstantTypes DEF NarrationType
<1>2. CASE Narrated(d)
  BY <1>2, <1>k, <1>f DEF Narrated, NarrationType
<1>3. CASE Corrects(d)
  <2>1. draft' \in [Drafts -> Rows]
    BY <1>3, ConstantTypes, StoresRow DEF Corrects
  <2> QED BY <1>3, <2>1, <1>k, <1>f DEF Corrects, NarrationType
<1>4. CASE Finishes(d)
  <2>1. Advanced(narration[d].period, "DRAFT_GENERATED") \in Periods
    BY <1>k, AdvancedType DEF NarrationType, PeriodStatuses
  <2> QED BY <1>4, <2>1, <1>k, <1>f DEF Finishes
<1>5. CASE Dies(d)
  BY <1>5, <1>k, <1>f DEF Dies
<1> QED BY <1>2, <1>3, <1>4, <1>5 DEF Narration

\* Every variable keeps its type, for any number of drafts and calls.
THEOREM TypeCorrect == Spec => []TypeOK
PROOF
<1>1. Init => TypeOK
  BY ConstantTypes DEF Init, TypeOK, CallType, NarrationType
<1>2. TypeOK /\ [Next]_vars => TypeOK'
  <2> SUFFICES ASSUME TypeOK, [Next]_vars PROVE TypeOK'
    OBVIOUS
  <2>1. CASE \E c \in Calls : CallStep(c)
    BY <2>1, CallStepType
  <2>2. CASE \E d \in Drafts : Narration(d)
    BY <2>2, NarrationStepType
  <2>3. CASE UNCHANGED vars
    BY <2>3 DEF TypeOK, vars
  <2> QED BY <2>1, <2>2, <2>3 DEF Next
<1> QED BY <1>1, <1>2, PTL DEF Spec

(***************************************************************************)
(* Superseded drafts                                                       *)
(***************************************************************************)

\* drafts.update() never clears supersededAt, whatever row it is given.
LEMMA StoresKeepsStops ==
  ASSUME draft \in [Drafts -> Rows], NEW e \in Drafts, NEW r, Stores(e, r)
  PROVE  \A d \in Drafts : draft[d].superseded => draft'[d].superseded
PROOF
  BY DEF Stores

\* Every write of a draft goes through drafts.update() or creates a row.
LEMMA StepKeepsStops ==
  ASSUME TypeOK, [Next]_vars
  PROVE  \A d \in Drafts : draft[d].superseded => draft'[d].superseded
PROOF
<1>t. draft \in [Drafts -> Rows] /\ \A c \in Calls : call[c].d \in Drafts /\ call[c].todo \subseteq Drafts
  BY DEF TypeOK
<1>1. CASE UNCHANGED draft
  BY <1>1
<1>2. ASSUME NEW e \in Drafts, NEW r, Stores(e, r)
      PROVE  \A d \in Drafts : draft[d].superseded => draft'[d].superseded
  BY <1>2, <1>t, StoresKeepsStops
<1>3. ASSUME NEW c \in Calls, CallStep(c)
      PROVE  \A d \in Drafts : draft[d].superseded => draft'[d].superseded
  <2>1. CASE Supersedes(c)
    <3>1. PICK e \in call[c].todo : Stores(e, [call[c].seen[e] EXCEPT !.superseded = TRUE])
      BY <2>1 DEF Supersedes
    <3> QED BY <3>1, <1>2, <1>t
  <2>2. CASE Creates(c)
    <3>1. PICK e \in Drafts : draft[e] = Absent /\ draft' = [draft EXCEPT ![e] = Fresh]
      BY <2>2 DEF Creates
    <3>2. ~ draft[e].superseded
      BY <3>1 DEF Absent
    <3> QED BY <3>1, <3>2, <1>t
  <2>3. CASE StopWrites(c)
    BY <2>3, <1>2, <1>t DEF StopWrites
  <2>4. CASE ActivateWrites(c)
    BY <2>4, <1>2, <1>t DEF ActivateWrites
  <2>5. CASE SubmitWrites(c) \/ RejectWrites(c) \/ ApproveWrites(c)
    BY <2>5, <1>2, <1>t DEF SubmitWrites, RejectWrites, ApproveWrites
  <2>6. CASE UNCHANGED draft
    BY <2>6
  <2> QED
    BY <1>3, <2>1, <2>2, <2>3, <2>4, <2>5, <2>6
    DEF CallStep, GenerateReads, Lists, Starts, StartsWithoutAi, StopReads, DraftReads,
        ApproveReadsPeriod, ApproveAdvances, PeriodReads, PeriodChecks, PeriodWrites, Returns
<1>4. ASSUME NEW d \in Drafts, Narration(d)
      PROVE  \A e \in Drafts : draft[e].superseded => draft'[e].superseded
  BY <1>4, <1>2, <1>1 DEF Narration, Narrated, Corrects, Finishes, Dies
<1> QED BY <1>1, <1>3, <1>4 DEF Next, vars

\* A stopped or replaced draft stays so, although narrations and other handlers
\* write back rows they read before the stop.
THEOREM StopsAreFinal == Spec => StopIsFinal
PROOF
<1>1. TypeOK /\ [Next]_vars => [\A d \in Drafts : draft[d].superseded => draft'[d].superseded]_vars
  BY StepKeepsStops
<1> QED BY <1>1, TypeCorrect, PTL DEF Spec, StopIsFinal

\* The sweep of one call, which is what SweepHolds says of every call.
Swept(c) ==
  call[c].pc = "supersede" =>
    \A d \in Drafts \ call[c].todo :
      (call[c].op = "generate" \/ d # call[c].d) /\ Current(call[c].seen[d]) => draft[d].superseded

\* A step that leaves a call alone leaves its sweep valid.
LEMMA SweptByOthers ==
  ASSUME TypeOK, [Next]_vars, NEW c \in Calls, Swept(c), call'[c] = call[c]
  PROVE  Swept(c)'
PROOF
  BY StepKeepsStops DEF Swept

\* A call's own step establishes or keeps its sweep.
LEMMA SweptByOwn ==
  ASSUME TypeOK, NEW c \in Calls, Swept(c), CallStep(c)
  PROVE  Swept(c)'
PROOF
<1>t. /\ draft \in [Drafts -> Rows] /\ call \in [Calls -> CallType]
      /\ call[c] \in CallType /\ call[c].todo \subseteq Drafts
  BY DEF TypeOK, CallType
<1>1. CASE Lists(c)
  <2> DEFINE others == Drafts \ (IF call[c].op = "activate" THEN {call[c].d} ELSE {})
             now    == [d \in Drafts |-> IF d \in others THEN draft[d] ELSE call[c].seen[d]]
             rec    == [call[c] EXCEPT !.pc = "supersede", !.seen = now,
                                       !.todo = {d \in others : Current(draft[d])}]
  <2>1. draft' = draft /\ call' = [call EXCEPT ![c] = rec] /\ call[c].op \in {"generate", "activate"}
    BY <1>1, <1>t DEF Lists, Becomes, CallType
  <2>2. /\ call'[c].op = call[c].op /\ call'[c].d = call[c].d /\ call'[c].seen = now
        /\ call'[c].todo = {d \in others : Current(draft[d])}
    BY <2>1, <1>t DEF CallType
  <2>3. ASSUME NEW d \in Drafts \ call'[c].todo,
               call'[c].op = "generate" \/ d # call'[c].d, Current(call'[c].seen[d])
        PROVE  FALSE
    <3>1. d \in others
      BY <2>1, <2>2, <2>3
    <3>2. call'[c].seen[d] = draft[d]
      BY <2>2, <3>1
    <3> QED BY <2>2, <2>3, <3>1, <3>2
  <2> QED BY <2>3 DEF Swept
<1>2. CASE Supersedes(c)
  <2>1. PICK e \in call[c].todo :
          /\ Stores(e, [call[c].seen[e] EXCEPT !.superseded = TRUE])
          /\ Becomes(c, [call[c] EXCEPT !.todo = @ \ {e}])
    BY <1>2 DEF Supersedes
  <2>2. /\ call'[c].pc = call[c].pc /\ call'[c].op = call[c].op /\ call'[c].d = call[c].d
        /\ call'[c].seen = call[c].seen /\ call'[c].todo = call[c].todo \ {e}
    BY <2>1, <1>t DEF Becomes, CallType
  <2>3. [call[c].seen[e] EXCEPT !.superseded = TRUE] \in Rows /\ e \in Drafts
        /\ [call[c].seen[e] EXCEPT !.superseded = TRUE].superseded
    BY <1>t, SeenRow DEF DraftStatuses
  <2>4. draft'[e].superseded
    BY <2>1, <2>3, <1>t, StoresRow
  <2>5. \A d \in Drafts : draft[d].superseded => draft'[d].superseded
    BY <2>1, <2>3, <1>t, StoresKeepsStops
  <2>6. call[c].pc = "supersede"
    BY <1>2 DEF Supersedes
  <2> QED BY <2>2, <2>4, <2>5, <2>6 DEF Swept
<1>3. CASE call'[c].pc # "supersede"
  BY <1>3 DEF Swept
<1>4. ASSUME NEW rec, Becomes(c, rec), rec.pc # "supersede" PROVE call'[c].pc # "supersede"
  BY <1>4, <1>t DEF Becomes
<1>5. ASSUME Done(c) PROVE call'[c].pc # "supersede"
  BY <1>5, <1>t DEF Done, Becomes, Idle
<1>5b. Idle.pc = "idle" /\ [Idle EXCEPT !.pc = "list"].pc # "supersede"
  BY DEF Idle
<1>6. CASE GenerateReads(c) \/ (\E op \in Ops : PeriodReads(c, op)) \/ Returns(c)
  <2>1. \/ Becomes(c, Idle)
        \/ \E op : Becomes(c, [Idle EXCEPT !.op = op, !.pc = "list", !.period = period])
    BY <1>6 DEF GenerateReads, PeriodReads, Returns
  <2>2. \A op : [Idle EXCEPT !.op = op, !.pc = "list", !.period = period].pc = "list"
    BY DEF Idle
  <2> QED BY <2>1, <2>2, <1>3, <1>4, <1>5b
<1>6a. CASE StopReads(c)
  <2>1. PICK d \in Drafts :
          Becomes(c, [Idle EXCEPT !.op = "stop", !.pc = "write", !.d = d, !.seen[d] = draft[d]])
    BY <1>6a DEF StopReads
  <2>2. [Idle EXCEPT !.op = "stop", !.pc = "write", !.d = d, !.seen[d] = draft[d]].pc = "write"
    BY DEF Idle
  <2> QED BY <2>1, <2>2, <1>3, <1>4
<1>6b. CASE \E op \in Ops, d \in Drafts : DraftReads(c, op, d)
  <2>1. PICK op \in Ops, d \in Drafts : DraftReads(c, op, d)
    BY <1>6b
  <2> DEFINE pc  == IF op = "activate" THEN "list" ELSE "write"
             rec == [Idle EXCEPT !.op = op, !.pc = pc, !.d = d, !.seen[d] = draft[d]]
  <2>2. rec.pc = pc /\ pc # "supersede"
    BY DEF Idle
  <2>3. Becomes(c, rec)
    BY <2>1 DEF DraftReads
  <2> HIDE DEF rec, pc
  <2>4. rec.pc # "supersede"
    BY <2>2
  <2> QED BY <2>3, <2>4, <1>3, <1>4
<1>7. CASE Creates(c)
  <2>1. PICK d \in Drafts : Becomes(c, [call[c] EXCEPT !.pc = "start", !.d = d, !.seen = Nothing])
    BY <1>7 DEF Creates
  <2>2. [call[c] EXCEPT !.pc = "start", !.d = d, !.seen = Nothing].pc = "start"
    BY <1>t DEF CallType
  <2> QED BY <2>1, <2>2, <1>3, <1>4
<1>7a. CASE ApproveReadsPeriod(c)
  <2>1. [call[c] EXCEPT !.pc = "advance", !.period = period].pc = "advance"
    BY <1>t DEF CallType
  <2> QED BY <1>7a, <2>1, <1>3, <1>4 DEF ApproveReadsPeriod
<1>8. CASE PeriodChecks(c) \/ ApproveWrites(c)
  BY <1>8, <1>3, <1>t DEF PeriodChecks, ApproveWrites, Goes, Becomes, CallType
<1>9. CASE Starts(c) \/ StartsWithoutAi(c) \/ StopWrites(c) \/ ActivateWrites(c) \/ SubmitWrites(c)
           \/ RejectWrites(c) \/ ApproveAdvances(c) \/ PeriodWrites(c)
  BY <1>9, <1>3, <1>5 DEF Starts, StartsWithoutAi, StopWrites, ActivateWrites, SubmitWrites,
     RejectWrites, ApproveAdvances, PeriodWrites
<1> QED BY <1>1, <1>2, <1>6, <1>6a, <1>6b, <1>7, <1>7a, <1>8, <1>9 DEF CallStep

\* A sweep holds although every other handler and narration goes on writing.
THEOREM SweepsHold == Spec => []SweepHolds
PROOF
<1> DEFINE Inv == \A c \in Calls : Swept(c)
<1>1. Init => Inv
  BY DEF Init, Swept, Idle
<1>2. TypeOK /\ Inv /\ [Next]_vars => Inv'
  <2> SUFFICES ASSUME TypeOK, Inv, [Next]_vars, NEW c \in Calls PROVE Swept(c)'
    OBVIOUS
  <2>1. CASE CallStep(c)
    BY <2>1, SweptByOwn
  <2>2. CASE call'[c] = call[c]
    BY <2>2, SweptByOthers
  <2>3. ASSUME NEW k \in Calls, CallStep(k), k # c PROVE call'[c] = call[c]
    <3>1. \A rec : Becomes(k, rec) => call'[c] = call[c]
      BY <2>3 DEF Becomes, TypeOK
    <3> QED
      BY <2>3, <3>1 DEF CallStep, Done, Goes, GenerateReads, Lists, Supersedes, Creates, Starts,
         StartsWithoutAi, StopReads, StopWrites, DraftReads, ActivateWrites, SubmitWrites,
         RejectWrites, ApproveWrites, ApproveReadsPeriod, ApproveAdvances, PeriodReads,
         PeriodChecks, PeriodWrites, Returns
  <2>4. CASE \E d \in Drafts : Narration(d)
    BY <2>4, <2>2 DEF Narration, Narrated, Corrects, Finishes, Dies
  <2>5. CASE UNCHANGED vars
    BY <2>5, <2>2 DEF vars
  <2> QED BY <2>1, <2>2, <2>3, <2>4, <2>5 DEF Next
<1>3. Inv => SweepHolds
  BY DEF Swept, SweepHolds
<1> QED BY <1>1, <1>2, <1>3, TypeCorrect, PTL DEF Spec

(***************************************************************************)
(* Reviews and approvals                                                   *)
(***************************************************************************)

InReview(r) == r.status \in {"UNDER_REVIEW", "APPROVED"}

\* Whoever holds a row in review, in the table or in memory, holds one that was
\* sent for review; an approval about to be written holds such a row.
Reviews ==
  /\ \A d \in Drafts : InReview(draft[d]) => d \in reviewed
  /\ \A c \in Calls, d \in Drafts : InReview(call[c].seen[d]) => d \in reviewed
  /\ \A c \in Calls : At(c, "approve", "write") => InReview(call[c].seen[call[c].d])

\* The APPROVED status of a period, in the table or in any entity, comes from a
\* draft that has been approved, and so does the right to write it.
Approvals ==
  /\ period.status = "APPROVED" => approved # {}
  /\ \A c \in Calls : call[c].period.status = "APPROVED" => approved # {}
  /\ \A d \in Drafts : narration[d].period.status = "APPROVED" => approved # {}
  /\ \A c \in Calls : call[c].op = "approve" /\ call[c].pc \in {"period", "advance"} => approved # {}

\* What the initial entities hold.
LEMMA EntitiesAtFirst ==
  /\ \A d \in Drafts : ~ InReview(Nothing[d])
  /\ Idle.seen = Nothing /\ Idle.pc = "idle" /\ Idle.period.status = "NOT_STARTED"
  /\ Quiet.period.status = "NOT_STARTED" /\ NewPeriod.status = "NOT_STARTED"
  /\ ~ InReview(Fresh) /\ ~ InReview(Absent)
PROOF
  BY DEF InReview, Nothing, Absent, Fresh, Idle, Quiet, NewPeriod

\* A call's step keeps Reviews.
LEMMA CallStepReviews ==
  ASSUME TypeOK, Reviews, NEW c \in Calls, CallStep(c)
  PROVE  Reviews'
PROOF
<1>t. /\ draft \in [Drafts -> Rows] /\ call \in [Calls -> CallType]
      /\ call[c] \in CallType /\ call[c].todo \subseteq Drafts /\ call[c].d \in Drafts
      /\ call[c].seen \in [Drafts -> Rows]
  BY DEF TypeOK, CallType
<1>f. Idle \in CallType /\ Idle.seen = Nothing /\ Idle.pc = "idle" /\ \A d \in Drafts : ~ InReview(Nothing[d])
  BY ConstantTypes, EntitiesAtFirst
\* A new local state is in order when what it has seen is, and when it is not
\* about to write an approval.
<1>b. ASSUME NEW rec, Becomes(c, rec), UNCHANGED draft, reviewed' = reviewed,
             \A d \in Drafts : InReview(rec.seen[d]) => d \in reviewed,
             rec.op = "approve" /\ rec.pc = "write" => InReview(rec.seen[rec.d])
      PROVE  Reviews'
  BY <1>b, <1>t DEF Reviews, Becomes, At
\* The same for the steps that write a row.
<1>s. ASSUME NEW rec, Becomes(c, rec), reviewed \subseteq reviewed',
             NEW e \in Drafts, NEW r \in Rows, Stores(e, r), InReview(r) => e \in reviewed',
             \A d \in Drafts : InReview(rec.seen[d]) => d \in reviewed',
             rec.op = "approve" => rec.pc # "write"
      PROVE  Reviews'
  <2>1. \A d \in Drafts : InReview(draft'[d]) => d \in reviewed'
    BY <1>s, <1>t, StoresRow DEF Reviews, InReview
  <2> QED BY <2>1, <1>s, <1>t DEF Reviews, Becomes, At
<1>d. ASSUME NEW rec, rec = [Idle EXCEPT !.op = call[c].op, !.pc = "done", !.d = call[c].d]
      PROVE  rec.seen = Nothing /\ rec.pc = "done"
  BY <1>d, <1>f DEF CallType
<1>1. CASE GenerateReads(c) \/ Returns(c)
  <2>1. \/ Becomes(c, Idle)
        \/ Becomes(c, [Idle EXCEPT !.op = "generate", !.pc = "list", !.period = period])
    BY <1>1 DEF GenerateReads, Returns
  <2>2. [Idle EXCEPT !.op = "generate", !.pc = "list", !.period = period].seen = Nothing
        /\ [Idle EXCEPT !.op = "generate", !.pc = "list", !.period = period].pc = "list"
    BY <1>f DEF CallType
  <2>3. UNCHANGED <<draft, reviewed>>
    BY <1>1 DEF GenerateReads, Returns
  <2> QED BY <2>1, <2>2, <2>3, <1>b, <1>f
<1>2. CASE Lists(c)
  <2> DEFINE others == Drafts \ (IF call[c].op = "activate" THEN {call[c].d} ELSE {})
             now    == [d \in Drafts |-> IF d \in others THEN draft[d] ELSE call[c].seen[d]]
             rec    == [call[c] EXCEPT !.pc = "supersede", !.seen = now,
                                       !.todo = {d \in others : Current(draft[d])}]
  <2>1. Becomes(c, rec) /\ UNCHANGED <<draft, reviewed>>
    BY <1>2, <1>t DEF Lists, Becomes, CallType
  <2>2. rec.seen = now /\ rec.pc = "supersede"
    BY <1>t DEF CallType
  <2>3. \A d \in Drafts : InReview(now[d]) => d \in reviewed
    BY <1>t DEF Reviews
  <2> HIDE DEF rec, now
  <2> QED BY <2>1, <2>2, <2>3, <1>b
<1>3. CASE Supersedes(c)
  <2>1. PICK e \in call[c].todo :
          /\ Stores(e, [call[c].seen[e] EXCEPT !.superseded = TRUE])
          /\ Becomes(c, [call[c] EXCEPT !.todo = @ \ {e}])
    BY <1>3 DEF Supersedes
  <2> DEFINE r   == [call[c].seen[e] EXCEPT !.superseded = TRUE]
             rec == [call[c] EXCEPT !.todo = @ \ {e}]
  <2>2. e \in Drafts /\ r \in Rows /\ r.status = call[c].seen[e].status
    BY <1>t, SeenRow DEF DraftStatuses
  <2>3. InReview(r) => e \in reviewed
    BY <2>2 DEF InReview, Reviews
  <2>4. rec.seen = call[c].seen /\ rec.pc = "supersede"
    BY <1>3, <1>t DEF Supersedes, CallType
  <2>5. \A d \in Drafts : InReview(rec.seen[d]) => d \in reviewed
    BY <2>4 DEF Reviews
  <2>6. reviewed' = reviewed
    BY <1>3 DEF Supersedes
  <2>7. Stores(e, r) /\ Becomes(c, rec)
    BY <2>1
  <2> HIDE DEF rec, r
  <2> QED BY <2>2, <2>3, <2>4, <2>5, <2>6, <2>7, <1>s
<1>4. CASE Creates(c)
  <2>1. PICK e \in Drafts : /\ draft' = [draft EXCEPT ![e] = Fresh]
                            /\ Becomes(c, [call[c] EXCEPT !.pc = "start", !.d = e, !.seen = Nothing])
    BY <1>4 DEF Creates
  <2>2. \A d \in Drafts : InReview(draft'[d]) => d \in reviewed
    BY <2>1, <1>t, EntitiesAtFirst DEF Reviews
  <2>3. call'[c].seen = Nothing /\ call'[c].pc = "start" /\ \A k \in Calls \ {c} : call'[k] = call[k]
    BY <2>1, <1>t DEF Becomes, CallType
  <2>4. reviewed' = reviewed
    BY <1>4 DEF Creates
  <2> QED BY <2>2, <2>3, <2>4, <1>f DEF Reviews, At
<1>5. CASE Starts(c) \/ StartsWithoutAi(c) \/ ApproveAdvances(c) \/ PeriodWrites(c)
  <2>1. Done(c) /\ UNCHANGED <<draft, reviewed>>
    BY <1>5 DEF Starts, StartsWithoutAi, ApproveAdvances, PeriodWrites
  <2> DEFINE rec == [Idle EXCEPT !.op = call[c].op, !.pc = "done", !.d = call[c].d]
  <2>2. Becomes(c, rec) /\ rec.seen = Nothing /\ rec.pc = "done"
    BY <2>1, <1>d DEF Done
  <2> HIDE DEF rec
  <2> QED BY <2>1, <2>2, <1>b, <1>f
<1>6. CASE StopReads(c) \/ \E op \in Ops, d \in Drafts : DraftReads(c, op, d)
  <2>1. PICK op \in Ops, pc \in CallPc, d \in Drafts :
          /\ Becomes(c, [Idle EXCEPT !.op = op, !.pc = pc, !.d = d, !.seen[d] = draft[d]])
          /\ op = "approve" => InReview(draft[d])
          /\ UNCHANGED <<draft, reviewed>>
    <3>1. CASE StopReads(c)
      <4>1. PICK d \in Drafts :
              Becomes(c, [Idle EXCEPT !.op = "stop", !.pc = "write", !.d = d, !.seen[d] = draft[d]])
        BY <3>1 DEF StopReads
      <4>2. "stop" \in Ops /\ "write" \in CallPc /\ "stop" # "approve"
        BY DEF Ops, CallPc
      <4>3. UNCHANGED <<draft, reviewed>>
        BY <3>1 DEF StopReads
      <4> QED BY <4>1, <4>2, <4>3
    <3>2. ASSUME NEW op \in Ops, NEW d \in Drafts, DraftReads(c, op, d)
          PROVE  /\ op = "approve" => InReview(draft[d])
                 /\ UNCHANGED <<draft, reviewed>>
                 /\ \E pc \in CallPc :
                      Becomes(c, [Idle EXCEPT !.op = op, !.pc = pc, !.d = d, !.seen[d] = draft[d]])
      <4>1. op = "approve" => InReview(draft[d])
        BY <3>2 DEF DraftReads, MayBegin, InReview
      <4>2. (IF op = "activate" THEN "list" ELSE "write") \in CallPc
        BY DEF CallPc
      <4> QED BY <3>2, <4>1, <4>2 DEF DraftReads
    <3> QED BY <1>6, <3>1, <3>2
  <2> DEFINE rec == [Idle EXCEPT !.op = op, !.pc = pc, !.d = d, !.seen[d] = draft[d]]
  <2>2. rec.op = op /\ rec.d = d /\ rec.seen = [Nothing EXCEPT ![d] = draft[d]]
    BY <1>f DEF CallType
  <2>3. Nothing \in [Drafts -> Rows]
    BY ConstantTypes
  <2>4. rec.seen[d] = draft[d] /\ \A e \in Drafts : e # d => rec.seen[e] = Nothing[e]
    BY <2>2, <2>3
  <2>5. Becomes(c, rec)
    BY <2>1
  <2> HIDE DEF rec
  <2>6. \A e \in Drafts : InReview(rec.seen[e]) => e \in reviewed
    BY <2>4, <1>f, <1>t DEF Reviews
  <2> QED BY <2>1, <2>2, <2>4, <2>5, <2>6, <1>b
<1>7. CASE StopWrites(c)
  <2> DEFINE r == [call[c].seen[call[c].d] EXCEPT !.superseded = TRUE]
  <2>1. r \in Rows /\ r.status = call[c].seen[call[c].d].status
    BY <1>t, SeenRow DEF DraftStatuses
  <2>2. InReview(r) => call[c].d \in reviewed
    BY <2>1, <1>t DEF InReview, Reviews
  <2>3. Stores(call[c].d, r) /\ Done(c) /\ reviewed' = reviewed
    BY <1>7 DEF StopWrites
  <2> HIDE DEF r
  <2> QED BY <2>1, <2>2, <2>3, <1>s, <1>d, <1>f, <1>t DEF Done
<1>8. CASE ActivateWrites(c)
  <2> DEFINE r == [call[c].seen[call[c].d] EXCEPT !.superseded = FALSE]
  <2>1. r \in Rows /\ r.status = call[c].seen[call[c].d].status
    BY <1>t, SeenRow DEF DraftStatuses
  <2>2. InReview(r) => call[c].d \in reviewed
    BY <2>1, <1>t DEF InReview, Reviews
  <2>3. Stores(call[c].d, r) /\ Done(c) /\ reviewed' = reviewed
    BY <1>8 DEF ActivateWrites
  <2> HIDE DEF r
  <2> QED BY <2>1, <2>2, <2>3, <1>s, <1>d, <1>f, <1>t DEF Done
<1>9. CASE SubmitWrites(c)
  <2> DEFINE r == [call[c].seen[call[c].d] EXCEPT !.status = "UNDER_REVIEW"]
  <2>1. r \in Rows
    BY <1>t, SeenRow DEF DraftStatuses
  <2>2. Stores(call[c].d, r) /\ Done(c) /\ reviewed' = reviewed \cup {call[c].d}
    BY <1>9 DEF SubmitWrites
  <2> HIDE DEF r
  <2> QED BY <2>1, <2>2, <1>s, <1>d, <1>f, <1>t DEF Done
<1>10. CASE RejectWrites(c)
  <2> DEFINE r == [call[c].seen[call[c].d] EXCEPT !.status = "DRAFT"]
  <2>1. r \in Rows /\ r.status = "DRAFT"
    BY <1>t, SeenRow DEF DraftStatuses
  <2>2. Stores(call[c].d, r) /\ Done(c) /\ reviewed' = reviewed
    BY <1>10 DEF RejectWrites
  <2> HIDE DEF r
  <2> QED BY <2>1, <2>2, <1>s, <1>d, <1>f, <1>t DEF Done, InReview
<1>11. CASE ApproveWrites(c)
  <2> DEFINE r   == [call[c].seen[call[c].d] EXCEPT !.status = "APPROVED"]
             rec == [call[c] EXCEPT !.pc = "period"]
  <2>1. r \in Rows
    BY <1>t, SeenRow DEF DraftStatuses
  <2>2. call[c].d \in reviewed
    BY <1>11, <1>t DEF ApproveWrites, Reviews
  <2>3. Stores(call[c].d, r) /\ Becomes(c, rec) /\ reviewed' = reviewed
    BY <1>11 DEF ApproveWrites, Goes
  <2>4. rec.seen = call[c].seen /\ rec.pc = "period"
    BY <1>t DEF CallType
  <2> HIDE DEF r, rec
  <2>5. \A d \in Drafts : InReview(rec.seen[d]) => d \in reviewed'
    BY <2>3, <2>4 DEF Reviews
  <2> QED BY <2>1, <2>2, <2>3, <2>4, <2>5, <1>s, <1>t
<1>12. CASE ApproveReadsPeriod(c)
  <2> DEFINE rec == [call[c] EXCEPT !.pc = "advance", !.period = period]
  <2>1. rec.seen = call[c].seen /\ rec.pc = "advance"
    BY <1>t DEF CallType
  <2>2. Becomes(c, rec) /\ UNCHANGED <<draft, reviewed>>
    BY <1>12 DEF ApproveReadsPeriod
  <2> HIDE DEF rec
  <2> QED BY <2>1, <2>2, <1>b DEF Reviews
<1>13. CASE \E op \in Ops : PeriodReads(c, op)
  <2>1. PICK op \in Ops : PeriodReads(c, op)
    BY <1>13
  <2> DEFINE rec == [Idle EXCEPT !.op = op, !.pc = "list", !.period = period]
  <2>2. rec.seen = Nothing /\ rec.pc = "list"
    BY <1>f DEF CallType
  <2>3. Becomes(c, rec) /\ UNCHANGED <<draft, reviewed>>
    BY <2>1 DEF PeriodReads
  <2> HIDE DEF rec
  <2> QED BY <2>2, <2>3, <1>b, <1>f
<1>14. CASE PeriodChecks(c)
  <2> DEFINE rec == [call[c] EXCEPT !.pc = "write"]
  <2>1. rec.seen = call[c].seen /\ rec.op = call[c].op
    BY <1>t DEF CallType
  <2>2. Becomes(c, rec) /\ UNCHANGED <<draft, reviewed>> /\ call[c].op # "approve"
    BY <1>14 DEF PeriodChecks, Goes, At
  <2> HIDE DEF rec
  <2> QED BY <2>1, <2>2, <1>b DEF Reviews
<1> QED
  BY <1>1, <1>2, <1>3, <1>4, <1>5, <1>6, <1>7, <1>8, <1>9, <1>10, <1>11, <1>12, <1>13, <1>14
  DEF CallStep

\* No draft is under review or approved that was never sent for review.
THEOREM ApprovedWereReviewed == Spec => []ApprovedWasReviewed
PROOF
<1>1. Init => Reviews
  BY EntitiesAtFirst DEF Init, Reviews, At
<1>2. TypeOK /\ Reviews /\ [Next]_vars => Reviews'
  <2> SUFFICES ASSUME TypeOK, Reviews, [Next]_vars PROVE Reviews'
    OBVIOUS
  <2>1. CASE \E c \in Calls : CallStep(c)
    BY <2>1, CallStepReviews
  <2>2. ASSUME NEW d \in Drafts, Narration(d) PROVE Reviews'
    <3>1. CASE Corrects(d)
      <4>1. \A e \in Drafts : InReview(draft'[e]) => e \in reviewed
        <5>1. draft \in [Drafts -> Rows] /\ Fresh \in Rows /\ Stores(d, Fresh)
          BY <3>1, ConstantTypes DEF Corrects, TypeOK
        <5>2. draft'[d].status = Fresh.status /\ \A e \in Drafts \ {d} : draft'[e] = draft[e]
          BY <5>1, StoresRow
        <5> QED BY <5>2, EntitiesAtFirst DEF Reviews, InReview
      <4> QED BY <3>1, <4>1 DEF Corrects, Reviews, At
    <3>2. CASE UNCHANGED <<draft, call, reviewed>>
      BY <3>2 DEF Reviews, At
    <3> QED BY <2>2, <3>1, <3>2 DEF Narration, Narrated, Finishes, Dies
  <2>3. CASE UNCHANGED vars
    BY <2>3 DEF Reviews, At, vars
  <2> QED BY <2>1, <2>2, <2>3 DEF Next
<1>3. Reviews => ApprovedWasReviewed
  BY DEF Reviews, InReview, ApprovedWasReviewed
<1> QED BY <1>1, <1>2, <1>3, TypeCorrect, PTL DEF Spec

\* A call's step keeps Approvals.
LEMMA CallStepApprovals ==
  ASSUME TypeOK, Approvals, NEW c \in Calls, CallStep(c)
  PROVE  Approvals'
PROOF
<1>t. /\ period \in Periods /\ call \in [Calls -> CallType] /\ call[c] \in CallType
      /\ call[c].period \in Periods /\ approved \subseteq Drafts
  BY DEF TypeOK, CallType
<1>f. Idle \in CallType /\ Idle.period.status = "NOT_STARTED" /\ Idle.pc = "idle"
  BY ConstantTypes, EntitiesAtFirst
<1>p. "APPROVED" \in PeriodStatuses /\ "DRAFT_GENERATED" \in PeriodStatuses
  BY DEF PeriodStatuses
\* A new local state is in order when its entity is, and when it is not past
\* the approval of a draft.
<1>b. ASSUME NEW rec, Becomes(c, rec), UNCHANGED narration, approved \subseteq approved',
             period'.status = "APPROVED" => approved' # {},
             rec.period.status = "APPROVED" => approved' # {},
             rec.op = "approve" /\ rec.pc \in {"period", "advance"} => approved' # {}
      PROVE  Approvals'
  BY <1>b, <1>t DEF Approvals, Becomes
\* The same for the steps that end a call.
<1>d. ASSUME Done(c), UNCHANGED narration, approved \subseteq approved',
             period'.status = "APPROVED" => approved' # {}
      PROVE  Approvals'
  <2> DEFINE rec == [Idle EXCEPT !.op = call[c].op, !.pc = "done", !.d = call[c].d]
  <2>1. rec.period = Idle.period /\ rec.pc = "done"
    BY <1>f DEF CallType
  <2>2. Becomes(c, rec)
    BY <1>d DEF Done
  <2> HIDE DEF rec
  <2> QED BY <2>1, <2>2, <1>d, <1>f, <1>b
<1>1. CASE GenerateReads(c) \/ \E op \in Ops : PeriodReads(c, op)
  <2>1. PICK op \in Ops : /\ Becomes(c, [Idle EXCEPT !.op = op, !.pc = "list", !.period = period])
                          /\ UNCHANGED <<period, narration, approved>>
    BY <1>1 DEF GenerateReads, PeriodReads, Ops
  <2> DEFINE rec == [Idle EXCEPT !.op = op, !.pc = "list", !.period = period]
  <2>2. rec.period = period /\ rec.pc = "list"
    BY <1>f DEF CallType
  <2>3. Becomes(c, rec)
    BY <2>1
  <2> HIDE DEF rec
  <2> QED BY <2>1, <2>2, <2>3, <1>b DEF Approvals
<1>2. CASE Returns(c)
  BY <1>2, <1>f, <1>b DEF Returns, Approvals
<1>3. CASE Lists(c)
  <2> DEFINE others == Drafts \ (IF call[c].op = "activate" THEN {call[c].d} ELSE {})
             now    == [d \in Drafts |-> IF d \in others THEN draft[d] ELSE call[c].seen[d]]
             rec    == [call[c] EXCEPT !.pc = "supersede", !.seen = now,
                                       !.todo = {d \in others : Current(draft[d])}]
  <2>1. Becomes(c, rec) /\ UNCHANGED <<period, narration, approved>>
    BY <1>3, <1>t DEF Lists, Becomes, CallType
  <2>2. rec.period = call[c].period /\ rec.pc = "supersede"
    BY <1>t DEF CallType
  <2> HIDE DEF rec
  <2> QED BY <2>1, <2>2, <1>b DEF Approvals
<1>4. CASE Supersedes(c)
  <2>1. PICK e \in call[c].todo : Becomes(c, [call[c] EXCEPT !.todo = @ \ {e}])
    BY <1>4 DEF Supersedes
  <2> DEFINE rec == [call[c] EXCEPT !.todo = @ \ {e}]
  <2>2. rec.period = call[c].period /\ rec.pc = "supersede"
    BY <1>4, <1>t DEF Supersedes, CallType
  <2>3. Becomes(c, rec) /\ UNCHANGED <<period, narration, approved>>
    BY <1>4, <2>1 DEF Supersedes
  <2> HIDE DEF rec
  <2> QED BY <2>2, <2>3, <1>b DEF Approvals
<1>5. CASE Creates(c)
  <2>1. PICK e \in Drafts : Becomes(c, [call[c] EXCEPT !.pc = "start", !.d = e, !.seen = Nothing])
    BY <1>5 DEF Creates
  <2> DEFINE rec == [call[c] EXCEPT !.pc = "start", !.d = e, !.seen = Nothing]
  <2>2. rec.period = call[c].period /\ rec.pc = "start"
    BY <1>t DEF CallType
  <2>3. Becomes(c, rec) /\ UNCHANGED <<period, narration, approved>>
    BY <1>5, <2>1 DEF Creates
  <2> HIDE DEF rec
  <2> QED BY <2>2, <2>3, <1>b DEF Approvals
<1>6. CASE Starts(c)
  <2>1. [pc |-> "running", period |-> call[c].period].period = call[c].period
    OBVIOUS
  <2>2. \A d \in Drafts : narration'[d].period.status = "APPROVED" => approved' # {}
    BY <1>6, <2>1 DEF Starts, Approvals, TypeOK
  <2> DEFINE rec == [Idle EXCEPT !.op = call[c].op, !.pc = "done", !.d = call[c].d]
  <2>3. rec.period = Idle.period /\ rec.pc = "done"
    BY <1>f DEF CallType
  <2>4. Becomes(c, rec)
    BY <1>6 DEF Starts, Done
  <2> HIDE DEF rec
  <2> QED BY <1>6, <1>f, <1>t, <2>2, <2>3, <2>4 DEF Starts, Approvals, Becomes
<1>7. CASE StartsWithoutAi(c)
  <2>1. period'.status \in {call[c].period.status, "DRAFT_GENERATED"}
    BY <1>7, <1>t, <1>p, AdvancedType DEF StartsWithoutAi
  <2> QED BY <1>7, <2>1, <1>d DEF StartsWithoutAi, Approvals
<1>8. CASE StopReads(c) \/ \E op \in Ops, d \in Drafts : DraftReads(c, op, d)
  <2>1. PICK op, pc, d :
          /\ Becomes(c, [Idle EXCEPT !.op = op, !.pc = pc, !.d = d, !.seen[d] = draft[d]])
          /\ pc \in {"list", "write"}
          /\ UNCHANGED <<period, narration, approved>>
    <3>1. CASE StopReads(c)
      <4>1. PICK d \in Drafts :
              Becomes(c, [Idle EXCEPT !.op = "stop", !.pc = "write", !.d = d, !.seen[d] = draft[d]])
        BY <3>1 DEF StopReads
      <4> QED BY <3>1, <4>1 DEF StopReads
    <3>2. ASSUME NEW op \in Ops, NEW d \in Drafts, DraftReads(c, op, d)
          PROVE  /\ UNCHANGED <<period, narration, approved>>
                 /\ \E pc \in {"list", "write"} :
                      Becomes(c, [Idle EXCEPT !.op = op, !.pc = pc, !.d = d, !.seen[d] = draft[d]])
      BY <3>2 DEF DraftReads
    <3> QED BY <1>8, <3>1, <3>2
  <2> DEFINE rec == [Idle EXCEPT !.op = op, !.pc = pc, !.d = d, !.seen[d] = draft[d]]
  <2>2. rec.period = Idle.period /\ rec.pc = pc
    BY <1>f DEF CallType
  <2>3. Becomes(c, rec)
    BY <2>1
  <2> HIDE DEF rec
  <2> QED BY <2>1, <2>2, <2>3, <1>b, <1>f DEF Approvals
<1>9. CASE StopWrites(c) \/ ActivateWrites(c) \/ SubmitWrites(c) \/ RejectWrites(c)
  BY <1>9, <1>d DEF StopWrites, ActivateWrites, SubmitWrites, RejectWrites, Approvals
<1>10. CASE ApproveWrites(c)
  <2>1. [call[c] EXCEPT !.pc = "period"].period = call[c].period
    BY <1>t DEF CallType
  <2>2. approved' # {} /\ approved \subseteq approved'
    BY <1>10 DEF ApproveWrites
  <2>3. Becomes(c, [call[c] EXCEPT !.pc = "period"]) /\ UNCHANGED <<period, narration>>
    BY <1>10 DEF ApproveWrites, Goes
  <2> QED BY <2>1, <2>2, <2>3, <1>b
<1>11. CASE ApproveReadsPeriod(c)
  <2> DEFINE rec == [call[c] EXCEPT !.pc = "advance", !.period = period]
  <2>1. rec.period = period /\ rec.op = call[c].op
    BY <1>t DEF CallType
  <2>2. Becomes(c, rec) /\ UNCHANGED <<period, narration, approved>> /\ At(c, "approve", "period")
    BY <1>11 DEF ApproveReadsPeriod
  <2>3. approved # {}
    BY <2>2 DEF At, Approvals
  <2> HIDE DEF rec
  <2> QED BY <2>1, <2>2, <2>3, <1>b
<1>12. CASE ApproveAdvances(c)
  <2>1. approved # {}
    BY <1>12 DEF ApproveAdvances, At, Approvals
  <2> QED BY <1>12, <2>1, <1>d DEF ApproveAdvances
<1>13. CASE PeriodChecks(c)
  <2>1. [call[c] EXCEPT !.pc = "write"].period = call[c].period
        /\ [call[c] EXCEPT !.pc = "write"].pc = "write"
    BY <1>t DEF CallType
  <2> QED BY <1>13, <2>1, <1>b DEF PeriodChecks, Goes, Approvals
<1>14. CASE PeriodWrites(c)
  <2>1. period'.status = call[c].period.status
    BY <1>14, <1>t DEF PeriodWrites, Periods
  <2> QED BY <1>14, <2>1, <1>d DEF PeriodWrites, Approvals
<1> QED
  BY <1>1, <1>2, <1>3, <1>4, <1>5, <1>6, <1>7, <1>8, <1>9, <1>10, <1>11, <1>12, <1>13, <1>14
  DEF CallStep

\* The period is APPROVED only after one of its reports has been.
THEOREM PeriodFollows == Spec => []PeriodFollowsDraft
PROOF
<1>1. Init => Approvals
  BY EntitiesAtFirst DEF Init, Approvals
<1>2. TypeOK /\ Approvals /\ [Next]_vars => Approvals'
  <2> SUFFICES ASSUME TypeOK, Approvals, [Next]_vars PROVE Approvals'
    OBVIOUS
  <2>1. CASE \E c \in Calls : CallStep(c)
    BY <2>1, CallStepApprovals
  <2>2. ASSUME NEW d \in Drafts, Narration(d) PROVE Approvals'
    <3>t. narration \in [Drafts -> NarrationType] /\ narration[d].period \in Periods
      BY DEF TypeOK, NarrationType
    <3>1. CASE Finishes(d)
      <4>1. period'.status \in {narration[d].period.status, "DRAFT_GENERATED"}
        BY <3>1, <3>t, AdvancedType DEF Finishes, PeriodStatuses
      <4> QED BY <3>1, <4>1, <3>t, EntitiesAtFirst DEF Finishes, Approvals
    <3>2. CASE Dies(d)
      BY <3>2, <3>t, EntitiesAtFirst DEF Dies, Approvals
    <3>3. CASE Narrated(d) \/ Corrects(d)
      <4>1. narration' = [narration EXCEPT ![d].pc = "finish"]
        BY <3>3 DEF Narrated, Corrects
      <4>2. \A e \in Drafts : narration'[e].period = narration[e].period
        BY <4>1, <3>t DEF NarrationType
      <4> QED BY <3>3, <4>2 DEF Narrated, Corrects, Approvals
    <3> QED BY <2>2, <3>1, <3>2, <3>3 DEF Narration
  <2>3. CASE UNCHANGED vars
    BY <2>3 DEF Approvals, vars
  <2> QED BY <2>1, <2>2, <2>3 DEF Next
<1>3. Approvals => PeriodFollowsDraft
  BY DEF Approvals, PeriodFollowsDraft
<1> QED BY <1>1, <1>2, <1>3, TypeCorrect, PTL DEF Spec
=============================================================================
