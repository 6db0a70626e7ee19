----------------------- MODULE SectionAssuranceProofs ------------------------
(***************************************************************************)
(* Theorems about SectionAssurance, for any number of requests, statements  *)
(* and texts.                                                              *)
(***************************************************************************)
EXTENDS SectionAssurance, FiniteSetTheorems, SequenceTheorems, TLAPS

RevType  == [text : SUBSET Statements, state : States]
CallType == [pc : Pcs, op : Ops \cup {"none"}, nr : Nat, row : Rows, rev : Nat,
             state : States, text : SUBSET Statements, weak : SUBSET Statements, blocked : BOOLEAN,
             todo : SUBSET Claims]

(***************************************************************************)
(* The inductive invariant.  What a request keeps from an earlier read must *)
(* still be right when it is written back, so the parts are stated for any *)
(* row, claim and request, over the revisions rv, those ps that passed and  *)
(* the statements dc decided on: the three only grow.                      *)
(***************************************************************************)
RowOK(r, rv, ps) ==
  /\ r \in Rows /\ r.rev \in 0..Len(rv)
  /\ r.rev # 0 => r.text = rv[r.rev].text
  /\ r.status = "APPROVED" => r.rev \in ps
ClaimOK(c, rv, dc) ==
  /\ c \in Claims /\ c.rev \in 1..Len(rv)
  /\ c.stmt \in rv[c.rev].text
  /\ c.resolved => c.stmt \in dc
CallOK(k, rv, ps, dc) ==
  /\ RowOK(k.row, rv, ps)
  /\ \A c \in k.todo : ClaimOK(c, rv, dc)
  /\ k.pc \in {"prepare", "write", "number", "insert", "store"} => k.row.status # "APPROVED"
  /\ k.pc = "insert" => k.rev \in 1..(Len(rv) + 1)
  /\ k.pc = "store" => k.rev \in 1..Len(rv) /\ rv[k.rev].text = k.text
  /\ k.pc \in {"look", "recall", "clear", "save", "conclude", "stale"} => k.rev \in 1..Len(rv)
  /\ k.pc = "reopen" => k.rev \in 0..Len(rv)
  /\ k.pc = "check" => k.row.rev # 0
  /\ k.pc = "seal" => k.row.rev \in ps
RevsOK(rv, ps) ==
  /\ rv \in Seq(RevType) /\ ps \subseteq 1..Len(rv)
  /\ \A r \in 1..Len(rv) : rv[r].state = "CURRENT" => r \in ps
Grows(rv, ps, dc, rv2, ps2, dc2) ==
  /\ Len(rv) <= Len(rv2) /\ \A r \in 1..Len(rv) : rv2[r].text = rv[r].text
  /\ ps \subseteq ps2 /\ dc \subseteq dc2

Frame == /\ weak \subseteq Statements /\ open \in BOOLEAN /\ regens \in Nat
         /\ started \in Nat /\ upsets \in Nat
Texted == /\ RevsOK(revs, passed) /\ decided \subseteq Statements
          /\ RowOK(section, revs, passed)
          /\ \A c \in claims : ClaimOK(c, revs, decided)
Inv == /\ Frame /\ Texted
       /\ call \in [Calls -> CallType]
       /\ \A p \in Calls : CallOK(call[p], revs, passed, decided)

LEMMA InvImplies ==
  ASSUME Inv
  PROVE  TypeOK /\ RowMatchesRevision /\ ApprovedWasExamined /\ ClaimsOfTheirRevision /\ DecisionsNotSpread
PROOF
<1>1. section \in Rows /\ section.rev \in Revs /\ passed \subseteq Revs
  BY DEF Inv, Texted, RowOK, RevsOK, Revs
<1>2. claims \subseteq Claims
  BY DEF Inv, Texted, ClaimOK
<1>3. TypeOK
  BY <1>1, <1>2 DEF Inv, Frame, Texted, RevsOK, RevType, CallType, TypeOK
<1>4. RowMatchesRevision /\ ApprovedWasExamined
  BY DEF Inv, Texted, RowOK, RowMatchesRevision, ApprovedWasExamined
<1>5. ClaimsOfTheirRevision /\ DecisionsNotSpread
  BY DEF Inv, Texted, ClaimOK, ClaimsOfTheirRevision, DecisionsNotSpread
<1> QED BY <1>3, <1>4, <1>5

\* What was right stays right.
LEMMA RowKept ==
  ASSUME NEW rv, NEW ps, NEW dc, NEW rv2, NEW ps2, NEW dc2, NEW r,
         Len(rv) \in Nat, Len(rv2) \in Nat,
         RowOK(r, rv, ps), Grows(rv, ps, dc, rv2, ps2, dc2)
  PROVE  RowOK(r, rv2, ps2)
PROOF BY DEF RowOK, Grows, Rows

LEMMA ClaimKept ==
  ASSUME NEW rv, NEW ps, NEW dc, NEW rv2, NEW ps2, NEW dc2, NEW c,
         Len(rv) \in Nat, Len(rv2) \in Nat,
         ClaimOK(c, rv, dc), Grows(rv, ps, dc, rv2, ps2, dc2)
  PROVE  ClaimOK(c, rv2, dc2)
PROOF BY DEF ClaimOK, Grows, Claims

LEMMA CallKept ==
  ASSUME NEW rv, NEW ps, NEW dc, NEW rv2, NEW ps2, NEW dc2, NEW k \in CallType,
         Len(rv) \in Nat, Len(rv2) \in Nat,
         CallOK(k, rv, ps, dc), Grows(rv, ps, dc, rv2, ps2, dc2)
  PROVE  CallOK(k, rv2, ps2, dc2)
PROOF
<1>1. RowOK(k.row, rv2, ps2)
  BY RowKept DEF CallOK
<1>2. \A c \in k.todo : ClaimOK(c, rv2, dc2)
  BY ClaimKept DEF CallOK
<1>3. k.rev \in Nat
  BY DEF CallType
<1> QED BY <1>1, <1>2, <1>3 DEF CallOK, Grows

\* Entries that hold no claim and are at none of the steps that use what was
\* read satisfy the invariant with any row that does.
LEMMA IdleOK ==
  ASSUME NEW rv, NEW ps, NEW dc, Len(rv) \in Nat
  PROVE  Idle \in CallType /\ CallOK(Idle, rv, ps, dc)
PROOF
<1>2. NoText \in Rows
  BY DEF NoText, Rows, Statuses
<1>3. Idle \in CallType
  BY <1>2 DEF Idle, CallType, Pcs, States
<1>4. CallOK(Idle, rv, ps, dc)
  BY <1>2 DEF Idle, CallOK, RowOK, NoText
<1> QED BY <1>3, <1>4

(***************************************************************************)
(* Every step of a request gives it one new entry.                         *)
(***************************************************************************)
LEMMA StepOK ==
  ASSUME Inv, Frame', Texted', Grows(revs, passed, decided, revs', passed', decided'),
         NEW p \in Calls, NEW k \in CallType, call' = [call EXCEPT ![p] = k],
         CallOK(k, revs', passed', decided')
  PROVE  Inv'
PROOF
<1>1. call' \in [Calls -> CallType]
  BY DEF Inv
<1>2. Len(revs) \in Nat /\ Len(revs') \in Nat
  BY DEF Inv, Texted, RevsOK
<1>3. ASSUME NEW q \in Calls PROVE CallOK(call'[q], revs', passed', decided')
  <2>1. CASE q = p
    BY <2>1 DEF Inv
  <2>2. CASE q # p
    <3>1. call'[q] = call[q] /\ call[q] \in CallType /\ CallOK(call[q], revs, passed, decided)
      BY <2>2 DEF Inv
    <3>2. CallOK(call[q], revs', passed', decided')
      BY <3>1, <1>2, CallKept
    <3> QED BY <3>1, <3>2
  <2> QED BY <2>1, <2>2
<1> QED BY <1>1, <1>3 DEF Inv

\* A step that writes neither the row, nor revisions, nor claims.
LEMMA QuietStep ==
  ASSUME Inv, Frame', UNCHANGED <<section, revs, claims, passed, decided>>,
         NEW p \in Calls, NEW k \in CallType, call' = [call EXCEPT ![p] = k],
         CallOK(k, revs, passed, decided)
  PROVE  Inv'
PROOF
<1>1. Len(revs) \in Nat /\ Texted
  BY DEF Inv, Texted, RevsOK
<1>2. Texted'
  BY <1>1 DEF Texted
<1>3. Grows(revs, passed, decided, revs', passed', decided')
  BY <1>1 DEF Grows
<1>4. CallOK(k, revs', passed', decided')
  OBVIOUS
<1> QED BY <1>2, <1>3, <1>4, StepOK

\* A request that returns.
LEMMA ReturnStep ==
  ASSUME Inv, Frame', Texted', Grows(revs, passed, decided, revs', passed', decided'),
         NEW p \in Calls, Returns(p)
  PROVE  Inv'
PROOF
<1>1. call' = [call EXCEPT ![p] = Idle]
  BY DEF Returns
<1>2. Len(revs') \in Nat
  BY DEF Texted, RevsOK
<1>3. Idle \in CallType /\ CallOK(Idle, revs', passed', decided')
  BY <1>2, IdleOK
<1> QED BY <1>1, <1>3, StepOK

LEMMA QuietReturn ==
  ASSUME Inv, Frame', UNCHANGED <<section, revs, claims, passed, decided>>, NEW p \in Calls, Returns(p)
  PROVE  Inv'
PROOF
<1>1. Len(revs) \in Nat /\ Texted
  BY DEF Inv, Texted, RevsOK
<1>2. Texted'
  BY <1>1 DEF Texted
<1>3. Grows(revs, passed, decided, revs', passed', decided')
  BY <1>1 DEF Grows
<1> QED BY <1>2, <1>3, ReturnStep

\* A request that begins keeps what it read.
LEMMA BeginStep ==
  ASSUME Inv, UNCHANGED <<section, revs, claims, weak, open, regens, upsets, passed, decided>>,
         NEW p \in Calls, NEW k \in CallType, Begins(p, k), CallOK(k, revs, passed, decided)
  PROVE  Inv'
PROOF
<1> DEFINE n == [k EXCEPT !.nr = started + 1]
<1>1. call' = [call EXCEPT ![p] = n] /\ started' = started + 1 /\ started \in Nat
  BY DEF Begins, Inv, Frame
<1>2. n \in CallType
  BY <1>1 DEF CallType
<1>3. /\ n.row = k.row /\ n.todo = k.todo /\ n.pc = k.pc /\ n.rev = k.rev /\ n.text = k.text
  BY DEF CallType
<1>4. CallOK(n, revs, passed, decided)
  BY <1>3 DEF CallOK
<1>5. Frame'
  BY <1>1 DEF Inv, Frame
<1> QED BY <1>1, <1>2, <1>4, <1>5, QuietStep

\* resetApproval() keeps text and revision.
LEMMA ResetOK ==
  ASSUME NEW rv, NEW ps, NEW r, RowOK(r, rv, ps)
  PROVE  RowOK(Reset(r), rv, ps) /\ Reset(r).status # "APPROVED" /\ Reset(r).rev = r.rev
PROOF BY DEF Reset, RowOK, Rows, Statuses

LEMMA StartsKeep ==
  ASSUME Inv, NEW p \in Calls, Starts(p)
  PROVE  Inv'
PROOF
<1>i. /\ Len(revs) \in Nat /\ revs \in Seq(RevType) /\ RowOK(section, revs, passed)
      /\ \A c \in claims : ClaimOK(c, revs, decided)
  BY DEF Inv, Texted, RevsOK
<1>j. Idle \in CallType /\ CallOK(Idle, revs, passed, decided) /\ Idle.rev = 0 /\ Idle.todo = {}
      /\ Idle.row.status # "APPROVED"
  BY <1>i, IdleOK DEF Idle, NoText
<1>r. /\ RowOK(Reset(section), revs, passed) /\ Reset(section).status # "APPROVED"
      /\ Reset(section) \in Rows /\ section \in Rows
  BY <1>i, ResetOK DEF RowOK
<1>1. CASE Edit(p)
  <2>1. PICK text \in Texts :
          Begins(p, [Idle EXCEPT !.pc = "number", !.op = "edit", !.row = Reset(section), !.text = text])
    BY <1>1 DEF Edit
  <2> DEFINE k == [Idle EXCEPT !.pc = "number", !.op = "edit", !.row = Reset(section), !.text = text]
  <2>2. text \in SUBSET Statements
    BY AssuranceAssumption
  <2>3. k \in CallType
    BY <1>j, <1>r, <2>2 DEF CallType, Pcs, Ops
  <2>4. k.pc = "number" /\ k.row = Reset(section) /\ k.todo = {} /\ k.rev = 0
    BY <1>j DEF CallType
  <2>5. CallOK(k, revs, passed, decided)
    BY <2>4, <1>r DEF CallOK
  <2> QED BY <1>1, <2>1, <2>3, <2>5, BeginStep DEF Edit
<1>2. CASE Rewrite(p)
  <2> DEFINE k == [Idle EXCEPT !.pc = "write", !.op = "rewrite", !.row = Reset(section)]
  <2>3. k \in CallType
    BY <1>j, <1>r DEF CallType, Pcs, Ops
  <2>4. k.pc = "write" /\ k.row = Reset(section) /\ k.todo = {} /\ k.rev = 0
    BY <1>j DEF CallType
  <2>5. CallOK(k, revs, passed, decided)
    BY <2>4, <1>r DEF CallOK
  <2> QED BY <1>2, <2>3, <2>5, BeginStep DEF Rewrite
<1>3. CASE Regenerate(p)
  <2> DEFINE k == [Idle EXCEPT !.pc = "prepare", !.op = "regenerate"]
  <2>3. k \in CallType
    BY <1>j DEF CallType, Pcs, Ops
  <2>4. k.pc = "prepare" /\ k.row = Idle.row /\ k.todo = {} /\ k.rev = 0
    BY <1>j DEF CallType
  <2>5. CallOK(k, revs, passed, decided)
    BY <2>4, <1>j DEF CallOK
  <2> QED BY <1>3, <2>3, <2>5, BeginStep DEF Regenerate
<1>4. CASE Reassess(p)
  <2> DEFINE k(r) == [Idle EXCEPT !.pc = "look", !.op = "reassess", !.rev = r]
  <2>1. PICK r \in Revs \ {0} : Begins(p, k(r))
    BY <1>4 DEF Reassess
  <2>2. r \in 1..Len(revs) /\ r \in Nat
    BY <1>i DEF Revs
  <2>3. k(r) \in CallType
    BY <1>j, <2>2 DEF CallType, Pcs, Ops
  <2>4. k(r).pc = "look" /\ k(r).row = Idle.row /\ k(r).todo = {} /\ k(r).rev = r
    BY <1>j DEF CallType
  <2>5. CallOK(k(r), revs, passed, decided)
    BY <2>2, <2>4, <1>j DEF CallOK
  <2> QED BY <1>4, <2>1, <2>3, <2>5, BeginStep DEF Reassess
<1>5. CASE Decide(p)
  <2> DEFINE k(c) == [Idle EXCEPT !.pc = "decide", !.op = "decide", !.todo = {c}]
  <2>1. PICK c \in claims : Begins(p, k(c))
    BY <1>5 DEF Decide
  <2>2. ClaimOK(c, revs, decided) /\ {c} \in SUBSET Claims
    BY <1>i DEF ClaimOK
  <2>3. k(c) \in CallType
    BY <1>j, <2>2 DEF CallType, Pcs, Ops
  <2>4. k(c).pc = "decide" /\ k(c).row = Idle.row /\ k(c).todo = {c} /\ k(c).rev = 0
    BY <1>j DEF CallType
  <2>5. CallOK(k(c), revs, passed, decided)
    BY <2>2, <2>4, <1>j DEF CallOK
  <2> QED BY <1>5, <2>1, <2>3, <2>5, BeginStep DEF Decide
<1>6. CASE Reopen(p)
  <2> DEFINE k(s) == [Idle EXCEPT !.pc = "reopen", !.op = "reopen", !.rev = section.rev,
                    !.todo = {c \in claims : c.stmt = s /\ c.resolved}]
  <2>1. PICK s \in Settled : Begins(p, k(s))
    BY <1>6 DEF Reopen
  <2>2. /\ \A c \in {c \in claims : c.stmt = s /\ c.resolved} : ClaimOK(c, revs, decided)
        /\ {c \in claims : c.stmt = s /\ c.resolved} \in SUBSET Claims
        /\ section.rev \in 0..Len(revs) /\ section.rev \in Nat
    BY <1>i DEF ClaimOK, RowOK
  <2>3. k(s) \in CallType
    BY <1>j, <1>i, <2>2 DEF CallType, Pcs, Ops
  <2>4. /\ k(s).pc = "reopen" /\ k(s).row = Idle.row /\ k(s).rev = section.rev
        /\ k(s).todo = {c \in claims : c.stmt = s /\ c.resolved}
    BY <1>j DEF CallType
  <2>5. CallOK(k(s), revs, passed, decided)
    BY <2>2, <2>4, <1>j DEF CallOK
  <2> QED BY <1>6, <2>1, <2>3, <2>5, BeginStep DEF Reopen
<1>7. CASE Approve(p)
  <2> DEFINE k == [Idle EXCEPT !.pc = "check", !.op = "approve", !.row = section]
  <2>3. k \in CallType
    BY <1>j, <1>r DEF CallType, Pcs, Ops
  <2>4. k.pc = "check" /\ k.row = section /\ k.todo = {} /\ k.rev = 0
    BY <1>j DEF CallType
  <2>5. CallOK(k, revs, passed, decided)
    BY <2>4, <1>7, <1>i DEF CallOK, Approve
  <2> QED BY <1>7, <2>3, <2>5, BeginStep DEF Approve
<1>8. CASE Touch(p)
  <2> DEFINE k == [Idle EXCEPT !.pc = "touch", !.op = "touch", !.row = section]
  <2>3. k \in CallType
    BY <1>j, <1>r DEF CallType, Pcs, Ops
  <2>4. k.pc = "touch" /\ k.row = section /\ k.todo = {} /\ k.rev = 0
    BY <1>j DEF CallType
  <2>5. CallOK(k, revs, passed, decided)
    BY <2>4, <1>i DEF CallOK
  <2> QED BY <1>8, <2>3, <2>5, BeginStep DEF Touch
<1>9. CASE Rescope(p)
  <2> DEFINE k == [Idle EXCEPT !.pc = "stale", !.op = "rescope", !.rev = Len(revs)]
  <2>2. Len(revs) \in 1..Len(revs) /\ Len(revs) \in Nat
    BY <1>9, <1>i DEF Rescope
  <2>3. k \in CallType
    BY <1>j, <2>2 DEF CallType, Pcs, Ops
  <2>4. k.pc = "stale" /\ k.row = Idle.row /\ k.todo = {} /\ k.rev = Len(revs)
    BY <1>j DEF CallType
  <2>5. CallOK(k, revs, passed, decided)
    BY <2>2, <2>4, <1>j DEF CallOK
  <2> QED BY <1>9, <2>3, <2>5, BeginStep DEF Rescope
<1> QED BY <1>1, <1>2, <1>3, <1>4, <1>5, <1>6, <1>7, <1>8, <1>9 DEF Starts

\* The request is at most one step further, and reads nothing.
LEMMA AssessedOK ==
  ASSUME NEW rv, NEW ps, NEW dc, Len(rv) \in Nat, NEW k \in CallType, NEW r \in 1..Len(rv)
  PROVE  LET e == [Idle EXCEPT !.pc = "look", !.op = k.op, !.nr = k.nr, !.rev = r, !.weak = k.weak]
         IN  e \in CallType /\ CallOK(e, rv, ps, dc)
PROOF
<1> DEFINE e == [Idle EXCEPT !.pc = "look", !.op = k.op, !.nr = k.nr, !.rev = r, !.weak = k.weak]
<1>0. Idle \in CallType /\ CallOK(Idle, rv, ps, dc) /\ r \in Nat
  BY IdleOK
<1>1. Idle.todo = {} /\ Idle \in CallType
  BY <1>0 DEF Idle
<1>2. e \in CallType
  BY <1>0 DEF CallType, Pcs
<1>3. e.pc = "look" /\ e.row = Idle.row /\ e.todo = {} /\ e.rev = r
  BY <1>1 DEF CallType
<1> HIDE DEF e
<1>4. CallOK(e, rv, ps, dc)
  BY <1>0, <1>1, <1>3 DEF CallOK
<1> QED BY <1>2, <1>4 DEF e

LEMMA WriterStepsKeep ==
  ASSUME Inv, NEW p \in Calls,
         Prepare(p) \/ Write(p) \/ Refresh(p) \/ Number(p) \/ Insert(p) \/ Store(p)
  PROVE  Inv'
PROOF
<1>i. /\ Len(revs) \in Nat /\ revs \in Seq(RevType) /\ RowOK(section, revs, passed)
      /\ call[p] \in CallType /\ CallOK(call[p], revs, passed, decided)
      /\ Frame /\ Texted
  BY DEF Inv, Texted, RevsOK
<1>j. Idle \in CallType /\ CallOK(Idle, revs, passed, decided)
  BY <1>i, IdleOK
<1>k. /\ call[p].rev \in Nat /\ call[p].text \in SUBSET Statements
      /\ call[p].row \in Rows /\ call[p].todo \in SUBSET Claims /\ call[p].pc \in Pcs
  BY <1>i DEF CallType
<1>2. CASE Prepare(p)
  <2> DEFINE k == [call[p] EXCEPT !.pc = "write", !.weak = weak]
  <2>1. call' = [call EXCEPT ![p] = k]
    BY <1>2, <1>i DEF Prepare, CallType, Inv
  <2>2. k \in CallType
    BY <1>i DEF CallType, Pcs, Frame
  <2>3. k.pc = "write" /\ k.row = call[p].row /\ k.todo = call[p].todo /\ k.rev = call[p].rev
    BY <1>i DEF CallType
  <2>4. call[p].row.status # "APPROVED"
    BY <1>2, <1>i DEF CallOK, Prepare
  <2>5. CallOK(k, revs, passed, decided)
    BY <2>3, <2>4, <1>i DEF CallOK
  <2>6. Frame'
    BY <1>2, <1>i DEF Prepare, Frame
  <2> QED BY <2>1, <2>2, <2>5, <2>6, <1>2, QuietStep DEF Prepare
<1>3. CASE Write(p)
  <2>1. PICK text \in Texts :
          call' = [call EXCEPT ![p] =
                  IF @.op = "regenerate"
                  THEN [@ EXCEPT !.pc = "refresh", !.text = text]
                  ELSE [@ EXCEPT !.pc = "number", !.text = text, !.weak = weak]]
    BY <1>3 DEF Write
  <2>2. text \in SUBSET Statements
    BY AssuranceAssumption
  <2>3. Frame'
    BY <1>3, <1>i DEF Write, Frame
  <2>4. CASE call[p].op = "regenerate"
    <3> DEFINE k == [call[p] EXCEPT !.pc = "refresh", !.text = text]
    <3>1. k \in CallType
      BY <1>i, <2>2 DEF CallType, Pcs
    <3>2. k.pc = "refresh" /\ k.row = call[p].row /\ k.todo = call[p].todo /\ k.rev = call[p].rev
      BY <1>i DEF CallType
    <3>3. CallOK(k, revs, passed, decided)
      BY <3>2, <1>i DEF CallOK
    <3>4. call' = [call EXCEPT ![p] = k]
      BY <2>1, <2>4 DEF Inv
    <3> QED BY <3>1, <3>3, <3>4, <2>3, <1>3, QuietStep DEF Write
  <2>5. CASE call[p].op # "regenerate"
    <3> DEFINE k == [call[p] EXCEPT !.pc = "number", !.text = text, !.weak = weak]
    <3>1. k \in CallType
      BY <1>i, <2>2 DEF CallType, Pcs, Frame
    <3>2. k.pc = "number" /\ k.row = call[p].row /\ k.todo = call[p].todo /\ k.rev = call[p].rev
      BY <1>i DEF CallType
    <3>3. call[p].row.status # "APPROVED"
      BY <1>3, <1>i DEF CallOK, Write
    <3>4. CallOK(k, revs, passed, decided)
      BY <3>2, <3>3, <1>i DEF CallOK
    <3>5. call' = [call EXCEPT ![p] = k]
      BY <2>1, <2>5 DEF Inv
    <3> QED BY <3>1, <3>4, <3>5, <2>3, <1>3, QuietStep DEF Write
  <2> QED BY <2>4, <2>5
<1>4. CASE Refresh(p)
  <2>1. Frame'
    BY <1>4, <1>i DEF Refresh, Frame
  <2>2. CASE open
    <3> DEFINE k == [call[p] EXCEPT !.pc = "number", !.row = Reset(section)]
    <3>1. RowOK(Reset(section), revs, passed) /\ Reset(section).status # "APPROVED" /\ Reset(section) \in Rows
      BY <1>i, ResetOK DEF RowOK
    <3>2. k \in CallType
      BY <1>i, <3>1 DEF CallType, Pcs
    <3>3. k.pc = "number" /\ k.row = Reset(section) /\ k.todo = call[p].todo /\ k.rev = call[p].rev
      BY <1>i DEF CallType
    <3>4. CallOK(k, revs, passed, decided)
      BY <3>1, <3>3, <1>i DEF CallOK
    <3>5. call' = [call EXCEPT ![p] = k]
      BY <1>4, <2>2, <1>i DEF Refresh, CallType, Inv
    <3> QED BY <3>2, <3>4, <3>5, <2>1, <1>4, QuietStep DEF Refresh
  <2>3. CASE ~ open
    BY <2>1, <2>3, <1>4, QuietReturn DEF Refresh
  <2> QED BY <2>2, <2>3
<1>5. CASE Number(p)
  <2> DEFINE k == [call[p] EXCEPT !.pc = "insert", !.rev = Len(revs) + 1]
  <2>1. call' = [call EXCEPT ![p] = k]
    BY <1>5, <1>i DEF Number, CallType, Inv
  <2>n. Len(revs) + 1 \in Nat
    BY <1>i
  <2>2. k \in CallType
    BY <1>i, <2>n DEF CallType, Pcs
  <2>3. k.pc = "insert" /\ k.row = call[p].row /\ k.todo = call[p].todo /\ k.rev = Len(revs) + 1
    BY <1>i DEF CallType
  <2>4. call[p].row.status # "APPROVED"
    BY <1>5, <1>i DEF CallOK, Number
  <2>5. CallOK(k, revs, passed, decided)
    BY <2>3, <2>4, <1>i DEF CallOK
  <2>6. Frame'
    BY <1>5, <1>i DEF Number, Frame
  <2> QED BY <2>1, <2>2, <2>5, <2>6, <1>5, QuietStep DEF Number
<1>6. CASE Insert(p)
  <2>1. Frame' /\ call[p].pc = "insert" /\ call[p].row.status # "APPROVED" /\ call[p].rev \in 1..(Len(revs) + 1)
    BY <1>6, <1>i DEF Insert, Frame, CallOK
  <2>2. CASE call[p].rev <= Len(revs)
    <3> DEFINE k == [call[p] EXCEPT !.pc = "number"]
    <3>1. call' = [call EXCEPT ![p] = k] /\ UNCHANGED revs
      BY <1>6, <2>2, <1>i DEF Insert, Goes, CallType, Inv
    <3>2. k \in CallType
      BY <1>i DEF CallType, Pcs
    <3>3. k.pc = "number" /\ k.row = call[p].row /\ k.todo = call[p].todo /\ k.rev = call[p].rev
      BY <1>i DEF CallType
    <3>4. CallOK(k, revs, passed, decided)
      BY <3>3, <2>1, <1>i DEF CallOK
    <3> QED BY <3>1, <3>2, <3>4, <2>1, <1>6, QuietStep DEF Insert
  <2>3. CASE ~ (call[p].rev <= Len(revs))
    <3> DEFINE k == [call[p] EXCEPT !.pc = "store"]
               e == [text |-> call[p].text, state |-> "UNASSESSED"]
    <3>1. call' = [call EXCEPT ![p] = k] /\ revs' = Append(revs, e)
      BY <1>6, <2>3, <1>i DEF Insert, Goes, CallType, Inv
    <3>2. k \in CallType
      BY <1>i DEF CallType, Pcs
    <3>3. k.pc = "store" /\ k.row = call[p].row /\ k.todo = call[p].todo /\ k.rev = call[p].rev /\ k.text = call[p].text
      BY <1>i DEF CallType
    <3>4. e \in RevType /\ e.text = call[p].text /\ e.state # "CURRENT"
      BY <1>k DEF RevType, States
    <3>5. /\ revs' \in Seq(RevType) /\ Len(revs') = Len(revs) + 1 /\ revs'[Len(revs) + 1] = e
          /\ \A r \in 1..Len(revs) : revs'[r] = revs[r]
      BY <3>1, <3>4, <1>i
    <3>6. call[p].rev = Len(revs) + 1
      BY <2>1, <2>3, <1>i
    <3>7. /\ RevsOK(revs', passed') /\ Grows(revs, passed, decided, revs', passed', decided')
      BY <3>4, <3>5, <1>6, <1>i DEF RevsOK, Grows, Texted, Insert
    <3>8. RowOK(section', revs', passed') /\ \A c \in claims' : ClaimOK(c, revs', decided')
      BY <3>5, <3>7, <1>6, <1>i, RowKept, ClaimKept DEF Insert, Texted
    <3>9. Texted'
      BY <3>7, <3>8, <1>6, <1>i DEF Texted, Insert
    <3>10. CallOK(call[p], revs', passed', decided')
      BY <3>5, <3>7, <1>i, CallKept
    <3>11. CallOK(k, revs', passed', decided')
      BY <3>3, <3>4, <3>5, <3>6, <3>10, <2>1 DEF CallOK
    <3> QED BY <3>1, <3>2, <3>7, <3>9, <3>11, <2>1, StepOK
  <2> QED BY <2>2, <2>3
<1>7. CASE Store(p)
  <2>1. Frame' /\ call[p].row.status # "APPROVED" /\ call[p].rev \in 1..Len(revs) /\ revs[call[p].rev].text = call[p].text
    BY <1>7, <1>i DEF Store, Frame, CallOK
  <2>2. section' = WithText(call[p].row, call[p].text, call[p].rev)
    BY <1>7 DEF Store
  <2>3. RowOK(section', revs', passed')
    BY <2>1, <2>2, <1>7, <1>k DEF WithText, Store, RowOK, Rows, Statuses
  <2>4. Texted' /\ Grows(revs, passed, decided, revs', passed', decided')
    BY <2>3, <1>7, <1>i DEF Store, Texted, Grows
  <2>5. LET e == [Idle EXCEPT !.pc = "look", !.op = call[p].op, !.nr = call[p].nr, !.rev = call[p].rev, !.weak = call[p].weak]
        IN  e \in CallType /\ CallOK(e, revs, passed, decided)
    BY <2>1, <1>i, AssessedOK
  <2> QED BY <2>1, <2>4, <2>5, <1>7, StepOK DEF Store, Assesses
<1> QED BY <1>2, <1>3, <1>4, <1>5, <1>6, <1>7

LEMMA AssessmentStepsKeep ==
  ASSUME Inv, NEW p \in Calls,
         Look(p) \/ Recall(p) \/ Clear(p) \/ Save(p) \/ Conclude(p) \/ Review(p)
  PROVE  Inv'
PROOF
<1>i. /\ Len(revs) \in Nat /\ revs \in Seq(RevType) /\ RowOK(section, revs, passed)
      /\ call[p] \in CallType /\ CallOK(call[p], revs, passed, decided)
      /\ Frame /\ Texted
  BY DEF Inv, Texted, RevsOK
<1>f. Frame' /\ (call[p].pc # "review" => call[p].rev \in 1..Len(revs))
  BY <1>i DEF Frame, CallOK, Look, Recall, Clear, Save, Conclude, Review
<1>k. /\ call[p].rev \in Nat /\ call[p].nr \in Nat /\ call[p].weak \in SUBSET Statements
      /\ call[p].row \in Rows /\ call[p].todo \in SUBSET Claims /\ call[p].pc \in Pcs
  BY <1>i DEF CallType
<1>v. \A r \in 1..Len(revs) : revs[r] \in RevType
  BY <1>i
<1>w. \A r \in 1..Len(revs) : revs[r].state \in States /\ revs[r].text \in SUBSET Statements
  BY <1>v DEF RevType
<1>c. call \in [Calls -> CallType]
  BY DEF Inv
<1>1. CASE Look(p)
  <2> DEFINE w == IF call[p].op \in {"rewrite", "regenerate"} THEN call[p].weak ELSE weak
             k == [call[p] EXCEPT !.pc = "recall", !.row = section, !.state = revs[call[p].rev].state, !.weak = w]
  <2>1. call' = [call EXCEPT ![p] = k]
    BY <1>1, <1>c DEF Look
  <2>2. w \in SUBSET Statements /\ section \in Rows /\ revs[call[p].rev].state \in States
    <3>1. call[p].rev \in 1..Len(revs)
      BY <1>f, <1>1 DEF Look
    <3> QED BY <3>1, <1>w, <1>i, <1>k DEF Frame, RowOK
  <2>3. k \in CallType
    BY <1>i, <2>2 DEF CallType, Pcs
  <2>4. k.pc = "recall" /\ k.row = section /\ k.todo = call[p].todo /\ k.rev = call[p].rev
    BY <1>i DEF CallType
  <2>5. CallOK(k, revs, passed, decided)
    BY <2>4, <1>1, <1>f, <1>i DEF CallOK, Look
  <2> QED BY <2>1, <2>3, <2>5, <1>1, <1>f, QuietStep DEF Look
<1>2. CASE Recall(p)
  <2> DEFINE batch == Extracted(call[p], revs[call[p].rev].text, Settled)
             k == [call[p] EXCEPT !.pc = "clear", !.weak = {}, !.todo = batch, !.blocked = Failing(batch) # {}]
  <2>1. call' = [call EXCEPT ![p] = k]
    BY <1>2, <1>i DEF Recall, Recalls, CallType, Inv
  <2>2. revs[call[p].rev].text \subseteq Statements /\ call[p].rev \in 1..Len(revs)
    BY <1>w, <1>f, <1>2 DEF Recall
  <2>3. Settled \subseteq decided
    BY <1>i DEF Settled, Texted, ClaimOK
  <2>4. \A c \in batch : ClaimOK(c, revs, decided)
    <3> SUFFICES ASSUME NEW s \in revs[call[p].rev].text
                 PROVE  ClaimOK([stmt |-> s, rev |-> call[p].rev, by |-> call[p].nr, ok |-> s \notin call[p].weak,
                                 resolved |-> s \in Settled], revs, decided)
      BY DEF Extracted
    <3> DEFINE c == [stmt |-> s, rev |-> call[p].rev, by |-> call[p].nr, ok |-> s \notin call[p].weak,
                     resolved |-> s \in Settled]
    <3>1. s \in Statements /\ (s \notin call[p].weak) \in BOOLEAN /\ (s \in Settled) \in BOOLEAN
      BY <2>2
    <3>2. c \in Claims
      BY <3>1, <1>k DEF Claims
    <3>3. c.rev = call[p].rev /\ c.stmt = s /\ (c.resolved => s \in decided)
      BY <2>3
    <3> QED BY <3>2, <3>3, <2>2 DEF ClaimOK
  <2>5. batch \in SUBSET Claims
    BY <2>4 DEF ClaimOK
  <2>6. k \in CallType
    BY <1>i, <2>5 DEF CallType, Pcs
  <2>7. k.pc = "clear" /\ k.row = call[p].row /\ k.todo = batch /\ k.rev = call[p].rev
    BY <1>i DEF CallType
  <2>8. CallOK(k, revs, passed, decided)
    BY <2>2, <2>4, <2>7, <1>i DEF CallOK
  <2> QED BY <2>1, <2>6, <2>8, <1>2, <1>f, QuietStep DEF Recall
<1>3. CASE Clear(p)
  <2> DEFINE pc == IF call[p].todo = {} THEN "conclude" ELSE "save"
             k  == [call[p] EXCEPT !.pc = pc]
  <2>1. call' = [call EXCEPT ![p] = k]
    BY <1>3, <1>i DEF Clear, Goes, CallType, Inv
  <2>2. k \in CallType
    BY <1>i DEF CallType, Pcs
  <2>3. k.pc \in {"conclude", "save"} /\ k.row = call[p].row /\ k.todo = call[p].todo /\ k.rev = call[p].rev
    BY <1>i DEF CallType
  <2>4. CallOK(k, revs, passed, decided)
    BY <2>3, <1>3, <1>f, <1>i DEF CallOK, Clear
  <2>5. Texted' /\ Grows(revs, passed, decided, revs', passed', decided')
    BY <1>3, <1>i DEF Clear, Texted, Grows
  <2> QED BY <2>1, <2>2, <2>4, <2>5, <1>3, <1>f, StepOK DEF Clear
<1>4. CASE Save(p)
  <2>1. PICK c \in call[p].todo :
       /\ claims' = claims \cup {c}
       /\ call' = [call EXCEPT ![p] = [@ EXCEPT !.todo = call[p].todo \ {c},
                                 !.pc = IF call[p].todo = {c} THEN "conclude" ELSE "save"]]
    BY <1>4 DEF Save
  <2> DEFINE k == [call[p] EXCEPT !.todo = call[p].todo \ {c},
                                  !.pc = IF call[p].todo = {c} THEN "conclude" ELSE "save"]
  <2>2. call' = [call EXCEPT ![p] = k]
    BY <2>1, <1>c
  <2>3. k \in CallType
    BY <1>i, <1>k DEF CallType, Pcs
  <2>4. k.pc \in {"conclude", "save"} /\ k.row = call[p].row /\ k.todo = call[p].todo \ {c} /\ k.rev = call[p].rev
    BY <1>i DEF CallType
  <2>5. CallOK(k, revs, passed, decided) /\ ClaimOK(c, revs, decided)
    BY <2>4, <1>4, <1>f, <1>i DEF CallOK, Save
  <2>6. Texted' /\ Grows(revs, passed, decided, revs', passed', decided')
    <3>1. UNCHANGED <<section, revs, passed, decided>> /\ claims' = claims \cup {c}
      BY <1>4, <2>1 DEF Save
    <3>2. \A d \in claims' : ClaimOK(d, revs', decided')
      BY <3>1, <2>5, <1>i DEF Texted
    <3> QED BY <3>1, <3>2, <1>i DEF Texted, Grows
  <2> QED BY <2>2, <2>3, <2>5, <2>6, <1>4, <1>f, StepOK DEF Save
<1>5. CASE Conclude(p)
  <2> DEFINE r == call[p].rev
             moved(st) == [revs EXCEPT ![r].state = st]
  <2>1. r \in 1..Len(revs)
    BY <1>5, <1>f DEF Conclude
  <2>2. ASSUME NEW st \in States
        PROVE  /\ moved(st) \in Seq(RevType) /\ Len(moved(st)) = Len(revs)
               /\ \A q \in 1..Len(revs) : moved(st)[q].text = revs[q].text
               /\ moved(st)[r].state = st
               /\ \A q \in 1..Len(revs) \ {r} : moved(st)[q] = revs[q]
    <3>1. [revs[r] EXCEPT !.state = st] \in RevType /\ revs[r] \in RevType
      BY <1>v, <2>1 DEF RevType
    <3>2. moved(st) = [revs EXCEPT ![r] = [revs[r] EXCEPT !.state = st]]
      BY <1>i, <2>1
    <3>3. /\ moved(st) \in Seq(RevType) /\ Len(moved(st)) = Len(revs)
          /\ moved(st)[r] = [revs[r] EXCEPT !.state = st]
          /\ \A q \in 1..Len(revs) \ {r} : moved(st)[q] = revs[q]
      BY <3>1, <3>2, <1>i, <2>1
    <3>4. moved(st)[r].state = st /\ moved(st)[r].text = revs[r].text
      BY <3>1, <3>3 DEF RevType
    <3> QED BY <3>3, <3>4
  <2>3. CASE ~ call[p].blocked
    <3>1. revs' = moved("CURRENT") /\ passed' = passed \cup {r} /\ Returns(p)
      BY <1>5, <2>3 DEF Conclude
    <3>2. RevsOK(revs', passed') /\ Grows(revs, passed, decided, revs', passed', decided')
      <4>1. UNCHANGED decided /\ RevsOK(revs, passed)
        BY <1>5, <1>i DEF Conclude, Texted
      <4>2. "CURRENT" \in States
        BY DEF States
      <4>3. /\ revs' \in Seq(RevType) /\ Len(revs') = Len(revs)
            /\ \A q \in 1..Len(revs) : revs'[q].text = revs[q].text
            /\ revs'[r].state = "CURRENT"
            /\ \A q \in 1..Len(revs) \ {r} : revs'[q] = revs[q]
        BY <3>1, <4>2, <2>2
      <4> QED BY <3>1, <4>1, <4>3, <2>1, <1>i DEF RevsOK, Grows
    <3>3. RowOK(section', revs', passed') /\ \A c \in claims' : ClaimOK(c, revs', decided')
      BY <3>2, <1>5, <1>i, RowKept, ClaimKept DEF Conclude, Texted, RevsOK
    <3>4. Texted'
      BY <3>2, <3>3, <1>5, <1>i DEF Texted, Conclude
    <3> QED BY <3>1, <3>2, <3>4, <1>f, ReturnStep
  <2>4. CASE call[p].blocked /\ call[p].state = "CURRENT"
    BY <2>4, <1>5, <1>f, QuietReturn DEF Conclude
  <2>5. CASE call[p].blocked /\ call[p].state # "CURRENT"
    <3>1. revs' = moved("FAILED") /\ UNCHANGED passed /\ Goes(p, "review")
      BY <1>5, <2>5 DEF Conclude
    <3>2. RevsOK(revs', passed') /\ Grows(revs, passed, decided, revs', passed', decided')
      <4>1. UNCHANGED decided /\ RevsOK(revs, passed)
        BY <1>5, <1>i DEF Conclude, Texted
      <4>2. "FAILED" \in States
        BY DEF States
      <4>3. /\ revs' \in Seq(RevType) /\ Len(revs') = Len(revs)
            /\ \A q \in 1..Len(revs) : revs'[q].text = revs[q].text
            /\ revs'[r].state = "FAILED"
            /\ \A q \in 1..Len(revs) \ {r} : revs'[q] = revs[q]
        BY <3>1, <4>2, <2>2
      <4> QED BY <3>1, <4>1, <4>3, <2>1, <1>i DEF RevsOK, Grows
    <3>3. RowOK(section', revs', passed') /\ \A c \in claims' : ClaimOK(c, revs', decided')
      BY <3>2, <1>5, <1>i, RowKept, ClaimKept DEF Conclude, Texted, RevsOK
    <3>4. Texted'
      BY <3>2, <3>3, <1>5, <1>i DEF Texted, Conclude
    <3> DEFINE k == [call[p] EXCEPT !.pc = "review"]
    <3>5. call' = [call EXCEPT ![p] = k]
      BY <3>1, <1>i DEF Goes, CallType, Inv
    <3>6. k \in CallType
      BY <1>i DEF CallType, Pcs
    <3>7. k.pc = "review" /\ k.row = call[p].row /\ k.todo = call[p].todo /\ k.rev = call[p].rev
      BY <1>i DEF CallType
    <3>8. CallOK(call[p], revs', passed', decided')
      BY <3>2, <1>i, CallKept DEF RevsOK
    <3>9. CallOK(k, revs', passed', decided')
      BY <3>7, <3>8 DEF CallOK
    <3> QED BY <3>2, <3>4, <3>5, <3>6, <3>9, <1>f, StepOK
  <2> QED BY <2>3, <2>4, <2>5
<1>6. CASE Review(p)
  <2>1. section' = [call[p].row EXCEPT !.status = "NEEDS_REVIEW"] /\ Returns(p)
    BY <1>6 DEF Review
  <2>2. RowOK(section', revs', passed')
    BY <2>1, <1>6, <1>i DEF Review, CallOK, RowOK, Rows, Statuses
  <2>3. Texted' /\ Grows(revs, passed, decided, revs', passed', decided')
    BY <2>2, <1>6, <1>i DEF Review, Texted, Grows
  <2> QED BY <2>1, <2>3, <1>f, ReturnStep
<1> QED BY <1>1, <1>2, <1>3, <1>4, <1>5, <1>6

LEMMA DecisionStepsKeep ==
  ASSUME Inv, NEW p \in Calls,
         StoreDecision(p) \/ Target(p) \/ StoreReopening(p) \/ Check(p) \/ Seal(p) \/ StoreTouched(p) \/ MarkStale(p)
  PROVE  Inv'
PROOF
<1>i. /\ Len(revs) \in Nat /\ revs \in Seq(RevType) /\ RowOK(section, revs, passed)
      /\ call[p] \in CallType /\ CallOK(call[p], revs, passed, decided)
      /\ Frame /\ Texted
  BY DEF Inv, Texted, RevsOK
<1>f. Frame'
  BY <1>i DEF Frame, StoreDecision, Target, StoreReopening, Check, Seal, StoreTouched, MarkStale
<1>c. call \in [Calls -> CallType]
  BY DEF Inv
<1>k. /\ call[p].rev \in Nat /\ call[p].row \in Rows /\ call[p].todo \in SUBSET Claims /\ call[p].pc \in Pcs
  BY <1>i DEF CallType
\* Claims that keep their statement and revision.
<1>u. ASSUME NEW c \in call[p].todo, NEW d \in Claims, d.stmt = c.stmt, d.rev = c.rev,
             d.resolved => d.stmt \in decided', Updates(d),
             UNCHANGED <<section, revs, passed>>, decided \subseteq decided', decided' \subseteq Statements
      PROVE  Texted' /\ Grows(revs, passed, decided, revs', passed', decided')
  <2>1. Grows(revs, passed, decided, revs', passed', decided')
    BY <1>u, <1>i DEF Grows
  <2>2. ClaimOK(c, revs, decided)
    BY <1>i DEF CallOK
  <2>3. ClaimOK(d, revs', decided')
    BY <2>2, <1>u DEF ClaimOK
  <2>4. \A e \in claims : ClaimOK(e, revs', decided')
    BY <2>1, <1>i, <1>u, ClaimKept DEF Texted
  <2>5. \A e \in claims' : ClaimOK(e, revs', decided')
    BY <2>3, <2>4, <1>u DEF Updates
  <2> QED BY <2>1, <2>5, <1>u, <1>i DEF Texted
<1>1. CASE StoreDecision(p)
  <2>1. PICK c \in call[p].todo :
       IF Exists(c)
       THEN /\ Updates([c EXCEPT !.ok = FALSE, !.resolved = TRUE])
            /\ decided' = decided \cup {c.stmt}
            /\ call' = [call EXCEPT ![p].pc = "target", ![p].todo = {}]
       ELSE Returns(p) /\ UNCHANGED <<claims, decided>>
    BY <1>1 DEF StoreDecision
  <2>2. CASE Exists(c)
    <3> DEFINE d == [c EXCEPT !.ok = FALSE, !.resolved = TRUE]
               k == [call[p] EXCEPT !.pc = "target", !.todo = {}]
    <3>1. d \in Claims /\ d.stmt = c.stmt /\ d.rev = c.rev /\ c.stmt \in Statements
      BY <1>k DEF Claims
    <3>2. Updates(d) /\ decided' = decided \cup {c.stmt} /\ UNCHANGED <<section, revs, passed>>
      BY <2>1, <2>2, <1>1 DEF StoreDecision
    <3>3. decided' \subseteq Statements /\ decided \subseteq decided' /\ (d.resolved => d.stmt \in decided')
      BY <3>1, <3>2, <1>i DEF Texted
    <3>4. Texted' /\ Grows(revs, passed, decided, revs', passed', decided')
      BY <3>1, <3>2, <3>3, <1>u
    <3>5. call' = [call EXCEPT ![p] = k]
      BY <2>1, <2>2, <1>c, <1>i DEF CallType
    <3>6. k \in CallType
      BY <1>i DEF CallType, Pcs
    <3>7. k.pc = "target" /\ k.row = call[p].row /\ k.todo = {} /\ k.rev = call[p].rev
      BY <1>i DEF CallType
    <3>8. CallOK(call[p], revs', passed', decided')
      BY <3>2, <3>4, <1>i, CallKept
    <3>9. CallOK(k, revs', passed', decided')
      BY <3>7, <3>8 DEF CallOK
    <3> QED BY <3>4, <3>5, <3>6, <3>9, <1>f, StepOK
  <2>3. CASE ~ Exists(c)
    BY <2>1, <2>3, <1>1, <1>f, QuietReturn DEF StoreDecision
  <2> QED BY <2>2, <2>3
<1>2. CASE Target(p)
  <2>1. CASE section.rev = 0
    BY <2>1, <1>2, <1>f, QuietReturn DEF Target
  <2>2. CASE section.rev # 0
    <3>1. section.rev \in 1..Len(revs) /\ Assesses(p, call[p], section.rev)
      BY <2>2, <1>2, <1>i DEF RowOK, Target
    <3>2. LET e == [Idle EXCEPT !.pc = "look", !.op = call[p].op, !.nr = call[p].nr, !.rev = section.rev, !.weak = call[p].weak]
          IN  e \in CallType /\ CallOK(e, revs, passed, decided)
      BY <3>1, <1>i, AssessedOK
    <3> QED BY <3>1, <3>2, <1>2, <1>f, QuietStep DEF Target, Assesses
  <2> QED BY <2>1, <2>2
<1>3. CASE StoreReopening(p)
  <2>1. PICK c \in call[p].todo :
       IF ~ Exists(c)
       THEN Returns(p) /\ UNCHANGED claims
       ELSE /\ Updates([c EXCEPT !.resolved = FALSE])
            /\ IF call[p].todo = {c} /\ call[p].rev = 0 THEN Returns(p)
               ELSE IF call[p].todo = {c} THEN Assesses(p, call[p], call[p].rev)
               ELSE call' = [call EXCEPT ![p].todo = @ \ {c}]
    BY <1>3 DEF StoreReopening
  <2>2. CASE ~ Exists(c)
    BY <2>1, <2>2, <1>3, <1>f, QuietReturn DEF StoreReopening
  <2>3. CASE Exists(c)
    <3> DEFINE d == [c EXCEPT !.resolved = FALSE]
    <3>1. d \in Claims /\ d.stmt = c.stmt /\ d.rev = c.rev /\ ~ d.resolved
      BY <1>k DEF Claims
    <3>2. Updates(d) /\ UNCHANGED <<section, revs, passed, decided>>
      BY <2>1, <2>3, <1>3 DEF StoreReopening
    <3>3. Texted' /\ Grows(revs, passed, decided, revs', passed', decided')
      BY <3>1, <3>2, <1>u, <1>i DEF Texted
    <3>4. CASE Returns(p)
      BY <3>3, <3>4, <1>f, ReturnStep
    <3>5. CASE call[p].rev # 0 /\ Assesses(p, call[p], call[p].rev)
      <4>1. call[p].rev \in 1..Len(revs)
        BY <3>5, <1>3, <1>i DEF StoreReopening, CallOK
      <4>2. LET e == [Idle EXCEPT !.pc = "look", !.op = call[p].op, !.nr = call[p].nr, !.rev = call[p].rev, !.weak = call[p].weak]
            IN  e \in CallType /\ CallOK(e, revs, passed, decided)
        BY <4>1, <1>i, AssessedOK
      <4> QED BY <3>2, <3>3, <3>5, <4>2, <1>f, StepOK DEF Assesses
    <3>6. CASE call' = [call EXCEPT ![p].todo = @ \ {c}]
      <4> DEFINE k == [call[p] EXCEPT !.todo = call[p].todo \ {c}]
      <4>1. call' = [call EXCEPT ![p] = k]
        BY <3>6, <1>c, <1>i DEF CallType
      <4>2. k \in CallType
        BY <1>i, <1>k DEF CallType
      <4>3. k.pc = call[p].pc /\ k.row = call[p].row /\ k.todo = call[p].todo \ {c} /\ k.rev = call[p].rev /\ k.text = call[p].text
        BY <1>i DEF CallType
      <4>4. CallOK(k, revs, passed, decided)
        BY <4>3, <1>i DEF CallOK
      <4> QED BY <3>2, <3>3, <4>1, <4>2, <4>4, <1>f, StepOK
    <3> QED BY <2>1, <2>3, <3>4, <3>5, <3>6
  <2> QED BY <2>2, <2>3
<1>4. CASE Check(p)
  <2>1. CASE revs[call[p].row.rev].state = "CURRENT" /\ Failing(claims) = {}
    <3> DEFINE k == [call[p] EXCEPT !.pc = "seal"]
    <3>1. call' = [call EXCEPT ![p] = k]
      BY <2>1, <1>4, <1>c, <1>i DEF Check, Goes, CallType
    <3>2. k \in CallType
      BY <1>i DEF CallType, Pcs
    <3>3. k.pc = "seal" /\ k.row = call[p].row /\ k.todo = call[p].todo /\ k.rev = call[p].rev
      BY <1>i DEF CallType
    <3>4. call[p].row.rev \in 1..Len(revs)
      BY <1>4, <1>i DEF Check, CallOK, RowOK
    <3>5. call[p].row.rev \in passed
      BY <2>1, <3>4, <1>i DEF Texted, RevsOK
    <3>6. CallOK(k, revs, passed, decided)
      BY <3>3, <3>5, <1>i DEF CallOK
    <3> QED BY <3>1, <3>2, <3>6, <1>4, <1>f, QuietStep DEF Check
  <2>2. CASE ~ (revs[call[p].row.rev].state = "CURRENT" /\ Failing(claims) = {})
    BY <2>2, <1>4, <1>f, QuietReturn DEF Check
  <2> QED BY <2>1, <2>2
<1>5. CASE Seal(p)
  <2>1. section' = [call[p].row EXCEPT !.status = "APPROVED"] /\ Returns(p)
    BY <1>5 DEF Seal
  <2>2. RowOK(section', revs', passed')
    BY <2>1, <1>5, <1>i DEF Seal, CallOK, RowOK, Rows, Statuses
  <2>3. Texted' /\ Grows(revs, passed, decided, revs', passed', decided')
    BY <2>2, <1>5, <1>i DEF Seal, Texted, Grows
  <2> QED BY <2>1, <2>3, <1>f, ReturnStep
<1>6. CASE StoreTouched(p)
  <2>1. section' = call[p].row /\ Returns(p)
    BY <1>6 DEF StoreTouched
  <2>2. RowOK(section', revs', passed')
    BY <2>1, <1>6, <1>i DEF StoreTouched, CallOK
  <2>3. Texted' /\ Grows(revs, passed, decided, revs', passed', decided')
    BY <2>2, <1>6, <1>i DEF StoreTouched, Texted, Grows
  <2> QED BY <2>1, <2>3, <1>f, ReturnStep
<1>7. CASE MarkStale(p)
  <2> DEFINE r == call[p].rev
             m == [revs EXCEPT ![r].state = "STALE"]
  <2>1. r \in 1..Len(revs) /\ revs' = m /\ Returns(p) /\ UNCHANGED <<section, claims, passed, decided>>
    BY <1>7, <1>i DEF MarkStale, CallOK
  <2>2. [revs[r] EXCEPT !.state = "STALE"] \in RevType /\ revs[r] \in RevType
    <3>1. revs[r] \in RevType
      BY <2>1, <1>i
    <3> QED BY <3>1 DEF RevType, States
  <2>3. m = [revs EXCEPT ![r] = [revs[r] EXCEPT !.state = "STALE"]]
    BY <1>i, <2>1
  <2>4. /\ m \in Seq(RevType) /\ Len(m) = Len(revs)
        /\ m[r] = [revs[r] EXCEPT !.state = "STALE"]
        /\ \A q \in 1..Len(revs) \ {r} : m[q] = revs[q]
    BY <2>1, <2>2, <2>3, <1>i
  <2>5. m[r].state = "STALE" /\ m[r].text = revs[r].text
    BY <2>2, <2>4 DEF RevType
  <2>6. RevsOK(revs', passed') /\ Grows(revs, passed, decided, revs', passed', decided')
    <3>1. RevsOK(revs, passed)
      BY <1>i DEF Texted
    <3>2. /\ revs' \in Seq(RevType) /\ Len(revs') = Len(revs) /\ UNCHANGED <<passed, decided>>
          /\ \A q \in 1..Len(revs) \ {r} : revs'[q] = revs[q]
          /\ revs'[r].state = "STALE" /\ revs'[r].text = revs[r].text /\ r \in 1..Len(revs)
      <4> HIDE DEF m, r
      <4> QED BY <2>1, <2>4, <2>5
    <3> HIDE DEF m, r
    <3> QED BY <3>1, <3>2, <1>i DEF RevsOK, Grows
  <2>7. RowOK(section', revs', passed') /\ \A c \in claims' : ClaimOK(c, revs', decided')
    <3>1. Len(revs') \in Nat /\ UNCHANGED <<section, claims>>
      BY <2>6, <1>7 DEF RevsOK, MarkStale
    <3>2. Grows(revs, passed, decided, revs', passed', decided')
      BY <2>6
    <3>3. RowOK(section, revs', passed')
      BY <3>1, <3>2, <1>i, RowKept
    <3>4. \A c \in claims : ClaimOK(c, revs', decided')
      BY <3>1, <3>2, <1>i, ClaimKept DEF Texted
    <3> QED BY <3>1, <3>3, <3>4
  <2>8. Texted'
    BY <2>1, <2>6, <2>7, <1>i DEF Texted
  <2> QED BY <2>1, <2>6, <2>8, <1>f, ReturnStep
<1> QED BY <1>1, <1>2, <1>3, <1>4, <1>5, <1>6, <1>7

LEMMA InitOK == Init => Inv
PROOF
<1> SUFFICES ASSUME Init PROVE Inv
  OBVIOUS
<1>1. Frame
  BY AssuranceAssumption DEF Init, Frame
<1>2. Texted
  <2>1. CASE Blank
    <3>1. NoText \in Rows /\ NoText.rev = 0 /\ NoText.status # "APPROVED"
      BY DEF NoText, Rows, Statuses
    <3>2. revs \in Seq(RevType) /\ Len(revs) = 0 /\ passed = {} /\ decided = {} /\ claims = {} /\ section = NoText
      BY <2>1 DEF Blank
    <3> QED BY <3>1, <3>2 DEF Texted, RevsOK, RowOK
  <2>2. CASE Assessed
    <3>1. PICK text \in Texts, settled \in BOOLEAN, approved \in BOOLEAN :
            LET failed  == text \cap Unsupported
                blocked == failed # {} /\ ~ settled
            IN  /\ approved => ~ blocked
                /\ section = [text |-> text, rev |-> 1,
                              status |-> IF approved THEN "APPROVED"
                                         ELSE IF failed # {} THEN "NEEDS_REVIEW" ELSE "DRAFTED"]
                /\ revs = <<[text |-> text, state |-> IF blocked THEN "FAILED" ELSE "CURRENT"]>>
                /\ claims = {[stmt |-> s, rev |-> 1, by |-> 0, ok |-> s \notin failed,
                              resolved |-> settled /\ s \in failed] : s \in text}
                /\ passed = IF blocked THEN {} ELSE {1}
                /\ decided = IF settled THEN failed ELSE {}
      BY <2>2 DEF Assessed
    <3> DEFINE failed  == text \cap Unsupported
               blocked == failed # {} /\ ~ settled
               e == [text |-> text, state |-> IF blocked THEN "FAILED" ELSE "CURRENT"]
    <3>2. text \in SUBSET Statements
      BY AssuranceAssumption
    <3>3. e \in RevType /\ revs = <<e>>
      BY <3>1, <3>2 DEF RevType, States
    <3>4. revs \in Seq(RevType) /\ Len(revs) = 1 /\ revs[1] = e
      BY <3>3
    <3>5. RevsOK(revs, passed)
      BY <3>1, <3>4 DEF RevsOK
    <3>6. RowOK(section, revs, passed)
      <4>1. section \in Rows /\ section.rev = 1 /\ section.text = text
        BY <3>1, <3>2 DEF Rows, Statuses
      <4>2. section.status = "APPROVED" => 1 \in passed
        BY <3>1
      <4> QED BY <4>1, <4>2, <3>4 DEF RowOK
    <3>7. ASSUME NEW c \in claims PROVE ClaimOK(c, revs, decided)
      <4>1. PICK s \in text : c = [stmt |-> s, rev |-> 1, by |-> 0, ok |-> s \notin failed,
                                   resolved |-> settled /\ s \in failed]
        BY <3>1
      <4>2. s \in Statements /\ (s \notin failed) \in BOOLEAN /\ (settled /\ s \in failed) \in BOOLEAN
        BY <3>2
      <4>3. c \in Claims /\ c.rev = 1 /\ c.stmt = s
        BY <4>1, <4>2 DEF Claims
      <4>4. c.resolved => s \in decided
        BY <4>1, <3>1
      <4> QED BY <4>3, <4>4, <3>4 DEF ClaimOK
    <3>8. decided \subseteq Statements
      BY <3>1, <3>2
    <3> QED BY <3>5, <3>6, <3>7, <3>8 DEF Texted
  <2> QED BY <2>1, <2>2 DEF Init
<1>3. Len(revs) \in Nat
  BY <1>2 DEF Texted, RevsOK
<1>4. Idle \in CallType /\ CallOK(Idle, revs, passed, decided)
  BY <1>3, IdleOK
<1> QED BY <1>1, <1>2, <1>4 DEF Init, Inv

LEMMA NextKeeps == Inv /\ [Next]_vars => Inv'
PROOF
<1> SUFFICES ASSUME Inv, [Next]_vars PROVE Inv'
  OBVIOUS
<1>i. Frame /\ Texted /\ Len(revs) \in Nat /\ call \in [Calls -> CallType]
  BY DEF Inv, Texted, RevsOK
<1>1. ASSUME NEW p \in Calls, Starts(p) PROVE Inv'
  BY <1>1, StartsKeep
<1>2. ASSUME NEW p \in Calls, Continues(p) PROVE Inv'
  BY <1>2, WriterStepsKeep, AssessmentStepsKeep, DecisionStepsKeep DEF Continues
<1>3. ASSUME NEW p \in Calls, Fail(p) PROVE Inv'
  <2>1. Frame'
    BY <1>3, <1>i DEF Fail, Frame
  <2> QED BY <2>1, <1>3, QuietReturn DEF Fail
<1>5. CASE Close \/ Evidence \/ Elapse \/ UNCHANGED vars
  <2>1. UNCHANGED <<section, revs, claims, passed, decided, call>>
    BY <1>5 DEF Close, Evidence, Elapse, vars
  <2>2. weak' \subseteq Statements
    BY <1>5, <1>i DEF Close, Evidence, Elapse, vars, Frame
  <2>3. Frame'
    <3>1. open' \in BOOLEAN
      BY <1>5, <1>i DEF Close, Evidence, Elapse, vars, Frame
    <3>2. regens' \in Nat
      BY <1>5, <1>i DEF Close, Evidence, Elapse, vars, Frame
    <3>3. upsets' \in Nat /\ UNCHANGED started
      BY <1>5, <1>i DEF Close, Evidence, Elapse, vars, Frame
    <3> QED BY <3>1, <3>2, <3>3, <2>2, <1>i DEF Frame
  <2> QED BY <2>1, <2>3, <1>i DEF Inv, Texted
<1> QED BY <1>1, <1>2, <1>3, <1>5 DEF Next

(***************************************************************************)
(* The limit of regenerations                                              *)
(***************************************************************************)
\* Those that may still be counted were let in below the limit.
Waiting == {p \in Calls : call[p].pc = "prepare"}
Counted == regens + Cardinality(Waiting) < RegenLimit + Cardinality(Calls)

\* A step of a request that leaves it with no run to be counted.
Still(p) == /\ regens' = regens
            /\ \E k : call' = [call EXCEPT ![p] = k] /\ k.pc # "prepare"

LEMMA StartsStill ==
  ASSUME Inv, NEW p \in Calls, Starts(p)
  PROVE  /\ regens' = regens
         /\ \E k : call' = [call EXCEPT ![p] = k] /\ (k.pc = "prepare" => regens < RegenLimit)
PROOF
<1>j. Idle \in CallType
  BY IdleOK DEF Inv, Texted, RevsOK
<1>r. regens' = regens
  BY DEF Starts, Edit, Rewrite, Regenerate, Reassess, Decide, Reopen, Approve, Touch, Rescope
<1>t. section \in Rows /\ Reset(section) \in Rows /\ Texts \subseteq SUBSET Statements
      /\ claims \subseteq Claims /\ Len(revs) \in Nat
  <2>1. RowOK(section, revs, passed) /\ claims \subseteq Claims /\ Len(revs) \in Nat
    BY DEF Inv, Texted, ClaimOK, RevsOK
  <2>2. RowOK(Reset(section), revs, passed)
    BY <2>1, ResetOK
  <2> QED BY <2>1, <2>2, AssuranceAssumption DEF RowOK
<1>1. ASSUME NEW k \in CallType, Begins(p, k), k.pc # "prepare" \/ regens < RegenLimit
      PROVE  \E n : call' = [call EXCEPT ![p] = n] /\ (n.pc = "prepare" => regens < RegenLimit)
  <2> DEFINE n == [k EXCEPT !.nr = started + 1]
  <2>1. call' = [call EXCEPT ![p] = n] /\ n.pc = k.pc
    BY <1>1 DEF Begins, CallType
  <2> QED BY <2>1, <1>1
<1>2. CASE Edit(p)
  <2>1. PICK text \in Texts :
          Begins(p, [Idle EXCEPT !.pc = "number", !.op = "edit", !.row = Reset(section), !.text = text])
    BY <1>2 DEF Edit
  <2>2. [Idle EXCEPT !.pc = "number", !.op = "edit", !.row = Reset(section), !.text = text] \in CallType
    BY <1>j, <1>t DEF CallType, Pcs, Ops
  <2> QED BY <2>1, <2>2, <1>1, <1>r DEF CallType
<1>3. CASE Rewrite(p)
  <2>1. Begins(p, [Idle EXCEPT !.pc = "write", !.op = "rewrite", !.row = Reset(section)])
    BY <1>3 DEF Rewrite
  <2>2. [Idle EXCEPT !.pc = "write", !.op = "rewrite", !.row = Reset(section)] \in CallType
    BY <1>j, <1>t DEF CallType, Pcs, Ops
  <2> QED BY <2>1, <2>2, <1>1, <1>r DEF CallType
<1>4. CASE Regenerate(p)
  <2>1. Begins(p, [Idle EXCEPT !.pc = "prepare", !.op = "regenerate"]) /\ regens < RegenLimit
    BY <1>4 DEF Regenerate
  <2>2. [Idle EXCEPT !.pc = "prepare", !.op = "regenerate"] \in CallType
    BY <1>j DEF CallType, Pcs, Ops
  <2> QED BY <2>1, <2>2, <1>1, <1>r DEF CallType
<1>5. CASE Reassess(p)
  <2>1. PICK r \in Revs \ {0} : Begins(p, [Idle EXCEPT !.pc = "look", !.op = "reassess", !.rev = r])
    BY <1>5 DEF Reassess
  <2>2. r \in Nat
    BY <1>t DEF Revs
  <2>3. [Idle EXCEPT !.pc = "look", !.op = "reassess", !.rev = r] \in CallType
    BY <1>j, <2>2 DEF CallType, Pcs, Ops
  <2> QED BY <2>1, <2>3, <1>1, <1>r DEF CallType
<1>6. CASE Decide(p)
  <2>1. PICK c \in claims : Begins(p, [Idle EXCEPT !.pc = "decide", !.op = "decide", !.todo = {c}])
    BY <1>6 DEF Decide
  <2>2. [Idle EXCEPT !.pc = "decide", !.op = "decide", !.todo = {c}] \in CallType
    BY <1>j, <1>t DEF CallType, Pcs, Ops
  <2> QED BY <2>1, <2>2, <1>1, <1>r DEF CallType
<1>7. CASE Reopen(p)
  <2>1. PICK s \in Settled :
          Begins(p, [Idle EXCEPT !.pc = "reopen", !.op = "reopen", !.rev = section.rev,
                    !.todo = {c \in claims : c.stmt = s /\ c.resolved}])
    BY <1>7 DEF Reopen
  <2>2. section.rev \in Nat /\ {c \in claims : c.stmt = s /\ c.resolved} \in SUBSET Claims
    BY <1>t DEF Rows
  <2>3. [Idle EXCEPT !.pc = "reopen", !.op = "reopen", !.rev = section.rev,
                     !.todo = {c \in claims : c.stmt = s /\ c.resolved}] \in CallType
    BY <1>j, <2>2 DEF CallType, Pcs, Ops
  <2> QED BY <2>1, <2>3, <1>1, <1>r DEF CallType
<1>8. CASE Approve(p)
  <2>1. Begins(p, [Idle EXCEPT !.pc = "check", !.op = "approve", !.row = section])
    BY <1>8 DEF Approve
  <2>2. [Idle EXCEPT !.pc = "check", !.op = "approve", !.row = section] \in CallType
    BY <1>j, <1>t DEF CallType, Pcs, Ops
  <2> QED BY <2>1, <2>2, <1>1, <1>r DEF CallType
<1>9. CASE Touch(p)
  <2>1. Begins(p, [Idle EXCEPT !.pc = "touch", !.op = "touch", !.row = section])
    BY <1>9 DEF Touch
  <2>2. [Idle EXCEPT !.pc = "touch", !.op = "touch", !.row = section] \in CallType
    BY <1>j, <1>t DEF CallType, Pcs, Ops
  <2> QED BY <2>1, <2>2, <1>1, <1>r DEF CallType
<1>10. CASE Rescope(p)
  <2>1. Begins(p, [Idle EXCEPT !.pc = "stale", !.op = "rescope", !.rev = Len(revs)])
    BY <1>10 DEF Rescope
  <2>2. [Idle EXCEPT !.pc = "stale", !.op = "rescope", !.rev = Len(revs)] \in CallType
    BY <1>j, <1>t DEF CallType, Pcs, Ops
  <2> QED BY <2>1, <2>2, <1>1, <1>r DEF CallType
<1> QED BY <1>2, <1>3, <1>4, <1>5, <1>6, <1>7, <1>8, <1>9, <1>10 DEF Starts

LEMMA ContinuesStill ==
  ASSUME Inv, NEW p \in Calls, Continues(p) \/ Fail(p), ~ Prepare(p)
  PROVE  Still(p)
PROOF
<1>c. call[p] \in CallType /\ call \in [Calls -> CallType]
  BY DEF Inv
<1>r. regens' = regens
  BY DEF Continues, Fail, Write, Refresh, Number, Insert, Store, Look, Recall, Clear, Save, Conclude, Review,
     StoreDecision, Target, StoreReopening, Check, Seal, StoreTouched, MarkStale
<1>i. Idle.pc = "idle"
  BY DEF Idle
<1>y. ASSUME Returns(p) PROVE Still(p)
  BY <1>y, <1>i, <1>r DEF Returns, Still
<1>g. ASSUME NEW pc, Goes(p, pc), pc # "prepare" PROVE Still(p)
  <2> DEFINE k == [call[p] EXCEPT !.pc = pc]
  <2>1. call' = [call EXCEPT ![p] = k] /\ k.pc = pc
    BY <1>g, <1>c DEF Goes, CallType
  <2> HIDE DEF k
  <2> QED BY <2>1, <1>g, <1>r DEF Still
<1>a. ASSUME NEW r, Assesses(p, call[p], r) PROVE Still(p)
  <2> DEFINE k == [Idle EXCEPT !.pc = "look", !.op = call[p].op, !.nr = call[p].nr, !.rev = r,
                               !.weak = call[p].weak]
  <2>1. call' = [call EXCEPT ![p] = k] /\ k.pc = "look"
    BY <1>a DEF Assesses, Idle
  <2> HIDE DEF k
  <2> QED BY <2>1, <1>r DEF Still
<1>2. CASE Write(p)
  <2>1. PICK text \in Texts :
          call' = [call EXCEPT ![p] =
                  IF @.op = "regenerate"
                  THEN [@ EXCEPT !.pc = "refresh", !.text = text]
                  ELSE [@ EXCEPT !.pc = "number", !.text = text, !.weak = weak]]
    BY <1>2 DEF Write
  <2> DEFINE k == IF call[p].op = "regenerate"
                  THEN [call[p] EXCEPT !.pc = "refresh", !.text = text]
                  ELSE [call[p] EXCEPT !.pc = "number", !.text = text, !.weak = weak]
  <2>2. call' = [call EXCEPT ![p] = k]
    BY <2>1
  <2>3. k.pc \in {"refresh", "number"}
    BY <1>c DEF CallType
  <2> HIDE DEF k
  <2> QED BY <2>2, <2>3, <1>r DEF Still
<1>3. CASE Refresh(p)
  <2>1. CASE open
    <3> DEFINE k == [call[p] EXCEPT !.pc = "number", !.row = Reset(section)]
    <3>1. call' = [call EXCEPT ![p] = k] /\ k.pc = "number"
      BY <1>3, <2>1, <1>c DEF Refresh, CallType
    <3> HIDE DEF k
    <3> QED BY <3>1, <1>r DEF Still
  <2>2. CASE ~ open
    BY <2>2, <1>3, <1>y DEF Refresh
  <2> QED BY <2>1, <2>2
<1>4. CASE Number(p)
  <2> DEFINE k == [call[p] EXCEPT !.pc = "insert", !.rev = Len(revs) + 1]
  <2>1. call' = [call EXCEPT ![p] = k] /\ k.pc = "insert"
    BY <1>4, <1>c DEF Number, CallType
  <2> HIDE DEF k
  <2> QED BY <2>1, <1>r DEF Still
<1>5. CASE Insert(p)
  <2>1. Goes(p, "number") \/ Goes(p, "store")
    BY <1>5 DEF Insert
  <2> QED BY <2>1, <1>g
<1>6. CASE Store(p)
  BY <1>6, <1>a DEF Store
<1>7. CASE Look(p)
  <2> DEFINE w == IF call[p].op \in {"rewrite", "regenerate"} THEN call[p].weak ELSE weak
             k == [call[p] EXCEPT !.pc = "recall", !.row = section, !.state = revs[call[p].rev].state, !.weak = w]
  <2>1. call' = [call EXCEPT ![p] = k] /\ k.pc = "recall"
    BY <1>7, <1>c DEF Look, CallType
  <2> HIDE DEF k
  <2> QED BY <2>1, <1>r DEF Still
<1>8. CASE Recall(p)
  <2> DEFINE batch == Extracted(call[p], revs[call[p].rev].text, Settled)
             k == [call[p] EXCEPT !.pc = "clear", !.weak = {}, !.todo = batch, !.blocked = Failing(batch) # {}]
  <2>1. call' = [call EXCEPT ![p] = k] /\ k.pc = "clear"
    BY <1>8, <1>c DEF Recall, Recalls, CallType
  <2> HIDE DEF k
  <2> QED BY <2>1, <1>r DEF Still
<1>9. CASE Clear(p)
  <2>1. Goes(p, "conclude") \/ Goes(p, "save")
    BY <1>9 DEF Clear
  <2> QED BY <2>1, <1>g
<1>10. CASE Save(p)
  <2>1. PICK c \in call[p].todo :
       call' = [call EXCEPT ![p] = [@ EXCEPT !.todo = call[p].todo \ {c},
                                 !.pc = IF call[p].todo = {c} THEN "conclude" ELSE "save"]]
    BY <1>10 DEF Save
  <2> DEFINE k == [call[p] EXCEPT !.todo = call[p].todo \ {c},
                                  !.pc = IF call[p].todo = {c} THEN "conclude" ELSE "save"]
  <2>2. call' = [call EXCEPT ![p] = k]
    BY <2>1
  <2>3. k.pc \in {"conclude", "save"}
    BY <1>c DEF CallType
  <2> HIDE DEF k
  <2> QED BY <2>2, <2>3, <1>r DEF Still
<1>11. CASE Conclude(p)
  <2>1. Returns(p) \/ Goes(p, "review")
    BY <1>11 DEF Conclude
  <2> QED BY <2>1, <1>y, <1>g
<1>12. CASE StoreDecision(p)
  <2>1. Returns(p) \/ call' = [call EXCEPT ![p].pc = "target", ![p].todo = {}]
    BY <1>12 DEF StoreDecision
  <2>2. CASE call' = [call EXCEPT ![p].pc = "target", ![p].todo = {}]
    <3> DEFINE k == [call[p] EXCEPT !.pc = "target", !.todo = {}]
    <3>1. call' = [call EXCEPT ![p] = k] /\ k.pc = "target"
      BY <2>2, <1>c DEF CallType
    <3> HIDE DEF k
    <3> QED BY <3>1, <1>r DEF Still
  <2> QED BY <2>1, <2>2, <1>y
<1>13. CASE Target(p)
  BY <1>13, <1>y, <1>a DEF Target
<1>14. CASE StoreReopening(p)
  <2>1. PICK c \in call[p].todo :
          \/ Returns(p)
          \/ Assesses(p, call[p], call[p].rev)
          \/ call' = [call EXCEPT ![p].todo = @ \ {c}]
    BY <1>14 DEF StoreReopening
  <2>2. CASE call' = [call EXCEPT ![p].todo = @ \ {c}]
    <3> DEFINE k == [call[p] EXCEPT !.todo = call[p].todo \ {c}]
    <3>1. call' = [call EXCEPT ![p] = k] /\ k.pc = "reopen"
      BY <2>2, <1>14, <1>c DEF CallType, StoreReopening
    <3> HIDE DEF k
    <3> QED BY <3>1, <1>r DEF Still
  <2> QED BY <2>1, <2>2, <1>y, <1>a
<1>15. CASE Check(p)
  BY <1>15, <1>y, <1>g DEF Check
<1>16. CASE Review(p) \/ Seal(p) \/ StoreTouched(p) \/ MarkStale(p) \/ Fail(p)
  BY <1>16, <1>y DEF Review, Seal, StoreTouched, MarkStale, Fail
<1> QED BY <1>2, <1>3, <1>4, <1>5, <1>6, <1>7, <1>8, <1>9, <1>10, <1>11, <1>12, <1>13,
           <1>14, <1>15, <1>16 DEF Continues

LEMMA CountedNext ==
  ASSUME Inv, Counted, [Next]_vars
  PROVE  Counted'
PROOF
<1>f. /\ IsFiniteSet(Calls) /\ Cardinality(Calls) \in Nat /\ RegenLimit \in Nat /\ regens \in Nat
      /\ call \in [Calls -> CallType]
  BY AssuranceAssumption, FS_CardinalityType DEF Inv, Frame
<1>g. /\ Waiting \subseteq Calls /\ IsFiniteSet(Waiting) /\ Cardinality(Waiting) \in Nat
      /\ Waiting' \subseteq Calls /\ IsFiniteSet(Waiting') /\ Cardinality(Waiting') \in Nat
      /\ Cardinality(Waiting') <= Cardinality(Calls)
  <2>1. Waiting \subseteq Calls /\ Waiting' \subseteq Calls
    BY DEF Waiting
  <2>2. IsFiniteSet(Waiting) /\ IsFiniteSet(Waiting') /\ Cardinality(Waiting') <= Cardinality(Calls)
    BY <2>1, <1>f, FS_Subset
  <2> QED BY <2>1, <2>2, FS_CardinalityType
<1>s. ASSUME regens' \in Nat, regens' <= regens, Waiting' \subseteq Waiting PROVE Counted'
  <2>1. Cardinality(Waiting') <= Cardinality(Waiting)
    BY <1>s, <1>g, FS_Subset
  <2> QED BY <2>1, <1>s, <1>f, <1>g DEF Counted
<1>1. ASSUME NEW p \in Calls, Starts(p) PROVE Counted'
  <2>1. regens' = regens
    BY <1>1, StartsStill
  <2>2. PICK k : call' = [call EXCEPT ![p] = k] /\ (k.pc = "prepare" => regens < RegenLimit)
    BY <1>1, StartsStill
  <2>3. CASE k.pc = "prepare"
    BY <2>1, <2>2, <2>3, <1>f, <1>g DEF Counted
  <2>4. CASE k.pc # "prepare"
    <3>1. Waiting' \subseteq Waiting
      BY <2>2, <2>4, <1>f DEF Waiting
    <3> QED BY <3>1, <2>1, <1>f, <1>s
  <2> QED BY <2>3, <2>4
<1>2. ASSUME NEW p \in Calls, Prepare(p) PROVE Counted'
  <2> DEFINE k == [call[p] EXCEPT !.pc = "write", !.weak = weak]
  <2>1. call[p].pc = "prepare" /\ call' = [call EXCEPT ![p] = k] /\ k.pc = "write" /\ regens' = regens + 1
    BY <1>2, <1>f DEF Prepare, CallType
  <2> HIDE DEF k
  <2>2. Waiting' \subseteq Waiting \ {p} /\ p \in Waiting
    BY <2>1, <1>f DEF Waiting
  <2>3. Cardinality(Waiting') <= Cardinality(Waiting \ {p}) /\ Cardinality(Waiting \ {p}) = Cardinality(Waiting) - 1
    BY <2>2, <1>g, FS_Subset, FS_RemoveElement
  <2>4. Cardinality(Waiting') <= Cardinality(Waiting) - 1
    BY <2>3
  <2> QED BY <2>1, <2>4, <1>f, <1>g DEF Counted
<1>3. ASSUME NEW p \in Calls, Continues(p) \/ Fail(p), ~ Prepare(p) PROVE Counted'
  <2>1. regens' = regens
    BY <1>3, ContinuesStill DEF Still
  <2>2. PICK k : call' = [call EXCEPT ![p] = k] /\ k.pc # "prepare"
    BY <1>3, ContinuesStill DEF Still
  <2>3. Waiting' \subseteq Waiting
    BY <2>2, <1>f DEF Waiting
  <2> QED BY <2>1, <2>3, <1>f, <1>s
<1>4. CASE Close \/ Evidence \/ Elapse \/ UNCHANGED vars
  <2>1. UNCHANGED call /\ (regens' = regens \/ (regens > 0 /\ regens' = regens - 1))
    BY <1>4 DEF Close, Evidence, Elapse, vars
  <2>2. Waiting' \subseteq Waiting
    BY <2>1 DEF Waiting
  <2> QED BY <2>1, <2>2, <1>f, <1>s
<1> QED BY <1>1, <1>2, <1>3, <1>4 DEF Next

LEMMA CountedInit == Init => Counted
PROOF
<1> SUFFICES ASSUME Init PROVE Counted
  OBVIOUS
<1>1. Idle.pc = "idle"
  BY DEF Idle
<1>2. \A p \in Calls : call[p] = Idle
  BY DEF Init
<1>3. Waiting = {}
  BY <1>1, <1>2 DEF Waiting
<1>4. /\ Cardinality(Waiting) = 0 /\ Cardinality(Calls) \in Nat /\ Cardinality(Calls) # 0
      /\ RegenLimit \in Nat /\ regens \in 0..RegenLimit
  BY <1>3, AssuranceAssumption, FS_EmptySet, FS_CardinalityType DEF Init
<1> QED BY <1>4 DEF Counted

(***************************************************************************)
(* Theorems                                                                *)
(***************************************************************************)
\* The inductive invariant holds in every reachable state.
THEOREM Invariance == Spec => []Inv
PROOF
<1>1. Init => Inv
  BY InitOK
<1>2. Inv /\ [Next]_vars => Inv'
  BY NextKeeps
<1> QED BY <1>1, <1>2, PTL DEF Spec

\* Every variable keeps its type.
THEOREM TypeCorrect == Spec => []TypeOK
PROOF
<1>1. Inv => TypeOK
  BY InvImplies
<1> QED BY <1>1, Invariance, PTL

\* The row never shows a text other than that of its revision (commitChange and
\* every later write of a row read before).
THEOREM RowAgrees == Spec => []RowMatchesRevision
PROOF
<1>1. Inv => RowMatchesRevision
  BY InvImplies
<1> QED BY <1>1, Invariance, PTL

\* Nothing is approved that no assessment found complete
\* (ApproveReportSectionHandler and the writers that race it).
THEOREM ApprovalExamined == Spec => []ApprovedWasExamined
PROOF
<1>1. Inv => ApprovedWasExamined
  BY InvImplies
<1> QED BY <1>1, Invariance, PTL

\* Claims belong to the text of their revision (assessRevision).
THEOREM ClaimsBelong == Spec => []ClaimsOfTheirRevision
PROOF
<1>1. Inv => ClaimsOfTheirRevision
  BY InvImplies
<1> QED BY <1>1, Invariance, PTL

\* A decision counts for the statement a person decided on (recall of decisions
\* in assessRevision).
THEOREM DecisionsKeptApart == Spec => []DecisionsNotSpread
PROOF
<1>1. Inv => DecisionsNotSpread
  BY InvImplies
<1> QED BY <1>1, Invariance, PTL

\* The hourly limit is passed by requests in flight only, whatever their number.
THEOREM RegenerationLimit == Spec => []RegenerationsBounded
PROOF
<1>1. Init => Counted
  BY CountedInit
<1>2. Inv /\ Counted /\ [Next]_vars => Counted'
  BY CountedNext
<1>3. Inv /\ Counted => RegenerationsBounded
  <2> SUFFICES ASSUME Inv, Counted PROVE RegenerationsBounded
    OBVIOUS
  <2>1. Waiting \subseteq Calls /\ IsFiniteSet(Calls)
    BY AssuranceAssumption DEF Waiting
  <2>2. Cardinality(Waiting) \in Nat /\ Cardinality(Calls) \in Nat
    BY <2>1, FS_Subset, FS_CardinalityType
  <2>3. regens \in Nat /\ RegenLimit \in Nat
    BY AssuranceAssumption DEF Inv, Frame
  <2> QED BY <2>2, <2>3 DEF Counted, RegenerationsBounded
<1> QED BY <1>1, <1>2, <1>3, Invariance, PTL DEF Spec

(***************************************************************************)
(* The history of the texts                                                *)
(***************************************************************************)

TextsOf(rv) == [n \in 1..Len(rv) |-> rv[n].text]
View == [text |-> section.text, rev |-> section.rev, approved |-> section.status = "APPROVED"]

LEMMA TextsAppended ==
  ASSUME NEW rv \in Seq(RevType), NEW r \in RevType
  PROVE  TextsOf(Append(rv, r)) = Append(TextsOf(rv), r.text)
PROOF
<1> DEFINE longer == Append(rv, r)
           texts  == TextsOf(rv)
<1>1. /\ Len(longer) = Len(rv) + 1 /\ Len(rv) \in Nat
      /\ \A n \in 1..Len(rv) : longer[n] = rv[n]
      /\ longer[Len(rv) + 1] = r
  BY AppendProperties
<1>2. \A n \in 1..Len(rv) : rv[n] \in RevType /\ rv[n].text \in SUBSET Statements
  <2>1. \A n \in 1..Len(rv) : rv[n] \in RevType
    BY ElementOfSeq
  <2> QED BY <2>1 DEF RevType
<1>3. texts \in Seq(SUBSET Statements) /\ Len(texts) = Len(rv)
  BY <1>1, <1>2 DEF TextsOf
<1>4. r.text \in SUBSET Statements
  BY DEF RevType
<1>5. Append(texts, r.text) \in Seq(SUBSET Statements)
      /\ Len(Append(texts, r.text)) = Len(rv) + 1
      /\ \A n \in 1..Len(rv) : Append(texts, r.text)[n] = texts[n]
      /\ Append(texts, r.text)[Len(rv) + 1] = r.text
  BY <1>3, <1>4, AppendProperties
<1>6. Append(texts, r.text) = [n \in 1..Len(rv) + 1 |-> Append(texts, r.text)[n]]
  BY <1>1, <1>5
<1>7. TextsOf(longer) = [n \in 1..Len(rv) + 1 |-> longer[n].text]
  BY <1>1 DEF TextsOf
<1>8. ASSUME NEW n \in 1..Len(rv) + 1 PROVE longer[n].text = Append(texts, r.text)[n]
  <2>1. CASE n = Len(rv) + 1
    BY <2>1, <1>1, <1>5
  <2>2. CASE n # Len(rv) + 1
    <3>1. n \in 1..Len(rv)
      BY <2>2, <1>1
    <3> QED BY <3>1, <1>1, <1>5 DEF TextsOf
  <2> QED BY <2>1, <2>2
<1> QED BY <1>6, <1>7, <1>8

\* A step stores one more text, finds one complete, writes the row, or does
\* none of these; what the revisions say of themselves may change with the two
\* last.
LEMMA OneWrite ==
  ASSUME Inv, [Next]_vars
  PROVE  \/ /\ \E r \in RevType : revs' = Append(revs, r)
            /\ UNCHANGED <<passed, section>>
         \/ /\ TextsOf(revs)' = TextsOf(revs)
            /\ UNCHANGED section
            /\ passed' = passed \/ \E n \in 1..Len(revs) : passed' = passed \cup {n}
         \/ UNCHANGED <<revs, passed>>
PROOF
<1>a. /\ revs \in Seq(RevType) /\ Len(revs) \in Nat
      /\ \A p \in Calls : call[p] \in CallType /\ CallOK(call[p], revs, passed, decided)
  BY DEF Inv, Texted, RevsOK
<1>1. ASSUME NEW p \in Calls, Insert(p)
      PROVE  UNCHANGED revs \/ \E r \in RevType : revs' = Append(revs, r)
  <2>1. [text |-> call[p].text, state |-> "UNASSESSED"] \in RevType
    BY <1>a DEF CallType, RevType, States
  <2> QED BY <1>1, <2>1 DEF Insert
<1>2. ASSUME NEW n \in 1..Len(revs), NEW st, revs' = [revs EXCEPT ![n].state = st]
      PROVE  TextsOf(revs)' = TextsOf(revs)
  <2>1. Len(revs') = Len(revs) /\ \A m \in 1..Len(revs) : revs'[m].text = revs[m].text
    BY <1>2, <1>a DEF RevType
  <2> QED BY <2>1 DEF TextsOf
<1>3. ASSUME NEW p \in Calls, Conclude(p)
      PROVE  TextsOf(revs)' = TextsOf(revs) /\ \E n \in 1..Len(revs) : passed' \in {passed, passed \cup {n}}
  <2>1. call[p].rev \in 1..Len(revs)
    BY <1>3, <1>a DEF Conclude, CallOK
  <2>2. UNCHANGED revs \/ \E st \in States : revs' = [revs EXCEPT ![call[p].rev].state = st]
    BY <1>3 DEF Conclude, States
  <2>3. TextsOf(revs)' = TextsOf(revs)
    BY <2>1, <2>2, <1>2 DEF TextsOf
  <2>4. passed' \in {passed, passed \cup {call[p].rev}}
    BY <1>3 DEF Conclude
  <2> QED BY <2>1, <2>3, <2>4
<1>4. ASSUME NEW p \in Calls, MarkStale(p)
      PROVE  TextsOf(revs)' = TextsOf(revs)
  <2>1. call[p].rev \in 1..Len(revs)
    BY <1>4, <1>a DEF MarkStale, CallOK
  <2> QED BY <1>4, <2>1, <1>2 DEF MarkStale
<1>5. CASE \E p \in Calls : Insert(p)
  BY <1>1, <1>5 DEF Insert
<1>6. CASE \E p \in Calls : Conclude(p) \/ MarkStale(p)
  BY <1>3, <1>4, <1>6 DEF Conclude, MarkStale
<1>7. ASSUME NEW p \in Calls, Starts(p) \/ Fail(p)
      PROVE  UNCHANGED <<revs, passed>>
  BY <1>7 DEF Starts, Fail, Edit, Rewrite, Regenerate, Reassess, Decide, Reopen, Approve, Touch, Rescope
<1>8. ASSUME NEW p \in Calls, Continues(p), ~ Insert(p), ~ Conclude(p), ~ MarkStale(p)
      PROVE  UNCHANGED <<revs, passed>>
  BY <1>8 DEF Continues, Prepare, Write, Refresh, Number, Store, Look, Recall, Clear, Save,
       Review, StoreDecision, Target, StoreReopening, Check, Seal, StoreTouched
<1>9. CASE Close \/ Evidence \/ Elapse \/ UNCHANGED vars
  BY <1>9 DEF Close, Evidence, Elapse, vars
<1> QED BY <1>5, <1>6, <1>7, <1>8, <1>9 DEF Next

LEMMA ViewIsFaithful ==
  ASSUME Inv
  PROVE  History!Faithful(View)
PROOF
<1>1. /\ section \in Rows /\ section.rev \in 0..Len(revs) /\ Len(revs) \in Nat
      /\ section.rev # 0 => section.text = revs[section.rev].text
      /\ section.status = "APPROVED" => section.rev \in passed
  BY DEF Inv, Texted, RowOK, RevsOK
<1>2. View.text \in SUBSET Statements /\ View.rev = section.rev /\ View.text = section.text
      /\ View.approved \in BOOLEAN /\ (View.approved <=> section.status = "APPROVED")
  BY <1>1 DEF View, Rows
<1>3. Len([n \in 1..Len(revs) |-> revs[n].text]) = Len(revs)
  BY <1>1
<1>4. View \in History!Views
  BY <1>1, <1>2, <1>3 DEF History!Views, View
<1> QED BY <1>1, <1>2, <1>4 DEF History!Faithful

\* SectionAssurance implements RevisionHistory: the revisions, and what the row
\* shows of them, are as it promises, however many requests write back rows and
\* states they read earlier.
THEOREM HistoryIsKept == Spec => KeepsHistory
PROOF
<1>1. Init => History!Init
  <2> SUFFICES ASSUME Init PROVE History!Init
    OBVIOUS
  <2>1. Inv
    BY InitOK
  <2>2. History!Faithful(View)
    BY <2>1, ViewIsFaithful
  <2>3. passed \subseteq 1..Len(revs) /\ revs \in Seq(RevType) /\ Len(revs) \in Nat
    BY <2>1 DEF Inv, Texted, RevsOK
  <2>4. Len(TextsOf(revs)) = Len(revs)
    BY <2>3 DEF TextsOf
  <2>5. TextsOf(revs) = <<>> \/ \E text \in SUBSET Statements : TextsOf(revs) = <<text>>
    <3>1. CASE Blank
      BY <3>1 DEF Blank, TextsOf
    <3>2. CASE Assessed
      <4>1. PICK text \in Texts, st \in States : revs = <<[text |-> text, state |-> st]>>
        BY <3>2 DEF Assessed, States
      <4>2. TextsOf(revs) = <<text>> /\ text \in SUBSET Statements
        BY <4>1, AssuranceAssumption DEF TextsOf
      <4> QED BY <4>2
    <3> QED BY <3>1, <3>2 DEF Init
  <2> QED BY <2>2, <2>3, <2>4, <2>5 DEF History!Init, TextsOf, View
<1>2. Inv /\ Inv' /\ [Next]_vars => [History!Next]_(History!vars)
  <2> SUFFICES ASSUME Inv, Inv', [Next]_vars PROVE [History!Next]_(History!vars)
    OBVIOUS
  <2>a. revs \in Seq(RevType) /\ Len(revs) \in Nat
    BY DEF Inv, Texted, RevsOK
  <2>1. CASE /\ \E r \in RevType : revs' = Append(revs, r)
             /\ UNCHANGED <<passed, section>>
    <3>1. PICK r \in RevType : revs' = Append(revs, r)
      BY <2>1
    <3>2. TextsOf(revs)' = Append(TextsOf(revs), r.text) /\ r.text \in SUBSET Statements
      BY <3>1, <2>a, TextsAppended DEF RevType, TextsOf
    <3>3. History!Record(r.text)
      BY <2>1, <3>2 DEF History!Record, TextsOf
    <3> QED BY <3>2, <3>3 DEF History!Next
  <2>2. CASE /\ TextsOf(revs)' = TextsOf(revs) /\ UNCHANGED section
             /\ passed' = passed \/ \E n \in 1..Len(revs) : passed' = passed \cup {n}
    <3>1. CASE passed' = passed
      BY <2>2, <3>1 DEF History!vars, TextsOf
    <3>2. CASE \E n \in 1..Len(revs) : passed' = passed \cup {n}
      <4>1. PICK n \in 1..Len(revs) : passed' = passed \cup {n}
        BY <3>2
      <4>2. n \in 1..Len([m \in 1..Len(revs) |-> revs[m].text])
        BY <2>a
      <4>3. History!Examine(n)
        BY <2>2, <4>1 DEF History!Examine, TextsOf
      <4> QED BY <4>2, <4>3 DEF History!Next
    <3> QED BY <2>2, <3>1, <3>2
  <2>3. CASE UNCHANGED <<revs, passed>>
    <3>1. History!Faithful(View)'
      BY ViewIsFaithful, PTL
    <3>2. History!Show
      BY <2>3, <3>1 DEF History!Show, View
    <3> QED BY <3>2 DEF History!Next
  <2> QED BY <2>1, <2>2, <2>3, OneWrite
<1> QED BY <1>1, <1>2, Invariance, PTL DEF Spec, KeepsHistory, History!Spec
=============================================================================
