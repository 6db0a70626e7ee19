-------------------------- MODULE SectionAssurance ---------------------------
(***************************************************************************)
(* One section of a report draft: its row, its numbered revisions, the     *)
(* claims found in its text and the decisions people took on them.  Calls  *)
(* edit, rewrite, regenerate, assess, decide and approve the section at    *)
(* the same time; each keeps the row it read and writes it back later.     *)
(* One step is one await that matters to another call.                     *)
(***************************************************************************)
EXTENDS Integers, Sequences, FiniteSets

CONSTANTS
  Statements,   \* material statements of the report
  Texts,        \* texts people and writers produce, as sets of statements
  Unsupported,  \* statements the evidence on record at first does not support
  Requests,     \* kinds of requests made
  Calls,        \* slots of concurrent requests
  RegenLimit,   \* SECTION_REGENERATIONS_PER_HOUR
  MaxStarts,    \* bound: requests that change the section
  MaxUpsets     \* bound: changes of the evidence, closings, runs past their hour, failures

Ops == {"edit", "rewrite", "regenerate", "reassess", "decide", "reopen",
        "approve", "rescope", "touch"}

ASSUME AssuranceAssumption ==
  /\ Texts \subseteq SUBSET Statements /\ Unsupported \subseteq Statements
  /\ Requests \subseteq Ops
  /\ IsFiniteSet(Calls) /\ Calls # {}
  /\ RegenLimit \in Nat \ {0}
  /\ {MaxStarts, MaxUpsets} \subseteq Nat

VARIABLES
  section,   \* the ReportSection row
  revs,      \* the ReportRevision rows, by revision number
  claims,    \* the ReportClaim rows of the section
  weak,      \* statements the evidence on record does not support
  open,      \* whether the draft is a DRAFT and not superseded
  regens,    \* regeneration runs of the draft in the last hour
  call,      \* local state of each request
  started,   \* requests so far; each has a serial number
  upsets,    \* changes of the evidence, closings, runs past their hour, failures
  passed,    \* history: revisions an assessment stored as CURRENT
  decided    \* history: statements a person took a decision on

vars == <<section, revs, claims, weak, open, regens, call, started, upsets,
          passed, decided>>

Statuses == {"NOT_STARTED", "DRAFTED", "NEEDS_REVIEW", "APPROVED"}
States   == {"UNASSESSED", "FAILED", "CURRENT", "STALE"}  \* ASSESSING is never stored
Revs     == 0..Len(revs)
Claims   == [stmt : Statements, rev : Nat, by : Nat, ok : BOOLEAN, resolved : BOOLEAN]
Rows     == [text : SUBSET Statements, rev : Nat, status : Statuses]
NoText   == [text |-> {}, rev |-> 0, status |-> "NOT_STARTED"]

Pcs == {"idle", "prepare", "write", "refresh", "number", "insert", "store",
        "target", "look", "recall", "clear", "save",
        "conclude", "review", "check", "seal", "decide", "reopen", "stale", "touch"}
Idle == [pc |-> "idle", op |-> "none", nr |-> 0, row |-> NoText, rev |-> 0, state |-> "UNASSESSED",
         text |-> {}, weak |-> {}, blocked |-> FALSE, todo |-> {}]

Failing(C)      == {c \in C : ~ c.ok /\ ~ c.resolved}
Reset(r)        == IF r.status = "APPROVED" THEN [r EXCEPT !.status = "DRAFTED"] ELSE r
\* setContent() and setCurrentRevision() on the row as it was read.
WithText(r, text, n) == [text   |-> text, rev |-> n,
                         status |-> IF r.status = "NOT_STARTED" THEN "DRAFTED" ELSE r.status]

Goes(p, pc)  == call' = [call EXCEPT ![p].pc = pc]
Returns(p)   == call' = [call EXCEPT ![p] = Idle]
Begins(p, c) == /\ call[p].pc = "idle" /\ started < MaxStarts
                /\ c.op \in Requests
                /\ started' = started + 1
                /\ call' = [call EXCEPT ![p] = [c EXCEPT !.nr = started + 1]]
Assesses(p, c, r) == call' = [call EXCEPT ![p] =
                       [Idle EXCEPT !.pc = "look", !.op = c.op, !.nr = c.nr, !.rev = r, !.weak = c.weak]]

-----------------------------------------------------------------------------
(* Requests that replace the text: edit, rewrite, regenerate *)

\* Wrong: an edit of an approved section keeps its approval.
EditApproved(p) ==
  /\ open
  /\ \E text \in Texts :
       Begins(p, [Idle EXCEPT !.pc = "number", !.op = "edit", !.row = section, !.text = text])
  /\ UNCHANGED <<section, revs, claims, weak, open, regens, upsets, passed, decided>>

\* The expected version is compared here, in memory: it can only refuse.
Edit(p) ==
  /\ open
  /\ \E text \in Texts :
       Begins(p, [Idle EXCEPT !.pc = "number", !.op = "edit", !.row = Reset(section), !.text = text])
  /\ UNCHANGED <<section, revs, claims, weak, open, regens, upsets, passed, decided>>

\* The row and the draft are read before the writer is called.
Rewrite(p) ==
  /\ open
  /\ section.rev # 0
  /\ Begins(p, [Idle EXCEPT !.pc = "write", !.op = "rewrite", !.row = Reset(section)])
  /\ UNCHANGED <<section, revs, claims, weak, open, regens, upsets, passed, decided>>

\* Wrong: the runs of the last hour are not looked at.
RegenerateUncounted(p) ==
  /\ open /\ section.status # "NOT_STARTED"
  /\ Begins(p, [Idle EXCEPT !.pc = "prepare", !.op = "regenerate"])
  /\ UNCHANGED <<section, revs, claims, weak, open, regens, upsets, passed, decided>>

\* sectionRegenerationBlock() of what the request read.  The tracker of running
\* regenerations is made anew with every request's container: it refuses nobody.
Regenerate(p) ==
  /\ open /\ section.status # "NOT_STARTED" /\ regens < RegenLimit
  /\ Begins(p, [Idle EXCEPT !.pc = "prepare", !.op = "regenerate"])
  /\ UNCHANGED <<section, revs, claims, weak, open, regens, upsets, passed, decided>>

\* Template, credits, evidence and plan are loaded; the run row is created.
Prepare(p) ==
  /\ call[p].pc = "prepare"
  /\ regens' = regens + 1
  /\ call' = [call EXCEPT ![p].pc = "write", ![p].weak = weak]
  /\ UNCHANGED <<section, revs, claims, weak, open, started, upsets, passed, decided>>

\* The writer answers.  A regeneration keeps no text of the fallback writer
\* (that is a failed step); a rewrite saves whatever text it got.
Write(p) ==
  /\ call[p].pc = "write"
  /\ \E text \in Texts :
       call' = [call EXCEPT ![p] =
                  IF @.op = "regenerate"
                  THEN [@ EXCEPT !.pc = "refresh", !.text = text]
                  ELSE [@ EXCEPT !.pc = "number", !.text = text, !.weak = weak]]
  /\ UNCHANGED <<section, revs, claims, weak, open, regens, started, upsets, passed, decided>>

\* A regeneration reads the draft and the row again once it has a text.
Refresh(p) ==
  /\ call[p].pc = "refresh"
  /\ IF open
     THEN call' = [call EXCEPT ![p].pc = "number", ![p].row = Reset(section)]
     ELSE Returns(p)
  /\ UNCHANGED <<section, revs, claims, weak, open, regens, started, upsets, passed, decided>>

\* Wrong: one more than the next number.
NumberSkips(p) ==
  /\ call[p].pc = "number"
  /\ call' = [call EXCEPT ![p].pc = "insert", ![p].rev = Len(revs) + 2]
  /\ UNCHANGED <<section, revs, claims, weak, open, regens, started, upsets, passed, decided>>

\* createNextForSection(): the highest number plus one ...
Number(p) ==
  /\ call[p].pc = "number"
  /\ call' = [call EXCEPT ![p].pc = "insert", ![p].rev = Len(revs) + 1]
  /\ UNCHANGED <<section, revs, claims, weak, open, regens, started, upsets, passed, decided>>

\* Wrong: the taken number is used to address the revision that is there.
InsertTaken(p) ==
  /\ call[p].pc = "insert"
  /\ IF call[p].rev <= Len(revs)
     THEN Goes(p, "store") /\ UNCHANGED revs
     ELSE /\ Goes(p, "store")
          /\ revs' = Append(revs, [text |-> call[p].text, state |-> "UNASSESSED"])
  /\ UNCHANGED <<section, claims, weak, open, regens, started, upsets, passed, decided>>

\* ... is unique in the database: a taken number is asked for again.
Insert(p) ==
  /\ call[p].pc = "insert"
  /\ IF call[p].rev <= Len(revs)
     THEN Goes(p, "number") /\ UNCHANGED revs
     ELSE /\ Goes(p, "store")
          /\ revs' = Append(revs, [text |-> call[p].text, state |-> "UNASSESSED"])
  /\ UNCHANGED <<section, claims, weak, open, regens, started, upsets, passed, decided>>

\* commitChange(): the whole row, as read before, with the new text.
Store(p) ==
  /\ call[p].pc = "store"
  /\ section' = WithText(call[p].row, call[p].text, call[p].rev)
  /\ Assesses(p, call[p], call[p].rev)
  /\ UNCHANGED <<revs, claims, weak, open, regens, started, upsets, passed, decided>>

-----------------------------------------------------------------------------
(* assessRevision(), called by every request that changes a text or a decision *)

\* The row, the revision and, unless the writer already had it, the evidence.
Look(p) ==
  /\ call[p].pc = "look"
  /\ call' = [call EXCEPT ![p] =
       [@ EXCEPT !.pc = "recall", !.row = section, !.state = revs[call[p].rev].state,
                 !.weak = IF call[p].op \in {"rewrite", "regenerate"} THEN call[p].weak ELSE weak]]
  /\ UNCHANGED <<section, revs, claims, weak, open, regens, started, upsets, passed, decided>>

\* The claims of a text, with the decisions already taken on its statements.
Extracted(c, text, settled) ==
  {[stmt |-> s, rev |-> c.rev, by |-> c.nr, ok |-> s \notin c.weak, resolved |-> s \in settled] : s \in text}
Settled == {c.stmt : c \in {d \in claims : d.resolved}}
Recalls(p, batch) ==
  call' = [call EXCEPT ![p] = [@ EXCEPT !.pc = "clear", !.weak = {}, !.todo = batch,
                                        !.blocked = Failing(batch) # {}]]

\* Wrong: the statements are those of the section, not of the revision.
RecallSection(p) ==
  /\ call[p].pc = "recall"
  /\ Recalls(p, Extracted(call[p], call[p].row.text, Settled))
  /\ UNCHANGED <<section, revs, claims, weak, open, regens, started, upsets, passed, decided>>

\* Wrong: a decision is carried to every statement of the section.
RecallAll(p) ==
  /\ call[p].pc = "recall"
  /\ Recalls(p, Extracted(call[p], revs[call[p].rev].text, IF Settled = {} THEN {} ELSE Statements))
  /\ UNCHANGED <<section, revs, claims, weak, open, regens, started, upsets, passed, decided>>

\* Decisions are recalled by the fingerprint of the statement.
Recall(p) ==
  /\ call[p].pc = "recall"
  /\ Recalls(p, Extracted(call[p], revs[call[p].rev].text, Settled))
  /\ UNCHANGED <<section, revs, claims, weak, open, regens, started, upsets, passed, decided>>

\* The old claims are deleted in one statement, the new ones stored one by one.
Clear(p) ==
  /\ call[p].pc = "clear"
  /\ claims' = {}
  /\ Goes(p, IF call[p].todo = {} THEN "conclude" ELSE "save")
  /\ UNCHANGED <<section, revs, weak, open, regens, started, upsets, passed, decided>>

Save(p) ==
  /\ call[p].pc = "save"
  /\ \E c \in call[p].todo :
       /\ claims' = claims \cup {c}
       /\ call' = [call EXCEPT ![p] = [@ EXCEPT !.todo = call[p].todo \ {c},
                                 !.pc = IF call[p].todo = {c} THEN "conclude" ELSE "save"]]
  /\ UNCHANGED <<section, revs, weak, open, regens, started, upsets, passed, decided>>

\* The state as it was read moves on.  CURRENT to FAILED is no transition: the
\* call throws, with the claims replaced and the revision left CURRENT.
Conclude(p) ==
  /\ call[p].pc = "conclude"
  /\ LET r == call[p].rev
     IN  IF ~ call[p].blocked
         THEN /\ revs' = [revs EXCEPT ![r].state = "CURRENT"]
              /\ passed' = passed \cup {r}
              /\ Returns(p)
         ELSE /\ UNCHANGED passed
              /\ IF call[p].state = "CURRENT"
                 THEN Returns(p) /\ UNCHANGED revs
                 ELSE Goes(p, "review") /\ revs' = [revs EXCEPT ![r].state = "FAILED"]
  /\ UNCHANGED <<section, claims, weak, open, regens, started, upsets, decided>>

\* markNeedsReview(): the whole row, as read when the assessment began.
Review(p) ==
  /\ call[p].pc = "review"
  /\ section' = [call[p].row EXCEPT !.status = "NEEDS_REVIEW"]
  /\ Returns(p)
  /\ UNCHANGED <<revs, claims, weak, open, regens, started, upsets, passed, decided>>

-----------------------------------------------------------------------------
(* Decisions, reassessment, approval *)

\* "Check again": the current revision, or the one the request names.
Reassess(p) ==
  /\ \E r \in Revs \ {0} : Begins(p, [Idle EXCEPT !.pc = "look", !.op = "reassess", !.rev = r])
  /\ UNCHANGED <<section, revs, claims, weak, open, regens, upsets, passed, decided>>

SameClaim(c, d) == <<c.stmt, c.rev, c.by>> = <<d.stmt, d.rev, d.by>>
Exists(c)       == \E d \in claims : SameClaim(c, d)
Updates(c)      == claims' = {d \in claims : ~ SameClaim(c, d)} \cup {c}

\* Accept a failed statement with a note, or leave a statement out.
Decide(p) ==
  /\ \E c \in claims : Begins(p, [Idle EXCEPT !.pc = "decide", !.op = "decide", !.todo = {c}])
  /\ UNCHANGED <<section, revs, claims, weak, open, regens, upsets, passed, decided>>

\* The claim may have been replaced since it was read: the update then throws.
StoreDecision(p) ==
  /\ call[p].pc = "decide"
  /\ \E c \in call[p].todo :
       IF Exists(c)
       THEN /\ Updates([c EXCEPT !.ok = FALSE, !.resolved = TRUE])
            /\ decided' = decided \cup {c.stmt}
            /\ call' = [call EXCEPT ![p].pc = "target", ![p].todo = {}]
       ELSE Returns(p) /\ UNCHANGED <<claims, decided>>
  /\ UNCHANGED <<section, revs, weak, open, regens, started, upsets, passed>>

\* The revision the section has by now is assessed.
Target(p) ==
  /\ call[p].pc = "target"
  /\ IF section.rev = 0 THEN Returns(p) ELSE Assesses(p, call[p], section.rev)
  /\ UNCHANGED <<section, revs, claims, weak, open, regens, started, upsets, passed, decided>>

\* Undo: every decided claim of the statement, unless the section is approved.
Reopen(p) ==
  /\ section.status # "APPROVED"
  /\ \E s \in Settled :
       Begins(p, [Idle EXCEPT !.pc = "reopen", !.op = "reopen", !.rev = section.rev,
                    !.todo = {c \in claims : c.stmt = s /\ c.resolved}])
  /\ UNCHANGED <<section, revs, claims, weak, open, regens, upsets, passed, decided>>

StoreReopening(p) ==
  /\ call[p].pc = "reopen"
  /\ \E c \in call[p].todo :
       IF ~ Exists(c)
       THEN Returns(p) /\ UNCHANGED claims
       ELSE /\ Updates([c EXCEPT !.resolved = FALSE])
            /\ IF call[p].todo = {c} /\ call[p].rev = 0 THEN Returns(p)
               ELSE IF call[p].todo = {c} THEN Assesses(p, call[p], call[p].rev)
               ELSE call' = [call EXCEPT ![p].todo = @ \ {c}]
  /\ UNCHANGED <<section, revs, weak, open, regens, started, upsets, passed, decided>>

\* The row is read; then its revision and the claims; then the row is written.
Approve(p) ==
  /\ section.rev # 0
  /\ Begins(p, [Idle EXCEPT !.pc = "check", !.op = "approve", !.row = section])
  /\ UNCHANGED <<section, revs, claims, weak, open, regens, upsets, passed, decided>>

Check(p) ==
  /\ call[p].pc = "check"
  /\ IF revs[call[p].row.rev].state = "CURRENT" /\ Failing(claims) = {}
     THEN Goes(p, "seal")
     ELSE Returns(p)
  /\ UNCHANGED <<section, revs, claims, weak, open, regens, started, upsets, passed, decided>>

Seal(p) ==
  /\ call[p].pc = "seal"
  /\ section' = [call[p].row EXCEPT !.status = "APPROVED"]
  /\ Returns(p)
  /\ UNCHANGED <<revs, claims, weak, open, regens, started, upsets, passed, decided>>

\* Reordering, a chart setting, "summary is current": the row as read goes back.
Touch(p) ==
  /\ Begins(p, [Idle EXCEPT !.pc = "touch", !.op = "touch", !.row = section])
  /\ UNCHANGED <<section, revs, claims, weak, open, regens, upsets, passed, decided>>

StoreTouched(p) ==
  /\ call[p].pc = "touch"
  /\ section' = call[p].row
  /\ Returns(p)
  /\ UNCHANGED <<revs, claims, weak, open, regens, started, upsets, passed, decided>>

\* The scope of the period changes: the revision with the highest number ...
Rescope(p) ==
  /\ revs # <<>> /\ revs[Len(revs)].state = "CURRENT"
  /\ Begins(p, [Idle EXCEPT !.pc = "stale", !.op = "rescope", !.rev = Len(revs)])
  /\ UNCHANGED <<section, revs, claims, weak, open, regens, upsets, passed, decided>>

\* ... is stored as STALE, whatever it has become.
MarkStale(p) ==
  /\ call[p].pc = "stale"
  /\ revs' = [revs EXCEPT ![call[p].rev].state = "STALE"]
  /\ Returns(p)
  /\ UNCHANGED <<section, claims, weak, open, regens, started, upsets, passed, decided>>

-----------------------------------------------------------------------------
(* The environment *)

\* The report is submitted, or a newer draft replaces it.
Close ==
  /\ upsets < MaxUpsets /\ upsets' = upsets + 1
  /\ open /\ open' = FALSE
  /\ UNCHANGED <<section, revs, claims, weak, regens, call, started, passed, decided>>

\* Evidence is added, classified or removed.
Evidence ==
  /\ upsets < MaxUpsets /\ upsets' = upsets + 1
  /\ \E s \in Statements : weak' = IF s \in weak THEN weak \ {s} ELSE weak \cup {s}
  /\ UNCHANGED <<section, revs, claims, open, regens, call, started, passed, decided>>

\* The oldest regeneration of the hour leaves it.
Elapse ==
  /\ upsets < MaxUpsets /\ upsets' = upsets + 1
  /\ regens > 0 /\ regens' = regens - 1
  /\ UNCHANGED <<section, revs, claims, weak, open, call, started, passed, decided>>

\* A statement or the writer fails, or the process dies: the request ends where
\* it is.
Fail(p) ==
  /\ call[p].pc # "idle"
  /\ upsets < MaxUpsets /\ upsets' = upsets + 1
  /\ Returns(p)
  /\ UNCHANGED <<section, revs, claims, weak, open, regens, started, passed, decided>>

-----------------------------------------------------------------------------
\* A section before its generation, or as requests one after the other leave
\* it: assessed, its failed statements perhaps decided on, perhaps approved; other
\* sections of the draft may have been regenerated up to the limit.
Blank ==
  /\ section = NoText /\ revs = <<>> /\ claims = {} /\ passed = {} /\ decided = {}
Assessed ==
  \E text \in Texts, settled, approved \in BOOLEAN :
    LET failed  == text \cap Unsupported
        blocked == failed # {} /\ ~ settled
    IN  /\ approved => ~ blocked
        /\ section = [text |-> text, rev |-> 1,
                      status |-> IF approved THEN "APPROVED"
                                 ELSE IF failed # {} THEN "NEEDS_REVIEW" ELSE "DRAFTED"]
        /\ revs = <<[text |-> text, state |-> IF blocked THEN "FAILED" ELSE "CURRENT"]>>
        /\ claims = {[stmt |-> s, rev |-> 1, by |-> 0, ok |-> s \notin failed,
                      resolved |-> settled /\ s \in failed] : s \in text}
        /\ passed = IF blocked THEN {} ELSE {1}
        /\ decided = IF settled THEN failed ELSE {}

Init ==
  /\ Blank \/ Assessed
  /\ weak = Unsupported
  /\ open = TRUE
  /\ regens \in 0..RegenLimit
  /\ call = [p \in Calls |-> Idle]
  /\ started = 0 /\ upsets = 0

Starts(p) ==
  \/ Edit(p) \/ Rewrite(p) \/ Regenerate(p) \/ Reassess(p) \/ Decide(p)
  \/ Reopen(p) \/ Approve(p) \/ Touch(p) \/ Rescope(p)
Continues(p) ==
  \/ Prepare(p) \/ Write(p) \/ Refresh(p) \/ Number(p) \/ Insert(p)
  \/ Store(p) \/ Look(p) \/ Recall(p) \/ Clear(p) \/ Save(p)
  \/ Conclude(p) \/ Review(p) \/ StoreDecision(p) \/ Target(p)
  \/ StoreReopening(p) \/ Check(p) \/ Seal(p) \/ StoreTouched(p) \/ MarkStale(p)

Next ==
  \/ \E p \in Calls : Starts(p) \/ Continues(p) \/ Fail(p)
  \/ Close \/ Evidence \/ Elapse

Spec == Init /\ [][Next]_vars

-----------------------------------------------------------------------------
(* What holds *)

TypeOK ==
  /\ section \in Rows /\ section.rev \in Revs
  /\ revs \in Seq([text : SUBSET Statements, state : States])
  /\ claims \subseteq Claims
  /\ weak \subseteq Statements /\ open \in BOOLEAN /\ regens \in Nat
  /\ call \in [Calls -> [pc : Pcs, op : Ops \cup {"none"}, nr : Nat, row : Rows, rev : Nat,
                         state : States, text : SUBSET Statements, weak : SUBSET Statements, blocked : BOOLEAN,
                         todo : SUBSET Claims]]
  /\ started \in Nat /\ upsets \in Nat
  /\ passed \subseteq Revs /\ decided \subseteq Statements

\* The text of the row is the text of the revision it points at, however many
\* requests write back rows they read earlier: a row is stored whole.
RowMatchesRevision ==
  section.rev # 0 => section.text = revs[section.rev].text

\* An approved section shows a revision that some assessment found complete,
\* never a text stored, regenerated or brought back without one.
ApprovedWasExamined ==
  section.status = "APPROVED" => section.rev \in passed

\* Claims are about statements their revision really makes, although other
\* assessments of the section delete and store claims in between.
ClaimsOfTheirRevision ==
  \A c \in claims : c.rev \in 1..Len(revs) /\ c.stmt \in revs[c.rev].text

\* A statement that counts as decided was decided by a person: re-checks carry
\* decisions to the same statement and to no other.
DecisionsNotSpread ==
  \A c \in claims : c.resolved => c.stmt \in decided

\* The hourly limit is compared before the run is counted: regenerations that
\* overlap can pass it, but only those already under way when it was reached.
RegenerationsBounded ==
  regens < RegenLimit + Cardinality(Calls)

\* The history of the texts, and what the row shows of it.
History == INSTANCE RevisionHistory
             WITH texts    <- [n \in 1..Len(revs) |-> revs[n].text],
                  examined <- passed,
                  shown    <- [text |-> section.text, rev |-> section.rev,
                               approved |-> section.status = "APPROVED"]

\* However requests overlap, fail or die: no revision's text is changed, lost or
\* numbered anew, the row shows one of them word for word, and it becomes
\* APPROVED only with one that has been examined.
KeepsHistory == History!Spec

=============================================================================
