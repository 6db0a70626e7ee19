-------------------------- MODULE SectionGeneration --------------------------
(***************************************************************************)
(* The background narration of one report draft: a pool of workers drafts  *)
(* the sections in two phases (synthesis sections last) while people edit, *)
(* move, mark or delete sections and stop or replace the draft.  One step  *)
(* is one await of the code: a database statement or a call of the writer. *)
(***************************************************************************)
EXTENDS Integers, FiniteSets

CONSTANTS
  NumSections,  \* plan sections 1..NumSections, in plan order
  Synthesis,    \* those that summarise the others (isSynthesisSection)
  Thin,         \* those whose required input was never recorded (hasRequiredInput)
  Workers,      \* AI_REPORTER_SECTION_CONCURRENCY of them
  Editors,      \* slots of concurrent manual requests, one for each row they write
  MaxEdits      \* bound: rows that manual requests read or delete

Sections == 1..NumSections

ASSUME GenerationAssumption ==
  /\ NumSections \in Nat \ {0}
  /\ Synthesis \subseteq Sections
  /\ Thin \subseteq Sections
  /\ IsFiniteSet(Workers) /\ Workers # {}
  /\ IsFiniteSet(Editors) /\ Editors \cap Workers = {}
  /\ MaxEdits \in Nat

VARIABLES
  draft,   \* the ReportDraft row: whether supersededAt is set
  row,     \* the ReportSection rows
  run,     \* local state of generateSectionsInBackground
  worker,  \* local state of each worker
  editor,  \* local state of each manual request
  edits,   \* requests and deletions so far
  calls,   \* history: writer calls made for each section
  wrote,   \* history: what the run last stored in each section
  late,    \* history: sections the run stored after the draft was superseded
  undone   \* history: started sections a stale row has put back to NOT_STARTED

vars == <<draft, row, run, worker, editor, edits, calls, wrote, late, undone>>

\* What the writer leaves: the model's text, the stub for a section that has
\* nothing to be written from, or the stub the writer falls back to.
Written  == {"none", "ai", "gap", "stub"}
Texts    == Written \cup {"user"}
\* NEEDS_REVIEW stands for APPROVED too: only the text decides what follows.
Statuses == {"NOT_STARTED", "DRAFTED", "NEEDS_REVIEW", "DELETED"}
Rows     == [status : Statuses, text : Texts]
Empty    == [status |-> "NOT_STARTED", text |-> "none"]
Deleted  == [status |-> "DELETED", text |-> "none"]

WorkerPc == {"take", "check", "read", "narrate", "commit", "reread", "assess", "done", "dead"}
Ready    == [pc |-> "take", sec |-> 1, row |-> Empty, text |-> "none"]
Busy     == {"check", "read", "narrate", "commit", "reread", "assess"}
EditorPc == {"idle", "commit", "reread", "assess", "restore"}
Resting  == [pc |-> "idle", sec |-> 1, row |-> Empty]

Started(r)        == r.status # "NOT_STARTED"
\* setContent(): the entity's text changes, and NOT_STARTED becomes DRAFTED.
WithText(r, text) == [status |-> IF r.status = "NOT_STARTED" THEN "DRAFTED" ELSE r.status,
                      text   |-> text]

Goes(w, pc)    == worker' = [worker EXCEPT ![w].pc = pc]
Returns(w, pc) == worker' = [worker EXCEPT ![w] = [Ready EXCEPT !.pc = pc]]
Stores(i, r)   == row' = [row EXCEPT ![i] = r]

-----------------------------------------------------------------------------
(* A worker of the pool: generateOneSection() and what it calls *)

\* Wrong: phase[++next].
TakeOffByOne(w) ==
  /\ worker[w].pc = "take"
  /\ ~ run.stopped
  /\ \E i \in run.queue :
       /\ \A j \in run.queue : i <= j
       /\ run' = [run EXCEPT !.queue = @ \ {i}]
       /\ worker' = [worker EXCEPT ![w] = [Ready EXCEPT !.pc = "check", !.sec = i + 1]]
  /\ UNCHANGED <<draft, row, editor, edits, calls, wrote, late, undone>>

\* Wrong: the index is read, and advanced only when the section is finished.
TakeShared(w) ==
  /\ worker[w].pc = "take"
  /\ ~ run.stopped
  /\ \E i \in run.queue :
       /\ \A j \in run.queue : i <= j
       /\ worker' = [worker EXCEPT ![w] = [Ready EXCEPT !.pc = "check", !.sec = i]]
  /\ UNCHANGED <<draft, row, run, editor, edits, calls, wrote, late, undone>>

\* phase[next++]: the sections are handed out in plan order.
Take(w) ==
  /\ worker[w].pc = "take"
  /\ \/ /\ run.stopped \/ run.queue = {}
        /\ Returns(w, "done")
        /\ UNCHANGED run
     \/ /\ ~ run.stopped
        /\ \E i \in run.queue :
             /\ \A j \in run.queue : i <= j
             /\ run' = [run EXCEPT !.queue = @ \ {i}]
             /\ worker' = [worker EXCEPT ![w] = [Ready EXCEPT !.pc = "check", !.sec = i]]
  /\ UNCHANGED <<draft, row, editor, edits, calls, wrote, late, undone>>

\* Wrong: looks at the draft the run was started with.
CheckDraftStale(w) ==
  /\ worker[w].pc = "check"
  /\ Goes(w, "read")
  /\ UNCHANGED <<draft, row, run, editor, edits, calls, wrote, late, undone>>

\* Cancellation is honoured between sections.
CheckDraft(w) ==
  /\ worker[w].pc = "check"
  /\ IF draft.superseded
     THEN Returns(w, "done") /\ run' = [run EXCEPT !.stopped = TRUE]
     ELSE Goes(w, "read") /\ UNCHANGED run
  /\ UNCHANGED <<draft, row, editor, edits, calls, wrote, late, undone>>

\* Sections that exist with a text, or no longer exist, are passed over.
ReadSection(w) ==
  /\ worker[w].pc = "read"
  /\ LET r == row[worker[w].sec]
     IN  IF r.status \in {"DELETED", "DRAFTED"} \/ r.text # "none"
         THEN Returns(w, "take") /\ UNCHANGED calls
         ELSE /\ worker' = [worker EXCEPT ![w].pc = "narrate", ![w].row = r]
              /\ calls' = [calls EXCEPT ![worker[w].sec] = @ + 1]
  /\ UNCHANGED <<draft, row, run, editor, edits, wrote, late, undone>>

\* The writer answers, from the provider or from the stub it falls back to.
\* A thin section is not put to the provider: its stub raises no flag.
Answers(i) == IF i \in Thin THEN {"gap"} ELSE {"ai", "stub"}

Narrate(w) ==
  /\ worker[w].pc = "narrate"
  /\ \E text \in Answers(worker[w].sec) :
       /\ worker' = [worker EXCEPT ![w].pc = "commit", ![w].text = text]
       /\ run' = [run EXCEPT !.fallback = @ \/ text = "stub"]
  /\ UNCHANGED <<draft, row, editor, edits, calls, wrote, late, undone>>

\* commitChange(): a new revision, and the row as it was read before the call.
Commit(w) ==
  /\ worker[w].pc = "commit"
  /\ row[worker[w].sec] # Deleted
  /\ Stores(worker[w].sec, WithText(worker[w].row, worker[w].text))
  /\ wrote' = [wrote EXCEPT ![worker[w].sec] = worker[w].text]
  /\ late' = IF draft.superseded THEN late + 1 ELSE late
  /\ worker' = [worker EXCEPT ![w] = [Ready EXCEPT !.pc = "reread", !.sec = worker[w].sec]]
  /\ UNCHANGED <<draft, run, editor, edits, calls, undone>>

\* assessRevision() reads the row once more ...
Reread(w) ==
  /\ worker[w].pc = "reread"
  /\ row[worker[w].sec] # Deleted
  /\ worker' = [worker EXCEPT ![w].pc = "assess", ![w].row = row[worker[w].sec]]
  /\ UNCHANGED <<draft, row, run, editor, edits, calls, wrote, late, undone>>

\* ... and, much later, writes it back whole when statements are unsupported.
Assess(w) ==
  /\ worker[w].pc = "assess"
  /\ \/ UNCHANGED row
     \/ /\ row[worker[w].sec] # Deleted
        /\ Stores(worker[w].sec, [worker[w].row EXCEPT !.status = "NEEDS_REVIEW"])
  /\ Returns(w, "take")
  /\ UNCHANGED <<draft, run, editor, edits, calls, wrote, late, undone>>

\* Wrong: the worker stops without recording that the generation failed.
PersistFailsSilently(w) ==
  /\ worker[w].pc \in {"commit", "reread", "assess"}
  /\ run' = [run EXCEPT !.stopped = TRUE]
  /\ Returns(w, "done")
  /\ UNCHANGED <<draft, row, editor, edits, calls, wrote, late, undone>>

\* commitChange() or assessRevision() answers with an error.
PersistFails(w) ==
  /\ worker[w].pc \in {"commit", "reread", "assess"}
  /\ run' = [run EXCEPT !.failed = TRUE, !.stopped = TRUE]
  /\ Returns(w, "done")
  /\ UNCHANGED <<draft, row, editor, edits, calls, wrote, late, undone>>

\* Any await may throw (a writer error, a lost connection, a deleted row).
Throw(w) ==
  /\ worker[w].pc \in Busy
  /\ Returns(w, "dead")
  /\ UNCHANGED <<draft, row, run, editor, edits, calls, wrote, late, undone>>

WorkerStep(w) ==
  \/ Take(w) \/ CheckDraft(w) \/ ReadSection(w) \/ Narrate(w) \/ Commit(w)
  \/ Reread(w) \/ Assess(w) \/ PersistFails(w) \/ Throw(w)

-----------------------------------------------------------------------------
(* The supervisor: the rest of generateSectionsInBackground() *)

AllDone == \A w \in Workers : worker[w].pc = "done"

\* Wrong: the summary starts as soon as a worker runs out of sections.
NextPhaseEarly ==
  /\ run.pc = "body"
  /\ run.queue = {}
  /\ ~ run.stopped
  /\ \E w \in Workers :
       /\ worker[w].pc = "done"
       /\ worker' = [worker EXCEPT ![w] = Ready]
  /\ run' = [run EXCEPT !.pc = "synthesis", !.queue = Synthesis]
  /\ UNCHANGED <<draft, row, editor, edits, calls, wrote, late, undone>>

NextPhase ==
  /\ run.pc = "body"
  /\ AllDone
  /\ ~ run.stopped
  /\ run' = [run EXCEPT !.pc = "synthesis", !.queue = Synthesis]
  /\ worker' = [w \in Workers |-> Ready]
  /\ UNCHANGED <<draft, row, editor, edits, calls, wrote, late, undone>>

PhasesEnd ==
  /\ AllDone
  /\ \/ run.pc = "synthesis"
     \/ run.pc = "body" /\ run.stopped
  /\ run' = [run EXCEPT !.pc = "settle"]
  /\ UNCHANGED <<draft, row, worker, editor, edits, calls, wrote, late, undone>>

\* Wrong: the error handler returns.
CatchThrowReturns ==
  /\ run.pc \in {"body", "synthesis"}
  /\ \E w \in Workers : worker[w].pc = "dead"
  /\ ~ run.failed
  /\ run' = [run EXCEPT !.failed = TRUE]
  /\ UNCHANGED <<draft, row, worker, editor, edits, calls, wrote, late, undone>>

\* Promise.all rejects with the first worker; the others are not stopped.
CatchThrow ==
  /\ run.pc \in {"body", "synthesis"}
  /\ \E w \in Workers : worker[w].pc = "dead"
  /\ run' = [run EXCEPT !.pc = "settle", !.failed = TRUE]
  /\ UNCHANGED <<draft, row, worker, editor, edits, calls, wrote, late, undone>>

\* realAiGenerated: billed as one draft, or the credit is given back.
Settle ==
  /\ run.pc = "settle"
  /\ run' = IF ~ run.fallback /\ ~ run.failed
            THEN [run EXCEPT !.pc = "finish", !.outcome = "billed"]
            ELSE [run EXCEPT !.pc = "correct", !.outcome = "released"]
  /\ UNCHANGED <<draft, row, worker, editor, edits, calls, wrote, late, undone>>

\* setGeneratedByAi(false) and drafts.update() of the draft as it was created:
\* the repository stores neither the flag nor an absent supersededAt.
CorrectFlag ==
  /\ run.pc = "correct"
  /\ run' = [run EXCEPT !.pc = "finish"]
  /\ UNCHANGED <<draft, row, worker, editor, edits, calls, wrote, late, undone>>

\* The period advances to DRAFT_GENERATED, whatever the outcome.
Finish ==
  /\ run.pc = "finish"
  /\ run' = [run EXCEPT !.pc = "over"]
  /\ UNCHANGED <<draft, row, worker, editor, edits, calls, wrote, late, undone>>

\* A statement of the settlement throws: audited by the caller, and the end.
SettleThrows ==
  /\ run.pc \in {"settle", "correct", "finish"}
  /\ run' = [run EXCEPT !.pc = "aborted"]
  /\ UNCHANGED <<draft, row, worker, editor, edits, calls, wrote, late, undone>>

\* The process dies with everything it had in flight; nothing resumes it.
Crash ==
  /\ run.pc # "crashed"
  /\ run' = [run EXCEPT !.pc = "crashed"]
  /\ worker' = [w \in Workers |-> [Ready EXCEPT !.pc = "done"]]
  /\ editor' = [e \in Editors |-> Resting]
  /\ UNCHANGED <<draft, row, edits, calls, wrote, late, undone>>

Supervise ==
  NextPhase \/ PhasesEnd \/ CatchThrow \/ Settle \/ CorrectFlag \/ Finish \/ SettleThrows

-----------------------------------------------------------------------------
(* The people working on the draft meanwhile *)

\* "Stop" (CancelReportGenerationHandler) or a newer generation.
Supersede ==
  /\ ~ draft.superseded
  /\ draft' = [draft EXCEPT !.superseded = TRUE]
  /\ UNCHANGED <<row, run, worker, editor, edits, calls, wrote, late, undone>>

\* UpdateReportSectionHandler: the row and the draft are read and checked,
EditRead(e, i) ==
  /\ editor[e].pc = "idle"
  /\ edits < MaxEdits
  /\ row[i] # Deleted
  /\ ~ draft.superseded
  /\ editor' = [editor EXCEPT ![e] = [pc |-> "commit", sec |-> i, row |-> row[i]]]
  /\ edits' = edits + 1
  /\ UNCHANGED <<draft, row, run, worker, calls, wrote, late, undone>>

\* the new text is committed over the row that was read,
EditCommit(e) ==
  /\ editor[e].pc = "commit"
  /\ row[editor[e].sec] # Deleted
  /\ \E text \in {"user", "none"} :
       Stores(editor[e].sec, WithText(editor[e].row, text))
  /\ editor' = [editor EXCEPT ![e].pc = "reread", ![e].row = Empty]
  /\ UNCHANGED <<draft, run, worker, edits, calls, wrote, late, undone>>

\* and assessed like a generated one.
EditReread(e) ==
  /\ editor[e].pc = "reread"
  /\ row[editor[e].sec] # Deleted
  /\ editor' = [editor EXCEPT ![e].pc = "assess", ![e].row = row[editor[e].sec]]
  /\ UNCHANGED <<draft, row, run, worker, edits, calls, wrote, late, undone>>

EditAssess(e) ==
  /\ editor[e].pc = "assess"
  /\ row[editor[e].sec] # Deleted
  /\ Stores(editor[e].sec, [editor[e].row EXCEPT !.status = "NEEDS_REVIEW"])
  /\ editor' = [editor EXCEPT ![e] = Resting]
  /\ UNCHANGED <<draft, run, worker, edits, calls, wrote, late, undone>>

\* Nothing to report, or an error answer at any point.
EditEnds(e) ==
  /\ editor[e].pc # "idle"
  /\ editor' = [editor EXCEPT ![e] = Resting]
  /\ UNCHANGED <<draft, row, run, worker, edits, calls, wrote, late, undone>>

\* The handlers that write a row back without a new text, whatever became of
\* the draft: ReorderReportSections (as many slots as it moves sections),
\* MarkSummaryCurrent and UpdateReportSectionChart read the row,
TouchRead(e, i) ==
  /\ editor[e].pc = "idle"
  /\ edits < MaxEdits
  /\ row[i] # Deleted
  /\ editor' = [editor EXCEPT ![e] = [pc |-> "restore", sec |-> i, row |-> row[i]]]
  /\ edits' = edits + 1
  /\ UNCHANGED <<draft, row, run, worker, calls, wrote, late, undone>>

\* and later store the text and the status they read; ApproveReportSection
\* does so with its own status, for a section that has a revision.
TouchWrite(e) ==
  LET i    == editor[e].sec
      read == editor[e].row
  IN  /\ editor[e].pc = "restore"
      /\ row[i] # Deleted
      /\ \/ Stores(i, read)
         \/ Started(read) /\ Stores(i, [read EXCEPT !.status = "NEEDS_REVIEW"])
      /\ undone' = IF Started(row[i]) /\ ~ Started(read) THEN undone \cup {i} ELSE undone
      /\ editor' = [editor EXCEPT ![e] = Resting]
      /\ UNCHANGED <<draft, run, worker, edits, calls, wrote, late>>

\* DeleteReportSectionHandler; the draft may be superseded.
Delete(i) ==
  /\ edits < MaxEdits
  /\ row[i] # Deleted
  /\ Stores(i, Deleted)
  /\ edits' = edits + 1
  /\ UNCHANGED <<draft, run, worker, editor, calls, wrote, late, undone>>

-----------------------------------------------------------------------------
Init ==
  /\ draft = [superseded |-> FALSE]
  /\ row = [i \in Sections |-> Empty]
  /\ run = [pc |-> "body", queue |-> Sections \ Synthesis, stopped |-> FALSE,
            fallback |-> FALSE, failed |-> FALSE, outcome |-> "none"]
  /\ worker = [w \in Workers |-> Ready]
  /\ editor = [e \in Editors |-> Resting]
  /\ edits = 0
  /\ calls = [i \in Sections |-> 0]
  /\ wrote = [i \in Sections |-> "none"]
  /\ late = 0
  /\ undone = {}

Next ==
  \/ \E w \in Workers : WorkerStep(w)
  \/ Supervise
  \/ Crash
  \/ Supersede
  \/ \E e \in Editors : \/ \E i \in Sections : EditRead(e, i) \/ TouchRead(e, i)
                        \/ EditCommit(e) \/ EditReread(e) \/ EditAssess(e) \/ EditEnds(e)
                        \/ TouchWrite(e)
  \/ \E i \in Sections : Delete(i)

\* Every await settles: writer calls and statements answer, fail or time out.
Spec == /\ Init /\ [][Next]_vars
        /\ \A w \in Workers : WF_vars(WorkerStep(w))
        /\ WF_vars(Supervise)

-----------------------------------------------------------------------------
(* Properties *)

\* Every variable keeps its type, in particular no worker ever holds a section
\* that is not in the plan (the shared index of the pool).
TypeOK ==
  /\ draft \in [superseded : BOOLEAN]
  /\ row \in [Sections -> Rows]
  /\ run \in [pc : {"body", "synthesis", "settle", "correct", "finish", "over",
                    "aborted", "crashed"},
              queue : SUBSET Sections, stopped : BOOLEAN, fallback : BOOLEAN,
              failed : BOOLEAN, outcome : {"none", "billed", "released"}]
  /\ worker \in [Workers -> [pc : WorkerPc, sec : Sections, row : Rows, text : Written]]
  /\ editor \in [Editors -> [pc : EditorPc, sec : Sections, row : Rows]]
  /\ edits \in Nat
  /\ calls \in [Sections -> Nat]
  /\ wrote \in [Sections -> Written]
  /\ late \in Nat
  /\ undone \subseteq Sections

\* "Drafted only after every other section exists": while a synthesis section
\* is being written, no other section is still waiting to be, but for one that
\* was started and that somebody's stale row has put back.
SynthesisLast ==
  \A w \in Workers :
    worker[w].pc \in {"narrate", "commit", "reread", "assess"} /\ worker[w].sec \in Synthesis
      => \A i \in Sections \ Synthesis : Started(row[i]) \/ i \in undone

\* The writer is asked at most once for a section, and by one worker at a time.
NarratedOnce == \A i \in Sections : calls[i] <= 1

\* A billed draft holds no text the writer fell back to: what the run stored is
\* the provider's, or the stub of a section with nothing to be written from.
\* And it is complete unless it has been superseded or a stale row has put a
\* started section back: the run never gave up on a section silently.
BilledIsReal ==
  run.outcome = "billed" =>
    /\ \A i \in Sections : wrote[i] \in {"none", IF i \in Thin THEN "gap" ELSE "ai"}
    /\ draft.superseded \/ \A i \in Sections : Started(row[i]) \/ i \in undone

\* "Stop" is honoured between sections: each worker stores at most the one
\* section it was writing when the draft was superseded.
StopIsPrompt == late <= Cardinality(Workers)

\* The pool delivers what PaidDraft promises: nothing is asked for twice or out
\* of order, and a credit is kept, once and last, only when every answer was
\* stored and none was fallen back to.
Paid     == INSTANCE PaidDraft WITH asked <- calls, text <- wrote, outcome <- run.outcome
Delivers == Paid!Spec

\* A generation that its process survives comes to the end of its settlement,
\* where its credit is billed or given back: no worker waits for a dead one.
RunSettles == <>(run.pc \in {"over", "aborted", "crashed"})
=============================================================================
