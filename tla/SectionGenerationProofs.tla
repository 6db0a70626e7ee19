----------------------- MODULE SectionGenerationProofs -----------------------
(***************************************************************************)
(* Theorems about SectionGeneration for every plan, number of workers,     *)
(* number of editors and bound on edits.                                   *)
(***************************************************************************)
EXTENDS SectionGeneration, FiniteSetTheorems, TLAPS

Body == Sections \ Synthesis

IsBusy(w)   == worker[w].pc \in Busy
Holds(w, i) == IsBusy(w) /\ worker[w].sec = i

\* A section is with one worker or in the queue, and is put to the writer at
\* most once; no summary has been handed out while the body is written.
Claims ==
  /\ \A i \in Sections : calls[i] <= 1
  /\ \A i \in run.queue : calls[i] = 0
  /\ \A w \in Workers : worker[w].pc \in {"check", "read"} => calls[worker[w].sec] = 0
  /\ \A w \in Workers : IsBusy(w) => worker[w].sec \notin run.queue
  /\ \A v, w \in Workers : v # w /\ IsBusy(v) /\ IsBusy(w) => worker[v].sec # worker[w].sec
  /\ run.pc = "body" =>
       /\ run.queue \cap Synthesis = {}
       /\ \A i \in Synthesis : calls[i] = 0
       /\ \A w \in Workers : IsBusy(w) => worker[w].sec \notin Synthesis

\* A section with a text has been started, in the rows and in the copies of
\* them that people hold; a section stays begun, even when such a copy puts it
\* back, and one that a worker has stored is.
Begun(i) == Started(row[i]) \/ i \in undone
RowsStarted ==
  /\ \A i \in Sections : row[i].text # "none" => Started(row[i])
  /\ \A e \in Editors : editor[e].row.text # "none" => Started(editor[e].row)
  /\ \A w \in Workers : worker[w].pc \in {"reread", "assess"} => Begun(worker[w].sec)

\* What a phase has not started is queued or with a worker, unless the pool
\* has been stopped or has lost a worker.
Whole == ~ run.stopped /\ \A w \in Workers : worker[w].pc # "dead"
Accounted(i) == i \in run.queue \/ Begun(i) \/ \E w \in Workers : Holds(w, i)
Progress ==
  /\ run.pc \in {"body", "synthesis"} /\ Whole =>
       /\ \A i \in Body : Accounted(i)
       /\ run.pc = "synthesis" => \A i \in Synthesis : Accounted(i)
       /\ \A w \in Workers : worker[w].pc = "done" => run.queue = {}
  /\ run.pc = "synthesis" => \A i \in Body : Begun(i)
  /\ run.queue \cap Synthesis # {} => \A i \in Body : Begun(i)
  /\ \A w \in Workers : IsBusy(w) /\ worker[w].sec \in Synthesis => \A i \in Body : Begun(i)

\* An answer is one of those the writer has for the section.
Fitting ==
  /\ \A i \in Sections : wrote[i] \in Answers(i) \cup {"none"}
  /\ \A w \in Workers : worker[w].pc = "commit" => worker[w].text \in Answers(worker[w].sec)

\* Where the billing decision comes from.
Excused == draft.superseded \/ \A i \in Sections : Begun(i)
Honest ==
  /\ \A i \in Sections : wrote[i] = "stub" => run.fallback
  /\ \A w \in Workers : worker[w].pc = "commit" /\ worker[w].text = "stub" => run.fallback
  /\ run.stopped => run.failed \/ draft.superseded
  /\ run.pc \in {"body", "synthesis", "settle"} => run.outcome = "none"
  /\ run.pc = "settle" /\ ~ run.failed => AllDone /\ Excused
  /\ run.outcome = "billed" => ~ run.fallback /\ AllDone /\ Excused

\* Workers that have passed the check of the draft and have yet to store.
Past == {w \in Workers : worker[w].pc \in {"read", "narrate", "commit"}}
Prompt ==
  /\ ~ draft.superseded => late = 0
  /\ late + Cardinality(Past) <= Cardinality(Workers)

(***************************************************************************)
(* Types                                                                   *)
(***************************************************************************)

WorkerType == [pc : WorkerPc, sec : Sections, row : Rows, text : Written]
EditorType == [pc : EditorPc, sec : Sections, row : Rows]

\* The states a worker or an editor starts from, and the rows they write.
LEMMA StartTypes ==
  /\ \A pc \in WorkerPc, i \in Sections : [Ready EXCEPT !.pc = pc, !.sec = i] \in WorkerType
  /\ \A pc \in WorkerPc : [Ready EXCEPT !.pc = pc] \in WorkerType
  /\ Ready \in WorkerType
  /\ Resting \in EditorType
  /\ Empty \in Rows /\ Deleted \in Rows
  /\ \A r \in Rows, t \in Texts : WithText(r, t) \in Rows
  /\ \A r \in Rows : [r EXCEPT !.status = "NEEDS_REVIEW"] \in Rows
<1>1. 1 \in Sections
  BY GenerationAssumption DEF Sections
<1>2. Empty \in Rows /\ Deleted \in Rows
  BY DEF Rows, Empty, Deleted, Statuses, Texts, Written
<1>3. Ready \in WorkerType /\ Resting \in EditorType
  BY <1>1, <1>2 DEF Ready, Resting, WorkerType, EditorType, WorkerPc, EditorPc, Written
<1>4. \A r \in Rows, t \in Texts : WithText(r, t) \in Rows
  BY DEF Rows, WithText, Statuses
<1>5. \A r \in Rows : [r EXCEPT !.status = "NEEDS_REVIEW"] \in Rows
  BY DEF Rows, Statuses
<1> QED BY <1>2, <1>3, <1>4, <1>5 DEF WorkerType

\* What a worker becomes when one of its fields changes.
LEMMA WorkerFields ==
  /\ \A r \in WorkerType, pc \in WorkerPc : [r EXCEPT !.pc = pc] \in WorkerType
  /\ \A r \in WorkerType, pc \in WorkerPc, x \in Rows :
       [r EXCEPT !.pc = pc, !.row = x] \in WorkerType
  /\ \A r \in WorkerType, pc \in WorkerPc, t \in Written :
       [r EXCEPT !.pc = pc, !.text = t] \in WorkerType
BY DEF WorkerType

\* The same for an editor.
LEMMA EditorFields ==
  \A r \in EditorType, pc \in EditorPc, x \in Rows :
     [r EXCEPT !.pc = pc, !.row = x] \in EditorType
BY DEF EditorType

LEMMA WorkerMoves ==
  ASSUME TypeOK, NEW w \in Workers, NEW pc \in WorkerPc, Goes(w, pc) \/ Returns(w, pc)
  PROVE  worker' \in [Workers -> WorkerType]
<1>1. worker \in [Workers -> WorkerType] /\ worker[w] \in WorkerType
  BY DEF TypeOK, WorkerType
<1>2. [worker[w] EXCEPT !.pc = pc] \in WorkerType /\ [Ready EXCEPT !.pc = pc] \in WorkerType
  BY <1>1, StartTypes, WorkerFields
<1>3. CASE Goes(w, pc)
  <2>1. worker' = [worker EXCEPT ![w] = [worker[w] EXCEPT !.pc = pc]]
    BY <1>3 DEF Goes
  <2> QED BY <1>1, <1>2, <2>1
<1>4. CASE Returns(w, pc)
  BY <1>1, <1>2, <1>4 DEF Returns
<1> QED BY <1>3, <1>4

\* A worker's step preserves the types.
LEMMA WorkerStepType ==
  ASSUME TypeOK, NEW w \in Workers, WorkerStep(w)
  PROVE  TypeOK'
<1> USE DEF WorkerPc
<1>a. worker \in [Workers -> WorkerType] /\ worker[w] \in WorkerType
  BY DEF TypeOK, WorkerType
<1>b. worker[w].sec \in Sections /\ row[worker[w].sec] \in Rows /\ worker[w].row \in Rows
  BY <1>a DEF TypeOK, WorkerType
<1>1. CASE Take(w)
  <2>1. CASE Returns(w, "done") /\ UNCHANGED run
    <3>1. worker' \in [Workers -> WorkerType]
      BY <2>1, WorkerMoves
    <3> QED BY <1>1, <2>1, <3>1 DEF Take, TypeOK, WorkerType
  <2>2. CASE \E i \in run.queue :
               /\ run' = [run EXCEPT !.queue = @ \ {i}]
               /\ worker' = [worker EXCEPT ![w] = [Ready EXCEPT !.pc = "check", !.sec = i]]
    <3>1. PICK i \in run.queue :
               /\ run' = [run EXCEPT !.queue = @ \ {i}]
               /\ worker' = [worker EXCEPT ![w] = [Ready EXCEPT !.pc = "check", !.sec = i]]
      BY <2>2
    <3>2. i \in Sections
      BY DEF TypeOK
    <3>3. [Ready EXCEPT !.pc = "check", !.sec = i] \in WorkerType
      BY <3>2, StartTypes
    <3>4. worker' \in [Workers -> WorkerType]
      BY <1>a, <3>1, <3>3
    <3> QED BY <1>1, <3>1, <3>4 DEF Take, TypeOK, WorkerType
  <2> QED BY <1>1, <2>1, <2>2 DEF Take
<1>2. CASE CheckDraft(w)
  <2>1. worker' \in [Workers -> WorkerType]
    BY <1>2, WorkerMoves DEF CheckDraft
  <2> QED BY <1>2, <2>1 DEF CheckDraft, TypeOK, WorkerType
<1>3. CASE ReadSection(w)
  <2>1. worker' \in [Workers -> WorkerType]
    <3>1. CASE Returns(w, "take")
      BY <3>1, WorkerMoves
    <3>2. CASE worker' = [worker EXCEPT ![w].pc = "narrate", ![w].row = row[worker[w].sec]]
      <4>1. worker' = [worker EXCEPT ![w] =
                         [worker[w] EXCEPT !.pc = "narrate", !.row = row[worker[w].sec]]]
        BY <3>2, <1>a
      <4>2. [worker[w] EXCEPT !.pc = "narrate", !.row = row[worker[w].sec]] \in WorkerType
        BY <1>a, <1>b, WorkerFields
      <4> QED BY <1>a, <4>1, <4>2
    <3> QED BY <1>3, <3>1, <3>2 DEF ReadSection
  <2> QED BY <1>3, <1>b, <2>1 DEF ReadSection, TypeOK, WorkerType
<1>4. CASE Narrate(w)
  <2>1. PICK text \in Answers(worker[w].sec) :
               /\ worker' = [worker EXCEPT ![w].pc = "commit", ![w].text = text]
               /\ run' = [run EXCEPT !.fallback = @ \/ text = "stub"]
    BY <1>4 DEF Narrate
  <2>2. [worker[w] EXCEPT !.pc = "commit", !.text = text] \in WorkerType
    BY <1>a, WorkerFields DEF Written, Answers
  <2>3. worker' = [worker EXCEPT ![w] = [worker[w] EXCEPT !.pc = "commit", !.text = text]]
    BY <2>1, <1>a
  <2>4. worker' \in [Workers -> WorkerType]
    BY <1>a, <2>2, <2>3
  <2>5. run'.fallback \in BOOLEAN /\ run' = [run EXCEPT !.fallback = run'.fallback]
    BY <2>1, Zenon DEF TypeOK
  <2> QED BY <1>4, <2>4, <2>5 DEF Narrate, TypeOK, WorkerType
<1>5. CASE Commit(w)
  <2>1. worker' \in [Workers -> WorkerType]
    BY <1>5, <1>a, <1>b, StartTypes DEF Commit
  <2>2. worker[w].text \in Written /\ worker[w].text \in Texts
    BY <1>a DEF WorkerType, Texts
  <2>3. row' \in [Sections -> Rows]
    BY <1>5, <1>b, <2>2, StartTypes DEF Commit, Stores, TypeOK
  <2>4. wrote' \in [Sections -> Written] /\ late' \in Nat
    BY <1>5, <1>b, <2>2 DEF Commit, TypeOK
  <2> QED BY <1>5, <2>1, <2>3, <2>4 DEF Commit, TypeOK, WorkerType
<1>6. CASE Reread(w)
  <2>1. [worker[w] EXCEPT !.pc = "assess", !.row = row[worker[w].sec]] \in WorkerType
    BY <1>a, <1>b, WorkerFields
  <2>2. worker' = [worker EXCEPT ![w] =
                     [worker[w] EXCEPT !.pc = "assess", !.row = row[worker[w].sec]]]
    BY <1>6, <1>a DEF Reread
  <2>3. worker' \in [Workers -> WorkerType]
    BY <1>a, <2>1, <2>2
  <2> QED BY <1>6, <2>3 DEF Reread, TypeOK, WorkerType
<1>7. CASE Assess(w)
  <2>1. worker' \in [Workers -> WorkerType]
    BY <1>7, WorkerMoves DEF Assess
  <2>2. [worker[w].row EXCEPT !.status = "NEEDS_REVIEW"] \in Rows
    BY <1>b, StartTypes
  <2>3. row' \in [Sections -> Rows]
    BY <1>7, <1>b, <2>2 DEF Assess, Stores, TypeOK
  <2> QED BY <1>7, <2>1, <2>3 DEF Assess, TypeOK, WorkerType
<1>8. CASE PersistFails(w)
  <2>1. worker' \in [Workers -> WorkerType]
    BY <1>8, WorkerMoves DEF PersistFails
  <2> QED BY <1>8, <2>1 DEF PersistFails, TypeOK, WorkerType
<1>9. CASE Throw(w)
  <2>1. worker' \in [Workers -> WorkerType]
    BY <1>9, WorkerMoves DEF Throw
  <2> QED BY <1>9, <2>1 DEF Throw, TypeOK, WorkerType
<1> QED BY <1>1, <1>2, <1>3, <1>4, <1>5, <1>6, <1>7, <1>8, <1>9 DEF WorkerStep

\* The supervisor and the people preserve the types.
LEMMA OtherStepType ==
  ASSUME TypeOK, Supervise \/ Crash \/ Supersede
  PROVE  TypeOK'
<1> USE DEF WorkerPc
<1>1. CASE NextPhase
  <2>1. worker' \in [Workers -> WorkerType]
    BY <1>1, StartTypes DEF NextPhase
  <2>2. Synthesis \in SUBSET Sections
    BY GenerationAssumption
  <2> QED BY <1>1, <2>1, <2>2 DEF NextPhase, TypeOK, WorkerType
<1>2. CASE PhasesEnd
  BY <1>2 DEF PhasesEnd, TypeOK
<1>3. CASE CatchThrow
  BY <1>3 DEF CatchThrow, TypeOK
<1>4. CASE Settle
  BY <1>4 DEF Settle, TypeOK
<1>5. CASE CorrectFlag
  BY <1>5 DEF CorrectFlag, TypeOK
<1>6. CASE Finish
  BY <1>6 DEF Finish, TypeOK
<1>9. CASE SettleThrows
  BY <1>9 DEF SettleThrows, TypeOK
<1>7. CASE Crash
  <2>1. worker' \in [Workers -> WorkerType] /\ editor' \in [Editors -> EditorType]
    BY <1>7, StartTypes DEF Crash
  <2> QED BY <1>7, <2>1 DEF Crash, TypeOK, WorkerType, EditorType
<1>8. CASE Supersede
  BY <1>8 DEF Supersede, TypeOK
<1> QED BY <1>1, <1>2, <1>3, <1>4, <1>5, <1>6, <1>7, <1>8, <1>9 DEF Supervise

LEMMA EditStepType ==
  ASSUME TypeOK, NEW e \in Editors, NEW i \in Sections,
         \/ EditRead(e, i) \/ EditCommit(e) \/ EditReread(e) \/ EditAssess(e)
         \/ EditEnds(e) \/ TouchRead(e, i) \/ TouchWrite(e) \/ Delete(i)
  PROVE  TypeOK'
<1> USE DEF EditorPc
<1>a. editor \in [Editors -> EditorType] /\ editor[e] \in EditorType
  BY DEF TypeOK, EditorType
<1>b. /\ editor[e].sec \in Sections /\ editor[e].row \in Rows
      /\ row[editor[e].sec] \in Rows /\ row[i] \in Rows /\ row \in [Sections -> Rows]
  BY <1>a DEF TypeOK, EditorType
<1>1. CASE EditRead(e, i)
  <2>1. [pc |-> "commit", sec |-> i, row |-> row[i]] \in EditorType
    BY <1>b DEF EditorType
  <2>2. editor' \in [Editors -> EditorType]
    BY <1>1, <1>a, <2>1 DEF EditRead
  <2> QED BY <1>1, <2>2 DEF EditRead, TypeOK, EditorType
<1>2. CASE EditCommit(e)
  <2>1. [editor[e] EXCEPT !.pc = "reread", !.row = Empty] \in EditorType
    BY <1>a, StartTypes, EditorFields
  <2>2. editor' = [editor EXCEPT ![e] = [editor[e] EXCEPT !.pc = "reread", !.row = Empty]]
    BY <1>2, <1>a DEF EditCommit
  <2>3. editor' \in [Editors -> EditorType]
    BY <1>a, <2>1, <2>2
  <2>4. PICK text \in {"user", "none"} : Stores(editor[e].sec, WithText(editor[e].row, text))
    BY <1>2 DEF EditCommit
  <2>5. WithText(editor[e].row, text) \in Rows
    BY <1>b, StartTypes DEF Texts, Written
  <2>6. row' \in [Sections -> Rows]
    BY <1>b, <2>4, <2>5 DEF Stores
  <2> QED BY <1>2, <2>3, <2>6 DEF EditCommit, TypeOK, EditorType
<1>3. CASE EditReread(e)
  <2>1. [editor[e] EXCEPT !.pc = "assess", !.row = row[editor[e].sec]] \in EditorType
    BY <1>a, <1>b, EditorFields
  <2>2. editor' = [editor EXCEPT ![e] =
                     [editor[e] EXCEPT !.pc = "assess", !.row = row[editor[e].sec]]]
    BY <1>3, <1>a DEF EditReread
  <2>3. editor' \in [Editors -> EditorType]
    BY <1>a, <2>1, <2>2
  <2> QED BY <1>3, <2>3 DEF EditReread, TypeOK, EditorType
<1>4. CASE EditAssess(e)
  <2>1. [editor[e].row EXCEPT !.status = "NEEDS_REVIEW"] \in Rows
    BY <1>b, StartTypes
  <2>2. row' \in [Sections -> Rows]
    BY <1>4, <1>b, <2>1 DEF EditAssess, Stores
  <2>3. editor' \in [Editors -> EditorType]
    BY <1>4, <1>a, StartTypes DEF EditAssess
  <2> QED BY <1>4, <2>2, <2>3 DEF EditAssess, TypeOK, EditorType
<1>5. CASE EditEnds(e)
  <2>1. editor' \in [Editors -> EditorType]
    BY <1>5, <1>a, StartTypes DEF EditEnds
  <2> QED BY <1>5, <2>1 DEF EditEnds, TypeOK, EditorType
<1>6. CASE Delete(i)
  <2>1. row' \in [Sections -> Rows]
    BY <1>6, <1>b, StartTypes DEF Delete, Stores
  <2> QED BY <1>6, <2>1 DEF Delete, TypeOK
<1>7. CASE TouchRead(e, i)
  <2>1. [pc |-> "restore", sec |-> i, row |-> row[i]] \in EditorType
    BY <1>b DEF EditorType
  <2>2. editor' \in [Editors -> EditorType]
    BY <1>7, <1>a, <2>1 DEF TouchRead
  <2> QED BY <1>7, <2>2 DEF TouchRead, TypeOK, EditorType
<1>8. CASE TouchWrite(e)
  <2>1. [editor[e].row EXCEPT !.status = "NEEDS_REVIEW"] \in Rows
    BY <1>b, StartTypes
  <2>2. row' \in [Sections -> Rows]
    BY <1>8, <1>b, <2>1 DEF TouchWrite, Stores
  <2>3. editor' \in [Editors -> EditorType]
    BY <1>8, <1>a, StartTypes DEF TouchWrite
  <2>4. undone' \subseteq Sections
    BY <1>8, <1>b DEF TouchWrite, TypeOK
  <2> QED BY <1>8, <2>2, <2>3, <2>4 DEF TouchWrite, TypeOK, EditorType
<1> QED BY <1>1, <1>2, <1>3, <1>4, <1>5, <1>6, <1>7, <1>8

LEMMA TypeStep ==
  ASSUME TypeOK, [Next]_vars
  PROVE  TypeOK'
<1>1. CASE UNCHANGED vars
  BY <1>1 DEF vars, TypeOK
<1>2. CASE Next
  <2>1. 1 \in Sections
    BY GenerationAssumption DEF Sections
  <2>2. CASE \E e \in Editors : \/ EditCommit(e) \/ EditReread(e) \/ EditAssess(e) \/ EditEnds(e)
                               \/ TouchWrite(e)
    BY <2>1, <2>2, EditStepType
  <2>3. CASE \E e \in Editors, i \in Sections : EditRead(e, i) \/ TouchRead(e, i)
    BY <2>3, EditStepType
  <2>4. ASSUME NEW i \in Sections, Delete(i) PROVE TypeOK'
    <3>1. row' \in [Sections -> Rows]
      BY <2>4, StartTypes DEF Delete, Stores, TypeOK
    <3> QED BY <2>4, <3>1 DEF Delete, TypeOK
  <2> QED BY <1>2, <2>2, <2>3, <2>4, WorkerStepType, OtherStepType DEF Next
<1> QED BY <1>1, <1>2

\* Every value of the rows, of the run and of the people's requests keeps to
\* its type, whatever the interleaving.
THEOREM TypeCorrect == Spec => []TypeOK
<1>1. Init => TypeOK
  <2> SUFFICES ASSUME Init PROVE TypeOK
    OBVIOUS
  <2>1. Empty \in Rows /\ Ready \in WorkerType /\ Resting \in EditorType
    BY StartTypes
  <2>2. Synthesis \subseteq Sections
    BY GenerationAssumption
  <2> QED BY <2>1, <2>2 DEF Init, TypeOK, WorkerType, EditorType, Written
<1>2. TypeOK /\ [Next]_vars => TypeOK'
  BY TypeStep
<1> QED BY <1>1, <1>2, PTL DEF Spec

(***************************************************************************)
(* What one step can change                                                *)
(***************************************************************************)

EditStep ==
  \/ \E e \in Editors, i \in Sections : EditRead(e, i) \/ TouchRead(e, i)
  \/ \E e \in Editors : \/ EditCommit(e) \/ EditReread(e) \/ EditAssess(e) \/ EditEnds(e)
                        \/ TouchWrite(e)
  \/ \E i \in Sections : Delete(i)

LEMMA StepKinds ==
  ASSUME [Next]_vars
  PROVE  \/ \E w \in Workers : WorkerStep(w)
         \/ Supervise \/ Crash \/ Supersede \/ EditStep \/ UNCHANGED vars
<1>1. CASE Next
  BY <1>1 DEF Next, EditStep
<1> QED BY <1>1

\* A step of one worker, seen from the others and from the supervisor.
LEMMA WorkerMotion ==
  ASSUME TypeOK, NEW w \in Workers, WorkerStep(w)
  PROVE  /\ \A v \in Workers : v # w => worker'[v] = worker[v]
         /\ run'.pc = run.pc /\ run'.outcome = run.outcome
         /\ UNCHANGED <<draft, editor, edits, undone>>
         /\ worker[w].pc \in Busy \cup {"take"}
         /\ run.failed => run'.failed
<1>a. worker \in [Workers -> WorkerType]
  BY DEF TypeOK, WorkerType
<1> USE DEF Goes, Returns, Busy, TypeOK
<1>1. CASE Take(w)
  BY <1>1, <1>a DEF Take
<1>2. CASE CheckDraft(w)
  BY <1>2, <1>a DEF CheckDraft
<1>3. CASE ReadSection(w)
  BY <1>3, <1>a DEF ReadSection
<1>4. CASE Narrate(w)
  BY <1>4, <1>a DEF Narrate
<1>5. CASE Commit(w)
  BY <1>5, <1>a DEF Commit
<1>6. CASE Reread(w)
  BY <1>6, <1>a DEF Reread
<1>7. CASE Assess(w)
  BY <1>7, <1>a DEF Assess
<1>8. CASE PersistFails(w)
  BY <1>8, <1>a DEF PersistFails
<1>9. CASE Throw(w)
  BY <1>9, <1>a DEF Throw
<1> QED BY <1>1, <1>2, <1>3, <1>4, <1>5, <1>6, <1>7, <1>8, <1>9 DEF WorkerStep

\* A worker either takes a section or goes on with the one it holds.
LEMMA WorkerCourse ==
  ASSUME TypeOK, NEW w \in Workers, WorkerStep(w), ~ Take(w)
  PROVE  /\ run'.queue = run.queue
         /\ worker[w].pc \in Busy
         /\ worker'[w].pc \in Busy => worker'[w].sec = worker[w].sec
         /\ worker'[w].pc \in {"check", "read"} => worker[w].pc = "check" /\ calls' = calls
         /\ \/ calls' = calls
            \/ worker[w].pc = "read" /\ calls' = [calls EXCEPT ![worker[w].sec] = @ + 1]
<1>a. worker \in [Workers -> WorkerType] /\ worker[w] \in WorkerType
  BY DEF TypeOK, WorkerType
<1> USE DEF Goes, Returns, Busy, WorkerType
<1>2. CASE CheckDraft(w)
  BY <1>2, <1>a DEF CheckDraft, Ready, TypeOK
<1>3. CASE ReadSection(w)
  BY <1>3, <1>a DEF ReadSection, Ready
<1>4. CASE Narrate(w)
  BY <1>4, <1>a DEF Narrate, TypeOK
<1>5. CASE Commit(w)
  BY <1>5, <1>a DEF Commit, Ready
<1>6. CASE Reread(w)
  BY <1>6, <1>a DEF Reread
<1>7. CASE Assess(w)
  BY <1>7, <1>a DEF Assess, Ready
<1>8. CASE PersistFails(w)
  BY <1>8, <1>a DEF PersistFails, Ready, TypeOK
<1>9. CASE Throw(w)
  BY <1>9, <1>a DEF Throw, Ready
<1> QED BY <1>2, <1>3, <1>4, <1>5, <1>6, <1>7, <1>8, <1>9 DEF WorkerStep

\* Taking ends the worker or moves the first queued section to it.
LEMMA TakeCourse ==
  ASSUME TypeOK, NEW w \in Workers, Take(w)
  PROVE  /\ worker[w].pc = "take" /\ UNCHANGED <<row, calls, wrote, late>>
         /\ \/ /\ run.stopped \/ run.queue = {}
               /\ worker'[w].pc = "done" /\ run' = run
            \/ /\ ~ run.stopped
               /\ \E i \in run.queue :
                    /\ i \in Sections
                    /\ run' = [run EXCEPT !.queue = @ \ {i}]
                    /\ worker'[w].pc = "check" /\ worker'[w].sec = i
<1>a. worker \in [Workers -> WorkerType]
  BY DEF TypeOK, WorkerType
<1>1. CASE (run.stopped \/ run.queue = {}) /\ Returns(w, "done") /\ UNCHANGED run
  BY <1>1, <1>a DEF Take, Returns, Ready
<1>2. CASE ~ run.stopped /\
           \E i \in run.queue :
              /\ run' = [run EXCEPT !.queue = @ \ {i}]
              /\ worker' = [worker EXCEPT ![w] = [Ready EXCEPT !.pc = "check", !.sec = i]]
  <2>1. PICK i \in run.queue :
              /\ run' = [run EXCEPT !.queue = @ \ {i}]
              /\ worker' = [worker EXCEPT ![w] = [Ready EXCEPT !.pc = "check", !.sec = i]]
    BY <1>2
  <2>2. worker'[w].pc = "check" /\ worker'[w].sec = i /\ i \in Sections
    BY <1>a, <2>1 DEF Ready, TypeOK
  <2> QED BY <1>2, <2>1, <2>2 DEF Take
<1> QED BY <1>1, <1>2 DEF Take

(***************************************************************************)
(* Claims: one worker and one writer call for a section                    *)
(***************************************************************************)

LEMMA ClaimsTake ==
  ASSUME TypeOK, Claims, NEW w \in Workers, Take(w)
  PROVE  Claims'
<1>a. worker \in [Workers -> WorkerType] /\ worker[w].pc = "take"
  BY TakeCourse DEF TypeOK, WorkerType
<1>b. \A v \in Workers : v # w => worker'[v] = worker[v]
  BY WorkerMotion DEF WorkerStep
<1>c. run'.pc = run.pc /\ calls' = calls
  BY WorkerMotion, TakeCourse DEF WorkerStep
<1>1. CASE worker'[w].pc = "done" /\ run' = run
  BY <1>a, <1>b, <1>c, <1>1 DEF Claims, IsBusy, Busy
<1>2. CASE \E i \in run.queue :
             /\ i \in Sections
             /\ run' = [run EXCEPT !.queue = @ \ {i}]
             /\ worker'[w].pc = "check" /\ worker'[w].sec = i
  <2>1. PICK i \in run.queue :
             /\ i \in Sections
             /\ run' = [run EXCEPT !.queue = @ \ {i}]
             /\ worker'[w].pc = "check" /\ worker'[w].sec = i
    BY <1>2
  <2>2. run'.queue = run.queue \ {i}
    BY <2>1 DEF TypeOK
  <2>3. \A v \in Workers : IsBusy(v) => worker[v].sec # i
    BY <2>1 DEF Claims
  <2>4. /\ \A j \in Sections : calls'[j] <= 1
        /\ \A j \in run'.queue : calls'[j] = 0
    BY <1>c, <2>2 DEF Claims
  <2>5. \A v \in Workers : worker'[v].pc \in {"check", "read"} => calls'[worker'[v].sec] = 0
    BY <1>b, <1>c, <2>1 DEF Claims
  <2>6. \A v \in Workers : IsBusy(v)' => worker'[v].sec \notin run'.queue
    BY <1>b, <2>1, <2>2 DEF Claims, IsBusy
  <2>7. \A u, v \in Workers : u # v /\ IsBusy(u)' /\ IsBusy(v)' => worker'[u].sec # worker'[v].sec
    BY <1>b, <2>1, <2>3 DEF Claims, IsBusy
  <2>8. run'.pc = "body" =>
          /\ run'.queue \cap Synthesis = {}
          /\ \A j \in Synthesis : calls'[j] = 0
          /\ \A v \in Workers : IsBusy(v)' => worker'[v].sec \notin Synthesis
    BY <1>b, <1>c, <2>1, <2>2 DEF Claims, IsBusy
  <2> QED BY <2>4, <2>5, <2>6, <2>7, <2>8 DEF Claims
<1> QED BY <1>1, <1>2, TakeCourse

LEMMA ClaimsWorker ==
  ASSUME TypeOK, Claims, NEW w \in Workers, WorkerStep(w), ~ Take(w)
  PROVE  Claims'
<1>a. worker \in [Workers -> WorkerType] /\ worker[w].sec \in Sections
  BY DEF TypeOK, WorkerType
<1>b. \A v \in Workers : v # w => worker'[v] = worker[v]
  BY WorkerMotion
<1>c. run'.pc = run.pc /\ run'.queue = run.queue
  BY WorkerMotion, WorkerCourse
<1>d. IsBusy(w) /\ (worker'[w].pc \in Busy => worker'[w].sec = worker[w].sec)
  BY WorkerCourse DEF IsBusy
<1>e. \A v \in Workers : IsBusy(v)' => IsBusy(v) /\ worker'[v].sec = worker[v].sec
  BY <1>b, <1>d DEF IsBusy
<1>f. calls \in [Sections -> Nat]
  BY DEF TypeOK
<1>1. \A v \in Workers : IsBusy(v)' => worker'[v].sec \notin run'.queue
  BY <1>c, <1>e DEF Claims
<1>2. \A u, v \in Workers : u # v /\ IsBusy(u)' /\ IsBusy(v)' => worker'[u].sec # worker'[v].sec
  BY <1>e DEF Claims
<1>3. \A v \in Workers : worker'[v].pc \in {"check", "read"} => IsBusy(v)'
  BY DEF IsBusy, Busy
<1>4. CASE calls' = calls
  <2>1. \A v \in Workers : worker'[v].pc \in {"check", "read"} => calls'[worker'[v].sec] = 0
    BY <1>b, <1>3, <1>e, <1>4, WorkerCourse DEF Claims
  <2>2. run'.pc = "body" =>
          /\ run'.queue \cap Synthesis = {}
          /\ \A j \in Synthesis : calls'[j] = 0
          /\ \A v \in Workers : IsBusy(v)' => worker'[v].sec \notin Synthesis
    BY <1>c, <1>e, <1>4 DEF Claims
  <2> QED BY <1>1, <1>2, <1>4, <1>c, <2>1, <2>2 DEF Claims
<1>5. CASE worker[w].pc = "read" /\ calls' = [calls EXCEPT ![worker[w].sec] = @ + 1]
  <2>1. calls[worker[w].sec] = 0 /\ calls'[worker[w].sec] = 1
    BY <1>a, <1>f, <1>5 DEF Claims
  <2>2. \A i \in Sections : i # worker[w].sec => calls'[i] = calls[i]
    BY <1>5, <1>f
  <2>3. \A i \in Sections : calls'[i] <= 1
    BY <2>1, <2>2 DEF Claims
  <2>4. \A i \in run'.queue : calls'[i] = 0
    BY <1>c, <1>d, <2>2 DEF Claims, TypeOK
  <2>5. ~ worker'[w].pc \in {"check", "read"}
    BY <1>5, WorkerCourse
  <2>6. \A v \in Workers : worker'[v].pc \in {"check", "read"} => calls'[worker'[v].sec] = 0
    <3> SUFFICES ASSUME NEW v \in Workers, worker'[v].pc \in {"check", "read"}
                 PROVE  calls'[worker'[v].sec] = 0
      OBVIOUS
    <3>1. v # w /\ worker'[v] = worker[v] /\ IsBusy(v)
      BY <1>b, <1>3, <1>e, <2>5
    <3>2. worker[v].sec # worker[w].sec /\ worker[v].sec \in Sections
      BY <1>a, <1>d, <3>1 DEF Claims, TypeOK, WorkerType
    <3> QED BY <2>2, <3>1, <3>2 DEF Claims
  <2>7. run'.pc = "body" =>
          /\ run'.queue \cap Synthesis = {}
          /\ \A j \in Synthesis : calls'[j] = 0
          /\ \A v \in Workers : IsBusy(v)' => worker'[v].sec \notin Synthesis
    BY <1>c, <1>d, <1>e, <2>2, GenerationAssumption DEF Claims
  <2> QED BY <1>1, <1>2, <2>3, <2>4, <2>6, <2>7 DEF Claims
<1> QED BY <1>4, <1>5, WorkerCourse

LEMMA ClaimsStep ==
  ASSUME TypeOK, Claims, [Next]_vars
  PROVE  Claims'
<1>1. CASE NextPhase
  <2>1. run.pc = "body" /\ run'.queue = Synthesis /\ run'.pc = "synthesis" /\ calls' = calls
    BY <1>1 DEF NextPhase, TypeOK
  <2>2. \A w \in Workers : ~ IsBusy(w)' /\ worker'[w].pc \notin {"check", "read"}
    BY <1>1 DEF NextPhase, IsBusy, Busy, Ready
  <2> QED BY <2>1, <2>2 DEF Claims
<1>2. CASE PhasesEnd
  BY <1>2 DEF PhasesEnd, Claims, IsBusy, TypeOK
<1>3. CASE CatchThrow
  BY <1>3 DEF CatchThrow, Claims, IsBusy, TypeOK
<1>4. CASE Settle
  BY <1>4 DEF Settle, Claims, IsBusy, TypeOK
<1>5. CASE CorrectFlag
  BY <1>5 DEF CorrectFlag, Claims, IsBusy, TypeOK
<1>6. CASE Finish
  BY <1>6 DEF Finish, Claims, IsBusy, TypeOK
<1>12. CASE SettleThrows
  BY <1>12 DEF SettleThrows, Claims, IsBusy, TypeOK
<1>7. CASE Crash
  <2>1. run'.pc = "crashed" /\ run'.queue = run.queue /\ calls' = calls
    BY <1>7 DEF Crash, TypeOK
  <2>2. \A w \in Workers : ~ IsBusy(w)' /\ worker'[w].pc \notin {"check", "read"}
    BY <1>7 DEF Crash, IsBusy, Busy, Ready
  <2> QED BY <2>1, <2>2 DEF Claims
<1>8. CASE UNCHANGED <<run, worker, calls>>
  BY <1>8 DEF Claims, IsBusy
<1>9. CASE UNCHANGED vars \/ Supersede \/ EditStep
  BY <1>8, <1>9 DEF vars, EditStep, Supersede, EditRead, EditCommit, EditReread, EditAssess, EditEnds, TouchRead, TouchWrite, Delete
<1>10. CASE \E w \in Workers : WorkerStep(w)
  BY <1>10, ClaimsTake, ClaimsWorker
<1>11. CASE Supervise
  BY <1>1, <1>2, <1>3, <1>4, <1>5, <1>6, <1>11, <1>12 DEF Supervise
<1> QED BY <1>7, <1>9, <1>10, <1>11, StepKinds

\* However many workers share the plan and whatever fails, is edited or is
\* stopped meanwhile, no section is put to the writer twice.
THEOREM WriterAskedOnce == Spec => []NarratedOnce
<1>1. Init => Claims
  BY GenerationAssumption DEF Init, Claims, IsBusy, Busy, Ready
<1>2. TypeOK /\ Claims /\ [Next]_vars => Claims'
  BY ClaimsStep
<1>3. Claims => NarratedOnce
  BY DEF Claims, NarratedOnce
<1> QED BY <1>1, <1>2, <1>3, TypeCorrect, PTL DEF Spec

(***************************************************************************)
(* Progress: what a phase leaves behind                                    *)
(***************************************************************************)

\* Every row that is written is a started one, or one that somebody has read.
LEMMA RowsOnlyStart ==
  ASSUME TypeOK, [Next]_vars, NEW i \in Sections
  PROVE  \/ row'[i] = row[i] \/ Started(row'[i])
         \/ \E e \in Editors : TouchWrite(e) /\ editor[e].sec = i /\ row'[i] = editor[e].row
<1> DEFINE Fine == \/ row'[i] = row[i] \/ Started(row'[i])
                   \/ \E e \in Editors : TouchWrite(e) /\ editor[e].sec = i /\ row'[i] = editor[e].row
<1> SUFFICES Fine
  OBVIOUS
<1>a. row \in [Sections -> Rows]
  BY DEF TypeOK
<1>b. \A r \in Rows, t \in Texts : Started(WithText(r, t))
  BY DEF Started, WithText
<1>c. Started(Deleted) /\ \A r \in Rows : Started([r EXCEPT !.status = "NEEDS_REVIEW"])
  BY DEF Started, Deleted, Rows
<1>d. \A s \in Sections : \A r : Stores(s, r) /\ Started(r) => row'[i] = row[i] \/ Started(row'[i])
  BY <1>a DEF Stores
<1>1. CASE \E w \in Workers : WorkerStep(w)
  <2>1. PICK w \in Workers : WorkerStep(w)
    BY <1>1
  <2>2. worker[w] \in WorkerType
    BY DEF TypeOK, WorkerType
  <2>3. CASE Commit(w)
    BY <1>b, <1>d, <2>2, <2>3 DEF Commit, WorkerType, Texts
  <2>4. CASE Assess(w)
    BY <1>c, <1>d, <2>2, <2>4 DEF Assess, WorkerType
  <2>5. CASE UNCHANGED row
    BY <2>5
  <2> QED BY <2>1, <2>3, <2>4, <2>5
          DEF WorkerStep, Take, CheckDraft, ReadSection, Narrate, Reread, PersistFails, Throw
<1>2. CASE EditStep
  <2>1. ASSUME NEW e \in Editors, EditCommit(e) PROVE row'[i] = row[i] \/ Started(row'[i])
    <3>1. editor[e].sec \in Sections /\ editor[e].row \in Rows
      BY DEF TypeOK
    <3> QED BY <1>b, <1>d, <2>1, <3>1 DEF EditCommit, Texts, Written
  <2>2. ASSUME NEW e \in Editors, EditAssess(e) PROVE row'[i] = row[i] \/ Started(row'[i])
    <3>1. editor[e].sec \in Sections /\ editor[e].row \in Rows
      BY DEF TypeOK
    <3> QED BY <1>c, <1>d, <2>2, <3>1 DEF EditAssess
  <2>3. ASSUME NEW j \in Sections, Delete(j) PROVE row'[i] = row[i] \/ Started(row'[i])
    BY <1>c, <1>d, <2>3 DEF Delete
  <2>4. ASSUME NEW e \in Editors, TouchWrite(e) PROVE Fine
    <3>1. editor[e].sec \in Sections /\ editor[e].row \in Rows
      BY DEF TypeOK
    <3>2. CASE Stores(editor[e].sec, editor[e].row)
      <4>1. row'[i] = row[i] \/ (editor[e].sec = i /\ row'[i] = editor[e].row)
        BY <1>a, <3>1, <3>2 DEF Stores
      <4> QED BY <2>4, <4>1
    <3>3. CASE Stores(editor[e].sec, [editor[e].row EXCEPT !.status = "NEEDS_REVIEW"])
      BY <1>c, <1>d, <3>1, <3>3
    <3> QED BY <2>4, <3>2, <3>3 DEF TouchWrite
  <2> HIDE DEF Fine
  <2> QED BY <1>2, <2>1, <2>2, <2>3, <2>4 DEF EditStep, EditRead, EditReread, EditEnds, TouchRead, Fine
<1>3. CASE Supervise \/ Crash \/ Supersede \/ UNCHANGED vars
  BY <1>3 DEF Supervise, NextPhase, PhasesEnd, CatchThrow, Settle, CorrectFlag, Finish, SettleThrows,
              Crash, Supersede, vars
<1> QED BY <1>1, <1>2, <1>3, StepKinds

\* What has been started stays started, or is known to have been put back.
LEMMA StartedStays ==
  ASSUME TypeOK, [Next]_vars, NEW i \in Sections, Begun(i)
  PROVE  Begun(i)'
<1>1. undone \subseteq undone'
  <2>1. CASE EditStep
    BY <2>1 DEF EditStep, EditRead, EditCommit, EditReread, EditAssess, EditEnds, TouchRead, TouchWrite, Delete
  <2>2. CASE Supervise \/ Crash \/ Supersede \/ UNCHANGED vars
    BY <2>2 DEF Supervise, NextPhase, PhasesEnd, CatchThrow, Settle, CorrectFlag, Finish, SettleThrows,
                Crash, Supersede, vars
  <2> QED BY <2>1, <2>2, StepKinds, WorkerMotion
<1>2. ASSUME Started(row[i]), NEW e \in Editors, TouchWrite(e), editor[e].sec = i, row'[i] = editor[e].row
      PROVE  Begun(i)'
  BY <1>2 DEF TouchWrite, Begun
<1> QED BY <1>1, <1>2, RowsOnlyStart DEF Begun

\* A worker that lets go of its section leaves it started, or stops the pool.
LEMMA WorkerLeaves ==
  ASSUME TypeOK, RowsStarted, NEW w \in Workers, WorkerStep(w), ~ Take(w),
         NEW s \in Sections, s = worker[w].sec
  PROVE  /\ worker'[w].pc \in {"reread", "assess"} => Begun(s)' /\ worker'[w].sec = s
         /\ \/ IsBusy(w)'
            \/ Begun(s)'
            \/ run'.stopped
            \/ worker'[w].pc = "dead"
         /\ worker'[w].pc = "done" => run'.stopped
         /\ run.stopped => run'.stopped
<1>a. worker \in [Workers -> WorkerType] /\ worker[w] \in WorkerType
  BY DEF TypeOK, WorkerType
<1>b. worker[w].sec \in Sections /\ row \in [Sections -> Rows]
  BY <1>a DEF TypeOK, WorkerType
<1>c. [Next]_vars
  BY DEF Next
<1>d. Begun(s) => Begun(s)'
  BY <1>c, StartedStays
<1> USE DEF Goes, Returns, IsBusy, Busy, WorkerType
<1>2. CASE CheckDraft(w)
  BY <1>2, <1>a DEF CheckDraft, Ready, TypeOK
<1>3. CASE ReadSection(w)
  <2>1. row[s].text # "none" => Started(row[s])
    BY DEF RowsStarted
  <2> QED BY <1>3, <1>a, <1>b, <1>d, <2>1 DEF ReadSection, Ready, Started, Begun
<1>4. CASE Narrate(w)
  BY <1>4, <1>a DEF Narrate, TypeOK
<1>5. CASE Commit(w)
  <2>1. worker'[w].pc = "reread" /\ worker'[w].sec = worker[w].sec
    BY <1>5, <1>a DEF Commit, Ready
  <2>2. Started(row'[s]) /\ run' = run
    BY <1>5, <1>b DEF Commit, Stores, Started, WithText
  <2> QED BY <2>1, <2>2 DEF Begun
<1>6. CASE Reread(w)
  <2>1. Begun(s)
    BY <1>6 DEF Reread, RowsStarted
  <2> QED BY <1>6, <1>a, <1>d, <2>1 DEF Reread
<1>7. CASE Assess(w)
  <2>1. Begun(s)
    BY <1>7 DEF Assess, RowsStarted
  <2> QED BY <1>7, <1>a, <1>d, <2>1 DEF Assess, Ready
<1>8. CASE PersistFails(w)
  BY <1>8, <1>a DEF PersistFails, Ready, TypeOK
<1>9. CASE Throw(w)
  BY <1>9, <1>a DEF Throw, Ready
<1> QED BY <1>2, <1>3, <1>4, <1>5, <1>6, <1>7, <1>8, <1>9 DEF WorkerStep

\* Steps of nobody in the pool.
LEMMA OutsideSteps ==
  ASSUME TypeOK, Supersede \/ EditStep \/ UNCHANGED vars
  PROVE  /\ UNCHANGED <<run, worker, calls, wrote, late>>
         /\ draft.superseded => draft'.superseded
         /\ UNCHANGED draft \/ draft'.superseded
BY DEF vars, EditStep, Supersede, EditRead, EditCommit, EditReread, EditAssess, EditEnds,
       TouchRead, TouchWrite, Delete, TypeOK

\* What the supervisor does to the workers: new ones for the second phase,
\* none after a crash.
LEMMA SupervisorSteps ==
  ASSUME TypeOK, Supervise \/ Crash
  PROVE  /\ UNCHANGED <<draft, row, calls, wrote, late, undone>>
         /\ \/ UNCHANGED worker
            \/ NextPhase /\ \A w \in Workers : worker'[w].pc = "take"
            \/ Crash /\ \A w \in Workers : worker'[w].pc = "done"
         /\ NextPhase \/ run'.queue = run.queue
<1>1. CASE NextPhase
  BY <1>1 DEF NextPhase, Ready
<1>2. CASE Crash
  BY <1>2 DEF Crash, Ready, TypeOK
<1>3. CASE PhasesEnd \/ CatchThrow \/ Settle \/ CorrectFlag \/ Finish \/ SettleThrows
  BY <1>3 DEF PhasesEnd, CatchThrow, Settle, CorrectFlag, Finish, SettleThrows, TypeOK
<1> QED BY <1>1, <1>2, <1>3 DEF Supervise

\* A copy of a row is read from the rows.
LEMMA CopiesStep ==
  ASSUME TypeOK, RowsStarted, [Next]_vars
  PROVE  /\ \A i \in Sections : row'[i].text # "none" => Started(row'[i])
         /\ \A e \in Editors : editor'[e].row.text # "none" => Started(editor'[e].row)
<1>1. \A i \in Sections : row'[i].text # "none" => Started(row'[i])
  BY RowsOnlyStart DEF RowsStarted
<1>2. \A e \in Editors : \/ editor'[e].row = editor[e].row \/ editor'[e].row = Empty
                         \/ \E i \in Sections : editor'[e].row = row[i]
  <2>a. editor \in [Editors -> EditorType]
    BY DEF TypeOK, EditorType
  <2>1. CASE EditStep
    <3>1. ASSUME NEW e \in Editors,
                 EditCommit(e) \/ EditReread(e) \/ EditAssess(e) \/ EditEnds(e) \/ TouchWrite(e)
          PROVE  /\ \A f \in Editors : f # e => editor'[f] = editor[f]
                 /\ \/ editor'[e].row = editor[e].row \/ editor'[e].row = Empty
                    \/ \E i \in Sections : editor'[e].row = row[i]
      <4>1. editor[e] \in EditorType /\ editor[e].sec \in Sections
        BY <2>a DEF EditorType
      <4> QED BY <2>a, <3>1, <4>1
              DEF EditCommit, EditReread, EditAssess, EditEnds, TouchWrite, Resting, EditorType
    <3>2. ASSUME NEW e \in Editors, NEW i \in Sections, EditRead(e, i) \/ TouchRead(e, i)
          PROVE  /\ \A f \in Editors : f # e => editor'[f] = editor[f]
                 /\ editor'[e].row = row[i]
      BY <2>a, <3>2 DEF EditRead, TouchRead
    <3>3. ASSUME NEW i \in Sections, Delete(i) PROVE editor' = editor
      BY <3>3 DEF Delete
    <3> QED BY <2>1, <3>1, <3>2, <3>3 DEF EditStep
  <2>2. CASE Supervise \/ Crash \/ Supersede \/ UNCHANGED vars
    BY <2>2 DEF Supervise, NextPhase, PhasesEnd, CatchThrow, Settle, CorrectFlag, Finish, SettleThrows,
                Crash, Supersede, vars, Resting
  <2> QED BY <2>1, <2>2, StepKinds, WorkerMotion
<1>3. Empty.text = "none"
  BY DEF Empty
<1> QED BY <1>1, <1>2, <1>3 DEF RowsStarted

LEMMA RowsStartedStep ==
  ASSUME TypeOK, RowsStarted, [Next]_vars
  PROVE  RowsStarted'
<1>b. /\ \A i \in Sections : row'[i].text # "none" => Started(row'[i])
      /\ \A e \in Editors : editor'[e].row.text # "none" => Started(editor'[e].row)
  BY CopiesStep
<1>c. \A w \in Workers : worker[w].sec \in Sections
  BY DEF TypeOK
<1>d. ASSUME NEW w \in Workers, worker'[w] = worker[w], worker'[w].pc \in {"reread", "assess"}
      PROVE  Begun(worker[w].sec)'
  <2>1. PICK i \in Sections : i = worker[w].sec
    BY <1>c
  <2>2. Begun(i)'
    BY <1>d, <2>1, StartedStays DEF RowsStarted
  <2> QED BY <1>d, <2>1, <2>2 DEF Begun
<1>1. CASE \E w \in Workers : WorkerStep(w)
  <2>1. PICK w \in Workers : WorkerStep(w)
    BY <1>1
  <2>2. \A v \in Workers : v # w => worker'[v] = worker[v]
    BY <2>1, WorkerMotion
  <2>3. worker'[w].pc \in {"reread", "assess"} => Begun(worker[w].sec)'
    BY <2>1, <1>c, WorkerLeaves, TakeCourse DEF Begun
  <2> QED BY <1>b, <1>d, <2>2, <2>3 DEF RowsStarted
<1>2. CASE Supervise \/ Crash
  BY <1>2, <1>b, <1>d, SupervisorSteps DEF RowsStarted
<1>3. CASE Supersede \/ EditStep \/ UNCHANGED vars
  BY <1>3, <1>b, <1>d, OutsideSteps DEF RowsStarted
<1> QED BY <1>1, <1>2, <1>3, StepKinds

LEMMA ProgressTake ==
  ASSUME TypeOK, Claims, RowsStarted, Progress, NEW w \in Workers, Take(w)
  PROVE  Progress'
<1>a. \A v \in Workers : v # w => worker'[v] = worker[v]
  BY WorkerMotion DEF WorkerStep
<1>b. run'.pc = run.pc /\ worker[w].pc = "take" /\ \A i \in Sections : Begun(i) => Begun(i)'
  BY WorkerMotion, TakeCourse, StartedStays DEF WorkerStep, Next
<1>c. \A v \in Workers : IsBusy(v) => v # w
  BY <1>b DEF IsBusy, Busy
<1>1. CASE /\ run.stopped \/ run.queue = {}
           /\ worker'[w].pc = "done" /\ run' = run
  <2>1. Whole' => Whole /\ run.queue = {}
    BY <1>1, <1>a, <1>b DEF Whole
  <2>2. \A i \in Sections : Accounted(i) => Accounted(i)'
    BY <1>1, <1>a, <1>b, <1>c DEF Accounted, Holds, IsBusy
  <2>3. \A v \in Workers : IsBusy(v)' => IsBusy(v) /\ worker'[v].sec = worker[v].sec
    BY <1>1, <1>a DEF IsBusy, Busy
  <2> QED BY <1>1, <1>b, <2>1, <2>2, <2>3, GenerationAssumption DEF Progress, Body
<1>2. CASE /\ ~ run.stopped
           /\ \E i \in run.queue :
                /\ i \in Sections
                /\ run' = [run EXCEPT !.queue = @ \ {i}]
                /\ worker'[w].pc = "check" /\ worker'[w].sec = i
  <2>1. PICK i \in run.queue :
                /\ i \in Sections
                /\ run' = [run EXCEPT !.queue = @ \ {i}]
                /\ worker'[w].pc = "check" /\ worker'[w].sec = i
    BY <1>2
  <2>2. run'.queue = run.queue \ {i} /\ run'.stopped = run.stopped
    BY <2>1 DEF TypeOK
  <2>3. Holds(w, i)'
    BY <2>1 DEF Holds, IsBusy, Busy
  <2>4. \A j \in Sections : Accounted(j) => Accounted(j)'
    BY <1>a, <1>b, <1>c, <2>2, <2>3 DEF Accounted, Holds, IsBusy
  <2>5. Whole' => Whole
    BY <1>a, <1>b, <2>2 DEF Whole
  <2>6. \A v \in Workers : worker'[v].pc = "done" => worker[v].pc = "done"
    BY <1>a, <2>1
  <2>7. \A v \in Workers : IsBusy(v)' /\ v # w => IsBusy(v) /\ worker'[v].sec = worker[v].sec
    BY <1>a DEF IsBusy
  <2>8. i \in Synthesis => \A j \in Body : Begun(j)
    BY <2>1 DEF Progress
  <2>9. /\ run'.pc \in {"body", "synthesis"} /\ Whole' =>
             /\ \A j \in Body : Accounted(j)'
             /\ run'.pc = "synthesis" => \A j \in Synthesis : Accounted(j)'
             /\ \A v \in Workers : worker'[v].pc = "done" => run'.queue = {}
    BY <1>b, <2>2, <2>4, <2>5, <2>6, GenerationAssumption DEF Progress, Body
  <2>10. \A v \in Workers : IsBusy(v)' /\ worker'[v].sec \in Synthesis
                               => \A j \in Body : Begun(j)'
    BY <1>b, <2>1, <2>7, <2>8 DEF Progress, Body
  <2> QED BY <1>b, <2>2, <2>9, <2>10 DEF Progress, Body
<1> QED BY <1>1, <1>2, TakeCourse

LEMMA ProgressWorker ==
  ASSUME TypeOK, Claims, RowsStarted, Progress, NEW w \in Workers, WorkerStep(w), ~ Take(w)
  PROVE  Progress'
<1>a. \A v \in Workers : v # w => worker'[v] = worker[v]
  BY WorkerMotion
<1>b. run'.pc = run.pc /\ run'.queue = run.queue
  BY WorkerMotion, WorkerCourse
<1>c. \A i \in Sections : Begun(i) => Begun(i)'
  BY StartedStays DEF Next
<1>d. /\ IsBusy(w)
      /\ IsBusy(w)' => worker'[w].sec = worker[w].sec
      /\ worker[w].sec \in Sections
  BY WorkerCourse DEF IsBusy, TypeOK
<1>e. \A v \in Workers : IsBusy(v)' => IsBusy(v) /\ worker'[v].sec = worker[v].sec
  BY <1>a, <1>d DEF IsBusy
<1>f. worker'[w].pc = "done" \/ run.stopped => run'.stopped
  BY <1>d, WorkerLeaves
<1>1. Whole' => Whole
  BY <1>a, <1>d, <1>f DEF Whole, IsBusy, Busy
<1>2. Whole' => \A i \in Sections : Accounted(i) => Accounted(i)'
  <2> SUFFICES ASSUME Whole', NEW i \in Sections, Accounted(i) PROVE Accounted(i)'
    OBVIOUS
  <2>1. CASE i \in run.queue \/ Begun(i)
    BY <2>1, <1>b, <1>c DEF Accounted
  <2>2. ASSUME NEW v \in Workers, Holds(v, i), v # w PROVE Accounted(i)'
    BY <2>2, <1>a DEF Accounted, Holds, IsBusy
  <2>3. CASE Holds(w, i)
    <3>1. IsBusy(w)' \/ Begun(i)'
      BY <2>3, WorkerLeaves DEF Whole, Holds
    <3>2. IsBusy(w)' => Holds(w, i)'
      BY <2>3, <1>d DEF Holds
    <3> QED BY <3>1, <3>2 DEF Accounted
  <2> QED BY <2>1, <2>2, <2>3 DEF Accounted
<1>3. Whole' => \A v \in Workers : worker'[v].pc = "done" => worker[v].pc = "done"
  BY <1>a, <1>f DEF Whole
<1>4. run'.pc \in {"body", "synthesis"} /\ Whole' =>
             /\ \A j \in Body : Accounted(j)'
             /\ run'.pc = "synthesis" => \A j \in Synthesis : Accounted(j)'
             /\ \A v \in Workers : worker'[v].pc = "done" => run'.queue = {}
  BY <1>b, <1>1, <1>2, <1>3, GenerationAssumption DEF Progress, Body
<1>5. \A v \in Workers : IsBusy(v)' /\ worker'[v].sec \in Synthesis
                            => \A j \in Body : Begun(j)'
  BY <1>c, <1>e DEF Progress, Body
<1>6. /\ run'.pc = "synthesis" => \A i \in Body : Begun(i)'
      /\ run'.queue \cap Synthesis # {} => \A i \in Body : Begun(i)'
  BY <1>b, <1>c DEF Progress, Body
<1> QED BY <1>4, <1>5, <1>6 DEF Progress

\* When every worker has returned and none gave up, nothing is left over.
LEMMA NothingLeft ==
  ASSUME TypeOK, Progress, run.pc \in {"body", "synthesis"}, AllDone, ~ run.stopped
  PROVE  /\ \A i \in Body : Begun(i)
         /\ run.pc = "synthesis" => \A i \in Sections : Begun(i)
<1>1. PICK w \in Workers : worker[w].pc = "done"
  BY GenerationAssumption DEF AllDone
<1>2. Whole /\ \A i : \A v \in Workers : ~ Holds(v, i)
  BY DEF Whole, AllDone, Holds, IsBusy, Busy
<1>3. run.queue = {}
  BY <1>1, <1>2 DEF Progress
<1>4. \A i \in Sections : Accounted(i) => Begun(i)
  BY <1>2, <1>3 DEF Accounted
<1> QED BY <1>2, <1>4, GenerationAssumption DEF Progress, Body

LEMMA ProgressStep ==
  ASSUME TypeOK, Claims, RowsStarted, Progress, [Next]_vars
  PROVE  Progress'
<1>c. \A i \in Sections : Begun(i) => Begun(i)'
  BY StartedStays
<1>1. CASE NextPhase
  <2>1. /\ \A w \in Workers : worker'[w].pc = "take"
        /\ run'.queue = Synthesis /\ run'.pc = "synthesis"
    BY <1>1 DEF NextPhase, Ready, TypeOK
  <2>2. \A i \in Body : Begun(i)
    BY <1>1, NothingLeft DEF NextPhase
  <2> QED BY <1>c, <2>1, <2>2 DEF Progress, Accounted, IsBusy, Busy, Body
<1>2. CASE Supervise /\ ~ NextPhase
  <2>1. UNCHANGED worker /\ run'.queue = run.queue
        /\ run'.pc \notin {"body", "synthesis"}
    BY <1>2 DEF Supervise, PhasesEnd, CatchThrow, Settle, CorrectFlag, Finish, SettleThrows, TypeOK
  <2> QED BY <1>c, <2>1 DEF Progress, IsBusy, Body
<1>3. CASE Crash
  <2>1. /\ run'.queue = run.queue /\ run'.pc = "crashed"
        /\ \A w \in Workers : worker'[w].pc = "done"
    BY <1>3 DEF Crash, Ready, TypeOK
  <2> QED BY <1>c, <2>1 DEF Progress, IsBusy, Busy, Body
<1>4. CASE Supersede \/ EditStep \/ UNCHANGED vars
  <2>1. UNCHANGED <<run, worker>>
    BY <1>4, OutsideSteps
  <2>2. \A i \in Sections : Accounted(i) => Accounted(i)'
    BY <1>c, <2>1 DEF Accounted, Holds, IsBusy
  <2> QED BY <1>c, <2>1, <2>2, GenerationAssumption DEF Progress, Body, Whole, IsBusy
<1>5. CASE \E w \in Workers : WorkerStep(w)
  BY <1>5, ProgressTake, ProgressWorker
<1> QED BY <1>1, <1>2, <1>3, <1>4, <1>5, StepKinds

\* A summary is never written from a half-written report, not even by the
\* workers that go on after one of them has thrown.
THEOREM SummariesComeLast == Spec => []SynthesisLast
<1>1. Init => Claims /\ RowsStarted /\ Progress
  BY GenerationAssumption
     DEF Init, Claims, RowsStarted, Progress, Accounted, Body, Whole, IsBusy, Busy, Ready, Empty,
         Resting
<1>2. TypeOK /\ (Claims /\ RowsStarted /\ Progress) /\ [Next]_vars
        => (Claims /\ RowsStarted /\ Progress)'
  BY ClaimsStep, RowsStartedStep, ProgressStep
<1>3. Progress => SynthesisLast
  BY DEF Progress, SynthesisLast, IsBusy, Busy, Body, Begun
<1> QED BY <1>1, <1>2, <1>3, TypeCorrect, PTL DEF Spec

(***************************************************************************)
(* Honest: the outcome that is billed                                      *)
(***************************************************************************)

\* What one worker can do to the facts the outcome is decided from.
LEMMA WorkerHonest ==
  ASSUME TypeOK, Honest, NEW w \in Workers, WorkerStep(w)
  PROVE  /\ run.fallback => run'.fallback
         /\ \A i \in Sections : wrote'[i] = "stub" => run'.fallback
         /\ worker'[w].pc = "commit" /\ worker'[w].text = "stub" => run'.fallback
         /\ run'.stopped => run'.failed \/ draft.superseded
<1>a. worker \in [Workers -> WorkerType] /\ worker[w] \in WorkerType /\ wrote \in [Sections -> Written]
  BY DEF TypeOK, WorkerType
<1> USE DEF Goes, Returns, WorkerType
<1>1. CASE Take(w)
  BY <1>1, TakeCourse DEF Honest, TypeOK
<1>2. CASE CheckDraft(w)
  BY <1>2, <1>a DEF CheckDraft, Ready, TypeOK, Honest
<1>3. CASE ReadSection(w)
  BY <1>3, <1>a DEF ReadSection, Ready, Honest
<1>4. CASE Narrate(w)
  <2>1. PICK text \in Answers(worker[w].sec) :
               /\ worker' = [worker EXCEPT ![w].pc = "commit", ![w].text = text]
               /\ run' = [run EXCEPT !.fallback = @ \/ text = "stub"]
    BY <1>4 DEF Narrate
  <2>2. worker'[w].text = text
    BY <1>a, <2>1
  <2>3. /\ run'.fallback = (run.fallback \/ text = "stub")
        /\ run'.stopped = run.stopped /\ run'.failed = run.failed
    BY <2>1, Zenon DEF TypeOK
  <2> QED BY <1>4, <2>2, <2>3 DEF Narrate, Honest
<1>5. CASE Commit(w)
  <2>1. worker'[w].pc = "reread" /\ run' = run
    BY <1>5, <1>a DEF Commit, Ready
  <2>2. \A i \in Sections : wrote'[i] = wrote[i] \/ (i = worker[w].sec /\ wrote'[i] = worker[w].text)
    BY <1>5, <1>a DEF Commit
  <2>3. worker[w].pc = "commit"
    BY <1>5 DEF Commit
  <2> QED BY <2>1, <2>2, <2>3 DEF Honest
<1>6. CASE Reread(w)
  BY <1>6, <1>a DEF Reread, Honest
<1>7. CASE Assess(w)
  BY <1>7, <1>a DEF Assess, Ready, Honest
<1>8. CASE PersistFails(w)
  BY <1>8, <1>a DEF PersistFails, Ready, TypeOK, Honest
<1>9. CASE Throw(w)
  BY <1>9, <1>a DEF Throw, Ready, Honest
<1> QED BY <1>1, <1>2, <1>3, <1>4, <1>5, <1>6, <1>7, <1>8, <1>9 DEF WorkerStep

\* A draft that has every section, or has been superseded, stays so.
LEMMA ExcusedStays ==
  ASSUME TypeOK, Excused, [Next]_vars
  PROVE  Excused'
<1>1. draft.superseded => draft'.superseded
  BY StepKinds, OutsideSteps, SupervisorSteps, WorkerMotion
<1>2. (\A i \in Sections : Begun(i)) => \A i \in Sections : Begun(i)'
  BY StartedStays
<1> QED BY <1>1, <1>2 DEF Excused

LEMMA HonestSupervise ==
  ASSUME TypeOK, Progress, Honest, Supervise
  PROVE  Honest'
<1>x. Excused => Excused'
  BY ExcusedStays DEF Next
<1>1. CASE NextPhase
  BY <1>1 DEF NextPhase, Honest, Ready, TypeOK
<1>2. CASE PhasesEnd
  <2>1. UNCHANGED <<worker, wrote, draft>> /\ AllDone
    BY <1>2 DEF PhasesEnd
  <2>2. /\ run'.pc = "settle" /\ run'.outcome = run.outcome /\ run'.fallback = run.fallback
        /\ run'.failed = run.failed /\ run'.stopped = run.stopped
    BY <1>2 DEF PhasesEnd, TypeOK
  <2>3. run.pc \in {"body", "synthesis"} /\ (~ run.stopped => run.pc = "synthesis")
    BY <1>2 DEF PhasesEnd, TypeOK
  <2>4. ~ run.stopped => \A i \in Sections : Begun(i)
    BY <2>1, <2>3, NothingLeft
  <2>5. ~ run.failed => Excused
    BY <2>4 DEF Honest, Excused
  <2> QED BY <1>x, <2>1, <2>2, <2>3, <2>5 DEF Honest, AllDone
<1>3. CASE CatchThrow
  BY <1>3 DEF CatchThrow, Honest, TypeOK
<1>4. CASE Settle
  BY <1>x, <1>4 DEF Settle, Honest, TypeOK, AllDone
<1>5. CASE CorrectFlag
  BY <1>x, <1>5 DEF CorrectFlag, Honest, TypeOK, AllDone
<1>6. CASE Finish
  BY <1>x, <1>6 DEF Finish, Honest, TypeOK, AllDone
<1>7. CASE SettleThrows
  BY <1>x, <1>7 DEF SettleThrows, Honest, TypeOK, AllDone
<1> QED BY <1>1, <1>2, <1>3, <1>4, <1>5, <1>6, <1>7 DEF Supervise

LEMMA HonestStep ==
  ASSUME TypeOK, Progress, Honest, [Next]_vars
  PROVE  Honest'
<1>1. CASE \E w \in Workers : WorkerStep(w)
  <2>1. PICK w \in Workers : WorkerStep(w)
    BY <1>1
  <2>2. ~ AllDone
    BY <2>1, WorkerMotion DEF AllDone, Busy
  <2>3. run'.pc = run.pc /\ run'.outcome = run.outcome /\ draft' = draft
        /\ (run.failed => run'.failed)
    BY <2>1, WorkerMotion
  <2>4. \A v \in Workers : worker'[v].pc = "commit" /\ worker'[v].text = "stub" => run'.fallback
    BY <2>1, WorkerMotion, WorkerHonest DEF Honest
  <2>5. /\ \A i \in Sections : wrote'[i] = "stub" => run'.fallback
        /\ run'.stopped => run'.failed \/ draft'.superseded
    BY <2>1, <2>3, WorkerHonest
  <2> QED BY <2>2, <2>3, <2>4, <2>5 DEF Honest
<1>2. CASE Supervise
  BY <1>2, HonestSupervise
<1>3. CASE Crash
  <2>1. /\ \A w \in Workers : worker'[w].pc = "done"
        /\ UNCHANGED <<draft, wrote>> /\ (Excused => Excused')
        /\ run'.pc = "crashed" /\ run'.outcome = run.outcome /\ run'.fallback = run.fallback
        /\ run'.stopped = run.stopped /\ run'.failed = run.failed
    BY <1>3, ExcusedStays DEF Crash, Ready, TypeOK
  <2> QED BY <2>1 DEF Honest, AllDone
<1>4. CASE Supersede \/ EditStep \/ UNCHANGED vars
  <2>1. UNCHANGED <<run, worker, wrote>> /\ (draft.superseded => draft'.superseded)
    BY <1>4, OutsideSteps
  <2>2. Excused => Excused'
    BY ExcusedStays
  <2>3. AllDone' = AllDone
    BY <2>1 DEF AllDone
  <2> QED BY <2>1, <2>2, <2>3 DEF Honest
<1> QED BY <1>1, <1>2, <1>3, <1>4, StepKinds

LEMMA FittingStep ==
  ASSUME TypeOK, Fitting, [Next]_vars
  PROVE  Fitting'
<1>1. CASE \E w \in Workers : WorkerStep(w)
  <2>1. PICK w \in Workers : WorkerStep(w)
    BY <1>1
  <2>a. worker \in [Workers -> WorkerType] /\ worker[w] \in WorkerType /\ wrote \in [Sections -> Written]
    BY DEF TypeOK, WorkerType
  <2>b. \A v \in Workers : v # w => worker'[v] = worker[v]
    BY <2>1, WorkerMotion
  <2>2. CASE Narrate(w)
    <3>1. PICK text \in Answers(worker[w].sec) :
            worker' = [worker EXCEPT ![w].pc = "commit", ![w].text = text]
      BY <2>2 DEF Narrate
    <3>2. worker'[w].text = text /\ worker'[w].sec = worker[w].sec /\ wrote' = wrote
      BY <2>2, <2>a, <3>1 DEF Narrate, WorkerType
    <3> QED BY <2>b, <3>2 DEF Fitting
  <2>3. CASE Commit(w)
    <3>1. worker[w].pc = "commit" /\ worker'[w].pc = "reread"
      BY <2>3, <2>a DEF Commit, Ready
    <3>2. \A i \in Sections : wrote'[i] = wrote[i] \/ (i = worker[w].sec /\ wrote'[i] = worker[w].text)
      BY <2>3, <2>a DEF Commit
    <3> QED BY <2>b, <3>1, <3>2 DEF Fitting
  <2>4. CASE ~ Narrate(w) /\ ~ Commit(w)
    <3>1. wrote' = wrote
      BY <2>1, <2>4 DEF WorkerStep, Take, CheckDraft, ReadSection, Reread, Assess, PersistFails, Throw
    <3>2. worker'[w].pc # "commit"
      <4> USE DEF Goes, Returns, Ready
      <4>1. CASE Take(w)
        BY <4>1, TakeCourse
      <4>2. CASE CheckDraft(w) \/ ReadSection(w)
        BY <2>a, <4>2 DEF CheckDraft, ReadSection, WorkerType
      <4>3. CASE Reread(w) \/ Assess(w) \/ PersistFails(w) \/ Throw(w)
        BY <2>a, <4>3 DEF Reread, Assess, PersistFails, Throw, WorkerType
      <4> QED BY <2>1, <2>4, <4>1, <4>2, <4>3 DEF WorkerStep
    <3> QED BY <2>b, <3>1, <3>2 DEF Fitting
  <2> QED BY <2>2, <2>3, <2>4
<1>2. CASE Supervise \/ Crash
  BY <1>2, SupervisorSteps DEF Fitting
<1>3. CASE Supersede \/ EditStep \/ UNCHANGED vars
  BY <1>3, OutsideSteps DEF Fitting
<1> QED BY <1>1, <1>2, <1>3, StepKinds

\* No credit is kept for a draft with a text in it that the writer fell back
\* to, nor for one the run left incomplete on its own account.
THEOREM BilledOnlyForReal == Spec => []BilledIsReal
<1> DEFINE IInv == Claims /\ RowsStarted /\ Progress /\ Honest /\ Fitting
<1>1. Init => IInv
  BY GenerationAssumption
     DEF Init, Claims, RowsStarted, Progress, Honest, Fitting, Accounted, Body, Whole, IsBusy, Busy,
         Ready, Empty, Resting
<1>2. TypeOK /\ IInv /\ [Next]_vars => IInv'
  BY ClaimsStep, RowsStartedStep, ProgressStep, HonestStep, FittingStep
<1>3. IInv => BilledIsReal
  BY DEF Honest, Fitting, Answers, BilledIsReal, Excused, Begun
<1> HIDE DEF IInv
<1> QED BY <1>1, <1>2, <1>3, TypeCorrect, PTL DEF Spec

(***************************************************************************)
(* Prompt: what is stored after "Stop"                                     *)
(***************************************************************************)

LEMMA PastIsFinite ==
  /\ IsFiniteSet(Past) /\ Cardinality(Past) \in Nat
  /\ IsFiniteSet(Past)' /\ Cardinality(Past') \in Nat
  /\ Cardinality(Past) <= Cardinality(Workers)
  /\ Cardinality(Past') <= Cardinality(Workers)
  /\ Cardinality(Workers) \in Nat
<1>1. Past \subseteq Workers /\ Past' \subseteq Workers
  BY DEF Past
<1> QED BY <1>1, GenerationAssumption, FS_Subset, FS_CardinalityType

LEMMA PromptStep ==
  ASSUME TypeOK, Prompt, [Next]_vars
  PROVE  Prompt'
<1>a. late \in Nat /\ draft.superseded \in BOOLEAN
  BY DEF TypeOK
<1>1. ASSUME late' = late, Past' \subseteq Past, draft.superseded => draft'.superseded
      PROVE  Prompt'
  <2>1. Cardinality(Past') <= Cardinality(Past)
    BY <1>1, PastIsFinite, FS_Subset
  <2> QED BY <1>1, <1>a, <2>1, PastIsFinite DEF Prompt
<1>2. CASE \E w \in Workers : WorkerStep(w)
  <2>1. PICK w \in Workers : WorkerStep(w)
    BY <1>2
  <2>2. draft' = draft /\ \A v \in Workers : v # w => worker'[v] = worker[v]
    BY <2>1, WorkerMotion
  <2>3. worker \in [Workers -> WorkerType]
    BY DEF TypeOK, WorkerType
  <2>4. CASE Commit(w)
    <3>1. worker[w].pc = "commit" /\ worker'[w].pc = "reread"
      BY <2>3, <2>4 DEF Commit, Ready
    <3>2. Past' = Past \ {w} /\ w \in Past
      BY <2>2, <3>1 DEF Past
    <3>3. Cardinality(Past') = Cardinality(Past) - 1
      BY <3>2, PastIsFinite, FS_RemoveElement
    <3>4. late' = IF draft.superseded THEN late + 1 ELSE late
      BY <2>4 DEF Commit
    <3> QED BY <1>a, <2>2, <3>3, <3>4, PastIsFinite DEF Prompt
  <2>5. CASE CheckDraft(w) /\ ~ draft.superseded
    <3>1. late' = late
      BY <2>5 DEF CheckDraft
    <3> QED BY <1>a, <2>2, <2>5, <3>1, PastIsFinite DEF Prompt
  <2>6. CASE ~ Commit(w) /\ ~ (CheckDraft(w) /\ ~ draft.superseded)
    <3>1. late' = late
      BY <2>1, <2>6 DEF WorkerStep, Take, CheckDraft, ReadSection, Narrate, Reread, Assess,
                        PersistFails, Throw
    <3>2. worker'[w].pc \in {"read", "narrate", "commit"}
            => worker[w].pc \in {"read", "narrate", "commit"}
      <4> USE DEF Goes, Returns, Ready
      <4>1. CASE Take(w)
        BY <4>1, TakeCourse
      <4>2. CASE CheckDraft(w)
        BY <2>3, <2>6, <4>2 DEF CheckDraft
      <4>3. CASE ReadSection(w) \/ Narrate(w)
        BY <4>3 DEF ReadSection, Narrate
      <4>4. CASE Reread(w)
        BY <2>3, <4>4 DEF Reread
      <4>5. CASE Assess(w) \/ PersistFails(w) \/ Throw(w)
        BY <2>3, <4>5 DEF Assess, PersistFails, Throw
      <4> QED BY <2>1, <2>6, <4>1, <4>2, <4>3, <4>4, <4>5 DEF WorkerStep
    <3>3. Past' \subseteq Past
      BY <2>2, <3>2 DEF Past
    <3> QED BY <1>1, <2>2, <3>1, <3>3
  <2> QED BY <2>4, <2>5, <2>6
<1>3. CASE Supervise \/ Crash
  <2>1. \A v \in Workers : worker'[v] = worker[v] \/ worker'[v].pc \in {"take", "done"}
    BY <1>3, SupervisorSteps
  <2>2. Past' \subseteq Past
    BY <2>1 DEF Past
  <2> QED BY <1>1, <1>3, <2>2, SupervisorSteps
<1>4. CASE Supersede \/ EditStep \/ UNCHANGED vars
  <2>1. Past' \subseteq Past
    BY <1>4, OutsideSteps DEF Past
  <2> QED BY <1>1, <1>4, <2>1, OutsideSteps
<1> QED BY <1>2, <1>3, <1>4, StepKinds

\* After "Stop", each worker stores at most the section it was writing.
THEOREM CancellationIsPrompt == Spec => []StopIsPrompt
<1>1. Init => Prompt
  <2> SUFFICES ASSUME Init PROVE Prompt
    OBVIOUS
  <2>1. late = 0
    BY DEF Init
  <2> QED BY <2>1, PastIsFinite DEF Prompt
<1>2. TypeOK /\ Prompt /\ [Next]_vars => Prompt'
  BY PromptStep
<1>3. TypeOK /\ Prompt => StopIsPrompt
  BY PastIsFinite DEF TypeOK, Prompt, StopIsPrompt
<1> QED BY <1>1, <1>2, <1>3, TypeCorrect, PTL DEF Spec

(***************************************************************************)
(* The work left: how many steps a run can still take                      *)
(***************************************************************************)

\* The steps left to a worker with its section, to it in this phase and the
\* next, and to the supervisor.
StepsOf(pc) == CASE pc = "check" -> 6 [] pc = "read" -> 5 [] pc = "narrate" -> 4
                 [] pc = "commit" -> 3 [] pc = "reread" -> 2 [] pc = "assess" -> 1 [] OTHER -> 0
RoundsOf(w) == (IF worker[w].pc \in {"done", "dead"} THEN 0 ELSE 1) + (IF run.pc = "body" THEN 1 ELSE 0)
EndLeft     == CASE run.pc = "body" -> 5 [] run.pc = "synthesis" -> 4 [] run.pc = "settle" -> 3
                 [] run.pc = "correct" -> 2 [] run.pc = "finish" -> 1 [] OTHER -> 0

SectionsLeft ==
  {x \in Sections \X (1..7) :
     \/ x[1] \in run.queue
     \/ run.pc = "body" /\ x[1] \in Synthesis
     \/ \E w \in Workers : Holds(w, x[1]) /\ x[2] <= StepsOf(worker[w].pc)}
RoundsLeft == {x \in Workers \X (1..2) : x[2] <= RoundsOf(x[1])}
StepsLeft  == Cardinality(SectionsLeft) + Cardinality(RoundsLeft) + EndLeft

\* What the run does, as opposed to the people who work on the draft.
Work == Supervise \/ \E w \in Workers : WorkerStep(w)

\* There is a bound on the steps of a run, of which every step uses one up and
\* nothing that people do meanwhile gives any back: no section is handed out
\* again, no worker and no phase starts over.
WorkIsBounded == StepsLeft <= 7 * NumSections + 2 * Cardinality(Workers) + 5
WorkIsUsedUp  == [][StepsLeft' <= StepsLeft /\ (Work => StepsLeft' < StepsLeft)]_vars

LEMMA LeftIsFinite ==
  /\ IsFiniteSet(SectionsLeft) /\ Cardinality(SectionsLeft) \in Nat
  /\ Cardinality(SectionsLeft) <= 7 * NumSections
  /\ IsFiniteSet(RoundsLeft) /\ Cardinality(RoundsLeft) \in Nat
  /\ Cardinality(RoundsLeft) <= 2 * Cardinality(Workers)
  /\ EndLeft \in 0..5
<1>1. IsFiniteSet(Sections) /\ Cardinality(Sections) = NumSections
  BY FS_Interval, GenerationAssumption DEF Sections
<1>2. /\ IsFiniteSet(1..7) /\ Cardinality(1..7) = 7
      /\ IsFiniteSet(1..2) /\ Cardinality(1..2) = 2
  <2>1. \A n \in Nat \ {0} : IsFiniteSet(1..n) /\ Cardinality(1..n) = n
    BY FS_Interval
  <2>2. 7 \in Nat \ {0} /\ 2 \in Nat \ {0}
    OBVIOUS
  <2>3. IsFiniteSet(1..7) /\ Cardinality(1..7) = 7
    BY <2>1, <2>2, Zenon
  <2>4. IsFiniteSet(1..2) /\ Cardinality(1..2) = 2
    BY <2>1, <2>2, Zenon
  <2> QED BY <2>3, <2>4
<1>3. Cardinality(Workers) \in Nat
  BY GenerationAssumption, FS_CardinalityType
<1>4. /\ IsFiniteSet(Sections \X (1..7)) /\ Cardinality(Sections \X (1..7)) = NumSections * 7
      /\ IsFiniteSet(Workers \X (1..2)) /\ Cardinality(Workers \X (1..2)) = Cardinality(Workers) * 2
  BY <1>1, <1>2, FS_Product, GenerationAssumption
<1>5. SectionsLeft \subseteq Sections \X (1..7) /\ RoundsLeft \subseteq Workers \X (1..2)
  BY DEF SectionsLeft, RoundsLeft
<1>6. /\ IsFiniteSet(SectionsLeft) /\ Cardinality(SectionsLeft) <= NumSections * 7
      /\ IsFiniteSet(RoundsLeft) /\ Cardinality(RoundsLeft) <= Cardinality(Workers) * 2
  BY <1>4, <1>5, FS_Subset
<1>7. EndLeft \in 0..5
  BY DEF EndLeft
<1> QED BY <1>3, <1>6, <1>7, FS_CardinalityType, GenerationAssumption

\* A sum falls with its parts.
LEMMA SumFalls ==
  ASSUME NEW s \in Nat, NEW r \in Nat, NEW e \in Nat, NEW t \in 0..s, NEW u \in 0..r, NEW f \in 0..e
  PROVE  /\ t + u + f <= s + r + e
         /\ t < s \/ u < r \/ f < e => t + u + f < s + r + e
OBVIOUS

\* Fewer things left, fewer steps.
LEMMA LessIsLess ==
  ASSUME SectionsLeft' \subseteq SectionsLeft, RoundsLeft' \subseteq RoundsLeft, EndLeft' <= EndLeft
  PROVE  /\ StepsLeft' <= StepsLeft
         /\ SectionsLeft' # SectionsLeft \/ RoundsLeft' # RoundsLeft \/ EndLeft' < EndLeft
              => StepsLeft' < StepsLeft
<1>0. PICK s, r, t, u : /\ s = Cardinality(SectionsLeft) /\ r = Cardinality(RoundsLeft)
                       /\ t = Cardinality(SectionsLeft') /\ u = Cardinality(RoundsLeft')
  OBVIOUS
<1>1. s \in Nat /\ r \in Nat /\ EndLeft \in 0..5
  BY <1>0, LeftIsFinite
<1>2. t \in Nat /\ u \in Nat /\ EndLeft' \in 0..5
  <2>1. IsFiniteSet(SectionsLeft') /\ IsFiniteSet(RoundsLeft')
    BY LeftIsFinite, FS_Subset
  <2>2. EndLeft' \in 0..5
    BY DEF EndLeft
  <2> QED BY <1>0, <2>1, <2>2, FS_CardinalityType
<1>3. t <= s /\ (t = s => SectionsLeft' = SectionsLeft)
  BY <1>0, LeftIsFinite, FS_Subset
<1>4. u <= r /\ (u = r => RoundsLeft' = RoundsLeft)
  BY <1>0, LeftIsFinite, FS_Subset
<1>5. StepsLeft = s + r + EndLeft /\ StepsLeft' = t + u + EndLeft'
  BY <1>0 DEF StepsLeft
<1>6. SectionsLeft' # SectionsLeft \/ RoundsLeft' # RoundsLeft \/ EndLeft' < EndLeft
        => t < s \/ u < r \/ EndLeft' < EndLeft
  BY <1>1, <1>2, <1>3, <1>4
<1>7. PICK e, f \in 0..5 : e = EndLeft /\ f = EndLeft' /\ f <= e
  BY <1>1, <1>2
<1>a. s \in Nat /\ r \in Nat /\ e \in Nat /\ t \in 0..s /\ u \in 0..r /\ f \in 0..e
  BY <1>1, <1>2, <1>3, <1>4, <1>7
<1>8. /\ t + u + f <= s + r + e
      /\ t < s \/ u < r \/ f < e => t + u + f < s + r + e
  BY <1>a, SumFalls
<1> QED BY <1>5, <1>6, <1>7, <1>8

\* A worker that goes on with its section is one step nearer to its end.
LEMMA StageFalls ==
  ASSUME TypeOK, NEW w \in Workers, WorkerStep(w), ~ Take(w)
  PROVE  /\ StepsOf(worker[w].pc) \in 1..6
         /\ worker'[w].pc \in Busy => StepsOf(worker'[w].pc) < StepsOf(worker[w].pc)
<1>a. worker \in [Workers -> WorkerType] /\ worker[w].pc \in Busy
  BY WorkerCourse DEF TypeOK, WorkerType
<1>b. StepsOf(worker[w].pc) \in 1..6
  BY <1>a DEF StepsOf, Busy
<1> USE DEF StepsOf, Busy, Goes, Returns, Ready, WorkerType
<1>2. CASE CheckDraft(w)
  <2>1. worker[w].pc = "check" /\ worker'[w].pc \in {"read", "done"}
    BY <1>2, <1>a DEF CheckDraft
  <2> QED BY <2>1
<1>3. CASE ReadSection(w)
  <2>1. worker[w].pc = "read" /\ worker'[w].pc \in {"narrate", "take"}
    BY <1>3, <1>a DEF ReadSection
  <2> QED BY <2>1
<1>4. CASE Narrate(w)
  BY <1>4, <1>a, <1>b DEF Narrate
<1>5. CASE Commit(w)
  BY <1>5, <1>a, <1>b DEF Commit
<1>6. CASE Reread(w)
  BY <1>6, <1>a, <1>b DEF Reread
<1>7. CASE Assess(w) \/ PersistFails(w) \/ Throw(w)
  BY <1>7, <1>a, <1>b DEF Assess, PersistFails, Throw
<1> QED BY <1>2, <1>3, <1>4, <1>5, <1>6, <1>7 DEF WorkerStep

LEMMA WorkerUses ==
  ASSUME TypeOK, Claims, NEW w \in Workers, WorkerStep(w)
  PROVE  StepsLeft' <= StepsLeft /\ StepsLeft' < StepsLeft
<1>a. worker \in [Workers -> WorkerType] /\ worker[w].sec \in Sections /\ run.queue \subseteq Sections
  BY DEF TypeOK, WorkerType
<1>b. \A v \in Workers : v # w => worker'[v] = worker[v]
  BY WorkerMotion
<1>c. run'.pc = run.pc /\ EndLeft' = EndLeft /\ EndLeft \in 0..5
  BY WorkerMotion, LeftIsFinite DEF EndLeft
<1>d. worker[w].pc \notin {"done", "dead"}
  BY WorkerMotion DEF Busy
<1>e. \A v \in Workers : RoundsOf(v)' <= RoundsOf(v)
  BY <1>b, <1>c, <1>d DEF RoundsOf
<1>f. RoundsLeft' \subseteq RoundsLeft
  <2>1. \A v \in Workers : RoundsOf(v) \in 0..2 /\ RoundsOf(v)' \in 0..2
    BY DEF RoundsOf
  <2> QED BY <1>e, <2>1 DEF RoundsLeft
<1>1. CASE ~ Take(w)
  <2>0. PICK i \in Sections, k \in 1..6 : i = worker[w].sec /\ k = StepsOf(worker[w].pc)
    BY <1>1, <1>a, StageFalls
  <2>1. /\ run'.queue = run.queue /\ Holds(w, i)
        /\ IsBusy(w)' => worker'[w].sec = i /\ StepsOf(worker'[w].pc) < k
    BY <1>1, <2>0, WorkerCourse, StageFalls DEF Holds, IsBusy
  <2>2. \A v \in Workers, j \in Sections : v # w => (Holds(v, j)' <=> Holds(v, j))
    BY <1>b DEF Holds, IsBusy
  <2>3. \A j \in Sections : Holds(w, j)' => Holds(w, j) /\ StepsOf(worker'[w].pc) < k
    BY <2>0, <2>1 DEF Holds, IsBusy
  <2>4. SectionsLeft' \subseteq SectionsLeft
    <3>1. ASSUME NEW x \in SectionsLeft' PROVE x \in SectionsLeft
      <4>1. /\ x \in Sections \X (1..7) /\ x[1] \in Sections /\ x[2] \in 1..7
            /\ \/ x[1] \in run.queue
               \/ run.pc = "body" /\ x[1] \in Synthesis
               \/ \E v \in Workers : Holds(v, x[1])' /\ x[2] <= StepsOf(worker'[v].pc)
        BY <3>1, <1>c, <2>1 DEF SectionsLeft
      <4>2. ASSUME NEW v \in Workers, Holds(v, x[1])', x[2] <= StepsOf(worker'[v].pc)
            PROVE  Holds(v, x[1]) /\ x[2] <= StepsOf(worker[v].pc)
        <5>1. CASE v = w
          <6>1. Holds(w, x[1]) /\ StepsOf(worker'[w].pc) < k /\ x[2] <= StepsOf(worker'[w].pc)
            BY <4>1, <4>2, <5>1, <2>3
          <6>2. StepsOf(worker'[w].pc) \in Int
            BY DEF StepsOf
          <6> QED BY <4>1, <5>1, <6>1, <6>2, <2>0
        <5>2. CASE v # w
          BY <4>1, <4>2, <5>2, <2>2, <1>b
        <5> QED BY <5>1, <5>2
      <4> QED BY <4>1, <4>2 DEF SectionsLeft
    <3> QED BY <3>1
  <2>5. <<i, k>> \in SectionsLeft
    BY <2>0, <2>1 DEF SectionsLeft
  <2>6. <<i, k>> \notin SectionsLeft'
    <3>1. i \notin run'.queue /\ ~ (run'.pc = "body" /\ i \in Synthesis)
      BY <2>1, <1>c DEF Claims, Holds
    <3>2. ASSUME NEW v \in Workers, Holds(v, i)', k <= StepsOf(worker'[v].pc) PROVE FALSE
      <4>1. CASE v = w
        <5>1. StepsOf(worker'[w].pc) < k
          BY <3>2, <4>1, <2>3, <1>a
        <5>2. StepsOf(worker'[w].pc) \in Int
          BY DEF StepsOf
        <5> QED BY <3>2, <4>1, <5>1, <5>2, <2>1
      <4>2. CASE v # w
        <5>1. Holds(v, i) /\ Holds(w, i)
          BY <3>2, <4>2, <2>1, <2>2, <1>a
        <5> QED BY <4>2, <5>1 DEF Claims, Holds
      <4> QED BY <4>1, <4>2
    <3> QED BY <3>1, <3>2 DEF SectionsLeft
  <2> QED BY <2>4, <2>5, <2>6, <1>c, <1>f, LessIsLess
<1>2. CASE Take(w) /\ worker'[w].pc = "done" /\ run' = run
  <2>1. worker[w].pc = "take"
    BY <1>2, TakeCourse
  <2>2. \A v \in Workers, j \in Sections : (Holds(v, j)' <=> Holds(v, j)) /\ (Holds(v, j) => worker'[v] = worker[v])
    BY <1>b, <1>2, <2>1 DEF Holds, IsBusy, Busy
  <2>3. SectionsLeft' \subseteq SectionsLeft
    BY <1>2, <2>2 DEF SectionsLeft
  <2>4. <<w, RoundsOf(w)>> \in RoundsLeft
    BY <2>1 DEF RoundsLeft, RoundsOf
  <2>5. <<w, RoundsOf(w)>> \notin RoundsLeft'
    BY <1>2, <2>1 DEF RoundsLeft, RoundsOf
  <2> QED BY <2>3, <2>4, <2>5, <1>c, <1>f, LessIsLess
<1>3. CASE Take(w) /\ \E i \in run.queue :
                        /\ i \in Sections
                        /\ run' = [run EXCEPT !.queue = @ \ {i}]
                        /\ worker'[w].pc = "check" /\ worker'[w].sec = i
  <2>1. PICK i \in run.queue :
                        /\ i \in Sections
                        /\ run' = [run EXCEPT !.queue = @ \ {i}]
                        /\ worker'[w].pc = "check" /\ worker'[w].sec = i
    BY <1>3
  <2>2. run'.queue = run.queue \ {i} /\ worker[w].pc = "take"
    BY <1>3, <2>1, TakeCourse DEF TypeOK
  <2>3. \A v \in Workers, j \in Sections :
          /\ v # w => (Holds(v, j)' <=> Holds(v, j))
          /\ Holds(w, j)' => j = i
    BY <1>b, <2>1 DEF Holds, IsBusy
  <2>4. SectionsLeft' \subseteq SectionsLeft
    <3>1. ASSUME NEW x \in SectionsLeft' PROVE x \in SectionsLeft
      <4>1. /\ x \in Sections \X (1..7) /\ x[1] \in Sections
            /\ \/ x[1] \in run.queue
               \/ run.pc = "body" /\ x[1] \in Synthesis
               \/ \E v \in Workers : Holds(v, x[1])' /\ x[2] <= StepsOf(worker'[v].pc)
        BY <3>1, <1>c, <2>2 DEF SectionsLeft
      <4>2. ASSUME NEW v \in Workers, Holds(v, x[1])', x[2] <= StepsOf(worker'[v].pc)
            PROVE  x[1] \in run.queue \/ (Holds(v, x[1]) /\ x[2] <= StepsOf(worker[v].pc))
        BY <4>1, <4>2, <2>1, <2>3, <1>b
      <4> QED BY <4>1, <4>2 DEF SectionsLeft
    <3> QED BY <3>1
  <2>5. <<i, 7>> \in SectionsLeft
    BY <2>1 DEF SectionsLeft
  <2>6. <<i, 7>> \notin SectionsLeft'
    <3>1. i \notin run'.queue /\ ~ (run'.pc = "body" /\ i \in Synthesis)
      BY <2>1, <2>2, <1>c DEF Claims
    <3>2. \A v \in Workers : ~ (7 <= StepsOf(worker'[v].pc))
      BY DEF StepsOf
    <3> QED BY <3>1, <3>2 DEF SectionsLeft
  <2> QED BY <2>4, <2>5, <2>6, <1>c, <1>f, LessIsLess
<1> QED BY <1>1, <1>2, <1>3, TakeCourse

LEMMA SupervisorUses ==
  ASSUME TypeOK, Claims, Supervise \/ Crash
  PROVE  StepsLeft' <= StepsLeft /\ (Supervise => StepsLeft' < StepsLeft)
<1>a. run \in [pc : {"body", "synthesis", "settle", "correct", "finish", "over", "aborted", "crashed"},
               queue : SUBSET Sections, stopped : BOOLEAN, fallback : BOOLEAN,
               failed : BOOLEAN, outcome : {"none", "billed", "released"}]
  BY DEF TypeOK
<1>1. CASE NextPhase
  <2>1. /\ run.pc = "body" /\ run'.pc = "synthesis" /\ run'.queue = Synthesis
        /\ \A w \in Workers : worker[w].pc = "done" /\ worker'[w].pc = "take"
    BY <1>1, <1>a DEF NextPhase, AllDone, Ready
  <2>2. SectionsLeft' \subseteq SectionsLeft
    BY <2>1 DEF SectionsLeft, Holds, IsBusy, Busy
  <2>3. \A w \in Workers : RoundsOf(w)' = RoundsOf(w)
    BY <2>1 DEF RoundsOf
  <2>4. RoundsLeft' \subseteq RoundsLeft
    BY <2>3 DEF RoundsLeft
  <2>5. EndLeft' = 4 /\ EndLeft = 5
    BY <2>1 DEF EndLeft
  <2>6. StepsLeft' <= StepsLeft /\ StepsLeft' < StepsLeft
    BY <2>2, <2>4, <2>5, LessIsLess
  <2> QED BY <2>6
<1>2. CASE ~ NextPhase
  <2>1. /\ run'.queue = run.queue /\ run'.pc # "body"
        /\ UNCHANGED worker \/ \A w \in Workers : worker'[w].pc = "done"
        /\ EndLeft' <= EndLeft /\ (Supervise => EndLeft' < EndLeft)
    <3>1. CASE PhasesEnd \/ CatchThrow
      <4>1. /\ run.pc \in {"body", "synthesis"} /\ run'.pc = "settle"
            /\ run'.queue = run.queue /\ worker' = worker
        BY <3>1, <1>a DEF PhasesEnd, CatchThrow
      <4> QED BY <4>1 DEF EndLeft
    <3>2. CASE Settle
      <4>1. /\ run.pc = "settle" /\ run'.pc \in {"finish", "correct"}
            /\ run'.queue = run.queue /\ worker' = worker
        BY <3>2, <1>a DEF Settle
      <4> QED BY <4>1 DEF EndLeft
    <3>3. CASE CorrectFlag \/ Finish \/ SettleThrows
      <4>1. /\ run.pc \in {"settle", "correct", "finish"} /\ run'.queue = run.queue /\ worker' = worker
            /\ \/ run'.pc \in {"over", "aborted"}
               \/ run.pc = "correct" /\ run'.pc = "finish"
        BY <3>3, <1>a DEF CorrectFlag, Finish, SettleThrows
      <4> QED BY <4>1 DEF EndLeft
    <3>4. CASE Crash
      <4>1. run'.pc = "crashed" /\ run'.queue = run.queue /\ \A w \in Workers : worker'[w].pc = "done"
        BY <3>4, <1>a DEF Crash, Ready
      <4>2. EndLeft' = 0 /\ EndLeft \in 0..5
        BY <4>1 DEF EndLeft
      <4>3. ~ Supervise
        BY <4>1, <1>2, <1>a DEF Supervise, PhasesEnd, CatchThrow, Settle, CorrectFlag, Finish, SettleThrows
      <4> QED BY <4>1, <4>2, <4>3
    <3> QED BY <3>1, <3>2, <3>3, <3>4, <1>2 DEF Supervise
  <2>2. \A w \in Workers, i \in Sections : Holds(w, i)' => Holds(w, i) /\ worker'[w] = worker[w]
    BY <2>1 DEF Holds, IsBusy, Busy
  <2>3. SectionsLeft' \subseteq SectionsLeft
    BY <2>1, <2>2 DEF SectionsLeft
  <2>4. \A w \in Workers : RoundsOf(w) \in 0..2 /\ RoundsOf(w)' \in 0..2 /\ RoundsOf(w)' <= RoundsOf(w)
    BY <2>1 DEF RoundsOf
  <2>5. RoundsLeft' \subseteq RoundsLeft
    BY <2>4 DEF RoundsLeft
  <2> QED BY <2>1, <2>3, <2>5, LessIsLess
<1> QED BY <1>1, <1>2

\* A run takes no more steps than 7 for each section, 2 for each worker and 5
\* of its own, whatever is edited, deleted or stopped meanwhile and whatever
\* fails; with the awaits that settle, this is why it comes to an end.
THEOREM RunIsBounded == Spec => []WorkIsBounded /\ WorkIsUsedUp
<1>1. Init => Claims
  BY GenerationAssumption DEF Init, Claims, IsBusy, Busy, Ready
<1>2. TypeOK /\ Claims /\ [Next]_vars => Claims'
  BY ClaimsStep
<1>3. WorkIsBounded
  <2>1. Cardinality(Workers) \in Nat
    BY GenerationAssumption, FS_CardinalityType
  <2> QED BY <2>1, LeftIsFinite, GenerationAssumption DEF WorkIsBounded, StepsLeft
<1>4. TypeOK /\ Claims /\ [Next]_vars
        => [StepsLeft' <= StepsLeft /\ (Work => StepsLeft' < StepsLeft)]_vars
  <2> SUFFICES ASSUME TypeOK, Claims, Next
               PROVE  StepsLeft' <= StepsLeft /\ (Work => StepsLeft' < StepsLeft)
    OBVIOUS
  <2>2. CASE \E w \in Workers : WorkerStep(w)
    BY <2>2, WorkerUses
  <2>3. CASE (Supervise \/ Crash) /\ ~ \E w \in Workers : WorkerStep(w)
    BY <2>3, SupervisorUses DEF Work
  <2>1. StepsLeft \in Nat
    BY LeftIsFinite DEF StepsLeft
  <2>4. CASE (Supersede \/ EditStep \/ UNCHANGED vars) /\ ~ Supervise /\ ~ \E w \in Workers : WorkerStep(w)
    <3>1. UNCHANGED <<run, worker>>
      BY <2>4, OutsideSteps
    <3>2. StepsLeft' = StepsLeft
      BY <3>1 DEF StepsLeft, SectionsLeft, RoundsLeft, EndLeft, Holds, IsBusy, RoundsOf
    <3> QED BY <2>1, <2>4, <3>2 DEF Work
  <2> QED BY <2>2, <2>3, <2>4, StepKinds
<1> QED BY <1>1, <1>2, <1>3, <1>4, TypeCorrect, PTL DEF Spec, WorkIsUsedUp

(***************************************************************************)
(* Delivered: the promise of PaidDraft                                     *)
(***************************************************************************)

Asked        == {i \in Sections : calls[i] > 0}
Asking(w, i) == worker[w].pc \in {"narrate", "commit"} /\ worker[w].sec = i

\* The pool has reached the summaries, whether or not it is still supervised.
Summing == \/ run.queue \cap Synthesis # {}
           \/ Asked \cap Synthesis # {}
           \/ \E w \in Workers : IsBusy(w) /\ worker[w].sec \in Synthesis

\* What is stored was asked for, and has just been answered ...
InHand ==
  /\ \A i \in Sections \ Asked : wrote[i] = "none"
  /\ \A w \in Workers, i \in Sections : Asking(w, i) => i \in Asked /\ wrote[i] = "none"
  /\ \A w \in Workers : worker[w].pc = "commit" => worker[w].text # "none"

\* ... no answer is lost unless the run fails, a worker or the process dies ...
Sound       == run.pc # "crashed" /\ ~ run.failed /\ \A w \in Workers : worker[w].pc # "dead"
NothingLost == Sound => \A i \in Asked : wrote[i] # "none" \/ \E w \in Workers : Asking(w, i)

\* ... and once summaries are written, the body is not.
BodyFirst ==
  Summing => /\ run.queue \cap Body = {}
             /\ \A w \in Workers : IsBusy(w) => worker[w].sec \notin Body
             /\ \A j \in Asked \cap Body : wrote[j] # "none"

\* A run that fails while it is supervised takes no more sections.
StopsOnFailure == run.pc \in {"body", "synthesis"} /\ run.failed => run.stopped

Delivered == InHand /\ NothingLost /\ BodyFirst /\ StopsOnFailure

\* What a worker does to the calls and the texts: it asks, it stores the
\* answer, or it leaves both alone, and then what it had asked for is still
\* in its hands or the run has failed.
LEMMA WorkerWrites ==
  ASSUME TypeOK, NEW w \in Workers, WorkerStep(w)
  PROVE  \/ /\ worker[w].pc = "read" /\ worker'[w].pc = "narrate"
            /\ worker'[w].sec = worker[w].sec
            /\ calls' = [calls EXCEPT ![worker[w].sec] = @ + 1]
            /\ UNCHANGED <<run, wrote>>
         \/ /\ worker[w].pc = "commit" /\ worker'[w].pc = "reread"
            /\ worker'[w].sec = worker[w].sec
            /\ wrote' = [wrote EXCEPT ![worker[w].sec] = worker[w].text]
            /\ UNCHANGED <<run, calls>>
         \/ /\ UNCHANGED <<calls, wrote>>
            /\ \A i \in Sections : Asking(w, i)' => Asking(w, i)
            /\ worker'[w].pc = "commit" => worker[w].pc = "narrate" /\ worker'[w].text # "none"
            /\ \A i \in Sections : Asking(w, i) => Asking(w, i)' \/ run'.failed \/ worker'[w].pc = "dead"
<1>a. worker \in [Workers -> WorkerType] /\ worker[w] \in WorkerType
  BY DEF TypeOK, WorkerType
<1> USE DEF Goes, Returns, WorkerType, Asking
<1>1. CASE Take(w)
  BY <1>1, TakeCourse
<1>2. CASE CheckDraft(w)
  BY <1>2, <1>a DEF CheckDraft, Ready
<1>3. CASE ReadSection(w)
  BY <1>3, <1>a DEF ReadSection, Ready
<1>4. CASE Narrate(w)
  BY <1>4, <1>a DEF Narrate, Answers
<1>5. CASE Commit(w)
  BY <1>5, <1>a DEF Commit, Ready
<1>6. CASE Reread(w)
  BY <1>6, <1>a DEF Reread
<1>7. CASE Assess(w)
  BY <1>7, <1>a DEF Assess, Ready
<1>8. CASE PersistFails(w)
  BY <1>8, <1>a DEF PersistFails, Ready, TypeOK
<1>9. CASE Throw(w)
  BY <1>9, <1>a DEF Throw, Ready
<1> QED BY <1>1, <1>2, <1>3, <1>4, <1>5, <1>6, <1>7, <1>8, <1>9 DEF WorkerStep

\* The three kinds of worker step, in the terms of Delivered.
Asks(w) ==
  /\ worker[w].pc = "read" /\ worker'[w].pc = "narrate" /\ worker'[w].sec = worker[w].sec
  /\ calls[worker[w].sec] = 0
  /\ calls' = [calls EXCEPT ![worker[w].sec] = 1]
  /\ UNCHANGED <<run, wrote>>
Answering(w) ==
  /\ worker[w].pc = "commit" /\ worker'[w].pc = "reread"
  /\ wrote' = [wrote EXCEPT ![worker[w].sec] = worker[w].text]
  /\ UNCHANGED <<run, calls>>
Quiet(w) ==
  /\ UNCHANGED <<calls, wrote>>
  /\ \A i \in Sections : Asking(w, i)' => Asking(w, i)
  /\ worker'[w].pc = "commit" => worker[w].pc = "narrate" /\ worker'[w].text # "none"
  /\ \A i \in Sections : Asking(w, i) => Asking(w, i)' \/ run'.failed \/ worker'[w].pc = "dead"

LEMMA KindsOfStep ==
  ASSUME TypeOK, Claims, NEW w \in Workers, WorkerStep(w)
  PROVE  /\ Asks(w) \/ Answering(w) \/ Quiet(w)
         /\ \A v \in Workers : v # w => worker'[v] = worker[v]
         /\ worker[w].sec \in Sections
         /\ calls \in [Sections -> Nat] /\ wrote \in [Sections -> Written]
<1>1. worker[w].sec \in Sections /\ calls \in [Sections -> Nat] /\ wrote \in [Sections -> Written]
  BY DEF TypeOK
<1>2. worker[w].pc = "read" => calls[worker[w].sec] = 0
  BY DEF Claims
<1>3. worker[w].pc = "read" => calls[worker[w].sec] + 1 = 1
  BY <1>2
<1> QED BY <1>1, <1>2, <1>3, WorkerWrites, WorkerMotion DEF Asks, Answering, Quiet, Asking

LEMMA InHandWorker ==
  ASSUME TypeOK, Claims, InHand, NEW w \in Workers, WorkerStep(w)
  PROVE  InHand'
<1> DEFINE s == worker[w].sec
<1>a. /\ \A v \in Workers : v # w => worker'[v] = worker[v]
      /\ s \in Sections /\ calls \in [Sections -> Nat] /\ wrote \in [Sections -> Written]
  BY KindsOfStep
<1>b. \A v \in Workers : v # w => \A i \in Sections : Asking(v, i)' <=> Asking(v, i)
  BY <1>a DEF Asking
<1>1. CASE Asks(w)
  <2>1. Asked' = Asked \cup {s} /\ s \notin Asked /\ wrote' = wrote
    BY <1>1, <1>a DEF Asks, Asked
  <2>2. wrote[s] = "none"
    BY <1>a, <2>1 DEF InHand
  <2>3. worker'[w].pc # "commit" /\ \A i \in Sections : Asking(w, i)' => i = s
    BY <1>1 DEF Asks, Asking
  <2> QED BY <1>a, <1>b, <2>1, <2>2, <2>3 DEF InHand
<1>2. CASE Answering(w)
  <2>1. Asked' = Asked /\ s \in Asked
    BY <1>2, <1>a DEF Answering, Asked, InHand, Asking
  <2>2. \A i \in Sections : i # s => wrote'[i] = wrote[i]
    BY <1>2, <1>a DEF Answering
  <2>3. \A v \in Workers : v # w => ~ Asking(v, s)
    BY <1>2, <1>a DEF Answering, Asking, Claims, IsBusy, Busy
  <2>4. worker'[w].pc = "reread"
    BY <1>2 DEF Answering
  <2> QED BY <1>a, <1>b, <2>1, <2>2, <2>3, <2>4 DEF InHand, Asking
<1>3. CASE Quiet(w)
  BY <1>a, <1>b, <1>3 DEF Quiet, InHand, Asked
<1> HIDE DEF s
<1> QED BY <1>1, <1>2, <1>3, KindsOfStep

LEMMA NothingLostWorker ==
  ASSUME TypeOK, Claims, InHand, NothingLost, NEW w \in Workers, WorkerStep(w), Sound'
  PROVE  NothingLost'
<1> DEFINE s == worker[w].sec
<1>a. /\ \A v \in Workers : v # w => worker'[v] = worker[v]
      /\ s \in Sections /\ calls \in [Sections -> Nat] /\ wrote \in [Sections -> Written]
  BY KindsOfStep
<1>b. \A v \in Workers : v # w => \A i \in Sections : Asking(v, i)' <=> Asking(v, i)
  BY <1>a DEF Asking
<1>c. Sound
  BY <1>a, WorkerMotion DEF Sound, Busy
<1>d. \A i \in Asked : wrote[i] # "none" \/ \E v \in Workers : Asking(v, i)
  BY <1>c DEF NothingLost
<1>1. CASE Asks(w)
  <2>1. Asked' = Asked \cup {s} /\ wrote' = wrote
    BY <1>1, <1>a DEF Asks, Asked
  <2>3. worker'[w].pc = "narrate" /\ worker'[w].sec = s
    BY <1>1 DEF Asks
  <2>2. \A i \in Sections : ~ Asking(w, i)
    BY <1>1 DEF Asks, Asking
  <2>4. \A i \in Asked' : wrote'[i] # "none" \/ \E v \in Workers : Asking(v, i)'
    <3> SUFFICES ASSUME NEW i \in Asked', wrote'[i] = "none"
                 PROVE  \E v \in Workers : Asking(v, i)'
      OBVIOUS
    <3>1. CASE i = s
      BY <2>3, <3>1 DEF Asking
    <3>2. CASE i # s
      <4>1. PICK v \in Workers : Asking(v, i)
        BY <1>d, <2>1, <3>2
      <4>2. v # w /\ i \in Sections
        BY <2>2, <4>1 DEF Asked
      <4> QED BY <1>b, <4>1, <4>2
    <3> QED BY <3>1, <3>2
  <2> QED BY <2>4 DEF NothingLost
<1>2. CASE Answering(w)
  <2>1. Asked' = Asked /\ wrote'[s] # "none" /\ \A i \in Sections : i # s => wrote'[i] = wrote[i]
    BY <1>2, <1>a DEF Answering, Asked, InHand
  <2>2. \A i \in Sections : Asking(w, i) => i = s
    BY DEF Asking
  <2> QED BY <1>b, <1>d, <2>1, <2>2 DEF NothingLost, Asked
<1>3. CASE Quiet(w)
  <2>1. Asked' = Asked /\ wrote' = wrote
    BY <1>3 DEF Quiet, Asked
  <2>2. \A i \in Sections : Asking(w, i) => Asking(w, i)'
    BY <1>3 DEF Quiet, Sound
  <2> QED BY <1>b, <1>d, <2>1, <2>2 DEF NothingLost, Asked
<1> HIDE DEF s
<1> QED BY <1>1, <1>2, <1>3, KindsOfStep

LEMMA BodyFirstWorker ==
  ASSUME TypeOK, Claims, InHand, BodyFirst, NEW w \in Workers, WorkerStep(w), Summing'
  PROVE  BodyFirst'
<1> DEFINE s == worker[w].sec
<1>a. /\ \A v \in Workers : v # w => worker'[v] = worker[v]
      /\ s \in Sections /\ calls \in [Sections -> Nat] /\ wrote \in [Sections -> Written]
  BY KindsOfStep
<1>b. \A i \in Sections : i \notin Synthesis => i \in Body
  BY DEF Body
<1>1. CASE Take(w)
  <2>1. Asked' = Asked /\ wrote' = wrote /\ worker[w].pc = "take"
    BY <1>1, TakeCourse DEF Asked
  <2>2. CASE worker'[w].pc = "done" /\ run' = run
    BY <1>a, <2>1, <2>2 DEF BodyFirst, Summing, IsBusy, Busy
  <2>3. CASE \E i \in run.queue :
               /\ i \in Sections
               /\ run' = [run EXCEPT !.queue = @ \ {i}]
               /\ worker'[w].pc = "check" /\ worker'[w].sec = i
    <3>1. PICK i \in run.queue :
               /\ i \in Sections
               /\ run' = [run EXCEPT !.queue = @ \ {i}]
               /\ worker'[w].pc = "check" /\ worker'[w].sec = i
      BY <2>3
    <3>2. run'.queue = run.queue \ {i}
      BY <3>1 DEF TypeOK
    <3>3. Summing
      BY <1>a, <2>1, <3>1, <3>2 DEF Summing, IsBusy
    <3> QED BY <1>a, <2>1, <3>1, <3>2, <3>3 DEF BodyFirst, IsBusy
  <2> QED BY <1>1, <2>2, <2>3, TakeCourse
<1>2. CASE ~ Take(w)
  <2>1. run'.queue = run.queue /\ IsBusy(w)
    BY <1>2, WorkerCourse DEF IsBusy
  <2>2. \A v \in Workers : IsBusy(v)' => IsBusy(v) /\ worker'[v].sec = worker[v].sec
    BY <1>2, <1>a, WorkerCourse DEF IsBusy
  <2>3. \A i \in Asked' : i \in Asked \/ i = s
    BY <1>a, KindsOfStep DEF Asks, Answering, Quiet, Asked
  <2>4. Summing
    BY <2>1, <2>2, <2>3 DEF Summing
  <2>5. s \notin Body
    BY <2>1, <2>4 DEF BodyFirst
  <2>6. \A j \in Asked' \cap Body : j \in Asked /\ wrote'[j] = wrote[j]
    BY <1>a, <2>3, <2>5, KindsOfStep DEF Asks, Answering, Quiet, Asked
  <2> HIDE DEF s
  <2> QED BY <2>1, <2>2, <2>4, <2>6 DEF BodyFirst
<1> QED BY <1>1, <1>2

LEMMA StopsOnFailureWorker ==
  ASSUME TypeOK, StopsOnFailure, NEW w \in Workers, WorkerStep(w)
  PROVE  StopsOnFailure'
<1>1. CASE PersistFails(w)
  BY <1>1 DEF PersistFails, StopsOnFailure, TypeOK
<1>2. CASE Take(w)
  BY <1>2, TakeCourse DEF StopsOnFailure, TypeOK
<1>3. CASE CheckDraft(w) \/ ReadSection(w) \/ Narrate(w) \/ Commit(w) \/ Reread(w)
             \/ Assess(w) \/ Throw(w)
  BY <1>3 DEF CheckDraft, ReadSection, Narrate, Commit, Reread, Assess, Throw, StopsOnFailure, TypeOK
<1> QED BY <1>1, <1>2, <1>3 DEF WorkerStep

LEMMA DeliveredWorker ==
  ASSUME TypeOK, Claims, Delivered, NEW w \in Workers, WorkerStep(w)
  PROVE  Delivered'
<1>1. InHand'
  BY InHandWorker DEF Delivered
<1>2. NothingLost'
  BY NothingLostWorker DEF Delivered, NothingLost
<1>3. BodyFirst'
  BY BodyFirstWorker DEF Delivered, BodyFirst
<1>4. StopsOnFailure'
  BY StopsOnFailureWorker DEF Delivered
<1> QED BY <1>1, <1>2, <1>3, <1>4 DEF Delivered

LEMMA DeliveredSupervise ==
  ASSUME TypeOK, Delivered, Supervise \/ Crash
  PROVE  Delivered'
<1>a. calls' = calls /\ wrote' = wrote /\ Asked' = Asked
  BY SupervisorSteps DEF Asked
<1>1. CASE NextPhase
  <2>1. /\ run.pc = "body" /\ ~ run.stopped /\ AllDone
        /\ run'.queue = Synthesis /\ run'.stopped = run.stopped /\ run'.failed = run.failed
        /\ \A w \in Workers : worker'[w].pc = "take"
    BY <1>1 DEF NextPhase, TypeOK, Ready
  <2>2. Sound /\ \A w \in Workers, i \in Sections : ~ Asking(w, i)
    BY <2>1 DEF Delivered, StopsOnFailure, Sound, AllDone, Asking
  <2>3. \A i \in Asked : wrote[i] # "none"
    BY <2>2 DEF Delivered, NothingLost, Asked
  <2>4. run'.queue \cap Body = {}
    BY <2>1 DEF Body
  <2> QED BY <1>a, <2>1, <2>3, <2>4
          DEF Delivered, InHand, NothingLost, BodyFirst, StopsOnFailure, Asking, IsBusy, Busy
<1>2. CASE Crash
  <2>1. /\ run'.pc = "crashed" /\ run'.queue = run.queue
        /\ \A w \in Workers : worker'[w].pc = "done"
    BY <1>2 DEF Crash, TypeOK, Ready
  <2>2. Summing' => Summing
    BY <1>a, <2>1 DEF Summing, IsBusy, Busy
  <2> QED BY <1>a, <2>1, <2>2
          DEF Delivered, InHand, NothingLost, BodyFirst, StopsOnFailure, Sound, Asking, IsBusy, Busy
<1>3. CASE PhasesEnd \/ CatchThrow \/ Settle \/ CorrectFlag \/ Finish \/ SettleThrows
  <2>1. /\ worker' = worker /\ run'.queue = run.queue
        /\ run.failed => run'.failed
        /\ run.pc # "crashed" /\ run'.pc \notin {"body", "synthesis"}
    BY <1>3 DEF PhasesEnd, CatchThrow, Settle, CorrectFlag, Finish, SettleThrows, TypeOK
  <2>2. (Summing' => Summing) /\ (Sound' => Sound)
    BY <1>a, <2>1 DEF Summing, Sound, IsBusy
  <2> QED BY <1>a, <2>1, <2>2
          DEF Delivered, InHand, NothingLost, BodyFirst, StopsOnFailure, Asking, IsBusy
<1> QED BY <1>1, <1>2, <1>3 DEF Supervise

LEMMA DeliveredStep ==
  ASSUME TypeOK, Claims, Delivered, [Next]_vars
  PROVE  Delivered'
<1>1. CASE Supersede \/ EditStep \/ UNCHANGED vars
  BY <1>1, OutsideSteps
     DEF Delivered, InHand, NothingLost, BodyFirst, StopsOnFailure, Sound, Summing, Asked,
         Asking, IsBusy
<1> QED BY <1>1, StepKinds, DeliveredWorker, DeliveredSupervise

LEMMA DeliveredInit == Init => Delivered
<1> SUFFICES ASSUME Init PROVE Delivered
  OBVIOUS
<1>1. \A w \in Workers : worker[w].pc = "take"
  BY DEF Init, Ready
<1>2. Asked = {} /\ ~ run.failed /\ run.queue \cap Synthesis = {}
  BY DEF Init, Asked
<1>3. \A i \in Sections : wrote[i] = "none"
  BY DEF Init
<1>4. ~ Summing
  BY <1>1, <1>2 DEF Summing, IsBusy, Busy
<1> QED BY <1>1, <1>2, <1>3, <1>4
        DEF Delivered, InHand, NothingLost, BodyFirst, StopsOnFailure, Asking

\* A worker's steps are those of PaidDraft, or are not seen by it.
LEMMA WorkerDelivers ==
  ASSUME TypeOK, Claims, Honest, Fitting, Delivered, NEW w \in Workers, WorkerStep(w)
  PROVE  Paid!Next \/ UNCHANGED Paid!vars
<1> DEFINE s == worker[w].sec
<1>a. /\ s \in Sections /\ calls \in [Sections -> Nat] /\ wrote \in [Sections -> Written]
      /\ run'.outcome = run.outcome
  BY KindsOfStep, WorkerMotion
<1>b. worker[w].pc # "done" => run.outcome # "billed"
  BY DEF Honest, AllDone
<1>c. Paid!Asked = Asked
  BY DEF Paid!Asked, Asked
<1>1. CASE Asks(w)
  <2>1. run.outcome # "billed" /\ IsBusy(w) /\ s \notin Asked
    BY <1>1, <1>a, <1>b DEF Asks, IsBusy, Busy, Asked
  <2>2. CASE s \in Synthesis
    <3>1. Summing
      BY <2>1, <2>2 DEF Summing
    <3>2. \A j \in Asked \ Synthesis : wrote[j] # "none"
      BY <3>1 DEF Delivered, BodyFirst, Body, Asked
    <3>3. Paid!Ask(s)
      BY <1>1, <1>a, <1>c, <2>1, <2>2, <3>2 DEF Asks, Paid!Ask
    <3> HIDE DEF s
    <3> QED BY <1>a, <3>3 DEF Paid!Next
  <2>3. CASE s \notin Synthesis
    <3>1. ~ Summing
      BY <1>a, <2>1, <2>3 DEF Delivered, BodyFirst, Body
    <3>2. Asked \cap Synthesis = {}
      BY <3>1 DEF Summing
    <3>3. Paid!Ask(s)
      BY <1>1, <1>a, <1>c, <2>1, <2>3, <3>2 DEF Asks, Paid!Ask
    <3> HIDE DEF s
    <3> QED BY <1>a, <3>3 DEF Paid!Next
  <2> QED BY <2>2, <2>3
<1>2. CASE Answering(w)
  <2>1. s \in Asked /\ wrote[s] = "none" /\ worker[w].text \in {Paid!Due(s), "stub"}
    BY <1>2, <1>a DEF Answering, Delivered, InHand, Asking, TypeOK, Fitting, Answers, Paid!Due
  <2>2. run.outcome # "billed"
    BY <1>2, <1>b DEF Answering
  <2>3. Paid!Store(s, worker[w].text)
    BY <1>2, <1>a, <1>c, <2>1, <2>2 DEF Answering, Paid!Store
  <2> HIDE DEF s
  <2> QED BY <1>a, <2>1, <2>3 DEF Paid!Next
<1>3. CASE Quiet(w)
  BY <1>3, <1>a DEF Quiet, Paid!vars
<1> HIDE DEF s
<1> QED BY <1>1, <1>2, <1>3, KindsOfStep

\* The credit is decided on by Settle alone, from answers that are all there.
LEMMA SuperviseDelivers ==
  ASSUME TypeOK, Honest, Fitting, Delivered, Supervise \/ Crash
  PROVE  Paid!Next \/ UNCHANGED Paid!vars
<1>a. calls' = calls /\ wrote' = wrote
  BY SupervisorSteps
<1>1. CASE Settle /\ ~ run.fallback /\ ~ run.failed
  <2>1. run.outcome = "none" /\ run'.outcome = "billed" /\ AllDone /\ run.pc = "settle"
    BY <1>1 DEF Settle, Honest, TypeOK
  <2>2. Sound /\ \A w \in Workers, i \in Sections : ~ Asking(w, i)
    BY <1>1, <2>1 DEF Sound, AllDone, Asking
  <2>3. \A i \in Asked : wrote[i] # "none" /\ wrote[i] # "stub"
    BY <1>1, <2>2 DEF Delivered, NothingLost, Honest, Asked, TypeOK
  <2>4. \A i \in Paid!Asked : wrote[i] = Paid!Due(i)
    BY <2>3 DEF Fitting, Answers, Paid!Due, Paid!Asked, Asked
  <2>5. Paid!Bill
    BY <1>a, <2>1, <2>4 DEF Paid!Bill
  <2> QED BY <2>5 DEF Paid!Next
<1>2. CASE Settle /\ (run.fallback \/ run.failed)
  <2>1. run.outcome = "none" /\ run'.outcome = "released"
    BY <1>2 DEF Settle, Honest, TypeOK
  <2>2. Paid!Release
    BY <1>a, <2>1 DEF Paid!Release
  <2> QED BY <2>2 DEF Paid!Next
<1>3. CASE NextPhase \/ PhasesEnd \/ CatchThrow \/ CorrectFlag \/ Finish \/ SettleThrows \/ Crash
  <2>1. run'.outcome = run.outcome
    BY <1>3 DEF NextPhase, PhasesEnd, CatchThrow, CorrectFlag, Finish, SettleThrows, Crash, TypeOK
  <2> QED BY <1>a, <2>1 DEF Paid!vars
<1> QED BY <1>1, <1>2, <1>3 DEF Supervise

\* Whatever fails, throws, is edited, stopped or replaced meanwhile, the pool
\* and its supervisor do what PaidDraft promises of a draft that is paid for.
THEOREM DeliversWhatIsPaid == Spec => Delivers
<1> DEFINE IInv == Claims /\ RowsStarted /\ Progress /\ Honest /\ Fitting /\ Delivered
<1>1. Init => IInv
  <2>1. Init => Claims /\ RowsStarted /\ Progress /\ Honest /\ Fitting
    BY GenerationAssumption
       DEF Init, Claims, RowsStarted, Progress, Honest, Fitting, Accounted, Body, Whole, IsBusy, Busy,
           Ready, Empty, Resting
  <2> QED BY <2>1, DeliveredInit
<1>2. TypeOK /\ IInv /\ [Next]_vars => IInv'
  BY ClaimsStep, RowsStartedStep, ProgressStep, HonestStep, FittingStep, DeliveredStep
<1>3. Init => Paid!Init
  BY DEF Init, Paid!Init
<1>4. TypeOK /\ IInv /\ [Next]_vars => [Paid!Next]_(Paid!vars)
  <2> SUFFICES ASSUME TypeOK, IInv, [Next]_vars PROVE Paid!Next \/ UNCHANGED Paid!vars
    OBVIOUS
  <2>1. CASE Supersede \/ EditStep \/ UNCHANGED vars
    BY <2>1, OutsideSteps DEF Paid!vars
  <2> QED BY <2>1, StepKinds, WorkerDelivers, SuperviseDelivers
<1> HIDE DEF IInv
<1> QED BY <1>1, <1>2, <1>3, <1>4, TypeCorrect, PTL DEF Spec, Delivers, Paid!Spec

=============================================================================
