------------------------- MODULE RequestIdempotency --------------------------
(***************************************************************************)
(* Repeatable create requests: all the POSTs that carry one idempotency    *)
(* key, a repeat being a request of its own.  One step is one statement of *)
(* the store, or the whole create handler in between; other requests, in   *)
(* this API process or another, run between two steps.  The store may be   *)
(* unavailable and a process may die at any step.  A request that meets a  *)
(* dead store runs without the key; a handler may store its row and then   *)
(* answer with an error.                                                   *)
(***************************************************************************)
EXTENDS Integers, FiniteSets

CONSTANTS
  Requests,  \* the requests sent with the key
  Timeout,   \* IDEMPOTENCY_PENDING_TIMEOUT_MS
  Ttl,       \* IDEMPOTENCY_TTL_MS
  MaxClock   \* bound: how far time passes

ASSUME IdempotencyAssumption ==
  /\ IsFiniteSet(Requests)
  /\ Timeout \in Nat /\ Ttl \in Nat /\ Timeout <= Ttl
  /\ MaxClock \in Nat

VARIABLES
  clock,    \* the time
  record,   \* the RequestIdempotency row of the key
  req,      \* local state of each request
  began,    \* history: when a request was told it is the first
  starts,   \* history: how many were told so
  failures, \* history: how many of those were answered with an error
  frees,    \* history: how many records were judged FREE
  created,  \* history: the requests whose handler stored its row
  stray     \* history: those that ran without the key, or left a row and an error

vars == <<clock, record, req, began, starts, failures, frees, created, stray>>

Never   == -1
Records == [state : {"PENDING", "DONE"}, at : 0..MaxClock, by : Requests]
None    == [state |-> "NONE"]
RequestPc == {"idle", "insert", "find", "judge", "free", "run", "complete", "release",
              "answered", "replayed", "busy", "untracked", "dead"}
Over    == {"answered", "replayed", "busy", "dead"}
Idle    == [pc |-> "idle", round |-> 1, seen |-> None]

Goes(r, pc) == req' = [req EXCEPT ![r].pc = pc]

-----------------------------------------------------------------------------
(* RequestIdempotencyService.begin() *)

\* Wrong: three rounds.
NextRoundOnce(r) ==
  req' = [req EXCEPT ![r] = [pc |-> IF req[r].round <= 2 THEN "insert" ELSE "busy",
                             round |-> req[r].round + 1, seen |-> None]]

\* At most two rounds; after them the request is told to wait.
NextRound(r) ==
  req' = [req EXCEPT ![r] = [pc |-> IF req[r].round < 2 THEN "insert" ELSE "busy",
                             round |-> 2, seen |-> None]]

Arrives(r) ==
  /\ req[r].pc = "idle"
  /\ Goes(r, "insert")
  /\ UNCHANGED <<clock, record, began, starts, failures, frees, created, stray>>

First(r) ==
  /\ record' = [state |-> "PENDING", at |-> clock, by |-> r]
  /\ began' = [began EXCEPT ![r] = clock]
  /\ starts' = starts + 1
  /\ Goes(r, "run")

\* Wrong: an upsert.
InsertUpserts(r) ==
  /\ req[r].pc = "insert"
  /\ First(r)
  /\ UNCHANGED <<clock, failures, frees, created, stray>>

\* insertPending(): INSERT ... ON CONFLICT DO NOTHING.
Insert(r) ==
  /\ req[r].pc = "insert"
  /\ \/ record = None /\ First(r)
     \/ record # None /\ Goes(r, "find") /\ UNCHANGED <<record, began, starts>>
  /\ UNCHANGED <<clock, failures, frees, created, stray>>

Find(r) ==
  /\ req[r].pc = "find"
  /\ \/ record = None /\ NextRound(r)
     \/ record # None /\ req' = [req EXCEPT ![r].pc = "judge", ![r].seen = record]
  /\ UNCHANGED <<clock, record, began, starts, failures, frees, created, stray>>

\* Wrong: any record that is not DONE is dead.
VerdictAgeless(rec) == IF rec.state = "DONE" /\ clock - rec.at < Ttl THEN "REPLAY" ELSE "FREE"

\* idempotencyVerdict() of the record as it was read, at the time it is now.
Verdict(rec) ==
  IF rec.state = "DONE" THEN IF clock - rec.at < Ttl THEN "REPLAY" ELSE "FREE"
                        ELSE IF clock - rec.at < Timeout THEN "IN_PROGRESS" ELSE "FREE"

Judge(r) ==
  /\ req[r].pc = "judge"
  /\ \/ Verdict(req[r].seen) = "REPLAY" /\ Goes(r, "replayed") /\ frees' = frees
     \/ Verdict(req[r].seen) = "IN_PROGRESS" /\ Goes(r, "busy") /\ frees' = frees
     \/ Verdict(req[r].seen) = "FREE" /\ Goes(r, "free") /\ frees' = frees + 1
  /\ UNCHANGED <<clock, record, began, starts, failures, created, stray>>

\* release(): deleteMany by key, whichever record is there by now.
Free(r) ==
  /\ req[r].pc = "free"
  /\ record' = None
  /\ NextRound(r)
  /\ UNCHANGED <<clock, began, starts, failures, frees, created, stray>>

\* The store is down: the request runs as if it had no key.
BeginFails(r) ==
  /\ req[r].pc \in {"insert", "find", "free"}
  /\ stray' = stray \cup {r}
  /\ Goes(r, "untracked")
  /\ UNCHANGED <<clock, record, began, starts, failures, frees, created>>

-----------------------------------------------------------------------------
(* The create handler, and idempotencyFinish() *)

HandlerCreates(r) ==
  /\ req[r].pc = "run"
  /\ created' = created \cup {r}
  /\ Goes(r, "complete")
  /\ UNCHANGED <<clock, record, began, starts, failures, frees, stray>>

\* An error is answered, before the row is stored or after it (create-project
\* saves the project first and returns the error of a later statement).
HandlerFails(r) ==
  /\ req[r].pc = "run"
  /\ failures' = failures + 1
  /\ \/ UNCHANGED <<created, stray>>
     \/ created' = created \cup {r} /\ stray' = stray \cup {r}
  /\ Goes(r, "release")
  /\ UNCHANGED <<clock, record, began, starts, frees>>

\* The handler without a record: nothing is finished after it.
RunUntracked(r) ==
  /\ req[r].pc = "untracked"
  /\ created' \in {created, created \cup {r}}
  /\ Goes(r, "answered")
  /\ UNCHANGED <<clock, record, began, starts, failures, frees, stray>>

\* complete(): an UPDATE by key; with no record it fails, and nobody looks.
Complete(r) ==
  /\ req[r].pc = "complete"
  /\ record' = IF record = None THEN None ELSE [record EXCEPT !.state = "DONE", !.by = r]
  /\ Goes(r, "answered")
  /\ UNCHANGED <<clock, began, starts, failures, frees, created, stray>>

Release(r) ==
  /\ req[r].pc = "release"
  /\ record' = None
  /\ Goes(r, "answered")
  /\ UNCHANGED <<clock, began, starts, failures, frees, created, stray>>

\* The store is down: the answer goes out, the record stays.
FinishFails(r) ==
  /\ req[r].pc \in {"complete", "release"}
  /\ Goes(r, "answered")
  /\ UNCHANGED <<clock, record, began, starts, failures, frees, created, stray>>

Dies(r) ==
  /\ req[r].pc \notin Over \cup {"idle"}
  /\ Goes(r, "dead")
  /\ UNCHANGED <<clock, record, began, starts, failures, frees, created, stray>>

Tick ==
  /\ clock < MaxClock
  /\ clock' = clock + 1
  /\ UNCHANGED <<record, req, began, starts, failures, frees, created, stray>>

-----------------------------------------------------------------------------
Init ==
  /\ clock = 0
  /\ record = None
  /\ req = [r \in Requests |-> Idle]
  /\ began = [r \in Requests |-> Never]
  /\ starts = 0 /\ failures = 0 /\ frees = 0
  /\ created = {} /\ stray = {}

RequestStep(r) ==
  \/ Arrives(r) \/ Insert(r) \/ Find(r) \/ Judge(r) \/ Free(r) \/ BeginFails(r)
  \/ HandlerCreates(r) \/ HandlerFails(r) \/ RunUntracked(r)
  \/ Complete(r) \/ Release(r) \/ FinishFails(r) \/ Dies(r)

Next == Tick \/ \E r \in Requests : RequestStep(r)

Spec == Init /\ [][Next]_vars

-----------------------------------------------------------------------------
(* Properties *)

\* Every variable keeps its type; a request goes through at most two rounds.
TypeOK ==
  /\ clock \in 0..MaxClock
  /\ record \in Records \cup {None}
  /\ req \in [Requests -> [pc : RequestPc, round : 1..2, seen : Records \cup {None}]]
  /\ began \in [Requests -> 0..MaxClock \cup {Never}]
  /\ starts \in Nat /\ failures \in Nat /\ frees \in Nat
  /\ created \subseteq Requests /\ stray \subseteq Requests

\* One key stores one row, and one more at most for every record found too old,
\* every request that met a dead store and every run that stored its row and then
\* answered with an error: other failed runs, late runs that release or complete
\* a record of another request, dead processes and two requests freeing the same
\* record do not add to it.
CreatedOnce == Cardinality(created) <= 1 + frees + Cardinality(stray)

\* The promise of a key, in the terms of CreateOnce: nothing but an error answered
\* or a record at least Timeout old lets the handler run again under the key, and
\* a repeat is answered with something that was created and answered as created.
Permits == 1 + frees + failures - starts
Running == {r \in Requests : req[r].pc = "run"}
Replies == {<<r, req[r].seen.by>> : r \in {q \in Requests : req[q].pc = "replayed"}}
Once    == INSTANCE CreateOnce WITH permits <- Permits, running <- Running, replies <- Replies

KeepsPromise == Once!Spec
=============================================================================
