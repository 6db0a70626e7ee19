---------------------- MODULE RequestIdempotencyProofs -----------------------
(***************************************************************************)
(* Theorems about RequestIdempotency, for any number of requests.          *)
(***************************************************************************)
EXTENDS RequestIdempotency, FiniteSetTheorems, TLAPS

RequestType == [pc : RequestPc, round : 1..2, seen : Records \cup {None}]

\* Requests about to delete the record of the key.
Deleting == {r \in Requests : req[r].pc \in {"free", "release"}}
Exists   == IF record = None THEN 0 ELSE 1

(***************************************************************************)
(* What a step changes                                                     *)
(***************************************************************************)

\* A request's step moves that request in the sets of requests.
LEMMA OwnStep ==
  ASSUME TypeOK, NEW r \in Requests, NEW x \in RequestType,
         req' = [req EXCEPT ![r] = x], req[r].pc # "replayed"
  PROVE  /\ Running' = IF x.pc = "run" THEN Running \cup {r} ELSE Running \ {r}
         /\ Deleting' = IF x.pc \in {"free", "release"} THEN Deleting \cup {r} ELSE Deleting \ {r}
         /\ Replies' = IF x.pc = "replayed" THEN Replies \cup {<<r, x.seen.by>>} ELSE Replies
PROOF
<1>1. req'[r] = x /\ \A q \in Requests \ {r} : req'[q] = req[q]
  BY DEF TypeOK
<1>2. Running' = IF x.pc = "run" THEN Running \cup {r} ELSE Running \ {r}
  BY <1>1 DEF Running
<1>3. Deleting' = IF x.pc \in {"free", "release"} THEN Deleting \cup {r} ELSE Deleting \ {r}
  BY <1>1 DEF Deleting
<1>4. {q \in Requests : req'[q].pc = "replayed"}
        = IF x.pc = "replayed" THEN {q \in Requests : req[q].pc = "replayed"} \cup {r}
                               ELSE {q \in Requests : req[q].pc = "replayed"}
  BY <1>1
<1>5. Replies' = IF x.pc = "replayed" THEN Replies \cup {<<r, x.seen.by>>} ELSE Replies
  BY <1>1, <1>4 DEF Replies
<1> QED BY <1>2, <1>3, <1>5

\* Every step of a request writes a well-typed local state of that request.
LEMMA StepShape ==
  ASSUME TypeOK, NEW r \in Requests, RequestStep(r)
  PROVE  /\ req[r].pc \notin Over
         /\ \E x \in RequestType : req' = [req EXCEPT ![r] = x]
PROOF
<1>t. req \in [Requests -> RequestType] /\ req[r] \in RequestType /\ record \in Records \cup {None}
  BY DEF TypeOK, RequestType
<1>1. req[r].pc \notin Over
  BY DEF RequestStep, Arrives, Insert, Find, Judge, Free, BeginFails, HandlerCreates, HandlerFails,
         RunUntracked, Complete, Release, FinishFails, Dies, Over
<1>s. SUFFICES \E x \in RequestType : req' = [req EXCEPT ![r] = x]
  BY <1>1
<1>2. ASSUME NEW pc \in RequestPc, Goes(r, pc) PROVE \E x \in RequestType : req' = [req EXCEPT ![r] = x]
  <2>1. [req[r] EXCEPT !.pc = pc] \in RequestType
    BY <1>t DEF RequestType
  <2>2. req' = [req EXCEPT ![r] = [req[r] EXCEPT !.pc = pc]]
    BY <1>2, <1>t DEF Goes
  <2> QED BY <2>1, <2>2
<1>3. ASSUME NextRound(r) PROVE \E x \in RequestType : req' = [req EXCEPT ![r] = x]
  <2> DEFINE x == [pc |-> IF req[r].round < 2 THEN "insert" ELSE "busy", round |-> 2, seen |-> None]
  <2>1. x \in RequestType
    BY DEF RequestType, RequestPc
  <2> QED BY <1>3, <2>1 DEF NextRound
<1>4. CASE Find(r)
  <2>1. CASE record # None /\ req' = [req EXCEPT ![r].pc = "judge", ![r].seen = record]
    <3>1. [req[r] EXCEPT !.pc = "judge", !.seen = record] \in RequestType
      BY <1>t DEF RequestType, RequestPc
    <3>2. req' = [req EXCEPT ![r] = [req[r] EXCEPT !.pc = "judge", !.seen = record]]
      BY <2>1, <1>t
    <3> QED BY <3>1, <3>2
  <2> QED BY <1>4, <2>1, <1>3 DEF Find
<1>5. CASE Free(r)
  BY <1>5, <1>3 DEF Free
<1>6. CASE \E pc \in RequestPc : Goes(r, pc)
  BY <1>6, <1>2
<1>7. {"insert", "run", "find", "replayed", "busy", "free", "untracked", "complete", "release",
       "answered", "dead"} \subseteq RequestPc
  BY DEF RequestPc
<1> QED
  BY <1>4, <1>5, <1>6, <1>7
  DEF RequestStep, Arrives, Insert, First, Judge, BeginFails, HandlerCreates, HandlerFails,
      RunUntracked, Complete, Release, FinishFails, Dies

(***************************************************************************)
(* Types                                                                   *)
(***************************************************************************)

\* Every variable keeps its type, for any number of requests and any timeouts.
THEOREM TypeCorrect == Spec => []TypeOK
PROOF
<1>1. Init => TypeOK
  BY IdempotencyAssumption DEF Init, TypeOK, Idle, RequestPc
<1>2. TypeOK /\ [Next]_vars => TypeOK'
  <2> SUFFICES ASSUME TypeOK, [Next]_vars PROVE TypeOK'
    OBVIOUS
  <2>1. ASSUME NEW r \in Requests, RequestStep(r) PROVE TypeOK'
    <3>1. req' \in [Requests -> RequestType]
      BY <2>1, StepShape DEF TypeOK, RequestType
    <3>2. record' \in Records \cup {None}
      <4>1. clock \in 0..MaxClock /\ record \in Records \cup {None}
        BY DEF TypeOK
      <4>2. CASE record' = [state |-> "PENDING", at |-> clock, by |-> r]
        BY <4>1, <4>2 DEF Records
      <4>3. CASE record # None /\ record' = [record EXCEPT !.state = "DONE", !.by = r]
        BY <4>1, <4>3 DEF Records
      <4>4. CASE record' = record \/ record' = None
        BY <4>1, <4>4
      <4> QED
        BY <2>1, <4>2, <4>3, <4>4 DEF RequestStep, Arrives, Insert, First, Find, Judge, Free,
           BeginFails, HandlerCreates, HandlerFails, RunUntracked, Complete, Release, FinishFails, Dies
    <3>3. /\ clock' \in 0..MaxClock /\ began' \in [Requests -> 0..MaxClock \cup {Never}]
          /\ starts' \in Nat /\ failures' \in Nat /\ frees' \in Nat
          /\ created' \subseteq Requests /\ stray' \subseteq Requests
      BY <2>1 DEF TypeOK, RequestStep, Arrives, Insert, First, Find, Judge, Free, BeginFails,
         HandlerCreates, HandlerFails, RunUntracked, Complete, Release, FinishFails, Dies
    <3> QED BY <3>1, <3>2, <3>3 DEF TypeOK, RequestType
  <2>2. CASE Tick
    BY <2>2, IdempotencyAssumption DEF Tick, TypeOK
  <2>3. CASE UNCHANGED vars
    BY <2>3 DEF TypeOK, vars
  <2> QED BY <2>1, <2>2, <2>3 DEF Next
<1> QED BY <1>1, <1>2, PTL DEF Spec

(***************************************************************************)
(* One creation, and one more for every record found too old               *)
(***************************************************************************)

\* The sets of requests after a step of r, in terms of r's new state.
LEMMA SetsAfter ==
  ASSUME TypeOK, NEW r \in Requests, RequestStep(r)
  PROVE  /\ req' \in [Requests -> RequestType]
         /\ \A q \in Requests \ {r} : req'[q] = req[q]
         /\ Running' = IF req'[r].pc = "run" THEN Running \cup {r} ELSE Running \ {r}
         /\ Deleting' = IF req'[r].pc \in {"free", "release"} THEN Deleting \cup {r} ELSE Deleting \ {r}
         /\ Replies' = IF req'[r].pc = "replayed" THEN Replies \cup {<<r, req'[r].seen.by>>} ELSE Replies
PROOF
<1>1. req[r].pc \notin Over /\ req \in [Requests -> RequestType]
  BY StepShape DEF TypeOK, RequestType
<1>2. PICK x \in RequestType : req' = [req EXCEPT ![r] = x]
  BY StepShape
<1>3. req'[r] = x /\ req' \in [Requests -> RequestType] /\ \A q \in Requests \ {r} : req'[q] = req[q]
  BY <1>1, <1>2
<1>4. req[r].pc # "replayed"
  BY <1>1 DEF Over
<1> QED BY <1>2, <1>3, <1>4, OwnStep

\* Where each step takes its request, and what it counts.
LEMMA StepTable ==
  ASSUME TypeOK, NEW r \in Requests, RequestStep(r)
  PROVE  \/ /\ Insert(r) /\ record = None /\ req'[r].pc = "run" /\ req[r].pc = "insert"
            /\ record' # None /\ starts' = starts + 1
            /\ UNCHANGED <<clock, failures, frees, created, stray>>
         \/ /\ Judge(r) /\ req'[r].pc = "free" /\ req[r].pc = "judge" /\ frees' = frees + 1
            /\ UNCHANGED <<clock, record, began, starts, failures, created, stray>>
         \/ /\ HandlerCreates(r) /\ req[r].pc = "run" /\ req'[r].pc = "complete"
            /\ created' = created \cup {r}
            /\ UNCHANGED <<clock, record, began, starts, failures, frees, stray>>
         \/ /\ HandlerFails(r) /\ req[r].pc = "run" /\ req'[r].pc = "release" /\ failures' = failures + 1
            /\ \/ UNCHANGED <<created, stray>>
               \/ created' = created \cup {r} /\ stray' = stray \cup {r}
            /\ UNCHANGED <<clock, record, began, starts, frees>>
         \/ /\ BeginFails(r) /\ req[r].pc \in {"insert", "find", "free"} /\ req'[r].pc = "untracked"
            /\ stray' = stray \cup {r}
            /\ UNCHANGED <<clock, record, began, starts, failures, frees, created>>
         \/ /\ RunUntracked(r) /\ req[r].pc = "untracked" /\ req'[r].pc = "answered"
            /\ created' \in {created, created \cup {r}}
            /\ UNCHANGED <<clock, record, began, starts, failures, frees, stray>>
         \/ /\ req[r].pc \in {"free", "release"} /\ record' = None
            /\ req'[r].pc \in {"insert", "busy", "answered"}
            /\ UNCHANGED <<clock, began, starts, failures, frees, created, stray>>
         \/ /\ Complete(r) /\ req[r].pc = "complete" /\ req'[r].pc = "answered"
            /\ (record = None <=> record' = None)
            /\ UNCHANGED <<clock, began, starts, failures, frees, created, stray>>
         \/ /\ req'[r].pc \notin {"run", "free", "release", "complete", "untracked", "idle"}
            /\ req'[r].pc = "judge" => req'[r].seen = record /\ record # None
            /\ req'[r].pc \in {"insert", "find", "judge"} => req[r].pc \in {"idle", "insert", "find"}
            /\ req'[r].pc = "replayed" => /\ req[r].pc = "judge" /\ req'[r].seen = req[r].seen
                                          /\ req[r].seen.state = "DONE"
            /\ UNCHANGED <<clock, record, began, starts, failures, frees, created, stray>>
PROOF
<1>t. req \in [Requests -> RequestType] /\ req[r] \in RequestType /\ record \in Records \cup {None}
  BY DEF TypeOK, RequestType
<1>g. ASSUME NEW pc, Goes(r, pc) PROVE req'[r].pc = pc /\ req'[r].seen = req[r].seen
  BY <1>g, <1>t DEF Goes, RequestType
<1>n. ASSUME NextRound(r) PROVE req'[r].pc \in {"insert", "busy"}
  BY <1>n, <1>t DEF NextRound
<1>1. CASE Arrives(r)
  BY <1>1, <1>g DEF Arrives
<1>2. CASE Insert(r)
  <2>1. CASE record = None /\ First(r)
    <3>1. req'[r].pc = "run" /\ record' # None
      BY <2>1, <1>g DEF First, None
    <3> QED BY <1>2, <2>1, <3>1 DEF Insert, First
  <2>2. CASE record # None /\ Goes(r, "find") /\ UNCHANGED <<record, began, starts>>
    <3>1. req'[r].pc = "find"
      BY <2>2, <1>g
    <3> QED BY <1>2, <2>2, <3>1 DEF Insert
  <2> QED BY <1>2, <2>1, <2>2 DEF Insert
<1>3. CASE Find(r)
  <2>1. CASE record # None /\ req' = [req EXCEPT ![r].pc = "judge", ![r].seen = record]
    <3>1. req'[r].pc = "judge" /\ req'[r].seen = record
      BY <2>1, <1>t DEF RequestType
    <3> QED BY <1>3, <2>1, <3>1 DEF Find
  <2>2. CASE NextRound(r)
    BY <1>3, <2>2, <1>n DEF Find
  <2> QED BY <1>3, <2>1, <2>2 DEF Find
<1>4. CASE Judge(r)
  <2>1. CASE Verdict(req[r].seen) = "REPLAY" /\ Goes(r, "replayed") /\ frees' = frees
    <3>1. req'[r].pc = "replayed" /\ req'[r].seen = req[r].seen
      BY <2>1, <1>g
    <3>2. req[r].seen.state = "DONE"
      BY <2>1 DEF Verdict
    <3> QED BY <1>4, <2>1, <3>1, <3>2 DEF Judge
  <2>2. CASE Goes(r, "busy") /\ frees' = frees
    <3>1. req'[r].pc = "busy"
      BY <2>2, <1>g
    <3> QED BY <1>4, <2>2, <3>1 DEF Judge
  <2>3. CASE Goes(r, "free") /\ frees' = frees + 1
    <3>1. req'[r].pc = "free"
      BY <2>3, <1>g
    <3> QED BY <1>4, <2>3, <3>1 DEF Judge
  <2> QED BY <1>4, <2>1, <2>2, <2>3 DEF Judge
<1>5. CASE Free(r)
  BY <1>5, <1>n DEF Free
<1>6. CASE BeginFails(r)
  BY <1>6, <1>g DEF BeginFails
<1>7. CASE HandlerCreates(r)
  BY <1>7, <1>g DEF HandlerCreates
<1>8. CASE HandlerFails(r)
  BY <1>8, <1>g DEF HandlerFails
<1>9. CASE Complete(r)
  <2>1. record # None => [record EXCEPT !.state = "DONE", !.by = r] # None
    <3>1. record # None => [record EXCEPT !.state = "DONE", !.by = r].state = "DONE"
      BY <1>t DEF Records
    <3> QED BY <3>1 DEF None
  <2> QED BY <1>9, <1>g, <2>1 DEF Complete
<1>10. CASE Release(r)
  BY <1>10, <1>g DEF Release
<1>11. CASE FinishFails(r)
  BY <1>11, <1>g DEF FinishFails
<1>12. CASE Dies(r)
  BY <1>12, <1>g DEF Dies
<1>13. CASE RunUntracked(r)
  BY <1>13, <1>g DEF RunUntracked
<1> QED
  BY <1>1, <1>2, <1>3, <1>4, <1>5, <1>6, <1>7, <1>8, <1>9, <1>10, <1>11, <1>12, <1>13 DEF RequestStep

\* The key is never inserted more often than the record was deleted, plus once;
\* and it is deleted only for a failure or for a record judged FREE.
Budget == starts + Cardinality(Deleting) <= Exists + frees + failures

\* The creations the key counts, and with them the runs under way.
Tracked == created \ stray
Live    == Running \cup Tracked

\* Every insertion is a running request, a tracked creation, a failure, or lost.
Spent == Cardinality(Live) + failures <= starts

\* Where a request that stored its row, or left the key, can be.
Placed ==
  \A r \in Requests : /\ r \in created => req[r].pc \in {"complete", "release", "answered", "dead"}
                      /\ r \in stray => req[r].pc \in {"untracked", "release", "answered", "dead"}
                      /\ req[r].pc = "untracked" => r \in stray

LEMMA FiniteRequests ==
  ASSUME TypeOK
  PROVE  /\ IsFiniteSet(Deleting) /\ IsFiniteSet(Live)
         /\ Cardinality(Deleting) \in Nat /\ Cardinality(Live) \in Nat
PROOF
<1>1. Deleting \in SUBSET Requests /\ Live \in SUBSET Requests
  BY DEF Deleting, Live, Running, Tracked, TypeOK
<1> QED BY <1>1, IdempotencyAssumption, FS_Subset, FS_CardinalityType

\* A step keeps the budget.
LEMMA StepBudget ==
  ASSUME TypeOK, Budget, NEW r \in Requests, RequestStep(r)
  PROVE  Budget'
PROOF
<1>t. starts \in Nat /\ frees \in Nat /\ failures \in Nat
      /\ Cardinality(Deleting) \in Nat /\ IsFiniteSet(Deleting)
  BY FiniteRequests DEF TypeOK
<1>1. Cardinality(Deleting \cup {r}) = (IF r \in Deleting THEN Cardinality(Deleting) ELSE Cardinality(Deleting) + 1)
      /\ Cardinality(Deleting \ {r}) = (IF r \in Deleting THEN Cardinality(Deleting) - 1 ELSE Cardinality(Deleting))
  BY <1>t, FS_AddElement, FS_RemoveElement
<1>2. Deleting' = IF req'[r].pc \in {"free", "release"} THEN Deleting \cup {r} ELSE Deleting \ {r}
  BY SetsAfter
<1>3. r \in Deleting <=> req[r].pc \in {"free", "release"}
  BY DEF Deleting
<1>4. CASE Insert(r) /\ record = None /\ req'[r].pc = "run" /\ req[r].pc = "insert"
           /\ record' # None /\ starts' = starts + 1 /\ UNCHANGED <<failures, frees>>
  BY <1>4, <1>t, <1>1, <1>2, <1>3 DEF Budget, Exists
<1>5. CASE req'[r].pc = "free" /\ req[r].pc = "judge" /\ frees' = frees + 1
           /\ UNCHANGED <<record, starts, failures>>
  BY <1>5, <1>t, <1>1, <1>2, <1>3 DEF Budget, Exists
<1>6. CASE req[r].pc = "run" /\ req'[r].pc = "release" /\ failures' = failures + 1
           /\ UNCHANGED <<record, starts, frees>>
  BY <1>6, <1>t, <1>1, <1>2, <1>3 DEF Budget, Exists
<1>7. CASE req[r].pc \in {"free", "release"} /\ record' = None
           /\ req'[r].pc \in {"insert", "busy", "answered"} /\ UNCHANGED <<starts, failures, frees>>
  BY <1>7, <1>t, <1>1, <1>2, <1>3 DEF Budget, Exists
<1>8. CASE req'[r].pc \notin {"free", "release"} /\ (record = None <=> record' = None)
           /\ UNCHANGED <<starts, failures, frees>>
  BY <1>8, <1>t, <1>1, <1>2, <1>3 DEF Budget, Exists
<1> QED BY <1>4, <1>5, <1>6, <1>7, <1>8, StepTable

\* A step keeps Placed, and never takes a tracked creation back.
LEMMA StepPlaced ==
  ASSUME TypeOK, Placed, NEW r \in Requests, RequestStep(r)
  PROVE  Placed' /\ Tracked \subseteq Tracked'
PROOF
<1>t. req \in [Requests -> RequestType] /\ created \subseteq Requests
  BY DEF TypeOK, RequestType
<1>o. \A q \in Requests \ {r} : req'[q] = req[q]
  BY SetsAfter
<1>g. ASSUME NEW pc, Goes(r, pc) PROVE req'[r].pc = pc
  BY <1>g, <1>t DEF Goes, RequestType
<1>1. /\ \A q \in Requests \ {r} : (q \in created' <=> q \in created) /\ (q \in stray' <=> q \in stray)
      /\ created \subseteq created'
  BY StepTable
<1>2. ASSUME req[r].pc \in {"complete", "release"}
      PROVE  req'[r].pc \in {"answered", "dead"} /\ UNCHANGED <<created, stray>>
  BY <1>2, <1>g DEF RequestStep, Arrives, Insert, Find, Judge, Free, BeginFails, HandlerCreates,
     HandlerFails, RunUntracked, Complete, Release, FinishFails, Dies
<1>3. ASSUME req[r].pc = "untracked"
      PROVE  req'[r].pc \in {"answered", "dead"} /\ UNCHANGED stray
  BY <1>3, <1>g DEF RequestStep, Arrives, Insert, Find, Judge, Free, BeginFails, HandlerCreates,
     HandlerFails, RunUntracked, Complete, Release, FinishFails, Dies
<1>4. ASSUME req[r].pc \notin {"complete", "release", "untracked"}
      PROVE  /\ r \notin created /\ r \notin stray
             /\ r \in created' => req'[r].pc \in {"complete", "release"}
             /\ r \in stray' => req'[r].pc \in {"untracked", "release"}
             /\ req'[r].pc = "untracked" => r \in stray'
  <2>1. req[r].pc \notin Over
    BY StepShape
  <2>2. r \notin created /\ r \notin stray
    BY <1>4, <2>1 DEF Placed, Over
  <2> QED BY <1>4, <2>2, StepTable
<1>5. Placed'
  <2>1. ASSUME NEW q \in Requests
        PROVE  /\ q \in created' => req'[q].pc \in {"complete", "release", "answered", "dead"}
               /\ q \in stray' => req'[q].pc \in {"untracked", "release", "answered", "dead"}
               /\ req'[q].pc = "untracked" => q \in stray'
    <3>1. CASE q # r
      BY <3>1, <1>o, <1>1 DEF Placed
    <3>2. CASE q = r
      BY <3>2, <1>2, <1>3, <1>4
    <3> QED BY <3>1, <3>2
  <2> QED BY <2>1 DEF Placed
<1>6. ASSUME NEW q \in created, q \notin stray PROVE q \in created' /\ q \notin stray'
  <2>1. CASE q # r
    BY <2>1, <1>6, <1>1, <1>t
  <2>2. CASE q = r
    BY <2>2, <1>6, <1>1, <1>2, <1>3, <1>4
  <2> QED BY <2>1, <2>2
<1> QED BY <1>5, <1>6 DEF Tracked

\* A step keeps Spent.
LEMMA StepSpent ==
  ASSUME TypeOK, Spent, Placed, NEW r \in Requests, RequestStep(r)
  PROVE  Spent'
PROOF
<1>t. starts \in Nat /\ failures \in Nat /\ Cardinality(Live) \in Nat /\ IsFiniteSet(Live)
  BY FiniteRequests DEF TypeOK
<1>1. /\ Cardinality(Live \cup {r}) <= Cardinality(Live) + 1 /\ Cardinality(Live \cup {r}) \in Nat
      /\ (r \in Live => Cardinality(Live \ {r}) = Cardinality(Live) - 1)
  <2>1. Cardinality(Live \cup {r}) = (IF r \in Live THEN Cardinality(Live) ELSE Cardinality(Live) + 1)
        /\ Cardinality(Live \ {r}) = (IF r \in Live THEN Cardinality(Live) - 1 ELSE Cardinality(Live))
    BY <1>t, FS_AddElement, FS_RemoveElement
  <2> QED BY <2>1, <1>t
<1>2. \A S \in SUBSET Live : Cardinality(S) <= Cardinality(Live) /\ Cardinality(S) \in Nat
  BY <1>t, FS_Subset, FS_CardinalityType
<1>3. Running' = (IF req'[r].pc = "run" THEN Running \cup {r} ELSE Running \ {r})
  BY SetsAfter
<1>4. r \in Running <=> req[r].pc = "run"
  BY DEF Running
<1>5. req[r].pc \in {"insert", "run"} => r \notin created /\ r \notin stray
  BY DEF Placed
<1>6. CASE req[r].pc = "insert" /\ starts' = starts + 1 /\ req'[r].pc = "run" /\ UNCHANGED <<failures, created, stray>>
  <2>1. Live' = Live \cup {r}
    BY <1>3, <1>6 DEF Live, Tracked
  <2> QED BY <2>1, <1>1, <1>6, <1>t DEF Spent
<1>7. CASE req[r].pc = "run" /\ req'[r].pc = "complete" /\ created' = created \cup {r}
           /\ UNCHANGED <<starts, failures, stray>>
  <2>1. Live' = Live
    BY <1>3, <1>4, <1>5, <1>7 DEF Live, Tracked
  <2> QED BY <2>1, <1>7 DEF Spent
<1>8. CASE /\ req[r].pc = "run" /\ req'[r].pc = "release" /\ failures' = failures + 1 /\ UNCHANGED starts
           /\ \/ UNCHANGED <<created, stray>>
              \/ created' = created \cup {r} /\ stray' = stray \cup {r}
  <2>1. r \in Live /\ Live' = Live \ {r}
    BY <1>3, <1>4, <1>5, <1>8 DEF Live, Tracked
  <2> QED BY <2>1, <1>1, <1>8, <1>t DEF Spent
<1>9. CASE req'[r].pc # "run" /\ UNCHANGED <<starts, failures>> /\ Tracked' \subseteq Tracked
  <2>1. Live' \in SUBSET Live
    BY <1>3, <1>9 DEF Live
  <2>2. Cardinality(Live') <= Cardinality(Live) /\ Cardinality(Live') \in Nat
    BY <2>1, <1>2
  <2> QED BY <2>2, <1>9, <1>t DEF Spent
<1>10. CASE /\ req[r].pc = "untracked" /\ req'[r].pc = "answered" /\ created' \in {created, created \cup {r}}
            /\ UNCHANGED <<starts, failures, stray>>
  <2>1. r \in stray
    BY <1>10 DEF Placed
  <2>2. Tracked' \subseteq Tracked
    BY <2>1, <1>10 DEF Tracked
  <2> QED BY <2>2, <1>9, <1>10
<1>11. CASE /\ req'[r].pc # "run" /\ UNCHANGED <<starts, failures, created>> /\ stray \subseteq stray'
  BY <1>11, <1>9 DEF Tracked
<1> QED BY <1>6, <1>7, <1>8, <1>10, <1>11, StepTable

\* One key stores one row, and one more at most for every record found too old,
\* every request past a dead store and every error answered over a stored row.
THEOREM CreatesOnce == Spec => []CreatedOnce
PROOF
<1>1. Init => Budget /\ Spent /\ Placed
  <2> SUFFICES ASSUME Init PROVE Budget /\ Spent /\ Placed
    OBVIOUS
  <2>1. Deleting = {} /\ Live = {}
    BY DEF Init, Idle, Deleting, Live, Running, Tracked
  <2>2. Cardinality({}) = 0
    BY FS_EmptySet
  <2>3. Cardinality(Deleting) = 0 /\ Cardinality(Live) = 0
    BY <2>1, <2>2
  <2>4. Placed
    BY DEF Init, Idle, Placed
  <2> QED BY <2>3, <2>4 DEF Init, Budget, Spent, Exists
<1>2. TypeOK /\ Budget /\ Spent /\ Placed /\ [Next]_vars => Budget' /\ Spent' /\ Placed'
  <2> SUFFICES ASSUME TypeOK, Budget, Spent, Placed, [Next]_vars PROVE Budget' /\ Spent' /\ Placed'
    OBVIOUS
  <2>1. CASE \E r \in Requests : RequestStep(r)
    BY <2>1, StepBudget, StepSpent, StepPlaced
  <2>2. CASE Tick \/ UNCHANGED vars
    <3>1. UNCHANGED <<record, req, starts, failures, frees, created, stray>>
      BY <2>2 DEF Tick, vars
    <3>2. Deleting' = Deleting /\ Live' = Live /\ Exists' = Exists
      BY <3>1 DEF Deleting, Live, Running, Tracked, Exists
    <3> QED BY <3>1, <3>2 DEF Budget, Spent, Placed
  <2> QED BY <2>1, <2>2 DEF Next
<1>3. TypeOK /\ Budget /\ Spent => CreatedOnce
  <2> SUFFICES ASSUME TypeOK, Budget, Spent PROVE CreatedOnce
    OBVIOUS
  <2>1. /\ IsFiniteSet(Tracked) /\ Cardinality(Tracked) <= Cardinality(Live) /\ Cardinality(Tracked) \in Nat
    BY FiniteRequests, FS_Subset, FS_CardinalityType DEF Live
  <2>2. IsFiniteSet(stray) /\ Cardinality(stray) \in Nat
    BY IdempotencyAssumption, FS_Subset, FS_CardinalityType DEF TypeOK
  <2>3. /\ IsFiniteSet(Tracked \cup stray)
        /\ Cardinality(Tracked \cup stray)
             = Cardinality(Tracked) + Cardinality(stray) - Cardinality(Tracked \cap stray)
    BY <2>1, <2>2, FS_Union
  <2>4. Tracked \cap stray = {} /\ Cardinality({}) = 0 /\ created \in SUBSET (Tracked \cup stray)
    BY FS_EmptySet DEF Tracked
  <2>5. Cardinality(Tracked \cup stray) = Cardinality(Tracked) + Cardinality(stray)
    <3>1. Cardinality(Tracked \cap stray) = 0
      BY <2>4
    <3> QED BY <3>1, <2>1, <2>2, <2>3
  <2>6. Cardinality(created) <= Cardinality(Tracked \cup stray) /\ Cardinality(created) \in Nat
    BY <2>3, <2>4, FS_Subset, FS_CardinalityType
  <2>7. /\ Cardinality(Deleting) \in Nat /\ Cardinality(Live) \in Nat
        /\ Exists \in 0..1 /\ starts \in Nat /\ frees \in Nat /\ failures \in Nat
    BY FiniteRequests DEF Exists, TypeOK
  <2> QED BY <2>1, <2>2, <2>5, <2>6, <2>7 DEF Budget, Spent, CreatedOnce
<1> QED BY <1>1, <1>2, <1>3, TypeCorrect, PTL DEF Spec

(***************************************************************************)
(* The detailed specification implements CreateOnce                        *)
(***************************************************************************)

Fresh == {"idle", "insert", "find", "judge", "free", "untracked"}

\* A record dates from the start of some request; a DONE one names a creation.
Known(rec) == rec # None => /\ \E q \in Requests : began[q] = rec.at
                            /\ rec.state = "DONE" => rec.by \in Tracked

\* What the store and the requests know is true, however old it is.
Traced ==
  /\ Known(record)
  /\ \A r \in Requests : /\ Known(req[r].seen)
                         /\ req[r].pc \in Fresh => began[r] = Never
                         /\ req[r].pc = "judge" => req[r].seen # None
                         /\ req[r].pc = "complete" => r \in Tracked

\* How a step changes what its request has read and may do next.
LEMMA SeenAfter ==
  ASSUME TypeOK, Placed, NEW r \in Requests, RequestStep(r)
  PROVE  /\ req'[r].seen \in {req[r].seen, record, None}
         /\ req'[r].pc \in Fresh => req[r].pc \in Fresh /\ began' = began
         /\ req'[r].pc = "judge" => req'[r].seen # None
         /\ req'[r].pc = "complete" => r \in Tracked'
PROOF
<1>t. req \in [Requests -> RequestType] /\ req[r] \in RequestType
  BY DEF TypeOK, RequestType
<1>g. ASSUME NEW pc, Goes(r, pc) PROVE req'[r].pc = pc /\ req'[r].seen = req[r].seen
  BY <1>g, <1>t DEF Goes, RequestType
<1>n. ASSUME NextRound(r) PROVE req'[r].pc \in {"insert", "busy"} /\ req'[r].seen = None
  BY <1>n, <1>t DEF NextRound
<1>1. CASE Arrives(r) \/ Insert(r)
  BY <1>1, <1>g DEF Arrives, Insert, First, Fresh
<1>2. CASE Find(r)
  <2>1. CASE record # None /\ req' = [req EXCEPT ![r].pc = "judge", ![r].seen = record]
    <3>1. req'[r].pc = "judge" /\ req'[r].seen = record
      BY <2>1, <1>t DEF RequestType
    <3> QED BY <1>2, <2>1, <3>1 DEF Find, Fresh
  <2> QED BY <1>2, <2>1, <1>n DEF Find, Fresh
<1>3. CASE Judge(r)
  BY <1>3, <1>g DEF Judge, Fresh
<1>4. CASE Free(r) \/ BeginFails(r)
  BY <1>4, <1>g, <1>n DEF Free, BeginFails, Fresh
<1>5. CASE HandlerCreates(r) \/ HandlerFails(r) \/ RunUntracked(r)
  BY <1>5, <1>g DEF HandlerCreates, HandlerFails, RunUntracked, Fresh, Placed, Tracked
<1>6. CASE Complete(r) \/ Release(r) \/ FinishFails(r) \/ Dies(r)
  BY <1>6, <1>g DEF Complete, Release, FinishFails, Dies, Fresh
<1> QED BY <1>1, <1>2, <1>3, <1>4, <1>5, <1>6 DEF RequestStep

\* A step keeps Traced: starts and creations are never taken back.
LEMMA StepTraced ==
  ASSUME TypeOK, Placed, Traced, NEW r \in Requests, RequestStep(r)
  PROVE  Traced'
PROOF
<1>t. /\ record \in Records \cup {None} /\ clock \in 0..MaxClock
      /\ began \in [Requests -> 0..MaxClock \cup {Never}]
      /\ \A q \in Requests : req[q].seen \in Records \cup {None}
  BY DEF TypeOK
<1>1. Tracked \subseteq Tracked'
  BY StepPlaced
<1>2. \/ began' = began
      \/ Insert(r) /\ record' = [state |-> "PENDING", at |-> clock, by |-> r]
         /\ began' = [began EXCEPT ![r] = clock] /\ began[r] = Never
  BY DEF RequestStep, Arrives, Insert, First, Find, Judge, Free, BeginFails, HandlerCreates,
     HandlerFails, RunUntracked, Complete, Release, FinishFails, Dies, Traced, Fresh
<1>3. ASSUME NEW rec \in Records \cup {None}, Known(rec) PROVE Known(rec)'
  <2>1. SUFFICES ASSUME rec # None PROVE Known(rec)'
    BY DEF Known
  <2>2. PICK q \in Requests : began[q] = rec.at
    BY <1>3, <2>1 DEF Known
  <2>3. began[q] # Never
    BY <2>1, <2>2 DEF Records, Never
  <2>4. began'[q] = rec.at
    BY <1>2, <1>t, <2>2, <2>3
  <2> QED BY <1>1, <1>3, <2>1, <2>4 DEF Known
<1>4. Known(record)'
  <2>1. CASE record' = record
    BY <2>1, <1>3, <1>t DEF Traced, Known
  <2>2. CASE record' = None
    BY <2>2 DEF Known
  <2>3. CASE Insert(r) /\ record' = [state |-> "PENDING", at |-> clock, by |-> r]
             /\ began' = [began EXCEPT ![r] = clock]
    <3>1. began'[r] = record'.at /\ record'.state # "DONE"
      BY <2>3, <1>t
    <3> QED BY <3>1 DEF Known
  <2>4. CASE Complete(r) /\ record # None /\ record' = [record EXCEPT !.state = "DONE", !.by = r]
    <3>1. record'.at = record.at /\ record'.by = r
      BY <2>4, <1>t DEF Records
    <3>2. r \in Tracked' /\ began' = began
      BY <2>4, <1>1 DEF Complete, Traced
    <3> QED BY <2>4, <3>1, <3>2 DEF Known, Traced
  <2>5. record' = record \/ record' = None \/ Insert(r) \/ Complete(r)
    BY DEF RequestStep, Arrives, Find, Judge, Free, BeginFails, HandlerCreates,
       HandlerFails, RunUntracked, Release, FinishFails, Dies
  <2>6. Complete(r) => record' = None \/ (record # None /\ record' = [record EXCEPT !.state = "DONE", !.by = r])
    BY DEF Complete
  <2>7. Insert(r) => record' = record \/ (record' = [state |-> "PENDING", at |-> clock, by |-> r]
                                          /\ began' = [began EXCEPT ![r] = clock])
    BY DEF Insert, First
  <2> QED BY <2>1, <2>2, <2>3, <2>4, <2>5, <2>6, <2>7
<1>5. ASSUME NEW q \in Requests
      PROVE  /\ Known(req[q].seen)' /\ (req'[q].pc \in Fresh => began'[q] = Never)
             /\ (req'[q].pc = "judge" => req'[q].seen # None)
             /\ (req'[q].pc = "complete" => q \in Tracked')
  <2>1. CASE q # r
    <3>1. req'[q] = req[q] /\ began'[q] = began[q]
      BY <2>1, <1>2, <1>t, SetsAfter
    <3>2. Known(req[q].seen)'
      BY <3>1, <1>3, <1>t DEF Traced, Known
    <3> QED BY <3>1, <3>2, <1>1 DEF Traced
  <2>2. CASE q = r
    <3>1. req'[r].seen \in {req[r].seen, record, None}
      BY SeenAfter
    <3>2. \A rec \in {req[r].seen, record, None} : Known(rec)'
      BY <1>3, <1>t DEF Traced, Known
    <3>3. Known(req[r].seen)'
      BY <3>1, <3>2 DEF Known
    <3> QED BY <2>2, <3>3, SeenAfter DEF Traced
  <2> QED BY <2>1, <2>2
<1> QED BY <1>4, <1>5 DEF Traced

\* A verdict FREE tells of a request that began at least Timeout ago.
LEMMA FreeIsOverdue ==
  ASSUME TypeOK, Traced, NEW r \in Requests, Judge(r), frees' = frees + 1
  PROVE  \E q \in Requests : began[q] # Never /\ clock - began[q] >= Timeout
PROOF
<1> DEFINE rec == req[r].seen
<1>1. rec \in Records /\ Verdict(rec) = "FREE" /\ clock \in 0..MaxClock /\ frees \in Nat
  BY DEF Judge, TypeOK, Traced
<1>2. PICK q \in Requests : began[q] = rec.at
  BY <1>1 DEF Traced, Known, Judge
<1>3. clock - rec.at >= Timeout /\ rec.at \in 0..MaxClock
  BY <1>1, IdempotencyAssumption DEF Verdict, Records
<1> QED BY <1>2, <1>3 DEF Never

\* A step of a request is a step of CreateOnce, or changes none of its variables.
LEMMA StepImplements ==
  ASSUME TypeOK, Budget, Placed, Traced, NEW r \in Requests, RequestStep(r)
  PROVE  Once!Next \/ UNCHANGED <<clock, began, Permits, Running, created, stray, Replies>>
PROOF
<1>t. /\ starts \in Nat /\ frees \in Nat /\ failures \in Nat /\ Cardinality(Deleting) \in Nat
      /\ began \in [Requests -> 0..MaxClock \cup {Never}]
  BY FiniteRequests DEF TypeOK
<1>1. /\ Running' = IF req'[r].pc = "run" THEN Running \cup {r} ELSE Running \ {r}
      /\ Replies' = IF req'[r].pc = "replayed" THEN Replies \cup {<<r, req'[r].seen.by>>} ELSE Replies
      /\ r \in Running <=> req[r].pc = "run"
  BY SetsAfter DEF Running
<1>2. CASE Insert(r) /\ record = None /\ req'[r].pc = "run" /\ req[r].pc = "insert"
           /\ starts' = starts + 1 /\ UNCHANGED <<clock, failures, frees, created, stray>>
  <2>1. Permits \in Int /\ Permits > 0 /\ Permits' = Permits - 1
    BY <1>2, <1>t DEF Permits, Budget, Exists
  <2>2. began[r] = Never /\ began' = [began EXCEPT ![r] = clock]
    BY <1>2 DEF Traced, Fresh, Insert, First
  <2>3. Once!Begin(r)
    BY <1>1, <1>2, <2>1, <2>2 DEF Once!Begin, Once!Never, Never
  <2> QED BY <2>3 DEF Once!Next
<1>3. CASE Judge(r) /\ req'[r].pc = "free" /\ req[r].pc = "judge" /\ frees' = frees + 1
           /\ UNCHANGED <<clock, began, starts, failures, created, stray>>
  <2>1. Permits' = Permits + 1 /\ Running' = Running /\ Replies' = Replies
    BY <1>1, <1>3, <1>t DEF Permits
  <2>2. Once!Overdue
    BY <1>3, <2>1, FreeIsOverdue DEF Once!Overdue, Once!Never, Never
  <2> QED BY <2>2 DEF Once!Next
<1>4. CASE req[r].pc = "run" /\ req'[r].pc = "complete" /\ created' = created \cup {r}
           /\ UNCHANGED <<clock, began, starts, failures, frees, stray>>
  <2>1. Once!Create(r)
    BY <1>1, <1>4 DEF Once!Create, Permits
  <2> QED BY <2>1 DEF Once!Next
<1>5. CASE req[r].pc = "run" /\ req'[r].pc = "release" /\ failures' = failures + 1
           /\ \/ UNCHANGED <<created, stray>>
              \/ created' = created \cup {r} /\ stray' = stray \cup {r}
           /\ UNCHANGED <<clock, began, starts, frees>>
  <2>1. Permits' = Permits + 1
    BY <1>5, <1>t DEF Permits
  <2>2. Once!Fail(r)
    BY <1>1, <1>5, <2>1 DEF Once!Fail
  <2> QED BY <2>2 DEF Once!Next
<1>6. CASE /\ req'[r].pc \notin {"run", "replayed"}
           /\ UNCHANGED <<clock, began, starts, failures, frees, created, stray>>
  <2>1. Permits' = Permits /\ Replies' = Replies /\ Running' = Running \ {r}
    BY <1>1, <1>6 DEF Permits
  <2>2. CASE r \in Running
    BY <1>6, <2>1, <2>2 DEF Once!Die, Once!Next
  <2> QED BY <1>6, <2>1, <2>2
<1>7. CASE /\ req'[r].pc = "replayed" /\ req[r].pc = "judge" /\ req'[r].seen = req[r].seen
           /\ req[r].seen.state = "DONE"
           /\ UNCHANGED <<clock, began, starts, failures, frees, created, stray>>
  <2>1. began[r] = Never /\ req[r].seen.by \in created \ stray /\ created \subseteq Requests
    BY <1>7 DEF Traced, Fresh, Known, Tracked, TypeOK
  <2>2. Permits' = Permits /\ Running' = Running /\ Replies' = Replies \cup {<<r, req[r].seen.by>>}
    BY <1>1, <1>7 DEF Permits
  <2>3. Once!Reply(r, req[r].seen.by)
    BY <1>7, <2>1, <2>2 DEF Once!Reply, Once!Never, Never
  <2> QED BY <2>1, <2>3 DEF Once!Next
<1>8. CASE /\ req[r].pc \in {"insert", "find", "free"} /\ req'[r].pc = "untracked"
           /\ stray' = stray \cup {r}
           /\ UNCHANGED <<clock, began, starts, failures, frees, created>>
  <2>1. Permits' = Permits /\ Running' = Running /\ Replies' = Replies /\ began[r] = Never
    BY <1>1, <1>8 DEF Permits, Traced, Fresh
  <2>2. Once!Bypass(r)
    BY <1>8, <2>1 DEF Once!Bypass, Once!Never, Never
  <2> QED BY <2>2 DEF Once!Next
<1>9. CASE /\ req[r].pc = "untracked" /\ req'[r].pc = "answered"
           /\ created' \in {created, created \cup {r}}
           /\ UNCHANGED <<clock, began, starts, failures, frees, stray>>
  <2>1. Permits' = Permits /\ Running' = Running /\ Replies' = Replies /\ began[r] = Never /\ r \in stray
    BY <1>1, <1>9 DEF Permits, Traced, Fresh, Placed
  <2>2. CASE created' = created \cup {r}
    <3>1. Once!CreateOutside(r)
      BY <1>9, <2>1, <2>2 DEF Once!CreateOutside, Once!Never, Never
    <3> QED BY <3>1 DEF Once!Next
  <2> QED BY <1>9, <2>1, <2>2
<1> QED BY <1>2, <1>3, <1>4, <1>5, <1>6, <1>7, <1>8, <1>9, StepTable

\* A key keeps what CreateOnce promises, for any number of requests and any
\* timeouts with Timeout <= Ttl.
THEOREM Implements == Spec => KeepsPromise
PROOF
<1>1. Init => Budget /\ Placed /\ Traced /\ Once!Init
  <2> SUFFICES ASSUME Init PROVE Budget /\ Placed /\ Traced /\ Once!Init
    OBVIOUS
  <2>1. Deleting = {} /\ Running = {} /\ Replies = {}
    BY DEF Init, Idle, Deleting, Running, Replies
  <2>2. Budget
    BY <2>1, FS_EmptySet DEF Init, Budget, Exists
  <2>3. Placed /\ Traced
    BY DEF Init, Placed, Traced, Known, Idle, Fresh
  <2>4. Once!Init
    BY <2>1 DEF Init, Once!Init, Once!Never, Never, Permits
  <2> QED BY <2>2, <2>3, <2>4
<1>2. TypeOK /\ Budget /\ Placed /\ Traced /\ [Next]_vars
        => /\ Budget' /\ Placed' /\ Traced'
           /\ [Once!Next]_<<clock, began, Permits, Running, created, stray, Replies>>
  <2> SUFFICES ASSUME TypeOK, Budget, Placed, Traced, [Next]_vars
               PROVE  /\ Budget' /\ Placed' /\ Traced'
                      /\ [Once!Next]_<<clock, began, Permits, Running, created, stray, Replies>>
    OBVIOUS
  <2>1. CASE \E r \in Requests : RequestStep(r)
    BY <2>1, StepBudget, StepPlaced, StepTraced, StepImplements
  <2>2. CASE Tick \/ UNCHANGED vars
    <3>1. UNCHANGED <<record, req, began, starts, failures, frees, created, stray>>
      BY <2>2 DEF Tick, vars
    <3>2. UNCHANGED <<Deleting, Exists, Running, Permits, Replies>>
      BY <3>1 DEF Deleting, Exists, Running, Permits, Replies
    <3>3. Budget' /\ Placed' /\ Traced'
      BY <3>1, <3>2 DEF Budget, Placed, Traced, Known, Tracked
    <3>4. Tick => Once!Next
      BY <3>1, <3>2 DEF Tick, Once!Next, Once!Tick
    <3> QED BY <2>2, <3>1, <3>2, <3>3, <3>4 DEF vars
  <2> QED BY <2>1, <2>2 DEF Next
<1> QED BY <1>1, <1>2, TypeCorrect, PTL DEF Spec, KeepsPromise, Once!Spec
=============================================================================
