----------------------------- MODULE CreateOnce ------------------------------
(***************************************************************************)
(* What an idempotency key promises: a create request with this key runs   *)
(* while the key has a permit.  There is one permit, a run answered with   *)
(* an error gives it back even when it has stored its row, and a new one   *)
(* is issued only when some run began at least Timeout ago.  A repeat is   *)
(* answered with a creation that was answered as one.  Requests that met a *)
(* dead store run outside the promise: they are the ones marked stray.     *)
(***************************************************************************)
EXTENDS Integers

CONSTANTS Requests, Timeout
VARIABLES clock, began, permits, running, created, stray, replies

Never == -1

Init ==
  /\ clock = 0
  /\ began = [r \in Requests |-> Never]
  /\ permits = 1
  /\ running = {}
  /\ created = {} /\ stray = {}
  /\ replies = {}

Begin(r) ==
  /\ permits > 0
  /\ began[r] = Never
  /\ began' = [began EXCEPT ![r] = clock]
  /\ permits' = permits - 1
  /\ running' = running \cup {r}
  /\ UNCHANGED <<clock, created, stray, replies>>

Create(r) ==
  /\ r \in running
  /\ running' = running \ {r}
  /\ created' = created \cup {r}
  /\ UNCHANGED <<clock, began, permits, stray, replies>>

Fail(r) ==
  /\ r \in running
  /\ running' = running \ {r}
  /\ permits' = permits + 1
  /\ \/ UNCHANGED <<created, stray>>
     \/ created' = created \cup {r} /\ stray' = stray \cup {r}
  /\ UNCHANGED <<clock, began, replies>>

Die(r) ==
  /\ r \in running
  /\ running' = running \ {r}
  /\ UNCHANGED <<clock, began, permits, created, stray, replies>>

\* The store is down: a request that holds no permit runs all the same.
Bypass(r) ==
  /\ began[r] = Never
  /\ stray' = stray \cup {r}
  /\ UNCHANGED <<clock, began, permits, running, created, replies>>

CreateOutside(r) ==
  /\ began[r] = Never /\ r \in stray
  /\ created' = created \cup {r}
  /\ UNCHANGED <<clock, began, permits, running, stray, replies>>

Overdue ==
  /\ \E r \in Requests : began[r] # Never /\ clock - began[r] >= Timeout
  /\ permits' = permits + 1
  /\ UNCHANGED <<clock, began, running, created, stray, replies>>

Reply(r, c) ==
  /\ began[r] = Never
  /\ c \in created \ stray
  /\ replies' = replies \cup {<<r, c>>}
  /\ UNCHANGED <<clock, began, permits, running, created, stray>>

Tick ==
  /\ clock' = clock + 1
  /\ UNCHANGED <<began, permits, running, created, stray, replies>>

Next ==
  \/ \E r \in Requests : \/ Begin(r) \/ Create(r) \/ Fail(r) \/ Die(r)
                         \/ Bypass(r) \/ CreateOutside(r)
                         \/ \E c \in Requests : Reply(r, c)
  \/ Overdue
  \/ Tick

Spec == Init /\ [][Next]_<<clock, began, permits, running, created, stray, replies>>
=============================================================================
