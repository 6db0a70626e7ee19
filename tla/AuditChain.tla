----------------------------- MODULE AuditChain ------------------------------
(***************************************************************************)
(* The audit trail of one tenant: requests of any process append events,   *)
(* each linked to the one before it, under an advisory lock; their clocks  *)
(* differ and their transactions may be rolled back at any statement.  A   *)
(* platform administrator may delete the trail meanwhile, without the lock.*)
(* An event is identified by a number, which stands for its hash as well.  *)
(***************************************************************************)
EXTENDS Integers, FiniteSets

CONSTANTS
  Writers,    \* slots of requests appending at the same time
  MaxEvents,  \* bound: identifiers of events
  MaxTime,    \* bound: what a clock may show
  MaxPurges   \* bound: deletions of the trail that are committed

ASSUME AuditAssumption ==
  /\ "nobody" \notin Writers
  /\ {MaxEvents, MaxTime, MaxPurges} \subseteq Nat

VARIABLES
  rows,    \* AuditEvent rows of the tenant
  lock,    \* who holds the advisory lock of the tenant
  writer,  \* local state of each appending request
  purge,   \* the deletion under way and the rows it has found
  purged,  \* deletions committed
  used     \* identifiers drawn so far

vars == <<rows, lock, writer, purge, purged, used>>

Ids     == 1..MaxEvents
Genesis == 0
\* An event, the link it stores, and the events that were recorded before
\* anybody asked for this one: of these, the last is known to properties only.
Rows    == [id : Ids, at : Nat, prev : {Genesis} \cup Ids, seen : SUBSET Ids]
NoHead  == [id |-> Genesis, at |-> 0]
Heads   == [id : {Genesis} \cup Ids, at : Nat]
Idle    == [pc |-> "idle", id |-> Genesis, seen |-> {}, head |-> NoHead]

\* The order in which the trail is read: by time, then by identifier.
Before(r, s) == r.at < s.at \/ (r.at = s.at /\ r.id < s.id)
Newest(S)    == CHOOSE r \in S : \A s \in S : s = r \/ Before(s, r)
Later(a, b)  == IF a > b THEN a ELSE b
Recorded     == {r.id : r \in rows}

Ends(p) == writer' = [writer EXCEPT ![p] = Idle]

-----------------------------------------------------------------------------
(* PrismaAuditRepository *)

Record(p) ==
  /\ writer[p].pc = "idle"
  /\ \E i \in Ids \ used :
       /\ used' = used \cup {i}
       /\ writer' = [writer EXCEPT ![p] = [Idle EXCEPT !.pc = "wait", !.id = i, !.seen = Recorded]]
  /\ UNCHANGED <<rows, lock, purge, purged>>

\* Wrong: the lock is not waited for.
LockNever(p) ==
  /\ writer[p].pc = "wait"
  /\ lock' = p
  /\ writer' = [writer EXCEPT ![p].pc = "read"]
  /\ UNCHANGED <<rows, purge, purged, used>>

Lock(p) ==
  /\ writer[p].pc = "wait" /\ lock = "nobody"
  /\ lock' = p
  /\ writer' = [writer EXCEPT ![p].pc = "read"]
  /\ UNCHANGED <<rows, purge, purged, used>>

\* getChainHead()
ReadHead(p) ==
  /\ writer[p].pc = "read"
  /\ LET head == IF rows = {} THEN NoHead
                 ELSE [id |-> Newest(rows).id, at |-> Newest(rows).at]
     IN  writer' = [writer EXCEPT ![p] = [@ EXCEPT !.pc = "insert", !.head = head]]
  /\ UNCHANGED <<rows, lock, purge, purged, used>>

\* Wrong: the row gets the time of the process that writes it.
InsertByClock(p) ==
  /\ writer[p].pc = "insert"
  /\ \E now \in 0..MaxTime :
       rows' = rows \cup {[id |-> writer[p].id, at |-> now, prev |-> writer[p].head.id,
                           seen |-> writer[p].seen]}
  /\ lock' = "nobody"
  /\ Ends(p)
  /\ UNCHANGED <<purge, purged, used>>

\* Wrong: one millisecond the wrong way.
InsertEarly(p) ==
  /\ writer[p].pc = "insert"
  /\ \E now \in 0..MaxTime :
       rows' = rows \cup {[id |-> writer[p].id, at |-> Later(now, writer[p].head.at) - 1,
                           prev |-> writer[p].head.id, seen |-> writer[p].seen]}
  /\ lock' = "nobody"
  /\ Ends(p)
  /\ UNCHANGED <<purge, purged, used>>

\* The row is inserted by the clock of this process, but after the head, and
\* seen by others at the commit, which gives the lock back.
Insert(p) ==
  /\ writer[p].pc = "insert"
  /\ \E now \in 0..MaxTime :
       rows' = rows \cup {[id |-> writer[p].id, at |-> Later(now, writer[p].head.at + 1),
                           prev |-> writer[p].head.id, seen |-> writer[p].seen]}
  /\ lock' = "nobody"
  /\ Ends(p)
  /\ UNCHANGED <<purge, purged, used>>

\* Wrong: the lock is a session's and is kept.
RollbackKeepsLock(p) ==
  /\ writer[p].pc # "idle"
  /\ Ends(p)
  /\ UNCHANGED <<rows, lock, purge, purged, used>>

\* A statement fails, the transaction takes too long or the process dies.
Rollback(p) ==
  /\ writer[p].pc # "idle"
  /\ lock' = IF lock = p THEN "nobody" ELSE lock
  /\ Ends(p)
  /\ UNCHANGED <<rows, purge, purged, used>>

-----------------------------------------------------------------------------
(* PlatformControlPlane.forceDeleteTenant(), with the audit category *)

\* Its DELETE finds the rows committed so far ...
PurgeFinds ==
  /\ purge.pc = "idle" /\ purged < MaxPurges
  /\ purge' = [pc |-> "delete", doomed |-> rows]
  /\ UNCHANGED <<rows, lock, writer, purged, used>>

\* ... others see them gone when the transaction over all tables commits.
PurgeCommits ==
  /\ purge.pc = "delete"
  /\ rows' = rows \ purge.doomed
  /\ purged' = purged + 1
  /\ purge' = [pc |-> "idle", doomed |-> {}]
  /\ UNCHANGED <<lock, writer, used>>

PurgeFails ==
  /\ purge.pc = "delete"
  /\ purge' = [pc |-> "idle", doomed |-> {}]
  /\ UNCHANGED <<rows, lock, writer, purged, used>>

-----------------------------------------------------------------------------
Init ==
  /\ rows = {}
  /\ lock = "nobody"
  /\ writer = [p \in Writers |-> Idle]
  /\ purge = [pc |-> "idle", doomed |-> {}] /\ purged = 0
  /\ used = {}

Next ==
  \/ \E p \in Writers : Record(p) \/ Lock(p) \/ ReadHead(p) \/ Insert(p) \/ Rollback(p)
  \/ PurgeFinds \/ PurgeCommits \/ PurgeFails

\* The database gives a free lock to one of those that wait for it, and its
\* holder goes on or is rolled back.
Spec == /\ Init /\ [][Next]_vars
        /\ \A p \in Writers : SF_vars(Lock(p)) /\ WF_vars(ReadHead(p)) /\ WF_vars(Insert(p))

-----------------------------------------------------------------------------
(* What holds *)

TypeOK ==
  /\ rows \subseteq Rows
  /\ lock \in Writers \cup {"nobody"}
  /\ writer \in [Writers -> [pc : {"idle", "wait", "read", "insert"}, id : {Genesis} \cup Ids,
                             seen : SUBSET Ids, head : Heads]]
  /\ purge \in [pc : {"idle", "delete"}, doomed : SUBSET Rows]
  /\ purged \in Nat
  /\ used \subseteq Ids

\* verifyChain() accepts a trail that nobody deleted from: read in order, each
\* event links to the one before it and the first to nothing, however appends,
\* clocks and rollbacks fall.  Of a trail that was deleted meanwhile only the
\* first event left may link to one that is gone.
ChainVerifies ==
  \A r \in rows :
    LET earlier == {s \in rows : Before(s, r)}
    IN  IF earlier = {} THEN r.prev = Genesis \/ purged > 0
        ELSE r.prev = Newest(earlier).id

\* Clocks that differ never turn events round: one that was recorded before
\* another was asked for is read before it.
RecordedInOrder ==
  \A r, s \in rows : s.id \in r.seen => Before(s, r)

\* The trail as it is read, in which order, and what each event links to.
ReadOrder == {o \in Ids \X Ids : \E r, s \in rows : o = <<r.id, s.id>> /\ Before(r, s)}
Links     == {<<r.id, r.prev>> : r \in rows}
Trail     == INSTANCE AuditTrail WITH Events <- Ids, trail <- Recorded, before <- ReadOrder,
                                      links <- Links, cut <- (purged > 0)

\* Every step of the writers, the lock and the deletion adds one event at the
\* end of the trail, deletes its start, or cannot be seen in it at all: no
\* event is ever put between two others, changed or lost by itself.
KeepsTrail == Trail!Spec

\* Nobody waits for ever: an append ends, written or rolled back, whatever
\* happened to the one that held the lock before it.
AppendsEnd ==
  \A p \in Writers : writer[p].pc = "wait" ~> writer[p].pc = "idle"
=============================================================================
