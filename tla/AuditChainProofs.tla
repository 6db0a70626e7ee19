-------------------------- MODULE AuditChainProofs ---------------------------
(***************************************************************************)
(* Theorems about AuditChain, for any number of writers, events, deletions *)
(* and any clocks.                                                         *)
(***************************************************************************)
EXTENDS AuditChain, TLAPS

Busy(p) == writer[p].pc # "idle"

\* An event under way is not in the trail, and nothing there knows of it.
Unknown ==
  /\ \A r \in rows : r.id \in used /\ r.seen \subseteq used
  /\ \A p \in Writers : writer[p].seen \subseteq used
  /\ \A p \in Writers : Busy(p) =>
       /\ writer[p].id \in used /\ writer[p].id # Genesis
       /\ \A r \in rows : r.id # writer[p].id /\ writer[p].id \notin r.seen
       /\ \A q \in Writers : /\ writer[p].id \notin writer[q].seen
                             /\ q # p /\ Busy(q) => writer[q].id # writer[p].id

Held == \A p \in Writers : writer[p].pc \in {"read", "insert"} => lock = p

\* No two events have one time, and one is the last.
Dated ==
  /\ \A r, s \in rows : r.at = s.at => r = s
  /\ rows # {} => \E t \in rows : \A r \in rows : r.at <= t.at

\* The event before another: time alone decides.
Follows(r, s) == s.at < r.at /\ \A t \in rows : t.at < r.at => t.at <= s.at
Linked ==
  \A r \in rows :
    \/ (\A s \in rows : ~ (s.at < r.at)) /\ (r.prev = Genesis \/ purged > 0)
    \/ \E s \in rows : Follows(r, s) /\ r.prev = s.id

Ordered == \A r, s \in rows : s.id \in r.seen => s.at < r.at

\* What the holder of the lock has read is still the end of the trail, unless
\* the trail was deleted.
Ready ==
  \A p \in Writers : writer[p].pc = "insert" =>
    /\ \A r \in rows : r.at <= writer[p].head.at
    /\ rows # {} => \E r \in rows : r.id = writer[p].head.id /\ r.at = writer[p].head.at
    /\ rows = {} => writer[p].head.id = Genesis \/ purged > 0

\* A deletion has found the events up to some time.
Doomed == purge.pc = "delete" =>
  /\ purge.doomed \subseteq rows
  /\ \A r, s \in rows : r \notin purge.doomed /\ s \in purge.doomed => s.at < r.at

Inv == TypeOK /\ Unknown /\ Held /\ Dated /\ Linked /\ Ordered /\ Ready /\ Doomed

-----------------------------------------------------------------------------
(* The events stay and a writer goes on *)

LEMMA IdleTyped ==
  Idle \in [pc : {"idle", "wait", "read", "insert"}, id : {Genesis} \cup Ids,
            seen : SUBSET Ids, head : Heads]
PROOF BY DEF Idle, NoHead, Heads, Genesis

LEMMA WriterStep ==
  ASSUME Inv, NEW p \in Writers,
         NEW k \in [pc : {"idle", "wait", "read", "insert"}, id : {Genesis} \cup Ids,
                    seen : SUBSET Ids, head : Heads],
         writer' = [writer EXCEPT ![p] = k], UNCHANGED <<rows, purge, purged>>,
         used' \in SUBSET Ids, used \subseteq used', lock' \in Writers \cup {"nobody"},
         Held',
         \/ k.seen \subseteq writer[p].seen /\ (k.pc # "idle" => Busy(p) /\ k.id = writer[p].id)
         \/ k.seen \subseteq Recorded /\ k.id \in used' \ used /\ k.id # Genesis,
         k.pc = "insert" =>
           /\ \A r \in rows : r.at <= k.head.at
           /\ rows # {} => \E r \in rows : r.id = k.head.id /\ r.at = k.head.at
           /\ rows = {} => k.head.id = Genesis \/ purged > 0
  PROVE  Inv'
PROOF
<1>1. TypeOK /\ rows' = rows /\ purge' = purge /\ purged' = purged
  BY DEF Inv
<1>2. \A q \in Writers : writer'[q] = IF q = p THEN k ELSE writer[q]
  BY <1>1 DEF TypeOK
<1>3. TypeOK'
  BY <1>1 DEF TypeOK
<1>4. Dated' /\ Linked' /\ Ordered' /\ Doomed'
  BY <1>1 DEF Inv, Dated, Linked, Follows, Ordered, Doomed
<1>5. Unknown'
  <2>0. /\ k.seen \subseteq used
        /\ \A q \in Writers : Busy(q) => writer[q].id \notin k.seen
    BY DEF Inv, Unknown, Recorded
  <2>1. /\ \A r \in rows : r.id \in used' /\ r.seen \subseteq used'
        /\ \A q \in Writers : writer'[q].seen \subseteq used'
    BY <2>0, <1>2 DEF Inv, Unknown
  <2>2. ASSUME NEW q \in Writers, writer'[q].pc # "idle"
        PROVE  /\ writer'[q].id \in used' /\ writer'[q].id # Genesis
               /\ \A r \in rows : r.id # writer'[q].id /\ writer'[q].id \notin r.seen
               /\ \A w \in Writers : /\ writer'[q].id \notin writer'[w].seen
                                     /\ w # q /\ writer'[w].pc # "idle" => writer'[w].id # writer'[q].id
    <3>1. CASE q = p /\ k.id \in used' \ used /\ k.id # Genesis
      <4>1. writer'[q].id = k.id /\ k.id \notin used
        BY <3>1, <1>2
      <4>2. \A w \in Writers : writer'[w].seen \subseteq used /\ (w # q /\ writer'[w].pc # "idle" => writer'[w].id \in used)
        BY <2>0, <3>1, <1>2 DEF Inv, Unknown, Busy
      <4> QED BY <3>1, <4>1, <4>2 DEF Inv, Unknown
    <3>2. CASE ~ (q = p /\ k.id \in used' \ used /\ k.id # Genesis)
      <4>1. Busy(q) /\ writer'[q].id = writer[q].id
        BY <3>2, <2>2, <1>2 DEF Busy
      <4>2. ASSUME NEW w \in Writers
            PROVE  /\ writer[q].id \notin writer'[w].seen
                   /\ w # q /\ writer'[w].pc # "idle" => writer'[w].id # writer[q].id
        <5>1. writer[q].id \in used /\ writer[q].id \notin writer[w].seen
          BY <4>1 DEF Inv, Unknown
        <5>2. CASE w # p
          BY <5>1, <5>2, <4>1, <1>2 DEF Inv, Unknown, Busy
        <5>3. CASE w = p
          <6>1. writer'[w] = k /\ writer[q].id \notin k.seen
            BY <5>3, <4>1, <2>0, <1>2
          <6>2. ASSUME w # q, k.pc # "idle" PROVE k.id # writer[q].id
            BY <5>1, <5>3, <6>2, <4>1 DEF Inv, Unknown
          <6> QED BY <6>1, <6>2
        <5> QED BY <5>2, <5>3
      <4>3. /\ writer[q].id \in used' /\ writer[q].id # Genesis
            /\ \A r \in rows : r.id # writer[q].id /\ writer[q].id \notin r.seen
        BY <4>1 DEF Inv, Unknown
      <4> QED BY <4>1, <4>2, <4>3
    <3> QED BY <3>1, <3>2
  <2> QED BY <2>1, <2>2, <1>1 DEF Unknown, Busy
<1>6. Ready'
  BY <1>1, <1>2 DEF Inv, Ready
<1> QED BY <1>3, <1>4, <1>5, <1>6 DEF Inv

LEMMA RecordStep ==
  ASSUME Inv, NEW p \in Writers, Record(p)
  PROVE  Inv'
PROOF
<1>1. PICK i \in Ids \ used :
        /\ used' = used \cup {i}
        /\ writer' = [writer EXCEPT ![p] = [Idle EXCEPT !.pc = "wait", !.id = i, !.seen = Recorded]]
  BY DEF Record
<1> DEFINE k == [Idle EXCEPT !.pc = "wait", !.id = i, !.seen = Recorded]
<1>2. TypeOK /\ Recorded \in SUBSET Ids /\ i # Genesis
  BY DEF Inv, TypeOK, Recorded, Rows, Ids, Genesis
<1>3. /\ k \in [pc : {"idle", "wait", "read", "insert"}, id : {Genesis} \cup Ids,
                seen : SUBSET Ids, head : Heads]
      /\ k.pc = "wait" /\ k.id = i /\ k.seen = Recorded
  BY <1>2, IdleTyped DEF Idle
<1>4. Held'
  BY <1>1, <1>2 DEF Inv, Held, TypeOK, Record
<1>5. /\ UNCHANGED <<rows, purge, purged>> /\ lock' \in Writers \cup {"nobody"}
      /\ used' \in SUBSET Ids /\ used \subseteq used' /\ i \in used' \ used
  BY <1>1, <1>2 DEF TypeOK, Record
<1> HIDE DEF k
<1> QED BY <1>1, <1>2, <1>3, <1>4, <1>5, WriterStep DEF k

LEMMA LockStep ==
  ASSUME Inv, NEW p \in Writers, Lock(p)
  PROVE  Inv'
PROOF
<1> DEFINE k == [writer[p] EXCEPT !.pc = "read"]
<1>1. TypeOK /\ writer' = [writer EXCEPT ![p] = k] /\ Busy(p)
  BY DEF Inv, Lock, Busy
<1>2. /\ k \in [pc : {"idle", "wait", "read", "insert"}, id : {Genesis} \cup Ids,
                seen : SUBSET Ids, head : Heads]
      /\ k.pc = "read" /\ k.id = writer[p].id /\ k.seen = writer[p].seen
  BY <1>1 DEF TypeOK
<1>3. Held'
  <2>1. \A q \in Writers : writer[q].pc \notin {"read", "insert"}
    BY AuditAssumption DEF Inv, Held, Lock
  <2> QED BY <2>1, <1>1 DEF Held, Lock, TypeOK
<1>4. /\ UNCHANGED <<rows, purge, purged>> /\ lock' \in Writers \cup {"nobody"}
      /\ used' \in SUBSET Ids /\ used \subseteq used'
  BY <1>1 DEF TypeOK, Lock
<1> HIDE DEF k
<1> QED BY <1>1, <1>2, <1>3, <1>4, WriterStep

\* The head is the last event: reading under the lock finds it.
LEMMA HeadIsLast ==
  ASSUME TypeOK, Dated, rows # {}
  PROVE  Newest(rows) \in rows /\ \A r \in rows : r.at <= Newest(rows).at
PROOF
<1>1. PICK t \in rows : \A r \in rows : r.at <= t.at
  BY DEF Dated
<1>2. \A r \in rows : r.at \in Nat
  BY DEF TypeOK, Rows
<1>3. \A r \in rows : r = t \/ Before(r, t)
  BY <1>1, <1>2 DEF Dated, Before
<1>4. Newest(rows) \in rows /\ \A r \in rows : r = Newest(rows) \/ Before(r, Newest(rows))
  BY <1>1, <1>3 DEF Newest
<1> QED BY <1>4, <1>2 DEF Before

LEMMA ReadHeadStep ==
  ASSUME Inv, NEW p \in Writers, ReadHead(p)
  PROVE  Inv'
PROOF
<1> DEFINE head == IF rows = {} THEN NoHead ELSE [id |-> Newest(rows).id, at |-> Newest(rows).at]
           k    == [writer[p] EXCEPT !.pc = "insert", !.head = head]
<1>1. TypeOK /\ writer' = [writer EXCEPT ![p] = k] /\ Busy(p)
  BY DEF Inv, ReadHead, Busy
<1>2. /\ head \in Heads
      /\ \A r \in rows : r.at <= head.at
      /\ rows # {} => \E r \in rows : r.id = head.id /\ r.at = head.at
      /\ rows = {} => head.id = Genesis
  <2>1. CASE rows = {}
    BY <2>1 DEF NoHead, Heads
  <2>2. CASE rows # {}
    <3>1. Newest(rows) \in rows /\ Newest(rows) \in Rows /\ \A r \in rows : r.at <= Newest(rows).at
      BY <2>2, <1>1, HeadIsLast DEF Inv, TypeOK
    <3> QED BY <3>1, <2>2 DEF Heads, Rows
  <2> QED BY <2>1, <2>2
<1> HIDE DEF head
<1>3. /\ k \in [pc : {"idle", "wait", "read", "insert"}, id : {Genesis} \cup Ids,
                seen : SUBSET Ids, head : Heads]
      /\ k.id = writer[p].id /\ k.seen = writer[p].seen /\ k.head = head
  BY <1>1, <1>2 DEF TypeOK
<1>4. Held'
  BY <1>1 DEF Inv, Held, ReadHead, TypeOK
<1>5. /\ UNCHANGED <<rows, purge, purged>> /\ lock' \in Writers \cup {"nobody"}
      /\ used' \in SUBSET Ids /\ used \subseteq used'
  BY <1>1 DEF TypeOK, ReadHead
<1> HIDE DEF k
<1> QED BY <1>1, <1>2, <1>3, <1>4, <1>5, WriterStep

LEMMA RollbackStep ==
  ASSUME Inv, NEW p \in Writers, Rollback(p)
  PROVE  Inv'
PROOF
<1>1. TypeOK /\ writer' = [writer EXCEPT ![p] = Idle]
  BY DEF Inv, Rollback, Ends
<1>2. Idle.pc = "idle" /\ Idle.seen = {}
  BY DEF Idle
<1>3. Held'
  BY <1>1, <1>2 DEF Inv, Held, Rollback, TypeOK
<1>4. /\ UNCHANGED <<rows, purge, purged>> /\ lock' \in Writers \cup {"nobody"}
      /\ used' \in SUBSET Ids /\ used \subseteq used'
  BY <1>1 DEF TypeOK, Rollback
<1> QED BY <1>1, <1>2, <1>3, <1>4, IdleTyped, WriterStep

-----------------------------------------------------------------------------
(* The trail grows at its end and is deleted from its start *)

LEMMA InsertStep ==
  ASSUME Inv, NEW p \in Writers, Insert(p)
  PROVE  Inv'
PROOF
<1> DEFINE w == writer[p]
<1>1. /\ TypeOK /\ w.pc = "insert" /\ lock' = "nobody" /\ writer' = [writer EXCEPT ![p] = Idle]
      /\ purge' = purge /\ purged' = purged /\ used' = used
  BY DEF Inv, Insert, Ends
<1>2. /\ w.id \in Ids /\ w.id \in used /\ w.seen \in SUBSET Ids /\ w.head.at \in Nat
      /\ w.head.id \in {Genesis} \cup Ids /\ w.seen \subseteq used
      /\ \A q \in Writers : w.id \notin writer[q].seen
      /\ \A r \in rows : r.id # w.id /\ w.id \notin r.seen
      /\ \A r \in rows : r.at \in Nat /\ r.at <= w.head.at
  <2>1. Busy(p) /\ w.id \in {Genesis} \cup Ids /\ w.seen \in SUBSET Ids /\ w.head \in Heads
    BY <1>1 DEF TypeOK, Busy
  <2>2. \A r \in rows : r.at \in Nat
    BY <1>1 DEF TypeOK, Rows
  <2> QED BY <1>1, <2>1, <2>2 DEF Inv, Unknown, Ready, Heads
<1>3. PICK now \in 0..MaxTime :
        rows' = rows \cup {[id |-> w.id, at |-> Later(now, w.head.at + 1), prev |-> w.head.id,
                            seen |-> w.seen]}
  BY DEF Insert
<1>4. PICK n : n = [id |-> w.id, at |-> Later(now, w.head.at + 1), prev |-> w.head.id, seen |-> w.seen]
  OBVIOUS
<1>5. Later(now, w.head.at + 1) \in Nat /\ Later(now, w.head.at + 1) > w.head.at
  BY <1>2, AuditAssumption DEF Later
<1>6. /\ rows' = rows \cup {n} /\ n \in Rows /\ n.id = w.id /\ n.prev = w.head.id /\ n.seen = w.seen
      /\ n.at \in Nat /\ \A r \in rows : r.at < n.at
  BY <1>2, <1>3, <1>4, <1>5 DEF Rows
<1>7. \A q \in Writers : writer'[q] = IF q = p THEN Idle ELSE writer[q]
  BY <1>1 DEF TypeOK
<1>8. \A q \in Writers : q # p => writer[q].pc \notin {"read", "insert"}
  BY <1>1 DEF Inv, Held
<1>9. Idle.pc = "idle" /\ Idle.seen = {}
  BY DEF Idle
<1>10. TypeOK'
  BY <1>1, <1>6, IdleTyped DEF TypeOK
<1>11. Held' /\ Ready'
  BY <1>7, <1>8, <1>9 DEF Held, Ready
<1>12. Unknown'
  <2>1. \A r \in rows' : r.id \in used' /\ r.seen \subseteq used'
    BY <1>1, <1>2, <1>6 DEF Inv, Unknown
  <2>2. \A q \in Writers : writer'[q].seen \subseteq used' /\ writer'[q].seen \subseteq writer[q].seen
    BY <1>1, <1>7, <1>9 DEF Inv, Unknown
  <2>3. ASSUME NEW q \in Writers, writer'[q].pc # "idle"
        PROVE  /\ writer'[q].id \in used' /\ writer'[q].id # Genesis
               /\ \A r \in rows' : r.id # writer'[q].id /\ writer'[q].id \notin r.seen
               /\ \A v \in Writers : /\ writer'[q].id \notin writer'[v].seen
                                     /\ v # q /\ writer'[v].pc # "idle" => writer'[v].id # writer'[q].id
    <3>1. q # p /\ writer'[q] = writer[q] /\ Busy(q) /\ Busy(p)
      BY <2>3, <1>1, <1>7, <1>9 DEF Busy
    <3>2. /\ writer[q].id \in used /\ writer[q].id # Genesis
          /\ \A r \in rows : r.id # writer[q].id /\ writer[q].id \notin r.seen
          /\ writer[q].id # w.id /\ writer[q].id \notin w.seen
      BY <3>1 DEF Inv, Unknown
    <3>3. \A v \in Writers : /\ writer[q].id \notin writer[v].seen
                             /\ v # q /\ Busy(v) => writer[v].id # writer[q].id
      BY <3>1 DEF Inv, Unknown
    <3>4. \A v \in Writers : writer'[v].pc # "idle" => Busy(v) /\ writer'[v] = writer[v]
      BY <1>7, <1>9 DEF Busy
    <3>5. \A r \in rows' : r.id # writer[q].id /\ writer[q].id \notin r.seen
      BY <3>2, <1>6
    <3>6. ASSUME NEW v \in Writers
          PROVE  /\ writer[q].id \notin writer'[v].seen
                 /\ v # q /\ writer'[v].pc # "idle" => writer'[v].id # writer[q].id
      <4>1. writer'[v].seen \subseteq writer[v].seen
        BY <2>2
      <4>2. writer[q].id \notin writer'[v].seen
        BY <4>1, <3>3
      <4> QED BY <4>2, <3>3, <3>4
    <3> QED BY <1>1, <3>1, <3>2, <3>5, <3>6
  <2> QED BY <2>1, <2>2, <2>3 DEF Unknown, Busy
<1>13. Dated'
  <2>1. \A r, s \in rows' : r.at = s.at => r = s
    BY <1>2, <1>6 DEF Inv, Dated
  <2>2. \A r \in rows' : r.at <= n.at
    BY <1>2, <1>6
  <2> QED BY <2>1, <2>2, <1>6 DEF Dated
<1>14. Linked'
  <2>1. ASSUME NEW r \in rows
        PROVE  \/ (\A s \in rows' : ~ (s.at < r.at)) /\ (r.prev = Genesis \/ purged > 0)
               \/ \E s \in rows' : /\ s.at < r.at /\ \A t \in rows' : t.at < r.at => t.at <= s.at
                                   /\ r.prev = s.id
    <3>1. ~ (n.at < r.at)
      BY <1>2, <1>6
    <3> QED BY <3>1, <1>6 DEF Inv, Linked, Follows
  <2>2. CASE rows = {}
    BY <2>1, <2>2, <1>1, <1>6 DEF Inv, Ready, Linked, Follows
  <2>3. CASE rows # {}
    <3>1. PICK h \in rows : h.id = w.head.id /\ h.at = w.head.at
      BY <2>3, <1>1 DEF Inv, Ready
    <3>2. h.at < n.at /\ \A t \in rows' : t.at < n.at => t.at <= h.at
      BY <3>1, <1>2, <1>6
    <3> QED BY <2>1, <3>1, <3>2, <1>1, <1>6 DEF Linked, Follows
  <2> QED BY <2>2, <2>3
<1>15. Ordered'
  BY <1>2, <1>6 DEF Inv, Ordered
<1>16. Doomed'
  <2>1. purge.pc = "delete" => purge.doomed \subseteq rows /\ purge.doomed \subseteq rows'
    BY <1>6 DEF Inv, Doomed
  <2>2. ASSUME purge.pc = "delete", NEW r \in rows', NEW s \in rows', r \notin purge.doomed, s \in purge.doomed
        PROVE  s.at < r.at
    <3>1. CASE r \in rows /\ s \in rows
      BY <2>2, <3>1 DEF Inv, Doomed
    <3>2. CASE r = n /\ s \in rows
      BY <3>2, <1>6
    <3>3. CASE s = n
      <4>1. n \in rows
        BY <2>1, <2>2, <3>3
      <4> QED BY <4>1, <1>2, <1>6
    <3> QED BY <3>1, <3>2, <3>3, <1>6
  <2> QED BY <2>1, <2>2, <1>1 DEF Doomed
<1> QED BY <1>10, <1>11, <1>12, <1>13, <1>14, <1>15, <1>16 DEF Inv

LEMMA PurgeFindsStep ==
  ASSUME Inv, PurgeFinds \/ PurgeFails
  PROVE  Inv'
PROOF
<1>1. /\ rows' = rows /\ lock' = lock /\ writer' = writer /\ purged' = purged /\ used' = used
      /\ \/ purge' = [pc |-> "delete", doomed |-> rows]
         \/ purge' = [pc |-> "idle", doomed |-> {}]
  BY DEF PurgeFinds, PurgeFails
<1>2. TypeOK'
  BY <1>1 DEF Inv, TypeOK
<1>3. Unknown' /\ Held' /\ Dated' /\ Linked' /\ Ordered' /\ Ready'
  BY <1>1 DEF Inv, Unknown, Busy, Held, Dated, Linked, Follows, Ordered, Ready
<1>4. Doomed'
  BY <1>1 DEF Doomed
<1> QED BY <1>2, <1>3, <1>4 DEF Inv

LEMMA PurgeCommitsStep ==
  ASSUME Inv, PurgeCommits
  PROVE  Inv'
PROOF
<1>1. /\ purge.pc = "delete" /\ rows' = rows \ purge.doomed /\ purged' = purged + 1
      /\ purge' = [pc |-> "idle", doomed |-> {}] /\ lock' = lock /\ writer' = writer /\ used' = used
  BY DEF PurgeCommits
<1>2. TypeOK' /\ purged' > 0 /\ rows' \subseteq rows /\ \A r \in rows : r.at \in Nat
  BY <1>1 DEF Inv, TypeOK, Rows
<1>3. \A r \in rows', s \in rows \ rows' : s.at < r.at
  BY <1>1 DEF Inv, Doomed
<1>4. Unknown' /\ Held' /\ Ordered' /\ Doomed'
  BY <1>1, <1>2 DEF Inv, Unknown, Busy, Held, Ordered, Doomed
<1>5. Dated'
  <2>1. ASSUME rows' # {} PROVE \E t \in rows' : \A r \in rows' : r.at <= t.at
    <3>1. PICK t \in rows : \A r \in rows : r.at <= t.at
      BY <2>1, <1>2 DEF Inv, Dated
    <3>2. t \in rows'
      BY <2>1, <3>1, <1>2, <1>3
    <3> QED BY <3>1, <3>2, <1>2
  <2> QED BY <2>1, <1>2 DEF Inv, Dated
<1>6. Linked'
  <2>1. ASSUME NEW r \in rows'
        PROVE  \/ (\A s \in rows' : ~ (s.at < r.at)) /\ (r.prev = Genesis \/ purged' > 0)
               \/ \E s \in rows' : /\ s.at < r.at /\ \A t \in rows' : t.at < r.at => t.at <= s.at
                                   /\ r.prev = s.id
    <3>1. CASE \A s \in rows' : ~ (s.at < r.at)
      BY <3>1, <1>2
    <3>2. CASE \E s \in rows' : s.at < r.at
      <4>1. PICK u \in rows' : u.at < r.at
        BY <3>2
      <4>2. PICK s \in rows : Follows(r, s) /\ r.prev = s.id
        BY <4>1, <1>2 DEF Inv, Linked
      <4>3. u.at <= s.at
        BY <4>1, <4>2, <1>2 DEF Follows
      <4>4. s \in rows'
        BY <4>1, <4>3, <1>2, <1>3
      <4> QED BY <4>2, <4>4, <1>2 DEF Follows
    <3> QED BY <3>1, <3>2
  <2> QED BY <2>1 DEF Linked, Follows
<1>7. Ready'
  <2>1. ASSUME NEW p \in Writers, writer[p].pc = "insert"
        PROVE  /\ \A r \in rows' : r.at <= writer[p].head.at
               /\ rows' # {} => \E r \in rows' : r.id = writer[p].head.id /\ r.at = writer[p].head.at
    <3>1. \A r \in rows : r.at <= writer[p].head.at
      BY <2>1 DEF Inv, Ready
    <3>2. ASSUME rows' # {} PROVE \E r \in rows' : r.id = writer[p].head.id /\ r.at = writer[p].head.at
      <4>1. PICK h \in rows : h.id = writer[p].head.id /\ h.at = writer[p].head.at
        BY <2>1, <3>2, <1>2 DEF Inv, Ready
      <4>2. PICK u \in rows' : TRUE
        BY <3>2
      <4>3. u.at <= h.at
        BY <3>1, <4>1, <1>2
      <4>4. h \in rows'
        BY <4>3, <1>2, <1>3
      <4> QED BY <4>1, <4>4
    <3> QED BY <3>1, <3>2, <1>2
  <2> QED BY <2>1, <1>1, <1>2 DEF Ready
<1> QED BY <1>2, <1>4, <1>5, <1>6, <1>7 DEF Inv

-----------------------------------------------------------------------------
(* The theorems *)

LEMMA InitInv == Init => Inv
PROOF
<1> SUFFICES ASSUME Init PROVE Inv
  OBVIOUS
<1>1. TypeOK
  BY IdleTyped DEF Init, TypeOK
<1>2. \A p \in Writers : writer[p].pc = "idle" /\ writer[p].seen = {}
  BY DEF Init, Idle
<1>3. Unknown /\ Held /\ Ready
  BY <1>2 DEF Init, Unknown, Busy, Held, Ready
<1>4. Dated /\ Linked /\ Ordered /\ Doomed
  BY DEF Init, Dated, Linked, Ordered, Doomed
<1> QED BY <1>1, <1>3, <1>4 DEF Inv

LEMMA NextInv == Inv /\ [Next]_vars => Inv'
PROOF
<1> SUFFICES ASSUME Inv, [Next]_vars PROVE Inv'
  OBVIOUS
<1>1. ASSUME NEW p \in Writers, Record(p) PROVE Inv'
  BY <1>1, RecordStep
<1>2. ASSUME NEW p \in Writers, Lock(p) PROVE Inv'
  BY <1>2, LockStep
<1>3. ASSUME NEW p \in Writers, ReadHead(p) PROVE Inv'
  BY <1>3, ReadHeadStep
<1>4. ASSUME NEW p \in Writers, Insert(p) PROVE Inv'
  BY <1>4, InsertStep
<1>5. ASSUME NEW p \in Writers, Rollback(p) PROVE Inv'
  BY <1>5, RollbackStep
<1>6. CASE PurgeFinds \/ PurgeFails
  BY <1>6, PurgeFindsStep
<1>7. CASE PurgeCommits
  BY <1>7, PurgeCommitsStep
<1>8. CASE UNCHANGED vars
  BY <1>8 DEF vars, Inv, TypeOK, Unknown, Busy, Held, Dated, Linked, Follows, Ordered, Ready, Doomed
<1> QED BY <1>1, <1>2, <1>3, <1>4, <1>5, <1>6, <1>7, <1>8 DEF Next

LEMMA AlwaysInv == Spec => []Inv
PROOF BY InitInv, NextInv, PTL DEF Spec

\* The rows, the lock and the local state of every writer keep their types.
THEOREM TypeCorrect == Spec => []TypeOK
PROOF
<1>1. Inv => TypeOK
  BY DEF Inv
<1> QED BY <1>1, AlwaysInv, PTL

\* verifyChain() accepts the trail of a tenant whatever the interleaving of
\* appends, the clocks and the rollbacks; after a deletion without the lock
\* the trail that is left is broken at its first event or nowhere.
THEOREM Verifies == Spec => []ChainVerifies
PROOF
<1>1. Inv => ChainVerifies
  <2>1. SUFFICES ASSUME Inv, NEW r \in rows
        PROVE  LET earlier == {s \in rows : Before(s, r)}
               IN  IF earlier = {} THEN r.prev = Genesis \/ purged > 0
                   ELSE r.prev = Newest(earlier).id
    BY DEF ChainVerifies
  <2> DEFINE earlier == {s \in rows : Before(s, r)}
  <2>2. \A s \in rows : s.at \in Nat /\ s.id \in Nat
    BY <2>1 DEF Inv, TypeOK, Rows, Ids
  <2>3. \A s \in rows : s \in earlier <=> s.at < r.at
    BY <2>1, <2>2 DEF Inv, Dated, Before
  <2>4. CASE earlier = {}
    BY <2>1, <2>3, <2>4 DEF Inv, Linked, Follows
  <2>5. CASE earlier # {}
    <3>1. PICK s \in rows : Follows(r, s) /\ r.prev = s.id
      BY <2>1, <2>3, <2>5 DEF Inv, Linked
    <3>2. s \in earlier /\ \A t \in earlier : t = s \/ Before(t, s)
      BY <3>1, <2>1, <2>2, <2>3 DEF Inv, Dated, Follows, Before
    <3>3. Newest(earlier) \in earlier /\ \A t \in earlier : t = Newest(earlier) \/ Before(t, Newest(earlier))
      BY <3>2 DEF Newest
    <3>4. Newest(earlier) = s
      BY <3>2, <3>3, <2>2 DEF Before
    <3> QED BY <3>1, <3>4, <2>5
  <2> QED BY <2>4, <2>5
<1> QED BY <1>1, AlwaysInv, PTL

\* However far the clocks of the processes are apart, an event recorded before
\* another was asked for is read before it.
THEOREM InOrder == Spec => []RecordedInOrder
PROOF
<1>1. Inv => RecordedInOrder
  BY DEF Inv, Ordered, RecordedInOrder, Before
<1> QED BY <1>1, AlwaysInv, PTL

-----------------------------------------------------------------------------
(* The rows as a trail that is only added to at its end and cut at its start *)

\* An identifier names one event.
Named == \A r, s \in rows : r.id = s.id => r = s

LEMMA NamedStep ==
  ASSUME Inv, Named, [Next]_vars
  PROVE  Named'
PROOF
<1>1. CASE \E p \in Writers : Insert(p)
  <2>1. PICK p \in Writers : Insert(p)
    BY <1>1
  <2>2. \A r \in rows : r.id # writer[p].id
    BY <2>1 DEF Inv, Unknown, Busy, Insert
  <2>3. PICK now \in 0..MaxTime :
          rows' = rows \cup {[id |-> writer[p].id, at |-> Later(now, writer[p].head.at + 1),
                              prev |-> writer[p].head.id, seen |-> writer[p].seen]}
    BY <2>1 DEF Insert
  <2> QED BY <2>2, <2>3 DEF Named
<1>2. CASE ~ \E p \in Writers : Insert(p)
  <2>1. rows' \subseteq rows
    BY <1>2 DEF Next, Record, Lock, ReadHead, Rollback, PurgeFinds, PurgeFails, PurgeCommits, vars
  <2> QED BY <2>1 DEF Named
<1> QED BY <1>1, <1>2

LEMMA AlwaysNamed == Spec => []Named
PROOF
<1>1. Init => Named
  BY DEF Init, Named
<1>2. Inv /\ Named /\ [Next]_vars => Named'
  BY NamedStep
<1> QED BY <1>1, <1>2, AlwaysInv, PTL DEF Spec

\* Which rows there are, and whether any were deleted, is all that is seen.
LEMMA Unseen ==
  ASSUME rows' = rows, purged' = purged
  PROVE  UNCHANGED Trail!vars
PROOF BY DEF Trail!vars, Recorded, ReadOrder, Links, Before

\* The pairs of the read order are those of rows, and a row is known by its id.
LEMMA OrderOfRows ==
  ASSUME Inv, Named, NEW r \in rows, NEW s \in rows
  PROVE  <<r.id, s.id>> \in ReadOrder <=> r.at < s.at
PROOF
<1>1. \A t \in rows : t.at \in Nat /\ t.id \in Ids
  BY DEF Inv, TypeOK, Rows
<1>2. \A t, u \in rows : Before(t, u) <=> t.at < u.at
  BY <1>1 DEF Inv, Dated, Before, Ids
<1> QED BY <1>1, <1>2 DEF ReadOrder, Named

LEMMA InsertAppends ==
  ASSUME Inv, Named, NEW p \in Writers, Insert(p)
  PROVE  writer[p].id \in Ids /\ Trail!Append(writer[p].id)
PROOF
<1> DEFINE w == writer[p]
<1>1. /\ w.pc = "insert" /\ purged' = purged /\ w.id \in Ids
      /\ w.head.at \in Nat /\ w.head.id \in {Genesis} \cup Ids
      /\ \A r \in rows : r.id # w.id /\ r.at \in Nat /\ r.id \in Ids
  <2>1. w.id \in {Genesis} \cup Ids /\ w.head \in Heads /\ w.pc = "insert" /\ purged' = purged
    BY DEF Inv, TypeOK, Insert
  <2>2. w.id # Genesis /\ \A r \in rows : r.id # w.id
    BY <2>1 DEF Inv, Unknown, Busy
  <2>3. \A r \in rows : r.at \in Nat /\ r.id \in Ids
    BY DEF Inv, TypeOK, Rows
  <2> QED BY <2>1, <2>2, <2>3 DEF Heads
<1>2. PICK n : /\ rows' = rows \cup {n} /\ n.id = w.id /\ n.prev = w.head.id
               /\ n.at \in Nat /\ n.at > w.head.at
  <2>1. PICK now \in 0..MaxTime :
          rows' = rows \cup {[id |-> w.id, at |-> Later(now, w.head.at + 1), prev |-> w.head.id,
                              seen |-> w.seen]}
    BY DEF Insert
  <2>2. Later(now, w.head.at + 1) \in Nat /\ Later(now, w.head.at + 1) > w.head.at
    BY <1>1, AuditAssumption DEF Later
  <2>3. PICK n : n = [id |-> w.id, at |-> Later(now, w.head.at + 1), prev |-> w.head.id, seen |-> w.seen]
    OBVIOUS
  <2>4. /\ rows' = rows \cup {n} /\ n.id = w.id /\ n.prev = w.head.id
        /\ n.at \in Nat /\ n.at > w.head.at
    BY <2>1, <2>2, <2>3
  <2> QED BY <2>4
<1>3. \A r \in rows : r.at <= w.head.at /\ r.at < n.at
  BY <1>1, <1>2 DEF Inv, Ready
<1> HIDE DEF w
<1>4. w.id \notin Recorded /\ Recorded' = Recorded \cup {w.id} /\ Recorded \subseteq Ids
  BY <1>1, <1>2 DEF Recorded
<1>5. ReadOrder' = ReadOrder \cup (Recorded \X {w.id})
  <2>1. \A o \in Ids \X Ids :
          o \in ReadOrder' <=> \E r, s \in rows' : o = <<r.id, s.id>> /\ Before(r, s)
    BY DEF ReadOrder, Before
  <2>2. \A r \in rows : Before(r, n) /\ ~ Before(n, r)
    BY <1>1, <1>2, <1>3 DEF Before
  <2>3. ~ Before(n, n)
    BY <1>1, <1>2 DEF Before, Ids
  <2>4. ASSUME NEW o \in Ids \X Ids
        PROVE  o \in ReadOrder' <=> o \in ReadOrder \/ o \in Recorded \X {w.id}
    <3>1. o \in ReadOrder <=> \E r, s \in rows : o = <<r.id, s.id>> /\ Before(r, s)
      BY DEF ReadOrder
    <3>2. o \in Recorded \X {w.id} <=> \E r \in rows : o = <<r.id, n.id>>
      BY <1>2 DEF Recorded
    <3> QED BY <3>1, <3>2, <2>1, <2>2, <2>3, <1>2
  <2>5. ReadOrder' \subseteq Ids \X Ids /\ ReadOrder \subseteq Ids \X Ids /\ Recorded \X {w.id} \subseteq Ids \X Ids
    BY <1>1, <1>4 DEF ReadOrder, Before
  <2> QED BY <2>4, <2>5
<1>6. Links' = Links \cup {<<w.id, w.head.id>>}
  BY <1>2 DEF Links
<1>7. Trail!Ends(w.head.id)
  <2>1. CASE Recorded = {}
    <3>1. rows = {}
      BY <2>1 DEF Recorded
    <3>2. w.head.id = Genesis \/ purged > 0
      BY <3>1, <1>1 DEF Inv, Ready, w
    <3> QED BY <2>1, <3>2 DEF Trail!Ends
  <2>2. CASE Recorded # {}
    <3>1. PICK h \in rows : h.id = w.head.id /\ h.at = w.head.at
      BY <2>2, <1>1 DEF Inv, Ready, Recorded, w
    <3>2. \A r \in rows : r = h \/ <<r.id, h.id>> \in ReadOrder
      <4>1. ASSUME NEW r \in rows, r # h PROVE r.at < h.at
        BY <4>1, <3>1, <1>1, <1>3 DEF Inv, Dated
      <4> QED BY <4>1, OrderOfRows
    <3> QED BY <2>2, <3>1, <3>2 DEF Trail!Ends, Trail!Last, Recorded
  <2> QED BY <2>1, <2>2
<1>8. w.head.id \in Ids \cup {Genesis} /\ w.id \in Ids
  BY <1>1 DEF w
<1>9. (purged > 0)' = (purged > 0)
  BY <1>1
<1> QED BY <1>4, <1>5, <1>6, <1>7, <1>8, <1>9 DEF Trail!Append, w

LEMMA PurgeCuts ==
  ASSUME Inv, Named, PurgeCommits
  PROVE  \E gone \in SUBSET Recorded : Trail!Cut(gone)
PROOF
<1> DEFINE gone == {r.id : r \in purge.doomed}
<1>1. /\ purge.pc = "delete" /\ purge.doomed \subseteq rows /\ rows' = rows \ purge.doomed
      /\ (purged > 0)' = TRUE
      /\ \A r, s \in rows : r \notin purge.doomed /\ s \in purge.doomed => s.at < r.at
  BY DEF PurgeCommits, Inv, TypeOK, Doomed
<1>2. \A r \in rows : r.id \in gone <=> r \in purge.doomed
  BY <1>1 DEF Named
<1>3. gone \subseteq Recorded /\ Recorded' = Recorded \ gone
  BY <1>1, <1>2 DEF Recorded
<1>4. \A x \in gone, y \in Recorded \ gone : <<x, y>> \in ReadOrder
  <2>1. ASSUME NEW x \in gone, NEW y \in Recorded \ gone PROVE <<x, y>> \in ReadOrder
    <3>1. PICK r \in purge.doomed : x = r.id
      OBVIOUS
    <3>2. PICK s \in rows : y = s.id /\ s \notin purge.doomed
      BY <1>2 DEF Recorded
    <3> QED BY <3>1, <3>2, <1>1, OrderOfRows
  <2> QED BY <2>1
<1>5. ReadOrder' = {o \in ReadOrder : o[1] \in Recorded' /\ o[2] \in Recorded'}
  <2>1. \A r \in rows : r \in rows' <=> r.id \in Recorded'
    BY <1>1, <1>2, <1>3 DEF Recorded
  <2>2. ASSUME NEW o \in Ids \X Ids
        PROVE  o \in ReadOrder' <=> o \in ReadOrder /\ o[1] \in Recorded' /\ o[2] \in Recorded'
    <3>1. o \in ReadOrder' <=> \E r, s \in rows' : o = <<r.id, s.id>> /\ Before(r, s)
      BY DEF ReadOrder, Before
    <3>2. o \in ReadOrder <=> \E r, s \in rows : o = <<r.id, s.id>> /\ Before(r, s)
      BY DEF ReadOrder
    <3>3. rows' \subseteq rows
      BY <1>1
    <3> QED BY <2>1, <3>1, <3>2, <3>3
  <2> QED BY <2>2 DEF ReadOrder, Before
<1>6. Links' = {l \in Links : l[1] \in Recorded'}
  BY <1>1, <1>2, <1>3 DEF Links, Recorded
<1> HIDE DEF gone
<1>7. Trail!Cut(gone)
  BY <1>1, <1>3, <1>4, <1>5, <1>6 DEF Trail!Cut
<1> QED BY <1>3, <1>7

\* The rows that writers insert under the lock, by clocks that differ, and the
\* deletion that takes no lock, are together a trail that is only ever added
\* to at its end, linked to what was last there, and cut at its start.
THEOREM KeepsATrail == Spec => KeepsTrail
PROOF
<1>1. Init => Trail!Init
  BY DEF Init, Trail!Init, Recorded, ReadOrder, Links
<1>2. Inv /\ Named /\ [Next]_vars => [Trail!Next]_(Trail!vars)
  <2> SUFFICES ASSUME Inv, Named, [Next]_vars PROVE [Trail!Next]_(Trail!vars)
    OBVIOUS
  <2>1. ASSUME NEW p \in Writers, Insert(p) PROVE Trail!Next
    BY <2>1, InsertAppends DEF Trail!Next
  <2>2. CASE PurgeCommits
    BY <2>2, PurgeCuts DEF Trail!Next
  <2>3. CASE ~ PurgeCommits /\ ~ \E p \in Writers : Insert(p)
    <3>1. rows' = rows /\ purged' = purged
      BY <2>3 DEF Next, Record, Lock, ReadHead, Rollback, PurgeFinds, PurgeFails, vars
    <3> QED BY <3>1, Unseen
  <2> QED BY <2>1, <2>2, <2>3
<1> QED BY <1>1, <1>2, AlwaysInv, AlwaysNamed, PTL DEF Spec, KeepsTrail, Trail!Spec

=============================================================================
