----------------------------- MODULE AuditTrail ------------------------------
(***************************************************************************)
(* What the audit trail of a tenant promises to whoever reads it: events   *)
(* are added at its end and nowhere else, each linked to the one that was  *)
(* last; no event is changed, moved or lost, except that an administrator  *)
(* may cut the trail up to some event.  Clocks, locks, transactions and    *)
(* processes do not occur here.                                            *)
(***************************************************************************)
CONSTANTS
  Events,  \* what may be recorded
  Genesis  \* what the first event is linked to

VARIABLES
  trail,   \* the events that can be read
  before,  \* pairs of them, in the order they are read
  links,   \* what each of them is linked to
  cut      \* whether events were ever deleted

vars == <<trail, before, links, cut>>

Last(e) == e \in trail /\ \A x \in trail : x = e \/ <<x, e>> \in before

\* The event after which a new one is read.  Of a trail that was deleted
\* altogether the next event may be linked to one that is gone.
Ends(p) == IF trail = {} THEN p = Genesis \/ cut ELSE Last(p)

Append(e) ==
  /\ e \notin trail
  /\ trail' = trail \cup {e}
  /\ before' = before \cup (trail \X {e})
  /\ \E p \in Events \cup {Genesis} : Ends(p) /\ links' = links \cup {<<e, p>>}
  /\ UNCHANGED cut

\* The events before some point are deleted, and what is left is as it was.
Cut(gone) ==
  /\ \A x \in gone, y \in trail \ gone : <<x, y>> \in before
  /\ trail' = trail \ gone
  /\ before' = {b \in before : b[1] \in trail' /\ b[2] \in trail'}
  /\ links' = {l \in links : l[1] \in trail'}
  /\ cut' = TRUE

Init == trail = {} /\ before = {} /\ links = {} /\ cut = FALSE

Next ==
  \/ \E e \in Events : Append(e)
  \/ \E gone \in SUBSET trail : Cut(gone)

Spec == Init /\ [][Next]_vars
=============================================================================
