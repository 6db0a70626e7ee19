------------------------------ MODULE PaidDraft ------------------------------
(***************************************************************************)
(* What the credit of a draft buys: the writer is asked for each section   *)
(* at most once, for a summary only when the texts it summarises are in    *)
(* place, and the credit is kept only when every answer has been stored    *)
(* and none was fallen back to.  A section with nothing to be written from *)
(* is answered with a fixed text, which is paid for like the provider's.   *)
(* The decision is taken once, and the writer's answers are not stored any *)
(* more in a draft that has been billed.  Workers, phases, failures and    *)
(* what people do to the stored texts do not occur here.                   *)
(***************************************************************************)
EXTENDS Naturals

CONSTANTS
  Sections,  \* the sections of the plan
  Synthesis, \* those that summarise the others
  Thin       \* those with nothing to be written from

VARIABLES
  asked,    \* how often the writer was asked for each section
  text,     \* what was stored of its answers
  outcome   \* of the credit: "none" while it is reserved

vars == <<asked, text, outcome>>

Asked == {i \in Sections : asked[i] > 0}

Init ==
  /\ asked = [i \in Sections |-> 0]
  /\ text = [i \in Sections |-> "none"]
  /\ outcome = "none"

Ask(i) ==
  /\ i \notin Asked
  /\ outcome # "billed"
  /\ IF i \in Synthesis THEN \A j \in Asked \ Synthesis : text[j] # "none"
                        ELSE Asked \cap Synthesis = {}
  /\ asked' = [asked EXCEPT ![i] = 1]
  /\ UNCHANGED <<text, outcome>>

\* The answers that do not end in a refund.
Due(i) == IF i \in Thin THEN "gap" ELSE "ai"

Store(i, answer) ==
  /\ i \in Asked
  /\ text[i] = "none"
  /\ outcome # "billed"
  /\ text' = [text EXCEPT ![i] = answer]
  /\ UNCHANGED <<asked, outcome>>

Bill ==
  /\ outcome = "none"
  /\ \A i \in Asked : text[i] = Due(i)
  /\ outcome' = "billed"
  /\ UNCHANGED <<asked, text>>

Release ==
  /\ outcome = "none"
  /\ outcome' = "released"
  /\ UNCHANGED <<asked, text>>

Next ==
  \/ \E i \in Sections : Ask(i) \/ \E answer \in {Due(i), "stub"} : Store(i, answer)
  \/ Bill
  \/ Release

Spec == Init /\ [][Next]_vars
=============================================================================
