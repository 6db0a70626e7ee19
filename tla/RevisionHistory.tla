--------------------------- MODULE RevisionHistory ---------------------------
(***************************************************************************)
(* What a reader of a section can rely on: every text ever stored stays in *)
(* its history, under the number it got there, and the section shows one   *)
(* of them, word for word.  Which one is not promised, since requests put  *)
(* back what they read; but what is shown as approved was examined before. *)
(***************************************************************************)
EXTENDS Naturals, Sequences

CONSTANT Statements  \* a text is a set of them

VARIABLES
  texts,     \* the texts stored, by number
  examined,  \* the numbers of those found complete
  shown      \* what the section shows; the number 0 is that of no text

vars == <<texts, examined, shown>>

Views == [text : SUBSET Statements, rev : 0..Len(texts), approved : BOOLEAN]

\* A view is that of a text of the history.
Faithful(v) ==
  /\ v \in Views
  /\ v.rev # 0 => v.text = texts[v.rev]
  /\ v.approved => v.rev \in examined

\* Nothing yet, or one text.
Init ==
  /\ texts = <<>> \/ \E text \in SUBSET Statements : texts = <<text>>
  /\ examined \subseteq 1..Len(texts)
  /\ Faithful(shown)

Record(text) ==
  /\ texts' = Append(texts, text)
  /\ UNCHANGED <<examined, shown>>

Examine(n) ==
  /\ examined' = examined \cup {n}
  /\ UNCHANGED <<texts, shown>>

\* Any text of the history may be shown next.
Show ==
  /\ UNCHANGED <<texts, examined>>
  /\ Faithful(shown)'

Next ==
  \/ Show
  \/ \E text \in SUBSET Statements : Record(text)
  \/ \E n \in 1..Len(texts) : Examine(n)

Spec == Init /\ [][Next]_vars
=============================================================================
