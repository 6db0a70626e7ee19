----------------------------- MODULE MCAiCredits -----------------------------
(***************************************************************************)
(* AiCredits on a small instance: two generations, no packs.               *)
(***************************************************************************)
EXTENDS AiCredits

MCCredits == [p \in Packs |-> 1]
=============================================================================
