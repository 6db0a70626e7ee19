---------------------------- MODULE MCCreditPacks ----------------------------
(***************************************************************************)
(* AiCredits with an empty plan quota: every draft is paid by a pack, one  *)
(* top-up pack and one standing-balance pack, both administered.           *)
(***************************************************************************)
EXTENDS AiCredits, TLC

MCCredits == [p \in Packs |-> p]
MCStanding == {2}
MCSymmetry == Permutations(Gens) \cup Permutations(Admins)
=============================================================================
