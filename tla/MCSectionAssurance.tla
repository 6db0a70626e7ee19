------------------------- MODULE MCSectionAssurance -------------------------
(***************************************************************************)
(* A section that says s1, or s1 and the unsupported s2, and requests that *)
(* overlap in pairs.                                                       *)
(***************************************************************************)
EXTENDS SectionAssurance, TLC

CONSTANTS s1, s2
BothTexts  == {{s1}, {s1, s2}}
AnyRequest == Ops
Symmetry  == Permutations(Calls)
=============================================================================
