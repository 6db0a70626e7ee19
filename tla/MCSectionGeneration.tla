------------------------- MODULE MCSectionGeneration -------------------------
(***************************************************************************)
(* SectionGeneration with two body sections and a summary that comes first *)
(* in the plan.                                                            *)
(***************************************************************************)
EXTENDS SectionGeneration
=============================================================================
