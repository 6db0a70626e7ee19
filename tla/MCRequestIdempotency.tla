------------------------ MODULE MCRequestIdempotency -------------------------
(***************************************************************************)
(* RequestIdempotency with a few interchangeable requests of one key.      *)
(***************************************************************************)
EXTENDS RequestIdempotency, TLC

MCSymmetry == Permutations(Requests)
=============================================================================
