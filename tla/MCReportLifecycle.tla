-------------------------- MODULE MCReportLifecycle --------------------------
(***************************************************************************)
(* ReportLifecycle with interchangeable concurrent calls.                  *)
(***************************************************************************)
EXTENDS ReportLifecycle, TLC

MCSymmetry == Permutations(Calls)
=============================================================================
