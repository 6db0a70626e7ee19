--------------------------- MODULE MCBillingInbox ----------------------------
(***************************************************************************)
(* BillingInbox on small instances, given their bounds by the .cfg files.  *)
(***************************************************************************)
EXTENDS BillingInbox
=============================================================================
