-------------------------- MODULE MCTenantCapacity ---------------------------
(***************************************************************************)
(* TenantCapacity with limits of one and two requests at a time.           *)
(***************************************************************************)
EXTENDS TenantCapacity

LimitsOfOne == [pool \in {"seats", "viewers", "projects", "storage"} |-> 1]
AnyRequest  == Ops
=============================================================================
