---------------------------- MODULE MCSpaceAccess ----------------------------
(***************************************************************************)
(* The administrator, one user of high and one of low clearance, and a     *)
(* service.  A user may have no tenant role, or that of an administrator   *)
(* of spaces, who has no membership by it, or of the platform, who creates *)
(* a space and has no authority over others.                               *)
(***************************************************************************)
EXTENDS SpaceAccess

CONSTANTS adm, ann, bob, svc

MCUsers == {adm, ann, bob, svc}
MCProvisioned == {adm, ann}
MCClearance == [u \in MCUsers |-> IF u \in {bob, svc} THEN 1 ELSE 2]

MCTenantPolicies == {{}, {"space_admin"}, {"platform_admin"}}
MCPolicies == {[roles |-> {"space_admin"}, clearance |-> 2], [roles |-> {"consumer"}, clearance |-> 1]}
=============================================================================
