--------------------------- MODULE MCControlPlane ---------------------------
(* An organisation with the operators' environment, and a personal         *)
(* workspace with two environments, whose labels can change places through *)
(* a third one.                                                            *)
EXTENDS ControlPlane, TLC

MCTenantOf == [e \in Env |-> IF e = "ops" THEN "org" ELSE "own"]
MCOwner    == [t \in Tenant |-> IF t = "own" THEN "ann" ELSE None]
MCHome     == [k \in Token |-> IF k = "k" THEN "e" ELSE "ops"]

MCLabelOf  == [e \in Env |-> IF e = "f" THEN "b" ELSE "a"]

MCFirstPat == [a \in Account |-> "p"]
MCSymmetry == Permutations(Request)

MCRolePermissions ==
  [role \in {"platform_admin", "tenant_admin"} |->
     {"environment.lifecycle.update", "environment.create", "token.create", "token.lifecycle.update", "tenant.lifecycle.update"}
        \cup IF role = "platform_admin" THEN {"retention.purge", "rbac.manage"} ELSE {}]

Global == [kind |-> "global", tenant |-> None, label |-> None]
Admin  == [token |-> "k", role |-> "platform_admin", scope |-> Global]
Local  == [token |-> "k", role |-> "tenant_admin", scope |-> [kind |-> "environment", tenant |-> "own", label |-> "a"]]

MCGrantable ==
  {Admin, Local, [Admin EXCEPT !.token = "boot"],
   [token |-> "op", role |-> "tenant_admin", scope |-> [Global EXCEPT !.kind = "tenant", !.tenant = "own"]]}

MCStart ==
  {[archived |-> {}, tokens |-> {}, grants |-> {}, users |-> {}],
   [archived |-> {}, tokens |-> {"k"}, grants |-> {Local}, users |-> Account],
   [archived |-> {"own"}, tokens |-> {"k"}, grants |-> {Admin}, users |-> {}]}
=============================================================================
