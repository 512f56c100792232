---------------------------- MODULE MCTransfers ----------------------------
(* Two workspaces, the second limited to one active environment.           *)
EXTENDS Transfers, TLC

MCMaxEnvs == [t \in Tenant |-> IF t = "w2" THEN 1 ELSE 0]
TransferSymmetry == Permutations(Request) \cup Permutations(Env) \cup Permutations(Slug) \cup Permutations(Proposal)
=============================================================================
