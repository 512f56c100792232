------------------------- MODULE MCTerraformClients -------------------------
(* Model-checking instances of TerraformClients.                           *)
EXTENDS TerraformClients, TLC

MCGroupOf == [a \in Addr |-> a]
ClientSymmetry == Permutations(LockId)
=============================================================================
