--------------------------- MODULE MCProvisioning ---------------------------
(* Two processes, two writes, and a baseline that records one later file.  *)
EXTENDS Provisioning, TLC

ProcSymmetry == Permutations(Proc) \cup Permutations(Write)
=============================================================================
