---------------------------- MODULE MCStateRows ----------------------------
(* A state or two, two sessions and two requests at a time.                *)
EXTENDS StateRows, TLC

RowSymmetry == Permutations(Id) \cup Permutations(LockId) \cup Permutations(Lineage)
                 \cup Permutations(Resource) \cup Permutations(NameOfState) \cup Permutations(Caller)
=============================================================================
