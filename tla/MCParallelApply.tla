-------------------------- MODULE MCParallelApply --------------------------
(* Model-checking instances of ParallelApply.  Runs r1 and r2 conflict (r1 *)
(* reads what r2 writes) and race each other for the next serial.          *)
EXTENDS ParallelApply, Globs

CONSTANTS x, y, r1, r2

MCGroupOf == [addr \in Addr |-> addr]

(* kl reserves literal addresses: "m.web" and "m.web2", which share a      *)
(* prefix and no address.                                                  *)
AddressOf(g) == Literal(IF g = x THEN <<"m", ".", "web">> ELSE <<"m", ".", "web", "2">>)
SameAddress(g, h) == GlobsIntersect(AddressOf(g), AddressOf(h))
MCWriteSet == [a \in Apply |-> IF a = r1 THEN {x} ELSE {y}]
MCReadSet  == [a \in Apply |-> IF a = r1 THEN {x, y} ELSE {y}]
=============================================================================
