---------------------------- MODULE MCPoolCache ----------------------------
(* Two requests on three databases of two instances; the cache holds two   *)
(* pools, and instance k1 allows one.  The row of d2 may name either.      *)
EXTENDS PoolCache

MCRoute == {<<"d1", "k1">>, <<"d2", "k1">>, <<"d2", "k2">>, <<"d3", "k2">>}
MCCap   == [k \in {"k1", "k2"} |-> IF k = "k1" THEN 1 ELSE 0]
=============================================================================
