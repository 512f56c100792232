----------------------------- MODULE MCRefresh -----------------------------
(* Two instances of one provider, one of them to be upgraded, and one of   *)
(* another.                                                                *)
EXTENDS Refresh

MCEntries == <<<<"a", "b">>, <<"c">>>>
=============================================================================
