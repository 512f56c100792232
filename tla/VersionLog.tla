----------------------------- MODULE VersionLog -----------------------------
(***************************************************************************)
(* What the version store of one state promises its readers: an            *)
(* append-only, gap-free history.  A state starts with no version; the     *)
(* first is either the empty genesis version 0 or version 1; each further  *)
(* one has the next serial; a version never changes once written, and the  *)
(* current one is always the last.                                         *)
(***************************************************************************)
EXTENDS Integers

CONSTANTS Document, Genesis

VARIABLES log, head   \* log: serial -> document; head: last serial or -1

LogInit == log = [s \in {} |-> Genesis] /\ head = -1

Extend(n, d) ==
  /\ log' = [s \in DOMAIN log \cup {n} |-> IF s = n THEN d ELSE log[s]]
  /\ head' = n

CreateGenesis == head = -1 /\ Extend(0, Genesis)
Append == \E d \in Document : Extend(IF head = -1 THEN 1 ELSE head + 1, d)

LogNext == CreateGenesis \/ Append
LogSpec == LogInit /\ [][LogNext]_<<log, head>>
=============================================================================
