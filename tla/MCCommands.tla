----------------------------- MODULE MCCommands -----------------------------
(* Model-checking instance of Commands: three addresses; an instance at    *)
(* z may depend on x or y.                                                 *)
EXTENDS Commands

MCGroupOf == [a \in Addr |-> a]
MCDependsOn(attr, a) == (attr = "onX" /\ a = "x") \/ (attr = "onY" /\ a = "y")
MCRedirect(attr, a, b) ==
  IF MCDependsOn(attr, a) /\ b \in {"x", "y"} THEN IF b = "x" THEN "onX" ELSE "onY" ELSE attr

MCDoc(x, y, z) ==
  LET attr == [a \in Addr |-> CASE a = "x" -> x [] a = "y" -> y [] a = "z" -> z]
  IN  [EmptyDoc EXCEPT !.res = [a \in Addr |-> [attr |-> attr[a], meta |-> NoMeta]]]
MCPostedDoc == {MCDoc("p", NoAttr, "onX"), MCDoc("q", NoAttr, NoAttr)}

MCRef(kind, n, tag) == [kind |-> kind, n |-> n, tag |-> tag]
MCRefs == {MCRef("back", 1, None), MCRef("tag", 0, "t")}

(* The last serial is for a rollback or replay that was typed: there are   *)
(* versions to choose from, a commit after the preview, and the write.     *)
(* Nothing starts later than one serial before.                            *)
Typed(w) == op'[w] # op[w] /\ cli[w].cmd.kind \in {"rollback", "replay"}
Starts(w) == Cli(w, "idle") /\ At(w, "idle") /\ (cli'[w] # cli[w] \/ op'[w] # op[w])
Bounded ==
  /\ current' = MaxSerial => current = MaxSerial \/ \E w \in Op : Typed(w)
  /\ current >= MaxSerial - 1 => \A w \in Op : ~ Starts(w)
  /\ current = MaxSerial => UNCHANGED <<versions, tags>>
BoundedSpec ==
  /\ CommandInit /\ [][CommandNext /\ Bounded]_commandVars
  /\ \A w \in Op : WF_commandVars((ServerStep(w) \/ Answered(w)) /\ Bounded)

(* Requests of scripts, with no preview: with tags moved at any moment,    *)
(* and with kl apply's fallback lane and kl refresh in use.                *)
TagRaceSpec  == CommandInit /\ [][TagRaceNext /\ UNCHANGED cli]_commandVars
FallbackSpec == CommandInit /\ [][FallbackNext /\ UNCHANGED cli]_commandVars
=============================================================================
