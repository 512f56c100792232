--------------------------- MODULE MCApplyClient ---------------------------
(* Model-checking instance of ApplyClient: a resource with two indexed     *)
(* instances and one that depends on it; a limit of two instances.         *)
EXTENDS ApplyClient

MCGroupOf   == [a \in Addr |-> IF a = "y" THEN "y" ELSE "x"]
MCNeeds     == [a \in Addr |-> IF a = "y" THEN {"x0", "x1"} ELSE {}]
MCComponent == [g \in {"x", "y"} |-> {"x", "y"}]
MCReplaces(attr) == attr = "r"

MCAttrs(x0, x1, y) == [a \in Addr |-> CASE a = "x0" -> x0 [] a = "x1" -> x1 [] a = "y" -> y]
MCConfigs == {MCAttrs("q", NoAttr, "p"), MCAttrs("p", "p", "p")}
MCStartDocs   == {[EmptyDoc EXCEPT !.res = [a \in Addr |-> [attr |-> f[a], meta |-> NoMeta]]] :
                f \in {MCAttrs("p", NoAttr, "q"), MCAttrs("p", "p", NoAttr)}}

MCEdit(a, v) == [addr |-> a, attr |-> v]
MCEdits == {MCEdit("x0", "r"), MCEdit("x1", "p"), MCEdit("x1", NoAttr), MCEdit("y", "r")}

MCScoped == {<<"full", {}>>, <<"file", {"y"}>>, <<"target", {"x0", "x1"}>>, <<"target", {"y"}>>}
MCAcks   == {{"unsafe", "destructive", "scope"}, {"unsafe", "scope", "strict"}}
MCInvocations ==
  {[mode |-> s[1], sel |-> s[2], spec |-> spec, engine |-> engine,
    orchestrated |-> orchestrated, acks |-> acks] :
      s \in MCScoped, spec, engine, orchestrated \in BOOLEAN, acks \in MCAcks}
=============================================================================
