------------------------------- MODULE Globs -------------------------------
(***************************************************************************)
(* Address globs of resource reservations (pkg/store/reservations.go).     *)
(*                                                                         *)
(* A glob is one of three shapes:                                          *)
(*   "*"        every address of the state;                                *)
(*   "p.*"      the address p and everything below it;                     *)
(*   "p"        the literal address p.                                     *)
(*                                                                         *)
(* An address is a sequence of symbols; one symbol stands for a run of     *)
(* characters without a dot, and Dot for the separator, so that symbol     *)
(* prefixes are the string prefixes the code compares.  Two names that     *)
(* share a prefix ("web", "web2") are <<"web">> and <<"web", "2">>, and an *)
(* instance index ("web[0]") is a symbol of its own, <<"web", "[0]">>.     *)
(***************************************************************************)
EXTENDS Integers, Sequences

Dot == "."

(* The three shapes; path is <<>> and ignored for "all".                   *)
AllGlob        == [kind |-> "all", path |-> <<>>]
Subtree(path)  == [kind |-> "subtree", path |-> path]
Literal(path)  == [kind |-> "literal", path |-> path]

(* strings.HasPrefix(s, p)                                                 *)
HasPrefix(s, p) == Len(p) <= Len(s) /\ \A i \in 1..Len(p) : s[i] = p[i]

(* A literal address lies in the subtree glob "p.*": it is p itself, or it *)
(* continues p with a dot.                                                 *)
UnderSubtree(addr, p) == HasPrefix(addr, p \o <<Dot>>) \/ addr = p

(* Two subtree globs are compared by raw prefix, with no dot boundary.     *)
SubtreesOverlap(p, q) == HasPrefix(p, q) \/ HasPrefix(q, p)

(* globsIntersect: the overlap test of two reservation requests.           *)
GlobsIntersect(g, h) ==
  \/ g.kind = "all" \/ h.kind = "all"
  \/ g.kind = "literal" /\ h.kind = "literal" /\ g.path = h.path
  \/ g.kind = "subtree" /\ h.kind = "literal" /\ UnderSubtree(h.path, g.path)
  \/ g.kind = "literal" /\ h.kind = "subtree" /\ UnderSubtree(g.path, h.path)
  \/ g.kind = "subtree" /\ h.kind = "subtree" /\ SubtreesOverlap(g.path, h.path)

-----------------------------------------------------------------------------
(* Reference definition, from the meaning of the globs: the set of         *)
(* addresses each one stands for.                                          *)
Matches(g, addr) ==
  CASE g.kind = "all"     -> TRUE
    [] g.kind = "subtree" -> addr = g.path \/ HasPrefix(addr, g.path \o <<Dot>>)
    [] g.kind = "literal" -> addr = g.path
============================================================================
