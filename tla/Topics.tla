-------------------------------- MODULE Topics --------------------------------
(***************************************************************************)
(* Programs of a topic: a set of node kinds with their operators, the      *)
(* names, types and parameter lists declarations take, and bounds of its   *)
(* own.  Every part of a program of a topic is within the topic, so that a *)
(* specification restricted to Grown(topics) has the programs of each of   *)
(* them whole.                                                             *)
(***************************************************************************)
EXTENDS Ast

\* The lengths MaxList bounds.
ListLength(node) ==
  CASE node.kind \in {"PROGRAM", "BLOCK"} -> Len(node.kids)
    [] node.kind = "CALL" -> Len(node.kids) - 1
    [] OTHER -> 0

Within(t) ==
  /\ Size <= t.nodes
  /\ \A n \in Nodes :
       /\ Kind(n) \in t.kinds \cup HoleKinds \cup {"NULL"}
       /\ Kind(n) \in {"IDENT", "VAR_DECL"} => ast[n].name \in t.names
       /\ Kind(n) \in {"BINARY", "UNARY"} => ast[n].op \in t.ops
       /\ Kind(n) \in {"VAR_DECL", "FUNC_DECL"} => ast[n].type \in t.types
       /\ Kind(n) = "FUNC_DECL" => ast[n].name \in t.funcs /\ ast[n].params \in t.params
       /\ ListLength(ast[n]) <= t.list

\* The tree does not change after parsing.
Grown(topics) == phase = "parse" => \E t \in topics : Within(t)'
=============================================================================
