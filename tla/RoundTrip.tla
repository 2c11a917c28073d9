------------------------------ MODULE RoundTrip ------------------------------
(***************************************************************************)
(* From a tree of Ast to its text and back: the tree grows as Ast says,    *)
(* is written with the fewest parentheses, the text is parsed, and the     *)
(* tree that comes of it is freed.                                         *)
(***************************************************************************)
EXTENDS Ast, Freeing, Text

Written == TextOf(ast, FewestWraps(ast))[1] \o <<Eof>>

Grow == AstNext /\ UNCHANGED <<pvars, fvars>>

Read == phase = "sema" /\ Start(Written, NoMore) /\ phase' = "read" /\ UNCHANGED <<ast, fvars>>

Reading == phase = "read" /\ ParserStep /\ UNCHANGED <<ast, phase, fvars>>

Free == phase = "read" /\ ast_free /\ UNCHANGED <<ast, phase, pvars>>

\* The tree is freed, and the parser is not called again.
Over == freed # <<>> /\ walk = <<>> /\ UNCHANGED <<ast, phase, pvars, fvars>>

RoundTripNext == Grow \/ Read \/ Reading \/ Free \/ Over

roundVars == <<ast, phase, pvars, fvars>>

RoundTripInit == AstInit /\ ParserInit /\ FreeInit
RoundTripSpec == RoundTripInit /\ [][RoundTripNext]_roundVars

(* Property. *)

(* No program is refused and none is misread: the text of any tree of the grammar parses without *)
(* an error, to that tree.  Where an else would have to skip an open if, the text means another  *)
(* tree, the one C gives it.                                                                     *)
GivesBack ==
  phase = "read" /\ Parsed =>
    /\ ~had_error
    /\ IF ElsesAttach(ast) THEN ShapeOf(nodes)[Len(nodes)] = ShapeOf(ast)[1]
       ELSE ElsesAttach(nodes)
=============================================================================
