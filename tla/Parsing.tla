-------------------------------- MODULE Parsing --------------------------------
(***************************************************************************)
(* The parser run on its own, over every text within the bounds, and what  *)
(* it promises main() and the phases after it.                             *)
(***************************************************************************)
EXTENDS Parser, Text

CONSTANT
  Texts   \* how texts begin (given) and may go on: with count tokens of types, after of them
          \* after the first error

ASSUME TextsAssumption ==
  \A t \in Texts : t.given # <<>> /\ t.count \in Nat /\ t.after \in Nat

Ended == Parsed /\ UNCHANGED pvars
ParsingNext == (\E t \in Texts : Start(t.given, t)) \/ ParserStep \/ Ended
ParsingSpec == ParserInit /\ [][ParsingNext]_pvars /\ WF_pvars(ParsingNext)

(* Properties. *)

KidKind(m) == IF m = 0 THEN "NULL" ELSE nodes[m].kind

(* Whatever the text, also after any number of errors, every node has the children its *)
(* kind has in ASTNode, of kinds the walks over the tree have a case for.               *)
TreeTypeOK ==
  /\ Len(parens) = Len(nodes)
  /\ \A n \in DOMAIN nodes :
       LET node == nodes[n]
       IN  /\ node.kind \in NodeKinds \ (HoleKinds \cup {"NULL"})
           /\ HasArity(node.kind, Len(node.kids))
           /\ \A i \in DOMAIN node.kids :
                node.kids[i] \in 0..(n - 1) /\ KidKind(node.kids[i]) \in Slot(node.kind, i)

(* What parse() accepts it has understood: the tree without an error is written with *)
(* exactly the tokens that were read, every operator has the operands the precedence and   *)
(* associativity of C give it, and an else belongs to the nearest if.                     *)
ReadsBack ==
  Parsed /\ ~had_error =>
    /\ TextOf(nodes, parens)[Len(nodes)] = Front(seen)
    /\ Nests(nodes, parens)
    /\ ElsesAttach(nodes)

(* Error recovery ends: parse() returns on every text, since each loop consumes or leaves. *)
ParseReturns == <>Parsed
=============================================================================
