------------------------------- MODULE Freeing -------------------------------
(***************************************************************************)
(* ast_free() on the tree parse() built: main() calls it on the root once  *)
(* the phases are over, unless the parser found an error.  A call goes     *)
(* through the children its case of the switch names, then frees the node. *)
(***************************************************************************)
EXTENDS Parser

VARIABLES
  walk,   \* the active calls of ast_free(), innermost last
  freed   \* history: the nodes given to free(), in order

fvars == <<walk, freed>>

Visit(n) == [node |-> n, next |-> 1]

\* The children the case of each kind names: fields, or a field and then a list.
Fields(kind) ==
  CASE kind \in {"FUNC_DECL", "VAR_DECL", "RETURN", "EXPR_STMT", "UNARY", "CALL", "MEMBER"} -> 1
    [] kind \in {"WHILE", "ASSIGN", "BINARY", "INDEX"} -> 2
    [] kind = "IF" -> 3
    [] kind = "FOR" -> 4
    [] OTHER -> 0

ListOf(node) ==
  IF node.kind \in {"PROGRAM", "BLOCK", "CALL"}
  THEN SubSeq(node.kids, Fields(node.kind) + 1, Len(node.kids)) ELSE <<>>

\* A bug: the else branch is forgotten.
ChildrenButElse(node) ==
  SubSeq(node.kids, 1, IF node.kind = "IF" THEN 2 ELSE Fields(node.kind)) \o ListOf(node)

Children(node) == SubSeq(node.kids, 1, Fields(node.kind)) \o ListOf(node)

FreeInit == walk = <<>> /\ freed = <<>>

FreeRoot ==
  /\ Parsed /\ ~had_error /\ walk = <<>> /\ freed = <<>>
  /\ walk' = <<Visit(Len(nodes))>> /\ UNCHANGED freed

\* The call for a null child returns at once.
FreeChild ==
  /\ walk # <<>>
  /\ LET top == Last(walk)
         kids == Children(nodes[top.node])
     IN  /\ top.next <= Len(kids)
         /\ walk' = Append(Front(walk), [top EXCEPT !.next = @ + 1])
                      \o IF kids[top.next] = 0 THEN <<>> ELSE <<Visit(kids[top.next])>>
  /\ UNCHANGED freed

FreeNode ==
  /\ walk # <<>>
  /\ LET top == Last(walk)
     IN  /\ top.next > Len(Children(nodes[top.node]))
         /\ walk' = Front(walk) /\ freed' = Append(freed, top.node)

ast_free == FreeRoot \/ FreeChild \/ FreeNode

(* Property. *)

(* No node is freed twice or looked at after it was freed, and when ast_free() returns nothing *)
(* alloc_node() ever gave out is left: the parser shares no node and drops none.               *)
FreesEachOnce ==
  /\ IsInjective(freed)
  /\ \A i \in DOMAIN walk : walk[i].node \notin Range(freed)
  /\ walk = <<>> /\ freed # <<>> => Range(freed) = DOMAIN nodes
=============================================================================
