--------------------------------- MODULE Ast ---------------------------------
(***************************************************************************)
(* The trees that parse() can return without a parse error.  A tree is a   *)
(* sequence of nodes; a node names its children by their position, and a   *)
(* null child pointer is a child of kind "NULL".  The tree is grown from   *)
(* the root down: a position still to be parsed is a hole whose kind says  *)
(* which parse function fills it.  Each action is the contribution of one  *)
(* parse function to the tree; tokens, precedence and error recovery are   *)
(* in Parser.  One kind of tree is too many: an if without else as the end *)
(* of the then-branch of an if with one, which no text gives (RoundTrip).  *)
(***************************************************************************)
EXTENDS Grammar

CONSTANTS
  Names,      \* identifiers
  VarNames,   \* those variable declarations use
  FuncNames,  \* those function declarations use
  DeclTypes,  \* the types declarations name (parse_type)
  ParamLists, \* the parameter lists function signatures have
  Kinds,      \* the node kinds the program is built from
  BinaryOps,  \* operators of NODE_BINARY
  UnaryOps,   \* operators of NODE_UNARY
  MaxNodes,   \* bound: nodes of a tree (see Size)
  MaxList     \* bound: length of a statement, declaration or argument list

VARIABLES
  ast,        \* the tree, root at 1
  phase       \* the compiler phase that runs next

Parameters == [name : Names, type : TypeInfos]

ASSUME AstAssumption ==
  /\ MaxNodes \in Nat
  /\ MaxList \in Nat
  /\ NoName \notin Names
  /\ VarNames \subseteq Names /\ FuncNames \subseteq Names
  /\ DeclTypes \subseteq TypeInfos
  /\ \A p \in ParamLists : p \in Seq(Parameters)
  /\ UnaryOps \subseteq {"MINUS", "BANG", "STAR", "AMP"}

Nodes == DOMAIN ast
Kind(n) == ast[n].kind
Kid(n, i) == ast[n].kids[i]
Arity(n) == Len(ast[n].kids)
IsNull(n) == Kind(n) = "NULL"
Holes == {n \in Nodes : Kind(n) \in HoleKinds}

\* Null children are free, and an expression statement costs what its expression costs.
Size == Cardinality({n \in Nodes : Kind(n) \notin {"NULL", "EXPR_STMT"}})

Repeat(kind, k) == [i \in 1..k |-> kind]

\* The leftmost open hole, if one of the given kinds, becomes node with one child per entry of shape.
Fill(holes, node, shape) ==
  /\ phase = "parse"
  /\ node.kind \in Kinds
  /\ Size + Cardinality({i \in DOMAIN shape : shape[i] # "NULL"})
       - (IF node.kind = "EXPR_STMT" THEN 1 ELSE 0) <= MaxNodes
  /\ \E h \in Holes :
       /\ \A g \in Holes : h <= g
       /\ Kind(h) \in holes
       /\ ast' = [ast EXCEPT ![h] =
                    [node EXCEPT !.kids = [i \in 1..Len(shape) |-> Len(ast) + i]]]
                 \o [i \in 1..Len(shape) |-> Node(shape[i])]
  /\ phase' = IF \E m \in DOMAIN ast' : ast'[m].kind \in HoleKinds
              THEN "parse" ELSE "sema"

Optional(hole) == {hole, "NULL"}

Parse ==
  \E k \in 0..MaxList : Fill({"?program"}, Node("PROGRAM"), Repeat("?decl", k))

ParseFuncDecl ==
  \E x \in FuncNames, t \in DeclTypes, ps \in ParamLists, body \in Optional("?block") :
    Fill({"?decl"},
         [Node("FUNC_DECL") EXCEPT !.name = x, !.type = t, !.params = ps],
         <<body>>)

ParseVarDecl ==
  \E x \in VarNames, t \in DeclTypes, init \in Optional("?expr") :
    Fill({"?decl", "?stmt", "?forinit"},
         [Node("VAR_DECL") EXCEPT !.name = x, !.type = t], <<init>>)

ParseBlock ==
  \E k \in 0..MaxList :
    Fill({"?block", "?stmt"}, Node("BLOCK"), Repeat("?stmt", k))

ParseReturn ==
  \E e \in Optional("?expr") : Fill({"?stmt"}, Node("RETURN"), <<e>>)

ParseIf ==
  \E else \in Optional("?stmt") :
    Fill({"?stmt"}, Node("IF"), <<"?expr", "?stmt", else>>)

ParseWhile == Fill({"?stmt"}, Node("WHILE"), <<"?expr", "?stmt">>)

ParseFor ==
  \E init \in Optional("?forinit"), cond, post \in Optional("?expr") :
    Fill({"?stmt"}, Node("FOR"), <<init, cond, post, "?stmt">>)

ParseExprStmt == Fill({"?stmt", "?forinit"}, Node("EXPR_STMT"), <<"?expr">>)

ParsePrimary ==
  \/ \E lit \in Literals : Fill({"?expr"}, Node(lit), <<>>)
  \/ \E x \in Names : Fill({"?expr"}, [Node("IDENT") EXCEPT !.name = x], <<>>)

\* Parentheses let any expression stand as operand, callee or assignment target.
ParsePostfix ==
  \/ \E k \in 0..MaxList : Fill({"?expr"}, Node("CALL"), Repeat("?expr", k + 1))
  \/ Fill({"?expr"}, Node("INDEX"), <<"?expr", "?expr">>)
  \/ Fill({"?expr"}, Node("MEMBER"), <<"?expr">>)

ParseUnary ==
  \E o \in UnaryOps : Fill({"?expr"}, [Node("UNARY") EXCEPT !.op = o], <<"?expr">>)

\* A bug: the right operand is not parsed.
ParseBinaryLeft ==
  \E o \in BinaryOps : Fill({"?expr"}, [Node("BINARY") EXCEPT !.op = o], <<"?expr">>)

ParseBinary ==
  \E o \in BinaryOps :
    Fill({"?expr"}, [Node("BINARY") EXCEPT !.op = o], <<"?expr", "?expr">>)

ParseAssignment == Fill({"?expr"}, Node("ASSIGN"), <<"?expr", "?expr">>)

AstInit == /\ ast = <<Node("?program")>>
           /\ phase = "parse"

AstNext ==
  \/ Parse \/ ParseFuncDecl \/ ParseVarDecl \/ ParseBlock
  \/ ParseReturn \/ ParseIf \/ ParseWhile \/ ParseFor \/ ParseExprStmt
  \/ ParsePrimary \/ ParsePostfix \/ ParseUnary \/ ParseBinary \/ ParseAssignment

-----------------------------------------------------------------------------
(* Properties. *)

Labelled(n) ==
  /\ n.kind = "FUNC_DECL" => n.name \in FuncNames /\ n.type \in TypeInfos
  /\ n.kind = "VAR_DECL" => n.name \in VarNames /\ n.type \in TypeInfos
  /\ n.kind = "IDENT" => n.name \in Names
  /\ n.kind = "UNARY" => n.op \in UnaryOps

NodeType ==
  [kind : NodeKinds, name : Names \cup {NoName}, type : TypeInfos \cup {Unset},
   op : BinaryOps \cup UnaryOps \cup {NoOp}, params : ParamLists \cup {<<>>}, kids : Seq(Nat)]

(* Every tree the parse functions build is one of the grammar: a node has the children  *)
(* its kind has in ASTNode (Parser.h), each of a kind the later phases switch on there. *)
AstTypeOK ==
  /\ ast \in Seq(NodeType) /\ ast # <<>> /\ Kind(1) \in {"?program", "PROGRAM"}
  /\ \A n \in Nodes :
       /\ Labelled(ast[n]) /\ HasArity(Kind(n), Arity(n))
       /\ \A i \in 1..Arity(n) :
            Kid(n, i) \in Nodes /\ Kid(n, i) > n /\ Kind(Kid(n, i)) \in Slot(Kind(n), i)
  /\ phase \notin {"parse", "done"} => Holes = {}
=============================================================================
