------------------------------- MODULE Grammar -------------------------------
(***************************************************************************)
(* The nodes of the abstract syntax tree (Parser.h) and the children a     *)
(* node of each kind has.  A kind that starts with "?" is a position whose *)
(* parse function has not run yet (Ast).                                   *)
(***************************************************************************)
EXTENDS Integers, Sequences, FiniteSets

NoName == "-"
NoOp == "-"

TypeInfo(base, depth) == [base |-> base, ptr_depth |-> depth]

\* calloc() zeroes TypeInfo and TOKEN_INT_LIT is 0: the type of a node nothing annotated.
Unset == TypeInfo("INT_LIT", 0)

BaseTypes == {"INT", "CHAR"}
TypeInfos == [base : BaseTypes, ptr_depth : Nat]

HoleKinds == {"?program", "?decl", "?block", "?stmt", "?forinit", "?expr"}
StmtKinds == {"VAR_DECL", "BLOCK", "RETURN", "IF", "WHILE", "FOR", "EXPR_STMT"}
Literals == {"INT_LIT", "CHAR_LIT", "STR_LIT"}
ExprKinds ==
  Literals \cup {"IDENT", "ASSIGN", "BINARY", "UNARY", "CALL", "INDEX", "MEMBER"}
NodeKinds ==
  HoleKinds \cup StmtKinds \cup ExprKinds \cup {"PROGRAM", "FUNC_DECL", "NULL"}

\* alloc_node: a zeroed node of the given kind.
Node(kind) ==
  [kind |-> kind, name |-> NoName, type |-> Unset, op |-> NoOp,
   params |-> <<>>, kids |-> <<>>]

ExprSlot == {"?expr"} \cup ExprKinds
StmtSlot == {"?stmt"} \cup StmtKinds
Null == {"NULL"}

IsStmtSlot(kind, i) ==
  \/ kind = "BLOCK"
  \/ kind = "IF" /\ i \in {2, 3}
  \/ kind = "WHILE" /\ i = 2
  \/ kind = "FOR" /\ i = 4
MayBeNull(kind, i) ==
  \/ kind \in {"FUNC_DECL", "VAR_DECL", "RETURN"}
  \/ kind = "IF" /\ i = 3
  \/ kind = "FOR" /\ i \in {1, 2, 3}

\* What child i of a node of the kind may be.
Slot(kind, i) ==
  (IF kind = "PROGRAM" THEN {"?decl", "FUNC_DECL", "VAR_DECL"}
   ELSE IF kind = "FUNC_DECL" THEN {"?block", "BLOCK"}
   ELSE IF kind = "FOR" /\ i = 1 THEN {"?forinit", "VAR_DECL", "EXPR_STMT"}
   ELSE IF IsStmtSlot(kind, i) THEN StmtSlot
   ELSE ExprSlot)
    \cup IF MayBeNull(kind, i) THEN Null ELSE {}

HasArity(kind, k) ==
  /\ kind = "CALL" => k >= 1
  /\ kind = "FOR" => k = 4
  /\ kind = "IF" => k = 3
  /\ kind \in {"WHILE", "ASSIGN", "BINARY", "INDEX"} => k = 2
  /\ kind \in {"FUNC_DECL", "VAR_DECL", "RETURN", "EXPR_STMT", "UNARY", "MEMBER"} => k = 1
  /\ kind \in HoleKinds \cup Literals \cup {"IDENT", "NULL"} => k = 0
=============================================================================
