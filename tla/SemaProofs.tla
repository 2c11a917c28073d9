------------------------------ MODULE SemaProofs ------------------------------
(***************************************************************************)
(* Proofs about the tree and Sema: a step of any parse function keeps the  *)
(* tree in the grammar, Sema's invariant and, for the phases after it,     *)
(* that they leave its results alone; then the order in which Sema visits  *)
(* the tree, which says what function a return belongs to.                 *)
(***************************************************************************)
EXTENDS StaticSemantics, FiniteSetTheorems, SequenceTheorems, TLAPS

-----------------------------------------------------------------------------
(* The tree. *)

\* The kinds a hole is filled with.
Filling(hole) ==
  CASE hole = "?program" -> {"PROGRAM"}
    [] hole = "?decl" -> {"FUNC_DECL", "VAR_DECL"}
    [] hole = "?block" -> {"BLOCK"}
    [] hole = "?stmt" -> StmtKinds
    [] hole = "?forinit" -> {"VAR_DECL", "EXPR_STMT"}
    [] OTHER -> ExprKinds

USE DEF HoleKinds

\* A node of a kind that fills a hole fits wherever the hole did.
LEMMA FillingFits ==
  ASSUME NEW hole \in HoleKinds, NEW kind, NEW i, hole \in Slot(kind, i)
  PROVE  Filling(hole) \subseteq Slot(kind, i)
  BY DEF Slot, IsStmtSlot, MayBeNull, Filling, ExprSlot, StmtSlot, ExprKinds, StmtKinds, Literals, Null

LEMMA FieldsOfNode ==
  \A kind : Node(kind).kind = kind /\ Node(kind).kids = <<>>
  BY DEF Node

\* What a parse function gives Fill: a node of the kind, children it may have, a hole it fits.
NodeOK(new, kind) == new \in NodeType /\ new.kind = kind /\ Labelled(new)

ShapeOK(shape, kind) ==
  /\ shape \in Seq(HoleKinds \cup Null)
  /\ HasArity(kind, Len(shape))
  /\ \A i \in 1..Len(shape) : shape[i] \in Slot(kind, i)

Fits(holes, kind) == holes \in SUBSET HoleKinds /\ \A h \in holes : kind \in Filling(h)

\* One step of a parse function: the leftmost hole becomes a well-formed node with new children.
LEMMA FillKeepsTree ==
  ASSUME AstTypeOK, NEW holes, NEW kind, NEW new, NEW shape, Fill(holes, new, shape),
         NodeOK(new, kind), ShapeOK(shape, kind), Fits(holes, kind)
  PROVE  AstTypeOK'
<1> USE DEF NodeOK, ShapeOK, Fits
<1> DEFINE k == Len(shape)
           a == Len(ast)
           kids == [i \in 1..k |-> a + i]
           filled == [new EXCEPT !.kids = kids]
           fresh == [i \in 1..k |-> Node(shape[i])]
<1>0. k \in Nat /\ a \in Nat /\ DOMAIN shape = 1..k /\ Nodes = 1..a
  BY DEF AstTypeOK, Nodes
<1>1. PICK h \in Nodes : Kind(h) \in holes /\ ast' = [ast EXCEPT ![h] = filled] \o fresh
  BY <1>0 DEF Fill, Holes
<1>2. filled \in NodeType /\ filled.kind = new.kind /\ filled.kids = kids
      /\ filled.name = new.name /\ filled.type = new.type /\ filled.op = new.op
  <2>1. kids \in Seq(Nat)
    BY <1>0
  <2> QED
    BY <2>1 DEF NodeType
<1>3. fresh \in Seq(NodeType) /\ Len(fresh) = k
  <2>1. \A i \in 1..k : Node(shape[i]) \in NodeType
    BY <1>0 DEF Node, NodeType, NodeKinds, Null, NoName, NoOp, Unset, TypeInfo
  <2> QED
    BY <2>1, <1>0
<1>4. [ast EXCEPT ![h] = filled] \in Seq(NodeType) /\ Len([ast EXCEPT ![h] = filled]) = a
  BY <1>0, <1>2 DEF AstTypeOK
<1>5. /\ ast' \in Seq(NodeType) /\ Len(ast') = a + k
      /\ \A n \in 1..a : ast'[n] = IF n = h THEN filled ELSE ast[n]
      /\ \A i \in 1..k : ast'[a + i] = Node(shape[i])
  BY <1>0, <1>1, <1>2, <1>3, <1>4 DEF AstTypeOK
<1>6. Nodes' = 1..(a + k)
  BY <1>5 DEF Nodes
<1> HIDE DEF filled, fresh
<1>7. a + k >= 1
  BY <1>0 DEF AstTypeOK
<1>8. ASSUME NEW n \in 1..a, n # h
      PROVE  /\ Labelled(ast'[n]) /\ HasArity(ast'[n].kind, Len(ast'[n].kids))
             /\ \A i \in 1..Len(ast'[n].kids) :
                  /\ ast'[n].kids[i] \in Nodes' /\ ast'[n].kids[i] > n
                  /\ ast'[ast'[n].kids[i]].kind \in Slot(ast'[n].kind, i)
  <2>1. ast'[n] = ast[n]
    BY <1>5, <1>8
  <2>2. ASSUME NEW i \in 1..Len(ast[n].kids)
        PROVE  /\ ast[n].kids[i] \in 1..a /\ ast[n].kids[i] > n
               /\ ast'[ast[n].kids[i]].kind \in Slot(ast[n].kind, i)
    <3> DEFINE c == ast[n].kids[i]
    <3>1. c \in 1..a /\ c > n /\ ast[c].kind \in Slot(ast[n].kind, i)
      BY <1>0 DEF AstTypeOK, Nodes, Kid, Kind, Arity
    <3>2. CASE c = h
      <4>1. Kind(h) \in HoleKinds /\ new.kind \in Filling(Kind(h))
        BY <1>1
      <4> QED
        BY <3>1, <3>2, <4>1, <1>5, <1>2, FillingFits DEF Kind
    <3>3. CASE c # h
      BY <3>1, <3>3, <1>5
    <3> QED
      BY <3>1, <3>2, <3>3
  <2>3. Labelled(ast[n]) /\ HasArity(ast[n].kind, Len(ast[n].kids))
    BY <1>0 DEF AstTypeOK, Nodes, Arity, Kind
  <2>4. 1..a \subseteq Nodes'
    BY <1>0, <1>6
  <2> QED
    BY <2>1, <2>2, <2>3, <2>4
<1>9. /\ Labelled(ast'[h]) /\ HasArity(ast'[h].kind, Len(ast'[h].kids))
      /\ \A i \in 1..Len(ast'[h].kids) :
           /\ ast'[h].kids[i] \in Nodes' /\ ast'[h].kids[i] > h
           /\ ast'[ast'[h].kids[i]].kind \in Slot(ast'[h].kind, i)
  <2>1. ast'[h] = filled /\ h \in 1..a
    BY <1>0, <1>5
  <2>2. Len(kids) = k /\ \A i \in 1..k : kids[i] = a + i
    BY <1>0
  <2>3. \A i \in 1..k : ast'[a + i].kind = shape[i]
    BY <1>5, FieldsOfNode
  <2>4. Labelled(filled)
    BY <1>2 DEF Labelled
  <2>5. \A i \in 1..k : a + i \in Nodes' /\ a + i > h
    BY <1>0, <1>6, <2>1
  <2> QED
    BY <1>2, <2>1, <2>2, <2>3, <2>4, <2>5
<1>10. \A n \in 1..k :
        /\ Labelled(ast'[a + n]) /\ ast'[a + n].kids = <<>>
        /\ HasArity(ast'[a + n].kind, 0)
  <2> SUFFICES ASSUME NEW n \in 1..k
               PROVE  Labelled(Node(shape[n])) /\ HasArity(shape[n], 0)
    BY <1>5, FieldsOfNode
  <2>1. shape[n] \in HoleKinds \cup {"NULL"}
    BY <1>0 DEF Null
  <2> QED
    BY <2>1 DEF Node, Labelled, HasArity, ExprKinds, StmtKinds, Literals
<1>11. phase' \notin {"parse", "done"} => Holes' = {}
  BY DEF Fill, Holes, Nodes, Kind
<1>12. ASSUME NEW n \in Nodes'
       PROVE  /\ Labelled(ast'[n]) /\ HasArity(ast'[n].kind, Len(ast'[n].kids))
              /\ \A i \in 1..Len(ast'[n].kids) :
                   /\ ast'[n].kids[i] \in Nodes' /\ ast'[n].kids[i] > n
                   /\ ast'[ast'[n].kids[i]].kind \in Slot(ast'[n].kind, i)
  <2>1. CASE n \in 1..a
    BY <2>1, <1>8, <1>9
  <2>2. CASE n \notin 1..a
    <3>1. n - a \in 1..k /\ a + (n - a) = n
      BY <2>2, <1>0, <1>6
    <3> QED
      BY <3>1, <1>10
  <2> QED
    BY <2>1, <2>2
<1>13. ast'[1].kind \in {"?program", "PROGRAM"}
  <2>1. ast[1].kind \in {"?program", "PROGRAM"} /\ 1 \in 1..a
    BY <1>0 DEF AstTypeOK, Kind
  <2>2. new.kind \in Filling(ast[h].kind)
    BY <1>1 DEF Kind
  <2> QED
    BY <1>1, <1>2, <1>5, <2>1, <2>2 DEF Filling, Kind
<1> QED
  BY <1>5, <1>7, <1>11, <1>12, <1>13 DEF AstTypeOK, Arity, Kid, Kind


LEMMA PlainNode ==
  ASSUME NEW kind \in NodeKinds \ {"FUNC_DECL", "VAR_DECL", "IDENT", "UNARY"}
  PROVE  NodeOK(Node(kind), kind)
  BY DEF Node, NodeType, NoName, NoOp, Unset, TypeInfo, NodeOK, Labelled

LEMMA NodeFields ==
  ASSUME NEW kind \in NodeKinds
  PROVE  Node(kind) \in NodeType /\ Node(kind).kind = kind
  BY DEF Node, NodeType, NoName, NoOp, Unset, TypeInfo

LEMMA IdentNode ==
  ASSUME NEW x \in Names
  PROVE  NodeOK([Node("IDENT") EXCEPT !.name = x], "IDENT")
<1> "IDENT" \in NodeKinds
  BY DEF NodeKinds, ExprKinds
<1> QED
  BY NodeFields DEF NodeType, NodeOK, Labelled

LEMMA OperatorNode ==
  ASSUME NEW kind \in {"UNARY", "BINARY"}, NEW o \in BinaryOps \cup UnaryOps,
         kind = "UNARY" => o \in UnaryOps
  PROVE  NodeOK([Node(kind) EXCEPT !.op = o], kind)
<1> kind \in NodeKinds
  BY DEF NodeKinds, ExprKinds
<1> QED
  BY NodeFields DEF NodeType, NodeOK, Labelled

LEMMA NamedNode ==
  ASSUME NEW kind \in NodeKinds, NEW x \in Names
  PROVE  [Node(kind) EXCEPT !.name = x] \in NodeType
         /\ [Node(kind) EXCEPT !.name = x].kind = kind
         /\ [Node(kind) EXCEPT !.name = x].name = x
  BY NodeFields DEF NodeType

LEMMA VarDeclNode ==
  ASSUME NEW x \in VarNames, NEW t \in TypeInfos
  PROVE  NodeOK([Node("VAR_DECL") EXCEPT !.name = x, !.type = t], "VAR_DECL")
<1> DEFINE named == [Node("VAR_DECL") EXCEPT !.name = x]
<1>1. named \in NodeType /\ named.kind = "VAR_DECL" /\ named.name = x
  BY NamedNode, AstAssumption DEF NodeKinds, StmtKinds, AstAssumption
<1> HIDE DEF named
<1>2. NodeOK([named EXCEPT !.type = t], "VAR_DECL")
  BY <1>1 DEF NodeType, NodeOK, Labelled
<1> QED
  BY <1>2 DEF named

LEMMA FuncDeclNode ==
  ASSUME NEW x \in FuncNames, NEW t \in TypeInfos, NEW ps \in ParamLists
  PROVE  NodeOK([Node("FUNC_DECL") EXCEPT !.name = x, !.type = t, !.params = ps], "FUNC_DECL")
<1> DEFINE named == [Node("FUNC_DECL") EXCEPT !.name = x]
           typed == [named EXCEPT !.type = t]
<1>1. named \in NodeType /\ named.kind = "FUNC_DECL" /\ named.name = x
  BY NamedNode, AstAssumption DEF NodeKinds, AstAssumption
<1> HIDE DEF named
<1>2. typed \in NodeType /\ typed.kind = "FUNC_DECL" /\ typed.name = x /\ typed.type = t
  BY <1>1 DEF NodeType
<1> HIDE DEF typed
<1>3. NodeOK([typed EXCEPT !.params = ps], "FUNC_DECL")
  BY <1>2 DEF NodeType, NodeOK, Labelled
<1> QED
  BY <1>3 DEF typed, named

LEMMA RepeatIsShape ==
  ASSUME NEW k \in 0..MaxList
  PROVE  /\ ShapeOK(Repeat("?decl", k), "PROGRAM")
         /\ ShapeOK(Repeat("?stmt", k), "BLOCK")
         /\ ShapeOK(Repeat("?expr", k + 1), "CALL")
<1>1. k \in Nat
  BY AstAssumption DEF AstAssumption
<1> DEFINE r(hole, l) == Repeat(hole, l)
<1>2. ASSUME NEW hole \in HoleKinds, NEW l \in Nat
      PROVE  /\ r(hole, l) \in Seq(HoleKinds \cup Null) /\ Len(r(hole, l)) = l
             /\ \A i \in 1..l : r(hole, l)[i] = hole
  BY DEF Repeat
<1> HIDE DEF r
<1>3. ShapeOK(r("?decl", k), "PROGRAM")
  BY <1>1, <1>2 DEF ShapeOK, HasArity, Slot, IsStmtSlot, MayBeNull, ExprKinds, StmtKinds, Literals
<1>4. ShapeOK(r("?stmt", k), "BLOCK")
  BY <1>1, <1>2 DEF ShapeOK, HasArity, Slot, IsStmtSlot, MayBeNull, ExprKinds, StmtKinds, Literals, StmtSlot
<1>5. ShapeOK(r("?expr", k + 1), "CALL")
  <2>1. k + 1 \in Nat /\ k + 1 >= 1
    BY <1>1
  <2> QED
    BY <2>1, <1>2 DEF ShapeOK, HasArity, Slot, IsStmtSlot, MayBeNull, ExprKinds, StmtKinds, Literals, ExprSlot
<1> QED
  BY <1>3, <1>4, <1>5 DEF r

LEMMA Shapes ==
  /\ \A body \in Optional("?block") : ShapeOK(<<body>>, "FUNC_DECL")
  /\ \A e \in Optional("?expr") : ShapeOK(<<e>>, "VAR_DECL") /\ ShapeOK(<<e>>, "RETURN")
  /\ \A else \in Optional("?stmt") : ShapeOK(<<"?expr", "?stmt", else>>, "IF")
  /\ ShapeOK(<<"?expr", "?stmt">>, "WHILE")
  /\ \A init \in Optional("?forinit"), cond, post \in Optional("?expr") :
       ShapeOK(<<init, cond, post, "?stmt">>, "FOR")
  /\ \A kind \in {"EXPR_STMT", "UNARY", "MEMBER"} : ShapeOK(<<"?expr">>, kind)
  /\ \A kind \in {"ASSIGN", "BINARY", "INDEX"} : ShapeOK(<<"?expr", "?expr">>, kind)
  /\ \A kind \in Literals \cup {"IDENT"} : ShapeOK(<<>>, kind)
<1> USE DEF ShapeOK, HasArity, Slot, IsStmtSlot, MayBeNull, ExprSlot, StmtSlot, Null, ExprKinds, StmtKinds, Literals,
            Optional
<1>1. \A body \in Optional("?block") : ShapeOK(<<body>>, "FUNC_DECL")
  OBVIOUS
<1>2. \A e \in Optional("?expr") : ShapeOK(<<e>>, "VAR_DECL") /\ ShapeOK(<<e>>, "RETURN")
  OBVIOUS
<1>3. \A else \in Optional("?stmt") : ShapeOK(<<"?expr", "?stmt", else>>, "IF")
  OBVIOUS
<1>4. ShapeOK(<<"?expr", "?stmt">>, "WHILE")
  OBVIOUS
<1>5. ASSUME NEW init \in Optional("?forinit"), NEW cond \in Optional("?expr"),
             NEW post \in Optional("?expr")
      PROVE  ShapeOK(<<init, cond, post, "?stmt">>, "FOR")
  OBVIOUS
<1>6. /\ \A kind \in {"EXPR_STMT", "UNARY", "MEMBER"} : ShapeOK(<<"?expr">>, kind)
      /\ \A kind \in {"ASSIGN", "BINARY", "INDEX"} : ShapeOK(<<"?expr", "?expr">>, kind)
  OBVIOUS
<1>7. \A kind \in Literals \cup {"IDENT"} : ShapeOK(<<>>, kind)
  OBVIOUS
<1> QED
  BY <1>1, <1>2, <1>3, <1>4, <1>5, <1>6, <1>7

LEMMA Fillings ==
  /\ Fits({"?program"}, "PROGRAM") /\ Fits({"?decl"}, "FUNC_DECL")
  /\ Fits({"?decl", "?stmt", "?forinit"}, "VAR_DECL") /\ Fits({"?block", "?stmt"}, "BLOCK")
  /\ \A kind \in {"RETURN", "IF", "WHILE", "FOR"} : Fits({"?stmt"}, kind)
  /\ Fits({"?stmt", "?forinit"}, "EXPR_STMT")
  /\ \A kind \in ExprKinds : Fits({"?expr"}, kind)
  BY DEF Fits, Filling, StmtKinds

Filled(kind, new) ==
  \E holes, shape :
    Fill(holes, new, shape) /\ NodeOK(new, kind) /\ ShapeOK(shape, kind) /\ Fits(holes, kind)

\* Every parse function fills a hole with a node that fits.
LEMMA AstFills ==
  ASSUME AstNext
  PROVE  \E kind, new : Filled(kind, new)
<1> USE DEF Filled
<1>k. /\ {"PROGRAM", "BLOCK", "RETURN", "IF", "WHILE", "FOR", "EXPR_STMT", "CALL", "INDEX",
          "MEMBER", "ASSIGN"} \cup Literals
           \subseteq NodeKinds \ {"FUNC_DECL", "VAR_DECL", "IDENT", "UNARY"}
      /\ Literals \cup {"IDENT", "CALL", "INDEX", "MEMBER", "UNARY", "BINARY", "ASSIGN"}
           \subseteq ExprKinds
  BY DEF NodeKinds, StmtKinds, ExprKinds, Literals
<1>a. VarNames \subseteq Names /\ FuncNames \subseteq Names /\ DeclTypes \subseteq TypeInfos
  BY AstAssumption DEF AstAssumption
<1> USE RepeatIsShape, Shapes, Fillings, PlainNode
<1>1. CASE Parse
  BY Zenon, <1>1, <1>k DEF Parse
<1>2. CASE ParseFuncDecl
  BY Zenon, <1>2, <1>k, FuncDeclNode, <1>a DEF ParseFuncDecl
<1>3. CASE ParseVarDecl
  BY Zenon, <1>3, <1>k, VarDeclNode, <1>a DEF ParseVarDecl
<1>4. CASE ParseBlock
  BY Zenon, <1>4, <1>k DEF ParseBlock
<1>5. CASE ParseReturn
  BY Zenon, <1>5, <1>k DEF ParseReturn
<1>6. CASE ParseIf
  BY Zenon, <1>6, <1>k DEF ParseIf
<1>7. CASE ParseWhile
  BY Zenon, <1>7, <1>k DEF ParseWhile
<1>8. CASE ParseFor
  BY Zenon, <1>8, <1>k DEF ParseFor
<1>9. CASE ParseExprStmt
  BY Zenon, <1>9, <1>k DEF ParseExprStmt
<1>10. CASE ParsePrimary
  BY Zenon, <1>10, <1>k, IdentNode DEF ParsePrimary
<1>11. CASE ParsePostfix
  BY Zenon, <1>11, <1>k DEF ParsePostfix
<1>12. CASE ParseUnary
  BY Zenon, <1>12, <1>k, OperatorNode DEF ParseUnary
<1>13. CASE ParseBinary
  BY Zenon, <1>13, <1>k, OperatorNode DEF ParseBinary
<1>14. CASE ParseAssignment
  BY Zenon, <1>14, <1>k DEF ParseAssignment
<1> QED
  BY AstNext, <1>1, <1>2, <1>3, <1>4, <1>5, <1>6, <1>7, <1>8, <1>9, <1>10, <1>11, <1>12, <1>13, <1>14 DEF AstNext

\* Every parse function keeps the tree in the grammar.
LEMMA AstStep ==
  ASSUME AstTypeOK, AstNext
  PROVE  AstTypeOK'
  BY AstFills, FillKeepsTree DEF Filled

-----------------------------------------------------------------------------
(* The typing rules. *)

Diags == [err : {0, 1}, warn : {0, 1}]

LEMMA DiagIsDiag == \A e, w : Diag(e, w) \in Diags
  BY DEF Diag, Diags

LEMMA SilentIsDiag == Silent \in Diags /\ Error \in Diags /\ Error.err = 1
  BY DEF Silent, Error, Diag, Diags

LEMMA ConversionIsDiag == \A to, from : Conversion(to, from) \in Diags
  BY DiagIsDiag, SilentIsDiag DEF Conversion

\* A rule gives a type, and no type only after an error or for an operand without one.
Sound(result, operands) ==
  /\ result.type \in Types /\ result.diag \in Diags
  /\ result.type = Unknown => result.diag.err = 1 \/ Unknown \in operands

LEMMA TypesFacts ==
  /\ IntType \in Types /\ IntType # Unknown
  /\ CharType \in Types /\ CharType # Unknown
  /\ Unset \in Types /\ Unset # Unknown /\ Unknown \in Types
  /\ \A t \in TypeInfos : t \in Types /\ t # Unknown
  /\ \A t \in Types \ {Unknown} :
       /\ PointerTo(t) \in Types /\ PointerTo(t) # Unknown
       /\ ~Scalar(t) => Pointee(t) \in Types /\ Pointee(t) # Unknown
  BY DEF Types, TypeInfos, BaseTypes, IntType, CharType, Unset, Unknown, TypeInfo, PointerTo,
         Pointee, Scalar

LEMMA ResultFields ==
  \A type, diag : Result(type, diag).type = type /\ Result(type, diag).diag = diag
  BY DEF Result

\* The rules of analyse_expr_impl.
LEMMA RulesAreSound ==
  ASSUME NEW s \in Types, NEW t \in Types
  PROVE  /\ Sound(AssignRule(s, t), {s, t})
         /\ \A op : Sound(BinaryRule(op, s, t), {s, t})
         /\ \A op \in {"MINUS", "BANG", "STAR", "AMP"} : Sound(UnaryRule(op, s), {s})
         /\ Sound(IndexRule(s, t), {s, t})
<1> USE DiagIsDiag, SilentIsDiag, ConversionIsDiag, TypesFacts, ResultFields DEF Sound
<1>1. Sound(AssignRule(s, t), {s, t})
  BY DEF AssignRule
<1>2. ASSUME NEW op PROVE Sound(BinaryRule(op, s, t), {s, t})
  <2>1. CASE s = Unknown \/ t = Unknown
    BY <2>1 DEF BinaryRule
  <2>2. CASE s # Unknown /\ t # Unknown
    <3>1. PICK type \in {IntType, CharType, s, t}, d \in Diags : BinaryRule(op, s, t) = Result(type, d)
      BY Zenon, <2>2 DEF BinaryRule, Silent
    <3> QED
      BY <3>1, <2>2
  <2> QED
    BY <2>1, <2>2
<1>3. ASSUME NEW op PROVE Sound(UnaryRule(op, s), {s})
  <2>1. CASE s = Unknown
    BY <2>1 DEF UnaryRule
  <2>2. CASE s # Unknown /\ op = "AMP"
    BY <2>2 DEF UnaryRule
  <2>3. CASE s # Unknown /\ op = "STAR"
    BY <2>3 DEF UnaryRule
  <2>4. CASE s # Unknown /\ op \notin {"AMP", "STAR"}
    BY <2>4 DEF UnaryRule
  <2> QED
    BY <2>1, <2>2, <2>3, <2>4
<1>4. Sound(IndexRule(s, t), {s, t})
  <2>1. CASE s = Unknown
    BY <2>1 DEF IndexRule
  <2>2. CASE s # Unknown /\ Scalar(s)
    BY <2>2 DEF IndexRule
  <2>3. CASE s # Unknown /\ ~Scalar(s)
    <3>1. PICK e, w : IndexRule(s, t) = Result(Pointee(s), Diag(e, w))
      BY <2>3, Zenon DEF IndexRule
    <3> QED
      BY <3>1, <2>3
  <2> QED
    BY <2>1, <2>2, <2>3
<1> QED
  BY <1>1, <1>2, <1>3, <1>4

-----------------------------------------------------------------------------
(* Symbols and scopes. *)

ScopeSet == UNION {[D -> Symbols] : D \in SUBSET Names}

LEMMA ScopeFacts ==
  /\ \A scope \in ScopeSet :
       /\ DOMAIN scope \subseteq Names
       /\ \A x \in DOMAIN scope : scope[x] \in Symbols
       /\ \A x \in Names, s \in Symbols : Insert(scope, x, s) \in ScopeSet
  /\ EmptyScope \in ScopeSet
<1>1. ASSUME NEW scope \in ScopeSet
      PROVE  DOMAIN scope \subseteq Names /\ \A x \in DOMAIN scope : scope[x] \in Symbols
  <2>1. PICK D \in SUBSET Names : scope \in [D -> Symbols]
    BY DEF ScopeSet
  <2> QED
    BY <2>1
<1>2. ASSUME NEW scope \in ScopeSet, NEW x \in Names, NEW s \in Symbols
      PROVE  Insert(scope, x, s) \in ScopeSet
  <2> DEFINE D == DOMAIN scope \cup {x}
  <2>1. D \in SUBSET Names
    BY <1>1
  <2>2. Insert(scope, x, s) \in [D -> Symbols]
    BY <1>1 DEF Insert
  <2> QED
    BY <2>1, <2>2 DEF ScopeSet
<1>3. EmptyScope \in ScopeSet
  <2>1. EmptyScope \in [{} -> Symbols]
    BY DEF EmptyScope
  <2> QED
    BY <2>1 DEF ScopeSet
<1> QED
  BY <1>1, <1>2, <1>3

\* A nonempty set of positions has a last and a first one.
LEMMA Extremes ==
  ASSUME NEW n \in Nat, NEW S \in SUBSET (1..n), S # {}
  PROVE  /\ \E i \in S : \A j \in S : j <= i
         /\ \E i \in S : \A j \in S : i <= j
<1>0. \E R : IsWellFoundedOn(R, Nat) /\ \A a, b \in Nat : <<a, b>> \in R <=> a < b
  <2>1. \A a, b \in Nat : <<a, b>> \in OpToRel(<, Nat) <=> a < b
    BY DEF OpToRel
  <2> QED
    BY <2>1, NatLessThanWellFounded
<1>w. PICK R : IsWellFoundedOn(R, Nat) /\ \A a, b \in Nat : <<a, b>> \in R <=> a < b
  BY <1>0
<1>r. IsWellFoundedOn(R, Nat)
  BY <1>w
<1>s. \A a, b \in Nat : ~(<<a, b>> \in R) => b <= a
  BY <1>w
<1>m. ASSUME NEW T \in SUBSET Nat, T # {}
      PROVE  \E k \in T : \A l \in T : k <= l
  <2>1. PICK k \in T : \A l \in T : ~(<<l, k>> \in R)
    BY <1>r, <1>m, WFMin, Zenon
  <2> QED
    BY <2>1, <1>m, <1>s
<1>1. \E i \in S : \A j \in S : i <= j
  <2>1. S \in SUBSET Nat
    OBVIOUS
  <2> QED
    BY <2>1, <1>m
<1>2. \E i \in S : \A j \in S : j <= i
  <2> DEFINE T == {k \in 0..n : n - k \in S}
  <2>1. PICK i \in S : TRUE
    OBVIOUS
  <2>2. n - i \in T
    OBVIOUS
  <2>3. PICK k \in T : \A l \in T : k <= l
    <3>1. T # {}
      BY <2>2
    <3>2. T \in SUBSET Nat
      OBVIOUS
    <3> HIDE DEF T
    <3> QED
      BY <3>1, <3>2, <1>m
  <2>4. n - k \in S /\ \A j \in S : n - j \in T
    OBVIOUS
  <2>5. \A j \in S : j <= n - k
    BY <2>3, <2>4
  <2> QED
    BY <2>4, <2>5
<1> QED
  BY <1>1, <1>2

\* scope_lookup returns a symbol of the chain or none.
LEMMA LookupIsSymbol ==
  ASSUME NEW chain \in Seq(ScopeSet), NEW x
  PROVE  LookupIn(chain, x) \in Symbols \cup {NoSymbol}
<1>1. CASE \A i \in DOMAIN chain : x \notin DOMAIN chain[i]
  BY <1>1 DEF LookupIn
<1>2. CASE \E i \in DOMAIN chain : x \in DOMAIN chain[i]
  <2> DEFINE Inner(i) == /\ x \in DOMAIN chain[i]
                         /\ \A j \in DOMAIN chain : j > i => x \notin DOMAIN chain[j]
             inner == CHOOSE i \in DOMAIN chain : Inner(i)
             holders == {i \in 1..Len(chain) : x \in DOMAIN chain[i]}
  <2>1. \E i \in DOMAIN chain : Inner(i)
    <3>1. DOMAIN chain = 1..Len(chain) /\ Len(chain) \in Nat
      OBVIOUS
    <3>2. holders # {} /\ holders \in SUBSET (1..Len(chain))
      BY <1>2, <3>1
    <3>3. PICK i \in holders : \A j \in holders : j <= i
      BY <3>1, <3>2, Extremes, ZenonT(30)
    <3> QED
      BY <3>1, <3>3
  <2>2. inner \in DOMAIN chain /\ Inner(inner)
    BY <2>1
  <2>3. LookupIn(chain, x) = chain[inner][x]
    BY <1>2 DEF LookupIn
  <2>4. chain[inner] \in ScopeSet
    BY <2>2
  <2> QED
    BY <2>2, <2>3, <2>4, ScopeFacts
<1> QED
  BY <1>1, <1>2

-----------------------------------------------------------------------------
(* The tree's nodes. *)

LEMMA ParameterFields ==
  ASSUME NEW params \in Seq(Parameters), NEW i \in DOMAIN params
  PROVE  params[i].name \in Names /\ params[i].type \in TypeInfos
<1>1. \A p \in Parameters : p.name \in Names /\ p.type \in TypeInfos
  BY DEF Parameters
<1> QED
  BY <1>1

LEMMA NodeFacts ==
  ASSUME AstTypeOK, NEW n \in Nodes
  PROVE  /\ ast[n].kids \in Seq(Nat) /\ Arity(n) \in Nat
         /\ \A i \in 1..Arity(n) : Kid(n, i) \in Nodes
         /\ HasArity(Kind(n), Arity(n)) /\ Labelled(ast[n])
         /\ ast[n].params \in Seq(Parameters)
<1>1. ast[n] \in NodeType /\ 1 \in Nodes
  BY DEF AstTypeOK, Nodes
<1>2. ast[n].params \in ParamLists \cup {<<>>}
  BY <1>1 DEF NodeType
<1>3. ast[n].params \in Seq(Parameters)
  <2>1. \A p \in ParamLists : p \in Seq(Parameters)
    BY AstAssumption DEF AstAssumption
  <2>2. <<>> \in Seq(Parameters)
    OBVIOUS
  <2> QED
    BY <1>2, <2>1, <2>2, Zenon
<1>4. ast[n].kids \in Seq(Nat) /\ Arity(n) \in Nat
  BY <1>1 DEF NodeType, Arity
<1> QED
  BY <1>3, <1>4 DEF AstTypeOK

LEMMA DeclaredSymbols ==
  ASSUME AstTypeOK, NEW n \in Nodes
  PROVE  /\ \A t \in TypeInfos : VarSymbol(n, t) \in Symbols /\ VarSymbol(n, t).kind = "VAR"
         /\ Kind(n) = "FUNC_DECL" => FuncSymbol(n) \in Symbols
<1>1. \A t \in TypeInfos : VarSymbol(n, t) \in Symbols /\ VarSymbol(n, t).kind = "VAR"
  BY DEF VarSymbol, Symbol, Symbols
<1>2. ASSUME Kind(n) = "FUNC_DECL" PROVE FuncSymbol(n) \in Symbols
  <2>1. ast[n].type \in TypeInfos
    BY <1>2, NodeFacts DEF Labelled, Kind
  <2>2. [i \in DOMAIN ast[n].params |-> ast[n].params[i].type] \in Seq(TypeInfos)
    <3> DEFINE params == ast[n].params
    <3>1. params \in Seq(Parameters)
      BY NodeFacts
    <3> HIDE DEF params
    <3>2. \A i \in 1..Len(params) : params[i].type \in TypeInfos
      BY <3>1, ParameterFields
    <3>3. [i \in DOMAIN params |-> params[i].type] \in Seq(TypeInfos)
      BY <3>1, <3>2
    <3> QED
      BY <3>3 DEF params
  <2> QED
    BY <2>1, <2>2 DEF FuncSymbol, Symbol, Symbols
<1> QED
  BY <1>1, <1>2

LEMMA ParamFacts ==
  ASSUME AstTypeOK, node \in Nodes
  PROVE  /\ ParamScope \in ScopeSet
         /\ Len(Params) \in Nat /\ Cardinality(ParamNames) \in Nat
         /\ Len(Params) - Cardinality(ParamNames) \in Nat
<1>0. /\ Params \in Seq(Parameters) /\ Len(Params) \in Nat
      /\ DOMAIN Params = 1..Len(Params)
  <2>1. Params \in Seq(Parameters)
    BY NodeFacts DEF Params
  <2> QED
    BY <2>1
<1>1. ParamNames \in SUBSET Names
  <2>1. \A i \in DOMAIN Params : Params[i].name \in Names /\ Params[i].type \in TypeInfos
    BY <1>0, ParameterFields
  <2> QED
    BY <2>1 DEF ParamNames
<1>2. ASSUME NEW x \in ParamNames PROVE FirstParam(x) \in DOMAIN Params
  <2> DEFINE S == {i \in 1..Len(Params) : Params[i].name = x}
             First(i) == Params[i].name = x /\ \A j \in 1..(i - 1) : Params[j].name # x
  <2>1. S \in SUBSET (1..Len(Params)) /\ S # {}
    BY <1>0, <1>2 DEF ParamNames
  <2>2. PICK i \in S : \A j \in S : i <= j
    BY <1>0, <2>1, Extremes
  <2>3. \E i1 \in DOMAIN Params : First(i1)
    <3>1. \A j \in 1..(i - 1) : j \in 1..Len(Params) /\ ~(i <= j)
      BY <1>0
    <3> QED
      BY <1>0, <2>2, <3>1
  <2> QED
    BY <2>3 DEF FirstParam
<1>3. ParamScope \in ScopeSet
  <2>1. \A x \in ParamNames : VarSymbol(node, Params[FirstParam(x)].type) \in Symbols
    <3>1. \A i \in DOMAIN Params : Params[i].type \in TypeInfos
      BY <1>0, ParameterFields
    <3> QED
      BY <3>1, <1>2, DeclaredSymbols
  <2>2. ParamScope \in [ParamNames -> Symbols]
    BY <2>1 DEF ParamScope
  <2> QED
    BY <1>1, <2>2 DEF ScopeSet
<1>4. /\ Cardinality(ParamNames) \in Nat
      /\ Len(Params) - Cardinality(ParamNames) \in Nat
  <2> DEFINE f == [i \in 1..Len(Params) |-> Params[i].name]
  <2>1. f \in Surjection(1..Len(Params), ParamNames)
    BY <1>0 DEF Surjection, ParamNames
  <2>2. IsFiniteSet(1..Len(Params)) /\ Cardinality(1..Len(Params)) = Len(Params)
    BY <1>0, FS_Interval
  <2>3. IsFiniteSet(ParamNames) /\ Cardinality(ParamNames) <= Len(Params)
    <3> HIDE DEF f
    <3> QED
      BY <2>1, <2>2, FS_Surjection
  <2>4. Cardinality(ParamNames) \in Nat
    BY <2>3, FS_CardinalityType
  <2> QED
    BY <1>0, <2>3, <2>4
<1> QED
  BY <1>0, <1>3, <1>4

-----------------------------------------------------------------------------
(* The invariant. *)

FrameSet == [node : Nodes, next : Nat]

\* The activations that have pushed their scope.
HasScope(frame) == Kind(frame.node) \in ScopedKinds /\ frame.next > 0
Active == {i \in DOMAIN frames : HasScope(frames[i])}

Analysing == phase = "sema" /\ frames # <<>>

SemaInv ==
  /\ AstTypeOK
  /\ SemaTypeOK
  /\ scopes \in Seq(ScopeSet)
  /\ phase = "parse" =>
       /\ frames = <<>> /\ scopes = <<>> /\ current_func = NoSymbol
       /\ rtype = <<>> /\ bind = <<>>
  /\ Analysing => DOMAIN rtype = Nodes /\ DOMAIN bind = Nodes
  /\ Analysing => Len(scopes) = 1 + Cardinality(Active)
  /\ KnownUnlessError

LEMMA InvIsBalanced == SemaInv => ScopesBalanced
  BY DEF SemaInv, ScopesBalanced, Active, HasScope, Analysing

LEMMA FrameFields == \A f \in FrameSet : f.node \in Nodes /\ f.next \in Nat
  BY DEF FrameSet

LEMMA TopFacts ==
  ASSUME frames \in Seq(FrameSet), frames # <<>>
  PROVE  /\ Len(frames) \in Nat /\ Len(frames) >= 1 /\ DOMAIN frames = 1..Len(frames)
         /\ Top \in FrameSet /\ node \in Nodes /\ Top.next \in Nat
<1>1. Len(frames) \in Nat /\ Len(frames) >= 1 /\ DOMAIN frames = 1..Len(frames)
  OBVIOUS
<1>2. Top \in FrameSet
  BY <1>1 DEF Top
<1> QED
  BY <1>1, <1>2, FrameFields DEF node

LEMMA ActiveIsFinite ==
  ASSUME frames \in Seq(FrameSet)
  PROVE  IsFiniteSet(Active) /\ Cardinality(Active) \in Nat
<1>1. Len(frames) \in Nat /\ DOMAIN frames = 1..Len(frames)
  OBVIOUS
<1>2. IsFiniteSet(1..Len(frames))
  BY <1>1, FS_Interval
<1>3. Active \in SUBSET (1..Len(frames))
  BY <1>1 DEF Active
<1>4. IsFiniteSet(Active)
  BY <1>2, <1>3, FS_Subset
<1> QED
  BY <1>4, FS_CardinalityType

\* Returning pops the frame, and its scope from the count.
LEMMA FramePopped ==
  ASSUME frames \in Seq(FrameSet), frames # <<>>, Return, UNCHANGED ast
  PROVE  /\ frames' \in Seq(FrameSet)
         /\ Cardinality(Active') = Cardinality(Active) - (IF HasScope(Top) THEN 1 ELSE 0)
<1> DEFINE n == Len(frames)
<1>1. n \in Nat /\ n >= 1 /\ DOMAIN frames = 1..n
  BY TopFacts
<1>2. /\ frames' \in Seq(FrameSet) /\ Len(frames') = n - 1
      /\ \A i \in 1..(n - 1) : frames'[i] = frames[i]
  BY <1>1 DEF Return
<1>3. DOMAIN frames' = 1..(n - 1)
  BY <1>1, <1>2
<1>4. Active' = Active \ {n}
  <2>1. \A i : HasScope(frames[i])' <=> HasScope(frames'[i])
    BY DEF HasScope, Kind
  <2> QED
    BY <1>1, <1>2, <1>3, <2>1 DEF Active
<1>5. n \in Active <=> HasScope(Top)
  BY <1>1 DEF Active, Top
<1>6. Cardinality(Active \ {n}) = IF n \in Active THEN Cardinality(Active) - 1 ELSE Cardinality(Active)
  BY ActiveIsFinite, FS_RemoveElement, Zenon
<1>7. CASE HasScope(Top)
  BY <1>2, <1>4, <1>5, <1>6, <1>7
<1>8. CASE ~HasScope(Top)
  BY <1>2, <1>4, <1>5, <1>6, <1>8, ActiveIsFinite
<1> QED
  BY <1>7, <1>8

\* A function that pushes its scope.
LEMMA FrameEntered ==
  ASSUME frames \in Seq(FrameSet), frames # <<>>, Kind(node) \in ScopedKinds, Top.next = 0,
         frames' = [frames EXCEPT ![Len(frames)].next = 1], UNCHANGED ast
  PROVE  /\ frames' \in Seq(FrameSet) /\ frames' # <<>>
         /\ Cardinality(Active') = Cardinality(Active) + 1
<1> DEFINE n == Len(frames)
           entered == [Top EXCEPT !.next = 1]
<1>1. n \in Nat /\ n >= 1 /\ DOMAIN frames = 1..n /\ Top \in FrameSet
  BY TopFacts
<1>2. entered \in FrameSet /\ entered.node = node /\ entered.next = 1
  BY <1>1 DEF FrameSet, node
<1>3. frames' = [frames EXCEPT ![n] = entered]
  BY DEF Top
<1> HIDE DEF entered
<1>4. /\ frames' \in Seq(FrameSet) /\ Len(frames') = n /\ DOMAIN frames' = 1..n
      /\ \A i \in 1..n : frames'[i] = IF i = n THEN entered ELSE frames[i]
  BY <1>1, <1>2, <1>3
<1>5. Active' = Active \cup {n} /\ n \notin Active
  <2>1. HasScope(entered) /\ ~HasScope(Top)
    BY <1>2 DEF HasScope, node
  <2>2. \A f : HasScope(f) <=> Kind(f.node)' \in ScopedKinds /\ f.next > 0
    BY DEF HasScope, Kind
  <2>3. Active' = {i \in DOMAIN frames' : HasScope(frames'[i])}
    BY <2>2 DEF Active, HasScope
  <2> QED
    BY <1>1, <1>4, <2>1, <2>3 DEF Active, Top
<1>6. Cardinality(Active \cup {n}) = IF n \in Active THEN Cardinality(Active) ELSE Cardinality(Active) + 1
  BY ActiveIsFinite, FS_AddElement, Zenon
<1>7. frames' # <<>>
  BY <1>1, <1>4
<1> QED
  BY <1>4, <1>5, <1>6, <1>7

LEMMA KidDiagIsDiag == KidDiag \in Diags
<1> DEFINE i == Top.next - 1
           cond == Kind(node) \in {"IF", "WHILE"} /\ i = 1
           test == Kind(node) = "FOR" /\ i = 2
           arg == Kind(node) = "CALL" /\ i \in DOMAIN Visits \cap DOMAIN CalleeSymbol.params
<1>1. CASE cond
  <2>1. ~test /\ ~arg
    BY <1>1
  <2> QED
    BY <1>1, <2>1, DiagIsDiag DEF KidDiag
<1>2. CASE test
  <2>1. ~cond /\ ~arg
    BY <1>2
  <2> QED
    BY <1>2, <2>1, DiagIsDiag DEF KidDiag
<1>3. CASE arg
  <2>1. ~cond /\ ~test
    BY <1>3
  <2> QED
    BY <1>3, <2>1, ConversionIsDiag DEF KidDiag
<1>4. CASE ~cond /\ ~test /\ ~arg
  BY <1>4, SilentIsDiag DEF KidDiag
<1> QED
  BY <1>1, <1>2, <1>3, <1>4

\* The counts only grow, and with an error reported error_count is not 0.
LEMMA Reported ==
  ASSUME error_count \in Nat, warning_count \in Nat, NEW diag \in Diags, Report(diag)
  PROVE  /\ error_count' \in Nat /\ warning_count' \in Nat
         /\ error_count' >= error_count
         /\ diag.err = 1 => error_count' > 0
<1>1. \A d \in Diags : d.err \in {0, 1} /\ d.warn \in {0, 1}
  BY DEF Diags
<1> QED
  BY <1>1, KidDiagIsDiag DEF Report

LEMMA VisitsAreNodes ==
  ASSUME AstTypeOK, node \in Nodes, NEW i \in DOMAIN Visits
  PROVE  Visits[i] \in Nodes /\ i >= 1
<1>k. \A n \in Nodes : \A j \in DOMAIN ast[n].kids : ast[n].kids[j] \in Nodes /\ j >= 1
  <2> SUFFICES ASSUME NEW n \in Nodes, NEW j \in DOMAIN ast[n].kids
               PROVE  ast[n].kids[j] \in Nodes /\ j >= 1
    OBVIOUS
  <2>1. j \in 1..Arity(n)
    BY NodeFacts DEF Arity
  <2> QED
    BY <2>1, NodeFacts DEF Kid
<1>1. CASE Kind(node) = "FUNC_DECL"
  <2>1. Kid(node, 1) \in Nodes
    BY <1>1, NodeFacts DEF HasArity
  <2> QED
    BY <1>1, <1>k, <2>1 DEF Visits
<1>2. CASE Kind(node) = "CALL"
  <2>1. CASE Callable
    <3>1. Visits = Tail(ast[node].kids)
      BY <1>2, <2>1 DEF Visits
    <3>2. ast[node].kids \in Seq(Nat) /\ Len(ast[node].kids) >= 1
      BY <1>2, NodeFacts DEF HasArity, Arity
    <3>3. i \in 1..(Len(ast[node].kids) - 1) /\ Visits[i] = ast[node].kids[i + 1]
      BY <3>1, <3>2
    <3>4. i + 1 \in DOMAIN ast[node].kids
      BY <3>2, <3>3
    <3> QED
      BY <3>3, <3>4, <1>k
  <2>2. CASE ~Callable
    BY <1>2, <2>2 DEF Visits
  <2> QED
    BY <2>1, <2>2
<1>3. CASE Kind(node) = "RETURN"
  <2>1. CASE current_func = NoSymbol
    BY <1>3, <2>1 DEF Visits
  <2>2. CASE current_func # NoSymbol
    BY <1>3, <2>2, <1>k DEF Visits
  <2> QED
    BY <2>1, <2>2
<1>4. CASE Kind(node) \notin {"FUNC_DECL", "CALL", "RETURN"}
  BY <1>4, <1>k DEF Visits
<1> QED
  BY <1>1, <1>2, <1>3, <1>4

\* A call: the caller keeps its scope, the callee has none yet.
LEMMA FrameCalled ==
  ASSUME AstTypeOK, frames \in Seq(FrameSet), frames # <<>>, AnalyseChild
  PROVE  /\ frames' \in Seq(FrameSet) /\ frames' # <<>>
         /\ Cardinality(Active') = Cardinality(Active)
<1> DEFINE n == Len(frames)
           child == Visits[Top.next]
           callee == Frame(child)
           caller == [Top EXCEPT !.next = @ + 1]
           resumed == [frames EXCEPT ![n] = caller]
<1>1. n \in Nat /\ n >= 1 /\ DOMAIN frames = 1..n /\ Top \in FrameSet /\ node \in Nodes
  BY TopFacts
<1>2. Top.next \in DOMAIN Visits /\ child \in Nodes /\ Top.next >= 1
  BY <1>1, VisitsAreNodes DEF AnalyseChild
<1>3. caller \in FrameSet /\ caller.node = node /\ caller.next = Top.next + 1
  BY <1>1 DEF FrameSet, node
<1>4. frames' = resumed \/ frames' = Append(resumed, callee)
  BY DEF AnalyseChild, Top
<1> HIDE DEF caller
<1>5. /\ resumed \in Seq(FrameSet) /\ Len(resumed) = n
      /\ \A i \in 1..n : resumed[i] = IF i = n THEN caller ELSE frames[i]
  BY <1>1, <1>3
<1>6. callee \in FrameSet /\ ~HasScope(callee)
  BY <1>2 DEF Frame, FrameSet, HasScope
<1>7. HasScope(caller) <=> HasScope(Top)
  BY <1>1, <1>2, <1>3 DEF HasScope, FrameSet, node
<1>h. /\ \A f : HasScope(f) <=> Kind(f.node)' \in ScopedKinds /\ f.next > 0
      /\ Active' = {i \in DOMAIN frames' : HasScope(frames'[i])}
  BY DEF AnalyseChild, HasScope, Kind, Active
<1> HIDE DEF callee
<1>8. CASE frames' = resumed
  <2>1. /\ frames' \in Seq(FrameSet) /\ Len(frames') = n /\ DOMAIN frames' = 1..n
        /\ \A i \in 1..n : frames'[i] = IF i = n THEN caller ELSE frames[i]
    BY <1>1, <1>3, <1>8
  <2>2. Active' = Active
    BY <1>1, <1>7, <1>h, <2>1 DEF Active, Top
  <2>3. Len(frames') >= 1
    BY <1>1, <2>1
  <2>4. frames' # <<>>
    BY <2>3
  <2> QED
    BY <2>1, <2>2, <2>4
<1>9. CASE frames' = Append(resumed, callee)
  <2> HIDE DEF resumed
  <2>1. frames' \in Seq(FrameSet) /\ Len(frames') = n + 1 /\ frames' # <<>>
    BY <1>5, <1>6, <1>9, AppendProperties
  <2>2. frames'[n + 1] = callee /\ \A i \in 1..n : frames'[i] = resumed[i]
    BY <1>5, <1>6, <1>9, AppendProperties
  <2>3. DOMAIN frames' = 1..(n + 1)
    BY <1>1, <2>1
  <2>4. Active' = Active
    <3>1. ~HasScope(frames'[n + 1])
      BY <1>6, <2>2
    <3>2. \A i \in 1..n : HasScope(frames'[i]) <=> HasScope(frames[i])
      BY <1>1, <1>5, <1>7, <2>2 DEF Top
    <3>3. \A i : i \in 1..(n + 1) <=> i \in 1..n \/ i = n + 1
      BY <1>1
    <3> QED
      BY <1>1, <1>h, <2>3, <3>1, <3>2, <3>3 DEF Active
  <2> QED
    BY <2>1, <2>4
<1> QED
  BY <1>4, <1>8, <1>9

-----------------------------------------------------------------------------
(* The steps. *)

LEMMA AstStable ==
  ASSUME AstTypeOK, UNCHANGED ast,
         phase' \notin {"parse", "done"} => phase \notin {"parse", "done"}
  PROVE  AstTypeOK'
  BY DEF AstTypeOK, Nodes, Kind, Kid, Arity, Holes

LEMMA SetsStable ==
  ASSUME UNCHANGED ast
  PROVE  /\ Nodes' = Nodes /\ Symbols' = Symbols
         /\ FrameSet' = FrameSet /\ ScopeSet' = ScopeSet
  BY DEF Nodes, Symbols, FrameSet, ScopeSet

\* What is known while Sema runs.
Good ==
  /\ AstTypeOK
  /\ frames \in Seq(FrameSet)
  /\ scopes \in Seq(ScopeSet)
  /\ current_func \in Symbols \cup {NoSymbol} /\ has_return \in BOOLEAN
  /\ error_count \in Nat /\ warning_count \in Nat
  /\ DOMAIN rtype = Nodes /\ \A n \in Nodes : rtype[n] \in Types
  /\ DOMAIN bind = Nodes /\ \A n \in Nodes : bind[n] \in Symbols \cup {NoSymbol}
  /\ frames # <<>> => Len(scopes) = 1 + Cardinality(Active)
  /\ \A n \in Nodes : rtype[n] = Unknown => error_count > 0

LEMMA InvIsGood ==
  ASSUME SemaInv, phase = "sema", frames # <<>>
  PROVE  Good
  BY DEF SemaInv, Good, SemaTypeOK, FrameSet, Analysing, KnownUnlessError

LEMMA ScopesAreTyped ==
  ASSUME scopes \in Seq(ScopeSet)
  PROVE  \A i \in DOMAIN scopes : \A x \in DOMAIN scopes[i] :
           x \in Names /\ scopes[i][x] \in Symbols
<1>1. \A i \in DOMAIN scopes : scopes[i] \in ScopeSet
  OBVIOUS
<1> QED
  BY <1>1, ScopeFacts

LEMMA GoodIsInv == Good /\ phase # "parse" => SemaInv
<1> SUFFICES ASSUME Good, phase # "parse" PROVE SemaInv
  OBVIOUS
<1>1. SemaTypeOK
  BY ScopesAreTyped DEF Good, SemaTypeOK, FrameSet
<1>2. KnownUnlessError
  BY DEF Good, KnownUnlessError
<1> QED
  BY <1>1, <1>2 DEF Good, SemaInv, Analysing

\* A step of the analysis that leaves the tree's types alone.
LEMMA OtherStep ==
  ASSUME Good, phase = "sema", UNCHANGED <<ast, phase, rtype, bind>>,
         frames' \in Seq(FrameSet), scopes' \in Seq(ScopeSet),
         current_func' \in Symbols \cup {NoSymbol}, has_return' \in BOOLEAN,
         error_count' \in Nat, error_count' >= error_count, warning_count' \in Nat,
         frames' # <<>> => Len(scopes') = 1 + Cardinality(Active')
  PROVE  SemaInv'
<1>1. AstTypeOK'
  BY AstStable DEF Good
<1>2. \A n \in Nodes : rtype[n] = Unknown => error_count' > 0
  BY DEF Good
<1>3. Good' /\ (phase # "parse")'
  BY <1>1, <1>2, SetsStable DEF Good
<1> QED
  BY <1>3, GoodIsInv, PTL

\* A step of the analysis that ends an expression.
LEMMA ResolveStep ==
  ASSUME Good, phase = "sema", frames # <<>>, ~HasScope(Top),
         NEW result, NEW operands, Sound(result, operands), Resolve(result),
         Unknown \in operands => error_count > 0,
         DOMAIN bind' = Nodes, \A n \in Nodes : bind'[n] \in Symbols \cup {NoSymbol}
  PROVE  SemaInv'
<1>1. AstTypeOK'
  BY AstStable DEF Good, Resolve
<1>2. /\ error_count' \in Nat /\ warning_count' \in Nat /\ error_count' >= error_count
      /\ result.type = Unknown => error_count' > 0
  <2>1. Report(result.diag)
    BY DEF Resolve
  <2>2. result.diag \in Diags
    BY DEF Sound
  <2>3. /\ error_count' \in Nat /\ warning_count' \in Nat
        /\ error_count' >= error_count
        /\ result.diag.err = 1 => error_count' > 0
    BY <2>1, <2>2, Reported DEF Good
  <2>4. error_count \in Nat
    BY DEF Good
  <2> QED
    BY <2>3, <2>4 DEF Sound
<1>3. frames' \in Seq(FrameSet) /\ Cardinality(Active') = Cardinality(Active)
  <2>1. Cardinality(Active) \in Nat
    BY ActiveIsFinite DEF Good
  <2> QED
    BY <2>1, FramePopped DEF Good, Resolve
<1>4. node \in Nodes
  BY TopFacts DEF Good
<1>5. /\ DOMAIN rtype' = Nodes
      /\ \A n \in Nodes : rtype'[n] = IF n = node THEN result.type ELSE rtype[n]
  BY <1>4 DEF Resolve, Good
<1>6. \A n \in Nodes : rtype'[n] \in Types /\ (rtype'[n] = Unknown => error_count' > 0)
  BY <1>2, <1>5 DEF Good, Sound
<1>7. Good'
  BY <1>1, <1>2, <1>3, <1>5, <1>6, SetsStable DEF Good, Resolve
<1>8. (phase # "parse")'
  BY DEF Resolve
<1> QED
  BY <1>7, <1>8, GoodIsInv, PTL

LEMMA LookupFacts ==
  ASSUME Good
  PROVE  /\ \A x : Lookup(x) \in Symbols \cup {NoSymbol}
         /\ CalleeSymbol \in Symbols \cup {NoSymbol}
         /\ NoSymbol.type = Unknown /\ NoSymbol.kind # "FUNC"
         /\ \A s \in Symbols : s.type \in TypeInfos /\ s # NoSymbol
<1>1. \A x : Lookup(x) \in Symbols \cup {NoSymbol}
  BY LookupIsSymbol DEF Good, Lookup
<1>2. NoSymbol.kind = "NONE" /\ NoSymbol.type = Unknown
  BY DEF NoSymbol, Symbol
<1>3. \A s \in Symbols : s.type \in TypeInfos /\ s.kind \in {"VAR", "FUNC"}
  BY DEF Symbols
<1> QED
  BY <1>1, <1>2, <1>3 DEF CalleeSymbol

LEMMA KidTypes ==
  ASSUME Good, node \in Nodes, NEW i \in 1..Arity(node)
  PROVE  KidType(i) \in Types /\ (KidType(i) = Unknown => error_count > 0)
<1>1. Kid(node, i) \in Nodes
  BY NodeFacts DEF Good
<1> QED
  BY <1>1 DEF Good, KidType

\* analyse_expr_impl.
LEMMA ExpressionStep ==
  ASSUME Good, phase = "sema", frames # <<>>,
         \/ AnalyseLiteral \/ AnalyseIdent \/ AnalyseAssign \/ AnalyseBinary
         \/ AnalyseUnary \/ AnalyseCall \/ AnalyseIndex \/ AnalyseMember
  PROVE  SemaInv'
<1> DEFINE BindOK == DOMAIN bind' = Nodes /\ \A n \in Nodes : bind'[n] \in Symbols \cup {NoSymbol}
<1>n. node \in Nodes /\ AstTypeOK
  BY TopFacts DEF Good
<1>h. HasArity(Kind(node), Arity(node)) /\ Labelled(ast[node]) /\ Arity(node) \in Nat
  BY <1>n, NodeFacts
<1>b. UNCHANGED bind => BindOK
  BY DEF Good
<1>s. Kind(node) \notin ScopedKinds => ~HasScope(Top)
  BY DEF HasScope, node
<1>r. ASSUME Kind(node) \notin ScopedKinds, BindOK, NEW result, NEW operands,
             Sound(result, operands), Resolve(result), Unknown \in operands => error_count > 0
      PROVE  SemaInv'
  BY <1>r, <1>s, ResolveStep
<1> HIDE DEF BindOK
<1>1. CASE AnalyseLiteral
  <2>1. Kind(node) \in Literals /\ Kind(node) \notin ScopedKinds
    BY <1>1 DEF AnalyseLiteral, Leaving, Running, Literals, ScopedKinds
  <2>2. LiteralType[Kind(node)] \in {IntType, CharType, PointerTo(CharType)}
    BY <2>1 DEF LiteralType, Literals
  <2>3. Sound(Result(LiteralType[Kind(node)], Silent), {})
    BY <2>2, TypesFacts, ResultFields, SilentIsDiag DEF Sound
  <2> QED
    BY <1>1, <1>b, <1>r, <2>1, <2>3 DEF AnalyseLiteral
<1>2. CASE AnalyseIdent
  <2> DEFINE symbol == Lookup(Name)
             result == Result(symbol.type, Diag(symbol = NoSymbol, FALSE))
  <2>1. Kind(node) \notin ScopedKinds
    BY <1>2 DEF AnalyseIdent, Leaving, Running, ScopedKinds
  <2>2. Sound(result, {})
    <3>1. PICK d \in Diags : /\ result = Result(symbol.type, d)
                             /\ symbol = NoSymbol => d.err = 1
      <4> DEFINE d == Diag(symbol = NoSymbol, FALSE)
      <4>1. d \in Diags
        BY DiagIsDiag, Zenon
      <4>2. symbol = NoSymbol => d.err = 1
        BY DEF Diag
      <4> QED
        BY <4>1, <4>2
    <3> HIDE DEF symbol, result
    <3>2. /\ symbol \in Symbols \cup {NoSymbol}
          /\ symbol # NoSymbol => symbol.type \in TypeInfos
          /\ symbol = NoSymbol => symbol.type = Unknown
      BY LookupFacts DEF symbol
    <3> QED
      BY <3>1, <3>2, TypesFacts, ResultFields DEF Sound
  <2>3. BindOK
    BY <1>2, <1>n, LookupFacts DEF AnalyseIdent, Good, BindOK
  <2>4. Resolve(result)
    BY <1>2 DEF AnalyseIdent
  <2> HIDE DEF result
  <2> QED
    BY <1>r, <2>1, <2>2, <2>3, <2>4
<1>3. CASE AnalyseAssign
  <2>1. Kind(node) = "ASSIGN" /\ UNCHANGED bind
    BY <1>3 DEF AnalyseAssign, Leaving, Running
  <2>2. 1 \in 1..Arity(node) /\ 2 \in 1..Arity(node) /\ Kind(node) \notin ScopedKinds
    BY <1>h, <2>1 DEF HasArity, ScopedKinds
  <2>3. Sound(AssignRule(KidType(1), KidType(2)), {KidType(1), KidType(2)})
    BY <1>n, <2>2, KidTypes, RulesAreSound
  <2> QED
    BY <1>3, <1>b, <1>n, <1>r, <2>1, <2>2, <2>3, KidTypes DEF AnalyseAssign
<1>4. CASE AnalyseBinary
  <2>1. Kind(node) = "BINARY" /\ UNCHANGED bind
    BY <1>4 DEF AnalyseBinary, Leaving, Running
  <2>2. 1 \in 1..Arity(node) /\ 2 \in 1..Arity(node) /\ Kind(node) \notin ScopedKinds
    BY <1>h, <2>1 DEF HasArity, ScopedKinds
  <2>3. Sound(BinaryRule(ast[node].op, KidType(1), KidType(2)), {KidType(1), KidType(2)})
    BY <1>n, <2>2, KidTypes, RulesAreSound
  <2> QED
    BY <1>4, <1>b, <1>n, <1>r, <2>1, <2>2, <2>3, KidTypes DEF AnalyseBinary
<1>5. CASE AnalyseUnary
  <2>1. Kind(node) = "UNARY" /\ UNCHANGED bind
    BY <1>5 DEF AnalyseUnary, Leaving, Running
  <2>2. 1 \in 1..Arity(node) /\ Kind(node) \notin ScopedKinds
    BY <1>h, <2>1 DEF HasArity, ScopedKinds
  <2>3. ast[node].op \in {"MINUS", "BANG", "STAR", "AMP"}
    BY <1>h, <2>1, AstAssumption DEF Labelled, AstAssumption, Kind
  <2>4. Sound(UnaryRule(ast[node].op, KidType(1)), {KidType(1)})
    BY <1>n, <2>2, <2>3, KidTypes, RulesAreSound
  <2> QED
    BY <1>5, <1>b, <1>n, <1>r, <2>1, <2>2, <2>4, KidTypes DEF AnalyseUnary
<1>6. CASE AnalyseCall
  <2> DEFINE result == IF Callable
                       THEN Result(CalleeSymbol.type,
                                   Diag(Len(CalleeSymbol.params) # Arity(node) - 1, FALSE))
                       ELSE Result(Unknown, Error)
  <2>1. Kind(node) = "CALL" /\ Resolve(result)
    BY <1>6 DEF AnalyseCall, Leaving, Running
  <2>2. Callee \in Nodes /\ Kind(node) \notin ScopedKinds
    BY <1>n, <1>h, <2>1, NodeFacts DEF HasArity, ScopedKinds, Callee
  <2>3. Sound(result, {})
    <3>1. CASE Callable
      <4>1. CalleeSymbol.type \in TypeInfos
        BY <3>1, LookupFacts DEF Callable
      <4>2. PICK d \in Diags : result = Result(CalleeSymbol.type, d)
        BY <3>1, DiagIsDiag, Zenon
      <4> HIDE DEF result
      <4> QED
        BY <4>1, <4>2, TypesFacts, ResultFields DEF Sound
    <3>2. CASE ~Callable
      BY <3>2, TypesFacts, ResultFields, SilentIsDiag DEF Sound
    <3> QED
      BY <3>1, <3>2
  <2>4. BindOK
    BY <1>6, <2>2, LookupFacts DEF AnalyseCall, Good, BindOK
  <2> HIDE DEF result
  <2> QED
    BY <1>r, <2>1, <2>2, <2>3, <2>4
<1>7. CASE AnalyseIndex
  <2>1. Kind(node) = "INDEX" /\ UNCHANGED bind
    BY <1>7 DEF AnalyseIndex, Leaving, Running
  <2>2. 1 \in 1..Arity(node) /\ 2 \in 1..Arity(node) /\ Kind(node) \notin ScopedKinds
    BY <1>h, <2>1 DEF HasArity, ScopedKinds
  <2>3. Sound(IndexRule(KidType(1), KidType(2)), {KidType(1), KidType(2)})
    BY <1>n, <2>2, KidTypes, RulesAreSound
  <2> QED
    BY <1>7, <1>b, <1>n, <1>r, <2>1, <2>2, <2>3, KidTypes DEF AnalyseIndex
<1>8. CASE AnalyseMember
  <2>1. Kind(node) \notin ScopedKinds /\ UNCHANGED bind
    BY <1>8 DEF AnalyseMember, Leaving, Running, ScopedKinds
  <2>2. Sound(Result(Unknown, Error), {})
    BY TypesFacts, ResultFields, SilentIsDiag DEF Sound
  <2> QED
    BY <1>8, <1>b, <1>r, <2>1, <2>2 DEF AnalyseMember
<1> QED
  BY <1>1, <1>2, <1>3, <1>4, <1>5, <1>6, <1>7, <1>8

\* An activation that pushed a scope is the one to pop it.
LEMMA LeavingHasScope ==
  ASSUME Good, frames # <<>>, Leaving(ScopedKinds)
  PROVE  HasScope(Top)
<1>1. node \in Nodes /\ AstTypeOK /\ Top.next \in Nat
  BY TopFacts DEF Good
<1>2. Kind(node) \in ScopedKinds /\ Top.next > Len(Visits)
  BY DEF Leaving, Running
<1>3. Visits \in Seq(Nat)
  <2>1. CASE Kind(node) = "FUNC_DECL"
    <3>1. Kid(node, 1) \in Nodes
      BY <1>1, <2>1, NodeFacts DEF HasArity
    <3> QED
      BY <1>1, <2>1, <3>1, NodeFacts DEF Visits
  <2>2. CASE Kind(node) \in {"BLOCK", "FOR"}
    BY <1>1, <2>2, NodeFacts DEF Visits
  <2> QED
    BY <1>2, <2>1, <2>2 DEF ScopedKinds
<1>4. Len(Visits) \in Nat
  BY <1>3
<1>5. Top.next > 0
  BY <1>1, <1>2, <1>4
<1> QED
  BY <1>2, <1>5 DEF HasScope, node

LEMMA ScopeSteps ==
  ASSUME Good, frames # <<>>
  PROVE  /\ Len(scopes) \in Nat /\ Len(scopes) >= 1 /\ Current \in ScopeSet
         /\ Enclosing \in Seq(ScopeSet) /\ Len(Enclosing) = Len(scopes) - 1
<1>1. Len(scopes) \in Nat /\ Len(scopes) >= 1
  <2>1. Len(scopes) = 1 + Cardinality(Active) /\ Cardinality(Active) \in Nat
    BY ActiveIsFinite DEF Good
  <2> QED
    BY <2>1
<1>2. scopes \in Seq(ScopeSet)
  BY DEF Good
<1>3. Current \in ScopeSet
  BY <1>1, <1>2 DEF Current
<1>4. Enclosing \in Seq(ScopeSet) /\ Len(Enclosing) = Len(scopes) - 1
  <2> DEFINE k == Len(scopes) - 1
  <2>1. k \in Nat /\ \A i \in 1..k : scopes[i] \in ScopeSet
    BY <1>1, <1>2
  <2> HIDE DEF k
  <2>2. SubSeq(scopes, 1, k) \in Seq(ScopeSet) /\ Len(SubSeq(scopes, 1, k)) = k
    BY <2>1, SubSeqProperties
  <2> QED
    BY <2>2 DEF Enclosing, k
<1> QED
  BY <1>1, <1>3, <1>4

\* The statements of analyse_stmt, but for declarations.
LEMMA StatementStep ==
  ASSUME Good, phase = "sema", frames # <<>>,
         \/ AnalyseChild \/ EnterScope \/ LeaveScope \/ LeaveFunction
         \/ AnalyseReturn \/ LeaveStatement
  PROVE  SemaInv'
<1>g. /\ frames \in Seq(FrameSet) /\ scopes \in Seq(ScopeSet)
      /\ current_func \in Symbols \cup {NoSymbol} /\ has_return \in BOOLEAN
      /\ error_count \in Nat /\ warning_count \in Nat
      /\ Len(scopes) = 1 + Cardinality(Active) /\ Cardinality(Active) \in Nat
      /\ AstTypeOK
  BY ActiveIsFinite DEF Good
<1>r. ASSUME NEW diag \in Diags, Report(diag)
      PROVE  error_count' \in Nat /\ error_count' >= error_count /\ warning_count' \in Nat
  BY <1>g, <1>r, Reported
<1>s. Kind(node) \notin ScopedKinds => ~HasScope(Top)
  BY DEF HasScope, node
<1>1. CASE AnalyseChild
  <2>1. Report(Silent) /\ UNCHANGED <<ast, phase, scopes, current_func, has_return, rtype, bind>>
    BY <1>1 DEF AnalyseChild
  <2>2. frames' \in Seq(FrameSet) /\ Cardinality(Active') = Cardinality(Active)
    BY <1>1, <1>g, FrameCalled
  <2>3. error_count' \in Nat /\ error_count' >= error_count /\ warning_count' \in Nat
    BY <1>r, <2>1, SilentIsDiag
  <2> QED
    BY <1>g, <2>1, <2>2, <2>3, OtherStep
<1>2. CASE EnterScope
  <2>1. /\ Kind(node) \in ScopedKinds /\ Top.next = 0 /\ Enter(EmptyScope)
        /\ UNCHANGED <<ast, phase, current_func, has_return, error_count, warning_count, rtype, bind>>
    BY <1>2 DEF EnterScope, Entering, Running, ScopedKinds
  <2>2. frames' \in Seq(FrameSet) /\ Cardinality(Active') = Cardinality(Active) + 1
    BY <1>g, <2>1, FrameEntered DEF Enter
  <2>3. scopes' \in Seq(ScopeSet) /\ Len(scopes') = Len(scopes) + 1
    BY <1>g, <2>1, ScopeFacts, AppendProperties DEF Enter
  <2>4. error_count' >= error_count
    BY <1>g, <2>1
  <2>5. Len(scopes') = 1 + Cardinality(Active')
    BY <1>g, <2>2, <2>3
  <2> QED
    BY <1>g, <2>1, <2>2, <2>3, <2>4, <2>5, OtherStep
<1>3. CASE LeaveScope
  <2>1. /\ Leaving(ScopedKinds) /\ PopScope /\ Return /\ Report(Silent)
        /\ UNCHANGED <<ast, phase, current_func, has_return, rtype, bind>>
    BY <1>3 DEF LeaveScope, Leaving, Running, ScopedKinds
  <2>2. frames' \in Seq(FrameSet) /\ Cardinality(Active') = Cardinality(Active) - 1
    BY <1>g, <2>1, LeavingHasScope, FramePopped
  <2>3. scopes' \in Seq(ScopeSet) /\ Len(scopes') = Len(scopes) - 1
    BY <2>1, ScopeSteps DEF PopScope
  <2>4. error_count' \in Nat /\ error_count' >= error_count /\ warning_count' \in Nat
    BY <1>r, <2>1, SilentIsDiag
  <2>5. Len(scopes') = 1 + Cardinality(Active')
    BY <1>g, <2>2, <2>3
  <2> QED
    BY <1>g, <2>1, <2>2, <2>3, <2>4, <2>5, OtherStep
<1>4. CASE LeaveFunction
  <2>1. /\ Leaving(ScopedKinds) /\ PopScope /\ Return /\ Report(Diag(FALSE, ~has_return))
        /\ current_func' = NoSymbol /\ has_return' = FALSE
        /\ UNCHANGED <<ast, phase, rtype, bind>>
    BY <1>4 DEF LeaveFunction, Leaving, Running, ScopedKinds
  <2>2. frames' \in Seq(FrameSet) /\ Cardinality(Active') = Cardinality(Active) - 1
    BY <1>g, <2>1, LeavingHasScope, FramePopped
  <2>3. scopes' \in Seq(ScopeSet) /\ Len(scopes') = Len(scopes) - 1
    BY <2>1, ScopeSteps DEF PopScope
  <2>4. error_count' \in Nat /\ error_count' >= error_count /\ warning_count' \in Nat
    BY <1>r, <2>1, DiagIsDiag, Zenon
  <2>5. Len(scopes') = 1 + Cardinality(Active')
    BY <1>g, <2>2, <2>3
  <2> QED
    BY <1>g, <2>1, <2>2, <2>3, <2>4, <2>5, OtherStep
<1>5. CASE AnalyseReturn
  <2>1. /\ Kind(node) \notin ScopedKinds /\ Return /\ has_return' = TRUE
        /\ UNCHANGED <<ast, phase, scopes, current_func, rtype, bind>>
    BY <1>5 DEF AnalyseReturn, Leaving, Running, ScopedKinds
  <2>2. PICK diag \in Diags : Report(diag)
    BY <1>5, DiagIsDiag, SilentIsDiag, ConversionIsDiag, Zenon DEF AnalyseReturn
  <2>3. frames' \in Seq(FrameSet) /\ Cardinality(Active') = Cardinality(Active)
    BY <1>g, <1>s, <2>1, FramePopped
  <2>4. error_count' \in Nat /\ error_count' >= error_count /\ warning_count' \in Nat
    BY <1>r, <2>2
  <2> QED
    BY <1>g, <2>1, <2>3, <2>4, OtherStep
<1>6. CASE LeaveStatement
  <2>1. /\ Kind(node) \notin ScopedKinds /\ Return /\ Report(Silent)
        /\ UNCHANGED <<ast, phase, scopes, current_func, has_return, rtype, bind>>
    BY <1>6 DEF LeaveStatement, Leaving, Running, ScopedKinds
  <2>2. frames' \in Seq(FrameSet) /\ Cardinality(Active') = Cardinality(Active)
    BY <1>g, <1>s, <2>1, FramePopped
  <2>3. error_count' \in Nat /\ error_count' >= error_count /\ warning_count' \in Nat
    BY <1>r, <2>1, SilentIsDiag
  <2> QED
    BY <1>g, <2>1, <2>2, <2>3, OtherStep
<1> QED
  BY <1>1, <1>2, <1>3, <1>4, <1>5, <1>6

\* analyse_stmt on a declaration, global or local.
LEMMA DeclareVariableStep ==
  ASSUME Good, phase = "sema", frames # <<>>, DeclareVariable
  PROVE  SemaInv'
<1>g. /\ frames \in Seq(FrameSet) /\ error_count \in Nat /\ warning_count \in Nat
      /\ Len(scopes) = 1 + Cardinality(Active) /\ Cardinality(Active) \in Nat
      /\ AstTypeOK /\ node \in Nodes
      /\ current_func \in Symbols \cup {NoSymbol} /\ has_return \in BOOLEAN
  BY ActiveIsFinite, TopFacts DEF Good
<1>1. /\ Kind(node) = "VAR_DECL" /\ Return
      /\ UNCHANGED <<ast, phase, current_func, has_return, rtype, bind>>
  BY DEF DeclareVariable, Leaving, Running
<1>2. Name \in Names /\ VarSymbol(node, ast[node].type) \in Symbols
  BY <1>g, <1>1, NodeFacts, DeclaredSymbols, AstAssumption DEF Labelled, Name, Kind, AstAssumption
<1>3. scopes' \in Seq(ScopeSet) /\ Len(scopes') = Len(scopes)
  <2> DEFINE inner == Insert(Current, Name, VarSymbol(node, ast[node].type))
  <2>1. inner \in ScopeSet
    BY <1>2, ScopeSteps, ScopeFacts
  <2>2. scopes' = Append(Enclosing, inner)
    BY DEF DeclareVariable
  <2> HIDE DEF inner
  <2> QED
    BY <2>1, <2>2, ScopeSteps, AppendProperties
<1>4. frames' \in Seq(FrameSet) /\ Cardinality(Active') = Cardinality(Active)
  <2>1. ~HasScope(Top)
    BY <1>1 DEF HasScope, node, ScopedKinds
  <2> QED
    BY <1>g, <1>1, <2>1, FramePopped
<1>5. error_count' \in Nat /\ error_count' >= error_count /\ warning_count' \in Nat
  <2>1. PICK d \in Diags, e \in {0, 1}, w \in {0, 1} :
          /\ error_count' = error_count + d.err + e
          /\ warning_count' = warning_count + d.warn + w
    <3> DEFINE d == IF Fresh(Name) /\ ~IsNull(Kid(node, 1))
                    THEN Conversion(ast[node].type, rtype[Kid(node, 1)]) ELSE Silent
    <3>1. d \in Diags
      BY ConversionIsDiag, SilentIsDiag
    <3>2. /\ error_count' = error_count + d.err + (IF Fresh(Name) THEN 0 ELSE 1)
          /\ warning_count' = warning_count + d.warn
                                + (IF LookupOuter(Name) # NoSymbol THEN 1 ELSE 0)
      BY DEF DeclareVariable
    <3> HIDE DEF d
    <3> QED
      BY <3>1, <3>2
  <2> QED
    BY <1>g, <2>1 DEF Diags
<1> QED
  BY <1>g, <1>1, <1>3, <1>4, <1>5, OtherStep

\* analyse_func_decl up to its body.
LEMMA EnterFunctionStep ==
  ASSUME Good, phase = "sema", frames # <<>>, EnterFunction
  PROVE  SemaInv'
<1> DEFINE existing == Lookup(Name)
           symbol == IF existing = NoSymbol THEN FuncSymbol(node) ELSE existing
           global == [scopes EXCEPT ![1] = Insert(@, Name, symbol)]
<1>g. /\ frames \in Seq(FrameSet) /\ error_count \in Nat /\ warning_count \in Nat
      /\ scopes \in Seq(ScopeSet)
      /\ Len(scopes) = 1 + Cardinality(Active) /\ Cardinality(Active) \in Nat
      /\ AstTypeOK /\ node \in Nodes
      /\ current_func \in Symbols \cup {NoSymbol} /\ has_return \in BOOLEAN
  BY ActiveIsFinite, TopFacts DEF Good
<1>1. /\ Kind(node) = "FUNC_DECL" /\ Top.next = 0
      /\ UNCHANGED <<ast, phase, warning_count, rtype, bind>>
  BY DEF EnterFunction, Entering, Running
<1>2. Name \in Names /\ symbol \in Symbols
  BY <1>g, <1>1, NodeFacts, DeclaredSymbols, LookupFacts, AstAssumption
     DEF Labelled, Name, Kind, AstAssumption
<1>3. global \in Seq(ScopeSet) /\ Len(global) = Len(scopes)
  <2>1. 1 \in DOMAIN scopes /\ scopes[1] \in ScopeSet
    BY <1>g
  <2>2. Insert(scopes[1], Name, symbol) \in ScopeSet
    BY <1>2, <2>1, ScopeFacts
  <2> QED
    BY <1>g, <2>1, <2>2
<1>r. Redeclaration(symbol) \in Nat
  BY DEF Redeclaration
<1>4. CASE existing.kind = "VAR" \/ IsNull(Kid(node, 1))
  <2>1. /\ Return
        /\ scopes' = IF existing.kind = "VAR" THEN scopes ELSE global
        /\ error_count' = error_count
             + (IF existing.kind = "VAR" THEN 1 ELSE Redeclaration(symbol))
        /\ UNCHANGED <<current_func, has_return>>
    BY <1>4 DEF EnterFunction
  <2>2. frames' \in Seq(FrameSet) /\ Cardinality(Active') = Cardinality(Active)
    <3>1. ~HasScope(Top)
      BY <1>1 DEF HasScope
    <3> QED
      BY <1>g, <1>1, <2>1, <3>1, FramePopped
  <2> HIDE DEF global, symbol
  <2>3. scopes' \in Seq(ScopeSet) /\ Len(scopes') = Len(scopes)
    BY <1>g, <1>3, <2>1
  <2>4. error_count' \in Nat /\ error_count' >= error_count
    BY <1>g, <1>r, <2>1
  <2> QED
    BY <1>g, <1>1, <2>1, <2>2, <2>3, <2>4, OtherStep
<1>5. CASE ~(existing.kind = "VAR" \/ IsNull(Kid(node, 1)))
  <2>1. /\ scopes' = Append(global, ParamScope)
        /\ frames' = [frames EXCEPT ![Len(frames)].next = 1]
        /\ current_func' = symbol /\ has_return' = FALSE
        /\ error_count' = error_count + Redeclaration(symbol) + Len(Params) - Cardinality(ParamNames)
    BY <1>5 DEF EnterFunction
  <2>2. frames' \in Seq(FrameSet) /\ Cardinality(Active') = Cardinality(Active) + 1
    BY <1>g, <1>1, <2>1, FrameEntered DEF ScopedKinds
  <2> HIDE DEF global, symbol
  <2>3. scopes' \in Seq(ScopeSet) /\ Len(scopes') = Len(scopes) + 1
    BY <1>g, <1>3, <2>1, ParamFacts, AppendProperties
  <2>4. error_count' \in Nat /\ error_count' >= error_count
    <3>1. Len(Params) - Cardinality(ParamNames) \in Nat
      BY <1>g, ParamFacts
    <3>2. error_count' = error_count + Redeclaration(symbol) + (Len(Params) - Cardinality(ParamNames))
      <4>1. Len(Params) \in Nat /\ Cardinality(ParamNames) \in Nat
        BY <1>g, ParamFacts
      <4> QED
        BY <1>g, <1>r, <2>1, <4>1
    <3> QED
      BY <1>g, <1>r, <3>1, <3>2
  <2>5. Len(scopes') = 1 + Cardinality(Active')
    BY <1>g, <2>2, <2>3
  <2> QED
    BY <1>g, <1>1, <1>2, <2>1, <2>2, <2>3, <2>4, <2>5, OtherStep
<1> QED
  BY <1>4, <1>5

\* sema_analyse calls analyse_program on the root, and returns.
LEMMA SemaStartStep ==
  ASSUME SemaInv, SemaStart
  PROVE  SemaInv'
<1>1. AstTypeOK /\ 1 \in Nodes
  BY DEF SemaInv, AstTypeOK, Nodes
<1>2. /\ phase = "sema" /\ frames' = <<Frame(1)>> /\ scopes' = <<EmptyScope>>
      /\ rtype' = [n \in Nodes |-> Unset] /\ bind' = [n \in Nodes |-> NoSymbol]
      /\ UNCHANGED <<ast, phase, current_func, has_return, error_count, warning_count>>
  BY DEF SemaStart
<1>3. AstTypeOK'
  BY <1>1, <1>2, AstStable
<1>4. Frame(1) \in FrameSet /\ ~HasScope(Frame(1))
  BY <1>1 DEF Frame, FrameSet, HasScope
<1>5. frames' \in Seq(FrameSet) /\ Cardinality(Active') = 0
  <2> DEFINE frame == Frame(1)
  <2>1. HasScope(frame)' <=> HasScope(frame)
    BY <1>2 DEF HasScope, Kind, Frame
  <2> HIDE DEF frame
  <2>2. frames' \in Seq(FrameSet) /\ DOMAIN frames' = {1} /\ frames'[1] = frame
    BY <1>2, <1>4 DEF frame
  <2>3. Active' = {}
    BY <1>2, <1>4, <2>1, <2>2 DEF Active, HasScope, Kind, frame
  <2> QED
    BY <2>2, <2>3, FS_EmptySet
<1>6. scopes' \in Seq(ScopeSet) /\ Len(scopes') = 1
  BY <1>2, ScopeFacts
<1>7. /\ current_func \in Symbols \cup {NoSymbol} /\ has_return \in BOOLEAN
      /\ error_count \in Nat /\ warning_count \in Nat
  BY DEF SemaInv, SemaTypeOK
<1>8. /\ DOMAIN rtype' = Nodes /\ \A n \in Nodes : rtype'[n] \in Types /\ rtype'[n] # Unknown
      /\ DOMAIN bind' = Nodes /\ \A n \in Nodes : bind'[n] \in Symbols \cup {NoSymbol}
  BY <1>2, TypesFacts
<1>9. Good' /\ (phase # "parse")'
  BY <1>2, <1>3, <1>5, <1>6, <1>7, <1>8, SetsStable DEF Good
<1> QED
  BY <1>9, GoodIsInv, PTL

LEMMA SemaEndStep ==
  ASSUME Good, phase = "sema", frames # <<>>, SemaEnd
  PROVE  SemaInv'
<1>1. /\ Kind(node) = "PROGRAM" /\ Return /\ phase' \in {"codegen", "rejected"}
      /\ UNCHANGED <<ast, scopes, current_func, has_return, error_count, warning_count, rtype, bind>>
  BY DEF SemaEnd, Leaving, Running
<1>2. AstTypeOK'
  BY <1>1, AstStable DEF Good
<1>3. frames' \in Seq(FrameSet) /\ Cardinality(Active') = Cardinality(Active)
  <2>1. ~HasScope(Top) /\ Cardinality(Active) \in Nat
    BY <1>1, ActiveIsFinite DEF Good, HasScope, node, ScopedKinds
  <2> QED
    BY <1>1, <2>1, FramePopped DEF Good
<1>4. Good' /\ (phase # "parse")'
  BY <1>1, <1>2, <1>3, SetsStable DEF Good
<1> QED
  BY <1>4, GoodIsInv, PTL

\* While the tree is built, the analysis has not begun.
LEMMA ParseStep ==
  ASSUME SemaInv, AstNext, UNCHANGED semaVars
  PROVE  SemaInv'
<1>1. AstTypeOK'
  BY AstStep DEF SemaInv
<1>2. phase = "parse" /\ phase' \in {"parse", "sema"}
  BY DEF AstNext, Fill, Parse, ParseFuncDecl, ParseVarDecl, ParseBlock, ParseReturn, ParseIf,
         ParseWhile, ParseFor, ParseExprStmt, ParsePrimary, ParsePostfix, ParseUnary,
         ParseBinary, ParseAssignment
<1>3. /\ frames' = <<>> /\ scopes' = <<>> /\ current_func' = NoSymbol
      /\ rtype' = <<>> /\ bind' = <<>>
      /\ UNCHANGED <<has_return, error_count, warning_count>>
  BY <1>2 DEF SemaInv, semaVars
<1>4. SemaTypeOK'
  BY <1>3 DEF SemaInv, SemaTypeOK
<1>5. KnownUnlessError'
  BY <1>3 DEF KnownUnlessError
<1>6. scopes' \in Seq(ScopeSet)' /\ ~Analysing'
  BY <1>3 DEF Analysing
<1> QED
  BY <1>1, <1>2, <1>3, <1>4, <1>5, <1>6 DEF SemaInv

LEMMA SemaStep ==
  ASSUME SemaInv, SemaNext
  PROVE  SemaInv'
<1>1. CASE AstNext /\ UNCHANGED semaVars
  BY <1>1, ParseStep
<1>2. CASE SemaStart
  BY <1>2, SemaStartStep
<1>3. CASE ~(AstNext /\ UNCHANGED semaVars) /\ ~SemaStart
  <2>1. Good /\ phase = "sema" /\ frames # <<>>
    <3>1. phase = "sema" /\ frames # <<>>
      BY <1>3 DEF SemaNext, SemaEnd, AnalyseChild, EnterScope, LeaveScope, EnterFunction,
            LeaveFunction, DeclareVariable, AnalyseReturn, LeaveStatement, AnalyseLiteral,
            AnalyseIdent, AnalyseAssign, AnalyseBinary, AnalyseUnary, AnalyseCall, AnalyseIndex,
            AnalyseMember, Entering, Leaving, Running
    <3> QED
      BY <3>1, InvIsGood
  <2> QED
    BY Zenon, <1>3, <2>1, SemaEndStep, ExpressionStep, StatementStep, DeclareVariableStep,
       EnterFunctionStep DEF SemaNext
<1> QED
  BY <1>1, <1>2, <1>3

-----------------------------------------------------------------------------
(* The phases after it. *)

LEMMA CgKeepsSema ==
  ASSUME CgNext
  PROVE  phase = "codegen" /\ phase' \notin {"parse", "sema", "rejected"} /\ UNCHANGED <<ast, semaVars>>
<1> USE DEF Step, Wrong, OnlyCalls
<1>1. UNCHANGED <<ast, semaVars>>
  BY DEF CgNext
<1> DEFINE OK == phase = "codegen" /\ phase' \notin {"parse", "sema", "rejected"}
<1>2. CgStart \/ CgDeclaration \/ CgEnd \/ CgPrototype \/ CgDefine \/ CgDefineEnd \/ CgGlobal => OK
  BY DEF CgStart, CgDeclaration, CgEnd, CgPrototype, CgDefine, CgDefineEnd, CgGlobal, InList
<1>3. CgVarDecl \/ CgVarInit \/ CgExprStmt \/ CgReturnStmt => OK
  BY DEF CgVarDecl, CgVarInit, CgExprStmt, CgReturnStmt, Evaluated
<1>4. CgBlockEnter \/ CgNextStatement \/ CgBlockLeave \/ CgIfThen \/ CgIfElse \/ CgIfEnd => OK
  BY DEF CgBlockEnter, CgNextStatement, CgBlockLeave, CgIfThen, CgIfElse, CgIfEnd, InList
<1>5. CgWhile \/ CgWhileBody \/ CgWhileEnd \/ CgFor \/ CgForCond \/ CgForBody \/ CgForPost \/ CgForEnd
        => OK
  BY DEF CgWhile, CgWhileBody, CgWhileEnd, CgFor, CgForCond, CgForBody, CgForPost, CgForEnd
<1>6. \A v, kinds : Give(v, kinds) /\ phase = "codegen" => OK
  BY DEF Give
<1>7. CgOperand \/ CgLogicalTest \/ CgLogicalMerge => OK
  BY <1>6 DEF CgOperand, CgLogicalTest, CgLogicalMerge
<1>8. CgLiteral \/ CgIdent \/ CgIndexAddress \/ CgDerefAddress \/ CgUnhandled => OK
  BY <1>6 DEF CgLiteral, CgIdent, CgIndexAddress, CgDerefAddress, CgUnhandled, Evaluated,
              EvaluatedOp, Compute, Pass, CgError
<1>9. CgAssign \/ CgArith \/ CgAddress \/ CgLoad \/ CgNegate \/ CgNot \/ CgCall => OK
  BY <1>6 DEF CgAssign, CgArith, CgAddress, CgLoad, CgNegate, CgNot, CgCall, Evaluated,
              EvaluatedOp, Compute, Pass, CgError
<1> HIDE DEF OK
<1>10. OK
  BY <1>2, <1>3, <1>4, <1>5, <1>7, <1>8, <1>9 DEF CgNext
<1> QED
  BY <1>1, <1>10 DEF OK

LEMMA MainKeepsSema ==
  ASSUME Main
  PROVE  /\ phase' \notin {"parse", "sema"} /\ UNCHANGED <<ast, semaVars>>
         /\ phase' = "done" \/ phase \notin {"parse", "done"}
  BY DEF Main, MainNoParse, MainRejected, MainVerify, MainWriteIr, MainWriteObject, Exit

\* What the analysis leaves stays.
LEMMA AfterSema ==
  ASSUME SemaInv, UNCHANGED <<ast, semaVars>>, phase' \notin {"parse", "sema"},
         phase' = "done" \/ phase \notin {"parse", "done"}
  PROVE  SemaInv'
<1>1. AstTypeOK'
  BY AstStable DEF SemaInv
<1>2. SemaTypeOK' /\ scopes' \in Seq(ScopeSet)' /\ KnownUnlessError'
  BY SetsStable DEF SemaInv, SemaTypeOK, KnownUnlessError, semaVars
<1>3. ~Analysing'
  BY DEF Analysing
<1> QED
  BY <1>1, <1>2, <1>3 DEF SemaInv

-----------------------------------------------------------------------------
(* The theorems. *)

LEMMA SemaInvInitially == Init => SemaInv
<1> SUFFICES ASSUME Init PROVE SemaInv
  OBVIOUS
<1>1. ast = <<Node("?program")>> /\ phase = "parse"
  BY DEF Init, SemaInit, AstInit
<1>2. AstTypeOK
  <2> DEFINE root == Node("?program")
  <2>1. /\ root \in NodeType /\ root.kind = "?program" /\ root.kids = <<>>
        /\ Labelled(root) /\ HasArity("?program", 0)
    BY DEF Node, NodeType, NodeKinds, HoleKinds, Labelled, HasArity, Literals
  <2> HIDE DEF root
  <2>2. ast \in Seq(NodeType) /\ ast # <<>> /\ Nodes = {1} /\ ast[1] = root
    BY <1>1, <2>1 DEF Nodes, root
  <2> QED
    BY <1>1, <2>1, <2>2 DEF AstTypeOK, Kind, Arity
<1>3. /\ frames = <<>> /\ scopes = <<>> /\ current_func = NoSymbol /\ has_return = FALSE
      /\ error_count = 0 /\ warning_count = 0 /\ rtype = <<>> /\ bind = <<>>
  BY DEF Init, SemaInit
<1>4. SemaTypeOK
  <2>1. frames \in Seq([node : Nodes, next : Nat])
    BY <1>3
  <2>2. DOMAIN scopes = {} /\ DOMAIN rtype = {} /\ DOMAIN bind = {}
    BY <1>3
  <2> QED
    BY <1>3, <2>1, <2>2 DEF SemaTypeOK
<1>5. KnownUnlessError /\ scopes \in Seq(ScopeSet) /\ ~Analysing
  BY <1>1, <1>3 DEF KnownUnlessError, Analysing
<1> QED
  BY <1>2, <1>3, <1>4, <1>5 DEF SemaInv

LEMMA SemaInvKept == SemaInv /\ [Next]_vars => SemaInv'
<1> SUFFICES ASSUME SemaInv, [Next]_vars PROVE SemaInv'
  OBVIOUS
<1>1. CASE SemaNext
  BY <1>1, SemaStep
<1>2. CASE CgNext
  BY <1>2, CgKeepsSema, AfterSema
<1>3. CASE Main
  BY <1>3, MainKeepsSema, AfterSema
<1>4. CASE UNCHANGED vars
  <2>1. UNCHANGED <<ast, phase, semaVars>>
    BY <1>4 DEF vars
  <2>2. AstTypeOK'
    BY <2>1, AstStable DEF SemaInv
  <2>3. SemaTypeOK' /\ scopes' \in Seq(ScopeSet)' /\ KnownUnlessError'
    BY <2>1, SetsStable DEF SemaInv, SemaTypeOK, KnownUnlessError, semaVars
  <2>4. Nodes' = Nodes /\ Active' = Active /\ Analysing' = Analysing
    BY <2>1 DEF Nodes, Active, HasScope, Kind, Analysing, semaVars
  <2> QED
    BY <2>1, <2>2, <2>3, <2>4 DEF SemaInv, semaVars
<1> QED
  BY <1>1, <1>2, <1>3, <1>4 DEF Next

LEMMA SemaInvAlways == Spec => []SemaInv
  BY SemaInvInitially, SemaInvKept, PTL DEF Spec

\* The parse functions build trees of the grammar only, and no later phase changes them: no
\* phase meets a child pointer it does not expect (Parser.c, ASTNode in Parser.h).
THEOREM TreesAreOfTheGrammar == Spec => []AstTypeOK
<1>1. SemaInv => AstTypeOK
  BY DEF SemaInv
<1> QED
  BY <1>1, SemaInvAlways, PTL

\* struct Sema, its scopes and the types it stores in the tree stay well-typed through every
\* phase: in particular a resolved type is one a declaration can reach by * and &, or unknown.
THEOREM SemaStateIsTyped == Spec => []SemaTypeOK
<1>1. SemaInv => SemaTypeOK
  BY DEF SemaInv
<1> QED
  BY <1>1, SemaInvAlways, PTL

\* analyse_expr never leaves an expression without a type silently, for every program: an
\* unknown type in the tree means an error was counted, and main() stops before CodeGen.
THEOREM UnknownTypesAreErrors == Spec => []KnownUnlessError
<1>1. SemaInv => KnownUnlessError
  BY DEF SemaInv
<1> QED
  BY <1>1, SemaInvAlways, PTL

\* scope_push and scope_pop are balanced on every path of analyse_func_decl and analyse_stmt.
THEOREM ScopesAreBalanced == Spec => []ScopesBalanced
  BY InvIsBalanced, SemaInvAlways, PTL

-----------------------------------------------------------------------------
(* The order of visits.  A node is still to be visited if it is under a child that a     *)
(* running function has not come to; every node is that, on the call stack, or done.     *)

-----------------------------------------------------------------------------
(* The tree: each node but the root is one child of one node. *)

Rooted == \A n \in Nodes : n # 1 => \E p \in Nodes : \E i \in 1..Arity(p) : Kid(p, i) = n
OneParent ==
  \A p, q \in Nodes : \A i \in 1..Arity(p), j \in 1..Arity(q) : Kid(p, i) = Kid(q, j) => p = q /\ i = j
Ascending == \A p \in Nodes : \A i, j \in 1..Arity(p) : i < j => Kid(p, i) < Kid(p, j)
TreeOK == Rooted /\ OneParent /\ Ascending

\* Filling a hole adds its children at the end.
Grows(h, a, k) ==
  /\ Nodes = 1..a /\ Nodes' = 1..(a + k)
  /\ Arity(h) = 0 /\ Len(ast'[h].kids) = k /\ \A i \in 1..k : ast'[h].kids[i] = a + i
  /\ \A n \in 1..a : n # h => ast'[n] = ast[n]
  /\ \A n \in (a + 1)..(a + k) : Len(ast'[n].kids) = 0

LEMMA FillGrows ==
  ASSUME AstTypeOK, NEW holes, NEW kind, NEW new, NEW shape, Fill(holes, new, shape),
         NodeOK(new, kind), ShapeOK(shape, kind), Fits(holes, kind)
  PROVE  \E h \in Nodes, a, k \in Nat : Grows(h, a, k)
<1> USE DEF NodeOK, ShapeOK, Fits
<1> DEFINE k == Len(shape)
           a == Len(ast)
           kids == [i \in 1..k |-> a + i]
           filled == [new EXCEPT !.kids = kids]
           fresh == [i \in 1..k |-> Node(shape[i])]
<1>0. k \in Nat /\ a \in Nat /\ DOMAIN shape = 1..k /\ Nodes = 1..a
  BY DEF AstTypeOK, Nodes
<1>1. PICK h \in Nodes : Kind(h) \in HoleKinds /\ ast' = [ast EXCEPT ![h] = filled] \o fresh
  BY <1>0 DEF Fill, Holes
<1>2. filled \in NodeType /\ filled.kids = kids /\ Len(kids) = k /\ \A i \in 1..k : kids[i] = a + i
  <2>1. kids \in Seq(Nat) /\ Len(kids) = k
    BY <1>0
  <2> QED
    BY <1>0, <2>1 DEF NodeType
<1>3. fresh \in Seq(NodeType) /\ Len(fresh) = k /\ \A i \in 1..k : fresh[i].kids = <<>>
  <2>1. \A i \in 1..k : Node(shape[i]) \in NodeType
    BY <1>0 DEF Node, NodeType, NodeKinds, Null, NoName, NoOp, Unset, TypeInfo
  <2>2. \A i \in 1..k : fresh[i] = Node(shape[i])
    OBVIOUS
  <2>3. \A i \in 1..k : fresh[i].kids = <<>>
    BY <2>2, FieldsOfNode
  <2> QED
    BY <1>0, <2>1, <2>3
<1> HIDE DEF filled, fresh, kids
<1> DEFINE base == [ast EXCEPT ![h] = filled]
<1>4. /\ base \in Seq(NodeType) /\ Len(base) = a /\ ast' = base \o fresh
      /\ \A n \in 1..a : base[n] = IF n = h THEN filled ELSE ast[n]
  BY <1>0, <1>1, <1>2 DEF AstTypeOK
<1> HIDE DEF base
<1>5. /\ ast' \in Seq(NodeType) /\ Len(ast') = a + k
      /\ \A n \in 1..a : ast'[n] = IF n = h THEN filled ELSE ast[n]
      /\ \A i \in 1..k : ast'[a + i] = fresh[i]
  <2>1. ast' \in Seq(NodeType) /\ Len(ast') = a + k
    <3>1. base \in Seq(NodeType) /\ fresh \in Seq(NodeType)
      BY <1>3, <1>4
    <3>2. base \o fresh \in Seq(NodeType) /\ Len(base \o fresh) = Len(base) + Len(fresh)
      BY <3>1, ConcatProperties
    <3> QED
      BY <1>3, <1>4, <3>2
  <2>2. \A n \in 1..a : ast'[n] = base[n]
    BY <1>0, <1>3, <1>4
  <2>3. ASSUME NEW i \in 1..k PROVE ast'[a + i] = fresh[i]
    <3>1. a + i \in 1..(a + k) /\ a + i > a /\ (a + i) - a = i
      BY <1>0
    <3> QED
      BY <1>0, <1>3, <1>4, <3>1
  <2> QED
    BY <1>4, <2>1, <2>2, <2>3
<1>6. Nodes' = 1..(a + k)
  BY <1>5 DEF Nodes
<1>7. Arity(h) = 0
  BY <1>1, NodeFacts DEF HasArity
<1>8. Len(ast'[h].kids) = k /\ \A i \in 1..k : ast'[h].kids[i] = a + i
  BY <1>0, <1>2, <1>5
<1>9. ASSUME NEW n \in (a + 1)..(a + k) PROVE Len(ast'[n].kids) = 0
  <2>1. n - a \in 1..k /\ a + (n - a) = n
    BY <1>0
  <2>2. ast'[n] = fresh[n - a] /\ fresh[n - a].kids = <<>>
    BY <1>3, <1>5, <2>1
  <2> QED
    BY <2>2
<1>10. Grows(h, a, k)
  BY <1>0, <1>5, <1>6, <1>7, <1>8, <1>9 DEF Grows
<1> QED
  BY <1>0, <1>10

LEMMA TreeGrows ==
  ASSUME AstTypeOK, TreeOK, AstNext
  PROVE  TreeOK'
<1>1. PICK kind, new : Filled(kind, new)
  BY AstFills
<1>2. PICK h \in Nodes, a \in Nat, k \in Nat : Grows(h, a, k)
  BY <1>1, FillGrows DEF Filled
<1>w. /\ Nodes = 1..a /\ Nodes' = 1..(a + k) /\ Arity(h) = 0
      /\ Arity(h)' = k /\ \A i \in 1..k : Kid(h, i)' = a + i
      /\ \A n \in (a + 1)..(a + k) : Arity(n)' = 0
  BY <1>2 DEF Grows, Arity, Kid
<1>3. \A n \in 1..a : n # h => Arity(n)' = Arity(n) /\ \A i : Kid(n, i)' = Kid(n, i)
  BY <1>2 DEF Grows, Arity, Kid
<1>4. \A n \in 1..a : Arity(n) \in Nat /\ \A i \in 1..Arity(n) : Kid(n, i) \in 1..a
  BY <1>w, NodeFacts
<1>5. \A n \in 1..(a + k) : n \in 1..a \/ n \in (a + 1)..(a + k)
  BY <1>w
<1>6. \A n \in 1..a : n \in 1..(a + k)
  BY <1>w
<1>7. Rooted'
  <2> SUFFICES ASSUME NEW n \in 1..(a + k), n # 1
               PROVE  \E p \in 1..(a + k) : \E i \in 1..Arity(p)' : Kid(p, i)' = n
    BY <1>w DEF Rooted
  <2>1. CASE n \in 1..a
    <3>1. PICK p \in 1..a : \E i \in 1..Arity(p) : Kid(p, i) = n
      BY <1>w, <2>1 DEF TreeOK, Rooted
    <3>2. p # h
      BY <1>w, <3>1
    <3> QED
      BY <1>3, <1>6, <3>1, <3>2
  <2>2. CASE n \in (a + 1)..(a + k)
    <3>1. n - a \in 1..k /\ a + (n - a) = n
      BY <1>w, <2>2
    <3> QED
      BY <1>w, <1>6, <3>1
  <2> QED
    BY <1>5, <2>1, <2>2
<1>8. OneParent'
  <2> SUFFICES ASSUME NEW p \in 1..(a + k), NEW q \in 1..(a + k), NEW i \in 1..Arity(p)',
                      NEW j \in 1..Arity(q)', Kid(p, i)' = Kid(q, j)'
               PROVE  p = q /\ i = j
    BY <1>w DEF OneParent
  <2>1. p \in 1..a /\ q \in 1..a
    <3>1. \A n \in (a + 1)..(a + k) : 1..Arity(n)' = {}
      BY <1>w
    <3> QED
      BY <1>5, <3>1
  <2>2. CASE p # h /\ q # h
    BY <1>w, <1>3, <2>1, <2>2 DEF TreeOK, OneParent
  <2>3. CASE p = h /\ q = h
    BY <1>w, <2>3
  <2>4. \A m \in 1..a : m # h => \A l \in 1..Arity(m)' : Kid(m, l)' \in 1..a
    BY <1>3, <1>4
  <2>5. \A l \in 1..k : Kid(h, l)' \notin 1..a
    BY <1>w
  <2> QED
    BY <1>w, <2>1, <2>2, <2>3, <2>4, <2>5
<1>9. Ascending'
  <2> SUFFICES ASSUME NEW p \in 1..(a + k), NEW i \in 1..Arity(p)', NEW j \in 1..Arity(p)', i < j
               PROVE  Kid(p, i)' < Kid(p, j)'
    BY <1>w DEF Ascending
  <2>1. CASE p \in 1..a /\ p # h
    BY <1>w, <1>3, <2>1 DEF TreeOK, Ascending
  <2>2. CASE p = h
    BY <1>w, <2>2
  <2>3. CASE p \in (a + 1)..(a + k)
    BY <1>w, <2>3
  <2> QED
    BY <1>5, <2>1, <2>2, <2>3
<1> QED
  BY <1>7, <1>8, <1>9 DEF TreeOK

-----------------------------------------------------------------------------
(* Parents, and the nodes a node is part of. *)

LEMMA ParentFacts ==
  ASSUME AstTypeOK, TreeOK
  PROVE  /\ Nodes = 1..Len(ast) /\ Len(ast) \in Nat /\ 1 \in Nodes
         /\ \A n \in Nodes : n # 1 =>
              Parent(n) \in Nodes /\ Parent(n) < n /\ \E i \in 1..Arity(Parent(n)) : Kid(Parent(n), i) = n
         /\ \A p \in Nodes : \A i \in 1..Arity(p) :
              Kid(p, i) \in Nodes /\ Kid(p, i) > p /\ Kid(p, i) # 1 /\ Parent(Kid(p, i)) = p
<1>1. Nodes = 1..Len(ast) /\ Len(ast) \in Nat /\ 1 \in Nodes
  BY DEF AstTypeOK, Nodes
<1>2. \A p \in Nodes : \A i \in 1..Arity(p) : Kid(p, i) \in Nodes /\ Kid(p, i) > p
  BY DEF AstTypeOK
<1>3. ASSUME NEW n \in Nodes, n # 1
      PROVE  Parent(n) \in 1..(n - 1) /\ \E i \in 1..Arity(Parent(n)) : Kid(Parent(n), i) = n
  <2>1. PICK p \in Nodes : \E i \in 1..Arity(p) : Kid(p, i) = n
    BY <1>3 DEF TreeOK, Rooted
  <2>2. p \in 1..(n - 1)
    BY <1>1, <1>2, <2>1
  <2>3. \E q \in 1..(n - 1) : \E i \in 1..Arity(q) : Kid(q, i) = n
    BY <2>1, <2>2
  <2> QED
    BY <2>3, Zenon DEF Parent
<1>4. ASSUME NEW p \in Nodes, NEW i \in 1..Arity(p)
      PROVE  Kid(p, i) \in Nodes /\ Kid(p, i) > p /\ Kid(p, i) # 1 /\ Parent(Kid(p, i)) = p
  <2>1. Kid(p, i) \in Nodes /\ Kid(p, i) > p /\ Kid(p, i) # 1
    BY <1>1, <1>2
  <2>2. Parent(Kid(p, i)) \in 1..(Kid(p, i) - 1)
        /\ \E j \in 1..Arity(Parent(Kid(p, i))) : Kid(Parent(Kid(p, i)), j) = Kid(p, i)
    BY <1>3, <2>1
  <2>3. Parent(Kid(p, i)) \in Nodes
    BY <1>1, <2>1, <2>2
  <2> QED
    BY <2>1, <2>2, <2>3 DEF TreeOK, OneParent
<1>5. ASSUME NEW n \in Nodes, n # 1 PROVE Parent(n) \in Nodes /\ Parent(n) < n
  BY <1>1, <1>3, <1>5
<1> QED
  BY <1>1, <1>3, <1>4, <1>5

\* Path is a function: what is above a node is in every set that holds the node and, with a
\* node, its parent.
LEMMA PathUnfolds ==
  ASSUME AstTypeOK, TreeOK
  PROVE  \A n \in Nodes : Path[n] = {n} \cup IF n = 1 THEN {} ELSE Path[Parent(n)]
<1> DEFINE Upward(S) == \A k \in S : k # 1 => Parent(k) \in S
           above == [n \in Nodes |-> {m \in Nodes : \A S \in SUBSET Nodes : n \in S /\ Upward(S) => m \in S}]
           Unfolds(f) == f = [n \in Nodes |-> {n} \cup IF n = 1 THEN {} ELSE f[Parent(n)]]
<1>0. 1 \in Nodes /\ \A n \in Nodes : n # 1 => Parent(n) \in Nodes
  BY ParentFacts
<1>1. ASSUME NEW n \in Nodes
      PROVE  above[n] = {n} \cup IF n = 1 THEN {} ELSE above[Parent(n)]
  <2>1. \A m : m \in above[n] <=> m \in Nodes /\ \A S \in SUBSET Nodes : n \in S /\ Upward(S) => m \in S
    OBVIOUS
  <2>2. CASE n = 1
    <3>1. {1} \in SUBSET Nodes /\ Upward({1})
      BY <1>0
    <3> QED
      BY <2>1, <2>2, <3>1
  <2>3. CASE n # 1
    <3> DEFINE p == Parent(n)
    <3>0. p \in Nodes
      BY <1>0, <2>3
    <3>1. \A m : m \in above[p] <=> m \in Nodes /\ \A S \in SUBSET Nodes : p \in S /\ Upward(S) => m \in S
      BY <3>0
    <3>2. ASSUME NEW m \in above[n], m # n PROVE m \in above[p]
      <4> SUFFICES ASSUME NEW S \in SUBSET Nodes, p \in S, Upward(S) PROVE m \in S
        BY <2>1, <3>1, <3>2
      <4>1. S \cup {n} \in SUBSET Nodes /\ n \in S \cup {n} /\ Upward(S \cup {n})
        OBVIOUS
      <4>2. m \in S \cup {n}
        BY <2>1, <4>1, <3>2
      <4> QED
        BY <3>2, <4>2
    <3>3. ASSUME NEW m \in above[p] PROVE m \in above[n]
      BY <2>1, <2>3, <3>1
    <3>4. n \in above[n]
      BY <2>1
    <3> QED
      BY <2>3, <3>2, <3>3, <3>4
  <2> QED
    BY <2>2, <2>3
<1>2. Unfolds(above)
  <2> HIDE DEF Upward
  <2> DEFINE g == [n \in Nodes |-> {n} \cup IF n = 1 THEN {} ELSE above[Parent(n)]]
  <2>1. DOMAIN above = Nodes /\ above = [n \in Nodes |-> above[n]]
    OBVIOUS
  <2> HIDE DEF above
  <2>2. [n \in Nodes |-> above[n]] = g
    BY <1>1
  <2> QED
    BY <2>1, <2>2
<1>3. Path = CHOOSE f : Unfolds(f)
  BY DEF Path
<1>4. Unfolds(Path)
  <2> HIDE DEF Unfolds, above
  <2> QED
    BY <1>2, <1>3, Zenon
<1> QED
  BY <1>4

LEMMA UnderKid ==
  ASSUME AstTypeOK, TreeOK, NEW p \in Nodes, NEW i \in 1..Arity(p), NEW m
  PROVE  Under(Kid(p, i), m) <=> m = Kid(p, i) \/ Under(p, m)
<1>1. Kid(p, i) \in Nodes /\ Kid(p, i) # 1 /\ Parent(Kid(p, i)) = p
  BY ParentFacts
<1> QED
  BY <1>1, PathUnfolds DEF Under

LEMMA UnderSelf ==
  ASSUME AstTypeOK, TreeOK
  PROVE  \A n \in Nodes : Under(n, n)
  BY PathUnfolds DEF Under

\* No node is part of two declarations of the program.
LEMMA UnderOne ==
  ASSUME AstTypeOK, TreeOK, NEW n \in Nodes, NEW i \in 1..Arity(1), NEW j \in 1..Arity(1),
         Under(n, Kid(1, i)), Under(n, Kid(1, j))
  PROVE  i = j
<1> DEFINE Two(m) == Under(m, Kid(1, i)) /\ Under(m, Kid(1, j))
           bad == {m \in Nodes : Two(m)}
<1> SUFFICES ASSUME i # j PROVE FALSE
  OBVIOUS
<1>0. Nodes = 1..Len(ast) /\ Len(ast) \in Nat /\ 1 \in Nodes
  BY ParentFacts
<1>1. PICK m \in bad : \A l \in bad : m <= l
  <2>1. bad \in SUBSET (1..Len(ast)) /\ bad # {}
    BY <1>0
  <2> HIDE DEF bad
  <2> QED
    BY <1>0, <2>1, Extremes
<1>2. /\ Kid(1, i) # 1 /\ Kid(1, j) # 1 /\ Kid(1, i) # Kid(1, j)
      /\ Parent(Kid(1, i)) = 1 /\ Parent(Kid(1, j)) = 1
  BY <1>0, ParentFacts DEF TreeOK, OneParent
<1>3. m \in Nodes /\ Two(m)
  OBVIOUS
<1>4. m # 1
  BY <1>0, <1>2, <1>3, PathUnfolds DEF Under
<1>5. Parent(m) \in Nodes /\ Parent(m) < m /\ \A x : Under(m, x) <=> x = m \/ Under(Parent(m), x)
  BY <1>3, <1>4, ParentFacts, PathUnfolds DEF Under
<1>6. ~Two(Parent(m))
  BY <1>0, <1>1, <1>3, <1>5
<1>7. Parent(m) = 1
  BY <1>2, <1>3, <1>5, <1>6
<1>8. ~Under(1, Kid(1, i)) /\ ~Under(1, Kid(1, j))
  BY <1>0, <1>2, PathUnfolds DEF Under
<1> QED
  BY <1>2, <1>3, <1>5, <1>7, <1>8

-----------------------------------------------------------------------------
(* What the running functions visit. *)

Height == Len(frames)

\* The children a function analyses when nothing is wrong: it is on the body's statements in a
\* function, and the callee of a call is not among them.
VisitCount(n) ==
  IF Kind(n) = "FUNC_DECL" THEN Arity(Kid(n, 1)) ELSE IF Kind(n) = "CALL" THEN Arity(n) - 1 ELSE Arity(n)
VisitKid(n, k) ==
  IF Kind(n) = "FUNC_DECL" THEN Kid(Kid(n, 1), k) ELSE IF Kind(n) = "CALL" THEN Kid(n, k + 1) ELSE Kid(n, k)

LEMMA KindsOfKids ==
  ASSUME AstTypeOK, phase \in {"sema", "codegen"}
  PROVE  /\ Kind(1) = "PROGRAM"
         /\ \A n \in Nodes : \A i \in 1..Arity(n) :
              /\ Kind(Kid(n, i)) # "PROGRAM"
              /\ Kind(Kid(n, i)) = "FUNC_DECL" => Kind(n) = "PROGRAM"
              /\ Kind(n) = "PROGRAM" => Kind(Kid(n, i)) \in {"FUNC_DECL", "VAR_DECL"}
              /\ Kind(n) = "FUNC_DECL" => Kind(Kid(n, i)) \in {"BLOCK", "NULL"}
              /\ Kind(n) = "BLOCK" => Kind(Kid(n, i)) \in StmtKinds
              /\ Kind(n) \in ExprKinds => Kind(Kid(n, i)) \in ExprKinds
              /\ Kind(n) = "VAR_DECL" => Kind(Kid(n, i)) \in ExprKinds \cup Null
              /\ Kind(n) \in StmtKinds => Kind(Kid(n, i)) \in StmtKinds \cup ExprKinds \cup Null
<1>1. \A n \in Nodes : Kind(n) \notin HoleKinds
  BY DEF AstTypeOK, Holes
<1>2. Kind(1) = "PROGRAM"
  BY <1>1 DEF AstTypeOK, Nodes, HoleKinds
<1>3. ASSUME NEW n \in Nodes, NEW i \in 1..Arity(n)
      PROVE  Kind(Kid(n, i)) \in Slot(Kind(n), i) \ HoleKinds
  BY <1>1 DEF AstTypeOK
<1> USE DEF Slot, IsStmtSlot, MayBeNull, StmtSlot, ExprSlot, Null, StmtKinds, ExprKinds, Literals, HoleKinds
<1>4. \A kind, i : \A k \in Slot(kind, i) \ HoleKinds :
        /\ k # "PROGRAM"
        /\ k = "FUNC_DECL" => kind = "PROGRAM"
        /\ kind = "PROGRAM" => k \in {"FUNC_DECL", "VAR_DECL"}
        /\ kind = "FUNC_DECL" => k \in {"BLOCK", "NULL"}
        /\ kind = "BLOCK" => k \in StmtKinds
        /\ kind \in ExprKinds => k \in ExprKinds
        /\ kind = "VAR_DECL" => k \in ExprKinds \cup Null
        /\ kind \in StmtKinds => k \in StmtKinds \cup ExprKinds \cup Null
  OBVIOUS
<1> HIDE DEF Slot, IsStmtSlot, MayBeNull, StmtSlot, ExprSlot, Null, StmtKinds, ExprKinds, Literals, HoleKinds
<1>5. ASSUME NEW n \in Nodes, NEW i \in 1..Arity(n)
      PROVE  /\ Kind(Kid(n, i)) # "PROGRAM"
             /\ Kind(Kid(n, i)) = "FUNC_DECL" => Kind(n) = "PROGRAM"
             /\ Kind(n) = "PROGRAM" => Kind(Kid(n, i)) \in {"FUNC_DECL", "VAR_DECL"}
             /\ Kind(n) = "FUNC_DECL" => Kind(Kid(n, i)) \in {"BLOCK", "NULL"}
             /\ Kind(n) = "BLOCK" => Kind(Kid(n, i)) \in StmtKinds
             /\ Kind(n) \in ExprKinds => Kind(Kid(n, i)) \in ExprKinds
             /\ Kind(n) = "VAR_DECL" => Kind(Kid(n, i)) \in ExprKinds \cup Null
             /\ Kind(n) \in StmtKinds => Kind(Kid(n, i)) \in StmtKinds \cup ExprKinds \cup Null
  <2>1. Kind(Kid(n, i)) \in Slot(Kind(n), i) \ HoleKinds
    BY <1>3
  <2> QED
    BY <1>4, <2>1
<1> QED
  BY <1>2, <1>5

LEMMA VisitedIsKid ==
  ASSUME AstTypeOK, NEW n \in Nodes
  PROVE  /\ VisitCount(n) \in Nat
         /\ \A k \in 1..VisitCount(n) :
              \E q \in Nodes : \E i \in 1..Arity(q) :
                /\ VisitKid(n, k) = Kid(q, i) /\ ~(Kind(q) = "CALL" /\ i = 1)
                /\ q = n \/ (Kind(n) = "FUNC_DECL" /\ q = Kid(n, 1))
                /\ Kind(n) # "FUNC_DECL" => q = n
<1>1. Arity(n) \in Nat /\ HasArity(Kind(n), Arity(n)) /\ \A i \in 1..Arity(n) : Kid(n, i) \in Nodes
  BY NodeFacts
<1>2. CASE Kind(n) = "FUNC_DECL"
  <2>1. Arity(n) = 1 /\ Kid(n, 1) \in Nodes
    BY <1>1, <1>2 DEF HasArity
  <2>2. Arity(Kid(n, 1)) \in Nat /\ Kind(Kid(n, 1)) # "CALL"
    <3>1. Kind(Kid(n, 1)) \in Slot("FUNC_DECL", 1)
      BY <1>2, <2>1 DEF AstTypeOK
    <3> QED
      BY <2>1, <3>1, NodeFacts DEF Slot, IsStmtSlot, MayBeNull, Null
  <2> QED
    BY <1>2, <2>1, <2>2 DEF VisitCount, VisitKid
<1>3. CASE Kind(n) = "CALL"
  <2>1. Arity(n) >= 1
    BY <1>1, <1>3 DEF HasArity
  <2>2. VisitCount(n) = Arity(n) - 1 /\ \A k : VisitKid(n, k) = Kid(n, k + 1)
    BY <1>3 DEF VisitCount, VisitKid
  <2>3. \A k \in 1..(Arity(n) - 1) : k + 1 \in 1..Arity(n) /\ k + 1 # 1
    BY <1>1, <2>1
  <2> QED
    BY <1>1, <1>3, <2>1, <2>2, <2>3
<1>4. CASE Kind(n) \notin {"FUNC_DECL", "CALL"}
  BY <1>1, <1>4 DEF VisitCount, VisitKid
<1> QED
  BY <1>2, <1>3, <1>4

LEMMA VisitKinds ==
  ASSUME AstTypeOK, phase \in {"sema", "codegen"}, NEW n \in Nodes, NEW k \in 1..VisitCount(n)
  PROVE  /\ VisitKid(n, k) \in Nodes /\ Kind(VisitKid(n, k)) # "PROGRAM"
         /\ Kind(VisitKid(n, k)) = "FUNC_DECL" => Kind(n) = "PROGRAM"
         /\ Kind(n) = "PROGRAM" => Kind(VisitKid(n, k)) \in {"FUNC_DECL", "VAR_DECL"}
         /\ Kind(n) = "FUNC_DECL" => Kind(VisitKid(n, k)) \in StmtKinds
         /\ Kind(n) \in ExprKinds \cup {"VAR_DECL"} => Kind(VisitKid(n, k)) \in ExprKinds \cup Null
         /\ Kind(n) \in StmtKinds => Kind(VisitKid(n, k)) \in StmtKinds \cup ExprKinds \cup Null
<1>1. PICK q \in Nodes : \E i \in 1..Arity(q) :
        /\ VisitKid(n, k) = Kid(q, i)
        /\ q = n \/ (Kind(n) = "FUNC_DECL" /\ q = Kid(n, 1))
  BY VisitedIsKid
<1>i. PICK i \in 1..Arity(q) : VisitKid(n, k) = Kid(q, i)
  BY <1>1
<1>2. Kid(q, i) \in Nodes
  BY NodeFacts
<1>3. CASE q = n /\ Kind(n) # "FUNC_DECL"
  BY <1>i, <1>2, <1>3, KindsOfKids DEF StmtKinds, ExprKinds, Literals
<1>4. CASE Kind(n) = "FUNC_DECL"
  <2>1. Arity(n) = 1 /\ Arity(q) \in Nat
    BY <1>4, NodeFacts DEF HasArity
  <2>2. Kind(Kid(n, 1)) \in {"BLOCK", "NULL"} /\ Kid(n, 1) \in Nodes
    BY <1>4, <2>1, KindsOfKids, NodeFacts
  <2>3. VisitKid(n, k) = Kid(Kid(n, 1), k) /\ k \in 1..Arity(Kid(n, 1))
    BY <1>4 DEF VisitCount, VisitKid
  <2>4. Kind(Kid(n, 1)) = "BLOCK"
    BY <2>2, <2>3, NodeFacts DEF HasArity
  <2> QED
    BY <1>4, <2>2, <2>3, <2>4, KindsOfKids, NodeFacts DEF StmtKinds, ExprKinds, Literals
<1> QED
  BY <1>1, <1>3, <1>4

LEMMA VisitFacts ==
  ASSUME Good, frames # <<>>
  PROVE  /\ node \in Nodes /\ Top.next \in Nat /\ VisitCount(node) \in Nat
         /\ Len(Visits) \in Nat /\ Len(Visits) <= VisitCount(node) /\ DOMAIN Visits = 1..Len(Visits)
         /\ \A k \in 1..Len(Visits) : Visits[k] = VisitKid(node, k)
         /\ \/ Kind(node) \notin {"CALL", "RETURN"}
            \/ Kind(node) = "CALL" /\ Callable
            \/ Kind(node) = "RETURN" /\ current_func # NoSymbol
            => Len(Visits) = VisitCount(node)
<1>1. node \in Nodes /\ Top.next \in Nat /\ AstTypeOK
  BY TopFacts DEF Good
<1>2. \A n \in Nodes : ast[n].kids \in Seq(Nat) /\ Arity(n) \in Nat /\ HasArity(Kind(n), Arity(n))
  BY <1>1, NodeFacts
<1>3. CASE Kind(node) = "FUNC_DECL"
  <2>1. Kid(node, 1) \in Nodes
    BY <1>1, <1>3, NodeFacts DEF HasArity
  <2> QED
    BY <1>1, <1>2, <1>3, <2>1 DEF Visits, VisitCount, VisitKid, Arity, Kid
<1>4. CASE Kind(node) = "CALL"
  <2>1. Arity(node) >= 1
    BY <1>1, <1>2, <1>4 DEF HasArity
  <2>2. CASE Callable
    <3>1. Visits = Tail(ast[node].kids)
      BY <1>4, <2>2 DEF Visits
    <3>2. /\ Len(Visits) = Arity(node) - 1 /\ DOMAIN Visits = 1..Len(Visits)
          /\ \A k \in 1..Len(Visits) : Visits[k] = Kid(node, k + 1)
      BY <1>1, <1>2, <2>1, <3>1 DEF Arity, Kid
    <3> QED
      BY <1>1, <1>2, <1>4, <2>1, <3>2 DEF VisitCount, VisitKid
  <2>3. CASE ~Callable
    <3>1. Visits = <<>>
      BY <1>4, <2>3 DEF Visits
    <3>2. VisitCount(node) = Arity(node) - 1
      BY <1>4 DEF VisitCount
    <3> QED
      BY <1>1, <1>2, <1>4, <2>1, <2>3, <3>1, <3>2
  <2> QED
    BY <2>2, <2>3
<1>5. CASE Kind(node) = "RETURN" /\ current_func = NoSymbol
  <2>1. Visits = <<>>
    BY <1>5 DEF Visits
  <2> QED
    BY <1>1, <1>2, <1>5, <2>1 DEF VisitCount
<1>6. CASE Kind(node) \notin {"FUNC_DECL", "CALL"} /\ ~(Kind(node) = "RETURN" /\ current_func = NoSymbol)
  <2>1. Visits = ast[node].kids
    BY <1>6 DEF Visits
  <2> QED
    BY <1>1, <1>2, <1>6, <2>1 DEF VisitCount, VisitKid, Arity, Kid
<1> QED
  BY <1>3, <1>4, <1>5, <1>6

-----------------------------------------------------------------------------
(* The three ways a step moves the call stack. *)

LEMMA ReturnFacts ==
  ASSUME frames \in Seq(FrameSet), frames # <<>>, Return
  PROVE  /\ Height \in Nat /\ Height >= 1 /\ Height' = Height - 1
         /\ DOMAIN frames = 1..Height /\ DOMAIN frames' = 1..(Height - 1)
         /\ \A i \in 1..(Height - 1) : frames'[i] = frames[i]
<1>1. Height \in Nat /\ Height >= 1 /\ DOMAIN frames = 1..Height
  BY TopFacts DEF Height
<1>2. /\ frames' \in Seq(FrameSet) /\ Len(frames') = Height - 1
      /\ \A i \in 1..(Height - 1) : frames'[i] = frames[i]
  BY <1>1 DEF Return, Height
<1>3. DOMAIN frames' = 1..(Height - 1) /\ Height' = Height - 1
  BY <1>1, <1>2 DEF Height
<1> QED
  BY <1>1, <1>2, <1>3

LEMMA EnterFacts ==
  ASSUME frames \in Seq(FrameSet), frames # <<>>, frames' = [frames EXCEPT ![Len(frames)].next = 1]
  PROVE  /\ Height \in Nat /\ Height >= 1 /\ Height' = Height
         /\ DOMAIN frames = 1..Height /\ DOMAIN frames' = 1..Height
         /\ \A i \in 1..(Height - 1) : frames'[i] = frames[i]
         /\ frames'[Height].node = node /\ frames'[Height].next = 1
<1> DEFINE entered == [Top EXCEPT !.next = 1]
<1>1. Height \in Nat /\ Height >= 1 /\ Top \in FrameSet /\ DOMAIN frames = 1..Height
  BY TopFacts DEF Height
<1>2. entered \in FrameSet /\ entered.node = node /\ entered.next = 1
  BY <1>1 DEF FrameSet, node
<1>3. frames' = [frames EXCEPT ![Height] = entered]
  BY DEF Top, Height
<1> HIDE DEF entered
<1>4. /\ Len(frames') = Height /\ DOMAIN frames' = 1..Height
      /\ \A i \in 1..Height : frames'[i] = IF i = Height THEN entered ELSE frames[i]
  BY <1>1, <1>2, <1>3 DEF Height
<1>5. Height' = Height
  BY <1>4 DEF Height
<1>6. frames'[Height] = entered /\ \A i \in 1..(Height - 1) : frames'[i] = frames[i]
  BY <1>1, <1>4
<1> QED
  BY <1>1, <1>2, <1>4, <1>5, <1>6

LEMMA CallFacts ==
  ASSUME Good, frames # <<>>, AnalyseChild
  PROVE  /\ Height \in Nat /\ Height >= 1 /\ DOMAIN frames = 1..Height /\ DOMAIN frames' = 1..Height'
         /\ Top.next \in 1..VisitCount(node) /\ VisitKid(node, Top.next) \in Nodes
         /\ \A i \in 1..(Height - 1) : frames'[i] = frames[i]
         /\ frames'[Height].node = node /\ frames'[Height].next = Top.next + 1
         /\ \/ IsNull(VisitKid(node, Top.next)) /\ Height' = Height
            \/ /\ ~IsNull(VisitKid(node, Top.next)) /\ Height' = Height + 1
               /\ frames'[Height + 1] = Frame(VisitKid(node, Top.next))
<1> DEFINE child == Visits[Top.next]
           callee == Frame(child)
           caller == [Top EXCEPT !.next = @ + 1]
           resumed == [frames EXCEPT ![Height] = caller]
<1>1. Height \in Nat /\ Height >= 1 /\ Top \in FrameSet /\ DOMAIN frames = 1..Height /\ AstTypeOK
  BY TopFacts DEF Height, Good
<1>2. /\ Top.next \in 1..VisitCount(node) /\ child = VisitKid(node, Top.next) /\ child \in Nodes
  BY <1>1, VisitFacts, VisitsAreNodes DEF AnalyseChild
<1>3. caller \in FrameSet /\ caller.node = node /\ caller.next = Top.next + 1
  BY <1>1 DEF FrameSet, node
<1>4. callee \in FrameSet
  BY <1>2 DEF Frame, FrameSet
<1>5. frames' = IF IsNull(child) THEN resumed ELSE Append(resumed, callee)
  BY DEF AnalyseChild, Top, Height
<1> HIDE DEF child, callee, caller
<1>6. /\ resumed \in Seq(FrameSet) /\ Len(resumed) = Height /\ DOMAIN resumed = 1..Height
      /\ \A i \in 1..Height : resumed[i] = IF i = Height THEN caller ELSE frames[i]
  BY <1>1, <1>3 DEF Height, Good
<1> HIDE DEF resumed
<1>7. CASE IsNull(child)
  <2>1. frames' = resumed /\ Height' = Height
    BY <1>5, <1>6, <1>7 DEF Height
  <2> QED
    BY <1>1, <1>2, <1>3, <1>6, <1>7, <2>1
<1>8. CASE ~IsNull(child)
  <2>1. frames' = Append(resumed, callee)
    BY <1>5, <1>8
  <2>2. /\ Len(frames') = Height + 1 /\ DOMAIN frames' = 1..(Height + 1)
        /\ \A i \in 1..Height : frames'[i] = resumed[i]
        /\ frames'[Height + 1] = callee
    BY <1>1, <1>4, <1>6, <2>1
  <2>3. Height' = Height + 1
    BY <2>2 DEF Height
  <2> QED
    BY <1>1, <1>2, <1>3, <1>6, <1>8, <2>2, <2>3 DEF callee
<1> QED
  BY <1>7, <1>8

-----------------------------------------------------------------------------
(* The call stack: the program, a declaration of it, then statements and expressions, each the *)
(* child its caller went to last.                                                              *)

ChildOf(f, g) == f.next >= 2 /\ f.next - 1 <= VisitCount(f.node) /\ g.node = VisitKid(f.node, f.next - 1)

KindsAt(i) ==
  IF i = 1 THEN {"PROGRAM"} ELSE IF i = 2 THEN {"FUNC_DECL", "VAR_DECL"} ELSE StmtKinds \cup ExprKinds

VisitOK(fs, i) ==
  /\ Kind(fs[i].node) \notin ScopedKinds => fs[i].next >= 1
  /\ fs[i].next <= VisitCount(fs[i].node) + 1
  /\ Kind(fs[i].node) \in KindsAt(i)
  /\ i >= 3 /\ Kind(fs[i].node) \in StmtKinds => Kind(fs[2].node) = "FUNC_DECL"
  /\ i >= 2 => ChildOf(fs[i - 1], fs[i])

FramesOK == (Height >= 1 => frames[1].node = 1) /\ \A i \in 1..Height : VisitOK(frames, i)

LEMMA FramesNext ==
  ASSUME UNCHANGED ast, Height' >= 1 => frames'[1].node = 1, \A i \in 1..Height' : VisitOK(frames', i)
  PROVE  FramesOK'
<1>1. \A i : VisitOK(frames, i)' <=> VisitOK(frames', i)
  BY DEF VisitOK, ChildOf, VisitCount, VisitKid, Kind, Kid, Arity
<1> QED
  BY <1>1 DEF FramesOK

LEMMA FramesReturn ==
  ASSUME Good, frames # <<>>, FramesOK, Return, UNCHANGED ast
  PROVE  FramesOK'
<1>1. /\ Height \in Nat /\ Height >= 1 /\ Height' = Height - 1
      /\ \A i \in 1..(Height - 1) : frames'[i] = frames[i]
  BY ReturnFacts DEF Good
<1>2. ASSUME NEW i \in 1..Height' PROVE VisitOK(frames', i)
  <2>1. i \in 1..Height /\ frames'[i] = frames[i] /\ (i >= 2 => frames'[2] = frames[2] /\ frames'[i - 1] = frames[i - 1])
    BY <1>1, <1>2
  <2>2. VisitOK(frames, i)
    BY <2>1 DEF FramesOK
  <2> QED
    BY <1>1, <2>1, <2>2 DEF VisitOK, ChildOf
<1> QED
  BY <1>1, <1>2, FramesNext DEF FramesOK

LEMMA FramesEnter ==
  ASSUME Good, frames # <<>>, FramesOK, UNCHANGED ast, Top.next = 0,
         frames' = [frames EXCEPT ![Len(frames)].next = 1]
  PROVE  FramesOK'
<1>1. /\ Height \in Nat /\ Height >= 1 /\ Height' = Height
      /\ \A i \in 1..(Height - 1) : frames'[i] = frames[i]
      /\ frames'[Height].node = node /\ frames'[Height].next = 1
  BY EnterFacts DEF Good
<1>2. node = frames[Height].node /\ Top = frames[Height] /\ VisitCount(node) \in Nat
  BY VisitFacts DEF node, Top, Height
<1>3. ASSUME NEW i \in 1..Height' PROVE VisitOK(frames', i)
  <2>1. VisitOK(frames, i)
    BY <1>1 DEF FramesOK
  <2>2. \A j \in 1..Height : frames'[j].node = frames[j].node
    BY <1>1, <1>2
  <2>3. i >= 2 => frames'[i - 1] = frames[i - 1]
    BY <1>1
  <2>4. i = Height \/ frames'[i] = frames[i]
    BY <1>1
  <2> QED
    BY <1>1, <1>2, <2>1, <2>2, <2>3, <2>4 DEF VisitOK, ChildOf
<1>4. frames'[1].node = 1
  BY <1>1, <1>2 DEF FramesOK
<1> QED
  BY <1>3, <1>4, FramesNext

LEMMA FramesCall ==
  ASSUME Good, frames # <<>>, FramesOK, phase = "sema", AnalyseChild, UNCHANGED ast
  PROVE  FramesOK'
<1> DEFINE child == VisitKid(node, Top.next)
<1>1. /\ Height \in Nat /\ Height >= 1 /\ Height' \in Height..(Height + 1)
      /\ Top.next \in 1..VisitCount(node) /\ child \in Nodes
      /\ \A i \in 1..(Height - 1) : frames'[i] = frames[i]
      /\ frames'[Height].node = node /\ frames'[Height].next = Top.next + 1
      /\ Height' = Height + 1 => ~IsNull(child) /\ frames'[Height + 1] = Frame(child)
  BY CallFacts
<1>2. node = frames[Height].node /\ Top = frames[Height] /\ node \in Nodes /\ VisitCount(node) \in Nat /\ AstTypeOK
  BY VisitFacts DEF node, Top, Height, Good
<1>3. \A j \in 1..Height : frames'[j].node = frames[j].node
  BY <1>1, <1>2
<1>4. ASSUME NEW i \in 1..Height PROVE VisitOK(frames', i)
  <2>1. VisitOK(frames, i)
    BY <1>1 DEF FramesOK
  <2>2. i >= 2 => frames'[i - 1] = frames[i - 1]
    BY <1>1
  <2>3. i >= 2 => frames'[2].node = frames[2].node
    BY <1>1, <1>3
  <2>4. CASE i = Height
    <3>1. frames'[i].node = node /\ frames'[i].next = Top.next + 1
      BY <1>1, <2>4
    <3> QED
      BY <1>1, <1>2, <2>1, <2>2, <2>3, <2>4, <3>1 DEF VisitOK, ChildOf
  <2>5. CASE i # Height
    <3>1. frames'[i] = frames[i]
      BY <1>1, <2>5
    <3> QED
      BY <1>1, <2>1, <2>2, <2>3, <3>1 DEF VisitOK, ChildOf
  <2> QED
    BY <2>4, <2>5
<1>5. ASSUME Height' = Height + 1 PROVE VisitOK(frames', Height + 1)
  <2> DEFINE g == Frame(child)
  <2>1. /\ frames'[Height + 1] = g /\ g.node = child
        /\ g.next \in {0, 1} /\ (Kind(child) \notin ScopedKinds => g.next >= 1)
    BY <1>1, <1>5 DEF Frame
  <2> HIDE DEF g
  <2>2. VisitCount(child) \in Nat
    BY <1>1, <1>2, VisitedIsKid
  <2>3. ChildOf(frames'[Height], g)
    BY <1>1, <1>2, <2>1 DEF ChildOf
  <2>4. VisitOK(frames, Height)
    BY <1>1 DEF FramesOK
  <2>5. /\ Kind(child) \in KindsAt(Height + 1)
        /\ Height + 1 >= 3 /\ Kind(child) \in StmtKinds => Kind(frames[2].node) = "FUNC_DECL"
    <3>1. Kind(child) \notin Null
      BY <1>1, <1>5 DEF IsNull, Null
    <3>2. Kind(node) \in KindsAt(Height)
      BY <1>2, <2>4 DEF VisitOK
    <3>3. CASE Height = 1
      BY <1>1, <1>2, <3>2, <3>3, VisitKinds DEF KindsAt
    <3>4. CASE Height = 2
      <4>1. frames[2].node = node
        BY <1>2, <3>4
      <4>2. Kind(node) = "FUNC_DECL" => Kind(child) \in StmtKinds
        BY <1>1, <1>2, VisitKinds
      <4>3. Kind(node) = "VAR_DECL" => Kind(child) \in ExprKinds
        BY <1>1, <1>2, <3>1, VisitKinds
      <4> QED
        BY <3>2, <3>4, <4>1, <4>2, <4>3 DEF KindsAt, StmtKinds, ExprKinds, Literals
    <3>5. CASE Height >= 3
      <4>1. Kind(node) \in StmtKinds => Kind(frames[2].node) = "FUNC_DECL"
        BY <1>2, <2>4, <3>5 DEF VisitOK
      <4>2. Kind(node) \in ExprKinds \cup {"VAR_DECL"} => Kind(child) \in ExprKinds
        BY <1>1, <1>2, <3>1, VisitKinds
      <4>3. Kind(node) \in StmtKinds => Kind(child) \in StmtKinds \cup ExprKinds
        BY <1>1, <1>2, <3>1, VisitKinds
      <4>4. Kind(node) \in StmtKinds \cup ExprKinds
        BY <3>2, <3>5 DEF KindsAt
      <4> QED
        <5>1. \A kind \in ExprKinds : kind \notin StmtKinds
          BY DEF StmtKinds, ExprKinds, Literals
        <5>2. KindsAt(Height + 1) = StmtKinds \cup ExprKinds
          BY <1>1, <3>5 DEF KindsAt
        <5> QED
          BY <4>1, <4>2, <4>3, <4>4, <5>1, <5>2
    <3> QED
      BY <1>1, <3>3, <3>4, <3>5
  <2>6. Height >= 2 => frames'[2].node = frames[2].node
    BY <1>1, <1>3
  <2> QED
    BY <1>1, <2>1, <2>2, <2>3, <2>5, <2>6 DEF VisitOK, ChildOf
<1>6. frames'[1].node = 1
  BY <1>1, <1>3 DEF FramesOK
<1>7. \A i \in 1..Height' : VisitOK(frames', i)
  <2>1. \A i \in 1..Height' : i \in 1..Height \/ (i = Height + 1 /\ Height' = Height + 1)
    BY <1>1
  <2> QED
    BY <1>4, <1>5, <2>1
<1> QED
  BY <1>6, <1>7, FramesNext

-----------------------------------------------------------------------------
(* The global scope only grows, and only the function being entered sees it alone. *)

GlobalsKept ==
  /\ Len(scopes') >= 1
  /\ \A x \in DOMAIN scopes[1] : x \in DOMAIN scopes'[1] /\ scopes'[1][x] = scopes[1][x]

LEMMA InsertFacts ==
  \A scope, x, s :
    /\ DOMAIN Insert(scope, x, s) = DOMAIN scope \cup {x}
    /\ \A y \in DOMAIN scope : Insert(scope, x, s)[y] = scope[y]
    /\ x \notin DOMAIN scope => Insert(scope, x, s)[x] = s
  BY DEF Insert

LEMMA ScopedTop ==
  ASSUME Good, frames # <<>>, HasScope(Top)
  PROVE  Len(scopes) >= 2
<1>1. Len(frames) \in Active
  BY TopFacts DEF Good, Active, Top
<1>2. IsFiniteSet(Active) /\ Cardinality(Active) \in Nat
  BY ActiveIsFinite DEF Good
<1>3. Cardinality(Active) # 0
  BY <1>1, <1>2, FS_EmptySet
<1> QED
  BY <1>2, <1>3 DEF Good

LEMMA GlobalAlone ==
  ASSUME Good, frames # <<>>, FramesOK, Entering("FUNC_DECL")
  PROVE  /\ Height = 2 /\ Len(scopes) = 1
         /\ \A x : Lookup(x) = IF x \in DOMAIN scopes[1] THEN scopes[1][x] ELSE NoSymbol
<1>1. /\ Height \in Nat /\ Height >= 1 /\ DOMAIN frames = 1..Height
      /\ Top = frames[Height] /\ node = frames[Height].node
  BY TopFacts DEF Height, Good, Top, node
<1>2. Kind(node) = "FUNC_DECL" /\ Top.next = 0
  BY DEF Entering, Running
<1>3. Height = 2
  <2>1. Kind(node) \in KindsAt(Height)
    BY <1>1 DEF FramesOK, VisitOK
  <2> QED
    BY <1>1, <1>2, <2>1 DEF KindsAt, StmtKinds, ExprKinds, Literals
<1>4. Kind(frames[1].node) = "PROGRAM"
  BY <1>3 DEF FramesOK, VisitOK, KindsAt
<1>5. Active = {}
  <2>1. ~HasScope(frames[1]) /\ ~HasScope(frames[2])
    BY <1>1, <1>2, <1>3, <1>4 DEF HasScope, ScopedKinds
  <2> QED
    BY <1>1, <1>3, <2>1 DEF Active
<1>6. Len(scopes) = 1
  BY <1>5, FS_EmptySet DEF Good
<1>7. DOMAIN scopes = {1}
  BY <1>6 DEF Good
<1>8. ASSUME NEW x PROVE Lookup(x) = IF x \in DOMAIN scopes[1] THEN scopes[1][x] ELSE NoSymbol
  <2>1. CASE x \notin DOMAIN scopes[1]
    BY <1>7, <2>1 DEF Lookup, LookupIn
  <2>2. CASE x \in DOMAIN scopes[1]
    <3> DEFINE Inner(i) == /\ x \in DOMAIN scopes[i]
                           /\ \A j \in DOMAIN scopes : j > i => x \notin DOMAIN scopes[j]
               inner == CHOOSE i \in DOMAIN scopes : Inner(i)
    <3>1. Inner(1) /\ 1 \in DOMAIN scopes
      BY <1>7, <2>2
    <3>2. inner \in DOMAIN scopes
      <4> HIDE DEF Inner
      <4> QED
        BY <3>1, Zenon
    <3>3. inner = 1
      BY <1>7, <3>2
    <3>4. Lookup(x) = scopes[inner][x]
      BY <1>7, <2>2 DEF Lookup, LookupIn
    <3> QED
      BY <2>2, <3>3, <3>4
  <2> QED
    BY <2>1, <2>2
<1> QED
  BY <1>3, <1>6, <1>8

LEMMA AppendToOne ==
  ASSUME NEW S, NEW q \in Seq(S), NEW e \in S, Len(q) = 1
  PROVE  Len(Append(q, e)) = 2 /\ Append(q, e)[1] = q[1] /\ Append(q, e)[2] = e
  BY AppendProperties, SMTT(30)

\* What analyse_func_decl finds, and what it leaves in the global scope.
LEMMA EnterFunctionFacts ==
  ASSUME Good, frames # <<>>, FramesOK, EnterFunction
  PROVE  \E symbol :
           /\ symbol.kind = "FUNC" \/ (symbol.kind = "VAR" /\ Return /\ error_count' > 0)
           /\ IF Name \in DOMAIN scopes[1] THEN symbol = scopes[1][Name] ELSE symbol = FuncSymbol(node)
           /\ Name \in DOMAIN scopes'[1] /\ scopes'[1][Name] = symbol
           /\ scopes'[1] \in {scopes[1], Insert(scopes[1], Name, symbol)}
           /\ \/ Return /\ Len(scopes') = 1 /\ UNCHANGED <<current_func, has_return>>
              \/ /\ frames' = [frames EXCEPT ![Len(frames)].next = 1] /\ symbol.kind = "FUNC"
                 /\ scopes'[1] = Insert(scopes[1], Name, symbol)
                 /\ Len(scopes') = 2 /\ scopes'[2] = ParamScope
                 /\ current_func' = symbol /\ has_return' = FALSE
           /\ Return => symbol.kind = "VAR" \/ IsNull(Kid(node, 1))
<1> DEFINE existing == Lookup(Name)
           symbol == IF existing = NoSymbol THEN FuncSymbol(node) ELSE existing
           global == [scopes EXCEPT ![1] = Insert(@, Name, symbol)]
           rejected == existing.kind = "VAR" \/ IsNull(Kid(node, 1))
<1>1. Entering("FUNC_DECL") /\ Len(scopes) = 1 /\ node \in Nodes /\ AstTypeOK /\ Kind(node) = "FUNC_DECL"
  BY GlobalAlone, TopFacts DEF EnterFunction, Good, Entering, Running
<1>g. scopes \in Seq(ScopeSet) /\ error_count \in Nat
  BY DEF Good
<1>h. scopes[1] \in ScopeSet
  BY <1>1, <1>g
<1>2. existing = IF Name \in DOMAIN scopes[1] THEN scopes[1][Name] ELSE NoSymbol
  BY <1>1, GlobalAlone
<1>3. /\ existing \in Symbols \cup {NoSymbol} /\ scopes[1] \in ScopeSet
      /\ Name \in DOMAIN scopes[1] => scopes[1][Name] \in Symbols
  BY <1>h, LookupFacts, ScopeFacts
<1>4. \A s \in Symbols : s.kind \in {"VAR", "FUNC"} /\ s # NoSymbol
  BY DEF Symbols, NoSymbol, Symbol
<1>5. NoSymbol.kind = "NONE" /\ FuncSymbol(node).kind = "FUNC"
  BY DEF NoSymbol, Symbol, FuncSymbol
<1>6. symbol = IF Name \in DOMAIN scopes[1] THEN scopes[1][Name] ELSE FuncSymbol(node)
  BY <1>2, <1>3, <1>4
<1>7. symbol.kind = "FUNC" \/ (symbol.kind = "VAR" /\ existing.kind = "VAR" /\ Name \in DOMAIN scopes[1])
  BY <1>2, <1>3, <1>4, <1>5, <1>6
<1>8. existing.kind = "VAR" => symbol = existing /\ Name \in DOMAIN scopes[1]
  BY <1>2, <1>3, <1>4, <1>5, <1>6
<1>9. /\ DOMAIN Insert(scopes[1], Name, symbol) = DOMAIN scopes[1] \cup {Name}
      /\ Insert(scopes[1], Name, symbol)[Name] = symbol
  <2> HIDE DEF symbol
  <2>1. \A scope, x, s : x \in DOMAIN scope /\ s = scope[x] => Insert(scope, x, s)[x] = s
    BY InsertFacts
  <2>2. Name \in DOMAIN scopes[1] => symbol = scopes[1][Name]
    BY <1>6
  <2>3. Insert(scopes[1], Name, symbol)[Name] = symbol
    <3>1. CASE Name \in DOMAIN scopes[1]
      BY <2>1, <2>2, <3>1, Zenon
    <3>2. CASE Name \notin DOMAIN scopes[1]
      BY <3>2, InsertFacts, Zenon
    <3> QED
      BY <3>1, <3>2
  <2>4. DOMAIN Insert(scopes[1], Name, symbol) = DOMAIN scopes[1] \cup {Name}
    BY InsertFacts, Zenon
  <2> QED
    BY <2>3, <2>4
<1>10. IF rejected
       THEN /\ Return
            /\ scopes' = IF existing.kind = "VAR" THEN scopes ELSE global
            /\ error_count' = error_count + (IF existing.kind = "VAR" THEN 1 ELSE Redeclaration(symbol))
            /\ UNCHANGED <<current_func, has_return>>
       ELSE /\ scopes' = Append(global, ParamScope)
            /\ frames' = [frames EXCEPT ![Len(frames)].next = 1]
            /\ current_func' = symbol
            /\ has_return' = FALSE
  BY DEF EnterFunction
<1>s. Name \in Names /\ symbol \in Symbols
  BY <1>1, NodeFacts, DeclaredSymbols, LookupFacts, AstAssumption
     DEF Labelled, Name, Kind, AstAssumption
<1>11. /\ Len(global) = 1 /\ global[1] = Insert(scopes[1], Name, symbol)
       /\ global \in Seq(ScopeSet) /\ ParamScope \in ScopeSet
  <2> HIDE DEF symbol
  <2> DEFINE inserted == Insert(scopes[1], Name, symbol)
  <2>1. inserted \in ScopeSet
    BY <1>s, <1>h, ScopeFacts
  <2>2. global = [scopes EXCEPT ![1] = inserted]
    OBVIOUS
  <2> HIDE DEF inserted, global
  <2>3. Len(global) = 1 /\ global[1] = inserted /\ global \in Seq(ScopeSet)
    BY <1>1, <1>g, <2>1, <2>2
  <2> QED
    BY <1>1, <2>3, ParamFacts DEF inserted
<1>r. Return <=> rejected
  <2>1. Return => Len(frames') = Len(frames) - 1
    BY ReturnFacts DEF Good, Height
  <2>2. frames' = [frames EXCEPT ![Len(frames)].next = 1] => Len(frames') = Len(frames)
    BY EnterFacts DEF Good, Height
  <2>3. Len(frames) \in Nat
    BY TopFacts DEF Good
  <2> QED
    BY <1>10, <2>1, <2>2, <2>3
<1>e. error_count \in Nat
  BY DEF Good
<1> HIDE DEF existing, symbol, global
<1>12. CASE existing.kind = "VAR"
  <2>1. scopes' = scopes /\ error_count' > 0 /\ symbol = existing
    BY <1>8, <1>10, <1>12, <1>e
  <2> QED
    BY <1>1, <1>2, <1>6, <1>8, <1>10, <1>12, <2>1
<1>13. CASE existing.kind # "VAR" /\ IsNull(Kid(node, 1))
  <2>1. scopes' = global /\ symbol.kind = "FUNC" /\ scopes'[1] = Insert(scopes[1], Name, symbol) /\ Len(scopes') = 1
    BY <1>7, <1>10, <1>11, <1>13
  <2> QED
    BY <1>6, <1>9, <1>10, <1>13, <2>1
<1>14. CASE ~rejected
  <2>1. symbol.kind = "FUNC" /\ scopes' = Append(global, ParamScope) /\ ~Return
    BY <1>7, <1>10, <1>14, <1>r
  <2>2. Len(scopes') = 2 /\ scopes'[1] = global[1] /\ scopes'[2] = ParamScope
    <3>1. global \in Seq(ScopeSet) /\ ParamScope \in ScopeSet
      BY <1>11
    <3>2. Len(global) = 1
      BY <1>11
    <3>3. /\ Len(Append(global, ParamScope)) = 2
          /\ Append(global, ParamScope)[1] = global[1] /\ Append(global, ParamScope)[2] = ParamScope
      BY <3>1, <3>2, AppendToOne
    <3> QED
      BY <2>1, <3>3
  <2> QED
    BY <1>6, <1>9, <1>10, <1>11, <1>14, <2>1, <2>2
<1> QED
  BY <1>12, <1>13, <1>14

-----------------------------------------------------------------------------
(* The ways a step of the analysis moves on. *)

\* Every other function returns when it is done with its children.
Pops ==
  /\ phase = "sema" /\ Kind(node) \notin {"PROGRAM", "FUNC_DECL"} /\ Top.next > Len(Visits)
  /\ Return
  /\ has_return' = (has_return \/ Kind(node) = "RETURN")
  /\ UNCHANGED <<ast, phase, current_func>>

LEMMA ExpressionPops ==
  ASSUME has_return \in BOOLEAN,
         \/ AnalyseLiteral \/ AnalyseIdent \/ AnalyseAssign \/ AnalyseBinary
         \/ AnalyseUnary \/ AnalyseCall \/ AnalyseIndex \/ AnalyseMember
  PROVE  Pops /\ UNCHANGED scopes /\ Kind(node) \in ExprKinds
<1> DEFINE Done == /\ phase = "sema" /\ Kind(node) \in ExprKinds /\ Top.next > Len(Visits) /\ Return
                   /\ UNCHANGED <<ast, phase, current_func, has_return, scopes>>
<1> USE DEF Leaving, Running, Resolve, ExprKinds, Literals
<1>1. AnalyseLiteral \/ AnalyseIdent \/ AnalyseAssign \/ AnalyseBinary => Done
  BY DEF AnalyseLiteral, AnalyseIdent, AnalyseAssign, AnalyseBinary
<1>2. AnalyseUnary \/ AnalyseCall \/ AnalyseIndex \/ AnalyseMember => Done
  BY DEF AnalyseUnary, AnalyseCall, AnalyseIndex, AnalyseMember
<1> QED
  BY <1>1, <1>2 DEF Pops

LEMMA StatementPops ==
  ASSUME has_return \in BOOLEAN, LeaveScope \/ DeclareVariable \/ AnalyseReturn \/ LeaveStatement
  PROVE  Pops
<1> USE DEF Leaving, Running, Pops
<1>1. CASE LeaveScope
  BY <1>1 DEF LeaveScope
<1>2. CASE DeclareVariable
  BY <1>2 DEF DeclareVariable
<1>3. CASE AnalyseReturn
  BY <1>3 DEF AnalyseReturn
<1>4. CASE LeaveStatement
  BY <1>4 DEF LeaveStatement
<1> QED
  BY <1>1, <1>2, <1>3, <1>4

LEMMA PopsKeepGlobals ==
  ASSUME Good, frames # <<>>, phase = "sema",
         \/ LeaveScope \/ DeclareVariable \/ AnalyseReturn \/ LeaveStatement
         \/ AnalyseLiteral \/ AnalyseIdent \/ AnalyseAssign \/ AnalyseBinary
         \/ AnalyseUnary \/ AnalyseCall \/ AnalyseIndex \/ AnalyseMember
  PROVE  GlobalsKept
<1>1. /\ Len(scopes) \in Nat /\ Len(scopes) >= 1 /\ scopes \in Seq(ScopeSet)
      /\ Current \in ScopeSet /\ Enclosing \in Seq(ScopeSet) /\ Len(Enclosing) = Len(scopes) - 1
  BY ScopeSteps DEF Good
<1>2. \A i \in 1..(Len(scopes) - 1) : Enclosing[i] = scopes[i]
  BY <1>1 DEF Enclosing
<1>3. UNCHANGED scopes => GlobalsKept
  BY <1>1 DEF GlobalsKept
<1>4. CASE LeaveScope
  <2>1. Leaving(ScopedKinds) /\ scopes' = Enclosing
    BY <1>4 DEF LeaveScope, Leaving, Running, ScopedKinds, PopScope
  <2>2. Len(scopes) >= 2
    BY <2>1, LeavingHasScope, ScopedTop
  <2> QED
    BY <1>1, <1>2, <2>1, <2>2 DEF GlobalsKept
<1>5. CASE DeclareVariable
  <2> DEFINE inner == Insert(Current, Name, VarSymbol(node, ast[node].type))
  <2>1. scopes' = Append(Enclosing, inner)
    BY <1>5 DEF DeclareVariable
  <2>2. \A y \in DOMAIN Current : y \in DOMAIN inner /\ inner[y] = Current[y]
    BY DEF Insert
  <2> HIDE DEF inner
  <2>3. CASE Len(scopes) = 1
    <3>1. Len(scopes') = 1 /\ scopes'[1] = inner
      <4>1. Enclosing = <<>>
        BY <1>1, <2>3
      <4> QED
        BY <2>1, <4>1
    <3> QED
      BY <2>2, <2>3, <3>1 DEF GlobalsKept, Current
  <2>4. CASE Len(scopes) >= 2
    <3>1. Len(scopes') >= 1 /\ scopes'[1] = Enclosing[1]
      BY <1>1, <2>1, <2>4
    <3> QED
      BY <1>1, <1>2, <2>4, <3>1 DEF GlobalsKept
  <2> QED
    BY <1>1, <2>3, <2>4
<1>6. CASE AnalyseReturn \/ LeaveStatement
  BY <1>3, <1>6 DEF AnalyseReturn, LeaveStatement
<1>7. CASE \/ AnalyseLiteral \/ AnalyseIdent \/ AnalyseAssign \/ AnalyseBinary
           \/ AnalyseUnary \/ AnalyseCall \/ AnalyseIndex \/ AnalyseMember
  <2>1. has_return \in BOOLEAN
    BY DEF Good
  <2> QED
    BY <1>3, <1>7, <2>1, ExpressionPops
<1> QED
  BY <1>4, <1>5, <1>6, <1>7

LEMMA StillParsing == AstNext => phase = "parse" /\ phase' \in {"parse", "sema"}
  BY Zenon DEF AstNext, Fill, Parse, ParseFuncDecl, ParseVarDecl, ParseBlock, ParseReturn, ParseIf,
         ParseWhile, ParseFor, ParseExprStmt, ParsePrimary, ParsePostfix, ParseUnary,
         ParseBinary, ParseAssignment

\* Every other step of the analysis is one of a running function.
LEMMA SemaRuns ==
  ASSUME SemaNext, ~(AstNext /\ UNCHANGED semaVars), ~SemaStart
  PROVE  phase = "sema" /\ frames # <<>>
  BY DEF SemaNext, SemaEnd, AnalyseChild, EnterScope, LeaveScope, EnterFunction,
         LeaveFunction, DeclareVariable, AnalyseReturn, LeaveStatement, AnalyseLiteral,
         AnalyseIdent, AnalyseAssign, AnalyseBinary, AnalyseUnary, AnalyseCall, AnalyseIndex,
         AnalyseMember, Entering, Leaving, Running

\* A step of the analysis, by what it does to the call stack.
LEMMA VisitSteps ==
  ASSUME SemaInv, phase = "sema", frames # <<>>, SemaNext
  PROVE  /\ Good /\ UNCHANGED ast
         /\ \/ SemaEnd
            \/ AnalyseChild /\ UNCHANGED <<phase, scopes, current_func, has_return>>
            \/ EnterScope /\ UNCHANGED <<phase, current_func, has_return>> /\ GlobalsKept
            \/ EnterFunction /\ UNCHANGED phase
            \/ LeaveFunction /\ UNCHANGED phase
            \/ Pops /\ GlobalsKept
<1>1. Good
  BY InvIsGood
<1>2. ~SemaStart /\ ~AstNext
  BY StillParsing DEF SemaStart
<1>3. SemaEnd => UNCHANGED ast
  BY DEF SemaEnd
<1>4. AnalyseChild => UNCHANGED <<ast, phase, scopes, current_func, has_return>>
  BY DEF AnalyseChild
<1>5. EnterScope => UNCHANGED <<ast, phase, current_func, has_return>> /\ GlobalsKept
  <2> SUFFICES ASSUME EnterScope PROVE UNCHANGED <<ast, phase, current_func, has_return>> /\ GlobalsKept
    OBVIOUS
  <2>1. scopes \in Seq(ScopeSet) /\ Len(scopes) \in Nat /\ Len(scopes) >= 1
    BY <1>1, ScopeSteps DEF Good
  <2>2. scopes' = Append(scopes, EmptyScope)
    BY DEF EnterScope, Enter
  <2>3. Len(scopes') >= 1 /\ scopes'[1] = scopes[1]
    BY <2>1, <2>2
  <2> QED
    BY <2>3 DEF EnterScope, GlobalsKept
<1>6. EnterFunction => UNCHANGED <<ast, phase>>
  BY DEF EnterFunction
<1>7. LeaveFunction => UNCHANGED <<ast, phase>>
  BY DEF LeaveFunction
<1>8. \/ LeaveScope \/ DeclareVariable \/ AnalyseReturn \/ LeaveStatement
      \/ AnalyseLiteral \/ AnalyseIdent \/ AnalyseAssign \/ AnalyseBinary
      \/ AnalyseUnary \/ AnalyseCall \/ AnalyseIndex \/ AnalyseMember
      => Pops /\ UNCHANGED ast /\ GlobalsKept
  <2>1. has_return \in BOOLEAN
    BY <1>1 DEF Good
  <2>2. Pops => UNCHANGED ast
    BY DEF Pops
  <2> QED
    BY <1>1, <2>1, <2>2, PopsKeepGlobals, ExpressionPops, StatementPops
<1> QED
  BY <1>1, <1>2, <1>3, <1>4, <1>5, <1>6, <1>7, <1>8, Zenon DEF SemaNext

-----------------------------------------------------------------------------
(* The function whose body is analysed. *)

InBody == Height >= 2 /\ Kind(frames[2].node) = "FUNC_DECL" /\ frames[2].next > 0
FuncName == ast[frames[2].node].name

FuncOK ==
  IF InBody
  THEN /\ FuncName \in DOMAIN scopes[1]
       /\ current_func = scopes[1][FuncName] /\ current_func.kind = "FUNC"
  ELSE current_func = NoSymbol /\ has_return = FALSE

LEMMA FuncKept ==
  ASSUME FuncOK, UNCHANGED <<ast, current_func>>, GlobalsKept,
         InBody' <=> InBody, InBody => frames'[2].node = frames[2].node,
         ~InBody => has_return' = FALSE
  PROVE  FuncOK'
<1>1. CASE InBody
  <2>1. FuncName' = FuncName
    BY <1>1 DEF FuncName
  <2>2. FuncName \in DOMAIN scopes'[1] /\ scopes'[1][FuncName] = scopes[1][FuncName]
    BY <1>1 DEF FuncOK, GlobalsKept
  <2> QED
    BY <1>1, <2>1, <2>2 DEF FuncOK
<1>2. CASE ~InBody
  BY <1>2 DEF FuncOK
<1> QED
  BY <1>1, <1>2

\* A return statement is part of a body.
LEMMA ReturnsInBody ==
  ASSUME Good, frames # <<>>, FramesOK, Kind(node) \in StmtKinds, Kind(node) # "VAR_DECL"
  PROVE  Height >= 3 /\ InBody
<1>1. Height \in Nat /\ Height >= 1 /\ Top = frames[Height] /\ node = frames[Height].node
  BY TopFacts DEF Height, Good, Top, node
<1>2. VisitOK(frames, Height)
  BY <1>1 DEF FramesOK
<1>3. Height >= 3
  BY <1>1, <1>2 DEF VisitOK, KindsAt, StmtKinds
<1>4. VisitOK(frames, 3) /\ VisitOK(frames, 2)
  BY <1>1, <1>3 DEF FramesOK
<1>5. Kind(frames[2].node) = "FUNC_DECL"
  BY <1>1, <1>2, <1>3 DEF VisitOK
<1>6. frames[2].next >= 2
  BY <1>4 DEF VisitOK, ChildOf
<1>7. frames[2].next > 0
  <2>1. frames[2].next \in Nat
    BY <1>1, <1>3, FrameFields DEF Good, Height
  <2> QED
    BY <1>6, <2>1
<1> QED
  BY <1>1, <1>3, <1>5, <1>7 DEF InBody

LEMMA PopsFunc ==
  ASSUME Good, frames # <<>>, FramesOK, FuncOK, Pops, GlobalsKept
  PROVE  FuncOK'
<1>1. /\ Height \in Nat /\ Height >= 1 /\ Height' = Height - 1
      /\ \A i \in 1..(Height - 1) : frames'[i] = frames[i]
  BY ReturnFacts DEF Good, Pops
<1>2. node = frames[Height].node /\ Kind(node) # "FUNC_DECL"
  BY DEF Pops, node, Top, Height
<1>3. UNCHANGED <<ast, current_func>> /\ has_return' = (has_return \/ Kind(node) = "RETURN")
  BY DEF Pops
<1>k. \A i : Kind(frames[i].node)' = Kind(frames'[i].node)
  BY <1>3 DEF Kind
<1>4. InBody' <=> InBody
  <2>1. CASE Height >= 3
    <3>1. frames'[2] = frames[2]
      BY <1>1, <2>1
    <3> QED
      BY <1>1, <1>3, <2>1, <3>1 DEF InBody, Kind
  <2>2. CASE Height <= 2
    <3>1. ~InBody
      BY <1>1, <1>2, <2>2 DEF InBody
    <3>2. ~InBody'
      BY <1>1, <2>2 DEF InBody
    <3> QED
      BY <3>1, <3>2
  <2> QED
    BY <1>1, <2>1, <2>2
<1>5. InBody => frames'[2].node = frames[2].node
  <2>1. InBody => Height >= 3
    BY <1>1, <1>2 DEF InBody
  <2> QED
    BY <1>1, <2>1
<1>6. ~InBody => has_return' = FALSE
  BY <1>3, ReturnsInBody DEF FuncOK, StmtKinds
<1> QED
  BY <1>3, <1>4, <1>5, <1>6, FuncKept

LEMMA CallFunc ==
  ASSUME Good, frames # <<>>, FramesOK, FuncOK, phase = "sema", AnalyseChild,
         UNCHANGED <<ast, scopes, current_func, has_return>>
  PROVE  FuncOK'
<1> DEFINE child == VisitKid(node, Top.next)
<1>1. /\ Height \in Nat /\ Height >= 1 /\ Height' \in Height..(Height + 1)
      /\ Top.next \in 1..VisitCount(node)
      /\ \A i \in 1..(Height - 1) : frames'[i] = frames[i]
      /\ frames'[Height].node = node /\ frames'[Height].next = Top.next + 1
      /\ Height' = Height + 1 => frames'[Height + 1] = Frame(child)
  BY CallFacts
<1>2. node = frames[Height].node /\ Top = frames[Height] /\ VisitCount(node) \in Nat
  BY VisitFacts DEF node, Top, Height
<1>3. InBody' <=> InBody
  <2>k. \A n : Kind(n)' = Kind(n)
    BY DEF Kind
  <2>1. CASE Height = 1
    <3>1. ~InBody
      BY <2>1 DEF InBody
    <3>2. ~InBody'
      <4> SUFFICES ASSUME Height' = 2 PROVE ~(Kind(frames'[2].node) = "FUNC_DECL" /\ frames'[2].next > 0)
        BY <1>1, <2>1, <2>k DEF InBody, Kind
      <4>1. frames'[2] = Frame(child)
        BY <1>1, <2>1
      <4> QED
        BY <4>1 DEF Frame, ScopedKinds
    <3> QED
      BY <3>1, <3>2
  <2>2. CASE Height = 2
    <3>1. frames'[2].node = frames[2].node /\ frames'[2].next > 0 /\ frames[2].next > 0 /\ Height' >= 2
      BY <1>1, <1>2, <2>2
    <3> QED
      BY <2>2, <3>1 DEF InBody, Kind
  <2>3. CASE Height >= 3
    <3>1. frames'[2] = frames[2] /\ Height' >= 2
      BY <1>1, <2>3
    <3> QED
      BY <1>1, <2>3, <3>1 DEF InBody, Kind
  <2> QED
    BY <1>1, <2>1, <2>2, <2>3
<1>4. InBody => frames'[2].node = frames[2].node
  BY <1>1, <1>2 DEF InBody
<1>5. GlobalsKept
  BY ScopeSteps DEF GlobalsKept
<1> QED
  BY <1>3, <1>4, <1>5, FuncKept DEF FuncOK

LEMMA EnterScopeFunc ==
  ASSUME Good, frames # <<>>, FramesOK, FuncOK, EnterScope, GlobalsKept,
         UNCHANGED <<ast, current_func, has_return>>
  PROVE  FuncOK'
<1>1. /\ Height \in Nat /\ Height >= 1 /\ Height' = Height
      /\ \A i \in 1..(Height - 1) : frames'[i] = frames[i]
      /\ frames'[Height].node = node
  BY EnterFacts DEF Good, EnterScope, Enter
<1>2. node = frames[Height].node /\ Kind(node) \in {"BLOCK", "FOR"}
  BY DEF EnterScope, Entering, Running, node, Top, Height
<1>3. Height >= 3
  BY <1>2, ReturnsInBody DEF StmtKinds
<1>4. frames'[2] = frames[2] /\ (InBody' <=> InBody)
  <2>1. frames'[2] = frames[2]
    BY <1>1, <1>3
  <2> QED
    BY <1>1, <2>1 DEF InBody, Kind
<1> QED
  BY <1>4, FuncKept DEF FuncOK

LEMMA EnterFunctionFunc ==
  ASSUME Good, frames # <<>>, FramesOK, FuncOK, EnterFunction, UNCHANGED ast
  PROVE  FuncOK'
<1>1. Entering("FUNC_DECL")
  BY DEF EnterFunction
<1>2. Height = 2 /\ frames[2].next = 0 /\ frames[2].node = node /\ Kind(node) = "FUNC_DECL"
  BY <1>1, GlobalAlone DEF Entering, Running, node, Top, Height
<1>3. current_func = NoSymbol /\ has_return = FALSE
  BY <1>2 DEF FuncOK, InBody
<1>4. PICK symbol :
           /\ Name \in DOMAIN scopes'[1] /\ scopes'[1][Name] = symbol
           /\ \/ Return /\ UNCHANGED <<current_func, has_return>>
              \/ /\ frames' = [frames EXCEPT ![Len(frames)].next = 1] /\ symbol.kind = "FUNC"
                 /\ current_func' = symbol
  BY EnterFunctionFacts
<1>5. CASE Return /\ UNCHANGED <<current_func, has_return>>
  <2>1. Height' = 1
    BY <1>2, <1>5, ReturnFacts DEF Good
  <2>2. ~InBody'
    BY <2>1 DEF InBody
  <2> QED
    BY <1>3, <1>5, <2>2 DEF FuncOK
<1>6. CASE /\ frames' = [frames EXCEPT ![Len(frames)].next = 1] /\ symbol.kind = "FUNC"
           /\ current_func' = symbol
  <2>1. Height' = 2 /\ frames'[2].node = node /\ frames'[2].next = 1
    BY <1>2, <1>6, EnterFacts DEF Good
  <2>2. InBody' /\ FuncName' = Name
    BY <1>2, <2>1 DEF InBody, Kind, FuncName, Name
  <2> QED
    BY <1>4, <1>6, <2>2 DEF FuncOK
<1> QED
  BY <1>4, <1>5, <1>6

LEMMA LeaveFunctionFunc ==
  ASSUME Good, frames # <<>>, FramesOK, LeaveFunction
  PROVE  Height = 2 /\ InBody /\ Height' = 1 /\ FuncOK'
<1>1. Kind(node) = "FUNC_DECL" /\ Leaving(ScopedKinds) /\ Return /\ current_func' = NoSymbol /\ has_return' = FALSE
  BY DEF LeaveFunction, Leaving, Running, ScopedKinds
<1>2. Height \in Nat /\ Height >= 1 /\ node = frames[Height].node /\ Top = frames[Height]
  BY TopFacts DEF Height, Good, Top, node
<1>3. Height = 2
  BY <1>1, <1>2 DEF FramesOK, VisitOK, KindsAt, StmtKinds, ExprKinds, Literals
<1>4. Height' = 1
  BY <1>1, <1>3, ReturnFacts DEF Good
<1>5. ~InBody'
  BY <1>4 DEF InBody
<1>6. Top.next > 0
  BY <1>1, LeavingHasScope DEF HasScope
<1> QED
  BY <1>1, <1>2, <1>3, <1>4, <1>5, <1>6 DEF FuncOK, InBody

-----------------------------------------------------------------------------
(* The invariant of the call stack. *)

VisitInv ==
  /\ TreeOK
  /\ phase \in {"parse", "sema"} /\ frames = <<>> => current_func = NoSymbol /\ has_return = FALSE
  /\ Analysing => FramesOK /\ FuncOK

LEMMA TreeKept ==
  ASSUME TreeOK, UNCHANGED ast
  PROVE  TreeOK'
  BY DEF TreeOK, Rooted, OneParent, Ascending, Nodes, Kid, Arity

LEMMA VisitStart ==
  ASSUME SemaInv, VisitInv, SemaStart
  PROVE  VisitInv'
<1>1. /\ phase = "sema" /\ frames = <<>> /\ frames' = <<Frame(1)>>
      /\ UNCHANGED <<ast, phase, current_func, has_return>>
  BY DEF SemaStart
<1>2. current_func' = NoSymbol /\ has_return' = FALSE
  BY <1>1 DEF VisitInv
<1>3. AstTypeOK /\ 1 \in Nodes
  BY DEF SemaInv, AstTypeOK, Nodes
<1>4. Kind(1) = "PROGRAM"
  BY <1>1, <1>3, KindsOfKids
<1>5. Height' = 1 /\ frames'[1] = Frame(1) /\ frames' # <<>>
  BY <1>1 DEF Height
<1>6. FramesOK'
  <2> DEFINE frame == Frame(1)
  <2>1. frame.node = 1 /\ frame.next = 1
    BY <1>4 DEF Frame, ScopedKinds
  <2> HIDE DEF frame
  <2>2. VisitCount(1) \in Nat
    BY <1>3, VisitedIsKid
  <2>3. VisitOK(frames', 1)
    BY <1>4, <1>5, <2>1, <2>2 DEF VisitOK, KindsAt, frame
  <2>4. \A i \in 1..Height' : VisitOK(frames', i)
    BY <1>5, <2>3
  <2> QED
    BY <1>1, <1>5, <2>1, <2>4, FramesNext DEF frame
<1>7. FuncOK'
  BY <1>2, <1>5 DEF FuncOK, InBody
<1>8. TreeOK'
  BY <1>1, TreeKept DEF VisitInv
<1> QED
  BY <1>5, <1>6, <1>7, <1>8 DEF VisitInv

LEMMA VisitMoves ==
  ASSUME SemaInv, VisitInv, phase = "sema", frames # <<>>, SemaNext
  PROVE  VisitInv'
<1>1. Good /\ UNCHANGED ast /\ FramesOK /\ FuncOK /\ frames # <<>> /\ phase = "sema"
  BY VisitSteps DEF VisitInv, Analysing
<1>2. TreeOK'
  BY <1>1, TreeKept DEF VisitInv
<1>3. CASE SemaEnd
  <2>1. phase' \notin {"parse", "sema"}
    BY <1>3 DEF SemaEnd
  <2> QED
    BY <1>2, <2>1 DEF VisitInv, Analysing
<1>4. CASE AnalyseChild /\ UNCHANGED <<phase, scopes, current_func, has_return>>
  <2>1. FramesOK' /\ FuncOK'
    BY <1>1, <1>4, FramesCall, CallFunc
  <2>2. frames' # <<>>
    <3>1. Height' >= 1
      BY <1>1, <1>4, CallFacts
    <3> QED
      BY <3>1 DEF Height
  <2> QED
    BY <1>2, <2>1, <2>2 DEF VisitInv
<1>5. CASE EnterScope /\ UNCHANGED <<phase, current_func, has_return>> /\ GlobalsKept
  <2>1. Top.next = 0 /\ frames' = [frames EXCEPT ![Len(frames)].next = 1]
    BY <1>5 DEF EnterScope, Entering, Enter
  <2>2. FramesOK' /\ FuncOK'
    BY <1>1, <1>5, <2>1, FramesEnter, EnterScopeFunc
  <2>3. frames' # <<>>
    <3>1. Height' >= 1
      BY <1>1, <2>1, EnterFacts DEF Good
    <3> QED
      BY <3>1 DEF Height
  <2> QED
    BY <1>2, <2>2, <2>3 DEF VisitInv
<1>6. CASE EnterFunction /\ UNCHANGED phase
  <2>1. Top.next = 0 /\ (Return \/ frames' = [frames EXCEPT ![Len(frames)].next = 1])
    BY <1>6 DEF EnterFunction, Entering
  <2>2. FramesOK' /\ FuncOK'
    BY <1>1, <1>6, <2>1, FramesEnter, FramesReturn, EnterFunctionFunc
  <2>3. frames' # <<>>
    <3>1. Height = 2 /\ Height' >= 1
      BY <1>1, <1>6, <2>1, GlobalAlone, EnterFacts, ReturnFacts DEF Good, EnterFunction
    <3> QED
      BY <3>1 DEF Height
  <2> QED
    BY <1>2, <2>2, <2>3 DEF VisitInv
<1>7. CASE LeaveFunction /\ UNCHANGED phase
  <2>1. Return
    BY <1>7 DEF LeaveFunction
  <2>2. FramesOK' /\ FuncOK' /\ Height' = 1
    BY <1>1, <1>7, <2>1, FramesReturn, LeaveFunctionFunc
  <2>3. frames' # <<>>
    BY <2>2 DEF Height
  <2> QED
    BY <1>2, <2>2, <2>3 DEF VisitInv
<1>8. CASE Pops /\ GlobalsKept
  <2>1. Return /\ UNCHANGED ast
    BY <1>8 DEF Pops
  <2>2. FramesOK' /\ FuncOK'
    BY <1>1, <1>8, <2>1, FramesReturn, PopsFunc
  <2>3. frames' # <<>>
    <3>1. Height >= 2
      <4>1. Height \in Nat /\ Height >= 1 /\ node = frames[Height].node
        BY <1>1, TopFacts DEF Height, Good, Top, node
      <4>2. Height = 1 => Kind(node) = "PROGRAM"
        BY <1>1, <4>1 DEF FramesOK, VisitOK, KindsAt
      <4> QED
        BY <1>8, <4>1, <4>2 DEF Pops
    <3>2. Height' >= 1
      BY <1>1, <2>1, <3>1, ReturnFacts DEF Good
    <3> QED
      BY <3>2 DEF Height
  <2> QED
    BY <1>2, <2>2, <2>3 DEF VisitInv
<1> QED
  BY <1>3, <1>4, <1>5, <1>6, <1>7, <1>8, VisitSteps

LEMMA VisitInvInitially == Init => VisitInv
<1> SUFFICES ASSUME Init PROVE VisitInv
  OBVIOUS
<1>1. ast = <<Node("?program")>> /\ frames = <<>> /\ current_func = NoSymbol /\ has_return = FALSE
  BY DEF Init, SemaInit, AstInit
<1>2. Nodes = {1} /\ Arity(1) = 0
  BY <1>1, FieldsOfNode DEF Nodes, Arity
<1>3. TreeOK
  BY <1>2 DEF TreeOK, Rooted, OneParent, Ascending
<1> QED
  BY <1>1, <1>3 DEF VisitInv, Analysing

LEMMA VisitInvKept == SemaInv /\ VisitInv /\ [Next]_vars => VisitInv'
<1> SUFFICES ASSUME SemaInv, VisitInv, [Next]_vars PROVE VisitInv'
  OBVIOUS
<1>1. CASE SemaNext
  <2>1. CASE AstNext /\ UNCHANGED semaVars
    <3>1. TreeOK'
      BY <2>1, TreeGrows DEF SemaInv, VisitInv
    <3>2. phase = "parse" /\ phase' \in {"parse", "sema"}
      BY <2>1, StillParsing
    <3> QED
      BY <2>1, <3>1, <3>2 DEF SemaInv, VisitInv, Analysing, semaVars
  <2>2. CASE SemaStart
    BY <2>2, VisitStart
  <2>3. CASE ~(AstNext /\ UNCHANGED semaVars) /\ ~SemaStart
    <3>1. phase = "sema" /\ frames # <<>>
      BY <1>1, <2>3, SemaRuns
    <3> QED
      BY <1>1, <3>1, VisitMoves
  <2> QED
    BY <2>1, <2>2, <2>3
<1>2. CASE CgNext \/ Main
  <2>1. phase' \notin {"parse", "sema"} /\ UNCHANGED <<ast, semaVars>>
    BY <1>2, CgKeepsSema, MainKeepsSema
  <2> QED
    BY <2>1, TreeKept DEF VisitInv, Analysing
<1>3. CASE UNCHANGED vars
  <2>1. UNCHANGED <<ast, phase, semaVars>>
    BY <1>3 DEF vars
  <2>2. TreeOK'
    BY <2>1, TreeKept DEF VisitInv
  <2>3. Analysing => FramesOK' /\ FuncOK'
    BY <2>1 DEF VisitInv, FramesOK, FuncOK, InBody, FuncName, Height, VisitOK, ChildOf, VisitCount,
       VisitKid, Kind, Kid, Arity, semaVars
  <2> QED
    BY <2>1, <2>2, <2>3 DEF VisitInv, Analysing, semaVars
<1> QED
  BY <1>1, <1>2, <1>3 DEF Next, Ended

LEMMA VisitInvAlways == Spec => []VisitInv
<1>1. Init => VisitInv
  BY VisitInvInitially
<1>2. SemaInv /\ SemaInv' /\ VisitInv /\ [Next]_vars => VisitInv'
  BY VisitInvKept
<1> QED
  BY <1>1, <1>2, SemaInvAlways, PTL DEF Spec

(* While Sema runs, current_func is the global symbol of the function whose body it is in, and   *)
(* none between functions: a return is always checked against the function it is in, although    *)
(* analyse_func_decl sets and resets current_func by hand.                                       *)
THEOREM ReturnsMeetTheirFunction == Spec => []CurrentFuncOfBody
<1>1. SemaInv /\ VisitInv => CurrentFuncOfBody
  <2> SUFFICES ASSUME SemaInv, VisitInv, phase = "sema", frames # <<>>
               PROVE  IF \E i \in DOMAIN frames : Kind(frames[i].node) = "FUNC_DECL" /\ frames[i].next > 0
                      THEN current_func = scopes[1][ast[frames[2].node].name] /\ current_func.kind = "FUNC"
                      ELSE current_func = NoSymbol /\ ~has_return
    BY DEF CurrentFuncOfBody
  <2>1. FramesOK /\ FuncOK
    BY DEF VisitInv, Analysing
  <2>2. Height \in Nat /\ Height >= 1 /\ DOMAIN frames = 1..Height
    BY InvIsGood, TopFacts DEF Height, Good
  <2>3. InBody <=> \E i \in DOMAIN frames : Kind(frames[i].node) = "FUNC_DECL" /\ frames[i].next > 0
    <3>1. ASSUME NEW i \in 1..Height, Kind(frames[i].node) = "FUNC_DECL" PROVE i = 2
      BY <2>1, <3>1 DEF FramesOK, VisitOK, KindsAt, StmtKinds, ExprKinds, Literals
    <3> QED
      BY <2>2, <3>1 DEF InBody
  <2> QED
    BY <2>1, <2>3 DEF FuncOK, FuncName
<1> QED
  BY <1>1, SemaInvAlways, VisitInvAlways, PTL

-----------------------------------------------------------------------------
(* What is still to be visited: the children the running functions have not come to, and       *)
(* all below them.  The callee of a call counts as ahead of the call, which looks it up.        *)

Ahead(f) ==
  {VisitKid(f.node, k) : k \in {j \in 1..VisitCount(f.node) : j >= f.next}}
    \cup IF Kind(f.node) = "CALL" THEN {Kid(f.node, 1)} ELSE {}
Roots == UNION {Ahead(frames[i]) : i \in 1..Height}

Closed(S) == \A m \in S : \A i \in 1..Arity(m) : Kid(m, i) \in S
Pending(n) == \A S \in SUBSET Nodes : Roots \subseteq S /\ Closed(S) => n \in S

LEMMA AheadFacts ==
  \A f, x : x \in Ahead(f) <=> \/ \E k \in 1..VisitCount(f.node) : k >= f.next /\ x = VisitKid(f.node, k)
                               \/ Kind(f.node) = "CALL" /\ x = Kid(f.node, 1)
  BY DEF Ahead

LEMMA RootsFacts == \A x : x \in Roots <=> \E i \in 1..Height : x \in Ahead(frames[i])
  BY DEF Roots

LEMMA RootsNext ==
  ASSUME UNCHANGED ast
  PROVE  \A x : x \in Roots' <=> \E i \in 1..Height' : x \in Ahead(frames'[i])
<1>1. Roots' = UNION {Ahead(frames'[i]) : i \in 1..Height'}
  BY DEF Roots, Ahead, VisitKid, VisitCount, Kind, Kid, Arity
<1> QED
  BY <1>1

\* A step leaves behind the nodes of D, whose children are ahead or left behind too.
LEMMA Settled ==
  ASSUME UNCHANGED ast, NEW D \in SUBSET Nodes, Roots \subseteq Roots' \cup D,
         \A m \in D : \A i \in 1..Arity(m) : Kid(m, i) \in Roots' \cup D,
         NEW n, Pending(n), n \notin D
  PROVE  Pending(n)'
<1>1. \A S : Closed(S)' <=> Closed(S)
  BY DEF Closed, Arity, Kid
<1>2. Nodes' = Nodes
  BY DEF Nodes
<1>3. SUFFICES ASSUME NEW S \in SUBSET Nodes, Roots' \subseteq S, Closed(S) PROVE n \in S
  BY <1>1, <1>2 DEF Pending
<1>4. S \cup D \in SUBSET Nodes /\ Roots \subseteq S \cup D
  BY <1>3
<1>5. Closed(S \cup D)
  BY <1>3 DEF Closed
<1>6. n \in S \cup D
  BY <1>4, <1>5 DEF Pending
<1> QED
  BY <1>6

LEMMA RootsReturn ==
  ASSUME Good, frames # <<>>, Return, UNCHANGED ast
  PROVE  Roots \subseteq Roots' \cup Ahead(Top)
<1>1. /\ Height \in Nat /\ Height >= 1 /\ Height' = Height - 1 /\ Top = frames[Height]
      /\ \A i \in 1..(Height - 1) : frames'[i] = frames[i]
  BY ReturnFacts DEF Good, Top, Height
<1>2. \A i \in 1..Height : i = Height \/ (i \in 1..Height' /\ frames'[i] = frames[i])
  BY <1>1
<1> QED
  BY <1>1, <1>2, RootsFacts, RootsNext

LEMMA RootsEnter ==
  ASSUME Good, frames # <<>>, Top.next = 0, UNCHANGED ast,
         frames' = [frames EXCEPT ![Len(frames)].next = 1]
  PROVE  Roots \subseteq Roots'
<1>1. /\ Height \in Nat /\ Height >= 1 /\ Height' = Height
      /\ Top = frames[Height] /\ node = frames[Height].node
      /\ \A i \in 1..(Height - 1) : frames'[i] = frames[i]
      /\ frames'[Height].node = node /\ frames'[Height].next = 1
  BY EnterFacts DEF Good, Top, Height, node
<1>2. ASSUME NEW x \in Ahead(frames[Height]) PROVE x \in Ahead(frames'[Height])
  <2>1. \/ \E k \in 1..VisitCount(node) : x = VisitKid(node, k)
        \/ Kind(node) = "CALL" /\ x = Kid(node, 1)
    BY <1>1, <1>2, AheadFacts
  <2>2. \A k \in 1..VisitCount(node) : k >= 1
    OBVIOUS
  <2> QED
    BY <1>1, <2>1, <2>2, AheadFacts
<1>3. \A i \in 1..Height : i = Height \/ frames'[i] = frames[i]
  BY <1>1
<1> QED
  BY <1>1, <1>2, <1>3, RootsFacts, RootsNext

\* A node with what is visited with it.
Taken(n) == {n} \cup IF Kind(n) = "FUNC_DECL" THEN {Kid(n, 1)} ELSE {}

LEMMA TakenFacts ==
  ASSUME AstTypeOK, phase \in {"sema", "codegen"}, NEW n \in Nodes
  PROVE  /\ Taken(n) \in SUBSET Nodes
         /\ \A m \in Taken(n) : Kind(m) \in {"RETURN", "CALL"} => m = n
         /\ \A f : f.node = n /\ f.next \in {0, 1} =>
              \A m \in Taken(n) : \A i \in 1..Arity(m) : Kid(m, i) \in Ahead(f) \cup Taken(n)
<1>1. HasArity(Kind(n), Arity(n)) /\ Arity(n) \in Nat
  BY NodeFacts
<1>2. CASE Kind(n) = "FUNC_DECL"
  <2> DEFINE body == Kid(n, 1)
  <2>1. Arity(n) = 1 /\ body \in Nodes /\ Kind(body) \in {"BLOCK", "NULL"}
    BY <1>1, <1>2, NodeFacts, KindsOfKids DEF HasArity
  <2>2. Taken(n) = {n, body} /\ VisitCount(n) = Arity(body) /\ \A k : VisitKid(n, k) = Kid(body, k)
    BY <1>2 DEF Taken, VisitCount, VisitKid
  <2>3. Arity(body) \in Nat
    BY <2>1, NodeFacts
  <2> HIDE DEF body
  <2>4. ASSUME NEW f, f.node = n, f.next \in {0, 1}, NEW i \in 1..Arity(body)
        PROVE  Kid(body, i) \in Ahead(f)
    BY <2>2, <2>3, <2>4, AheadFacts
  <2>5. \A i \in 1..Arity(n) : Kid(n, i) = body
    BY <2>1 DEF body
  <2> QED
    BY <1>2, <2>1, <2>2, <2>4, <2>5
<1>3. CASE Kind(n) = "CALL"
  <2>1. Taken(n) = {n} /\ VisitCount(n) = Arity(n) - 1 /\ \A k : VisitKid(n, k) = Kid(n, k + 1)
    BY <1>3 DEF Taken, VisitCount, VisitKid
  <2>2. ASSUME NEW f, f.node = n, f.next \in {0, 1}, NEW i \in 1..Arity(n)
        PROVE  Kid(n, i) \in Ahead(f)
    <3>1. CASE i = 1
      BY <1>3, <2>2, <3>1, AheadFacts
    <3>2. CASE i # 1
      <4>1. i - 1 \in 1..VisitCount(n) /\ i - 1 >= f.next /\ VisitKid(n, i - 1) = Kid(n, i)
        BY <1>1, <2>1, <2>2, <3>2
      <4> QED
        BY <2>2, <4>1, AheadFacts
    <3> QED
      BY <3>1, <3>2
  <2> QED
    BY <2>1, <2>2
<1>4. CASE Kind(n) \notin {"FUNC_DECL", "CALL"}
  <2>1. Taken(n) = {n} /\ VisitCount(n) = Arity(n) /\ \A k : VisitKid(n, k) = Kid(n, k)
    BY <1>4 DEF Taken, VisitCount, VisitKid
  <2>2. ASSUME NEW f, f.node = n, f.next \in {0, 1}, NEW i \in 1..Arity(n)
        PROVE  Kid(n, i) \in Ahead(f)
    BY <1>1, <2>1, <2>2, AheadFacts
  <2> QED
    BY <2>1, <2>2
<1> QED
  BY <1>2, <1>3, <1>4

LEMMA RootsCall ==
  ASSUME Good, frames # <<>>, phase = "sema", AnalyseChild, UNCHANGED ast,
         NEW child, child = VisitKid(node, Top.next)
  PROVE  /\ Roots \subseteq Roots' \cup {child}
         /\ \A m \in Taken(child) : \A i \in 1..Arity(m) : Kid(m, i) \in Roots' \cup Taken(child)
<1>1. /\ Height \in Nat /\ Height >= 1 /\ Height' \in Height..(Height + 1)
      /\ Top.next \in 1..VisitCount(node) /\ child \in Nodes /\ AstTypeOK
      /\ \A i \in 1..(Height - 1) : frames'[i] = frames[i]
      /\ frames'[Height].node = node /\ frames'[Height].next = Top.next + 1
      /\ IsNull(child) \/ (Height' = Height + 1 /\ frames'[Height + 1] = Frame(child))
  BY CallFacts DEF Good
<1>2. node = frames[Height].node /\ Top = frames[Height] /\ VisitCount(node) \in Nat
  BY VisitFacts DEF node, Top, Height
<1>3. Ahead(frames[Height]) \subseteq Ahead(frames'[Height]) \cup {child}
  <2>1. \A k \in 1..VisitCount(node) : k >= Top.next => k >= Top.next + 1 \/ k = Top.next
    BY <1>1, <1>2
  <2> QED
    BY <1>1, <1>2, <2>1, AheadFacts
<1>4. Roots \subseteq Roots' \cup {child}
  <2>1. \A i \in 1..Height : i \in 1..Height' /\ (i = Height \/ frames'[i] = frames[i])
    BY <1>1
  <2> QED
    BY <1>3, <2>1, RootsFacts, RootsNext
<1>5. ASSUME NEW m \in Taken(child), NEW i \in 1..Arity(m) PROVE Kid(m, i) \in Roots' \cup Taken(child)
  <2>1. CASE IsNull(child)
    <3>1. Taken(child) = {child} /\ Arity(child) = 0
      BY <1>1, <2>1, NodeFacts DEF Taken, IsNull, HasArity
    <3> QED
      BY <1>5, <3>1
  <2>2. CASE ~IsNull(child)
    <3> DEFINE g == Frame(child)
    <3>1. g.node = child /\ g.next \in {0, 1} /\ Height + 1 \in 1..Height' /\ frames'[Height + 1] = g
      BY <1>1, <2>2 DEF Frame
    <3> HIDE DEF g
    <3>2. Kid(m, i) \in Ahead(g) \cup Taken(child)
      BY <1>1, <1>5, <3>1, TakenFacts
    <3> QED
      BY <3>1, <3>2, RootsNext
  <2> QED
    BY <2>1, <2>2
<1> QED
  BY <1>4, <1>5

\* A function that is done with its children leaves none ahead, the callee of a call aside.
LEMMA NothingAhead ==
  ASSUME Good, frames # <<>>, Top.next > Len(Visits),
         Kind(node) = "RETURN" => current_func # NoSymbol, Kind(node) = "CALL" => Callable
  PROVE  Ahead(Top) = IF Kind(node) = "CALL" THEN {Kid(node, 1)} ELSE {}
<1>1. Len(Visits) = VisitCount(node) /\ VisitCount(node) \in Nat /\ Top.next \in Nat /\ node = Top.node
  BY VisitFacts DEF node
<1>2. \A k \in 1..VisitCount(node) : ~(k >= Top.next)
  BY <1>1
<1>3. \A x : x \in Ahead(Top) <=> Kind(node) = "CALL" /\ x = Kid(node, 1)
  BY <1>1, <1>2, AheadFacts
<1> QED
  BY <1>3

\* When the analysis starts everything but the program is pending.
LEMMA AllPending ==
  ASSUME AstTypeOK, TreeOK, Roots = {Kid(1, i) : i \in 1..Arity(1)}, NEW n \in Nodes, n # 1
  PROVE  Pending(n)
<1> SUFFICES ASSUME NEW S \in SUBSET Nodes, Roots \subseteq S, Closed(S), n \notin S PROVE FALSE
  BY DEF Pending
<1> DEFINE bad == {m \in Nodes : m # 1 /\ m \notin S}
<1>1. Nodes = 1..Len(ast) /\ Len(ast) \in Nat
  BY ParentFacts
<1>2. PICK m \in bad : \A l \in bad : m <= l
  <2>1. bad \in SUBSET (1..Len(ast)) /\ bad # {}
    BY <1>1
  <2> HIDE DEF bad
  <2> QED
    BY <1>1, <2>1, Extremes
<1>3. Parent(m) \in Nodes /\ Parent(m) < m /\ m \in Nodes /\ m \notin S
  BY <1>2, ParentFacts
<1>i. PICK i \in 1..Arity(Parent(m)) : Kid(Parent(m), i) = m
  BY <1>2, ParentFacts
<1>4. CASE Parent(m) = 1
  BY <1>3, <1>i, <1>4
<1>5. CASE Parent(m) # 1
  <2>1. Parent(m) \in S
    BY <1>1, <1>2, <1>3, <1>5
  <2> QED
    BY <1>3, <1>i, <2>1 DEF Closed
<1> QED
  BY <1>4, <1>5

-----------------------------------------------------------------------------
(* Returns.  Each is still pending, being analysed, noted in has_return, or in a declaration   *)
(* that is done with.                                                                           *)

Behind(n, d) == \E j \in 1..Arity(1) : j < d /\ Under(n, Kid(1, j))
Done == frames[1].next - (IF Height >= 2 THEN 1 ELSE 0)
OnStack(n) == \E i \in 1..Height : frames[i].node = n
InSecond(n) == Height >= 2 /\ Under(n, frames[2].node)

ReturnsOK ==
  /\ \A n \in Nodes : Kind(n) = "RETURN" =>
       Pending(n) \/ OnStack(n) \/ (has_return /\ InSecond(n)) \/ Behind(n, Done)
  /\ has_return => \E n \in Nodes : Kind(n) = "RETURN" /\ InSecond(n)
  /\ \A i \in 2..Height : InSecond(frames[i].node)

LEMMA PathStable ==
  ASSUME UNCHANGED ast
  PROVE  \A n, m : Under(n, m)' <=> Under(n, m)
<1>1. Path' = Path
  BY DEF Path, Nodes, Parent, Kid, Arity
<1> QED
  BY <1>1 DEF Under

InSecondNext(n) == Height' >= 2 /\ Under(n, frames'[2].node)
DoneNext == frames'[1].next - (IF Height' >= 2 THEN 1 ELSE 0)

LEMMA ReturnsNext ==
  ASSUME UNCHANGED ast,
         \A n \in Nodes : Kind(n) = "RETURN" =>
           \/ Pending(n)' \/ (\E i \in 1..Height' : frames'[i].node = n)
           \/ (has_return' /\ InSecondNext(n)) \/ Behind(n, DoneNext),
         has_return' => \E n \in Nodes : Kind(n) = "RETURN" /\ InSecondNext(n),
         \A i \in 2..Height' : InSecondNext(frames'[i].node)
  PROVE  ReturnsOK'
<1>1. \A n, m : Under(n, m)' <=> Under(n, m)
  BY PathStable
<1>2. Path' = Path
  BY DEF Path, Nodes, Parent, Kid, Arity
<1>3. \A n : InSecond(n)' <=> InSecondNext(n)
  BY <1>2 DEF InSecond, InSecondNext, Under
<1>4. Done' = DoneNext
  BY DEF Done, DoneNext
<1>5. \A n, d : Behind(n, d)' <=> Behind(n, d)
  BY <1>1, <1>2 DEF Behind, Under, Arity, Kid
<1>6. \A n : OnStack(n)' <=> \E i \in 1..Height' : frames'[i].node = n
  BY DEF OnStack
<1>7. \A n : Behind(n, Done)' <=> Behind(n, DoneNext)
  BY <1>2, <1>4 DEF Behind, Under, Arity, Kid
<1>8. Nodes' = Nodes /\ \A n : Kind(n)' = Kind(n)
  BY DEF Nodes, Kind
<1>9. \A i : InSecond(frames[i].node)' <=> InSecondNext(frames'[i].node)
  BY <1>2 DEF InSecond, InSecondNext, Under
<1> QED
  BY <1>3, <1>6, <1>7, <1>8, <1>9 DEF ReturnsOK

LEMMA BehindGrows ==
  ASSUME NEW n, NEW d \in Int, NEW e \in Int, d <= e, Arity(1) \in Nat, Behind(n, d)
  PROVE  Behind(n, e)
  BY DEF Behind

\* The declaration that is analysed.
LEMMA SecondFacts ==
  ASSUME Good, frames # <<>>, FramesOK, TreeOK
  PROVE  /\ Height \in Nat /\ Height >= 1 /\ Arity(1) \in Nat /\ 1 \in Nodes /\ AstTypeOK
         /\ Kind(1) = "PROGRAM" /\ VisitCount(1) = Arity(1) /\ frames[1].next \in Nat
         /\ \A i \in 1..Height : frames[i].node \in Nodes
         /\ Height >= 2 => /\ frames[1].next - 1 \in 1..Arity(1)
                           /\ frames[2].node = Kid(1, frames[1].next - 1)
<1>1. Height \in Nat /\ Height >= 1 /\ DOMAIN frames = 1..Height
  BY TopFacts DEF Height, Good
<1>2. AstTypeOK /\ 1 \in Nodes
  BY DEF Good, AstTypeOK, Nodes
<1>3. \A i \in 1..Height : frames[i].node \in Nodes /\ frames[i].next \in Nat
  BY <1>1, FrameFields DEF Good, Height
<1>4. Kind(1) = "PROGRAM" /\ frames[1].node = 1
  BY <1>1 DEF FramesOK, VisitOK, KindsAt
<1>5. VisitCount(1) = Arity(1) /\ \A k : VisitKid(1, k) = Kid(1, k)
  BY <1>4 DEF VisitCount, VisitKid
<1>6. Arity(1) \in Nat
  BY <1>2, NodeFacts
<1>7. Height >= 2 => ChildOf(frames[1], frames[2])
  BY <1>1 DEF FramesOK, VisitOK
<1> QED
  BY <1>1, <1>2, <1>3, <1>4, <1>5, <1>6, <1>7 DEF ChildOf

LEMMA CallReturns ==
  ASSUME Good, frames # <<>>, FramesOK, TreeOK, ReturnsOK, phase = "sema", AnalyseChild,
         UNCHANGED <<ast, has_return>>
  PROVE  ReturnsOK'
<1> DEFINE child == VisitKid(node, Top.next)
<1>1. /\ Height' \in Height..(Height + 1)
      /\ Top.next \in 1..VisitCount(node) /\ child \in Nodes
      /\ \A i \in 1..(Height - 1) : frames'[i] = frames[i]
      /\ frames'[Height].node = node /\ frames'[Height].next = Top.next + 1
      /\ \/ IsNull(child) /\ Height' = Height
         \/ ~IsNull(child) /\ Height' = Height + 1 /\ frames'[Height + 1] = Frame(child)
  BY CallFacts
<1>2. /\ node = frames[Height].node /\ Top = frames[Height] /\ node \in Nodes
      /\ Top.next \in Nat /\ VisitCount(node) \in Nat
  BY VisitFacts DEF node, Top, Height
<1>s. /\ Height \in Nat /\ Height >= 1 /\ Arity(1) \in Nat /\ 1 \in Nodes /\ AstTypeOK
      /\ Kind(1) = "PROGRAM" /\ frames[1].next \in Nat
  BY SecondFacts
<1>f. Frame(child).node = child
  BY DEF Frame
<1>3. \A i \in 1..Height : frames'[i].node = frames[i].node
  BY <1>1, <1>2, <1>s
<1>4. \A n : InSecond(n) => InSecondNext(n)
  BY <1>1, <1>3, <1>s DEF InSecond, InSecondNext
<1>5. DoneNext = Done /\ Done \in Int
  <2>1. CASE Height = 1
    <3>1. Kind(child) # "NULL"
      BY <1>1, <1>2, <1>s, <2>1, VisitKinds DEF FramesOK, VisitOK, KindsAt
    <3>2. Height' = 2 /\ frames'[1].next = frames[1].next + 1
      BY <1>1, <1>2, <2>1, <3>1 DEF IsNull
    <3> QED
      BY <1>s, <2>1, <3>2 DEF Done, DoneNext
  <2>2. CASE Height >= 2
    <3>1. frames'[1] = frames[1] /\ Height' >= 2
      BY <1>1, <1>s, <2>2
    <3> QED
      BY <1>s, <2>2, <3>1 DEF Done, DoneNext
  <2> QED
    BY <1>s, <2>1, <2>2
<1>6. ASSUME NEW n \in Nodes, Kind(n) = "RETURN"
      PROVE  \/ Pending(n)' \/ (\E i \in 1..Height' : frames'[i].node = n)
             \/ (has_return' /\ InSecondNext(n)) \/ Behind(n, DoneNext)
  <2>1. CASE Pending(n) /\ n \notin Taken(child)
    <3>1. Roots \subseteq Roots' \cup Taken(child)
      BY RootsCall DEF Taken
    <3>2. \A m \in Taken(child) : \A i \in 1..Arity(m) : Kid(m, i) \in Roots' \cup Taken(child)
      BY RootsCall
    <3>3. Taken(child) \in SUBSET Nodes
      BY <1>1, <1>s, TakenFacts
    <3> HIDE DEF child
    <3> QED
      BY <2>1, <3>1, <3>2, <3>3, Settled
  <2>2. CASE n \in Taken(child)
    <3>1. n = child
      BY <1>1, <1>6, <1>s, <2>2, TakenFacts
    <3>2. ~IsNull(child)
      BY <1>6, <3>1 DEF IsNull
    <3> QED
      BY <1>1, <1>f, <1>s, <3>1, <3>2
  <2>3. CASE OnStack(n)
    <3>1. PICK i \in 1..Height : frames[i].node = n
      BY <2>3 DEF OnStack
    <3> QED
      BY <1>1, <1>3, <1>s, <3>1
  <2> QED
    BY <1>4, <1>5, <1>6, <2>1, <2>2, <2>3 DEF ReturnsOK
<1>7. has_return' => \E n \in Nodes : Kind(n) = "RETURN" /\ InSecondNext(n)
  BY <1>4 DEF ReturnsOK
<1>8. ASSUME NEW i \in 2..Height' PROVE InSecondNext(frames'[i].node)
  <2>1. CASE i \in 2..Height
    <3>1. InSecond(frames[i].node)
      BY <2>1 DEF ReturnsOK
    <3> QED
      BY <1>3, <1>4, <1>s, <2>1, <3>1
  <2>2. CASE i = Height + 1
    <3>1. frames'[i].node = child
      BY <1>1, <1>8, <1>f, <1>s, <2>2
    <3>2. CASE Height = 1
      <4>1. Under(child, child)
        BY <1>1, <1>s, UnderSelf
      <4> QED
        BY <1>8, <1>s, <2>2, <3>1, <3>2, <4>1 DEF InSecondNext
    <3>3. CASE Height >= 2
      <4>1. Under(node, frames[2].node)
        BY <1>2, <1>s, <3>3 DEF ReturnsOK, InSecond
      <4>2. PICK q \in Nodes, j \in Nat :
              /\ j \in 1..Arity(q) /\ child = Kid(q, j)
              /\ q = node \/ (Kind(node) = "FUNC_DECL" /\ q = Kid(node, 1))
        BY <1>1, <1>2, <1>s, VisitedIsKid
      <4>3. Under(q, frames[2].node)
        <5>1. Kind(node) = "FUNC_DECL" => Arity(node) = 1
          BY <1>2, <1>s, NodeFacts DEF HasArity
        <5> QED
          BY <1>2, <1>s, <4>1, <4>2, <5>1, UnderKid
      <4>4. Under(child, frames[2].node)
        BY <1>s, <4>2, <4>3, UnderKid
      <4> QED
        BY <1>1, <1>3, <1>s, <3>1, <3>3, <4>4 DEF InSecondNext
    <3> QED
      BY <1>s, <3>2, <3>3
  <2> QED
    BY <1>1, <1>8, <1>s, <2>1, <2>2
<1> QED
  BY <1>6, <1>7, <1>8, ReturnsNext

LEMMA EnterReturns ==
  ASSUME Good, frames # <<>>, FramesOK, TreeOK, ReturnsOK, Height >= 2, Top.next = 0,
         frames' = [frames EXCEPT ![Len(frames)].next = 1], UNCHANGED <<ast, has_return>>
  PROVE  ReturnsOK'
<1>1. /\ Height' = Height /\ \A i \in 1..(Height - 1) : frames'[i] = frames[i]
      /\ frames'[Height].node = node
  BY EnterFacts DEF Good
<1>2. node = frames[Height].node
  BY DEF node, Top, Height
<1>s. Height \in Nat
  BY SecondFacts
<1>3. \A i \in 1..Height : frames'[i].node = frames[i].node
  BY <1>1, <1>2, <1>s
<1>4. \A n : InSecond(n) <=> InSecondNext(n)
  BY <1>1, <1>3, <1>s DEF InSecond, InSecondNext
<1>5. DoneNext = Done
  <2>1. frames'[1] = frames[1]
    BY <1>1, <1>s
  <2> QED
    BY <1>1, <2>1 DEF Done, DoneNext
<1>6. \A n : Pending(n) => Pending(n)'
  <2> SUFFICES ASSUME NEW n, Pending(n) PROVE Pending(n)'
    OBVIOUS
  <2> DEFINE D == {}
  <2>1. D \in SUBSET Nodes /\ n \notin D /\ \A m \in D : \A i \in 1..Arity(m) : Kid(m, i) \in Roots' \cup D
    OBVIOUS
  <2>2. Roots \subseteq Roots' \cup D
    BY RootsEnter
  <2> HIDE DEF D
  <2> QED
    BY <2>1, <2>2, Settled
<1> QED
  BY <1>1, <1>3, <1>4, <1>5, <1>6, ReturnsNext DEF ReturnsOK, OnStack

\* A function that returns within a declaration: what it leaves behind are no returns but itself.
LEMMA PopsReturns ==
  ASSUME Good, frames # <<>>, FramesOK, TreeOK, FuncOK, ReturnsOK, Pops
  PROVE  ReturnsOK'
<1>1. /\ Return /\ phase = "sema" /\ UNCHANGED ast /\ Kind(node) \notin {"PROGRAM", "FUNC_DECL"}
      /\ Top.next > Len(Visits) /\ has_return' = (has_return \/ Kind(node) = "RETURN")
  BY DEF Pops
<1>2. Height' = Height - 1 /\ \A i \in 1..(Height - 1) : frames'[i] = frames[i]
  BY <1>1, ReturnFacts DEF Good
<1>s. /\ Height \in Nat /\ Height >= 1 /\ Arity(1) \in Nat /\ AstTypeOK /\ frames[1].next \in Nat
      /\ frames[1].node = 1 /\ Kind(1) = "PROGRAM" /\ node \in Nodes
  BY SecondFacts, VisitFacts DEF FramesOK
<1>3. node = frames[Height].node
  BY DEF node, Top, Height
<1>4. Height >= 2
  BY <1>1, <1>3, <1>s
<1>5. InBody => Height >= 3
  BY <1>1, <1>3, <1>s DEF InBody
<1>6. Kind(node) = "RETURN" => InBody
  BY ReturnsInBody DEF StmtKinds
<1>7. Height >= 3 => \A n : InSecond(n) => InSecondNext(n)
  BY <1>2, <1>s DEF InSecond, InSecondNext
<1>8. has_return => InBody
  BY DEF FuncOK
<1>9. \A n : Behind(n, Done) => Behind(n, DoneNext)
  <2>1. frames'[1] = frames[1]
    BY <1>2, <1>4, <1>s
  <2>2. Done \in Int /\ DoneNext \in Int /\ Done <= DoneNext
    BY <1>2, <1>4, <1>s, <2>1 DEF Done, DoneNext
  <2> QED
    BY <1>s, <2>2, BehindGrows
<1>10. ASSUME NEW n \in Nodes, Kind(n) = "RETURN", Pending(n) PROVE Pending(n)'
  <2> DEFINE D == IF Kind(node) = "CALL" THEN {m \in Nodes : Kind(m) \in ExprKinds} ELSE {}
  <2>1. Ahead(Top) \subseteq D
    <3>1. CASE Kind(node) = "CALL"
      <4>1. Kind(node) \in ExprKinds /\ Arity(node) >= 1 /\ Arity(node) \in Nat
        BY <1>s, <3>1, NodeFacts DEF ExprKinds, HasArity
      <4>2. \A i \in 1..Arity(node) : Kid(node, i) \in D
        BY <1>1, <1>s, <3>1, <4>1, NodeFacts, KindsOfKids
      <4>3. \A k \in 1..VisitCount(node) : VisitKid(node, k) = Kid(node, k + 1) /\ k + 1 \in 1..Arity(node)
        BY <3>1, <4>1 DEF VisitCount, VisitKid
      <4> HIDE DEF D
      <4> QED
        BY <4>1, <4>2, <4>3, AheadFacts DEF node
    <3>2. CASE Kind(node) # "CALL"
      <4>1. Kind(node) = "RETURN" => current_func # NoSymbol
        BY <1>6 DEF FuncOK, NoSymbol, Symbol
      <4> QED
        BY <1>1, <3>2, <4>1, NothingAhead
    <3> QED
      BY <3>1, <3>2
  <2>2. \A m \in D : \A i \in 1..Arity(m) : Kid(m, i) \in D
    BY <1>1, <1>s, NodeFacts, KindsOfKids
  <2>3. n \notin D
    BY <1>10 DEF ExprKinds, Literals
  <2>4. D \in SUBSET Nodes
    OBVIOUS
  <2> HIDE DEF D
  <2> QED
    BY <1>1, <1>10, <2>1, <2>2, <2>3, <2>4, RootsReturn, Settled
<1>11. ASSUME NEW n \in Nodes, Kind(n) = "RETURN"
       PROVE  \/ Pending(n)' \/ (\E i \in 1..Height' : frames'[i].node = n)
              \/ (has_return' /\ InSecondNext(n)) \/ Behind(n, DoneNext)
  <2>1. CASE OnStack(n)
    <3>1. PICK i \in 1..Height : frames[i].node = n
      BY <2>1 DEF OnStack
    <3>2. CASE i = Height
      <4>1. Height >= 3 /\ has_return'
        BY <1>1, <1>3, <1>5, <1>6, <1>11, <3>1, <3>2
      <4>2. InSecond(n)
        BY <1>s, <3>1, <3>2, <4>1 DEF ReturnsOK
      <4> QED
        BY <1>7, <4>1, <4>2
    <3>3. CASE i # Height
      BY <1>2, <1>s, <3>1, <3>3
    <3> QED
      BY <3>2, <3>3
  <2>2. CASE has_return /\ InSecond(n)
    BY <1>1, <1>5, <1>7, <1>8, <2>2
  <2> QED
    BY <1>9, <1>10, <1>11, <2>1, <2>2 DEF ReturnsOK
<1>12. has_return' => \E n \in Nodes : Kind(n) = "RETURN" /\ InSecondNext(n)
  <2>1. CASE has_return
    BY <1>5, <1>7, <1>8, <2>1 DEF ReturnsOK
  <2>2. CASE Kind(node) = "RETURN"
    <3>1. Height >= 3
      BY <1>5, <1>6, <2>2
    <3>2. InSecond(node)
      BY <1>3, <1>s, <3>1 DEF ReturnsOK
    <3> QED
      BY <1>7, <1>s, <2>2, <3>1, <3>2
  <2> QED
    BY <1>1, <2>1, <2>2
<1>13. ASSUME NEW i \in 2..Height' PROVE InSecondNext(frames'[i].node)
  <2>1. i \in 2..Height /\ frames'[i] = frames[i] /\ Height >= 3
    BY <1>2, <1>13, <1>s
  <2> QED
    BY <1>7, <2>1 DEF ReturnsOK
<1> QED
  BY <1>1, <1>11, <1>12, <1>13, ReturnsNext

\* A declaration that is done with leaves its returns behind, analysed or not.
LEMMA DeclarationReturns ==
  ASSUME Good, frames # <<>>, FramesOK, TreeOK, ReturnsOK, phase = "sema", Height = 2, Return,
         UNCHANGED ast, has_return' = FALSE, Kind(node) = "FUNC_DECL"
  PROVE  ReturnsOK'
<1>1. Height' = 1 /\ frames'[1] = frames[1]
  BY ReturnFacts DEF Good
<1>s. /\ Arity(1) \in Nat /\ 1 \in Nodes /\ AstTypeOK /\ frames[1].next \in Nat
      /\ frames[1].node = 1 /\ Kind(1) = "PROGRAM" /\ node \in Nodes
      /\ frames[1].next - 1 \in 1..Arity(1) /\ node = Kid(1, frames[1].next - 1)
      /\ node = frames[2].node /\ Height \in Nat
  BY SecondFacts, VisitFacts DEF FramesOK, node, Top, Height
<1>2. Done = frames[1].next - 1 /\ DoneNext = frames[1].next
  BY <1>1, <1>s DEF Done, DoneNext
<1>3. \A n : Behind(n, Done) => Behind(n, DoneNext)
  BY <1>2, <1>s, BehindGrows
<1>4. \A n : Under(n, node) => Behind(n, DoneNext)
  BY <1>2, <1>s DEF Behind
<1>5. ASSUME NEW n \in Nodes, Pending(n), ~Under(n, node) PROVE Pending(n)'
  <2> DEFINE D == {m \in Nodes : Under(m, node)}
             body == Kid(node, 1)
  <2>1. \A m \in D : \A i \in 1..Arity(m) : Kid(m, i) \in D
    BY <1>s, NodeFacts, UnderKid
  <2>2. node \in D /\ body \in D
    <3>1. 1 \in 1..Arity(node)
      BY <1>s, NodeFacts DEF HasArity
    <3>2. node \in D
      BY <1>s, UnderSelf
    <3> QED
      BY <2>1, <3>1, <3>2
  <2>3. \A k \in 1..VisitCount(node) : VisitKid(node, k) \in D
    <3>1. VisitCount(node) = Arity(body) /\ \A k : VisitKid(node, k) = Kid(body, k)
      BY DEF VisitCount, VisitKid
    <3> HIDE DEF D, body
    <3> QED
      BY <2>1, <2>2, <3>1
  <2>4. D \in SUBSET Nodes /\ n \notin D
    BY <1>5
  <2> HIDE DEF D
  <2>5. Ahead(Top) \subseteq D
    BY <2>3, AheadFacts DEF node
  <2> QED
    BY <1>5, <2>1, <2>4, <2>5, RootsReturn, Settled
<1>6. ASSUME NEW n \in Nodes, Kind(n) = "RETURN"
      PROVE  \/ Pending(n)' \/ (\E i \in 1..Height' : frames'[i].node = n)
             \/ (has_return' /\ InSecondNext(n)) \/ Behind(n, DoneNext)
  <2>1. ~OnStack(n)
    BY <1>6, <1>s DEF OnStack
  <2> QED
    BY <1>3, <1>4, <1>5, <1>6, <1>s, <2>1 DEF ReturnsOK, InSecond
<1> QED
  BY <1>1, <1>6, ReturnsNext

LEMMA AllPendingAtFirst ==
  AstTypeOK /\ TreeOK /\ Roots = {Kid(1, i) : i \in 1..Arity(1)} => \A n \in Nodes : n # 1 => Pending(n)
  BY AllPending

LEMMA StartReturns ==
  ASSUME SemaInv, VisitInv, SemaStart
  PROVE  ReturnsOK'
<1>1. /\ phase = "sema" /\ frames = <<>> /\ frames' = <<Frame(1)>>
      /\ UNCHANGED <<ast, has_return>>
  BY DEF SemaStart
<1>2. AstTypeOK /\ 1 \in Nodes /\ TreeOK /\ has_return' = FALSE
  BY <1>1 DEF SemaInv, VisitInv, AstTypeOK, Nodes
<1>3. Kind(1) = "PROGRAM"
  BY <1>1, <1>2, KindsOfKids
<1>4. Height' = 1 /\ frames'[1] = Frame(1)
  BY <1>1 DEF Height
<1>5. Frame(1).node = 1 /\ Frame(1).next = 1
  BY <1>3 DEF Frame, ScopedKinds
<1>6. Roots' = {Kid(1, i) : i \in 1..Arity(1)}
  <2>1. VisitCount(1) = Arity(1) /\ (\A k : VisitKid(1, k) = Kid(1, k)) /\ Arity(1) \in Nat
    BY <1>2, <1>3, NodeFacts DEF VisitCount, VisitKid
  <2>2. \A x : x \in Ahead(frames'[1]) <=> \E k \in 1..Arity(1) : x = Kid(1, k)
    BY <1>3, <1>4, <1>5, <2>1, AheadFacts
  <2>3. \A x : x \in Roots' <=> x \in Ahead(frames'[1])
    BY <1>1, <1>4, RootsNext
  <2> QED
    BY <2>2, <2>3
<1>7. AstTypeOK' /\ TreeOK'
  BY <1>1, <1>2, AstStable, TreeKept DEF SemaStart
<1>8. (Roots = {Kid(1, i) : i \in 1..Arity(1)})'
  BY <1>1, <1>6 DEF Kid, Arity
<1>10. (\A n \in Nodes : n # 1 => Pending(n))'
  BY <1>7, <1>8, AllPendingAtFirst, PTL
<1>11. \A n \in Nodes : Kind(n) = "RETURN" => Pending(n)'
  <2>1. Nodes' = Nodes
    BY <1>1 DEF Nodes
  <2> QED
    BY <1>3, <1>10, <2>1
<1> QED
  BY <1>1, <1>2, <1>4, <1>11, ReturnsNext

ReturnInv == Analysing => ReturnsOK

LEMMA ReturnsMove ==
  ASSUME SemaInv, VisitInv, ReturnInv, phase = "sema", frames # <<>>, SemaNext
  PROVE  ReturnInv'
<1>1. /\ Good /\ UNCHANGED ast /\ FramesOK /\ FuncOK /\ TreeOK /\ ReturnsOK
      /\ frames # <<>> /\ phase = "sema"
  BY VisitSteps DEF VisitInv, ReturnInv, Analysing
<1>2. CASE SemaEnd
  <2>1. phase' # "sema"
    BY <1>2 DEF SemaEnd
  <2> QED
    BY <2>1 DEF ReturnInv, Analysing
<1>3. CASE AnalyseChild /\ UNCHANGED <<phase, scopes, current_func, has_return>>
  BY <1>1, <1>3, CallReturns DEF ReturnInv
<1>4. CASE EnterScope /\ UNCHANGED <<phase, current_func, has_return>> /\ GlobalsKept
  <2>1. /\ Top.next = 0 /\ frames' = [frames EXCEPT ![Len(frames)].next = 1]
        /\ Kind(node) \in {"BLOCK", "FOR"}
    BY <1>4 DEF EnterScope, Entering, Enter, Running
  <2>2. Height >= 3 /\ Height \in Nat
    BY <1>1, <2>1, ReturnsInBody, SecondFacts DEF StmtKinds
  <2>3. Height >= 2
    BY <2>2
  <2> QED
    BY <1>1, <1>4, <2>1, <2>3, EnterReturns DEF ReturnInv
<1>5. CASE EnterFunction /\ UNCHANGED phase
  <2>1. /\ Entering("FUNC_DECL") /\ Top.next = 0 /\ Kind(node) = "FUNC_DECL"
        /\ \/ Return /\ UNCHANGED has_return
           \/ frames' = [frames EXCEPT ![Len(frames)].next = 1] /\ has_return' = FALSE
    BY <1>5 DEF EnterFunction, Entering, Running
  <2>2. Height = 2 /\ frames[2].next = 0
    BY <1>1, <2>1, GlobalAlone DEF Top, Height
  <2>3. has_return = FALSE
    BY <1>1, <2>2 DEF FuncOK, InBody
  <2>4. CASE Return
    <3>1. ReturnsOK'
      BY <1>1, <2>1, <2>2, <2>3, <2>4, DeclarationReturns
    <3> QED
      BY <3>1 DEF ReturnInv
  <2>5. CASE frames' = [frames EXCEPT ![Len(frames)].next = 1] /\ has_return' = FALSE
    <3>1. UNCHANGED has_return
      BY <2>3, <2>5
    <3>h. UNCHANGED <<ast, has_return>> /\ Height >= 2
      BY <1>1, <2>2, <3>1
    <3>2. ReturnsOK'
      BY <1>1, <2>1, <2>5, <3>h, EnterReturns
    <3> QED
      BY <3>2 DEF ReturnInv
  <2> QED
    BY <2>1, <2>3, <2>4, <2>5
<1>6. CASE LeaveFunction /\ UNCHANGED phase
  <2>1. Return /\ has_return' = FALSE /\ Kind(node) = "FUNC_DECL"
    BY <1>6 DEF LeaveFunction, Leaving, Running
  <2> QED
    BY <1>1, <1>6, <2>1, LeaveFunctionFunc, DeclarationReturns DEF ReturnInv
<1>7. CASE Pops /\ GlobalsKept
  BY <1>1, <1>7, PopsReturns DEF ReturnInv
<1> QED
  BY <1>2, <1>3, <1>4, <1>5, <1>6, <1>7, VisitSteps

LEMMA ReturnInvKept == SemaInv /\ VisitInv /\ ReturnInv /\ [Next]_vars => ReturnInv'
<1> SUFFICES ASSUME SemaInv, VisitInv, ReturnInv, [Next]_vars PROVE ReturnInv'
  OBVIOUS
<1>1. CASE SemaNext
  <2>1. CASE AstNext /\ UNCHANGED semaVars
    BY <2>1, StillParsing DEF SemaInv, ReturnInv, Analysing, semaVars
  <2>2. CASE SemaStart
    BY <2>2, StartReturns DEF ReturnInv
  <2>3. CASE ~(AstNext /\ UNCHANGED semaVars) /\ ~SemaStart
    <3>1. phase = "sema" /\ frames # <<>>
      BY <1>1, <2>3, SemaRuns
    <3> QED
      BY <1>1, <3>1, ReturnsMove
  <2> QED
    BY <2>1, <2>2, <2>3
<1>2. CASE CgNext \/ Main
  BY <1>2, CgKeepsSema, MainKeepsSema DEF ReturnInv, Analysing
<1>3. CASE UNCHANGED vars
  <2>1. UNCHANGED <<ast, phase, semaVars>>
    BY <1>3 DEF vars
  <2>2. Path' = Path
    BY <2>1 DEF Path, Nodes, Parent, Kid, Arity
  <2>3. \A n : Pending(n)' <=> Pending(n)
    BY <2>1 DEF Pending, Roots, Ahead, Closed, Height, VisitCount, VisitKid, Nodes, Kind, Kid, Arity, semaVars
  <2>4. ReturnsOK => ReturnsOK'
    BY <2>1, <2>2, <2>3 DEF ReturnsOK, OnStack, InSecond, Behind, Done, Height, Under, Nodes, Kind, Kid,
       Arity, semaVars
  <2> QED
    BY <2>1, <2>4 DEF ReturnInv, Analysing, semaVars
<1> QED
  BY <1>1, <1>2, <1>3 DEF Next, Ended

(* When a body is done with, has_return says whether the function contains a return statement,  *)
(* for every program: the flag one analyse_stmt sets on any path is not lost in a nested scope,  *)
(* nor left over from an earlier function, so the "has no return statement" warning is exact.    *)
THEOREM TheWarningIsExact == Spec => []HasReturnExact
<1>1. Init => ReturnInv
  BY DEF Init, SemaInit, AstInit, ReturnInv, Analysing
<1>2. SemaInv /\ VisitInv /\ ReturnInv => HasReturnExact
  <2> SUFFICES ASSUME SemaInv, VisitInv, ReturnInv, Leaving({"FUNC_DECL"})
               PROVE  has_return <=> \E n \in Nodes : Kind(n) = "RETURN" /\ Under(n, node)
    BY DEF HasReturnExact
  <2>1. phase = "sema" /\ frames # <<>> /\ Kind(node) = "FUNC_DECL" /\ Top.next > Len(Visits)
    BY DEF Leaving, Running
  <2>2. Good /\ FramesOK /\ TreeOK /\ ReturnsOK
    BY <2>1, InvIsGood DEF VisitInv, ReturnInv, Analysing
  <2>3. /\ Height \in Nat /\ Height >= 1 /\ Arity(1) \in Nat /\ 1 \in Nodes /\ AstTypeOK
        /\ Kind(1) = "PROGRAM" /\ VisitCount(1) = Arity(1) /\ frames[1].next \in Nat
        /\ frames[1].node = 1 /\ node = frames[Height].node /\ Top = frames[Height]
    BY <2>1, <2>2, SecondFacts DEF FramesOK, node, Top, Height
  <2>4. Height = 2
    <3>1. Kind(node) \in KindsAt(Height)
      BY <2>2, <2>3 DEF FramesOK, VisitOK
    <3> QED
      BY <2>1, <2>3, <3>1 DEF KindsAt, StmtKinds, ExprKinds, Literals
  <2> DEFINE here == frames[1].next - 1
  <2>5. here \in 1..Arity(1) /\ node = Kid(1, here) /\ Done = here
    BY <2>1, <2>2, <2>3, <2>4, SecondFacts DEF Done
  <2>6. ASSUME NEW n \in Nodes, Kind(n) = "RETURN", Under(n, node) PROVE has_return
    <3>1. \A j \in 1..Arity(1) : Under(n, Kid(1, j)) => j = here
      BY <2>2, <2>3, <2>5, <2>6, UnderOne
    <3>2. ~Behind(n, Done)
      BY <2>5, <3>1 DEF Behind
    <3>3. ~OnStack(n)
      BY <2>1, <2>3, <2>4, <2>6 DEF OnStack
    <3>4. ~Pending(n)
      <4> DEFINE S == {m \in Nodes : \E j \in 1..Arity(1) : j > here /\ Under(m, Kid(1, j))}
      <4>1. S \in SUBSET Nodes /\ n \notin S
        BY <2>5, <3>1
      <4>2. Closed(S)
        <5>1. \A m \in Nodes : \A i \in 1..Arity(m) :
                Kid(m, i) \in Nodes /\ \A x : Under(m, x) => Under(Kid(m, i), x)
          BY <2>2, <2>3, NodeFacts, UnderKid
        <5> QED
          BY <5>1 DEF Closed
      <4>3. Roots \subseteq S
        <5>1. Ahead(frames[1]) \subseteq S
          <6>1. \A k : VisitKid(1, k) = Kid(1, k)
            BY <2>3 DEF VisitKid
          <6>2. \A k \in 1..Arity(1) : k >= frames[1].next => k > here /\ Kid(1, k) \in S
            <7>1. \A k \in 1..Arity(1) : Kid(1, k) \in Nodes /\ Under(Kid(1, k), Kid(1, k))
              BY <2>2, <2>3, NodeFacts, UnderSelf
            <7> QED
              BY <2>3, <7>1
          <6> HIDE DEF S
          <6> QED
            BY <2>3, <6>1, <6>2, AheadFacts
        <5>2. Ahead(frames[2]) = {}
          BY <2>1, <2>2, <2>3, <2>4, NothingAhead
        <5> HIDE DEF S
        <5> QED
          BY <2>4, <5>1, <5>2, RootsFacts
      <4> HIDE DEF S
      <4> QED
        BY <4>1, <4>2, <4>3 DEF Pending
    <3> QED
      BY <2>2, <2>6, <3>2, <3>3, <3>4 DEF ReturnsOK
  <2>7. ASSUME has_return PROVE \E n \in Nodes : Kind(n) = "RETURN" /\ Under(n, node)
    BY <2>2, <2>3, <2>4, <2>7 DEF ReturnsOK, InSecond
  <2> QED
    BY <2>6, <2>7
<1>3. SemaInv /\ VisitInv /\ ReturnInv /\ [Next]_vars => ReturnInv'
  BY ReturnInvKept
<1> QED
  BY <1>1, <1>2, <1>3, SemaInvAlways, VisitInvAlways, PTL DEF Spec
=============================================================================
