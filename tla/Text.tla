--------------------------------- MODULE Text ---------------------------------
(***************************************************************************)
(* The language of the parser, from the tree's side: the tokens a tree is  *)
(* written with, and the trees a text can stand for.  Nothing here knows   *)
(* of the parse functions.                                                 *)
(*                                                                         *)
(* A tree is a sequence of nodes (pool); child 0 and nodes of kind "NULL"  *)
(* are null.  wraps says how many parentheses go around each node.         *)
(***************************************************************************)
EXTENDS Grammar, SequencesExt

Word(type, lexeme) == <<[type |-> type, lexeme |-> lexeme]>>
Mark(type) == Word(type, NoName)

\* How tightly an expression binds: the levels of C's expression grammar.
LevelOf ==
  [OR |-> 2, AND |-> 3, EQ |-> 4, NEQ |-> 4, LT |-> 5, GT |-> 5, LEQ |-> 5, GEQ |-> 5,
   PLUS |-> 6, MINUS |-> 6, STAR |-> 7, SLASH |-> 7, PERCENT |-> 7]
Tightness(node) ==
  CASE node.kind = "ASSIGN" -> 1
    [] node.kind = "BINARY" -> LevelOf[node.op]
    [] node.kind = "UNARY"  -> 8
    [] OTHER                -> 9

\* What child i of the node must bind at least as tightly as, to need no parentheses.
Needed(node, i) ==
  CASE node.kind = "ASSIGN" -> IF i = 1 THEN 2 ELSE 1
    [] node.kind = "BINARY" -> LevelOf[node.op] + (IF i = 1 THEN 0 ELSE 1)
    [] node.kind = "UNARY"  -> 8
    [] node.kind \in {"CALL", "INDEX", "MEMBER"} /\ i = 1 -> 9
    [] OTHER                -> 0

NoChild(pool, n) == n = 0 \/ pool[n].kind = "NULL"

TypeText(t) == Mark(t.base) \o [i \in 1..t.ptr_depth |-> Mark("STAR")[1]]
Separated(texts) ==
  FlattenSeq([i \in DOMAIN texts |-> IF i = 1 THEN texts[i] ELSE Mark("COMMA") \o texts[i]])
ParamText(p) == TypeText(p.type) \o Word("IDENT", p.name)

\* The text of each node of the pool, without parentheses around it.
TextOf(pool, wraps) ==
  LET text[n \in DOMAIN pool] ==
    LET node == pool[n]
        Child(i) == node.kids[i]
        Has(i) == ~NoChild(pool, Child(i))
        Bare(i) == IF Has(i) THEN text[Child(i)] ELSE <<>>
        Of(i) == IF ~Has(i) THEN <<>>
                 ELSE [j \in 1..wraps[Child(i)] |-> Mark("LPAREN")[1]] \o Bare(i)
                        \o [j \in 1..wraps[Child(i)] |-> Mark("RPAREN")[1]]
        Before(t, i) == IF Has(i) THEN Mark(t) \o Of(i) ELSE <<>>
        All(from) == [i \in 1..(Len(node.kids) - from + 1) |-> Of(from + i - 1)]
    IN CASE node.kind \in Literals \cup {"IDENT"} -> Word(node.kind, node.name)
         [] node.kind = "BINARY" -> Of(1) \o Mark(node.op) \o Of(2)
         [] node.kind = "ASSIGN" -> Of(1) \o Mark("ASSIGN") \o Of(2)
         [] node.kind = "UNARY"  -> Mark(node.op) \o Of(1)
         [] node.kind = "CALL"   -> Of(1) \o Mark("LPAREN") \o Separated(All(2)) \o Mark("RPAREN")
         [] node.kind = "INDEX"  -> Of(1) \o Mark("LBRACKET") \o Of(2) \o Mark("RBRACKET")
         [] node.kind = "MEMBER" -> Of(1) \o Mark("DOT") \o Word("IDENT", node.name)
         [] node.kind = "EXPR_STMT" -> Of(1) \o Mark("SEMICOLON")
         [] node.kind = "VAR_DECL" ->
              TypeText(node.type) \o Word("IDENT", node.name) \o Before("ASSIGN", 1) \o Mark("SEMICOLON")
         [] node.kind = "RETURN" -> Mark("RETURN") \o Of(1) \o Mark("SEMICOLON")
         [] node.kind = "IF" ->
              Mark("IF") \o Mark("LPAREN") \o Of(1) \o Mark("RPAREN") \o Of(2) \o Before("ELSE", 3)
         [] node.kind = "WHILE" ->
              Mark("WHILE") \o Mark("LPAREN") \o Of(1) \o Mark("RPAREN") \o Of(2)
         [] node.kind = "FOR" ->
              Mark("FOR") \o Mark("LPAREN") \o (IF Has(1) THEN Of(1) ELSE Mark("SEMICOLON"))
                \o Of(2) \o Mark("SEMICOLON") \o Of(3) \o Mark("RPAREN") \o Of(4)
         [] node.kind = "BLOCK" -> Mark("LBRACE") \o FlattenSeq(All(1)) \o Mark("RBRACE")
         [] node.kind = "FUNC_DECL" ->
              TypeText(node.type) \o Word("IDENT", node.name) \o Mark("LPAREN")
                \o Separated([i \in DOMAIN node.params |-> ParamText(node.params[i])])
                \o Mark("RPAREN") \o (IF Has(1) THEN Of(1) ELSE Mark("SEMICOLON"))
         [] node.kind = "PROGRAM" -> FlattenSeq(All(1))
  IN text

\* The node's text ends in an if that an else after it would belong to.
OpenIf(pool) ==
  LET open[n \in DOMAIN pool] ==
    LET node == pool[n]
    IN CASE node.kind = "IF" -> NoChild(pool, node.kids[3]) \/ open[node.kids[3]]
         [] node.kind = "WHILE" -> open[node.kids[2]]
         [] node.kind = "FOR" -> open[node.kids[4]]
         [] OTHER -> FALSE
  IN open

\* No else belongs to an if further in than the one it is attached to.
ElsesAttach(pool) ==
  \A n \in DOMAIN pool :
    pool[n].kind = "IF" /\ ~NoChild(pool, pool[n].kids[3]) => ~OpenIf(pool)[pool[n].kids[2]]

\* The fewest parentheses that keep the tree.
FewestWraps(pool) ==
  [m \in DOMAIN pool |->
     IF \E n \in DOMAIN pool : \E i \in DOMAIN pool[n].kids :
          pool[n].kids[i] = m /\ Tightness(pool[m]) < Needed(pool[n], i)
     THEN 1 ELSE 0]

\* No operand binds less tightly than its place needs, but in parentheses.
Nests(pool, wraps) ==
  \A n \in DOMAIN pool : \A i \in DOMAIN pool[n].kids :
    LET m == pool[n].kids[i]
    IN  ~NoChild(pool, m) /\ wraps[m] = 0 => Tightness(pool[m]) >= Needed(pool[n], i)

\* The tree as nested tuples, for comparing pools that number nodes differently.
ShapeOf(pool) ==
  LET shape[n \in DOMAIN pool] ==
    LET node == pool[n]
    IN  <<node.kind, node.name, node.type, node.op, node.params,
          [i \in DOMAIN node.kids |->
             IF NoChild(pool, node.kids[i]) THEN <<>> ELSE shape[node.kids[i]]]>>
  IN shape
=============================================================================
