-------------------------------- MODULE Parser --------------------------------
(***************************************************************************)
(* Parser.c over a stream of tokens: the current token, expect() and its   *)
(* error recovery, the parse functions on an explicit call stack.          *)
(*                                                                         *)
(* A parse function that takes fixed steps is a script: the expect(),      *)
(* match(), check() and calls of its body in their order, and the kind of  *)
(* the node it builds from its children.  The functions of the expression  *)
(* grammar, parse_assignment() down to parse_postfix(), hold an operand    *)
(* and look for an operator of theirs.  A step consumes one token at most. *)
(*                                                                         *)
(* The text is not fixed in advance: it goes on with the tokens of         *)
(* pending, then with any of more.types while budget lasts, then with EOF. *)
(***************************************************************************)
EXTENDS Grammar, SequencesExt

VARIABLES
  current,       \* the token next_token() returned last
  had_error,
  calls,         \* the active parse functions, innermost last
  nodes,         \* the nodes built, a node after its children
  parens,        \* history: how often each node was parenthesised
  pending,
  more,          \* types: what pending may be followed by; after: bound of budget after an error
  budget,        \* how many tokens of more.types are left
  seen           \* history: the tokens next_token() returned, up to the first EOF

stream == <<current, pending, more, budget, seen>>
pvars == <<current, had_error, calls, nodes, parens, pending, more, budget, seen>>

\* Identifiers and literals have a text of their own; a keyword or operator is its type.
Token(type, lexeme) == [type |-> type, lexeme |-> lexeme]
Spelled == Literals \cup {"IDENT"}
Eof == Token("EOF", NoName)
check(t) == current.type = t
is_type_keyword(t) == t \in BaseTypes

-----------------------------------------------------------------------------
(* Scripts. *)

Step(do, token, fn, to) == [do |-> do, token |-> token, fn |-> fn, to |-> to]
Expect(t)       == Step("expect", t, NoName, 0)
Name            == Step("name", "IDENT", NoName, 0)   \* expect(), keeping the lexeme
Type            == Step("type", NoName, NoName, 0)    \* parse_type() and its stars
Call(fn)        == Step("call", NoName, fn, 0)
If(t)           == Step("if", t, NoName, 0)           \* if (match(t)) the next step, else NULL
Unless(t)       == Step("unless", t, NoName, 0)       \* if (!check(t)) the next step, else NULL
UnlessTaking(t) == Step("take", t, NoName, 0)         \* the same; else advance(), NULL
Many(fn)        == Step("many", NoName, fn, 0)        \* fn until } or EOF
Jump(t, to)     == Step("jump", t, NoName, to)        \* if (check(t)) goto to
Loop(t, to)     == Step("loop", t, NoName, to)        \* if (match(t)) goto to
ParamType(to)   == Step("param", NoName, NoName, to)  \* no type: error, goto to
ParamName       == Step("pname", "IDENT", NoName, 0)
Body            == Step("body", "LBRACE", "parse_block", 0)

parse_var_decl == [kind |-> "VAR_DECL", steps |->
  <<Type, Name, If("ASSIGN"), Call("parse_expr"), Expect("SEMICOLON")>>]

parse_block == [kind |-> "BLOCK", steps |->
  <<Expect("LBRACE"), Many("parse_stmt"), Expect("RBRACE")>>]

parse_return == [kind |-> "RETURN", steps |->
  <<Expect("RETURN"), Unless("SEMICOLON"), Call("parse_expr"), Expect("SEMICOLON")>>]

parse_if == [kind |-> "IF", steps |->
  <<Expect("IF"), Expect("LPAREN"), Call("parse_expr"), Expect("RPAREN"),
    Call("parse_stmt"), If("ELSE"), Call("parse_stmt")>>]

parse_while == [kind |-> "WHILE", steps |->
  <<Expect("WHILE"), Expect("LPAREN"), Call("parse_expr"), Expect("RPAREN"), Call("parse_stmt")>>]

parse_for == [kind |-> "FOR", steps |->
  <<Expect("FOR"), Expect("LPAREN"), UnlessTaking("SEMICOLON"), Call("for_init"),
    Unless("SEMICOLON"), Call("parse_expr"), Expect("SEMICOLON"),
    Unless("RPAREN"), Call("parse_expr"), Expect("RPAREN"), Call("parse_stmt")>>]

expr_stmt == [kind |-> "EXPR_STMT", steps |-> <<Call("parse_expr"), Expect("SEMICOLON")>>]

\* What parse() does with a declaration; Declarator chooses how it goes on.
declaration == [kind |-> "VAR_DECL", steps |-> <<Type, Name, Step("declarator", NoName, NoName, 0)>>]

function == [kind |-> "FUNC_DECL", steps |->
  <<Expect("LPAREN"), Jump("RPAREN", 6), ParamType(6), ParamName, Loop("COMMA", 3),
    Expect("RPAREN"), Body, Expect("SEMICOLON")>>]

global_var == [kind |-> "VAR_DECL", steps |->
  <<If("ASSIGN"), Call("parse_expr"), Expect("SEMICOLON")>>]

program == [kind |-> "PROGRAM", steps |-> <<Step("declarations", NoName, NoName, 0)>>]

\* The suffixes of parse_postfix().
call == [kind |-> "CALL", steps |->
  <<Jump("RPAREN", 4), Call("parse_expr"), Loop("COMMA", 2), Expect("RPAREN")>>]
index == [kind |-> "INDEX", steps |-> <<Call("parse_expr"), Expect("RBRACKET")>>]
member == [kind |-> "MEMBER", steps |-> <<Name>>]

\* parse_primary() after a "(": the operand is the expression inside.
paren == [kind |-> "NULL", steps |-> <<Call("parse_expr"), Expect("RPAREN")>>]

\* Operators, while the call for their last operand runs.
Waiting(kind) == [kind |-> kind, steps |-> <<Step("wait", NoName, NoName, 0)>>]

Scripts ==
  [parse_var_decl |-> parse_var_decl, parse_block |-> parse_block, parse_return |-> parse_return,
   parse_if |-> parse_if, parse_while |-> parse_while, parse_for |-> parse_for,
   expr_stmt |-> expr_stmt, declaration |-> declaration, function |-> function,
   global_var |-> global_var, parse |-> program, call |-> call, index |-> index,
   member |-> member, paren |-> paren, unary |-> Waiting("UNARY"),
   binary |-> Waiting("BINARY"), assign |-> Waiting("ASSIGN")]

-----------------------------------------------------------------------------
(* The expression functions. *)

\* A bug: parse_equality() calls parse_additive(), that parse_relational().
ChainCrossed ==
  <<"parse_assignment", "parse_logical_or", "parse_logical_and", "parse_equality",
    "parse_additive", "parse_relational", "parse_multiplicative", "parse_unary">>

Chain ==
  <<"parse_assignment", "parse_logical_or", "parse_logical_and", "parse_equality",
    "parse_relational", "parse_additive", "parse_multiplicative", "parse_unary">>

\* The operators each looks for after its operand.
Operators ==
  [parse_assignment     |-> {"ASSIGN"},
   parse_logical_or     |-> {"OR"},
   parse_logical_and    |-> {"AND"},
   parse_equality       |-> {"EQ", "NEQ"},
   parse_relational     |-> {"LT", "GT", "LEQ", "GEQ"},
   parse_additive       |-> {"PLUS", "MINUS"},
   parse_multiplicative |-> {"STAR", "SLASH", "PERCENT"},
   parse_postfix        |-> {"LPAREN", "LBRACKET", "DOT"}]

unary_ops == {"MINUS", "BANG", "STAR", "AMP"}

Index(fn) == CHOOSE i \in DOMAIN Chain : Chain[i] = fn

\* A bug: the same level again, for every operator.
RightAgain(fn) == fn

\* The function for an operator's right operand: one level down, but = associates to the right.
Right(fn) == IF fn = "parse_assignment" THEN fn ELSE Chain[Index(fn) + 1]

Frame(fn) ==
  [fn |-> fn, pc |-> 1,
   node |-> Node(IF fn \in DOMAIN Scripts THEN Scripts[fn].kind ELSE "NULL")]

StatementFunction ==
  IF is_type_keyword(current.type) THEN "parse_var_decl"
  ELSE IF check("RETURN") THEN "parse_return"
  ELSE IF check("IF") THEN "parse_if"
  ELSE IF check("WHILE") THEN "parse_while"
  ELSE IF check("FOR") THEN "parse_for"
  ELSE IF check("LBRACE") THEN "parse_block"
  ELSE "expr_stmt"

\* The frames a call adds.  An expression function calls the next before it does anything.
Frames(fn) ==
  IF fn = "parse_expr" THEN [i \in DOMAIN Chain |-> Frame(Chain[i])]
  ELSE IF fn \in Range(Chain)
  THEN [i \in 1..(Len(Chain) - Index(fn) + 1) |-> Frame(Chain[Index(fn) + i - 1])]
  ELSE IF fn = "parse_stmt" THEN <<Frame(StatementFunction)>>
  ELSE IF fn = "for_init"
  THEN <<Frame(IF is_type_keyword(current.type) THEN "parse_var_decl" ELSE "expr_stmt")>>
  ELSE <<Frame(fn)>>

-----------------------------------------------------------------------------
(* Tokens and the stack. *)

\* advance(), with an error_at() before it if err.
advance(err) ==
  LET left == IF err /\ budget > more.after THEN more.after ELSE budget
      free == {Token(t, IF t \in Spelled THEN ToString(Len(seen) + 1) ELSE NoName) : t \in more.types}
  IN  /\ had_error' = (had_error \/ err)
      /\ IF check("EOF") THEN UNCHANGED stream
         ELSE UNCHANGED more /\ IF pending # <<>>
         THEN /\ current' = Head(pending) /\ pending' = Tail(pending)
              /\ budget' = left
              /\ seen' = Append(seen, current')
         ELSE /\ current' \in {Eof} \cup (IF left > 0 THEN free ELSE {})
              /\ budget' = IF left > 0 THEN left - 1 ELSE 0
              /\ seen' = Append(seen, current')
              /\ UNCHANGED pending

NoToken == UNCHANGED <<stream, had_error>>
NoNode == UNCHANGED <<nodes, parens>>

Top == Last(calls)
Script == Scripts[Top.fn].steps
Doing(do) ==
  /\ calls # <<>> /\ Top.fn \in DOMAIN Scripts
  /\ Top.pc <= Len(Script) /\ Script[Top.pc].do = do
This == Script[Top.pc]

GoOn(frame) == calls' = Append(Front(calls), frame) /\ NoNode
After(frame) == [frame EXCEPT !.pc = @ + 1]

\* A bug: the field of the part that is absent is not there.
NextWithout(child) == [Top EXCEPT !.pc = @ + 2]

NextWith(child) == [Top EXCEPT !.pc = @ + 2, !.node.kids = Append(@, child)]

\* A bug: a later child takes the place of the earlier ones.
DeliverOver(stack, v) ==
  LET Keeps(f) == f.fn \in DOMAIN Operators => current.type \in Operators[f.fn]
      k == SelectLastInSeq(stack, Keeps)
      one == [stack[k] EXCEPT !.node.kids = <<v>>]
  IN  Append(SubSeq(stack, 1, k - 1),
             IF stack[k].fn \in DOMAIN Operators THEN one
             ELSE [one EXCEPT !.pc = IF Scripts[stack[k].fn].steps[@].do \in {"many", "declarations"}
                                     THEN @ ELSE @ + 1])

\* The functions of stack that get value v: one whose operators do not follow passes it on.
Deliver(stack, v) ==
  LET Keeps(f) == f.fn \in DOMAIN Operators => current.type \in Operators[f.fn]
      k == SelectLastInSeq(stack, Keeps)
  IN  Append(SubSeq(stack, 1, k - 1),
             IF stack[k].fn \in DOMAIN Operators THEN [stack[k] EXCEPT !.node.kids = <<v>>]
             ELSE [stack[k] EXCEPT !.node.kids = Append(@, v),
                                   !.pc = IF Scripts[stack[k].fn].steps[@].do \in {"many", "declarations"}
                                          THEN @ ELSE @ + 1])

Alloc(node) == nodes' = Append(nodes, node) /\ parens' = Append(parens, 0)

-----------------------------------------------------------------------------
(* Steps of scripts. *)

ExpectToken ==
  /\ Doing("expect") /\ advance(~check(This.token)) /\ GoOn(After(Top))

ExpectName ==
  /\ Doing("name") /\ advance(~check(This.token))
  /\ GoOn([After(Top) EXCEPT !.node.name = current.lexeme])

\* The keyword, whatever it is, then the stars.
ParseType ==
  /\ Doing("type")
  /\ IF Top.node.type = Unset
     THEN /\ advance(FALSE) /\ GoOn([Top EXCEPT !.node.type = TypeInfo(current.type, 0)])
     ELSE IF check("STAR")
     THEN advance(FALSE) /\ GoOn([Top EXCEPT !.node.type.ptr_depth = @ + 1])
     ELSE NoToken /\ GoOn(After(Top))

CallFunction ==
  /\ Doing("call") /\ NoToken /\ NoNode
  /\ calls' = calls \o Frames(This.fn)

OptionalPart ==
  \/ /\ Doing("if")
     /\ IF check(This.token) THEN advance(FALSE) /\ GoOn(After(Top))
        ELSE NoToken /\ GoOn(NextWith(0))
  \/ /\ Doing("unless") /\ NoToken
     /\ GoOn(IF check(This.token) THEN NextWith(0) ELSE After(Top))
  \/ /\ Doing("take")
     /\ IF check(This.token) THEN advance(FALSE) /\ GoOn(NextWith(0))
        ELSE NoToken /\ GoOn(After(Top))

\* A bug: what no statement begins with is reported and not skipped.
StatementsStuck ==
  /\ Doing("many")
  /\ IF check("RBRACE") \/ check("EOF") THEN NoToken /\ GoOn(After(Top))
     ELSE IF check("RPAREN") THEN had_error' = TRUE /\ UNCHANGED <<stream, calls>> /\ NoNode
     ELSE NoToken /\ calls' = calls \o Frames(This.fn) /\ NoNode

Statements ==
  /\ Doing("many") /\ NoToken
  /\ IF check("RBRACE") \/ check("EOF") THEN GoOn(After(Top))
     ELSE calls' = calls \o Frames(This.fn) /\ NoNode

Branch ==
  \/ Doing("jump") /\ NoToken /\ GoOn([Top EXCEPT !.pc = IF check(This.token) THEN This.to ELSE @ + 1])
  \/ /\ Doing("loop")
     /\ IF check(This.token) THEN advance(FALSE) /\ GoOn([Top EXCEPT !.pc = This.to])
        ELSE NoToken /\ GoOn(After(Top))

\* A parameter's type; pc stays for the stars, which follow the last parameter's keyword.
ParseParamType ==
  /\ Doing("param")
  /\ IF is_type_keyword(current.type)
     THEN /\ advance(FALSE)
          /\ GoOn([After(Top) EXCEPT !.node.params =
                     Append(@, [name |-> NoName, type |-> TypeInfo(current.type, 0)])])
     ELSE /\ had_error' = TRUE /\ UNCHANGED stream
          /\ GoOn([Top EXCEPT !.pc = This.to])

ParseParamName ==
  LET last == Len(Top.node.params)
  IN  /\ Doing("pname")
      /\ IF check("STAR")
         THEN advance(FALSE) /\ GoOn([Top EXCEPT !.node.params[last].type.ptr_depth = @ + 1])
         ELSE /\ advance(~check("IDENT"))
              /\ GoOn([After(Top) EXCEPT !.node.params[last].name = current.lexeme])

\* A prototype has no body, and a definition no semicolon.
FunctionBody ==
  /\ Doing("body") /\ NoToken /\ NoNode
  /\ IF check("LBRACE") THEN calls' = Append(Front(calls), After(Top)) \o Frames("parse_block")
     ELSE calls' = Append(Front(calls), [After(Top) EXCEPT !.node.kids = <<0>>])

Declarations ==
  /\ Doing("declarations")
  /\ IF check("EOF") THEN NoToken /\ GoOn(After(Top))
     ELSE IF is_type_keyword(current.type)
     THEN NoToken /\ NoNode /\ calls' = calls \o Frames("declaration")
     ELSE advance(TRUE) /\ UNCHANGED calls /\ NoNode

Declarator ==
  /\ Doing("declarator") /\ NoToken
  /\ LET fn == IF check("LPAREN") THEN "function" ELSE "global_var"
     IN  GoOn([fn |-> fn, pc |-> 1, node |-> [Top.node EXCEPT !.kind = Scripts[fn].kind]])

\* The function returns its node; a parenthesis, the expression inside.
Finish ==
  /\ calls # <<>> /\ Top.fn \in DOMAIN Scripts /\ Top.pc > Len(Script) /\ NoToken
  /\ IF Top.fn = "paren"
     THEN LET e == Top.node.kids[1]
          IN  /\ calls' = Deliver(Front(calls), e)
              /\ parens' = [parens EXCEPT ![e] = @ + 1] /\ UNCHANGED nodes
     ELSE /\ Alloc(Top.node)
          /\ calls' = IF Len(calls) = 1 THEN <<>> ELSE Deliver(Front(calls), Len(nodes) + 1)

-----------------------------------------------------------------------------
(* Steps of expressions. *)

\* parse_unary() has an operator, or calls parse_postfix(), which calls parse_primary().
Unary ==
  /\ calls # <<>> /\ Top.fn = "parse_unary" /\ current.type \in unary_ops
  /\ advance(FALSE) /\ NoNode
  /\ calls' = Front(calls) \o
       <<[Frame("unary") EXCEPT !.node.op = current.type], Frame("parse_unary")>>

Holding(fn, kids) == [Frame(fn) EXCEPT !.node.kids = kids]

Primary ==
  /\ calls # <<>> /\ Top.fn = "parse_unary" /\ current.type \notin unary_ops
  /\ IF check("LPAREN")
     THEN /\ advance(FALSE) /\ NoNode
          /\ calls' = Front(calls) \o <<Frame("parse_postfix"), Frame("paren")>>
     ELSE /\ advance(current.type \notin Spelled)
          /\ Alloc(IF current.type \in Spelled
                   THEN [Node(current.type) EXCEPT !.name = current.lexeme]
                   ELSE [Node("INT_LIT") EXCEPT !.name = "0"])
          /\ calls' = Append(Front(calls), Holding("parse_postfix", <<Len(nodes) + 1>>))

HasOperand == calls # <<>> /\ Top.fn \in DOMAIN Operators /\ Top.node.kids # <<>>
Follows == current.type \in Operators[Top.fn]

\* The node of a binary operator; its function waits below it, but parse_assignment() has no loop.
Binary ==
  LET assign == Top.fn = "parse_assignment"
      node == [Frame(IF assign THEN "assign" ELSE "binary") EXCEPT
                 !.node.kids = Top.node.kids,
                 !.node.op = IF assign THEN NoOp ELSE current.type]
  IN  /\ HasOperand /\ Follows /\ Top.fn # "parse_postfix"
      /\ advance(FALSE) /\ NoNode
      /\ calls' = Front(calls) \o (IF assign THEN <<>> ELSE <<Frame(Top.fn)>>)
                    \o <<node>> \o Frames(Right(Top.fn))

Postfix ==
  /\ HasOperand /\ Follows /\ Top.fn = "parse_postfix"
  /\ advance(FALSE) /\ NoNode
  /\ calls' = Front(calls) \o
       <<Frame(Top.fn), Holding(IF check("LPAREN") THEN "call"
                                ELSE IF check("LBRACKET") THEN "index" ELSE "member",
                                Top.node.kids)>>

ReturnOperand ==
  /\ HasOperand /\ ~Follows /\ NoToken /\ NoNode
  /\ calls' = Deliver(Front(calls), Top.node.kids[1])

NoMore == [types |-> {}, count |-> 0, after |-> 0]

ParserInit ==
  /\ current = Eof /\ pending = <<>> /\ seen = <<>> /\ more = NoMore /\ budget = 0
  /\ had_error = FALSE /\ calls = <<>> /\ nodes = <<>> /\ parens = <<>>

\* parser_init() on a text that begins with the tokens of text, and the call of parse().
Start(text, rest) ==
  /\ seen = <<>>
  /\ current' = Head(text) /\ pending' = Tail(text) /\ seen' = <<Head(text)>>
  /\ calls' = <<Frame("parse")>>
  /\ more' = rest /\ budget' = rest.count
  /\ UNCHANGED had_error /\ NoNode

ParserStep ==
  \/ ExpectToken \/ ExpectName \/ ParseType \/ CallFunction \/ OptionalPart \/ Statements \/ Branch
  \/ ParseParamType \/ ParseParamName \/ FunctionBody \/ Declarations \/ Declarator \/ Finish
  \/ Unary \/ Primary \/ Binary \/ Postfix \/ ReturnOperand

Parsed == seen # <<>> /\ calls = <<>>
=============================================================================
