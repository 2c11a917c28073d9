------------------------------- MODULE MCParsing -------------------------------
(* Constants of the parser's run. *)
EXTENDS Parsing

Opening(types) ==
  [i \in DOMAIN types |-> Token(types[i], IF types[i] = "IDENT" THEN ToString(i) ELSE NoName)]

Variable == <<"INT", "IDENT", "ASSIGN">>
Function == <<"INT", "IDENT", "LPAREN", "RPAREN", "LBRACE">>
On(keyword) == <<keyword, "LPAREN", "IDENT", "RPAREN">>
Forever == <<"FOR", "LPAREN", "SEMICOLON", "SEMICOLON", "RPAREN">>

\* int x = : expressions.
Initialisers ==
  [given |-> Opening(Variable), count |-> 5, after |-> 1,
   types |-> {"IDENT", "ASSIGN", "LT", "MINUS", "STAR", "LPAREN", "RPAREN", "COMMA", "LBRACKET",
              "RBRACKET", "DOT", "SEMICOLON"}]

\* int x = : two operators, one of each precedence there is.
Operations ==
  [given |-> Opening(Variable), count |-> 6, after |-> 0,
   types |-> {"IDENT", "ASSIGN", "OR", "AND", "EQ", "LT", "MINUS", "STAR", "SEMICOLON"}]

\* int x = ( or int x = y * ( : the one or the other in parentheses.
Parenthesised ==
  {[given |-> Opening(Variable \o before \o <<"LPAREN">>), count |-> 7 - Len(before), after |-> 0,
    types |-> {"IDENT", "ASSIGN", "LT", "MINUS", "STAR", "RPAREN", "SEMICOLON"}] :
     before \in {<<>>, <<"IDENT", "STAR">>}}

\* int f ( ) { : statements.
Bodies ==
  [given |-> Opening(Function), count |-> 5, after |-> 2,
   types |-> {"INT", "IDENT", "IF", "ELSE", "FOR", "RETURN", "LPAREN", "RPAREN", "LBRACE", "RBRACE",
              "SEMICOLON"}]

\* int f ( ) { for ( or while ( : the parts of a loop.
Loops ==
  {[given |-> Opening(Function \o <<keyword, "LPAREN">>), count |-> 10, after |-> 0,
    types |-> {"INT", "IDENT", "SEMICOLON", "RPAREN", "LBRACE", "RBRACE"}] : keyword \in {"FOR", "WHILE"}}

\* int f ( ) { if ( x ) .. if ( x ) : the else of the inner one, of the outer one, or of none.
Branches ==
  {[given |-> Opening(Function \o On("IF") \o between \o On("IF")), count |-> 9, after |-> 0,
    types |-> {"ELSE", "LBRACE", "RBRACE"}] : between \in {<<>>, <<"LBRACE">>, On("WHILE"), Forever}}

\* int : prototypes, functions and variables.
TopLevels ==
  [given |-> Opening(<<"INT">>), count |-> 8, after |-> 1,
   types |-> {"INT", "STAR", "IDENT", "LPAREN", "RPAREN", "COMMA", "LBRACE", "RBRACE", "SEMICOLON",
              "ASSIGN"}]

Openings == {Initialisers, Operations, Bodies, TopLevels} \cup Parenthesised \cup Loops \cup Branches
=============================================================================
