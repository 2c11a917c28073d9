----------------------------- MODULE MCRoundTrip -----------------------------
(* Constants of the round-trip run, and its programs. *)
EXTENDS RoundTrip, Topics

AnInt == TypeInfo("INT", 0)
PtrChar == TypeInfo("CHAR", 1)

TwoTypes == {AnInt, PtrChar}
NoParams == {<<>>}
TwoParams == {<<>>, <<[name |-> "x", type |-> PtrChar], [name |-> "f", type |-> AnInt]>>}

\* Prototypes and variables with any initialiser.
Initialisers ==
  [kinds |-> {"PROGRAM", "FUNC_DECL", "BLOCK", "VAR_DECL", "IDENT", "ASSIGN", "BINARY", "UNARY",
              "CALL", "INDEX", "MEMBER"},
   ops |-> BinaryOps \cup UnaryOps, names |-> {"x", "f"}, funcs |-> {"x"},
   types |-> TwoTypes, params |-> TwoParams, nodes |-> 7, list |-> 2]

\* Functions of nested statements.
NestedStatements ==
  [kinds |-> {"PROGRAM", "FUNC_DECL", "VAR_DECL", "BLOCK", "RETURN", "IF", "WHILE", "FOR",
              "EXPR_STMT", "INT_LIT"},
   ops |-> {}, names |-> {"x"}, funcs |-> {"x"}, types |-> {AnInt},
   params |-> NoParams, nodes |-> 9, list |-> 1]

WrittenSpec ==
  RoundTripInit /\ [][RoundTripNext /\ Grown({Initialisers, NestedStatements})]_roundVars
=============================================================================
