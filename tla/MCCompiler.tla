----------------------------- MODULE MCCompiler -----------------------------
(* Constants of the compiler's runs, and the programs of those that combine several topics. *)
EXTENDS Claims, Topics

Decl(x, t) == [name |-> x, type |-> t]

PtrInt == PointerTo(IntType)
OneType == {IntType}
NoParams == {<<>>}
ReturnTypes == {IntType, PtrInt}
IntAndChar == {IntType, CharType}
DeclaredTypes == {IntType, CharType, PtrInt}

XParam == {<<>>, <<Decl("x", IntType)>>}
CallParams == {<<>>, <<Decl("c", IntType)>>, <<Decl("c", PtrInt)>>}
TypedParams == {<<Decl("c", CharType), Decl("i", IntType), Decl("p", PtrInt)>>}
CharParam == {<<Decl("x", CharType)>>}
ParamListsOfAll == XParam \cup CharParam \cup CallParams \cup TypedParams

-----------------------------------------------------------------------------
(* Statements, and declarations as the whole body of one. *)

Statements ==
  [kinds |-> {"PROGRAM", "FUNC_DECL", "BLOCK", "IF", "WHILE", "FOR", "RETURN", "EXPR_STMT", "BINARY",
              "INT_LIT"},
   ops |-> {"AND"}, names |-> {}, funcs |-> {"x"}, types |-> OneType,
   params |-> NoParams, nodes |-> 9, list |-> 2]

BareDeclarations ==
  [kinds |-> {"PROGRAM", "FUNC_DECL", "BLOCK", "IF", "FOR", "VAR_DECL", "EXPR_STMT", "IDENT"},
   ops |-> {}, names |-> {"x"}, funcs |-> {"x"}, types |-> OneType,
   params |-> NoParams, nodes |-> 9, list |-> 2]

ControlSpec == Init /\ [][Next /\ Grown({Statements, BareDeclarations})]_vars

(* Scopes, those of for, functions and their calls, functions declared again, expressions. *)

Scoping ==
  [kinds |-> {"PROGRAM", "FUNC_DECL", "BLOCK", "VAR_DECL", "EXPR_STMT", "IDENT"},
   ops |-> {}, names |-> {"x", "f"}, funcs |-> {"f"}, types |-> OneType, params |-> XParam,
   nodes |-> 8, list |-> 2]

Looping ==
  [kinds |-> {"PROGRAM", "FUNC_DECL", "BLOCK", "VAR_DECL", "FOR", "EXPR_STMT", "IDENT"},
   ops |-> {}, names |-> {"x"}, funcs |-> {"f"}, types |-> OneType, params |-> XParam,
   nodes |-> 8, list |-> 2]

Calling ==
  [kinds |-> {"PROGRAM", "FUNC_DECL", "BLOCK", "EXPR_STMT", "IDENT", "CHAR_LIT", "CALL"},
   ops |-> {}, names |-> {"f", "g", "c"}, funcs |-> {"f", "g"}, types |-> OneType, params |-> CallParams,
   nodes |-> 7, list |-> 2]

Redeclaring ==
  [kinds |-> {"PROGRAM", "FUNC_DECL", "BLOCK", "EXPR_STMT", "IDENT", "CALL"},
   ops |-> {}, names |-> {"f"}, funcs |-> {"f"}, types |-> DeclaredTypes, params |-> CallParams,
   nodes |-> 6, list |-> 2]

Typing ==
  [kinds |-> {"PROGRAM", "FUNC_DECL", "BLOCK", "RETURN", "EXPR_STMT", "IDENT", "INT_LIT", "STR_LIT",
              "ASSIGN", "BINARY", "UNARY", "INDEX", "MEMBER"},
   ops |-> BinaryOps \cup UnaryOps, names |-> {"f", "c", "i", "p"}, funcs |-> {"f"},
   types |-> ReturnTypes, params |-> TypedParams, nodes |-> 7, list |-> 1]

Nesting ==
  [kinds |-> {"PROGRAM", "FUNC_DECL", "BLOCK", "EXPR_STMT", "IDENT", "ASSIGN", "BINARY", "UNARY",
             "INDEX"},
   ops |-> {"PLUS", "MINUS", "STAR"}, names |-> {"c", "p"}, funcs |-> {"f"}, types |-> OneType,
   params |-> TypedParams, nodes |-> 9, list |-> 1]

\* A name CodeGen takes for another variable, of another type, than Sema did.
Retyping ==
  [kinds |-> {"PROGRAM", "FUNC_DECL", "BLOCK", "FOR", "VAR_DECL", "EXPR_STMT", "IDENT", "INT_LIT",
              "BINARY"},
   ops |-> {"PLUS"}, names |-> {"x"}, funcs |-> {"f"}, types |-> ReturnTypes, params |-> CharParam,
   nodes |-> 8, list |-> 1]

MeaningSpec ==
  Init /\ [][Next /\ Grown({Scoping, Looping, Calling, Redeclaring, Typing, Nesting, Retyping})]_vars
=============================================================================
