\* Initialisers and statements, written, parsed and freed.
SPECIFICATION WrittenSpec
CONSTANTS
  Names = {"x", "f"}
  VarNames = {"x"}
  FuncNames = {"x"}
  DeclTypes <- TwoTypes
  ParamLists <- TwoParams
  Kinds = {"PROGRAM", "FUNC_DECL", "VAR_DECL", "BLOCK", "RETURN", "IF", "WHILE", "FOR", "EXPR_STMT", "IDENT", "INT_LIT", "ASSIGN", "BINARY", "UNARY", "CALL", "INDEX", "MEMBER"}
  BinaryOps = {"OR", "AND", "EQ", "LT", "MINUS", "STAR"}
  UnaryOps = {"MINUS", "STAR"}
  MaxNodes = 9
  MaxList = 2
INVARIANTS
  GivesBack
  FreesEachOnce
