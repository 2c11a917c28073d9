\* Programs of declarations, of calls and of expressions: names and types.
SPECIFICATION MeaningSpec
CONSTANTS
  Names = {"x", "f", "g", "c", "i", "p"}
  VarNames = {"x", "f"}
  FuncNames = {"f", "g"}
  DeclTypes <- DeclaredTypes
  ParamLists <- ParamListsOfAll
  Kinds = {"PROGRAM", "FUNC_DECL", "BLOCK", "VAR_DECL", "FOR", "RETURN", "EXPR_STMT", "IDENT", "INT_LIT", "CHAR_LIT", "STR_LIT", "CALL", "ASSIGN", "BINARY", "UNARY", "INDEX", "MEMBER"}
  BinaryOps = {"PLUS", "MINUS", "STAR", "LT", "AND"}
  UnaryOps = {"STAR", "AMP", "MINUS", "BANG"}
  MaxNodes = 9
  MaxList = 2
  IrPaths = {FALSE}
INVARIANTS
  SemaDecides
  SemaAnnotates
  KnownUnlessError
  ErrorsExplained
  FaultsExplained
  ResolutionAgrees
  CallsAgree
