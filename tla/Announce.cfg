\* An IR file that cannot be written.
SPECIFICATION Spec
CONSTANTS
  Names = {"x", "f"}
  VarNames = {"x"}
  FuncNames = {"f"}
  DeclTypes <- ReturnTypes
  ParamLists <- NoParams
  Kinds = {"PROGRAM", "FUNC_DECL", "BLOCK", "RETURN", "UNARY", "IDENT", "INT_LIT"}
  BinaryOps = {}
  UnaryOps = {"AMP"}
  MaxNodes = 6
  MaxList = 2
  IrPaths = {TRUE, FALSE}
INVARIANTS
  SaidIsWritten
