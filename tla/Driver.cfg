\* main(): exit status and output files.
SPECIFICATION FairSpec
CONSTANTS
  Names = {"x", "f"}
  VarNames = {"x"}
  FuncNames = {"f"}
  DeclTypes <- ReturnTypes
  ParamLists <- NoParams
  Kinds = {"PROGRAM", "FUNC_DECL", "BLOCK", "VAR_DECL", "FOR", "IF", "RETURN", "BINARY", "UNARY", "IDENT", "INT_LIT"}
  BinaryOps = {"AND"}
  UnaryOps = {"AMP", "STAR"}
  MaxNodes = 6
  MaxList = 2
  IrPaths = {TRUE, FALSE}
INVARIANTS
  AstTypeOK
  SemaTypeOK
  CgTypeOK
  OutputSound
PROPERTIES
  CompilesOrReports
  Terminates
