\* Programs of statements and of bare declarations: control flow, blocks, scopes.
SPECIFICATION ControlSpec
CONSTANTS
  Names = {"x"}
  VarNames = {"x"}
  FuncNames = {"x"}
  DeclTypes <- OneType
  ParamLists <- NoParams
  Kinds = {"PROGRAM", "FUNC_DECL", "BLOCK", "IF", "WHILE", "FOR", "RETURN", "VAR_DECL", "EXPR_STMT", "BINARY", "IDENT", "INT_LIT"}
  BinaryOps = {"AND"}
  UnaryOps = {}
  MaxNodes = 9
  MaxList = 2
  IrPaths = {FALSE}
INVARIANTS
  NothingAfterTerminator
  BlocksTerminated
  PhisComplete
  ReachabilityAgrees
  HasReturnExact
  CurrentFuncOfBody
  ScopesBalanced
  CgScopesBalanced
  DominanceExplained
