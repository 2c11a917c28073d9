\* A char passed where an int is expected.
SPECIFICATION Spec
CONSTANTS
  Names = {"f", "g", "c"}
  VarNames = {}
  FuncNames = {"f", "g"}
  DeclTypes <- IntAndChar
  ParamLists <- CallParams
  Kinds = {"PROGRAM", "FUNC_DECL", "BLOCK", "RETURN", "IDENT", "CHAR_LIT", "CALL"}
  BinaryOps = {}
  UnaryOps = {}
  MaxNodes = 7
  MaxList = 2
  IrPaths = {FALSE}
INVARIANTS
  ArgumentsConverted
