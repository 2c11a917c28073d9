\* Scopes opened, filled, searched and closed in any order, and messages about one or two types.
SPECIFICATION SymbolsSpec
CONSTANTS
  Names = {"x", "y", "z"}
  Infos = {"int", "char"}
  Nothing = "none"
  BUCKETS = 2
  hash_name <- Colliding
  MaxSymbols = 3
  MaxScopes = 3
  POOL = 4
  BUFFER = 9
  MaxNamed = 2
  MaxDepth = 3
INVARIANTS
  SymbolsOwned
  MessagesNameTheirTypes
PROPERTIES
  ImplementsScopes
