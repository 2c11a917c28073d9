\* Texts that begin an initialiser, a body, a loop, a branch or a declaration, whole or broken.
SPECIFICATION ParsingSpec
CONSTANTS
  Texts <- Openings
INVARIANTS
  TreeTypeOK
  ReadsBack
PROPERTIES
  ParseReturns
