\* Short texts of comments, of literals, of words and of operators, and the memory after them.
SPECIFICATION LexerSpec
CONSTANTS
  Sources <- ShortTexts
  Beyond <- Outside
  KEYWORDS <- Keyword
  MAX_LEXEME = 4
INVARIANTS
  LexerTypeOK
PROPERTIES
  ScansText
  ReachesEof
