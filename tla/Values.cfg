\* Arithmetic, relations, negation and subscripts on every value of a char of 3 bits, an int of 5 and pointers into 40 bytes,
\* and every literal of up to 6 characters with lexemes of up to 5.
SPECIFICATION DataSpec
CONSTANTS
  CharBits = 3
  IntBits = 5
  LongBits = 8
  MaxAddress = 40
  MaxLiteral = 260
  PointerTypes <- SomePointers
  Ascii <- SomeAscii
  MAX_LEXEME = 6
  MaxText = 6
INVARIANTS
  ValuesTypeOK
  MeansWhatCSays
  EscapesTypeOK
  LiteralsMeanWhatCSays
