----------------------------- MODULE LexerProofs -----------------------------
(***************************************************************************)
(* Proofs about the lexer: it stays inside memory and its buffers, and     *)
(* scanning character by character it implements TokenSource.              *)
(***************************************************************************)
EXTENDS Lexer, FiniteSetTheorems, SequenceTheorems, NaturalsInduction, WellFoundedInduction, TLAPS

-----------------------------------------------------------------------------
(* Types. *)

Modes == {"between", "//", "/*", "number", "word", "string", "char", "quote", "crashed"}
\* The provers do not know that a literal is in STRING.
Characters == STRING \cup {"NUL"}
Both(a, b) == a \o b
TokenTypes ==
  {KEYWORDS[w] : w \in DOMAIN KEYWORDS} \cup {"IDENT", "INT_LIT", "STR_LIT", "CHAR_LIT", "EOF", "UNKNOWN"}
    \cup Singles \cup {Both(a, b) : a, b \in Characters}

\* Memory: the text, its NUL, and what is beyond, up to a NUL.
MemoryOK == src \in Seq(Characters) /\ src # <<>> /\ src[Len(src)] = "NUL"

\* The newlines before a position.
Newlines(p) == {i \in 1..(p - 1) : src[i] = "NL"}

PlaceOK ==
  /\ pos \in Nat /\ pos <= Len(src) + 1 /\ from \in 1..pos /\ (mode = "between" => from = pos)
  /\ line = 1 + Cardinality(Newlines(pos)) /\ begun = 1 + Cardinality(Newlines(from))

TokensOK ==
  /\ tokens \in Seq([type : TokenTypes, lexeme : Seq(Characters), line : Nat])
  /\ \A i \in DOMAIN tokens : Len(tokens[i].lexeme) < MAX_LEXEME /\ tokens[i].line \in 1..line

ScanTypes == mode \in Modes /\ MemoryOK /\ PlaceOK /\ TokensOK

LEMMA Minimum ==
  ASSUME NEW T \in SUBSET Nat, T # {}
  PROVE  \E k \in T : \A l \in T : k <= l
<1>1. \A a, b \in Nat : <<a, b>> \in OpToRel(<, Nat) <=> a < b
  BY DEF OpToRel
<1>2. PICK R : IsWellFoundedOn(R, Nat) /\ \A a, b \in Nat : <<a, b>> \in R <=> a < b
  BY <1>1, NatLessThanWellFounded
<1>3. \A a, b \in Nat : ~(<<a, b>> \in R) => b <= a
  BY <1>2
<1>4. IsWellFoundedOn(R, Nat)
  BY <1>2
<1>5. PICK k \in T : \A l \in T : ~(<<l, k>> \in R)
  BY <1>4, WFMin, Zenon
<1> QED
  BY <1>3, <1>5

\* What lies between two positions.
LEMMA NewlinesFacts ==
  ASSUME NEW p \in Nat \ {0}, NEW q \in Nat, p <= q
  PROVE  LET passed == {i \in p..(q - 1) : src[i] = "NL"}
         IN  /\ Cardinality(Newlines(p)) \in Nat /\ Cardinality(Newlines(q)) \in Nat
             /\ Cardinality(Newlines(p)) <= Cardinality(Newlines(q))
             /\ Cardinality(Newlines(q)) = Cardinality(Newlines(p)) + Cardinality(passed)
<1> DEFINE passed == {i \in p..(q - 1) : src[i] = "NL"}
           before == Newlines(p)
<1>1. IsFiniteSet(1..(q - 1)) /\ IsFiniteSet(p..(q - 1)) /\ IsFiniteSet(1..(p - 1))
  BY FS_Interval
<1>2. passed \in SUBSET (p..(q - 1)) /\ before \in SUBSET (1..(p - 1))
  BY DEF Newlines
<1>3. IsFiniteSet(passed) /\ IsFiniteSet(before)
  BY <1>1, <1>2, FS_Subset
<1>4. Newlines(q) = before \cup passed
  BY DEF Newlines
<1>5. before \cap passed = {}
  BY DEF Newlines
<1> HIDE DEF passed, before
<1>6. /\ IsFiniteSet(before \cup passed)
      /\ Cardinality(before \cup passed) = Cardinality(before) + Cardinality(passed) - Cardinality(before \cap passed)
  BY <1>3, FS_Union
<1>7. Cardinality({}) = 0
  BY FS_EmptySet
<1>8. Cardinality(passed) \in Nat /\ Cardinality(before) \in Nat
  BY <1>3, FS_CardinalityType
<1>9. Cardinality(Newlines(q)) = Cardinality(before) + Cardinality(passed)
  BY <1>4, <1>5, <1>6, <1>7, <1>8
<1> QED
  BY <1>8, <1>9 DEF passed, before

\* make_token_str(): the lexeme fits the buffer with its NUL.
LEMMA LexemeFits ==
  ASSUME MemoryOK, NEW lo \in Nat \ {0}, NEW len \in Int, lo + len - 1 <= Len(src)
  PROVE  lexeme(lo, len) \in Seq(Characters) /\ Len(lexeme(lo, len)) < MAX_LEXEME
<1> DEFINE copy == IF len < MAX_LEXEME - 1 THEN len ELSE MAX_LEXEME - 1
           nul == {i \in lo..(lo + copy - 1) : src[i] = "NUL"}
           hi == IF nul = {} THEN lo + copy - 1 ELSE (CHOOSE i \in nul : \A j \in nul : i <= j) - 1
<1>1. MAX_LEXEME \in Nat /\ MAX_LEXEME >= 1 /\ Len(src) \in Nat
  BY LexerAssumption DEF LexerAssumption, MemoryOK
<1>2. copy \in Int /\ copy <= MAX_LEXEME - 1 /\ lo + copy - 1 <= Len(src)
  BY <1>1
<1>3. hi \in Int /\ hi <= lo + copy - 1
  <2>1. CASE nul = {}
    BY <1>2, <2>1
  <2>2. CASE nul # {}
    <3>1. nul \in SUBSET Nat
      BY <1>2
    <3> DEFINE least == CHOOSE i \in nul : \A j \in nul : i <= j
    <3>2. \E i \in nul : \A j \in nul : i <= j
      <4> HIDE DEF nul
      <4> QED
        BY <2>2, <3>1, Minimum
    <3>3. least \in nul
      BY <3>2
    <3>4. least \in Int /\ least <= lo + copy - 1
      BY <1>2, <3>3
    <3> HIDE DEF least
    <3>5. hi = least - 1
      BY <2>2 DEF least
    <3> HIDE DEF hi, nul, copy
    <3> QED
      BY <1>2, <3>4, <3>5
  <2> QED
    BY <2>1, <2>2
<1>4. lexeme(lo, len) = SubSeq(src, lo, hi)
  BY DEF lexeme
<1> HIDE DEF hi, copy
<1>5. \A i \in lo..hi : src[i] \in Characters
  BY <1>1, <1>2, <1>3 DEF MemoryOK
<1>6. /\ SubSeq(src, lo, hi) \in Seq(Characters)
      /\ Len(SubSeq(src, lo, hi)) = IF lo <= hi THEN hi - lo + 1 ELSE 0
  BY <1>3, <1>5, SubSeqProperties
<1> QED
  BY <1>1, <1>2, <1>3, <1>4, <1>6

\* One step of a loop, from what it advances by.
Moves(n) == pos + n <= Len(src) + 1 /\ advance(n) /\ src' = src

LEMMA MovesFacts ==
  ASSUME ScanTypes, NEW n \in 0..2, Moves(n)
  PROVE  /\ MemoryOK' /\ pos' \in Nat /\ pos' <= Len(src') + 1 /\ pos <= pos'
         /\ line' = 1 + Cardinality(Newlines(pos)') /\ line \in Nat /\ line' \in Nat /\ line <= line'
         /\ \A p : Newlines(p)' = Newlines(p)
<1>1. /\ pos \in Nat \ {0} /\ pos' = pos + n /\ src' = src /\ pos + n \in Nat
      /\ pos <= pos + n /\ pos + n <= Len(src) + 1
  BY DEF ScanTypes, PlaceOK, Moves, advance
<1>2. /\ line = 1 + Cardinality(Newlines(pos))
      /\ line' = line + Cardinality({i \in pos..(pos + n - 1) : src[i] = "NL"})
  BY DEF ScanTypes, PlaceOK, Moves, advance
<1>3. /\ Cardinality(Newlines(pos)) \in Nat /\ Cardinality(Newlines(pos + n)) \in Nat
      /\ Cardinality(Newlines(pos)) <= Cardinality(Newlines(pos + n))
      /\ Cardinality(Newlines(pos + n))
           = Cardinality(Newlines(pos)) + Cardinality({i \in pos..(pos + n - 1) : src[i] = "NL"})
  BY <1>1, NewlinesFacts
<1>4. Newlines(pos)' = Newlines(pos + n)
  BY <1>1 DEF Newlines
<1>5. \A p : Newlines(p)' = Newlines(p)
  BY <1>1 DEF Newlines
<1>6. MemoryOK'
  BY <1>1 DEF ScanTypes, MemoryOK
<1>7. line' = 1 + Cardinality(Newlines(pos + n)) /\ line \in Nat /\ line' \in Nat /\ line <= line'
  <2> HIDE DEF Newlines
  <2> DEFINE a == Cardinality(Newlines(pos))
             b == Cardinality({i \in pos..(pos + n - 1) : src[i] = "NL"})
             c == Cardinality(Newlines(pos + n))
  <2>1. a \in Nat /\ c \in Nat /\ a <= c /\ c = a + b /\ line = 1 + a /\ line' = line + b
    BY <1>2, <1>3
  <2>2. b \in Int
    <3> IsFiniteSet({i \in pos..(pos + n - 1) : src[i] = "NL"})
      <4>1. IsFiniteSet(pos..(pos + n - 1))
        BY <1>1, FS_Interval
      <4>2. {i \in pos..(pos + n - 1) : src[i] = "NL"} \in SUBSET (pos..(pos + n - 1))
        OBVIOUS
      <4> QED
        BY <4>1, <4>2, FS_Subset
    <3> QED
      BY FS_CardinalityType
  <2> HIDE DEF a, b, c
  <2>3. line' = 1 + c /\ line \in Nat /\ line' \in Nat /\ line <= line'
    BY <2>1, <2>2
  <2> QED
    BY <2>3 DEF c
<1> QED
  BY <1>1, <1>4, <1>5, <1>6, <1>7

LEMMA LinesKept == TokensOK /\ tokens' = tokens /\ line \in Nat /\ line' \in Nat /\ line <= line' => TokensOK'
  BY DEF TokensOK

\* A loop goes on, or is entered.
LEMMA InsideTypes ==
  ASSUME ScanTypes, NEW n \in 0..2, Moves(n), UNCHANGED <<from, begun, tokens>>,
         mode' \in Modes \ {"between"}
  PROVE  ScanTypes'
<1>1. /\ MemoryOK' /\ pos' \in Nat /\ pos' <= Len(src') + 1 /\ pos <= pos'
      /\ line' = 1 + Cardinality(Newlines(pos)') /\ line \in Nat /\ line' \in Nat /\ line <= line'
      /\ \A p : Newlines(p)' = Newlines(p)
  BY MovesFacts
<1>2. from' = from /\ begun' = begun /\ from \in 1..pos /\ pos \in Nat /\ begun = 1 + Cardinality(Newlines(from))
  BY DEF ScanTypes, PlaceOK
<1>3. Newlines(from)' = Newlines(from)
  BY <1>2, src' = src DEF Newlines, Moves
<1>4. PlaceOK'
  BY <1>1, <1>2, <1>3 DEF PlaceOK
<1> QED
  BY <1>1, <1>4, LinesKept DEF ScanTypes

\* An item ends.
LEMMA EndTypes ==
  ASSUME ScanTypes, NEW n \in 0..2, Moves(n), mode' = "between", from' = pos', begun' = line',
         \/ tokens' = tokens
         \/ \E type \in TokenTypes, lo \in Nat \ {0}, len \in Int :
              /\ lo + len - 1 <= Len(src)
              /\ tokens' = Append(tokens, [type |-> type, lexeme |-> lexeme(lo, len), line |-> begun])
  PROVE  ScanTypes'
<1>1. /\ MemoryOK' /\ pos' \in Nat /\ pos' <= Len(src') + 1 /\ pos <= pos'
      /\ line' = 1 + Cardinality(Newlines(pos)') /\ line \in Nat /\ line' \in Nat /\ line <= line'
  BY MovesFacts
<1>2. pos \in Nat \ {0} /\ from \in 1..pos /\ begun = 1 + Cardinality(Newlines(from)) /\ line = 1 + Cardinality(Newlines(pos))
  BY DEF ScanTypes, PlaceOK
<1>3. PlaceOK'
  <2>1. Newlines(from)' = Newlines(pos)'
    BY DEF Newlines
  <2> QED
    BY <1>1, <1>2, <2>1 DEF PlaceOK
<1>4. begun \in 1..line
  <2>1. /\ Cardinality(Newlines(from)) \in Nat /\ Cardinality(Newlines(pos)) \in Nat
        /\ Cardinality(Newlines(from)) <= Cardinality(Newlines(pos))
    <3>1. from \in Nat \ {0} /\ pos \in Nat /\ from <= pos
      BY <1>2
    <3> QED
      BY <3>1, NewlinesFacts
  <2> QED
    BY <1>2, <2>1
<1>5. TokensOK'
  <2>1. CASE tokens' = tokens
    BY <1>1, <2>1, LinesKept DEF ScanTypes
  <2>2. ASSUME NEW type \in TokenTypes, NEW lo \in Nat \ {0}, NEW len \in Int, lo + len - 1 <= Len(src),
               tokens' = Append(tokens, [type |-> type, lexeme |-> lexeme(lo, len), line |-> begun])
        PROVE  TokensOK'
    <3> DEFINE token == [type |-> type, lexeme |-> lexeme(lo, len), line |-> begun]
               S == [type : TokenTypes, lexeme : Seq(Characters), line : Nat]
    <3>1. lexeme(lo, len) \in Seq(Characters) /\ Len(lexeme(lo, len)) < MAX_LEXEME
      BY <2>2, LexemeFits DEF ScanTypes
    <3>2. token \in S /\ Len(token.lexeme) < MAX_LEXEME /\ token.line = begun
      BY <1>1, <1>4, <3>1
    <3>3. tokens \in Seq(S) /\ \A i \in DOMAIN tokens : Len(tokens[i].lexeme) < MAX_LEXEME /\ tokens[i].line \in 1..line
      BY DEF ScanTypes, TokensOK
    <3>4. tokens' = Append(tokens, token)
      BY <2>2
    <3> HIDE DEF token, S
    <3>5. /\ tokens' \in Seq(S)
          /\ \A i \in DOMAIN tokens' : tokens'[i] = token \/ (i \in DOMAIN tokens /\ tokens'[i] = tokens[i])
      BY <3>2, <3>3, <3>4, AppendProperties
    <3>6. \A i \in DOMAIN tokens' : Len(tokens'[i].lexeme) < MAX_LEXEME /\ tokens'[i].line \in 1..line'
      BY <1>1, <1>4, <3>2, <3>3, <3>5
    <3> QED
      BY <3>5, <3>6 DEF TokensOK, S
  <2> QED
    BY <2>1, <2>2
<1> QED
  BY <1>1, <1>3, <1>5 DEF ScanTypes, Modes

LEMMA PeekTypes ==
  ASSUME ScanTypes, pos <= Len(src)
  PROVE  /\ pos \in 1..Len(src) /\ peek \in Characters /\ peek_next \in Characters /\ Len(src) \in Nat
         /\ peek # "NUL" => pos + 1 <= Len(src) /\ peek_next = src[pos + 1]
<1>1. /\ src \in Seq(Characters) /\ src[Len(src)] = "NUL" /\ pos \in Nat \ {0}
  BY DEF ScanTypes, MemoryOK, PlaceOK
<1>2. Len(src) \in Nat /\ pos \in 1..Len(src) /\ src[pos] \in Characters
  BY <1>1
<1>3. src[pos] # "NUL" => pos + 1 \in 1..Len(src)
  BY <1>1, <1>2
<1>4. src[pos] # "NUL" => src[pos + 1] \in Characters
  BY <1>1, <1>3
<1> QED
  BY <1>2, <1>3, <1>4 DEF peek, peek_next

\* The steps of next_token(), by what becomes of the item at hand.
Inside(n) ==
  n \in 0..2 /\ Moves(n) /\ UNCHANGED <<from, begun, tokens>> /\ mode' \in Modes \ {"between"}
Ends(n) ==
  /\ n \in 0..2 /\ Moves(n) /\ mode' = "between" /\ from' = pos' /\ begun' = line'
  /\ \/ tokens' = tokens
     \/ \E type \in TokenTypes, lo \in Nat \ {0}, len \in Int :
          /\ lo + len - 1 <= Len(src)
          /\ tokens' = Append(tokens, [type |-> type, lexeme |-> lexeme(lo, len), line |-> begun])

LEMMA InsideOrEnds == ASSUME ScanTypes, NEW n, Inside(n) \/ Ends(n) PROVE ScanTypes'
  BY InsideTypes, EndTypes DEF Inside, Ends

LEMMA ReturnEnds ==
  ASSUME ScanTypes, NEW n \in 0..2, Moves(n), NEW type \in TokenTypes, NEW lo \in Nat \ {0}, NEW len \in Int,
         lo + len - 1 <= Len(src), Return(type, lo, len)
  PROVE  Ends(n)
  BY DEF Return, Ends

\* The SMT backend does not read the literal of a quote.
Quote == "\""

LEMMA QuoteIs == Quote \notin {"NUL", "\\", "NL", " ", "/", "*", "'", "_", "0", "1", "a", "f", "i", "n", "t"}
  BY Zenon DEF Quote

LEMMA StringCases ==
  String => \/ In("between") /\ peek = Quote /\ Open("string", 1)
            \/ In("string") /\ peek # Quote /\ peek # "NUL" /\ advance(IF peek = "\\" THEN 2 ELSE 1) /\ Stay
            \/ In("string") /\ peek = Quote /\ advance(1) /\ Return("STR_LIT", from + 1, pos - from - 1)
            \/ In("string") /\ peek = "NUL" /\ advance(0) /\ Return("STR_LIT", from + 1, pos - from - 1)
<1>1. CASE In("between") /\ peek = Quote /\ Open("string", 1)
  BY <1>1
<1>2. CASE StringCharacter
  BY Zenon, <1>2 DEF StringCharacter, Quote
<1>3. CASE In("string") /\ peek \in {Quote, "NUL"} /\ advance(IF peek = Quote THEN 1 ELSE 0)
           /\ Return("STR_LIT", from + 1, pos - from - 1)
  BY Zenon, <1>3, QuoteIs
<1> QED
  BY Zenon, <1>1, <1>2, <1>3 DEF String, Quote

LEMMA TypeSteps ==
  ASSUME ScanTypes, LexerNext, ~Stopped, ~Fault, ~Eof
  PROVE  \E n : Inside(n) \/ Ends(n)
<1>0. /\ pos <= Len(src) => /\ pos \in 1..Len(src) /\ peek \in Characters /\ peek_next \in Characters /\ Len(src) \in Nat
                            /\ peek # "NUL" => pos + 1 <= Len(src) /\ peek_next = src[pos + 1]
      /\ pos \in Nat \ {0} /\ from \in 1..pos
  BY PeekTypes DEF ScanTypes, PlaceOK
<1>k. /\ {"INT_LIT", "STR_LIT", "CHAR_LIT", "IDENT", "UNKNOWN"} \subseteq TokenTypes /\ Singles \subseteq TokenTypes
      /\ \A a, b \in Characters : Both(a, b) \in TokenTypes
  BY DEF TokenTypes
<1>1. CASE Space
  <2>1. Ends(1)
    BY <1>0, <1>1 DEF Space, Ends, Moves, In, Skipped
  <2> QED
    BY <2>1
<1>2. CASE LineComment
  <2>1. CASE In("between") /\ peek = "/" /\ peek_next = "/" /\ Open("//", 0)
    <3>1. Inside(0)
      BY <1>0, <2>1 DEF Inside, Moves, In, Open, Modes
    <3> QED
      BY <3>1
  <2>2. CASE In("//") /\ peek \notin {"NL", "NUL"} /\ advance(1) /\ Stay
    <3>1. Inside(1)
      BY <1>0, <2>2 DEF Inside, Moves, In, Stay, Modes
    <3> QED
      BY <3>1
  <2>3. CASE In("//") /\ peek \in {"NL", "NUL"} /\ advance(0) /\ Skipped
    <3>1. Ends(0)
      BY <1>0, <2>3 DEF Ends, Moves, In, Skipped
    <3> QED
      BY <3>1
  <2> QED
    BY <1>2, <2>1, <2>2, <2>3 DEF LineComment
<1>3. CASE BlockComment
  <2>1. CASE In("between") /\ peek = "/" /\ peek_next = "*" /\ OpenBlock
    <3>1. Inside(2)
      BY <1>0, <2>1 DEF Inside, Moves, In, OpenBlock, Open, Modes
    <3> QED
      BY <3>1
  <2>2. CASE In("/*") /\ peek # "NUL" /\ advance(1) /\ Stay
    <3>1. Inside(1)
      BY <1>0, <2>2 DEF Inside, Moves, In, Stay, Modes
    <3> QED
      BY <3>1
  <2>3. CASE In("/*") /\ peek = "*" /\ peek_next = "/" /\ advance(2) /\ Skipped
    <3>1. Ends(2)
      BY <1>0, <2>3 DEF Ends, Moves, In, Skipped
    <3> QED
      BY <3>1
  <2>4. CASE In("/*") /\ peek = "NUL" /\ advance(0) /\ Skipped
    <3>1. Ends(0)
      BY <1>0, <2>4 DEF Ends, Moves, In, Skipped
    <3> QED
      BY <3>1
  <2> QED
    BY <1>3, <2>1, <2>2, <2>3, <2>4 DEF BlockComment
<1>4. CASE Number
  <2>1. CASE In("between") /\ isdigit(peek) /\ Open("number", 0)
    <3>1. Inside(0)
      BY <1>0, <2>1 DEF Inside, Moves, In, Open, Modes
    <3> QED
      BY <3>1
  <2>2. CASE In("number") /\ isdigit(peek) /\ advance(1) /\ Stay
    <3>1. Inside(1)
      BY <1>0, <2>2 DEF Inside, Moves, In, Stay, Modes
    <3> QED
      BY <3>1
  <2>3. CASE In("number") /\ advance(0) /\ Return("INT_LIT", from, pos - from)
    <3>1. Moves(0) /\ from + (pos - from) - 1 <= Len(src) /\ pos - from \in Int /\ from \in Nat \ {0}
      BY <1>0, <2>3 DEF Moves, In, Return
    <3>2. Ends(0)
      BY <1>k, <2>3, <3>1, ReturnEnds
    <3> QED
      BY <3>2
  <2> QED
    BY <1>4, <2>1, <2>2, <2>3 DEF Number
<1>5. CASE Word
  <2>1. CASE In("between") /\ Open("word", 0)
    <3>1. Inside(0)
      BY <1>0, <2>1 DEF Inside, Moves, In, Open, Modes
    <3> QED
      BY <3>1
  <2>2. CASE In("word") /\ advance(1) /\ Stay
    <3>1. Inside(1)
      BY <1>0, <2>2 DEF Inside, Moves, In, Stay, Modes
    <3> QED
      BY <3>1
  <2>3. CASE In("word") /\ advance(0) /\ Return(lookup_keyword(lexeme(from, pos - from)), from, pos - from)
    <3>1. Moves(0) /\ from + (pos - from) - 1 <= Len(src) /\ pos - from \in Int /\ from \in Nat \ {0}
      BY <1>0, <2>3 DEF Moves, In, Return
    <3>2. lookup_keyword(lexeme(from, pos - from)) \in TokenTypes
      BY DEF lookup_keyword, TokenTypes
    <3>3. Ends(0)
      BY <2>3, <3>1, <3>2, ReturnEnds
    <3> QED
      BY <3>3
  <2> QED
    BY <1>5, <2>1, <2>2, <2>3 DEF Word
<1>6. CASE String
  <2>1. CASE In("between") /\ Open("string", 1)
    <3>1. Inside(1)
      BY <1>0, <2>1 DEF Inside, Moves, In, Open, Modes
    <3> QED
      BY <3>1
  <2>2. CASE In("string") /\ peek # "NUL" /\ advance(IF peek = "\\" THEN 2 ELSE 1) /\ Stay
    <3> DEFINE n == IF peek = "\\" THEN 2 ELSE 1
    <3>1. n \in 0..2 /\ pos + n <= Len(src) + 1
      BY <1>0, <2>2 DEF In
    <3>2. Inside(n)
      BY <2>2, <3>1 DEF Inside, Moves, In, Stay, Modes
    <3> QED
      BY <3>2
  <2>3. ASSUME NEW n \in 0..1, In("string"), advance(n), Return("STR_LIT", from + 1, pos - from - 1)
        PROVE  Ends(n)
    <3>1. /\ n \in 0..2 /\ Moves(n) /\ (from + 1) + (pos - from - 1) - 1 <= Len(src)
          /\ pos - from - 1 \in Int /\ from + 1 \in Nat \ {0}
      BY <1>0, <2>3 DEF Moves, In, Return
    <3> QED
      BY <1>k, <2>3, <3>1, ReturnEnds
  <2> QED
    BY <1>6, <2>1, <2>2, <2>3, StringCases
<1>7. CASE Char
  <2>1. CASE In("between") /\ peek = "'" /\ Open("char", 1)
    <3>1. Inside(1)
      BY <1>0, <2>1 DEF Inside, Moves, In, Open, Modes
    <3> QED
      BY <3>1
  <2>2. CASE In("char") /\ Open("quote", IF peek = "\\" THEN 2 ELSE 1)
    <3> DEFINE n == IF peek = "\\" THEN 2 ELSE 1
    <3>1. n \in 0..2 /\ pos + n <= Len(src) + 1
      BY <1>0, <2>2 DEF In
    <3>2. Inside(n)
      BY <2>2, <3>1 DEF Inside, Moves, In, Open, Modes
    <3> QED
      BY <3>2
  <2>3. CASE /\ In("quote") /\ advance(IF peek = "'" THEN 1 ELSE 0)
             /\ Return("CHAR_LIT", from + 1, pos - from - 1)
    <3> DEFINE n == IF peek = "'" THEN 1 ELSE 0
    <3>1. /\ n \in 0..2 /\ Moves(n) /\ (from + 1) + (pos - from - 1) - 1 <= Len(src)
          /\ pos - from - 1 \in Int /\ from + 1 \in Nat \ {0}
      BY <1>0, <2>3 DEF Moves, In, Return
    <3>2. Ends(n)
      BY <1>k, <2>3, <3>1, ReturnEnds
    <3> QED
      BY <3>2
  <2> QED
    BY <1>7, <2>1, <2>2, <2>3 DEF Char
<1>8. CASE Operator
  <2> DEFINE double == \/ peek_next = "=" /\ peek \in {"=", "!", "<", ">"}
                       \/ peek_next = peek /\ peek \in {"&", "|"}
             type == IF double THEN peek \o peek_next ELSE IF peek \in Singles THEN peek ELSE "UNKNOWN"
             n == IF double THEN 2 ELSE 1
  <2>1. In("between") /\ peek # "NUL" /\ advance(n) /\ Return(type, pos, n)
    BY <1>8, Zenon DEF Operator
  <2>2. type \in TokenTypes
    BY <1>0, <1>k, <2>1 DEF In, Both
  <2>3. n \in 0..2 /\ n \in Int /\ pos + n - 1 <= Len(src)
    BY <1>0, <2>1 DEF In
  <2> HIDE DEF n, type
  <2>4. Moves(n)
    BY <1>0, <2>1, <2>3 DEF Moves, Return, In
  <2>5. Ends(n)
    BY <1>0, <2>1, <2>2, <2>3, <2>4, ReturnEnds
  <2> QED
    BY <2>5
<1> QED
  BY <1>1, <1>2, <1>3, <1>4, <1>5, <1>6, <1>7, <1>8 DEF LexerNext

LEMMA EofTypes == ASSUME ScanTypes, Eof PROVE ScanTypes'
<1>0. pos \in Nat \ {0} /\ pos \in 1..Len(src) /\ from \in 1..pos /\ Len(src) \in Nat
  BY PeekTypes DEF ScanTypes, PlaceOK, Eof, In
<1>1. CASE ~AtEof
  <2>1. Moves(0) /\ Return("EOF", pos, 0) /\ pos + 0 - 1 <= Len(src)
    BY <1>0, <1>1 DEF Eof, In, Moves, Return
  <2>2. "EOF" \in TokenTypes
    BY DEF TokenTypes
  <2>3. Ends(0)
    BY <1>0, <2>1, <2>2, ReturnEnds
  <2> QED
    BY <2>3, InsideOrEnds
<1>2. CASE AtEof
  <2>1. Moves(0) /\ UNCHANGED <<from, begun, tokens, mode>> /\ mode = "between"
    BY <1>0, <1>2 DEF Eof, In, Moves, Stay
  <2>2. /\ MemoryOK' /\ pos' \in Nat /\ pos' <= Len(src') + 1 /\ line \in Nat /\ line' \in Nat /\ line <= line'
        /\ line' = 1 + Cardinality(Newlines(pos)')
    BY <2>1, MovesFacts
  <2>3. pos' = pos /\ src' = src
    BY <1>0, <2>1 DEF Moves, advance
  <2>4. PlaceOK'
    BY <1>0, <2>1, <2>2, <2>3 DEF ScanTypes, PlaceOK, Newlines
  <2> QED
    BY <2>1, <2>2, <2>4, LinesKept DEF ScanTypes
<1> QED
  BY <1>1, <1>2

LEMMA TypesStart == LexerInit => ScanTypes
<1> SUFFICES ASSUME LexerInit PROVE ScanTypes
  OBVIOUS
<1>1. PICK s \in Sources, b \in Beyond : src = read_file(s) \o b
  BY DEF LexerInit
<1>2. s \in Seq(Characters) /\ b \in Seq(Characters) /\ (b # <<>> => b[Len(b)] = "NUL")
  <2>1. s \in Seq(STRING) /\ b \in Seq(STRING) /\ (b # <<>> => b[Len(b)] = "NUL")
    BY LexerAssumption DEF LexerAssumption
  <2>2. STRING \subseteq Characters
    BY DEF Characters
  <2> DEFINE S == STRING
  <2> HIDE DEF S
  <2>3. \A q \in Seq(S) : S \subseteq Characters => q \in Seq(Characters)
    OBVIOUS
  <2> QED
    BY <2>1, <2>2, <2>3 DEF S
<1> DEFINE m == read_file(s)
<1>3. m \in Seq(Characters) /\ Len(m) = Len(s) + 1 /\ m[Len(m)] = "NUL" /\ Len(m) \in Nat \ {0}
  <2>0. "NUL" \in Characters
    BY DEF Characters
  <2>1. m = Append(s, "NUL")
    BY DEF read_file
  <2> HIDE DEF m
  <2>2. m \in Seq(Characters) /\ Len(m) = Len(s) + 1 /\ m[Len(s) + 1] = "NUL" /\ Len(s) \in Nat
    BY <1>2, <2>0, <2>1, AppendProperties
  <2> QED
    BY <2>2
<1>4. src = m \o b
  BY <1>1
<1> HIDE DEF m
<1>5. /\ src \in Seq(Characters) /\ Len(src) = Len(m) + Len(b) /\ Len(b) \in Nat
      /\ \A i \in 1..(Len(m) + Len(b)) : src[i] = IF i <= Len(m) THEN m[i] ELSE b[i - Len(m)]
  <2>1. m \in Seq(Characters) /\ b \in Seq(Characters)
    BY <1>2, <1>3
  <2>2. /\ m \o b \in Seq(Characters) /\ Len(m \o b) = Len(m) + Len(b)
        /\ \A i \in 1..(Len(m) + Len(b)) : (m \o b)[i] = IF i <= Len(m) THEN m[i] ELSE b[i - Len(m)]
    BY <2>1, ConcatProperties
  <2> QED
    BY <1>4, <2>1, <2>2
<1>6. src[Len(src)] = "NUL"
  <2>1. CASE b = <<>>
    BY <1>3, <1>5, <2>1
  <2>2. CASE b # <<>>
    <3>1. Len(b) # 0 /\ (Len(m) + Len(b)) - Len(m) = Len(b) /\ ~(Len(m) + Len(b) <= Len(m))
      BY <1>2, <1>3, <1>5, <2>2
    <3>2. src[Len(src)] = b[Len(b)]
      BY <1>3, <1>5, <3>1
    <3> QED
      BY <1>2, <2>2, <3>2
  <2> QED
    BY <2>1, <2>2
<1>7. MemoryOK
  BY <1>3, <1>5, <1>6 DEF MemoryOK
<1>8. pos = 1 /\ line = 1 /\ mode = "between" /\ from = 1 /\ begun = 1 /\ tokens = <<>>
  BY DEF LexerInit
<1>9. Newlines(1) = {} /\ Cardinality({}) = 0
  BY FS_EmptySet DEF Newlines
<1>10. PlaceOK
  <2>1. Len(src) \in Nat
    BY <1>5
  <2>2. pos \in Nat /\ pos <= Len(src) + 1 /\ from \in 1..pos /\ from = pos
    BY <1>8, <2>1
  <2>3. Newlines(pos) = {} /\ Newlines(from) = {}
    BY <1>8, <1>9
  <2> QED
    BY <1>8, <1>9, <2>2, <2>3 DEF PlaceOK
<1>11. TokensOK
  <2>1. tokens \in Seq([type : TokenTypes, lexeme : Seq(Characters), line : Nat]) /\ DOMAIN tokens = {}
    BY <1>8
  <2> QED
    BY <2>1 DEF TokensOK
<1> QED
  BY <1>7, <1>8, <1>10, <1>11 DEF ScanTypes, Modes

LEMMA TypesStep == ScanTypes /\ [LexerNext]_vars => ScanTypes'
<1> SUFFICES ASSUME ScanTypes, [LexerNext]_vars PROVE ScanTypes'
  OBVIOUS
<1>1. CASE Eof
  BY <1>1, EofTypes
<1>2. CASE Fault
  BY <1>2 DEF Fault, ScanTypes, MemoryOK, PlaceOK, TokensOK, Newlines, Modes
<1>3. CASE Stopped \/ UNCHANGED vars
  BY <1>3 DEF Stopped, vars, ScanTypes, MemoryOK, PlaceOK, TokensOK, Newlines
<1>4. CASE LexerNext /\ ~Stopped /\ ~Fault /\ ~Eof
  BY <1>4, TypeSteps, InsideOrEnds
<1> QED
  BY <1>1, <1>2, <1>3, <1>4

LEMMA TypesHold == ScanTypes => LexerTypeOK
<1> SUFFICES ASSUME ScanTypes PROVE LexerTypeOK
  OBVIOUS
<1>1. from \in Nat \ {0} /\ pos \in Nat /\ from <= pos
  BY DEF ScanTypes, PlaceOK
<1>2. /\ Cardinality(Newlines(from)) \in Nat /\ Cardinality(Newlines(pos)) \in Nat
      /\ Cardinality(Newlines(from)) <= Cardinality(Newlines(pos))
  BY <1>1, NewlinesFacts
<1>3. begun \in 1..line
  BY <1>2 DEF ScanTypes, PlaceOK
<1> QED
  BY <1>3 DEF ScanTypes, PlaceOK, TokensOK, LexerTypeOK, Modes

(* Whatever the text and whatever memory holds behind it: next_token() reads at most one character *)
(* past what is mapped, each lexeme and its NUL fit the buffer of Token, and a token's line is one *)
(* of those begun.                                                                                 *)
THEOREM TheLexerStaysInItsBuffers == LexerSpec => []LexerTypeOK
<1>1. LexerSpec => []ScanTypes
  BY TypesStart, TypesStep, PTL DEF LexerSpec
<1> QED
  BY <1>1, TypesHold, PTL

-----------------------------------------------------------------------------
(* The operators of TokenSource, over the text in memory. *)

End == Len(Text)

TextOK ==
  /\ Text \in Seq(Characters) /\ End \in Nat /\ End + 1 <= Len(src) /\ src[End + 1] = "NUL"
  /\ \A k \in 1..End : Text[k] = src[k] /\ src[k] # "NUL"

LEMMA TextFacts == MemoryOK => TextOK
<1> SUFFICES ASSUME MemoryOK PROVE TextOK
  OBVIOUS
<1> DEFINE nul == {n \in DOMAIN src : src[n] = "NUL"}
           First(n) == src[n] = "NUL" /\ \A i \in 1..(n - 1) : src[i] # "NUL"
           n == CHOOSE n \in DOMAIN src : First(n)
<1>1. src \in Seq(Characters) /\ Len(src) \in Nat \ {0} /\ DOMAIN src = 1..Len(src) /\ src[Len(src)] = "NUL"
  BY DEF MemoryOK
<1>2. nul \in SUBSET Nat /\ Len(src) \in nul
  BY <1>1
<1>3. PICK m \in nul : \A k \in nul : m <= k
  <2> HIDE DEF nul
  <2> QED
    BY <1>2, Minimum
<1>4. m \in DOMAIN src /\ First(m)
  <2>1. m \in 1..Len(src) /\ src[m] = "NUL"
    BY <1>1
  <2>2. \A i \in 1..(m - 1) : i \in DOMAIN src /\ ~(m <= i)
    BY <1>1, <2>1
  <2> QED
    BY <1>1, <1>3, <2>1, <2>2
<1>5. n \in DOMAIN src /\ First(n)
  <2> HIDE DEF First
  <2> QED
    BY <1>4, Zenon
<1>6. Text = SubSeq(src, 1, n - 1)
  BY DEF Text
<1> HIDE DEF n
<1>7. n \in 1..Len(src) /\ n - 1 \in Nat /\ src[n] = "NUL" /\ \A i \in 1..(n - 1) : src[i] # "NUL" /\ src[i] \in Characters
  BY <1>1, <1>5
<1>8. /\ SubSeq(src, 1, n - 1) \in Seq(Characters) /\ Len(SubSeq(src, 1, n - 1)) = n - 1
      /\ \A i \in 1..(n - 1) : SubSeq(src, 1, n - 1)[i] = src[i]
  BY <1>1, <1>7
<1>9. Text \in Seq(Characters) /\ End = n - 1 /\ \A i \in 1..(n - 1) : Text[i] = src[i]
  BY <1>6, <1>8 DEF End
<1> QED
  BY <1>1, <1>7, <1>9 DEF TextOK

LEMMA MinIs ==
  ASSUME NEW S \in SUBSET Int, NEW m \in S, \A k \in S : m <= k
  PROVE  Abstract!Min(S) = m
<1> DEFINE Low(k) == \A l \in S : k <= l
<1>1. Abstract!Min(S) = CHOOSE k \in S : Low(k)
  BY DEF Abstract!Min
<1>2. \A k \in S : Low(k) => k = m
  OBVIOUS
<1>3. Low(m)
  OBVIOUS
<1> HIDE DEF Low
<1> QED
  BY <1>1, <1>2, <1>3, Zenon

LEMMA MinOfTwo == \A a, b \in Int : Abstract!Min({a, b}) = IF a <= b THEN a ELSE b
<1> SUFFICES ASSUME NEW a \in Int, NEW b \in Int PROVE Abstract!Min({a, b}) = IF a <= b THEN a ELSE b
  OBVIOUS
<1> DEFINE S == {a, b}
           m == IF a <= b THEN a ELSE b
<1>1. S \in SUBSET Int /\ m \in S /\ \A k \in S : m <= k
  OBVIOUS
<1> HIDE DEF S, m
<1>2. Abstract!Min(S) = m
  BY <1>1, MinIs
<1> QED
  BY <1>2 DEF S, m

\* The position of the first of the characters of a kind.
LEMMA LeastIs ==
  ASSUME NEW S \in SUBSET Int, NEW d, NEW m
  PROVE  /\ S = {} => Abstract!Least(S, d) = d
         /\ m \in S /\ (\A k \in S : m <= k) => Abstract!Least(S, d) = m
  BY MinIs DEF Abstract!Least

LEMMA FromFacts ==
  ASSUME TextOK, NEW i \in Nat \ {0}, NEW n \in Nat
  PROVE  LET hi == IF i + n - 1 <= End THEN i + n - 1 ELSE End
         IN  /\ Abstract!From(i, n) = SubSeq(Text, i, hi) /\ Abstract!From(i, n) \in Seq(Characters)
             /\ Len(Abstract!From(i, n)) = IF i <= hi THEN hi - i + 1 ELSE 0
             /\ \A k \in 1..(hi - i + 1) : Abstract!From(i, n)[k] = Text[i + k - 1]
<1> DEFINE hi == IF i + n - 1 <= End THEN i + n - 1 ELSE End
<1>1. Text \in Seq(Characters) /\ End \in Nat /\ End = Len(Text)
  BY DEF TextOK, End
<1>2. Abstract!Min({i + n - 1, End}) = hi
  <2> DEFINE a == i + n - 1
  <2>1. a \in Int /\ End \in Int
    BY <1>1
  <2> HIDE DEF a
  <2>2. Abstract!Min({a, End}) = IF a <= End THEN a ELSE End
    BY <2>1, MinOfTwo
  <2> QED
    BY <2>2 DEF a
<1>3. Abstract!From(i, n) = SubSeq(Text, i, hi)
  BY <1>2 DEF Abstract!From, Abstract!End, End
<1>4. hi \in Int /\ hi <= End
  BY <1>1
<1> HIDE DEF hi
<1>5. \A k \in i..hi : Text[k] \in Characters
  BY <1>1, <1>4
<1>6. /\ SubSeq(Text, i, hi) \in Seq(Characters)
      /\ Len(SubSeq(Text, i, hi)) = IF i <= hi THEN hi - i + 1 ELSE 0
      /\ \A k \in 1..(hi - i + 1) : SubSeq(Text, i, hi)[k] = Text[i + k - 1]
  BY <1>4, <1>5, SubSeqProperties
<1> QED
  BY <1>3, <1>6 DEF hi

LEMMA StartsFacts ==
  ASSUME TextOK, NEW i \in Nat \ {0}, NEW c, NEW d
  PROVE  /\ Abstract!StartsWith(i, <<c>>) <=> i <= End /\ Text[i] = c
         /\ Abstract!From(i, 2) = <<c, d>> <=> i + 1 <= End /\ Text[i] = c /\ Text[i + 1] = d
         /\ Abstract!StartsWith(i, <<c, d>>) <=> i + 1 <= End /\ Text[i] = c /\ Text[i + 1] = d
<1>0. End \in Nat
  BY DEF TextOK
<1> DEFINE f == Abstract!From(i, 1)
           g == Abstract!From(i, 2)
<1>1. /\ f \in Seq(Characters) /\ Len(f) = (IF i <= End THEN 1 ELSE 0)
      /\ i <= End => f[1] = Text[i]
  <2> DEFINE hi == IF i + 1 - 1 <= End THEN i + 1 - 1 ELSE End
  <2>1. /\ f \in Seq(Characters) /\ Len(f) = IF i <= hi THEN hi - i + 1 ELSE 0
        /\ \A k \in 1..(hi - i + 1) : f[k] = Text[i + k - 1]
    BY FromFacts
  <2> HIDE DEF f
  <2> QED
    BY <1>0, <2>1
<1>2. /\ g \in Seq(Characters) /\ Len(g) = (IF i + 1 <= End THEN 2 ELSE IF i <= End THEN 1 ELSE 0)
      /\ i + 1 <= End => g[1] = Text[i] /\ g[2] = Text[i + 1]
  <2> DEFINE hi == IF i + 2 - 1 <= End THEN i + 2 - 1 ELSE End
  <2>1. /\ g \in Seq(Characters) /\ Len(g) = IF i <= hi THEN hi - i + 1 ELSE 0
        /\ \A k \in 1..(hi - i + 1) : g[k] = Text[i + k - 1]
    BY FromFacts
  <2> HIDE DEF g
  <2>2. hi \in Int /\ (i + 1 <= End => hi = i + 1) /\ (i + 1 > End => hi = End)
    BY <1>0
  <2>3. Len(g) = IF i + 1 <= End THEN 2 ELSE IF i <= End THEN 1 ELSE 0
    BY <1>0, <2>1, <2>2
  <2>4. i + 1 <= End => 1 \in 1..(hi - i + 1) /\ 2 \in 1..(hi - i + 1) /\ i + 1 - 1 = i /\ i + 2 - 1 = i + 1
    BY <1>0, <2>2
  <2> HIDE DEF hi
  <2> QED
    BY <2>1, <2>3, <2>4
<1> HIDE DEF f, g
<1>3. f = <<c>> <=> i <= End /\ Text[i] = c
  BY <1>0, <1>1
<1>4. g = <<c, d>> <=> i + 1 <= End /\ Text[i] = c /\ Text[i + 1] = d
  BY <1>0, <1>2
<1>5. Abstract!StartsWith(i, <<c>>) <=> f = <<c>>
  <2>1. Len(<<c>>) = 1
    OBVIOUS
  <2> QED
    BY <2>1 DEF f, Abstract!StartsWith
<1>6. Abstract!StartsWith(i, <<c, d>>) <=> g = <<c, d>>
  <2>1. Len(<<c, d>>) = 2
    OBVIOUS
  <2> QED
    BY <2>1 DEF g, Abstract!StartsWith
<1> QED
  BY <1>3, <1>4, <1>5, <1>6 DEF g

LEMMA Starts ==
  TextOK => \A i \in Nat \ {0} :
    /\ Abstract!StartsWith(i, <<"/", "/">>) <=> i + 1 <= End /\ Text[i] = "/" /\ Text[i + 1] = "/"
    /\ Abstract!StartsWith(i, <<"/", "*">>) <=> i + 1 <= End /\ Text[i] = "/" /\ Text[i + 1] = "*"
    /\ Abstract!StartsWith(i, <<"*", "/">>) <=> i + 1 <= End /\ Text[i] = "*" /\ Text[i + 1] = "/"
    /\ Abstract!StartsWith(i, <<"\\">>) <=> i <= End /\ Text[i] = "\\"
    /\ Abstract!StartsWith(i, <<"'">>) <=> i <= End /\ Text[i] = "'"
  BY Zenon, StartsFacts

\* Within the text, the lexeme is the text's, cut.
LEMMA LexemeIs ==
  ASSUME MemoryOK, TextOK, NEW lo \in Nat \ {0}, NEW n \in Nat, lo + n - 1 <= End
  PROVE  lexeme(lo, n) = Abstract!Cut(Abstract!From(lo, n)) /\ Len(Abstract!From(lo, n)) = n
<1> DEFINE copy == IF n < MAX_LEXEME - 1 THEN n ELSE MAX_LEXEME - 1
           nul == {i \in lo..(lo + copy - 1) : src[i] = "NUL"}
           f == Abstract!From(lo, n)
<1>0. MAX_LEXEME \in Nat \ {0} /\ End \in Nat /\ End + 1 <= Len(src) /\ Len(src) \in Nat
  BY LexerAssumption DEF LexerAssumption, TextOK, MemoryOK
<1>1. copy \in Nat /\ copy <= n /\ lo + copy - 1 <= End /\ lo + copy - 1 \in Int
  BY <1>0
<1>2. nul = {}
  BY <1>0, <1>1 DEF TextOK
<1>3. lexeme(lo, n) = SubSeq(src, lo, lo + copy - 1)
  BY <1>2 DEF lexeme
<1>4. f \in Seq(Characters) /\ Len(f) = n /\ \A k \in 1..n : f[k] = Text[lo + k - 1]
  <2> DEFINE hi == IF lo + n - 1 <= End THEN lo + n - 1 ELSE End
  <2>1. /\ f \in Seq(Characters) /\ Len(f) = IF lo <= hi THEN hi - lo + 1 ELSE 0
        /\ \A k \in 1..(hi - lo + 1) : f[k] = Text[lo + k - 1]
    BY FromFacts
  <2>2. hi - lo + 1 = n /\ (lo <= hi <=> n # 0)
    BY <1>0
  <2> HIDE DEF f, hi
  <2> QED
    BY <2>1, <2>2
<1>5. Abstract!Cut(f) = SubSeq(f, 1, copy)
  <2> DEFINE b == MAX_LEXEME - 1
  <2>1. b \in Int /\ n \in Int
    BY <1>0
  <2> HIDE DEF b
  <2>2. Abstract!Min({n, b}) = IF n <= b THEN n ELSE b
    BY <2>1, MinOfTwo
  <2>3. Abstract!Min({n, MAX_LEXEME - 1}) = copy
    BY <1>0, <2>2 DEF b
  <2> HIDE DEF f, copy
  <2> QED
    BY <1>4, <2>3 DEF Abstract!Cut
<1> HIDE DEF f, copy, nul
<1>6. /\ SubSeq(src, lo, lo + copy - 1) \in Seq(Characters)
      /\ Len(SubSeq(src, lo, lo + copy - 1)) = copy
      /\ \A k \in 1..copy : SubSeq(src, lo, lo + copy - 1)[k] = src[lo + k - 1]
  <2> DEFINE hi == lo + copy - 1
  <2>1. hi \in Int /\ hi - lo + 1 = copy /\ (IF lo <= hi THEN hi - lo + 1 ELSE 0) = copy
    BY <1>1
  <2>2. \A k \in lo..hi : src[k] \in Characters
    BY <1>0, <1>1 DEF MemoryOK
  <2> HIDE DEF hi
  <2>3. /\ SubSeq(src, lo, hi) \in Seq(Characters)
        /\ Len(SubSeq(src, lo, hi)) = IF lo <= hi THEN hi - lo + 1 ELSE 0
        /\ \A k \in 1..(hi - lo + 1) : SubSeq(src, lo, hi)[k] = src[lo + k - 1]
    BY <2>1, <2>2, SubSeqProperties
  <2> QED
    BY <2>1, <2>3 DEF hi
<1>7. /\ SubSeq(f, 1, copy) \in Seq(Characters) /\ Len(SubSeq(f, 1, copy)) = copy
      /\ \A k \in 1..copy : SubSeq(f, 1, copy)[k] = f[k]
  <2>1. \A k \in 1..copy : f[k] \in Characters
    BY <1>1, <1>4
  <2>2. /\ SubSeq(f, 1, copy) \in Seq(Characters)
        /\ Len(SubSeq(f, 1, copy)) = IF 1 <= copy THEN copy - 1 + 1 ELSE 0
        /\ \A k \in 1..(copy - 1 + 1) : SubSeq(f, 1, copy)[k] = f[1 + k - 1]
    BY <1>1, <2>1, SubSeqProperties
  <2> QED
    BY <1>1, <2>2
<1>8. \A k \in 1..copy : f[k] = src[lo + k - 1]
  <2>1. \A k \in 1..copy : k \in 1..n /\ lo + k - 1 \in 1..End
    BY <1>0, <1>1
  <2> QED
    BY <1>4, <2>1 DEF TextOK
<1> DEFINE u == SubSeq(src, lo, lo + copy - 1)
           v == SubSeq(f, 1, copy)
<1>9. u \in Seq(Characters) /\ v \in Seq(Characters) /\ Len(u) = Len(v) /\ \A k \in 1..Len(u) : u[k] = v[k]
  BY <1>6, <1>7, <1>8
<1> HIDE DEF u, v
<1>10. u = v
  BY <1>9, SeqEqual
<1> QED
  BY <1>3, <1>4, <1>5, <1>10 DEF u, v, f

LEMMA MaxIs ==
  ASSUME NEW S \in SUBSET Int, NEW m \in S, \A k \in S : m >= k
  PROVE  Abstract!Max(S) = m
<1> DEFINE High(k) == \A l \in S : k >= l
<1>1. Abstract!Max(S) = CHOOSE k \in S : High(k)
  BY DEF Abstract!Max
<1>2. \A k \in S : High(k) => k = m
  OBVIOUS
<1>3. High(m)
  OBVIOUS
<1> HIDE DEF High
<1> QED
  BY <1>1, <1>2, <1>3, Zenon

LEMMA Maximum ==
  ASSUME NEW i \in Nat, NEW j \in Nat, NEW T \in SUBSET (i..j), i \in T
  PROVE  \E k \in T : \A l \in T : k >= l
<1> DEFINE U == {j - k : k \in T}
<1>1. U \in SUBSET Nat /\ j - i \in U
  OBVIOUS
<1>2. PICK u \in U : \A v \in U : u <= v
  <2> HIDE DEF U
  <2> QED
    BY <1>1, Minimum
<1>3. PICK k \in T : u = j - k
  OBVIOUS
<1>4. \A l \in T : j - k <= j - l
  BY <1>2, <1>3
<1>5. \A l \in T : k >= l
  BY <1>4
<1> QED
  BY <1>5

\* A character is escaped if a backslash that is not itself escaped comes before it.
LEMMA EscapedFacts ==
  ASSUME TextOK, NEW i \in 1..End, Text[i] # "\\"
  PROVE  /\ ~Abstract!Escaped(i, i + 1)
         /\ \A j \in (i + 1)..End : Abstract!Escaped(i, j + 1) <=> Text[j] = "\\" /\ ~Abstract!Escaped(i, j)
<1> DEFINE plain(j) == {k \in i..(j - 1) : Text[k] # "\\"}
           last(j) == Abstract!Max(plain(j))
<1>0. End \in Nat /\ \A j : Abstract!Escaped(i, j) <=> (j - 1 - last(j)) % 2 = 1
  BY DEF TextOK, Abstract!Escaped
<1>1. ~Abstract!Escaped(i, i + 1)
  <2>1. plain(i + 1) = {i}
    BY <1>0
  <2>2. last(i + 1) = i
    <3>1. {i} \in SUBSET Int /\ i \in {i} /\ \A k \in {i} : i >= k
      BY <1>0
    <3> DEFINE S == {i}
    <3> HIDE DEF S
    <3>2. S \in SUBSET Int /\ i \in S /\ (\A k \in S : i >= k) => Abstract!Max(S) = i
      BY MaxIs
    <3> QED
      BY <2>1, <3>1, <3>2 DEF S
  <2> QED
    <3> HIDE DEF last, plain
    <3>1. (i + 1 - 1 - i) % 2 = 0
      BY <1>0
    <3> QED
      BY <1>0, <2>2, <3>1
<1>2. ASSUME NEW j \in (i + 1)..End
      PROVE  Abstract!Escaped(i, j + 1) <=> Text[j] = "\\" /\ ~Abstract!Escaped(i, j)
  <2>0. i \in Nat /\ j \in Nat /\ i < j
    BY <1>0
  <2>1. CASE Text[j] = "\\"
    <3>1. plain(j + 1) = plain(j)
      BY <2>0, <2>1
    <3>2. PICK k \in plain(j) : \A l \in plain(j) : k >= l
      <4>1. plain(j) \in SUBSET (i..(j - 1)) /\ i \in plain(j)
        BY <2>0
      <4> HIDE DEF plain
      <4>2. j - 1 \in Nat
        BY <2>0
      <4> QED
        BY <2>0, <4>1, <4>2, Maximum
    <3>3. k \in i..(j - 1)
      OBVIOUS
    <3>4. last(j) = k /\ last(j + 1) = k
      <4>1. plain(j) \in SUBSET Int
        BY <2>0
      <4> HIDE DEF plain
      <4> QED
        BY <3>1, <3>2, <4>1, MaxIs
    <3> HIDE DEF last, plain
    <3>5. ((j + 1) - 1 - k) % 2 = 1 <=> (j - 1 - k) % 2 # 1
      BY <2>0, <3>3
    <3> QED
      BY <1>0, <2>1, <3>4, <3>5
  <2>2. CASE Text[j] # "\\"
    <3>1. last(j + 1) = j
      <4>1. plain(j + 1) \in SUBSET Int /\ j \in plain(j + 1) /\ \A k \in plain(j + 1) : j >= k
        BY <2>0, <2>2
      <4> HIDE DEF plain
      <4> QED
        BY <4>1, MaxIs
    <3> HIDE DEF last, plain
    <3>2. (j + 1 - 1 - j) % 2 = 0
      BY <2>0
    <3> QED
      BY <1>0, <2>2, <3>1, <3>2
  <2> QED
    BY <2>1, <2>2
<1> QED
  BY <1>1, <1>2

\* What next_token() sees, in the text and at its end.
LEMMA PeekText ==
  ASSUME TextOK, pos \in 1..(End + 1)
  PROVE  /\ pos <= End => peek = Text[pos] /\ peek # "NUL"
                          /\ peek_next = IF pos < End THEN Text[pos + 1] ELSE "NUL"
         /\ pos = End + 1 => peek = "NUL" /\ peek_next = "NUL"
         /\ pos <= Len(src)
<1>1. End \in Nat /\ End + 1 <= Len(src) /\ src[End + 1] = "NUL"
  BY DEF TextOK
<1>2. pos <= End => Text[pos] = src[pos] /\ src[pos] # "NUL"
  BY <1>1 DEF TextOK
<1>3. pos < End => Text[pos + 1] = src[pos + 1]
  BY <1>1 DEF TextOK
<1>4. pos \in Int
  BY <1>1
<1> QED
  BY <1>1, <1>2, <1>3, <1>4 DEF peek, peek_next, TextOK

\* The line of an item that begins in the text or at its end.
LEMMA LineIs ==
  ASSUME ScanTypes, TextOK, from <= End + 1, NEW type, NEW k, NEW m
  PROVE  Abstract!Token(type, from, k, m)
           = [type |-> type, lexeme |-> Abstract!Cut(Abstract!From(k, m)), line |-> begun]
<1>1. End \in Nat /\ from \in Nat \ {0}
  BY DEF TextOK, ScanTypes, PlaceOK
<1>2. {j \in 1..(from - 1) : Text[j] = "NL"} = Newlines(from)
  BY <1>1 DEF TextOK, Newlines
<1>c. \A S : Abstract!Cardinality(S) = Cardinality(S)
  BY DEF Abstract!Cardinality, Cardinality
<1>3. begun = 1 + Cardinality({j \in 1..(from - 1) : Text[j] = "NL"})
  BY <1>2 DEF ScanTypes, PlaceOK
<1> QED
  BY <1>3, <1>c DEF Abstract!Token

-----------------------------------------------------------------------------
(* The refinement. *)

\* What the loop over an item that begins at f, in the text, has passed before it reads p.
Shape(m, f, p) ==
  /\ m = "//" =>
       /\ p \in f..(End + 1) /\ Abstract!StartsWith(f, <<"/", "/">>)
       /\ \A k \in f..(p - 1) : Text[k] # "NL"
  /\ m = "/*" =>
       /\ p \in (f + 2)..(End + 1) /\ Abstract!StartsWith(f, <<"/", "*">>)
       /\ \A k \in (f + 2)..(p - 1) : ~Abstract!StartsWith(k, <<"*", "/">>)
  /\ m = "number" =>
       /\ p \in f..(End + 1) /\ Text[f] \in Abstract!Digits
       /\ \A k \in f..(p - 1) : Text[k] \in Abstract!Digits
  /\ m = "word" =>
       /\ p \in f..(End + 1) /\ Text[f] \in Abstract!Letters
       /\ \A k \in f..(p - 1) : Text[k] \in Abstract!Letters \cup Abstract!Digits
  /\ m = "string" =>
       /\ Text[f] = Quote
       /\ \/ /\ p \in (f + 1)..(End + 1) /\ ~Abstract!Escaped(f, p)
             /\ \A k \in (f + 1)..(p - 1) : Text[k] = Quote => Abstract!Escaped(f, k)
          \/ p > End + 1 /\ Abstract!Overruns(f)
  /\ m = "char" => Text[f] = "'" /\ p = f + 1
  /\ m = "quote" => Text[f] = "'" /\ p = f + 1 + Abstract!CharBody(f)

ScanInv ==
  /\ from <= End => Shape(mode, from, pos)
  /\ from = End + 1 => mode \in {"between", "crashed"}

AbsStep == [Abstract!Next]_<<Text, from, tokens>>

LEMMA TextKept == src' = src => Text' = Text /\ End' = End
  BY DEF Text, End

LEMMA ShapeKept == src' = src => \A m, f, p : Shape(m, f, p) => Shape(m, f, p)'
<1> SUFFICES ASSUME src' = src, NEW m, NEW f, NEW p, Shape(m, f, p) PROVE Shape(m, f, p)'
  OBVIOUS
<1>1. Text' = Text /\ End' = End
  BY TextKept
<1>2. \A i, n : Abstract!From(i, n)' = Abstract!From(i, n)
  BY <1>1 DEF Abstract!From, Abstract!End
<1>3. \A i, s : Abstract!StartsWith(i, s)' <=> Abstract!StartsWith(i, s)
  BY <1>2 DEF Abstract!StartsWith
<1>4. \A i, j : Abstract!Escaped(i, j)' <=> Abstract!Escaped(i, j)
  BY <1>1 DEF Abstract!Escaped
<1>5. \A i : Abstract!CharBody(i)' = Abstract!CharBody(i)
  BY <1>3 DEF Abstract!CharBody
<1>6. \A i : Abstract!StringEnd(i)' = Abstract!StringEnd(i)
  <2> SUFFICES ASSUME NEW i PROVE Abstract!StringEnd(i)' = Abstract!StringEnd(i)
    OBVIOUS
  <2> DEFINE closing == {j \in (i + 1)..End : Text[j] = Quote /\ ~Abstract!Escaped(i, j)}
  <2>1. closing' = closing
    BY <1>1, <1>4
  <2>2. Abstract!StringEnd(i) = Abstract!Least(closing, End + 1)
    BY Zenon DEF Abstract!StringEnd, Quote, Abstract!End, End
  <2>3. Abstract!StringEnd(i)' = Abstract!Least(closing', End' + 1)
    BY Zenon DEF Abstract!StringEnd, Quote, Abstract!End, End
  <2> HIDE DEF closing
  <2> QED
    BY <1>1, <2>1, <2>2, <2>3
<1>7. \A i : Abstract!Overruns(i)' <=> Abstract!Overruns(i)
  <2> SUFFICES ASSUME NEW i PROVE Abstract!Overruns(i)' <=> Abstract!Overruns(i)
    OBVIOUS
  <2>1. Abstract!Overruns(i) <=> \/ Text[i] = "'" /\ i + Abstract!CharBody(i) > End
                                 \/ Text[i] = Quote /\ Abstract!StringEnd(i) > End /\ Abstract!Escaped(i, End + 1)
    BY Zenon DEF Abstract!Overruns, Quote, Abstract!End, End
  <2> QED
    BY Zenon, <1>1, <1>4, <1>5, <1>6 DEF Abstract!Overruns, Quote, Abstract!End, End
<1> QED
  BY <1>1, <1>3, <1>4, <1>5, <1>7 DEF Shape

LEMMA EndsInv == mode' = "between" => ScanInv'
  BY DEF ScanInv, Shape

LEMMA InsideStep ==
  ASSUME TextOK, from \in Nat, from <= End, UNCHANGED <<src, from, tokens>>, Shape(mode', from', pos')
  PROVE  ScanInv' /\ AbsStep
<1>1. Text' = Text /\ End' = End /\ \A m, f, p : Shape(m, f, p) => Shape(m, f, p)'
  BY TextKept, ShapeKept
<1>2. Shape(mode, from, pos)'
  BY <1>1
<1>3. from' # End' + 1
  BY <1>1 DEF TextOK
<1> QED
  BY <1>1, <1>2, <1>3 DEF ScanInv, AbsStep

\* next_token() returns inside the text.
LEMMA Produced ==
  ASSUME ScanTypes, TextOK, from <= End + 1, NEW type, NEW lo \in Nat \ {0}, NEW len \in Nat,
         lo + len - 1 <= End, Return(type, lo, len)
  PROVE  /\ tokens' = Append(tokens, Abstract!Token(type, from, lo, len))
         /\ from' = pos' /\ mode' = "between" /\ src' = src
<1>1. lexeme(lo, len) = Abstract!Cut(Abstract!From(lo, len))
  BY LexemeIs DEF ScanTypes
<1> QED
  BY <1>1, LineIs DEF Return

\* The steps of TokenSource from an item in the text.
LEMMA SkipStep ==
  ASSUME from <= End, src' = src, tokens' = tokens,
         \/ Text[from] \in Abstract!Spaces /\ from' = from + 1
         \/ Abstract!StartsWith(from, <<"/", "/">>) /\ from' = Abstract!LineEnd(from) + 1
         \/ Abstract!StartsWith(from, <<"/", "*">>) /\ from' = Abstract!BlockEnd(from) + 1
  PROVE  AbsStep
<1>1. Abstract!Skip
  BY DEF Abstract!Skip
<1> QED
  BY <1>1, TextKept DEF AbsStep, Abstract!Next, Abstract!End, End

LEMMA ProduceStep ==
  ASSUME from <= End, src' = src,
         Abstract!Number \/ Abstract!Word \/ Abstract!String \/ Abstract!Char \/ Abstract!Operator
  PROVE  AbsStep
  BY TextKept DEF AbsStep, Abstract!Next, Abstract!End, End

\* The scan has left the text.
LEMMA LostStep ==
  ASSUME End \in Nat, from \in Nat, pos' \in Nat, from' = pos', pos' > End + 1, src' = src, mode' = "between",
         from > End + 1 \/ (from <= End /\ Abstract!Overruns(from))
  PROVE  ScanInv' /\ AbsStep
<1>1. Text' = Text /\ End' = End
  BY TextKept
<1>2. Abstract!Lost
  BY DEF Abstract!Lost, Abstract!End, End
<1>3. AbsStep
  BY <1>1, <1>2 DEF AbsStep, Abstract!Next
<1> QED
  BY <1>3, EndsInv

LEMMA SpaceStep ==
  ASSUME ScanTypes, TextOK, ScanInv, from <= End, Space
  PROVE  ScanInv' /\ AbsStep
<1>0. from \in 1..End /\ End \in Nat /\ (mode = "between" => pos = from)
  BY DEF ScanTypes, PlaceOK, TextOK
<1>1. /\ mode = "between" /\ pos = from /\ peek \in {" ", "NL"}
      /\ pos' = pos + 1 /\ from' = pos' /\ mode' = "between" /\ tokens' = tokens /\ src' = src
  BY <1>0 DEF Space, In, isspace, advance, Skipped
<1>2. Text[from] \in Abstract!Spaces
  <2>0. pos = from
    BY <1>1
  <2>1. pos \in 1..(End + 1) /\ pos <= End
    BY <1>0, <2>0
  <2>2. peek = Text[pos]
    BY <2>1, PeekText
  <2> QED
    BY <1>1, <2>2 DEF Abstract!Spaces
<1> QED
  BY <1>0, <1>1, <1>2, SkipStep, EndsInv

LEMMA LineCommentStep ==
  ASSUME ScanTypes, TextOK, ScanInv, from <= End, LineComment
  PROVE  ScanInv' /\ AbsStep
<1>0. from \in 1..End /\ End \in Nat /\ pos \in Nat /\ Shape(mode, from, pos)
  BY DEF ScanTypes, PlaceOK, TextOK, ScanInv
<1>1. CASE In("between") /\ peek = "/" /\ peek_next = "/" /\ Open("//", 0)
  <2>1. mode = "between" /\ pos = from /\ mode' = "//" /\ pos' = pos /\ UNCHANGED <<src, from, tokens>>
    BY <1>0, <1>1 DEF In, Open, advance, ScanTypes, PlaceOK
  <2>2. from + 1 <= End /\ Text[from] = "/" /\ Text[from + 1] = "/"
    BY <1>0, <1>1, <2>1, PeekText
  <2>3. Abstract!StartsWith(from, <<"/", "/">>)
    BY <1>0, <2>2, Starts
  <2>4. Shape(mode', from', pos')
    BY <1>0, <2>1, <2>3 DEF Shape
  <2> QED
    BY <1>0, <2>1, <2>4, InsideStep
<1>s. mode = "//" =>
        /\ pos \in from..(End + 1) /\ Abstract!StartsWith(from, <<"/", "/">>)
        /\ \A k \in from..(pos - 1) : Text[k] # "NL"
  BY <1>0 DEF Shape
<1>2. CASE In("//") /\ peek \notin {"NL", "NUL"} /\ advance(1) /\ Stay
  <2>1. mode = "//" /\ mode' = "//" /\ pos' = pos + 1 /\ UNCHANGED <<src, from, tokens>>
    BY <1>2 DEF In, Stay, advance
  <2>2. pos <= End /\ Text[pos] # "NL"
    BY <1>0, <1>s, <1>2, <2>1, PeekText
  <2>3. Shape(mode', from', pos')
    BY <1>0, <1>s, <2>1, <2>2 DEF Shape
  <2> QED
    BY <1>0, <2>1, <2>3, InsideStep
<1>3. CASE In("//") /\ peek \in {"NL", "NUL"} /\ advance(0) /\ Skipped
  <2>1. /\ mode = "//" /\ mode' = "between" /\ pos' = pos /\ from' = pos' /\ src' = src /\ tokens' = tokens
        /\ pos \in from..(End + 1)
    BY <1>0, <1>s, <1>3 DEF In, Skipped, advance
  <2> DEFINE ends == {j \in from..End : Text[j] = "NL"}
  <2>2. Abstract!LineEnd(from) = Abstract!Least(ends, End + 1) - 1
    BY DEF Abstract!LineEnd, Abstract!End, End
  <2>3. ends \in SUBSET Int
    BY <1>0
  <2>4. (pos \in ends /\ \A k \in ends : pos <= k) \/ (ends = {} /\ pos = End + 1)
    BY <1>0, <1>s, <1>3, <2>1, PeekText
  <2> HIDE DEF ends
  <2>5. Abstract!Least(ends, End + 1) = pos
    BY <2>3, <2>4, LeastIs
  <2>6. from' = Abstract!LineEnd(from) + 1
    BY <1>0, <2>1, <2>2, <2>5
  <2> QED
    BY <1>s, <2>1, <2>6, SkipStep, EndsInv
<1> QED
  BY <1>1, <1>2, <1>3 DEF LineComment

LEMMA BlockCommentStep ==
  ASSUME ScanTypes, TextOK, ScanInv, from <= End, BlockComment
  PROVE  ScanInv' /\ AbsStep
<1>0. from \in 1..End /\ End \in Nat /\ pos \in Nat /\ Shape(mode, from, pos)
  BY DEF ScanTypes, PlaceOK, TextOK, ScanInv
<1>1. CASE In("between") /\ peek = "/" /\ peek_next = "*" /\ OpenBlock
  <2>1. mode = "between" /\ pos = from /\ mode' = "/*" /\ pos' = pos + 2 /\ UNCHANGED <<src, from, tokens>>
    BY <1>0, <1>1 DEF In, OpenBlock, Open, advance, ScanTypes, PlaceOK
  <2>2. from + 1 <= End /\ Text[from] = "/" /\ Text[from + 1] = "*"
    BY <1>0, <1>1, <2>1, PeekText
  <2>3. Abstract!StartsWith(from, <<"/", "*">>)
    BY <1>0, <2>2, Starts
  <2>4. Shape(mode', from', pos')
    BY <1>0, <2>1, <2>2, <2>3 DEF Shape
  <2> QED
    BY <1>0, <2>1, <2>4, InsideStep
<1>s. mode = "/*" =>
        /\ pos \in (from + 2)..(End + 1) /\ Abstract!StartsWith(from, <<"/", "*">>)
        /\ \A k \in (from + 2)..(pos - 1) : ~Abstract!StartsWith(k, <<"*", "/">>)
  BY <1>0 DEF Shape
<1>2. CASE In("/*") /\ ~(peek = "*" /\ peek_next = "/") /\ peek # "NUL" /\ advance(1) /\ Stay
  <2>1. mode = "/*" /\ mode' = "/*" /\ pos' = pos + 1 /\ UNCHANGED <<src, from, tokens>>
    BY <1>2 DEF In, Stay, advance
  <2>2. pos \in 1..(End + 1) /\ pos <= End /\ ~(Text[pos] = "*" /\ pos + 1 <= End /\ Text[pos + 1] = "/")
    BY <1>0, <1>s, <1>2, <2>1, PeekText
  <2>3. ~Abstract!StartsWith(pos, <<"*", "/">>)
    BY <1>0, <2>2, Starts
  <2>4. Shape(mode', from', pos')
    BY <1>0, <1>s, <2>1, <2>2, <2>3 DEF Shape
  <2> QED
    BY <1>0, <2>1, <2>4, InsideStep
<1>3. CASE In("/*") /\ ((peek = "*" /\ peek_next = "/") \/ peek = "NUL")
           /\ advance(IF peek # "NUL" THEN 2 ELSE 0) /\ Skipped
  <2>1. /\ mode = "/*" /\ mode' = "between" /\ pos' = pos + (IF peek # "NUL" THEN 2 ELSE 0) /\ from' = pos'
        /\ src' = src /\ tokens' = tokens /\ pos \in (from + 2)..(End + 1)
    BY <1>0, <1>s, <1>3 DEF In, Skipped, advance
  <2> DEFINE ends == {j \in (from + 3)..End : Abstract!StartsWith(j - 1, <<"*", "/">>)}
  <2>2. Abstract!BlockEnd(from) = Abstract!Least(ends, End)
    BY DEF Abstract!BlockEnd, Abstract!End, End
  <2>3. ends \in SUBSET Int
    BY <1>0
  <2>4. \A j \in ends : j > pos
    <3> SUFFICES ASSUME NEW j \in ends, j <= pos PROVE FALSE
      BY <1>0
    <3>1. j - 1 \in (from + 2)..(pos - 1)
      BY <1>0, <2>1
    <3> QED
      BY <1>s, <2>1, <3>1
  <2>5. CASE peek # "NUL"
    <3>1. pos + 1 <= End /\ Text[pos] = "*" /\ Text[pos + 1] = "/" /\ pos \in Nat \ {0}
      BY <1>0, <1>3, <2>1, <2>5, PeekText
    <3>2. Abstract!StartsWith(pos, <<"*", "/">>) /\ pos + 1 - 1 = pos
      BY <1>0, <3>1, Starts
    <3>3. pos + 1 \in ends /\ \A j \in ends : pos + 1 <= j
      BY <1>0, <2>1, <2>4, <3>1, <3>2
    <3> HIDE DEF ends
    <3>4. Abstract!BlockEnd(from) = pos + 1
      BY <2>2, <2>3, <3>3, LeastIs
    <3> QED
      BY <1>0, <1>s, <2>1, <2>5, <3>4, SkipStep, EndsInv
  <2>6. CASE peek = "NUL"
    <3>1. pos = End + 1
      BY <1>0, <2>1, <2>6, PeekText
    <3>2. ends = {}
      BY <1>0, <2>4, <3>1
    <3> HIDE DEF ends
    <3>3. Abstract!BlockEnd(from) = End
      BY <2>2, <2>3, <3>2, LeastIs
    <3> QED
      BY <1>0, <1>s, <2>1, <2>6, <3>1, <3>3, SkipStep, EndsInv
  <2> QED
    BY <2>5, <2>6
<1> QED
  BY <1>1, <1>2, <1>3 DEF BlockComment

LEMMA NumberStep ==
  ASSUME ScanTypes, TextOK, ScanInv, from <= End, Number
  PROVE  ScanInv' /\ AbsStep
<1>0. from \in 1..End /\ End \in Nat /\ pos \in Nat /\ Shape(mode, from, pos)
  BY DEF ScanTypes, PlaceOK, TextOK, ScanInv
<1>1. CASE In("between") /\ isdigit(peek) /\ Open("number", 0)
  <2>1. mode = "between" /\ pos = from /\ mode' = "number" /\ pos' = pos /\ UNCHANGED <<src, from, tokens>>
    BY <1>0, <1>1 DEF In, Open, advance, ScanTypes, PlaceOK
  <2>2. Text[from] \in Abstract!Digits
    BY <1>0, <1>1, <2>1, PeekText DEF isdigit, Abstract!Digits
  <2>3. Shape(mode', from', pos')
    BY <1>0, <2>1, <2>2 DEF Shape
  <2> QED
    BY <1>0, <2>1, <2>3, InsideStep
<1>s. mode = "number" =>
        /\ pos \in from..(End + 1) /\ Text[from] \in Abstract!Digits
        /\ \A k \in from..(pos - 1) : Text[k] \in Abstract!Digits
  BY <1>0 DEF Shape
<1>2. CASE In("number") /\ isdigit(peek) /\ advance(1) /\ Stay
  <2>1. mode = "number" /\ mode' = "number" /\ pos' = pos + 1 /\ UNCHANGED <<src, from, tokens>>
    BY <1>2 DEF In, Stay, advance
  <2>2. pos <= End /\ Text[pos] \in Abstract!Digits
    BY <1>0, <1>s, <1>2, <2>1, PeekText DEF isdigit, Abstract!Digits
  <2>3. Shape(mode', from', pos')
    BY <1>0, <1>s, <2>1, <2>2 DEF Shape
  <2> QED
    BY <1>0, <2>1, <2>3, InsideStep
<1>3. CASE In("number") /\ ~isdigit(peek) /\ advance(0) /\ Return("INT_LIT", from, pos - from)
  <2>1. mode = "number" /\ pos' = pos /\ pos \in from..(End + 1)
    BY <1>0, <1>s, <1>3 DEF In, advance
  <2> DEFINE ends == {j \in from..End : Text[j] \notin Abstract!Digits}
             len == pos - from
  <2>2. Abstract!RunEnd(from, Abstract!Digits) = Abstract!Least(ends, End + 1) - 1
    BY DEF Abstract!RunEnd, Abstract!End, End
  <2>3. ends \in SUBSET Int
    BY <1>0
  <2>4. pos <= End => Text[pos] \notin Abstract!Digits
    BY <1>0, <1>3, <2>1, PeekText DEF isdigit, Abstract!Digits
  <2>5. (pos \in ends /\ \A k \in ends : pos <= k) \/ (ends = {} /\ pos = End + 1)
    BY <1>0, <1>s, <2>1, <2>4
  <2> HIDE DEF ends
  <2>6. Abstract!Least(ends, End + 1) = pos
    BY <2>3, <2>5, LeastIs
  <2>7. Abstract!RunEnd(from, Abstract!Digits) = pos - 1 /\ pos - 1 - from + 1 = len /\ (pos - 1) + 1 = pos
    BY <1>0, <2>1, <2>2, <2>6
  <2>8. from \in Nat \ {0} /\ len \in Nat /\ from + len - 1 <= End /\ Return("INT_LIT", from, len)
    BY <1>0, <1>3, <2>1
  <2> HIDE DEF len
  <2>9. /\ tokens' = Append(tokens, Abstract!Token("INT_LIT", from, from, len))
        /\ from' = pos' /\ mode' = "between" /\ src' = src
    BY <1>0, <2>8, Produced
  <2>10. Abstract!Number
    BY <1>s, <2>1, <2>7, <2>9 DEF Abstract!Number, Abstract!Produce
  <2> QED
    BY <2>9, <2>10, ProduceStep, EndsInv
<1> QED
  BY <1>1, <1>2, <1>3 DEF Number

\* A keyword is not one that is cut.
LEMMA KeywordCut ==
  ASSUME NEW s \in Seq(Characters)
  PROVE  lookup_keyword(Abstract!Cut(s)) = IF s \in DOMAIN KEYWORDS THEN KEYWORDS[s] ELSE "IDENT"
<1> DEFINE b == MAX_LEXEME - 1
           n == Len(s)
           m == IF n <= b THEN n ELSE b
<1>1. MAX_LEXEME \in Nat \ {0} /\ \A w \in DOMAIN KEYWORDS : Len(w) < b
  BY LexerAssumption DEF LexerAssumption
<1>2. b \in Nat /\ n \in Nat /\ m \in Nat /\ m <= n /\ s \in [1..n -> Characters]
  BY <1>1
<1>3. Abstract!Cut(s) = SubSeq(s, 1, m)
  <2> HIDE DEF n, b
  <2>1. Abstract!Min({n, b}) = m
    BY <1>2, MinOfTwo
  <2> QED
    BY <2>1 DEF Abstract!Cut, n, b
<1>4. SubSeq(s, 1, m) \in Seq(Characters) /\ Len(SubSeq(s, 1, m)) = m /\ \A k \in 1..m : SubSeq(s, 1, m)[k] = s[k]
  <2>1. \A k \in 1..m : s[k] \in Characters
    BY <1>2
  <2> HIDE DEF m
  <2>2. /\ SubSeq(s, 1, m) \in Seq(Characters)
        /\ Len(SubSeq(s, 1, m)) = IF 1 <= m THEN m - 1 + 1 ELSE 0
        /\ \A k \in 1..(m - 1 + 1) : SubSeq(s, 1, m)[k] = s[1 + k - 1]
    BY <1>2, <2>1, SubSeqProperties
  <2> QED
    BY <1>2, <2>2
<1> DEFINE cut == SubSeq(s, 1, m)
<1>5. CASE n <= b
  <2>1. m = n
    BY <1>5
  <2>2. cut \in Seq(Characters) /\ Len(cut) = Len(s) /\ \A k \in 1..Len(cut) : cut[k] = s[k]
    BY <1>4, <2>1
  <2> HIDE DEF cut
  <2>3. cut = s
    BY <2>2, SeqEqual
  <2> QED
    BY <1>3, <2>3 DEF lookup_keyword, cut
<1>6. CASE ~(n <= b)
  <2>1. s \notin DOMAIN KEYWORDS
    BY <1>1, <1>2, <1>6
  <2>2. Len(cut) = b /\ ~(b < b)
    BY <1>2, <1>4, <1>6
  <2>3. cut \notin DOMAIN KEYWORDS
    <3> HIDE DEF cut, b
    <3> QED
      BY <1>1, <2>2
  <2> QED
    BY <1>3, <2>1, <2>3 DEF lookup_keyword
<1> QED
  BY <1>5, <1>6

LEMMA WordStep ==
  ASSUME ScanTypes, TextOK, ScanInv, from <= End, Word
  PROVE  ScanInv' /\ AbsStep
<1> DEFINE class == Abstract!Letters \cup Abstract!Digits
           ends == {j \in from..End : Text[j] \notin class}
           len == pos - from
<1>0. from \in 1..End /\ End \in Nat /\ pos \in Nat /\ Shape(mode, from, pos)
  BY DEF ScanTypes, PlaceOK, TextOK, ScanInv
<1>c. /\ (isalpha(peek) \/ isdigit(peek) \/ peek = "_") <=> peek \in class
      /\ (isalpha(peek) \/ peek = "_") <=> peek \in Abstract!Letters
  BY DEF isalpha, isdigit, Abstract!Letters, Abstract!Digits
<1>n. "NUL" \notin class /\ Abstract!Letters \subseteq class
  BY DEF Abstract!Letters, Abstract!Digits
<1> HIDE DEF class
<1>1. CASE In("between") /\ peek \in Abstract!Letters /\ Open("word", 0)
  <2>1. mode = "between" /\ pos = from /\ mode' = "word" /\ pos' = pos /\ UNCHANGED <<src, from, tokens>>
    BY <1>0, <1>1 DEF In, Open, advance, ScanTypes, PlaceOK
  <2>2. Text[from] \in Abstract!Letters
    BY <1>0, <1>1, <1>n, <2>1, PeekText
  <2>3. Shape(mode', from', pos')
    BY <1>0, <2>1, <2>2 DEF Shape
  <2> QED
    BY <1>0, <2>1, <2>3, InsideStep
<1>s. mode = "word" =>
        /\ pos \in from..(End + 1) /\ Text[from] \in Abstract!Letters
        /\ \A k \in from..(pos - 1) : Text[k] \in class
  BY <1>0 DEF Shape, class
<1>2. CASE In("word") /\ peek \in class /\ advance(1) /\ Stay
  <2>1. mode = "word" /\ mode' = "word" /\ pos' = pos + 1 /\ UNCHANGED <<src, from, tokens>>
    BY <1>2 DEF In, Stay, advance
  <2>2. pos <= End /\ Text[pos] \in class
    BY <1>0, <1>s, <1>2, <1>n, <2>1, PeekText
  <2>3. Shape(mode', from', pos')
    BY <1>0, <1>s, <2>1, <2>2 DEF Shape, class
  <2> QED
    BY <1>0, <2>1, <2>3, InsideStep
<1>3. CASE In("word") /\ peek \notin class /\ advance(0)
           /\ Return(lookup_keyword(lexeme(from, pos - from)), from, pos - from)
  <2>1. mode = "word" /\ pos' = pos /\ pos \in from..(End + 1)
    BY <1>0, <1>s, <1>3 DEF In, advance
  <2>2. Abstract!RunEnd(from, class) = Abstract!Least(ends, End + 1) - 1
    BY DEF Abstract!RunEnd, Abstract!End, End
  <2>3. ends \in SUBSET Int
    BY <1>0
  <2>4. pos <= End => Text[pos] \notin class
    BY <1>0, <1>3, <2>1, PeekText
  <2>5. (pos \in ends /\ \A k \in ends : pos <= k) \/ (ends = {} /\ pos = End + 1)
    BY <1>0, <1>s, <2>1, <2>4
  <2> HIDE DEF ends
  <2>6. Abstract!Least(ends, End + 1) = pos
    BY <2>3, <2>5, LeastIs
  <2>7. Abstract!RunEnd(from, class) = pos - 1 /\ pos - 1 - from + 1 = len /\ (pos - 1) + 1 = pos
    BY <1>0, <2>1, <2>2, <2>6
  <2>8. /\ from \in Nat \ {0} /\ len \in Nat /\ from + len - 1 <= End
        /\ Return(lookup_keyword(lexeme(from, len)), from, len)
    BY <1>0, <1>3, <2>1
  <2> HIDE DEF len
  <2> DEFINE spelling == Abstract!From(from, len)
             type == IF spelling \in DOMAIN KEYWORDS THEN KEYWORDS[spelling] ELSE "IDENT"
  <2>9. /\ lexeme(from, len) = Abstract!Cut(spelling) /\ Len(spelling) = len /\ spelling \in Seq(Characters)
    BY <2>8, LexemeIs, FromFacts DEF ScanTypes
  <2>10. lookup_keyword(lexeme(from, len)) = type
    <3> HIDE DEF spelling
    <3> QED
      BY <2>9, KeywordCut
  <2> HIDE DEF type
  <2>r. Return(type, from, len)
    BY <2>8, <2>10, Zenon
  <2>11. /\ tokens' = Append(tokens, Abstract!Token(type, from, from, len))
         /\ from' = pos' /\ mode' = "between" /\ src' = src
    BY <1>0, <2>8, <2>r, Produced
  <2>12. Abstract!Word
    BY <1>s, <2>1, <2>7, <2>9, <2>11 DEF Abstract!Word, Abstract!Produce, class, type
  <2> QED
    BY <2>11, <2>12, ProduceStep, EndsInv
<1> QED
  BY <1>1, <1>2, <1>3, <1>c, Zenon DEF Word

LEMMA StringEndIs ==
  \A i : Abstract!StringEnd(i) = Abstract!Least({j \in (i + 1)..End : Text[j] = Quote /\ ~Abstract!Escaped(i, j)}, End + 1)
  BY Zenon DEF Abstract!StringEnd, Quote, Abstract!End, End

LEMMA OverrunsIs ==
  \A i : Abstract!Overruns(i) <=> \/ Text[i] = "'" /\ i + Abstract!CharBody(i) > End
                                  \/ Text[i] = Quote /\ Abstract!StringEnd(i) > End /\ Abstract!Escaped(i, End + 1)
  BY Zenon DEF Abstract!Overruns, Quote, Abstract!End, End

\* The literal that next_token() reads up to p is the one TokenSource sees.
LEMMA StringBodyIs ==
  ASSUME TextOK, NEW f \in 1..End, NEW p \in (f + 1)..(End + 1), Text[f] = Quote, ~Abstract!Escaped(f, p),
         \A k \in (f + 1)..(p - 1) : Text[k] = Quote => Abstract!Escaped(f, k),
         p <= End => Text[p] = Quote
  PROVE  Abstract!StringEnd(f) = p /\ ~Abstract!Overruns(f)
<1> DEFINE closing == {j \in (f + 1)..End : Text[j] = Quote /\ ~Abstract!Escaped(f, j)}
<1>0. End \in Nat
  BY DEF TextOK
<1>1. closing \in SUBSET Int
  BY <1>0
<1>2. (p \in closing /\ \A k \in closing : p <= k) \/ (closing = {} /\ p = End + 1)
  BY <1>0
<1>3. Abstract!StringEnd(f) = Abstract!Least(closing, End + 1)
  BY Zenon, StringEndIs
<1> HIDE DEF closing
<1>4. Abstract!StringEnd(f) = p
  BY <1>1, <1>2, <1>3, LeastIs
<1>5. p > End => p = End + 1
  BY <1>0
<1>6. Quote # "'"
  BY QuoteIs
<1> QED
  BY <1>4, <1>5, <1>6, OverrunsIs

LEMMA OverrunsIfEscaped ==
  ASSUME TextOK, NEW f \in 1..End, Text[f] = Quote, Abstract!Escaped(f, End + 1),
         \A k \in (f + 1)..End : Text[k] = Quote => Abstract!Escaped(f, k)
  PROVE  Abstract!Overruns(f)
<1> DEFINE closing == {j \in (f + 1)..End : Text[j] = Quote /\ ~Abstract!Escaped(f, j)}
<1>0. End \in Nat
  BY DEF TextOK
<1>1. closing = {} /\ closing \in SUBSET Int
  OBVIOUS
<1>3. Abstract!StringEnd(f) = Abstract!Least(closing, End + 1)
  BY Zenon, StringEndIs
<1> HIDE DEF closing
<1>4. Abstract!StringEnd(f) = End + 1
  BY <1>1, <1>3, LeastIs
<1>5. End + 1 > End
  BY <1>0
<1> QED
  BY <1>4, <1>5, OverrunsIs

LEMMA StringStep ==
  ASSUME ScanTypes, TextOK, ScanInv, from <= End, String
  PROVE  ScanInv' /\ AbsStep
<1>0. from \in 1..End /\ End \in Nat /\ pos \in Nat /\ Shape(mode, from, pos) /\ Len(src) \in Nat
  BY DEF ScanTypes, PlaceOK, TextOK, ScanInv, MemoryOK
<1>q. Quote # "\\" /\ Quote # "NUL" /\ Quote # "'"
  BY QuoteIs
<1>1. CASE In("between") /\ peek = Quote /\ Open("string", 1)
  <2>1. mode = "between" /\ pos = from /\ mode' = "string" /\ pos' = pos + 1 /\ UNCHANGED <<src, from, tokens>>
    BY <1>0, <1>1 DEF In, Open, advance, ScanTypes, PlaceOK
  <2>2. Text[from] = Quote
    BY <1>0, <1>1, <2>1, PeekText
  <2>3. ~Abstract!Escaped(from, from + 1)
    BY <1>0, <1>q, <2>2, EscapedFacts
  <2>4. pos' = from + 1 /\ from + 1 \in (from + 1)..(End + 1) /\ (from + 1)..((from + 1) - 1) = {} /\ from' = from
    BY <1>0, <2>1
  <2>5. Shape(mode', from', pos')
    BY <2>1, <2>2, <2>3, <2>4 DEF Shape
  <2> QED
    BY <1>0, <2>1, <2>5, InsideStep
<1> DEFINE Read(p) == /\ p \in (from + 1)..(End + 1) /\ ~Abstract!Escaped(from, p)
                      /\ \A k \in (from + 1)..(p - 1) : Text[k] = Quote => Abstract!Escaped(from, k)
<1>s. mode = "string" => Text[from] = Quote /\ (Read(pos) \/ (pos > End + 1 /\ Abstract!Overruns(from)))
  BY <1>0 DEF Shape
<1>r. \A p : Shape("string", from, p) <=> Text[from] = Quote /\ (Read(p) \/ (p > End + 1 /\ Abstract!Overruns(from)))
  BY DEF Shape
<1>2. CASE In("string") /\ peek # Quote /\ peek # "NUL" /\ advance(IF peek = "\\" THEN 2 ELSE 1) /\ Stay
  <2> DEFINE n == IF peek = "\\" THEN 2 ELSE 1
  <2>1. mode = "string" /\ mode' = "string" /\ pos' = pos + n /\ UNCHANGED <<src, from, tokens>>
    BY <1>2 DEF In, Stay, advance
  <2>2. CASE pos > End + 1 /\ Abstract!Overruns(from)
    <3>1. pos + n > End + 1
      BY <1>0, <2>2
    <3>2. Shape("string", from, pos + n)
      BY <1>r, <1>s, <2>1, <2>2, <3>1
    <3> QED
      BY <1>0, <2>1, <3>2, InsideStep
  <2>3. CASE Read(pos)
    <3>1. pos \in (from + 1)..End /\ Text[pos] = peek
      BY <1>0, <1>2, <2>3, PeekText
    <3>2. /\ Text[from] # "\\" /\ Text[from] = Quote
          /\ \A j \in (from + 1)..End :
               Abstract!Escaped(from, j + 1) <=> Text[j] = "\\" /\ ~Abstract!Escaped(from, j)
      BY <1>0, <1>q, <1>s, <2>1, EscapedFacts
    <3>3. CASE peek # "\\"
      <4>1. ~Abstract!Escaped(from, pos + 1) /\ n = 1
        BY <3>1, <3>2, <3>3
      <4>2. Read(pos + 1)
        BY <1>0, <1>2, <2>3, <3>1, <4>1
      <4>3. Shape("string", from, pos + 1)
        BY <1>r, <3>2, <4>2
      <4> QED
        BY <1>0, <2>1, <4>1, <4>3, InsideStep
    <3>4. CASE peek = "\\"
      <4>1. Abstract!Escaped(from, pos + 1) /\ n = 2
        BY <2>3, <3>1, <3>2, <3>4
      <4>2. CASE pos = End
        <5>1. \A k \in (from + 1)..End : Text[k] = Quote => Abstract!Escaped(from, k)
          BY <1>0, <1>2, <2>3, <3>1, <4>2
        <5>2. Abstract!Overruns(from) /\ pos + 2 > End + 1
          BY <1>0, <3>2, <4>1, <4>2, <5>1, OverrunsIfEscaped
        <5>3. Shape("string", from, pos + 2)
          BY <1>r, <3>2, <5>2
        <5> QED
          BY <1>0, <2>1, <4>1, <5>3, InsideStep
      <4>3. CASE pos # End
        <5>1. pos + 1 \in (from + 1)..End /\ (pos + 1) + 1 = pos + 2
          BY <1>0, <3>1, <4>3
        <5>2. ~Abstract!Escaped(from, pos + 2)
          BY <3>2, <4>1, <5>1
        <5>3. Read(pos + 2)
          BY <1>0, <1>2, <2>3, <3>1, <4>1, <5>1, <5>2
        <5>4. Shape("string", from, pos + 2)
          BY <1>r, <3>2, <5>3
        <5> QED
          BY <1>0, <2>1, <4>1, <5>4, InsideStep
      <4> QED
        BY <4>2, <4>3
    <3> QED
      BY <3>3, <3>4
  <2> QED
    BY <1>s, <2>1, <2>2, <2>3
<1>3. ASSUME NEW n \in 0..1, In("string"), advance(n), Return("STR_LIT", from + 1, pos - from - 1),
             (peek = Quote /\ n = 1) \/ (peek = "NUL" /\ n = 0)
      PROVE  ScanInv' /\ AbsStep
  <2>1. mode = "string" /\ pos' = pos + n /\ from' = pos' /\ mode' = "between" /\ src' = src
    BY <1>3 DEF In, advance, Return
  <2>2. CASE pos > End + 1 /\ Abstract!Overruns(from)
    <3>1. pos' \in Nat /\ pos' > End + 1
      BY <1>0, <2>1, <2>2
    <3> QED
      BY <1>0, <2>1, <2>2, <3>1, LostStep
  <2>3. CASE Read(pos)
    <3> DEFINE len == pos - from - 1
    <3>1. pos \in (from + 1)..(End + 1) /\ (peek = Quote <=> pos <= End) /\ (pos <= End => Text[pos] = Quote)
      BY <1>0, <1>3, <1>q, <2>3, PeekText
    <3>2. Text[from] = Quote /\ Abstract!StringEnd(from) = pos /\ ~Abstract!Overruns(from)
      BY <1>0, <1>s, <2>1, <2>3, <3>1, StringBodyIs
    <3>3. Abstract!Min({pos, End}) = IF pos <= End THEN pos ELSE End
      BY <1>0, MinOfTwo
    <3>4. pos' = Abstract!Min({pos, End}) + 1
      BY <1>0, <1>3, <1>q, <2>1, <3>1, <3>3
    <3>5. /\ from + 1 \in Nat \ {0} /\ len \in Nat /\ (from + 1) + len - 1 <= End
          /\ Return("STR_LIT", from + 1, len)
      BY <1>0, <1>3, <3>1
    <3> HIDE DEF len
    <3>6. tokens' = Append(tokens, Abstract!Token("STR_LIT", from, from + 1, len))
      BY <1>0, <3>5, Produced
    <3>7. Abstract!String
      <4>1. Text[from] = Quote /\ ~Abstract!Overruns(from)
            /\ Abstract!Produce(Abstract!Token("STR_LIT", from, from + 1, Abstract!StringEnd(from) - from - 1),
                                Abstract!Min({Abstract!StringEnd(from), Abstract!End}))
        BY <2>1, <3>2, <3>4, <3>6, Zenon DEF Abstract!Produce, len, Abstract!End, End
      <4> QED
        BY <4>1, Zenon DEF Abstract!String, Quote
    <3> QED
      BY <2>1, <3>7, ProduceStep, EndsInv
  <2> QED
    BY <1>s, <2>1, <2>2, <2>3
<1>4. CASE In("string") /\ peek = Quote /\ advance(1) /\ Return("STR_LIT", from + 1, pos - from - 1)
  BY <1>3, <1>4
<1>5. CASE In("string") /\ peek = "NUL" /\ advance(0) /\ Return("STR_LIT", from + 1, pos - from - 1)
  BY <1>3, <1>5
<1> QED
  BY <1>1, <1>2, <1>4, <1>5, StringCases

LEMMA CharStep ==
  ASSUME ScanTypes, TextOK, ScanInv, from <= End, Char
  PROVE  ScanInv' /\ AbsStep
<1>0. from \in 1..End /\ End \in Nat /\ pos \in Nat /\ Shape(mode, from, pos)
  BY DEF ScanTypes, PlaceOK, TextOK, ScanInv
<1>q. Quote # "'"
  BY QuoteIs
<1>b. Abstract!CharBody(from) = IF from + 1 <= End /\ Text[from + 1] = "\\" THEN 2 ELSE 1
  <2>1. from + 1 \in Nat \ {0}
    BY <1>0
  <2>2. Abstract!StartsWith(from + 1, <<"\\">>) <=> from + 1 <= End /\ Text[from + 1] = "\\"
    BY <2>1, Starts
  <2> QED
    BY <2>2, Zenon DEF Abstract!CharBody
<1>1. CASE In("between") /\ peek = "'" /\ Open("char", 1)
  <2>1. mode = "between" /\ pos = from /\ mode' = "char" /\ pos' = pos + 1 /\ UNCHANGED <<src, from, tokens>>
    BY <1>0, <1>1 DEF In, Open, advance, ScanTypes, PlaceOK
  <2>2. Text[from] = "'"
    BY <1>0, <1>1, <2>1, PeekText
  <2>3. Shape(mode', from', pos')
    BY <1>0, <2>1, <2>2 DEF Shape
  <2> QED
    BY <1>0, <2>1, <2>3, InsideStep
<1>2. CASE In("char") /\ Open("quote", IF peek = "\\" THEN 2 ELSE 1)
  <2>1. /\ mode = "char" /\ mode' = "quote" /\ pos' = pos + (IF peek = "\\" THEN 2 ELSE 1)
        /\ UNCHANGED <<src, from, tokens>>
    BY <1>2 DEF In, Open, advance
  <2>2. Text[from] = "'" /\ pos = from + 1
    BY <1>0, <2>1 DEF Shape
  <2>3. pos \in 1..(End + 1) /\ (peek = "\\" <=> pos <= End /\ Text[pos] = "\\")
    BY <1>0, <2>2, PeekText
  <2>4. pos' = from + 1 + Abstract!CharBody(from)
    BY <1>0, <1>b, <2>1, <2>2, <2>3
  <2>5. Shape(mode', from', pos')
    BY <1>0, <2>1, <2>2, <2>4 DEF Shape
  <2> QED
    BY <1>0, <2>1, <2>5, InsideStep
<1>3. CASE In("quote") /\ advance(IF peek = "'" THEN 1 ELSE 0) /\ Return("CHAR_LIT", from + 1, pos - from - 1)
  <2> DEFINE n == IF peek = "'" THEN 1 ELSE 0
             len == Abstract!CharBody(from)
             last == from + len
  <2>1. mode = "quote" /\ pos' = pos + n /\ from' = pos' /\ mode' = "between" /\ src' = src
    BY <1>3 DEF In, advance, Return
  <2>2. Text[from] = "'" /\ pos = from + 1 + len
    BY <1>0, <2>1 DEF Shape
  <2>3. len \in 1..2 /\ last \in Nat /\ pos = last + 1 /\ pos - from - 1 = len /\ n \in 0..1
    BY <1>0, <1>b, <2>2
  <2>4. Abstract!Overruns(from) <=> last > End
    BY <1>q, <2>2, OverrunsIs
  <2> HIDE DEF len
  <2>5. CASE last > End
    <3>1. pos' \in Nat /\ pos' > End + 1
      BY <1>0, <2>1, <2>3, <2>5
    <3> QED
      BY <1>0, <2>1, <2>4, <2>5, <3>1, LostStep
  <2>6. CASE ~(last > End)
    <3>1. pos \in Nat \ {0} /\ pos \in 1..(End + 1) /\ (peek = "'" <=> pos <= End /\ Text[pos] = "'")
      BY <1>0, <2>3, <2>6, PeekText
    <3>2. Abstract!StartsWith(last + 1, <<"'">>) <=> peek = "'"
      <4>1. Abstract!StartsWith(pos, <<"'">>) <=> pos <= End /\ Text[pos] = "'"
        BY <3>1, Starts
      <4> QED
        BY <2>3, <3>1, <4>1
    <3>3. pos' = (IF Abstract!StartsWith(last + 1, <<"'">>) THEN last + 1 ELSE last) + 1
      BY <2>1, <2>3, <3>2
    <3>4. /\ from + 1 \in Nat \ {0} /\ len \in Nat /\ (from + 1) + len - 1 <= End
          /\ Return("CHAR_LIT", from + 1, len)
      BY <1>0, <1>3, <2>3, <2>6
    <3>5. tokens' = Append(tokens, Abstract!Token("CHAR_LIT", from, from + 1, len))
      BY <1>0, <3>4, Produced
    <3>6. Abstract!Char
      BY <2>1, <2>2, <2>4, <2>6, <3>3, <3>5, Zenon DEF Abstract!Char, Abstract!Produce, len
    <3> QED
      BY <2>1, <3>6, ProduceStep, EndsInv
  <2> QED
    BY <2>5, <2>6
<1> QED
  BY <1>1, <1>2, <1>3 DEF Char

\* Two-character operators.
Double(a, b) == (b = "=" /\ a \in {"=", "!", "<", ">"}) \/ (b = a /\ a \in {"&", "|"})

LEMMA PairIs ==
  ASSUME TextOK, pos \in 1..End
  PROVE  /\ Double(peek, peek_next) <=> Abstract!From(pos, 2) \in Abstract!Pairs
         /\ Double(peek, peek_next) => pos + 1 <= End /\ Abstract!From(pos, 2) = <<peek, peek_next>>
<1>0. pos \in Nat \ {0} /\ End \in Nat
  BY DEF TextOK
<1>1. /\ peek = Text[pos] /\ peek # "NUL" /\ peek_next = IF pos < End THEN Text[pos + 1] ELSE "NUL"
  BY <1>0, PeekText
<1> DEFINE two == Abstract!From(pos, 2)
<1>2. \A c, d : two = <<c, d>> <=> pos + 1 <= End /\ Text[pos] = c /\ Text[pos + 1] = d
  BY <1>0, StartsFacts, Zenon
<1>3. two \in Abstract!Pairs <=> \/ two = <<"=", "=">> \/ two = <<"!", "=">> \/ two = <<"<", "=">>
                                 \/ two = <<">", "=">> \/ two = <<"&", "&">> \/ two = <<"|", "|">>
  BY Zenon DEF Abstract!Pairs
<1> HIDE DEF two
<1>4. CASE pos + 1 <= End
  <2>1. peek_next = Text[pos + 1]
    BY <1>0, <1>1, <1>4
  <2>2. two = <<peek, peek_next>>
    BY <1>1, <1>2, <1>4, <2>1
  <2>3. two \in Abstract!Pairs <=> Double(peek, peek_next)
    <3>1. \A c, d : two = <<c, d>> <=> peek = c /\ peek_next = d
      BY <1>1, <1>2, <1>4, <2>1
    <3> QED
      BY <1>3, <3>1 DEF Double
  <2> QED
    BY <1>4, <2>2, <2>3 DEF two
<1>5. CASE ~(pos + 1 <= End)
  <2>1. peek_next = "NUL"
    BY <1>0, <1>1, <1>5
  <2>2. ~Double(peek, peek_next)
    BY <1>1, <2>1 DEF Double
  <2>3. \A c, d : two # <<c, d>>
    BY <1>2, <1>5
  <2> QED
    BY <1>3, <2>2, <2>3 DEF two
<1> QED
  BY <1>4, <1>5

LEMMA OperatorStep ==
  ASSUME ScanTypes, TextOK, ScanInv, from <= End, Operator
  PROVE  ScanInv' /\ AbsStep
<1> DEFINE double == Double(peek, peek_next)
           type == IF double THEN peek \o peek_next ELSE IF peek \in Singles THEN peek ELSE "UNKNOWN"
           n == IF double THEN 2 ELSE 1
<1>0. from \in 1..End /\ End \in Nat /\ pos \in Nat
  BY DEF ScanTypes, PlaceOK, TextOK
<1>1. /\ In("between") /\ ~(isspace(peek) \/ isdigit(peek) \/ isalpha(peek) \/ peek \in {"_", Quote, "'", "NUL"})
      /\ ~(peek = "/" /\ peek_next \in {"/", "*"}) /\ advance(n) /\ Return(type, pos, n)
  BY Zenon DEF Operator, Quote, Double
<1>2. mode = "between" /\ pos = from /\ pos' = pos + n /\ from' = pos' /\ mode' = "between" /\ src' = src
  BY <1>1 DEF In, advance, Return, ScanTypes, PlaceOK
<1>3. pos \in 1..End /\ Text[from] = peek /\ peek_next = IF from < End THEN Text[from + 1] ELSE "NUL"
  BY <1>0, <1>2, PeekText
<1>4. ~ \E c \in {"/", "*"} : Abstract!StartsWith(from, <<"/", c>>)
  <2>1. /\ Abstract!StartsWith(from, <<"/", "/">>) <=> from + 1 <= End /\ Text[from] = "/" /\ Text[from + 1] = "/"
        /\ Abstract!StartsWith(from, <<"/", "*">>) <=> from + 1 <= End /\ Text[from] = "/" /\ Text[from + 1] = "*"
    BY <1>0, Starts
  <2>2. ~Abstract!StartsWith(from, <<"/", "/">>) /\ ~Abstract!StartsWith(from, <<"/", "*">>)
    <3>1. ~(peek = "/" /\ peek_next \in {"/", "*"})
      BY <1>1
    <3>2. from + 1 <= End => peek_next = Text[from + 1]
      BY <1>0, <1>3
    <3> QED
      BY <1>3, <2>1, <3>1, <3>2
  <2> QED
    BY <2>2, Zenon
<1>5. Text[from] \notin Abstract!Spaces \cup Abstract!Digits \cup Abstract!Letters \cup {Quote, "'"}
  <2>1. peek \notin {" ", "NL", "0", "1", "a", "f", "i", "n", "t", "_", Quote, "'"}
    BY <1>1 DEF isspace, isdigit, isalpha
  <2> QED
    BY <1>3, <2>1 DEF Abstract!Spaces, Abstract!Digits, Abstract!Letters
<1>6. /\ double <=> Abstract!From(from, 2) \in Abstract!Pairs
      /\ double => from + 1 <= End /\ Abstract!From(from, 2) = <<peek, peek_next>>
  BY <1>2, <1>3, PairIs
<1>7. n \in Nat /\ pos + n - 1 <= End /\ pos \in Nat \ {0}
  BY <1>0, <1>2, <1>3, <1>6
<1> HIDE DEF double
<1>8. tokens' = Append(tokens, Abstract!Token(type, from, from, n))
  <2> HIDE DEF n, type
  <2>1. Return(type, from, n)
    BY <1>1, <1>2, Zenon
  <2>2. from + n - 1 <= End /\ from <= End + 1 /\ from \in Nat \ {0} /\ n \in Nat
    BY <1>0, <1>2, <1>7
  <2> QED
    BY <2>1, <2>2, Produced
<1>9. IF Abstract!From(from, 2) \in Abstract!Pairs
      THEN Abstract!Produce(Abstract!Token(Abstract!PairType(Abstract!From(from, 2)), from, from, 2), from + 1)
      ELSE Abstract!Produce(Abstract!Token(IF Text[from] \in Abstract!Singles THEN Text[from] ELSE "UNKNOWN",
                                           from, from, 1), from)
  <2>1. CASE double
    <3>1. type = Abstract!PairType(Abstract!From(from, 2))
      <4>1. <<peek, peek_next>>[1] = peek /\ <<peek, peek_next>>[2] = peek_next
        OBVIOUS
      <4>2. Abstract!From(from, 2) = <<peek, peek_next>>
        BY <1>6, <2>1
      <4> QED
        BY <2>1, <4>1, <4>2, Zenon DEF Abstract!PairType
    <3>2. n = 2 /\ from' = (from + 1) + 1
      BY <1>0, <1>2, <2>1
    <3> HIDE DEF n, type
    <3> QED
      BY <1>6, <1>8, <2>1, <3>1, <3>2, Zenon DEF Abstract!Produce
  <2>2. CASE ~double
    <3>1. type = IF Text[from] \in Abstract!Singles THEN Text[from] ELSE "UNKNOWN"
      BY <1>3, <2>2 DEF Abstract!Singles, Singles
    <3>2. n = 1 /\ from' = from + 1
      BY <1>0, <1>2, <2>2
    <3> HIDE DEF n, type
    <3> QED
      BY <1>6, <1>8, <2>2, <3>1, <3>2, Zenon DEF Abstract!Produce
  <2> QED
    BY <2>1, <2>2
<1>10. Abstract!Operator
  BY <1>4, <1>5, <1>9, Zenon DEF Abstract!Operator, Quote
<1> QED
  BY <1>2, <1>10, ProduceStep, EndsInv

\* The end of the text.
LEMMA EofStep ==
  ASSUME ScanTypes, TextOK, from = End + 1, mode = "between", Eof
  PROVE  ScanInv' /\ AbsStep
<1>0. End \in Nat /\ from \in Nat \ {0} /\ pos = from /\ mode' = "between" /\ src' = src /\ pos' = pos
  BY DEF ScanTypes, PlaceOK, TextOK, Eof, Stay, Return, advance
<1>1. Text' = Text /\ End' = End
  BY <1>0, TextKept
<1>2. CASE AtEof
  BY <1>0, <1>1, <1>2, EndsInv DEF Eof, Stay, AbsStep
<1>3. CASE ~AtEof
  <2>1. Return("EOF", from, 0) /\ from + 0 - 1 <= End /\ 0 \in Nat
    BY <1>0, <1>3 DEF Eof
  <2>2. tokens' = Append(tokens, Abstract!Token("EOF", from, from, 0)) /\ from' = pos'
    BY <1>0, <2>1, Produced
  <2>3. from' = from /\ (tokens = <<>> \/ tokens[Len(tokens)].type # "EOF")
    BY <1>0, <1>3, <2>2 DEF AtEof
  <2>4. Abstract!Eof
    BY <2>2, <2>3 DEF Abstract!Eof, Abstract!End, End
  <2>5. AbsStep
    BY <1>1, <2>4 DEF AbsStep, Abstract!Next
  <2> QED
    BY <1>0, <2>5, EndsInv
<1> QED
  BY <1>2, <1>3

\* The steps of next_token() while the item at hand begins in the text.
LEMMA InText ==
  ASSUME ScanTypes, TextOK, ScanInv, from <= End, [LexerNext]_vars
  PROVE  ScanInv' /\ AbsStep
<1>0. from \in Nat /\ pos \in Nat /\ End \in Nat /\ End + 1 <= Len(src) /\ Len(src) \in Nat
  BY DEF ScanTypes, PlaceOK, TextOK, MemoryOK
<1>1. CASE Eof
  <2>1. mode = "between" /\ pos = from /\ peek = "NUL"
    BY <1>1 DEF Eof, In, ScanTypes, PlaceOK
  <2>2. pos \in 1..(End + 1) /\ pos <= End
    BY <2>1 DEF ScanTypes, PlaceOK, TextOK
  <2> QED
    BY <2>1, <2>2, PeekText
<1>2. CASE Fault
  <2>1. UNCHANGED <<src, from, tokens>> /\ mode' = "crashed" /\ pos' = pos
    BY <1>2 DEF Fault
  <2>2. Shape(mode', from', pos')
    BY <2>1 DEF Shape
  <2> QED
    BY <1>0, <2>1, <2>2, InsideStep
<1>3. CASE Stopped \/ UNCHANGED vars
  <2>1. UNCHANGED <<src, from, tokens>> /\ Shape(mode', from', pos')
    BY <1>3 DEF Stopped, vars, ScanInv
  <2> QED
    BY <1>0, <2>1, InsideStep
<1>4. CASE Space \/ LineComment \/ BlockComment \/ Number \/ Word \/ String \/ Char \/ Operator
  BY <1>4, SpaceStep, LineCommentStep, BlockCommentStep, NumberStep, WordStep, StringStep, CharStep, OperatorStep
<1> QED
  BY <1>1, <1>2, <1>3, <1>4 DEF LexerNext

\* Between two items at the end of the text, next_token() can only return EOF.
LEMMA AtEnd ==
  ASSUME ScanTypes, TextOK, ScanInv, from = End + 1, [LexerNext]_vars
  PROVE  ScanInv' /\ AbsStep
<1>0. /\ from \in Nat /\ pos \in Nat /\ End \in Nat /\ End + 1 <= Len(src) /\ Len(src) \in Nat
      /\ mode \in {"between", "crashed"}
  BY DEF ScanTypes, PlaceOK, TextOK, MemoryOK, ScanInv
<1>1. mode = "between" => pos = from /\ pos <= Len(src) /\ peek = "NUL"
  <2> SUFFICES ASSUME mode = "between" PROVE pos = from /\ pos <= Len(src) /\ peek = "NUL"
    OBVIOUS
  <2>1. pos = from
    BY DEF ScanTypes, PlaceOK
  <2>2. pos \in 1..(End + 1) /\ pos = End + 1
    BY <1>0, <2>1
  <2> QED
    BY <2>1, <2>2, PeekText
<1>2. CASE UNCHANGED <<src, mode, from, tokens>>
  <2>1. Text' = Text /\ End' = End
    BY <1>2, TextKept
  <2>2. ~(from' <= End')
    BY <1>0, <1>2, <2>1
  <2> QED
    BY <1>0, <1>2, <2>1, <2>2 DEF ScanInv, AbsStep
<1>3. CASE Eof
  BY <1>3, EofStep DEF Eof, In
<1>4. ~Fault \/ mode # "between"
  BY <1>0, <1>1 DEF Fault
<1>5. Stopped \/ UNCHANGED vars => UNCHANGED <<src, mode, from, tokens>>
  BY DEF Stopped, vars
<1>6. Fault => mode = "between"
  BY <1>0 DEF Fault
<1>q. Quote # "NUL"
  BY QuoteIs
<1>7. ~(Space \/ LineComment \/ BlockComment \/ Number \/ Word \/ Char)
  BY <1>0, <1>1 DEF Space, LineComment, BlockComment, Number, Word, Char, In, isspace, isdigit, isalpha
<1>8. ~String
  BY <1>0, <1>1, <1>q, StringCases DEF In
<1>9. ~Operator
  <2>1. Operator => mode = "between" /\ peek # "NUL"
    BY Zenon DEF Operator, In
  <2> QED
    BY <1>1, <2>1
<1> QED
  BY <1>2, <1>3, <1>4, <1>5, <1>6, <1>7, <1>8, <1>9 DEF LexerNext

\* Past the text, whatever is scanned.
LEMMA PastEnd ==
  ASSUME ScanTypes, TextOK, from > End + 1, [LexerNext]_vars
  PROVE  ScanInv' /\ AbsStep
<1>0. from \in Nat /\ pos \in Nat /\ from <= pos /\ End \in Nat
  BY DEF ScanTypes, PlaceOK, TextOK
<1>1. CASE UNCHANGED <<src, from, tokens>>
  <2>1. Text' = Text /\ End' = End
    BY <1>1, TextKept
  <2>2. ~(from' <= End') /\ from' # End' + 1
    BY <1>0, <1>1, <2>1
  <2> QED
    BY <1>1, <2>1, <2>2 DEF ScanInv, AbsStep
<1>2. ASSUME NEW n \in 0..2, Moves(n), mode' = "between", from' = pos' PROVE ScanInv' /\ AbsStep
  <2>1. pos' = pos + n /\ src' = src
    BY <1>2 DEF Moves, advance
  <2>2. pos' \in Nat /\ pos' > End + 1
    BY <1>0, <2>1
  <2> QED
    BY <1>0, <1>2, <2>1, <2>2, LostStep
<1>3. CASE Eof
  <2>1. CASE AtEof
    BY <1>1, <1>3, <2>1 DEF Eof, Stay
  <2>2. CASE ~AtEof
    <3>1. Moves(0) /\ mode' = "between" /\ from' = pos'
      BY <1>0, <1>3, <2>2 DEF Eof, Moves, In, Return, ScanTypes, MemoryOK
    <3> QED
      BY <1>2, <3>1
  <2> QED
    BY <2>1, <2>2
<1>4. CASE Fault \/ Stopped \/ UNCHANGED vars
  BY <1>1, <1>4 DEF Fault, Stopped, vars
<1>5. CASE LexerNext /\ ~Stopped /\ ~Fault /\ ~Eof
  <2>1. PICK n : Inside(n) \/ Ends(n)
    BY <1>5, TypeSteps
  <2>2. CASE Inside(n)
    BY <1>1, <2>2 DEF Inside, Moves
  <2>3. CASE Ends(n)
    BY <1>2, <2>3 DEF Ends
  <2> QED
    BY <2>1, <2>2, <2>3
<1> QED
  BY <1>3, <1>4, <1>5

LEMMA ScanStart == LexerInit => ScanInv /\ Abstract!Init
  BY DEF LexerInit, ScanInv, Shape, Abstract!Init

LEMMA ScanStep == ScanTypes /\ ScanInv /\ [LexerNext]_vars => ScanInv' /\ AbsStep
<1> SUFFICES ASSUME ScanTypes, ScanInv, [LexerNext]_vars PROVE ScanInv' /\ AbsStep
  OBVIOUS
<1>1. TextOK
  BY TextFacts DEF ScanTypes
<1>2. from <= End \/ from = End + 1 \/ from > End + 1
  BY <1>1 DEF TextOK, ScanTypes, PlaceOK
<1> QED
  BY <1>1, <1>2, InText, AtEnd, PastEnd

(* Whatever the text and whatever memory holds behind it: scanning character by character,        *)
(* next_token() takes only steps of TokenSource.  Each token it returns is the longest of its      *)
(* kind, with the line it begins on and its lexeme cut to the buffer; comments and spaces are left *)
(* out; and it reads on behind the end of the text only from a character literal left open or a    *)
(* string literal whose last character is a backslash.                                             *)
THEOREM TheLexerScansText == LexerSpec => ScansText
<1>1. ScanTypes /\ ScanInv /\ [LexerNext]_vars => [Abstract!Next]_<<Text, from, tokens>>
  BY ScanStep DEF AbsStep
<1>2. ScanTypes /\ ScanInv /\ [LexerNext]_vars => ScanTypes' /\ ScanInv'
  BY ScanStep, TypesStep
<1>3. LexerInit => ScanTypes /\ ScanInv /\ Abstract!Init
  BY ScanStart, TypesStart
<1> QED
  BY <1>1, <1>2, <1>3, PTL DEF LexerSpec, ScansText, Abstract!Spec
=============================================================================
