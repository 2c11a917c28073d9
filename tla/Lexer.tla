-------------------------------- MODULE Lexer --------------------------------
(***************************************************************************)
(* Lexer.c: next_token(), called until it has returned EOF, one character  *)
(* per step.  A character is a model of itself or of its class: "NL" is a  *)
(* newline, "NUL" ends the text in the buffer main() reads the file into.  *)
(* What memory holds after the buffer is not the program's: it is chosen   *)
(* among Beyond, and reading past that too may end the program.            *)
(***************************************************************************)
EXTENDS Integers, Sequences, FiniteSets

CONSTANTS
  Sources,     \* the texts of source files
  Beyond,      \* what memory may hold after the NUL, up to another NUL
  KEYWORDS,    \* spelling -> type
  MAX_LEXEME

VARIABLES
  src,         \* memory, from the first character of the text
  pos,         \* the character to read next, from 1
  line,
  mode,        \* the loop next_token() is in
  from,        \* where the item being scanned begins (start - 1 in a literal)
  begun,       \* the line it begins on: next_token()'s local line
  tokens       \* the tokens returned, up to the first EOF

vars == <<src, pos, line, mode, from, begun, tokens>>

ASSUME LexerAssumption ==
  /\ MAX_LEXEME \in Nat \ {0}
  /\ \A w \in DOMAIN KEYWORDS : Len(w) < MAX_LEXEME - 1   \* shorter than a lexeme that is cut
  /\ \A s \in Sources \cup Beyond : s \in Seq(STRING)
  /\ \A b \in Beyond : b # <<>> => b[Len(b)] = "NUL"

isspace(c) == c \in {" ", "NL"}
isdigit(c) == c \in {"0", "1"}
isalpha(c) == c \in {"a", "f", "i", "n", "t"}

peek == src[pos]
peek_next == IF peek = "NUL" THEN "NUL" ELSE src[pos + 1]

advance(n) ==
  /\ pos' = pos + n
  /\ line' = line + Cardinality({i \in pos..(pos + n - 1) : src[i] = "NL"})

\* A bug: no room is kept for the terminating NUL.
lexemeFull(lo, len) == SubSeq(src, lo, lo + (IF len < MAX_LEXEME THEN len ELSE MAX_LEXEME) - 1)

\* What strcmp() and printf() see of the first MAX_LEXEME - 1 characters at lo.
lexeme(lo, len) ==
  LET copy == IF len < MAX_LEXEME - 1 THEN len ELSE MAX_LEXEME - 1
      nul  == {i \in lo..(lo + copy - 1) : src[i] = "NUL"}
  IN  SubSeq(src, lo, IF nul = {} THEN lo + copy - 1
                      ELSE (CHOOSE i \in nul : \A j \in nul : i <= j) - 1)

lookup_keyword(s) == IF s \in DOMAIN KEYWORDS THEN KEYWORDS[s] ELSE "IDENT"

\* next_token() returns; the next call begins with the character at pos'.
Return(type, lo, len) ==
  /\ tokens' = Append(tokens, [type |-> type, lexeme |-> lexeme(lo, len), line |-> begun])
  /\ mode' = "between" /\ from' = pos' /\ begun' = line'
  /\ UNCHANGED src

In(m) == mode = m /\ pos <= Len(src)
Stay == UNCHANGED <<src, mode, from, begun, tokens>>
Open(m, n) == /\ mode' = m /\ advance(n) /\ UNCHANGED <<src, from, begun, tokens>>
Skipped == /\ mode' = "between" /\ from' = pos' /\ begun' = line' /\ UNCHANGED <<src, tokens>>

Space == In("between") /\ isspace(peek) /\ advance(1) /\ Skipped

LineComment ==
  \/ In("between") /\ peek = "/" /\ peek_next = "/" /\ Open("//", 0)
  \/ In("//") /\ peek \notin {"NL", "NUL"} /\ advance(1) /\ Stay
  \/ In("//") /\ peek \in {"NL", "NUL"} /\ advance(0) /\ Skipped

\* A bug: the opening and the closing of a comment may share the *.
OpenBlockShort == Open("/*", 1)
OpenBlock == Open("/*", 2)

\* A bug: the loop looks for the closing only.
BlockCommentUnclosed ==
  LET closes == peek = "*" /\ peek_next = "/"
  IN  \/ In("between") /\ peek = "/" /\ peek_next = "*" /\ OpenBlock
      \/ In("/*") /\ ~closes /\ advance(IF peek = "NUL" THEN 0 ELSE 1) /\ Stay
      \/ In("/*") /\ closes /\ advance(2) /\ Skipped

BlockComment ==
  LET closes == peek = "*" /\ peek_next = "/"
  IN  \/ In("between") /\ peek = "/" /\ peek_next = "*" /\ OpenBlock
      \/ In("/*") /\ ~closes /\ peek # "NUL" /\ advance(1) /\ Stay
      \/ In("/*") /\ (closes \/ peek = "NUL")
         /\ advance(IF peek # "NUL" THEN 2 ELSE 0) /\ Skipped

Number ==
  \/ In("between") /\ isdigit(peek) /\ Open("number", 0)
  \/ In("number") /\ isdigit(peek) /\ advance(1) /\ Stay
  \/ In("number") /\ ~isdigit(peek) /\ advance(0) /\ Return("INT_LIT", from, pos - from)

Word ==
  LET ends == ~(isalpha(peek) \/ isdigit(peek) \/ peek = "_")
  IN  \/ In("between") /\ (isalpha(peek) \/ peek = "_") /\ Open("word", 0)
      \/ In("word") /\ ~ends /\ advance(1) /\ Stay
      \/ In("word") /\ ends /\ advance(0)
         /\ Return(lookup_keyword(lexeme(from, pos - from)), from, pos - from)

\* A backslash and the character after it, the NUL included.
StringCharacter == In("string") /\ peek \notin {"\"", "NUL"}
                   /\ advance(IF peek = "\\" THEN 2 ELSE 1) /\ Stay

String ==
  \/ In("between") /\ peek = "\"" /\ Open("string", 1)
  \/ StringCharacter
  \/ In("string") /\ peek \in {"\"", "NUL"} /\ advance(IF peek = "\"" THEN 1 ELSE 0)
     /\ Return("STR_LIT", from + 1, pos - from - 1)

Char ==
  \/ In("between") /\ peek = "'" /\ Open("char", 1)
  \/ In("char") /\ Open("quote", IF peek = "\\" THEN 2 ELSE 1)
  \/ In("quote") /\ advance(IF peek = "'" THEN 1 ELSE 0)
     /\ Return("CHAR_LIT", from + 1, pos - from - 1)

Singles == {"=", "!", "<", ">", "&", "|", "+", "-", "*", "/", "%", ";", ",", ".",
            "(", ")", "{", "}", "[", "]"}

\* The type of an operator is its spelling.
Operator ==
  LET double == \/ peek_next = "=" /\ peek \in {"=", "!", "<", ">"}
                \/ peek_next = peek /\ peek \in {"&", "|"}
      type == IF double THEN peek \o peek_next ELSE IF peek \in Singles THEN peek ELSE "UNKNOWN"
      n == IF double THEN 2 ELSE 1
  IN  /\ In("between")
      /\ ~(isspace(peek) \/ isdigit(peek) \/ isalpha(peek) \/ peek \in {"_", "\"", "'", "NUL"})
      /\ ~(peek = "/" /\ peek_next \in {"/", "*"})
      /\ advance(n) /\ Return(type, pos, n)

AtEof == tokens # <<>> /\ tokens[Len(tokens)].type = "EOF"

\* EOF is not consumed: every later call returns it again.
Eof == /\ In("between") /\ peek = "NUL" /\ advance(0)
       /\ IF AtEof THEN Stay ELSE Return("EOF", pos, 0)

\* Reading past everything mapped.
Fault == /\ pos > Len(src) /\ mode # "crashed"
         /\ mode' = "crashed" /\ UNCHANGED <<src, pos, line, from, begun, tokens>>

Stopped == mode = "crashed" /\ UNCHANGED vars

read_file(s) == Append(s, "NUL")

LexerInit ==
  /\ \E s \in Sources, b \in Beyond : src = read_file(s) \o b
  /\ pos = 1 /\ line = 1 /\ mode = "between" /\ from = 1 /\ begun = 1 /\ tokens = <<>>

LexerNext ==
  \/ Space \/ LineComment \/ BlockComment \/ Number \/ Word \/ String \/ Char \/ Operator
  \/ Eof \/ Fault \/ Stopped

LexerSpec == LexerInit /\ [][LexerNext]_vars /\ WF_vars(LexerNext)

-----------------------------------------------------------------------------
(* Properties. *)

(* A lexeme and its NUL fit the buffer of Token, lines are positive, and the item at hand *)
(* is one that has begun.                                                                 *)
LexerTypeOK ==
  /\ mode \in {"between", "//", "/*", "number", "word", "string", "char", "quote", "crashed"}
  /\ from \in 1..pos /\ pos <= Len(src) + 1
  /\ begun \in 1..line
  /\ \A i \in DOMAIN tokens :
       Len(tokens[i].lexeme) < MAX_LEXEME /\ tokens[i].line \in 1..line

Text == SubSeq(src, 1, (CHOOSE n \in DOMAIN src : src[n] = "NUL"
                                  /\ \A i \in 1..(n - 1) : src[i] # "NUL") - 1)

Abstract == INSTANCE TokenSource WITH text <- Text, at <- from, produced <- tokens

(* next_token() implements TokenSource: scanning character by character, it returns exactly *)
(* the tokens of the text, each the longest of its kind, with its line and its cut lexeme,  *)
(* and leaves the text only through an open character literal or a last backslash.          *)
ScansText == Abstract!Spec

(* The lexer reaches EOF, or crashes after it has left the text: no item is an endless loop. *)
ReachesEof == <>(AtEof \/ mode = "crashed")
=============================================================================
