----------------------------- MODULE TokenSource -----------------------------
(***************************************************************************)
(* What the lexer promises: the tokens of a text, one after the other.     *)
(* An item of the text (a space, a comment, a token) is given by where it  *)
(* begins and ends, with no position, mode or loop; the next item begins   *)
(* where the last one ends, and EOF comes after the last.                  *)
(*                                                                         *)
(* Two kinds of text make no such promise: those that end inside a         *)
(* character literal, or in a string literal right after a backslash.      *)
(* Scanning them reads past the end of the text (Lost).                    *)
(***************************************************************************)
EXTENDS Integers, Sequences, FiniteSets, FiniteSetsExt

CONSTANTS
  KEYWORDS,    \* spelling -> type, the keywords
  MAX_LEXEME   \* size of a lexeme's buffer, its NUL included

VARIABLES
  text,        \* the text, without the NUL after it
  at,          \* where the next item begins
  produced     \* the tokens so far

Spaces == {" ", "NL"}
Digits == {"0", "1"}
Letters == {"_", "a", "f", "i", "n", "t"}
Pairs == {<<"=", "=">>, <<"!", "=">>, <<"<", "=">>, <<">", "=">>, <<"&", "&">>, <<"|", "|">>}
PairType(pair) == pair[1] \o pair[2]   \* an operator's type is its spelling
Singles == {"=", "!", "<", ">", "&", "|", "+", "-", "*", "/", "%", ";", ",", ".",
            "(", ")", "{", "}", "[", "]"}

End == Len(text)
From(i, n) == SubSeq(text, i, Min({i + n - 1, End}))
StartsWith(i, s) == From(i, Len(s)) = s
Least(S, default) == IF S = {} THEN default ELSE Min(S)

\* The last of the characters from i on that all are in class.
RunEnd(i, class) == Least({j \in i..End : text[j] \notin class}, End + 1) - 1

\* A comment from i on, up to its end or the end of the text.
LineEnd(i) == Least({j \in i..End : text[j] = "NL"}, End + 1) - 1
BlockEnd(i) == Least({j \in (i + 3)..End : StartsWith(j - 1, <<"*", "/">>)}, End)

\* Character j of the literal that opens at i follows an odd number of backslashes.
Escaped(i, j) ==
  LET plain == Max({k \in i..(j - 1) : text[k] # "\\"})
  IN  (j - 1 - plain) % 2 = 1
StringEnd(i) == Least({j \in (i + 1)..End : text[j] = "\"" /\ ~Escaped(i, j)}, End + 1)
CharBody(i) == IF StartsWith(i + 1, <<"\\">>) THEN 2 ELSE 1

Overruns(i) ==
  \/ text[i] = "'" /\ i + CharBody(i) > End
  \/ text[i] = "\"" /\ StringEnd(i) > End /\ Escaped(i, End + 1)

Cut(s) == SubSeq(s, 1, Min({Len(s), MAX_LEXEME - 1}))

\* A token at i of n characters, whose lexeme is cut from the m characters at k.
Token(type, i, k, m) ==
  [type |-> type, lexeme |-> Cut(From(k, m)),
   line |-> 1 + Cardinality({j \in 1..(i - 1) : text[j] = "NL"})]

Produce(token, last) == at' = last + 1 /\ produced' = Append(produced, token)

Skip ==
  /\ \/ text[at] \in Spaces /\ at' = at + 1
     \/ StartsWith(at, <<"/", "/">>) /\ at' = LineEnd(at) + 1
     \/ StartsWith(at, <<"/", "*">>) /\ at' = BlockEnd(at) + 1
  /\ UNCHANGED produced

Number ==
  /\ text[at] \in Digits
  /\ LET last == RunEnd(at, Digits)
     IN  Produce(Token("INT_LIT", at, at, last - at + 1), last)

Word ==
  /\ text[at] \in Letters
  /\ LET last == RunEnd(at, Letters \cup Digits)
         spelling == From(at, last - at + 1)
         type == IF spelling \in DOMAIN KEYWORDS THEN KEYWORDS[spelling] ELSE "IDENT"
     IN  Produce(Token(type, at, at, Len(spelling)), last)

String ==
  /\ text[at] = "\"" /\ ~Overruns(at)
  /\ LET close == StringEnd(at)
     IN  Produce(Token("STR_LIT", at, at + 1, close - at - 1), Min({close, End}))

Char ==
  /\ text[at] = "'" /\ ~Overruns(at)
  /\ LET last == at + CharBody(at)
     IN  Produce(Token("CHAR_LIT", at, at + 1, CharBody(at)),
                 IF StartsWith(last + 1, <<"'">>) THEN last + 1 ELSE last)

Operator ==
  /\ ~ \E c \in {"/", "*"} : StartsWith(at, <<"/", c>>)
  /\ text[at] \notin Spaces \cup Digits \cup Letters \cup {"\"", "'"}
  /\ IF From(at, 2) \in Pairs
     THEN Produce(Token(PairType(From(at, 2)), at, at, 2), at + 1)
     ELSE Produce(Token(IF text[at] \in Singles THEN text[at] ELSE "UNKNOWN", at, at, 1), at)

Eof ==
  /\ at = End + 1
  /\ produced = <<>> \/ produced[Len(produced)].type # "EOF"
  /\ produced' = Append(produced, Token("EOF", at, at, 0))
  /\ UNCHANGED at

Lost == /\ at > End + 1 \/ (at <= End /\ Overruns(at))
        /\ at' > End + 1

Init == at = 1 /\ produced = <<>>

Next == /\ UNCHANGED text
        /\ \/ at <= End /\ (Skip \/ Number \/ Word \/ String \/ Char \/ Operator)
           \/ Eof
           \/ Lost

Spec == Init /\ [][Next]_<<text, at, produced>>
=============================================================================
