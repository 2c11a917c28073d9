------------------------------- MODULE Escapes -------------------------------
(***************************************************************************)
(* Literals with escapes, from the source text between the quotes to the   *)
(* bytes in the object file.  The lexer cuts the text to a lexeme,         *)
(* decode_escapes() copies it to buf one character or escape at a time,    *)
(* and its callers each take something else of buf: a local string, a      *)
(* global string, a character.                                             *)
(*                                                                         *)
(* The text is a sequence of characters, what is stored of it one of bytes.*)
(***************************************************************************)
EXTENDS Integers, Sequences, SequencesExt, FiniteSetsExt

CONSTANTS
  Ascii,        \* the codes of the characters literals are written with
  MAX_LEXEME,   \* the size of a lexeme and of buf
  MaxText       \* bound: length of a literal

VARIABLES
  text,         \* the literal in the source
  in,           \* its lexeme, <<>> while it is written
  i,            \* decode_escapes()'s position in it, 0 before the call
  out           \* the bytes it has written to buf

escapeVars == <<text, in, i, out>>

Characters == DOMAIN Ascii
Backslash == "\\"
Quote == "\""

ASSUME EscapesAssumption ==
  /\ MAX_LEXEME \in Nat \ {0} /\ MaxText \in Nat
  /\ Ascii \in [Characters -> 1..127] /\ Backslash \in Characters

\* The lexer takes a backslash and what follows it for one, and a quote on its own for the end.
Write ==
  /\ i = 0
  /\ \E unit \in {<<c>> : c \in Characters \ {Backslash, Quote}} \cup {<<Backslash, c>> : c \in Characters} :
       Len(text \o unit) <= MaxText /\ text' = text \o unit
  /\ UNCHANGED <<in, i, out>>

\* A bug: no room is kept for the NUL.
lexeme_full(s) == SubSeq(s, 1, Min({Len(s), MAX_LEXEME}))

\* make_token_str()
lexeme(s) == SubSeq(s, 1, Min({Len(s), MAX_LEXEME - 1}))

\* The call of decode_escapes().
Decode ==
  /\ i = 0 /\ i' = 1 /\ out' = <<>>
  /\ in' = lexeme(text)
  /\ UNCHANGED text

\* The cases of the switch; any other character is copied.
Escape(c) ==
  CASE c = "n" -> 10
    [] c = "t" -> 9
    [] c = "r" -> 13
    [] c = "0" -> 0
    [] OTHER   -> Ascii[c]

\* A bug: only the backslash is passed over.
Copied(byte, n) == out' = Append(out, byte) /\ i' = i + n
OneAgain ==
  IF in[i] = Backslash /\ i < Len(in) THEN Copied(Escape(in[i + 1]), 1) ELSE Copied(Ascii[in[i]], 1)

\* A backslash that ends the lexeme stands for itself.
One ==
  IF in[i] = Backslash /\ i < Len(in) THEN Copied(Escape(in[i + 1]), 2) ELSE Copied(Ascii[in[i]], 1)

More == i > 0 /\ i <= Len(in) /\ Len(out) + 1 < MAX_LEXEME
DecodeNext == More /\ One /\ UNCHANGED <<text, in>>

Decoded == i > 0 /\ ~More
Over == Decoded /\ UNCHANGED escapeVars

EscapesInit == text = <<>> /\ in = <<>> /\ i = 0 /\ out = <<>>
EscapesNext == Write \/ Decode \/ DecodeNext \/ Over
EscapesSpec == EscapesInit /\ [][EscapesNext]_escapeVars

buf == Append(out, 0)

\* LLVMBuildGlobalStringPtr() takes buf for a string; LLVMConstStringInContext() has its length.
LocalString == SubSeq(buf, 1, Min({k \in DOMAIN buf : buf[k] = 0}))
GlobalString == buf
Character == buf[1]

-----------------------------------------------------------------------------
(* What C says (C11, 6.4.4.4).  Nothing here is taken from decode_escapes(). *)

SimpleEscapes == [a |-> 7, b |-> 8, f |-> 12, n |-> 10, r |-> 13, t |-> 9, v |-> 11]
Themselves == {"'", Quote, "?", Backslash}
IsOctal(c) == Ascii[c] \in 48..55
IsHex(c) == Ascii[c] \in 48..57 \cup 65..70 \cup 97..102
Digit(c) == Ascii[c] - (IF Ascii[c] <= 57 THEN 48 ELSE IF Ascii[c] <= 70 THEN 55 ELSE 87)
Number(digits, base) == FoldLeft(LAMBDA v, d : base * v + Digit(d), 0, digits)

\* An escape begins at a backslash after an even number of them.
EscapeAt(s, k) ==
  LET others == {j \in 1..(k - 1) : s[j] # Backslash}
  IN  s[k] = Backslash /\ (k - 1 - (IF others = {} THEN 0 ELSE Max(others))) % 2 = 0
Escapes(s) == {k \in DOMAIN s : EscapeAt(s, k)}

\* Up to three octal digits are one escape, and any number of hexadecimal ones after an x.
Octal(s, k) == {n \in 1..3 : k + n <= Len(s) /\ \A j \in 1..n : IsOctal(s[k + j])}
Hex(s, k) == {n \in 0..Len(s) : k + 1 + n <= Len(s) /\ \A j \in 1..n : IsHex(s[k + 1 + j])}
EscapeEnd(s, k) ==
  IF Octal(s, k) # {} THEN k + Max(Octal(s, k))
  ELSE IF s[k + 1] = "x" THEN k + 1 + Max(Hex(s, k))
  ELSE k + 1

\* The byte of the character or escape at k.
Byte(s, k) ==
  LET end == EscapeEnd(s, k)
      c == s[k + 1]
  IN  IF ~EscapeAt(s, k) THEN Ascii[s[k]]
      ELSE IF IsOctal(c) THEN Number(SubSeq(s, k + 1, end), 8)
      ELSE IF c = "x" THEN Number(SubSeq(s, k + 2, end), 16)
      ELSE IF c \in DOMAIN SimpleEscapes THEN SimpleEscapes[c]
      ELSE Ascii[c]

\* An escape must be one of C's and its number that of a byte.
HasMeaning(s) ==
  \A k \in Escapes(s) :
    /\ s[k + 1] \in DOMAIN SimpleEscapes \cup Themselves \/ IsOctal(s[k + 1])
         \/ (s[k + 1] = "x" /\ EscapeEnd(s, k) > k + 1)
    /\ Byte(s, k) <= 255

Bytes(s) ==
  LET within == UNION {(k + 1)..EscapeEnd(s, k) : k \in Escapes(s)}
      starts == SetToSortSeq(DOMAIN s \ within, <)
  IN  Append([n \in DOMAIN starts |-> Byte(s, starts[n])], 0)

(* Properties. *)

(* decode_escapes() stays inside the lexeme it reads and the buffer it writes. *)
EscapesTypeOK ==
  /\ i \in 0..(Len(in) + 1)
  /\ Len(out) <= Len(in) /\ Len(in) < MAX_LEXEME /\ Len(buf) <= MAX_LEXEME

\* What decode_escapes() has no case for: \a, \b, \f, \v, \x and octal escapes other than \0.
Misread(s) ==
  \E k \in Escapes(s) :
    \/ s[k + 1] \in {"a", "b", "f", "v", "x"}
    \/ IsOctal(s[k + 1]) /\ ~(s[k + 1] = "0" /\ EscapeEnd(s, k) = k + 1)
Fits == Len(text) < MAX_LEXEME
HoldsNul == \E k \in DOMAIN out : out[k] = 0

\* The lexeme ends between the two backslashes the text ends with, and the first stands for both.
CutInBackslashes ==
  Len(text) = MAX_LEXEME /\ EscapeAt(text, Len(text) - 1) /\ text[Len(text)] = Backslash

\* What the lexer takes for a character literal: one character or escape.
IsCharacter == Len(text) = 1 \/ (Len(text) = 2 /\ text[1] = Backslash)

(* Where C gives a literal a meaning, a global string has the bytes C says unless an escape is     *)
(* misread: those of one letter that decode_escapes() has no case for, hexadecimal and octal ones, *)
(* whose digits are copied; and then they are never C's.  A literal longer than a lexeme is cut,   *)
(* which loses something but between two last backslashes.  A local string ends at its first NUL.  *)
LiteralsMeanWhatCSays ==
  Decoded /\ HasMeaning(text) =>
    /\ Fits => (GlobalString = Bytes(text) <=> ~Misread(text))
    /\ ~Fits /\ ~Misread(text) => (GlobalString = Bytes(text) <=> CutInBackslashes)
    /\ Fits /\ ~Misread(text) => (LocalString = Bytes(text) <=> ~HoldsNul)
    /\ IsCharacter => (Character = Bytes(text)[1] <=> ~Misread(text))
=============================================================================
