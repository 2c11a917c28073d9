---------------------------- MODULE EscapesProofs ----------------------------
(***************************************************************************)
(* Proof that decode_escapes() stays inside the lexeme it reads and the    *)
(* buffer it writes, for literals of any length: what it has written is    *)
(* behind what it has read, and the last byte of buf is kept for the NUL.  *)
(***************************************************************************)
EXTENDS Escapes, SequenceTheorems, FiniteSetTheorems, TLAPS

\* What literals are written with.
Written == Characters \cup {Backslash}

\* The inductive invariant: before the call there is nothing, then out lags behind i.
EscapesInv ==
  /\ text \in Seq(Written) /\ in \in Seq(Written) /\ i \in Nat
  /\ \E S : out \in Seq(S)
  /\ i = 0 => in = <<>> /\ out = <<>>
  /\ i > 0 => i <= Len(in) + 1 /\ Len(out) <= i - 1
  /\ Len(in) < MAX_LEXEME /\ Len(out) < MAX_LEXEME

LEMMA MinIsLeast ==
  ASSUME NEW a \in Int, NEW b \in Int
  PROVE  Min({a, b}) \in {a, b} /\ Min({a, b}) <= a /\ Min({a, b}) <= b
<1> DEFINE m == IF a <= b THEN a ELSE b
<1>1. m \in {a, b} /\ \A y \in {a, b} : m <= y
  OBVIOUS
<1>2. \E x \in {a, b} : \A y \in {a, b} : x <= y
  BY <1>1
<1> QED
  BY <1>2 DEF Min

\* make_token_str() leaves room for the NUL.
LEMMA LexemeFits ==
  ASSUME EscapesAssumption, NEW s \in Seq(Written)
  PROVE  lexeme(s) \in Seq(Written) /\ Len(lexeme(s)) < MAX_LEXEME
<1> DEFINE m == Min({Len(s), MAX_LEXEME - 1})
<1>1. MAX_LEXEME \in Nat /\ MAX_LEXEME > 0 /\ Len(s) \in Nat
  BY EscapesAssumption, LenProperties DEF EscapesAssumption
<1>2. m \in {Len(s), MAX_LEXEME - 1} /\ m <= Len(s) /\ m <= MAX_LEXEME - 1
  <2> DEFINE a == Len(s)
             b == MAX_LEXEME - 1
  <2>1. a \in Int /\ b \in Int
    BY <1>1
  <2> HIDE DEF a, b
  <2>2. Min({a, b}) \in {a, b} /\ Min({a, b}) <= a /\ Min({a, b}) <= b
    BY <2>1, MinIsLeast
  <2> QED
    BY <2>2 DEF a, b
<1>3. m \in Nat
  BY <1>1, <1>2
<1> HIDE DEF m
<1>4. SubSeq(s, 1, m) \in Seq(Written) /\ Len(SubSeq(s, 1, m)) = m
  BY <1>1, <1>2, <1>3
<1>5. lexeme(s) = SubSeq(s, 1, m)
  BY Zenon DEF lexeme, m
<1> QED
  BY <1>1, <1>2, <1>4, <1>5

LEMMA EscapesKept == EscapesInv /\ [EscapesNext]_escapeVars => EscapesInv'
<1> SUFFICES ASSUME EscapesInv, [EscapesNext]_escapeVars PROVE EscapesInv'
  OBVIOUS
<1>0. MAX_LEXEME \in Nat /\ MAX_LEXEME > 0
  BY EscapesAssumption DEF EscapesAssumption
<1> USE <1>0
<1>1. CASE Write
  <2>1. PICK unit \in {<<c>> : c \in Characters \ {Backslash, Quote}} \cup {<<Backslash, c>> : c \in Characters} :
          text' = text \o unit
    BY <1>1 DEF Write
  <2>2. unit \in Seq(Written)
    <3>1. \A c \in Written : <<c>> \in Seq(Written) /\ <<Backslash, c>> \in Seq(Written)
      <4>1. Backslash \in Written
        BY DEF Written
      <4> QED
        BY <4>1
    <3>2. Characters \subseteq Written
      BY DEF Written
    <3> QED
      BY <3>1, <3>2
  <2>3. text' \in Seq(Written)
    BY <2>1, <2>2 DEF EscapesInv
  <2> QED
    BY <1>1, <2>3 DEF Write, EscapesInv
<1>2. CASE Decode
  <2>1. in' \in Seq(Written) /\ Len(in') < MAX_LEXEME
    BY <1>2, EscapesAssumption, LexemeFits DEF Decode, EscapesInv
  <2>2. out' = <<>> /\ i' = 1 /\ text' = text
    BY <1>2 DEF Decode
  <2>3. Len(in') \in Nat
    BY <2>1, LenProperties
  <2> QED
    BY <2>1, <2>2, <2>3 DEF EscapesInv
<1>3. CASE DecodeNext
  <2>1. i \in Nat /\ i > 0 /\ i <= Len(in) /\ Len(out) + 1 < MAX_LEXEME /\ Len(out) <= i - 1
    BY <1>3 DEF DecodeNext, More, EscapesInv
  <2>2. \E n \in {1, 2} : i' = i + n /\ i + n <= Len(in) + 1 /\ \E c : out' = Append(out, c)
    <3>1. CASE in[i] = Backslash /\ i < Len(in)
      BY <1>3, <2>1, <3>1 DEF DecodeNext, One, Copied, EscapesInv
    <3>2. CASE ~(in[i] = Backslash /\ i < Len(in))
      BY <1>3, <2>1, <3>2 DEF DecodeNext, One, Copied, EscapesInv
    <3> QED
      BY <3>1, <3>2
  <2>6. PICK n \in {1, 2} : i' = i + n /\ i + n <= Len(in) + 1 /\ \E c : out' = Append(out, c)
    BY <2>2
  <2>7. PICK c : out' = Append(out, c)
    BY <2>6
  <2>3. PICK S : out \in Seq(S)
    BY DEF EscapesInv
  <2>4. out' \in Seq(S \cup {c}) /\ Len(out') = Len(out) + 1 /\ Len(out) \in Nat
    <3>1. out \in Seq(S \cup {c})
      BY <2>3
    <3> QED
      BY <2>7, <3>1
  <2>5. UNCHANGED <<text, in>> /\ Len(in) \in Nat
    BY <1>3 DEF DecodeNext, EscapesInv
  <2> QED
    BY <2>1, <2>4, <2>5, <2>6 DEF EscapesInv
<1>4. CASE UNCHANGED escapeVars
  BY <1>4 DEF EscapesInv, escapeVars
<1> QED
  BY <1>1, <1>2, <1>3, <1>4 DEF EscapesNext, Over

(* decode_escapes() reads only its lexeme and writes only buf, the NUL included, however long   *)
(* the literal and wherever its backslashes stand: one at the very end escapes nothing.         *)
THEOREM DecodingStaysInBounds == EscapesSpec => []EscapesTypeOK
<1>1. EscapesInit => EscapesInv
  <2> SUFFICES ASSUME EscapesInit PROVE EscapesInv
    OBVIOUS
  <2>1. \A S : <<>> \in Seq(S) /\ Len(<<>>) = 0
    OBVIOUS
  <2> QED
    BY <2>1, EscapesAssumption DEF EscapesInit, EscapesInv, EscapesAssumption
<1>2. EscapesInv => EscapesTypeOK
  <2> SUFFICES ASSUME EscapesInv PROVE EscapesTypeOK
    OBVIOUS
  <2>1. PICK S : out \in Seq(S)
    BY DEF EscapesInv
  <2>2. Len(buf) = Len(out) + 1 /\ Len(out) \in Nat /\ Len(in) \in Nat
    <3>1. out \in Seq(S \cup {0})
      BY <2>1
    <3> QED
      BY <3>1 DEF buf, EscapesInv
  <2>3. Len(out) <= Len(in) /\ i \in 0..(Len(in) + 1)
    BY <2>2 DEF EscapesInv
  <2> QED
    BY <2>2, <2>3, EscapesAssumption DEF EscapesInv, EscapesTypeOK, EscapesAssumption
<1> QED
  BY <1>1, <1>2, EscapesKept, PTL DEF EscapesSpec
=============================================================================
