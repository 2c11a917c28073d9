-------------------------------- MODULE Values --------------------------------
(***************************************************************************)
(* What the instructions of CodeGen compute, next to what the expression   *)
(* means in C.  A value is the signed number its bits stand for.  One      *)
(* operator is evaluated at a time, and its value may be an operand of the *)
(* next.  The sizes of the types are the target's; their widths are        *)
(* parameters, so that their limits are met by small numbers.              *)
(*                                                                         *)
(* Pointers are addresses in one object, 0..MaxAddress, viewed as elements *)
(* of the type pointed to; the language has no casts.                      *)
(***************************************************************************)
EXTENDS Grammar

CONSTANTS
  CharBits, IntBits, LongBits,  \* 8, 32 and 64
  MaxAddress,                   \* where the object ends
  MaxLiteral,                   \* bound: the largest literal written
  PointerTypes

VARIABLES
  acc,    \* the value computed last
  last    \* the operator it comes of, and the operands

valueVars == <<acc, last>>

CInt == TypeInfo("INT", 0)
CChar == TypeInfo("CHAR", 0)
Value(type, v) == [type |-> type, v |-> v]

ASSUME ValuesAssumption ==
  /\ 1 < CharBits /\ CharBits < IntBits /\ IntBits < LongBits
  /\ MaxAddress \in 0..(2 ^ (LongBits - 1) - 1) /\ MaxAddress % 8 = 0
  /\ MaxLiteral \in Nat
  /\ \A t \in PointerTypes : t \in TypeInfos /\ t.ptr_depth > 0

IsPointer(t) == t.ptr_depth > 0
pointee_of(t) == [t EXCEPT !.ptr_depth = @ - 1]
Width(t) == IF IsPointer(t) THEN LongBits ELSE IF t.base = "CHAR" THEN CharBits ELSE IntBits
SizeOf(t) == IF IsPointer(t) THEN 8 ELSE IF t.base = "CHAR" THEN 1 ELSE 4

Signed(w) == -(2 ^ (w - 1)) .. (2 ^ (w - 1) - 1)
Wrap(v, w) == ((v + 2 ^ (w - 1)) % 2 ^ w) - 2 ^ (w - 1)

\* Division that drops the fraction.
Quotient(l, r) ==
  LET Abs(x) == IF x < 0 THEN -x ELSE x
      q == Abs(l) \div Abs(r)
  IN  IF (l < 0) = (r < 0) THEN q ELSE -q
Remainder(l, r) == l - r * Quotient(l, r)

-----------------------------------------------------------------------------
(* The generated code. *)

\* A bug: char is widened with zeroes.
coerce_unsigned(v, from, to) ==
  IF IsPointer(from) \/ IsPointer(to) THEN v
  ELSE IF Width(from) < Width(to) THEN v % 2 ^ Width(from)
  ELSE Wrap(v, Width(to))

\* sext keeps the number, trunc wraps it.
coerce(v, from, to) ==
  IF IsPointer(from) \/ IsPointer(to) \/ Width(from) < Width(to) THEN v ELSE Wrap(v, Width(to))

\* strtol() clamps to long, LLVMConstInt() keeps the bits of an i32.
int_literal(k) == Wrap(IF k > 2 ^ (LongBits - 1) - 1 THEN 2 ^ (LongBits - 1) - 1 ELSE k, IntBits)

\* A character is given as an unsigned char, also for an initialiser of type int.
char_literal(c) == Wrap(c, CharBits)
global_char(c, t) == Wrap(c, Width(t))

\* getelementptr with a signed index; p - i negates i in its own width.
gep(p, i) == Wrap(p.v + i * SizeOf(pointee_of(p.type)), LongBits)
offset(op, p, i) == gep(p, IF op = "MINUS" THEN Wrap(-i.v, Width(i.type)) ELSE i.v)

\* A bug: the difference is not cut to the int it is typed as.
difference_long(p, q) ==
  Quotient(Wrap(p.v - q.v, LongBits), IF p.type.base = "CHAR" THEN 1 ELSE 4)

difference(p, q) ==
  Wrap(Quotient(Wrap(p.v - q.v, LongBits), IF p.type.base = "CHAR" THEN 1 ELSE 4), IntBits)

common(l, r) == IF CInt \in {l.type, r.type} THEN CInt ELSE CChar
Flag(b) == IF b THEN 1 ELSE 0

\* sdiv and srem leave a zero divisor and an overflow undefined.
divided(op, x, y, w) ==
  IF y = 0 \/ (y = -1 /\ x = -(2 ^ (w - 1))) THEN Signed(w)
  ELSE {IF op = "SLASH" THEN Quotient(x, y) ELSE Remainder(x, y)}

Relations == {"EQ", "NEQ", "LT", "GT", "LEQ", "GEQ"}
Related(op, x, y) ==
  \/ op = "EQ" /\ x = y
  \/ op = "NEQ" /\ x # y
  \/ op = "LT" /\ x < y
  \/ op = "GT" /\ x > y
  \/ op = "LEQ" /\ x <= y
  \/ op = "GEQ" /\ x >= y

\* The values cg_binary()'s instructions may give.
cg_binary(op, l, r) ==
  LET t == common(l, r)
      x == coerce(l.v, l.type, t)
      y == coerce(r.v, r.type, t)
      w == Width(t)
  IN CASE IsPointer(l.type) /\ ~IsPointer(r.type) -> {offset(op, l, r)}
       [] IsPointer(l.type) /\ IsPointer(r.type) /\ op = "MINUS" -> {difference(l, r)}
       [] IsPointer(l.type) /\ op \in Relations -> {Flag(Related(op, l.v, r.v))}
       [] op \in Relations -> {Flag(Related(op, x, y))}
       [] op = "PLUS"      -> {Wrap(x + y, w)}
       [] op = "MINUS"     -> {Wrap(x - y, w)}
       [] op = "STAR"      -> {Wrap(x * y, w)}
       [] op \in {"SLASH", "PERCENT"} -> divided(op, x, y, w)

\* The types Sema gives.
BinaryType(op, l, r) ==
  IF op \in Relations \/ (IsPointer(l.type) /\ IsPointer(r.type)) THEN CInt
  ELSE IF IsPointer(l.type) THEN l.type ELSE common(l, r)

cg_negate(x) == Wrap(-coerce(x.v, x.type, CInt), IntBits)
cg_not(x) == Flag(x.v = 0)

-----------------------------------------------------------------------------
(* What C says: the value, or none where it says nothing. *)

InObject(a) == IF a \in 0..MaxAddress THEN {a} ELSE {}
AsInt(v) == IF v \in Signed(IntBits) THEN {v} ELSE {}
Exact(op, x, y) ==
  CASE op = "PLUS"    -> x + y
    [] op = "MINUS"   -> x - y
    [] op = "STAR"    -> x * y
    [] op = "SLASH"   -> Quotient(x, y)
    [] op = "PERCENT" -> Remainder(x, y)

Meaning(op, l, r) ==
  CASE op = "INT_LIT"  -> {l.v}
    [] op = "CHAR_LIT" -> {Wrap(l.v, CharBits)}
    [] op = "GLOBAL"   -> {Wrap(l.v, CharBits)}
    [] op = "CONVERT"  -> {Wrap(l.v, Width(r.type))}
    [] op = "NEGATE"   -> AsInt(-l.v)
    [] op = "BANG"     -> {Flag(l.v = 0)}
    [] op \in Relations -> {Flag(Related(op, l.v, r.v))}
    [] op \in {"PLUS", "INDEX"} /\ IsPointer(l.type) -> InObject(l.v + r.v * SizeOf(pointee_of(l.type)))
    [] op = "MINUS" /\ IsPointer(l.type) /\ ~IsPointer(r.type) ->
         InObject(l.v - r.v * SizeOf(pointee_of(l.type)))
    [] op = "MINUS" /\ IsPointer(l.type) -> {(l.v - r.v) \div SizeOf(pointee_of(l.type))}
    [] op \in {"SLASH", "PERCENT"} /\ r.v = 0 -> {}
    [] op = "PERCENT" -> IF AsInt(Quotient(l.v, r.v)) = {} THEN {} ELSE {Remainder(l.v, r.v)}
    [] OTHER -> AsInt(Exact(op, l.v, r.v))

-----------------------------------------------------------------------------
(* The machine. *)

Nothing == [op |-> "none", l |-> Value(CInt, 0), r |-> Value(CInt, 0)]
CharCodes == 0..(2 ^ CharBits - 1)
Scalars == {Value(CInt, v) : v \in Signed(IntBits)} \cup {Value(CChar, v) : v \in Signed(CharBits)}
Addresses(t) == {Value(t, v) : v \in {a \in 0..MaxAddress : a % SizeOf(pointee_of(t)) = 0}}
Operand == Scalars \cup UNION {Addresses(t) : t \in PointerTypes}

Gives(op, l, r, type, results) ==
  /\ last' = [op |-> op, l |-> l, r |-> r]
  /\ \E v \in results : acc' = Value(type, v)

IntLiteral == \E k \in 0..MaxLiteral : Gives("INT_LIT", Value(CInt, k), Value(CInt, 0), CInt, {int_literal(k)})
CharLiteral ==
  \E c \in CharCodes : Gives("CHAR_LIT", Value(CChar, c), Value(CInt, 0), CChar, {char_literal(c)})
GlobalChar ==
  \E c \in CharCodes, t \in {CInt, CChar} :
    Gives("GLOBAL", Value(CChar, c), Value(t, 0), t, {global_char(c, t)})

\* Initialisation, assignment and return.
Convert ==
  /\ ~IsPointer(acc.type)
  /\ \E t \in {CInt, CChar} :
       Gives("CONVERT", acc, Value(t, 0), t, {coerce(acc.v, acc.type, t)})

\* Sema lets neither - nor ! have a pointer.
UnaryOperator ==
  /\ ~IsPointer(acc.type)
  /\ Gives("NEGATE", acc, acc, CInt, {cg_negate(acc)}) \/ Gives("BANG", acc, acc, CInt, {cg_not(acc)})

ScalarOperator ==
  /\ ~IsPointer(acc.type)
  /\ \E op \in Relations \cup {"PLUS", "MINUS", "STAR", "SLASH", "PERCENT"}, r \in Scalars :
       Gives(op, acc, r, BinaryType(op, acc, r), cg_binary(op, acc, r))

PointerOffset ==
  /\ IsPointer(acc.type)
  /\ \E op \in {"PLUS", "MINUS"}, i \in Scalars :
       Gives(op, acc, i, BinaryType(op, acc, i), cg_binary(op, acc, i))

\* The address of p[i].
Subscript ==
  /\ IsPointer(acc.type)
  /\ \E i \in Scalars : Gives("INDEX", acc, i, acc.type, {gep(acc, i.v)})

PointerPair ==
  /\ IsPointer(acc.type)
  /\ \E op \in Relations \cup {"MINUS"}, q \in Addresses(acc.type) :
       Gives(op, acc, q, BinaryType(op, acc, q), cg_binary(op, acc, q))

Evaluate ==
  /\ last = Nothing
  /\ \/ IntLiteral \/ CharLiteral \/ GlobalChar \/ Convert \/ UnaryOperator
     \/ ScalarOperator \/ PointerOffset \/ Subscript \/ PointerPair

\* The value becomes an operand, if C says what it is.
Use ==
  /\ last # Nothing
  /\ Meaning(last.op, last.l, last.r) # {}
  /\ last' = Nothing
  /\ UNCHANGED acc

\* The program has no meaning from here on.
Undefined == last # Nothing /\ Meaning(last.op, last.l, last.r) = {} /\ UNCHANGED valueVars

ValuesInit == acc \in Operand /\ last = Nothing
ValuesSpec == ValuesInit /\ [][Evaluate \/ Use \/ Undefined]_valueVars

-----------------------------------------------------------------------------
(* Properties. *)

(* A value fits the machine type its C type stands for, so that the next instruction is given *)
(* operands of the width it expects.                                                          *)
ValuesTypeOK == acc.v \in Signed(Width(acc.type))

Misses ==
  /\ last # Nothing
  /\ Meaning(last.op, last.l, last.r) # {}
  /\ acc.v \notin Meaning(last.op, last.l, last.r)

BothChars == last.l.type = CChar /\ last.r.type = CChar
Arithmetic == {"PLUS", "MINUS", "STAR", "SLASH", "PERCENT"}
LeastChar == -(2 ^ (CharBits - 1))

\* Two chars are not promoted to int.
CharOverflows ==
  /\ last.op \in Arithmetic /\ BothChars
  /\ ~(last.op \in {"SLASH", "PERCENT"} /\ last.r.v = 0)
  /\ Exact(last.op, last.l.v, last.r.v) \notin Signed(CharBits)

\* Their remainder is undefined where the quotient overflows, though C's is zero.
CharRemainder == last.op = "PERCENT" /\ BothChars /\ last.l.v = LeastChar /\ last.r.v = -1

\* The least char and the least int are their own negations.
LeastIndexSubtracted ==
  /\ last.op = "MINUS" /\ IsPointer(last.l.type) /\ ~IsPointer(last.r.type)
  /\ last.r.v = -(2 ^ (Width(last.r.type) - 1))

PointerDifference == last.op = "MINUS" /\ IsPointer(last.l.type) /\ IsPointer(last.r.type)
\* Pointers to pointers are as far apart as their base types say.
MisscaledDifference ==
  PointerDifference /\ last.l.type.ptr_depth > 1 /\ last.l.v # last.r.v
\* An int does not hold the difference.
LongDifference ==
  /\ PointerDifference /\ last.l.type.ptr_depth = 1
  /\ (last.l.v - last.r.v) \div SizeOf(pointee_of(last.l.type)) \notin Signed(IntBits)

BigLiteral == last.op = "INT_LIT" /\ last.l.v \notin Signed(IntBits)

\* An int global is initialised with the unsigned char, an int local with the char.
NegativeGlobal ==
  last.op = "GLOBAL" /\ last.r.type = CInt /\ last.l.v >= 2 ^ (CharBits - 1)

(* Wherever C gives an expression a value, the generated code computes that value, but for  *)
(* seven named cases, and in these it never does (the remainder aside, which is undefined).  *)
MeansWhatCSays ==
  /\ Misses => \/ CharOverflows \/ CharRemainder \/ LeastIndexSubtracted \/ MisscaledDifference
               \/ LongDifference \/ BigLiteral \/ NegativeGlobal
  /\ last # Nothing /\ Meaning(last.op, last.l, last.r) # {} =>
       (CharOverflows \/ LeastIndexSubtracted \/ MisscaledDifference
          \/ LongDifference \/ BigLiteral \/ NegativeGlobal => Misses)
=============================================================================
