----------------------------- MODULE ParserProofs -----------------------------
(***************************************************************************)
(* Proofs about the parser and about ast_free(): the tree is of the        *)
(* grammar after any errors, no node is shared or lost while it is built,  *)
(* and each is freed once.                                                 *)
(***************************************************************************)
EXTENDS Parsing, RoundTrip, SequenceTheorems, NaturalsInduction, WellFoundedInduction, TLAPS

-----------------------------------------------------------------------------
(* Sequences, of whatever elements. *)

IsSeq(s) == \E S : s \in Seq(S)

LEMMA SeqAppend ==
  ASSUME NEW s, IsSeq(s), NEW x
  PROVE  /\ IsSeq(Append(s, x)) /\ Len(s) \in Nat /\ Len(Append(s, x)) = Len(s) + 1 /\ Append(s, x) # <<>>
         /\ \A i \in 1..(Len(s) + 1) : Append(s, x)[i] = IF i <= Len(s) THEN s[i] ELSE x
         /\ DOMAIN s = 1..Len(s) /\ DOMAIN Append(s, x) = 1..(Len(s) + 1)
<1>1. PICK S : s \in Seq(S)
  BY DEF IsSeq
<1> DEFINE T == S \cup {x}
<1>2. s \in Seq(T) /\ x \in T
  <2>1. S \subseteq T /\ x \in T
    OBVIOUS
  <2> HIDE DEF T
  <2> QED
    BY <1>1, <2>1
<1> HIDE DEF T
<1>3. /\ Append(s, x) \in Seq(T) /\ Append(s, x) # <<>> /\ Len(Append(s, x)) = Len(s) + 1
      /\ \A i \in 1..Len(s) : Append(s, x)[i] = s[i]
      /\ Append(s, x)[Len(s) + 1] = x
  BY <1>2, AppendProperties
<1>4. Len(s) \in Nat /\ DOMAIN s = 1..Len(s) /\ DOMAIN Append(s, x) = 1..Len(Append(s, x))
  BY <1>2, <1>3
<1> QED
  BY <1>3, <1>4 DEF IsSeq

LEMMA SeqConcat ==
  ASSUME NEW s, IsSeq(s), NEW t, IsSeq(t)
  PROVE  /\ IsSeq(s \o t) /\ Len(s) \in Nat /\ Len(t) \in Nat /\ Len(s \o t) = Len(s) + Len(t)
         /\ \A i \in 1..(Len(s) + Len(t)) : (s \o t)[i] = IF i <= Len(s) THEN s[i] ELSE t[i - Len(s)]
         /\ DOMAIN s = 1..Len(s) /\ DOMAIN t = 1..Len(t) /\ DOMAIN (s \o t) = 1..(Len(s) + Len(t))
<1>1. PICK S : s \in Seq(S)
  BY DEF IsSeq
<1>2. PICK T : t \in Seq(T)
  BY DEF IsSeq
<1> DEFINE U == S \cup T
<1>3. s \in Seq(U) /\ t \in Seq(U)
  <2>1. S \subseteq U /\ T \subseteq U
    OBVIOUS
  <2> HIDE DEF U
  <2> QED
    BY <1>1, <1>2, <2>1
<1> HIDE DEF U
<1>4. /\ s \o t \in Seq(U) /\ Len(s \o t) = Len(s) + Len(t)
      /\ \A i \in 1..(Len(s) + Len(t)) : (s \o t)[i] = IF i <= Len(s) THEN s[i] ELSE t[i - Len(s)]
  BY <1>3, ConcatProperties
<1>5. Len(s) \in Nat /\ Len(t) \in Nat /\ DOMAIN s = 1..Len(s) /\ DOMAIN t = 1..Len(t) /\ DOMAIN (s \o t) = 1..Len(s \o t)
  BY <1>3, <1>4
<1> QED
  BY <1>4, <1>5 DEF IsSeq

LEMMA SeqPrefix ==
  ASSUME NEW s, IsSeq(s), NEW n \in Nat, n <= Len(s)
  PROVE  /\ IsSeq(SubSeq(s, 1, n)) /\ Len(SubSeq(s, 1, n)) = n /\ DOMAIN SubSeq(s, 1, n) = 1..n
         /\ \A i \in 1..n : SubSeq(s, 1, n)[i] = s[i]
<1>1. PICK S : s \in Seq(S)
  BY DEF IsSeq
<1>2. \A i \in 1..n : s[i] \in S
  BY <1>1
<1>3. /\ SubSeq(s, 1, n) \in Seq(S)
      /\ Len(SubSeq(s, 1, n)) = IF 1 <= n THEN n - 1 + 1 ELSE 0
      /\ \A i \in 1..(n - 1 + 1) : SubSeq(s, 1, n)[i] = s[1 + i - 1]
  BY <1>2, SubSeqProperties
<1>4. Len(SubSeq(s, 1, n)) = n /\ \A i \in 1..n : SubSeq(s, 1, n)[i] = s[i]
  BY <1>3
<1>5. DOMAIN SubSeq(s, 1, n) = 1..n
  BY <1>3, <1>4
<1> QED
  BY <1>3, <1>4, <1>5 DEF IsSeq

LEMMA SeqOne == \A x : IsSeq(<<x>>) /\ Len(<<x>>) = 1 /\ <<x>>[1] = x /\ DOMAIN <<x>> = 1..1
<1> SUFFICES ASSUME NEW x PROVE IsSeq(<<x>>) /\ Len(<<x>>) = 1 /\ <<x>>[1] = x /\ DOMAIN <<x>> = 1..1
  OBVIOUS
<1>1. <<x>> \in Seq({x})
  OBVIOUS
<1>2. Len(<<x>>) = 1 /\ <<x>>[1] = x /\ DOMAIN <<x>> = 1..1
  OBVIOUS
<1> QED
  BY <1>1, <1>2, Zenon DEF IsSeq

LEMMA SeqTwo ==
  \A x, y : IsSeq(<<x, y>>) /\ Len(<<x, y>>) = 2 /\ <<x, y>>[1] = x /\ <<x, y>>[2] = y /\ DOMAIN <<x, y>> = 1..2
<1> SUFFICES ASSUME NEW x, NEW y
             PROVE  /\ IsSeq(<<x, y>>) /\ Len(<<x, y>>) = 2 /\ <<x, y>>[1] = x /\ <<x, y>>[2] = y
                    /\ DOMAIN <<x, y>> = 1..2
  OBVIOUS
<1>1. <<x, y>> \in Seq({x, y})
  OBVIOUS
<1>2. Len(<<x, y>>) = 2 /\ <<x, y>>[1] = x /\ <<x, y>>[2] = y /\ DOMAIN <<x, y>> = 1..2
  OBVIOUS
<1> QED
  BY <1>1, <1>2, Zenon DEF IsSeq

LEMMA SeqNone == IsSeq(<<>>) /\ Len(<<>>) = 0 /\ DOMAIN <<>> = {}
<1>1. <<>> \in Seq({})
  OBVIOUS
<1>2. Len(<<>>) = 0 /\ DOMAIN <<>> = {}
  OBVIOUS
<1> QED
  BY <1>1, <1>2, Zenon DEF IsSeq

LEMMA SeqLen == ASSUME NEW s, IsSeq(s)
                PROVE  Len(s) \in Nat /\ DOMAIN s = 1..Len(s) /\ (s = <<>> <=> Len(s) = 0)
<1>1. PICK S : s \in Seq(S)
  BY DEF IsSeq
<1> QED
  BY <1>1

LEMMA SeqEqual2 ==
  ASSUME NEW s, IsSeq(s), NEW t, IsSeq(t), Len(s) = Len(t), \A i \in 1..Len(s) : s[i] = t[i]
  PROVE  s = t
<1>1. PICK S : s \in Seq(S)
  BY DEF IsSeq
<1>2. PICK T : t \in Seq(T)
  BY DEF IsSeq
<1> DEFINE U == S \cup T
<1>3. s \in Seq(U) /\ t \in Seq(U)
  <2>1. S \subseteq U /\ T \subseteq U
    OBVIOUS
  <2> HIDE DEF U
  <2> QED
    BY <1>1, <1>2, <2>1
<1> HIDE DEF U
<1> QED
  BY <1>3, SeqEqual

LEMMA AppendIs == ASSUME NEW s, IsSeq(s), NEW x PROVE Append(s, x) = s \o <<x>>
<1> DEFINE a == Append(s, x)
           b == s \o <<x>>
           n == Len(s)
<1>1. /\ IsSeq(a) /\ n \in Nat /\ Len(a) = n + 1 /\ \A i \in 1..(n + 1) : a[i] = IF i <= n THEN s[i] ELSE x
  BY SeqAppend
<1>2. IsSeq(<<x>>) /\ Len(<<x>>) = 1 /\ <<x>>[1] = x
  BY SeqOne
<1>3. IsSeq(b) /\ Len(b) = n + 1 /\ \A i \in 1..(n + 1) : b[i] = IF i <= n THEN s[i] ELSE <<x>>[i - n]
  <2> DEFINE t == <<x>>
  <2> HIDE DEF t
  <2>1. IsSeq(t) /\ Len(t) = 1
    BY <1>2 DEF t
  <2>2. IsSeq(s \o t) /\ Len(s \o t) = n + 1 /\ \A i \in 1..(n + 1) : (s \o t)[i] = IF i <= n THEN s[i] ELSE t[i - n]
    BY <2>1, SeqConcat
  <2> QED
    BY <2>2 DEF t
<1> HIDE DEF a, b, n
<1>4. \A i \in 1..(n + 1) : a[i] = b[i]
  <2> SUFFICES ASSUME NEW i \in 1..(n + 1) PROVE a[i] = b[i]
    OBVIOUS
  <2>1. i <= n \/ i - n = 1
    BY <1>1
  <2> QED
    BY <1>1, <1>2, <1>3, <2>1
<1>5. a = b
  BY <1>1, <1>3, <1>4, SeqEqual2
<1> QED
  BY <1>5 DEF a, b

LEMMA ConcatAssoc ==
  ASSUME NEW s, IsSeq(s), NEW t, IsSeq(t), NEW u, IsSeq(u)
  PROVE  (s \o t) \o u = s \o (t \o u)
<1>1. PICK S : s \in Seq(S)
  BY DEF IsSeq
<1>2. PICK T : t \in Seq(T)
  BY DEF IsSeq
<1>3. PICK W : u \in Seq(W)
  BY DEF IsSeq
<1> DEFINE U == S \cup T \cup W
<1>4. s \in Seq(U) /\ t \in Seq(U) /\ u \in Seq(U)
  <2>1. S \subseteq U /\ T \subseteq U /\ W \subseteq U
    OBVIOUS
  <2> HIDE DEF U
  <2> QED
    BY <1>1, <1>2, <1>3, <2>1
<1> HIDE DEF U
<1> QED
  BY <1>4, ConcatAssociative

LEMMA SeqSplit ==
  ASSUME NEW s, IsSeq(s), s # <<>>
  PROVE  /\ IsSeq(Front(s)) /\ Len(Front(s)) = Len(s) - 1 /\ Len(s) \in Nat \ {0}
         /\ s = Front(s) \o <<Last(s)>> /\ Last(s) = s[Len(s)]
         /\ \A i \in 1..(Len(s) - 1) : Front(s)[i] = s[i]
<1> DEFINE f == Front(s)
           x == Last(s)
           n == Len(s)
<1>1. n \in Nat /\ n # 0
  BY SeqLen
<1>2. IsSeq(f) /\ Len(f) = n - 1 /\ \A i \in 1..(n - 1) : f[i] = s[i]
  <2>1. n - 1 \in Nat /\ n - 1 <= Len(s)
    BY <1>1
  <2>2. f = SubSeq(s, 1, n - 1)
    BY DEF Front
  <2> HIDE DEF f, n
  <2> QED
    BY <2>1, <2>2, SeqPrefix
<1>3. x = s[n]
  BY DEF Last
<1>4. IsSeq(Append(f, x)) /\ Len(Append(f, x)) = n /\ \A i \in 1..n : Append(f, x)[i] = IF i <= n - 1 THEN f[i] ELSE x
  <2> HIDE DEF f, x, n
  <2> QED
    BY <1>1, <1>2, SeqAppend
<1>5. \A i \in 1..n : Append(f, x)[i] = s[i]
  <2> HIDE DEF f, x
  <2> SUFFICES ASSUME NEW i \in 1..n PROVE Append(f, x)[i] = s[i]
    OBVIOUS
  <2>1. i \in 1..(n - 1) \/ i = n
    BY <1>1
  <2> QED
    BY <1>1, <1>2, <1>3, <1>4, <2>1
<1>6. Append(f, x) = s
  BY <1>4, <1>5, SeqEqual2
<1>7. Append(f, x) = f \o <<x>>
  BY <1>2, AppendIs
<1> QED
  BY <1>1, <1>2, <1>3, <1>6, <1>7

LEMMA Minimum ==
  ASSUME NEW T \in SUBSET Nat, T # {}
  PROVE  \E k \in T : \A l \in T : k <= l
<1>1. \A a, b \in Nat : <<a, b>> \in OpToRel(<, Nat) <=> a < b
  BY DEF OpToRel
<1>2. PICK R : IsWellFoundedOn(R, Nat) /\ \A a, b \in Nat : <<a, b>> \in R <=> a < b
  BY <1>1, NatLessThanWellFounded
<1>3. \A a, b \in Nat : ~(<<a, b>> \in R) => b <= a
  BY <1>2
<1>4. IsWellFoundedOn(R, Nat)
  BY <1>2
<1>5. PICK k \in T : \A l \in T : ~(<<l, k>> \in R)
  BY <1>4, WFMin, Zenon
<1> QED
  BY <1>3, <1>5

LEMMA Greatest ==
  ASSUME NEW N \in Nat, NEW T \in SUBSET (1..N), T # {}
  PROVE  \E m \in T : \A j \in T : m >= j
<1> DEFINE D == {N - i : i \in T}
<1>1. D \in SUBSET Nat /\ D # {}
  <2>1. \A i \in T : N - i \in Nat
    OBVIOUS
  <2> QED
    BY <2>1
<1> HIDE DEF D
<1>2. PICK d \in D : \A e \in D : d <= e
  BY <1>1, Minimum
<1>3. PICK m \in T : d = N - m
  BY <1>2 DEF D
<1>4. \A j \in T : m >= j
  <2> SUFFICES ASSUME NEW j \in T PROVE m >= j
    OBVIOUS
  <2>1. N - j \in D
    BY DEF D
  <2>2. N - m <= N - j /\ m \in 1..N /\ j \in 1..N
    BY <1>2, <1>3, <2>1
  <2> QED
    BY <2>2
<1> QED
  BY <1>4

-----------------------------------------------------------------------------
(* What a parse function has and what it waits for. *)

\* The kinds of the nodes each returns.
Results(fn) ==
  IF fn = "declaration" THEN {"VAR_DECL", "FUNC_DECL"}
  ELSE IF fn \in DOMAIN Scripts \ {"paren"} THEN {Scripts[fn].kind}
  ELSE ExprKinds

\* What child i of the node it builds may be.
Accepts(fn, i) ==
  IF fn \in DOMAIN Scripts \ {"paren"} THEN Slot(Scripts[fn].kind, i) ELSE ExprKinds

\* How many children a script may have before each of its steps, and at its end.
Counts ==
  [parse_var_decl |-> <<{0}, {0}, {0}, {0}, {1}, {1}>>,
   parse_block    |-> <<{0}, Nat, Nat, Nat>>,
   parse_return   |-> <<{0}, {0}, {0}, {1}, {1}>>,
   parse_if       |-> <<{0}, {0}, {0}, {1}, {1}, {2}, {2}, {3}>>,
   parse_while    |-> <<{0}, {0}, {0}, {1}, {1}, {2}>>,
   parse_for      |-> <<{0}, {0}, {0}, {0}, {1}, {1}, {2}, {2}, {2}, {3}, {3}, {4}>>,
   expr_stmt      |-> <<{0}, {1}, {1}>>,
   declaration    |-> <<{0}, {0}, {0}, {}>>,
   function       |-> <<{0}, {0}, {0}, {0}, {0}, {0}, {0}, {0, 1}, {1}>>,
   global_var     |-> <<{0}, {0}, {1}, {1}>>,
   parse          |-> <<Nat, Nat>>,
   call           |-> <<Nat \ {0}, Nat \ {0}, Nat \ {0}, Nat \ {0}, Nat \ {0}>>,
   index          |-> <<{1}, {2}, {2}>>,
   member         |-> <<{1}, {1}>>,
   paren          |-> <<{0}, {1}, {1}>>,
   unary          |-> <<{0}, {1}>>,
   binary         |-> <<{1}, {2}>>,
   assign         |-> <<{1}, {2}>>]

StepOf(fn, pc) == Scripts[fn].steps[pc]
End(fn) == Len(Scripts[fn].steps) + 1
Iterations == {"many", "declarations"}
NextPc(fn, pc) == IF StepOf(fn, pc).do \in Iterations THEN pc ELSE pc + 1

\* At step to, it may have n children more than it had at pc.
Goes(fn, pc, to, n) == to \in 1..End(fn) /\ \A c \in Counts[fn][pc] : c + n \in Counts[fn][to]

\* The kinds a call may return: those of the first function it adds to the stack.
Called(fn) ==
  IF fn = "parse_expr" THEN ExprKinds
  ELSE IF fn = "parse_stmt" THEN StmtKinds
  ELSE IF fn = "for_init" THEN {"VAR_DECL", "EXPR_STMT"}
  ELSE Results(fn)

Plain == {"expect", "name", "type", "pname", "many", "declarations", "if", "unless", "take", "jump", "loop", "param"}

TableOK(fn, pc) ==
  LET step == StepOf(fn, pc)
  IN  /\ step.do \in Plain /\ ~(fn = "function" /\ pc = 8) => Goes(fn, pc, pc + 1, 0)
      /\ step.do \in {"jump", "loop", "param"} => Goes(fn, pc, step.to, 0)
      /\ step.do \in {"if", "unless", "take"} =>
           Goes(fn, pc, pc + 2, 1) /\ \A c \in Counts[fn][pc] : "NULL" \in Accepts(fn, c + 1)
      /\ step.do \in {"call", "many", "declarations", "wait"} => Goes(fn, pc, NextPc(fn, pc), 1)
      /\ step.do \in {"call", "many"} =>
           /\ step.fn \in {"parse_expr", "parse_stmt", "for_init"}
           /\ \A c \in Counts[fn][pc] : Called(step.fn) \subseteq Accepts(fn, c + 1)
      /\ step.do = "declarations" => \A c \in Counts[fn][pc] : Results("declaration") \subseteq Accepts(fn, c + 1)
      /\ step.do = "body" => fn = "function" /\ pc = 7
      /\ step.do = "declarator" => fn = "declaration" /\ pc = 3
      /\ fn = "function" =>
           /\ step.do \in Plain => pc # 7
           /\ step.do \in {"jump", "loop", "param"} => step.to # 8
           /\ step.do \notin {"if", "unless", "take", "many", "declarations", "call"}

ScriptNames ==
  {"parse_var_decl", "parse_block", "parse_return", "parse_if", "parse_while", "parse_for", "expr_stmt",
   "declaration", "function", "global_var", "parse", "call", "index", "member", "paren", "unary",
   "binary", "assign"}
OperatorNames ==
  {"parse_assignment", "parse_logical_or", "parse_logical_and", "parse_equality", "parse_relational",
   "parse_additive", "parse_multiplicative", "parse_postfix"}

LEMMA Domains == DOMAIN Scripts = ScriptNames /\ DOMAIN Operators = OperatorNames /\ DOMAIN Counts = ScriptNames
  BY DEF Scripts, Operators, Counts, ScriptNames, OperatorNames

LEMMA ScriptDefs ==
  /\ Scripts["parse_var_decl"] = parse_var_decl /\ Scripts["parse_block"] = parse_block
  /\ Scripts["parse_return"] = parse_return /\ Scripts["parse_if"] = parse_if
  /\ Scripts["parse_while"] = parse_while /\ Scripts["parse_for"] = parse_for
  /\ Scripts["expr_stmt"] = expr_stmt /\ Scripts["declaration"] = declaration
  /\ Scripts["function"] = function /\ Scripts["global_var"] = global_var
  /\ Scripts["parse"] = program /\ Scripts["call"] = call /\ Scripts["index"] = index
  /\ Scripts["member"] = member /\ Scripts["paren"] = paren /\ Scripts["unary"] = Waiting("UNARY")
  /\ Scripts["binary"] = Waiting("BINARY") /\ Scripts["assign"] = Waiting("ASSIGN")
  BY DEF Scripts

Scripted(fn) == \A pc \in 1..(End(fn) - 1) : TableOK(fn, pc)

LEMMA CalledKinds ==
  /\ Called("parse_expr") = ExprKinds /\ Called("parse_stmt") = StmtKinds
  /\ Called("for_init") = {"VAR_DECL", "EXPR_STMT"} /\ Results("declaration") = {"VAR_DECL", "FUNC_DECL"}
  /\ "VAR_DECL" \in StmtKinds /\ "EXPR_STMT" \in StmtKinds
  BY DEF Called, Results, StmtKinds

LEMMA TheScripts == \A fn \in ScriptNames : Scripted(fn)
<1>1. Scripted("parse_var_decl")
  <2> DEFINE f == "parse_var_decl"
  <2>1. /\ End(f) = 6 /\ StepOf(f, 1).do = "type" /\ StepOf(f, 2).do = "name" /\ StepOf(f, 3).do = "if"
        /\ StepOf(f, 4).do = "call" /\ StepOf(f, 4).fn = "parse_expr" /\ StepOf(f, 5).do = "expect"
    BY ScriptDefs DEF StepOf, End, Step, NoName, parse_var_decl, Type, Name, If, Call, Expect
  <2>2. Counts[f] = <<{0}, {0}, {0}, {0}, {1}, {1}>>
    BY DEF Counts
  <2>3. \A c : Accepts(f, c) = Slot("VAR_DECL", c)
    BY ScriptDefs, Domains DEF Accepts, ScriptNames, parse_var_decl
  <2> HIDE DEF f
  <2>4. TableOK("parse_var_decl", 1)
    BY <2>1, <2>2, <2>3, CalledKinds
       DEF f, TableOK, Goes, NextPc, Iterations, Plain, Slot, IsStmtSlot, MayBeNull, ExprSlot, StmtSlot, Null
  <2>5. TableOK("parse_var_decl", 2)
    BY <2>1, <2>2, <2>3, CalledKinds
       DEF f, TableOK, Goes, NextPc, Iterations, Plain, Slot, IsStmtSlot, MayBeNull, ExprSlot, StmtSlot, Null
  <2>6. TableOK("parse_var_decl", 3)
    BY <2>1, <2>2, <2>3, CalledKinds
       DEF f, TableOK, Goes, NextPc, Iterations, Plain, Slot, IsStmtSlot, MayBeNull, ExprSlot, StmtSlot, Null
  <2>7. TableOK("parse_var_decl", 4)
    BY <2>1, <2>2, <2>3, CalledKinds
       DEF f, TableOK, Goes, NextPc, Iterations, Plain, Slot, IsStmtSlot, MayBeNull, ExprSlot, StmtSlot, Null
  <2>8. TableOK("parse_var_decl", 5)
    BY <2>1, <2>2, <2>3, CalledKinds
       DEF f, TableOK, Goes, NextPc, Iterations, Plain, Slot, IsStmtSlot, MayBeNull, ExprSlot, StmtSlot, Null
  <2> QED
    BY <2>1, <2>4, <2>5, <2>6, <2>7, <2>8 DEF Scripted, f
<1>2. Scripted("parse_block")
  <2> DEFINE f == "parse_block"
  <2>1. /\ End(f) = 4 /\ StepOf(f, 1).do = "expect"
        /\ StepOf(f, 2).do = "many" /\ StepOf(f, 2).fn = "parse_stmt" /\ StepOf(f, 3).do = "expect"
    BY ScriptDefs DEF StepOf, End, Step, NoName, parse_block, Expect, Many
  <2>2. Counts[f] = <<{0}, Nat, Nat, Nat>>
    BY DEF Counts
  <2>3. \A c : Accepts(f, c) = Slot("BLOCK", c)
    BY ScriptDefs, Domains DEF Accepts, ScriptNames, parse_block
  <2> HIDE DEF f
  <2>4. TableOK("parse_block", 1)
    BY <2>1, <2>2, <2>3, CalledKinds
       DEF f, TableOK, Goes, NextPc, Iterations, Plain, Slot, IsStmtSlot, MayBeNull, ExprSlot, StmtSlot, Null
  <2>5. TableOK("parse_block", 2)
    BY <2>1, <2>2, <2>3, CalledKinds
       DEF f, TableOK, Goes, NextPc, Iterations, Plain, Slot, IsStmtSlot, MayBeNull, ExprSlot, StmtSlot, Null
  <2>6. TableOK("parse_block", 3)
    BY <2>1, <2>2, <2>3, CalledKinds
       DEF f, TableOK, Goes, NextPc, Iterations, Plain, Slot, IsStmtSlot, MayBeNull, ExprSlot, StmtSlot, Null
  <2> QED
    BY <2>1, <2>4, <2>5, <2>6 DEF Scripted, f
<1>3. Scripted("parse_return")
  <2> DEFINE f == "parse_return"
  <2>1. /\ End(f) = 5 /\ StepOf(f, 1).do = "expect" /\ StepOf(f, 2).do = "unless"
        /\ StepOf(f, 3).do = "call" /\ StepOf(f, 3).fn = "parse_expr" /\ StepOf(f, 4).do = "expect"
    BY ScriptDefs DEF StepOf, End, Step, NoName, parse_return, Expect, Unless, Call
  <2>2. Counts[f] = <<{0}, {0}, {0}, {1}, {1}>>
    BY DEF Counts
  <2>3. \A c : Accepts(f, c) = Slot("RETURN", c)
    BY ScriptDefs, Domains DEF Accepts, ScriptNames, parse_return
  <2> HIDE DEF f
  <2>4. TableOK("parse_return", 1)
    BY <2>1, <2>2, <2>3, CalledKinds
       DEF f, TableOK, Goes, NextPc, Iterations, Plain, Slot, IsStmtSlot, MayBeNull, ExprSlot, StmtSlot, Null
  <2>5. TableOK("parse_return", 2)
    BY <2>1, <2>2, <2>3, CalledKinds
       DEF f, TableOK, Goes, NextPc, Iterations, Plain, Slot, IsStmtSlot, MayBeNull, ExprSlot, StmtSlot, Null
  <2>6. TableOK("parse_return", 3)
    BY <2>1, <2>2, <2>3, CalledKinds
       DEF f, TableOK, Goes, NextPc, Iterations, Plain, Slot, IsStmtSlot, MayBeNull, ExprSlot, StmtSlot, Null
  <2>7. TableOK("parse_return", 4)
    BY <2>1, <2>2, <2>3, CalledKinds
       DEF f, TableOK, Goes, NextPc, Iterations, Plain, Slot, IsStmtSlot, MayBeNull, ExprSlot, StmtSlot, Null
  <2> QED
    BY <2>1, <2>4, <2>5, <2>6, <2>7 DEF Scripted, f
<1>4. Scripted("parse_if")
  <2> DEFINE f == "parse_if"
  <2>1. /\ End(f) = 8 /\ StepOf(f, 1).do = "expect" /\ StepOf(f, 2).do = "expect"
        /\ StepOf(f, 3).do = "call" /\ StepOf(f, 3).fn = "parse_expr" /\ StepOf(f, 4).do = "expect"
        /\ StepOf(f, 5).do = "call" /\ StepOf(f, 5).fn = "parse_stmt" /\ StepOf(f, 6).do = "if"
        /\ StepOf(f, 7).do = "call" /\ StepOf(f, 7).fn = "parse_stmt"
    BY ScriptDefs DEF StepOf, End, Step, NoName, parse_if, Expect, Call, If
  <2>2. Counts[f] = <<{0}, {0}, {0}, {1}, {1}, {2}, {2}, {3}>>
    BY DEF Counts
  <2>3. \A c : Accepts(f, c) = Slot("IF", c)
    BY ScriptDefs, Domains DEF Accepts, ScriptNames, parse_if
  <2> HIDE DEF f
  <2>4. TableOK("parse_if", 1)
    BY <2>1, <2>2, <2>3, CalledKinds
       DEF f, TableOK, Goes, NextPc, Iterations, Plain, Slot, IsStmtSlot, MayBeNull, ExprSlot, StmtSlot, Null
  <2>5. TableOK("parse_if", 2)
    BY <2>1, <2>2, <2>3, CalledKinds
       DEF f, TableOK, Goes, NextPc, Iterations, Plain, Slot, IsStmtSlot, MayBeNull, ExprSlot, StmtSlot, Null
  <2>6. TableOK("parse_if", 3)
    BY <2>1, <2>2, <2>3, CalledKinds
       DEF f, TableOK, Goes, NextPc, Iterations, Plain, Slot, IsStmtSlot, MayBeNull, ExprSlot, StmtSlot, Null
  <2>7. TableOK("parse_if", 4)
    BY <2>1, <2>2, <2>3, CalledKinds
       DEF f, TableOK, Goes, NextPc, Iterations, Plain, Slot, IsStmtSlot, MayBeNull, ExprSlot, StmtSlot, Null
  <2>8. TableOK("parse_if", 5)
    BY <2>1, <2>2, <2>3, CalledKinds
       DEF f, TableOK, Goes, NextPc, Iterations, Plain, Slot, IsStmtSlot, MayBeNull, ExprSlot, StmtSlot, Null
  <2>9. TableOK("parse_if", 6)
    BY <2>1, <2>2, <2>3, CalledKinds
       DEF f, TableOK, Goes, NextPc, Iterations, Plain, Slot, IsStmtSlot, MayBeNull, ExprSlot, StmtSlot, Null
  <2>10. TableOK("parse_if", 7)
    BY <2>1, <2>2, <2>3, CalledKinds
       DEF f, TableOK, Goes, NextPc, Iterations, Plain, Slot, IsStmtSlot, MayBeNull, ExprSlot, StmtSlot, Null
  <2> QED
    BY <2>1, <2>4, <2>5, <2>6, <2>7, <2>8, <2>9, <2>10 DEF Scripted, f
<1>5. Scripted("parse_while")
  <2> DEFINE f == "parse_while"
  <2>1. /\ End(f) = 6 /\ StepOf(f, 1).do = "expect" /\ StepOf(f, 2).do = "expect"
        /\ StepOf(f, 3).do = "call" /\ StepOf(f, 3).fn = "parse_expr" /\ StepOf(f, 4).do = "expect"
        /\ StepOf(f, 5).do = "call" /\ StepOf(f, 5).fn = "parse_stmt"
    BY ScriptDefs DEF StepOf, End, Step, NoName, parse_while, Expect, Call
  <2>2. Counts[f] = <<{0}, {0}, {0}, {1}, {1}, {2}>>
    BY DEF Counts
  <2>3. \A c : Accepts(f, c) = Slot("WHILE", c)
    BY ScriptDefs, Domains DEF Accepts, ScriptNames, parse_while
  <2> HIDE DEF f
  <2>4. TableOK("parse_while", 1)
    BY <2>1, <2>2, <2>3, CalledKinds
       DEF f, TableOK, Goes, NextPc, Iterations, Plain, Slot, IsStmtSlot, MayBeNull, ExprSlot, StmtSlot, Null
  <2>5. TableOK("parse_while", 2)
    BY <2>1, <2>2, <2>3, CalledKinds
       DEF f, TableOK, Goes, NextPc, Iterations, Plain, Slot, IsStmtSlot, MayBeNull, ExprSlot, StmtSlot, Null
  <2>6. TableOK("parse_while", 3)
    BY <2>1, <2>2, <2>3, CalledKinds
       DEF f, TableOK, Goes, NextPc, Iterations, Plain, Slot, IsStmtSlot, MayBeNull, ExprSlot, StmtSlot, Null
  <2>7. TableOK("parse_while", 4)
    BY <2>1, <2>2, <2>3, CalledKinds
       DEF f, TableOK, Goes, NextPc, Iterations, Plain, Slot, IsStmtSlot, MayBeNull, ExprSlot, StmtSlot, Null
  <2>8. TableOK("parse_while", 5)
    BY <2>1, <2>2, <2>3, CalledKinds
       DEF f, TableOK, Goes, NextPc, Iterations, Plain, Slot, IsStmtSlot, MayBeNull, ExprSlot, StmtSlot, Null
  <2> QED
    BY <2>1, <2>4, <2>5, <2>6, <2>7, <2>8 DEF Scripted, f
<1>6. Scripted("parse_for")
  <2> DEFINE f == "parse_for"
  <2>1. /\ End(f) = 12 /\ StepOf(f, 1).do = "expect" /\ StepOf(f, 2).do = "expect" /\ StepOf(f, 3).do = "take"
        /\ StepOf(f, 4).do = "call" /\ StepOf(f, 4).fn = "for_init" /\ StepOf(f, 5).do = "unless"
        /\ StepOf(f, 6).do = "call" /\ StepOf(f, 6).fn = "parse_expr" /\ StepOf(f, 7).do = "expect"
        /\ StepOf(f, 8).do = "unless" /\ StepOf(f, 9).do = "call" /\ StepOf(f, 9).fn = "parse_expr"
        /\ StepOf(f, 10).do = "expect" /\ StepOf(f, 11).do = "call" /\ StepOf(f, 11).fn = "parse_stmt"
    BY ScriptDefs DEF StepOf, End, Step, NoName, parse_for, Expect, UnlessTaking, Call, Unless
  <2>2. Counts[f] = <<{0}, {0}, {0}, {0}, {1}, {1}, {2}, {2}, {2}, {3}, {3}, {4}>>
    BY DEF Counts
  <2>3. \A c : Accepts(f, c) = Slot("FOR", c)
    BY ScriptDefs, Domains DEF Accepts, ScriptNames, parse_for
  <2> HIDE DEF f
  <2>4. TableOK("parse_for", 1)
    BY <2>1, <2>2, <2>3, CalledKinds
       DEF f, TableOK, Goes, NextPc, Iterations, Plain, Slot, IsStmtSlot, MayBeNull, ExprSlot, StmtSlot, Null
  <2>5. TableOK("parse_for", 2)
    BY <2>1, <2>2, <2>3, CalledKinds
       DEF f, TableOK, Goes, NextPc, Iterations, Plain, Slot, IsStmtSlot, MayBeNull, ExprSlot, StmtSlot, Null
  <2>6. TableOK("parse_for", 3)
    BY <2>1, <2>2, <2>3, CalledKinds
       DEF f, TableOK, Goes, NextPc, Iterations, Plain, Slot, IsStmtSlot, MayBeNull, ExprSlot, StmtSlot, Null
  <2>7. TableOK("parse_for", 4)
    BY <2>1, <2>2, <2>3, CalledKinds
       DEF f, TableOK, Goes, NextPc, Iterations, Plain, Slot, IsStmtSlot, MayBeNull, ExprSlot, StmtSlot, Null
  <2>8. TableOK("parse_for", 5)
    BY <2>1, <2>2, <2>3, CalledKinds
       DEF f, TableOK, Goes, NextPc, Iterations, Plain, Slot, IsStmtSlot, MayBeNull, ExprSlot, StmtSlot, Null
  <2>9. TableOK("parse_for", 6)
    BY <2>1, <2>2, <2>3, CalledKinds
       DEF f, TableOK, Goes, NextPc, Iterations, Plain, Slot, IsStmtSlot, MayBeNull, ExprSlot, StmtSlot, Null
  <2>10. TableOK("parse_for", 7)
    BY <2>1, <2>2, <2>3, CalledKinds
       DEF f, TableOK, Goes, NextPc, Iterations, Plain, Slot, IsStmtSlot, MayBeNull, ExprSlot, StmtSlot, Null
  <2>11. TableOK("parse_for", 8)
    BY <2>1, <2>2, <2>3, CalledKinds
       DEF f, TableOK, Goes, NextPc, Iterations, Plain, Slot, IsStmtSlot, MayBeNull, ExprSlot, StmtSlot, Null
  <2>12. TableOK("parse_for", 9)
    BY <2>1, <2>2, <2>3, CalledKinds
       DEF f, TableOK, Goes, NextPc, Iterations, Plain, Slot, IsStmtSlot, MayBeNull, ExprSlot, StmtSlot, Null
  <2>13. TableOK("parse_for", 10)
    BY <2>1, <2>2, <2>3, CalledKinds
       DEF f, TableOK, Goes, NextPc, Iterations, Plain, Slot, IsStmtSlot, MayBeNull, ExprSlot, StmtSlot, Null
  <2>14. TableOK("parse_for", 11)
    BY <2>1, <2>2, <2>3, CalledKinds
       DEF f, TableOK, Goes, NextPc, Iterations, Plain, Slot, IsStmtSlot, MayBeNull, ExprSlot, StmtSlot, Null
  <2> QED
    BY <2>1, <2>4, <2>5, <2>6, <2>7, <2>8, <2>9, <2>10, <2>11, <2>12, <2>13, <2>14 DEF Scripted, f
<1>7. Scripted("expr_stmt")
  <2> DEFINE f == "expr_stmt"
  <2>1. /\ End(f) = 3 /\ StepOf(f, 1).do = "call" /\ StepOf(f, 1).fn = "parse_expr"
        /\ StepOf(f, 2).do = "expect"
    BY ScriptDefs DEF StepOf, End, Step, NoName, expr_stmt, Call, Expect
  <2>2. Counts[f] = <<{0}, {1}, {1}>>
    BY DEF Counts
  <2>3. \A c : Accepts(f, c) = Slot("EXPR_STMT", c)
    BY ScriptDefs, Domains DEF Accepts, ScriptNames, expr_stmt
  <2> HIDE DEF f
  <2>4. TableOK("expr_stmt", 1)
    BY <2>1, <2>2, <2>3, CalledKinds
       DEF f, TableOK, Goes, NextPc, Iterations, Plain, Slot, IsStmtSlot, MayBeNull, ExprSlot, StmtSlot, Null
  <2>5. TableOK("expr_stmt", 2)
    BY <2>1, <2>2, <2>3, CalledKinds
       DEF f, TableOK, Goes, NextPc, Iterations, Plain, Slot, IsStmtSlot, MayBeNull, ExprSlot, StmtSlot, Null
  <2> QED
    BY <2>1, <2>4, <2>5 DEF Scripted, f
<1>8. Scripted("declaration")
  <2> DEFINE f == "declaration"
  <2>1. /\ End(f) = 4 /\ StepOf(f, 1).do = "type" /\ StepOf(f, 2).do = "name"
        /\ StepOf(f, 3).do = "declarator"
    BY ScriptDefs DEF StepOf, End, Step, NoName, declaration, Type, Name
  <2>2. Counts[f] = <<{0}, {0}, {0}, {}>>
    BY DEF Counts
  <2> HIDE DEF f
  <2>4. TableOK("declaration", 1)
    BY <2>1, <2>2 DEF f, TableOK, Goes, NextPc, Iterations, Plain
  <2>5. TableOK("declaration", 2)
    BY <2>1, <2>2 DEF f, TableOK, Goes, NextPc, Iterations, Plain
  <2>6. TableOK("declaration", 3)
    BY <2>1, <2>2 DEF f, TableOK, Goes, NextPc, Iterations, Plain
  <2> QED
    BY <2>1, <2>4, <2>5, <2>6 DEF Scripted, f
<1>9. Scripted("function")
  <2> DEFINE f == "function"
  <2>1. /\ End(f) = 9 /\ StepOf(f, 1).do = "expect" /\ StepOf(f, 2).do = "jump" /\ StepOf(f, 2).to = 6
        /\ StepOf(f, 3).do = "param" /\ StepOf(f, 3).to = 6 /\ StepOf(f, 4).do = "pname"
        /\ StepOf(f, 5).do = "loop" /\ StepOf(f, 5).to = 3 /\ StepOf(f, 6).do = "expect"
        /\ StepOf(f, 7).do = "body" /\ StepOf(f, 8).do = "expect"
    BY ScriptDefs DEF StepOf, End, Step, NoName, function, Expect, Jump, ParamType, ParamName, Loop, Body
  <2>2. Counts[f] = <<{0}, {0}, {0}, {0}, {0}, {0}, {0}, {0, 1}, {1}>>
    BY DEF Counts
  <2> HIDE DEF f
  <2>4. TableOK("function", 1)
    BY <2>1, <2>2 DEF f, TableOK, Goes, NextPc, Iterations, Plain
  <2>5. TableOK("function", 2)
    BY <2>1, <2>2 DEF f, TableOK, Goes, NextPc, Iterations, Plain
  <2>6. TableOK("function", 3)
    BY <2>1, <2>2 DEF f, TableOK, Goes, NextPc, Iterations, Plain
  <2>7. TableOK("function", 4)
    BY <2>1, <2>2 DEF f, TableOK, Goes, NextPc, Iterations, Plain
  <2>8. TableOK("function", 5)
    BY <2>1, <2>2 DEF f, TableOK, Goes, NextPc, Iterations, Plain
  <2>9. TableOK("function", 6)
    BY <2>1, <2>2 DEF f, TableOK, Goes, NextPc, Iterations, Plain
  <2>10. TableOK("function", 7)
    BY <2>1, <2>2 DEF f, TableOK, Goes, NextPc, Iterations, Plain
  <2>11. TableOK("function", 8)
    BY <2>1, <2>2 DEF f, TableOK, Goes, NextPc, Iterations, Plain
  <2> QED
    BY <2>1, <2>4, <2>5, <2>6, <2>7, <2>8, <2>9, <2>10, <2>11 DEF Scripted, f
<1>10. Scripted("global_var")
  <2> DEFINE f == "global_var"
  <2>1. /\ End(f) = 4 /\ StepOf(f, 1).do = "if" /\ StepOf(f, 2).do = "call" /\ StepOf(f, 2).fn = "parse_expr"
        /\ StepOf(f, 3).do = "expect"
    BY ScriptDefs DEF StepOf, End, Step, NoName, global_var, If, Call, Expect
  <2>2. Counts[f] = <<{0}, {0}, {1}, {1}>>
    BY DEF Counts
  <2>3. \A c : Accepts(f, c) = Slot("VAR_DECL", c)
    BY ScriptDefs, Domains DEF Accepts, ScriptNames, global_var
  <2> HIDE DEF f
  <2>4. TableOK("global_var", 1)
    BY <2>1, <2>2, <2>3, CalledKinds
       DEF f, TableOK, Goes, NextPc, Iterations, Plain, Slot, IsStmtSlot, MayBeNull, ExprSlot, StmtSlot, Null
  <2>5. TableOK("global_var", 2)
    BY <2>1, <2>2, <2>3, CalledKinds
       DEF f, TableOK, Goes, NextPc, Iterations, Plain, Slot, IsStmtSlot, MayBeNull, ExprSlot, StmtSlot, Null
  <2>6. TableOK("global_var", 3)
    BY <2>1, <2>2, <2>3, CalledKinds
       DEF f, TableOK, Goes, NextPc, Iterations, Plain, Slot, IsStmtSlot, MayBeNull, ExprSlot, StmtSlot, Null
  <2> QED
    BY <2>1, <2>4, <2>5, <2>6 DEF Scripted, f
<1>11. Scripted("parse")
  <2> DEFINE f == "parse"
  <2>1. /\ End(f) = 2 /\ StepOf(f, 1).do = "declarations"
    BY ScriptDefs DEF StepOf, End, Step, NoName, program
  <2>2. Counts[f] = <<Nat, Nat>>
    BY DEF Counts
  <2>3. \A c : Accepts(f, c) = Slot("PROGRAM", c)
    BY ScriptDefs, Domains DEF Accepts, ScriptNames, program, Step, NoName
  <2> HIDE DEF f
  <2>4. TableOK("parse", 1)
    BY <2>1, <2>2, <2>3, CalledKinds
       DEF f, TableOK, Goes, NextPc, Iterations, Plain, Slot, IsStmtSlot, MayBeNull, ExprSlot, StmtSlot, Null
  <2> QED
    BY <2>1, <2>4 DEF Scripted, f
<1>12. Scripted("call")
  <2> DEFINE f == "call"
  <2>1. /\ End(f) = 5 /\ StepOf(f, 1).do = "jump" /\ StepOf(f, 1).to = 4
        /\ StepOf(f, 2).do = "call" /\ StepOf(f, 2).fn = "parse_expr"
        /\ StepOf(f, 3).do = "loop" /\ StepOf(f, 3).to = 2 /\ StepOf(f, 4).do = "expect"
    BY ScriptDefs DEF StepOf, End, Step, NoName, call, Jump, Call, Loop, Expect
  <2>2. Counts[f] = <<Nat \ {0}, Nat \ {0}, Nat \ {0}, Nat \ {0}, Nat \ {0}>>
    BY DEF Counts
  <2>3. \A c : Accepts(f, c) = Slot("CALL", c)
    BY ScriptDefs, Domains DEF Accepts, ScriptNames, call
  <2> HIDE DEF f
  <2>4. TableOK("call", 1)
    BY <2>1, <2>2, <2>3, CalledKinds
       DEF f, TableOK, Goes, NextPc, Iterations, Plain, Slot, IsStmtSlot, MayBeNull, ExprSlot, StmtSlot, Null
  <2>5. TableOK("call", 2)
    BY <2>1, <2>2, <2>3, CalledKinds
       DEF f, TableOK, Goes, NextPc, Iterations, Plain, Slot, IsStmtSlot, MayBeNull, ExprSlot, StmtSlot, Null
  <2>6. TableOK("call", 3)
    BY <2>1, <2>2, <2>3, CalledKinds
       DEF f, TableOK, Goes, NextPc, Iterations, Plain, Slot, IsStmtSlot, MayBeNull, ExprSlot, StmtSlot, Null
  <2>7. TableOK("call", 4)
    BY <2>1, <2>2, <2>3, CalledKinds
       DEF f, TableOK, Goes, NextPc, Iterations, Plain, Slot, IsStmtSlot, MayBeNull, ExprSlot, StmtSlot, Null
  <2> QED
    BY <2>1, <2>4, <2>5, <2>6, <2>7 DEF Scripted, f
<1>13. Scripted("index")
  <2> DEFINE f == "index"
  <2>1. /\ End(f) = 3 /\ StepOf(f, 1).do = "call" /\ StepOf(f, 1).fn = "parse_expr"
        /\ StepOf(f, 2).do = "expect"
    BY ScriptDefs DEF StepOf, End, Step, NoName, index, Call, Expect
  <2>2. Counts[f] = <<{1}, {2}, {2}>>
    BY DEF Counts
  <2>3. \A c : Accepts(f, c) = Slot("INDEX", c)
    BY ScriptDefs, Domains DEF Accepts, ScriptNames, index
  <2> HIDE DEF f
  <2>4. TableOK("index", 1)
    BY <2>1, <2>2, <2>3, CalledKinds
       DEF f, TableOK, Goes, NextPc, Iterations, Plain, Slot, IsStmtSlot, MayBeNull, ExprSlot, StmtSlot, Null
  <2>5. TableOK("index", 2)
    BY <2>1, <2>2, <2>3, CalledKinds
       DEF f, TableOK, Goes, NextPc, Iterations, Plain, Slot, IsStmtSlot, MayBeNull, ExprSlot, StmtSlot, Null
  <2> QED
    BY <2>1, <2>4, <2>5 DEF Scripted, f
<1>14. Scripted("member")
  <2> DEFINE f == "member"
  <2>1. /\ End(f) = 2 /\ StepOf(f, 1).do = "name"
    BY ScriptDefs DEF StepOf, End, Step, NoName, member, Name
  <2>2. Counts[f] = <<{1}, {1}>>
    BY DEF Counts
  <2> HIDE DEF f
  <2>4. TableOK("member", 1)
    BY <2>1, <2>2 DEF f, TableOK, Goes, NextPc, Iterations, Plain
  <2> QED
    BY <2>1, <2>4 DEF Scripted, f
<1>15. Scripted("paren")
  <2> DEFINE f == "paren"
  <2>1. /\ End(f) = 3 /\ StepOf(f, 1).do = "call" /\ StepOf(f, 1).fn = "parse_expr"
        /\ StepOf(f, 2).do = "expect"
    BY ScriptDefs DEF StepOf, End, Step, NoName, paren, Call, Expect
  <2>2. Counts[f] = <<{0}, {1}, {1}>>
    BY DEF Counts
  <2>3. \A c : Accepts(f, c) = ExprKinds
    BY ScriptDefs, Domains DEF Accepts, ScriptNames, paren
  <2> HIDE DEF f
  <2>4. TableOK("paren", 1)
    BY <2>1, <2>2, <2>3, CalledKinds DEF f, TableOK, Goes, NextPc, Iterations, Plain
  <2>5. TableOK("paren", 2)
    BY <2>1, <2>2, <2>3, CalledKinds DEF f, TableOK, Goes, NextPc, Iterations, Plain
  <2> QED
    BY <2>1, <2>4, <2>5 DEF Scripted, f
<1>16. Scripted("unary")
  <2> DEFINE f == "unary"
  <2>1. /\ End(f) = 2 /\ StepOf(f, 1).do = "wait"
    BY ScriptDefs DEF StepOf, End, Step, NoName, Waiting
  <2>2. Counts[f] = <<{0}, {1}>>
    BY DEF Counts
  <2> HIDE DEF f
  <2>4. TableOK("unary", 1)
    BY <2>1, <2>2 DEF f, TableOK, Goes, NextPc, Iterations, Plain
  <2> QED
    BY <2>1, <2>4 DEF Scripted, f
<1>17. Scripted("binary")
  <2> DEFINE f == "binary"
  <2>1. /\ End(f) = 2 /\ StepOf(f, 1).do = "wait"
    BY ScriptDefs DEF StepOf, End, Step, NoName, Waiting
  <2>2. Counts[f] = <<{1}, {2}>>
    BY DEF Counts
  <2> HIDE DEF f
  <2>4. TableOK("binary", 1)
    BY <2>1, <2>2 DEF f, TableOK, Goes, NextPc, Iterations, Plain
  <2> QED
    BY <2>1, <2>4 DEF Scripted, f
<1>18. Scripted("assign")
  <2> DEFINE f == "assign"
  <2>1. /\ End(f) = 2 /\ StepOf(f, 1).do = "wait"
    BY ScriptDefs DEF StepOf, End, Step, NoName, Waiting
  <2>2. Counts[f] = <<{1}, {2}>>
    BY DEF Counts
  <2> HIDE DEF f
  <2>4. TableOK("assign", 1)
    BY <2>1, <2>2 DEF f, TableOK, Goes, NextPc, Iterations, Plain
  <2> QED
    BY <2>1, <2>4 DEF Scripted, f
<1> QED
  BY <1>1, <1>2, <1>3, <1>4, <1>5, <1>6, <1>7, <1>8, <1>9, <1>10, <1>11, <1>12, <1>13, <1>14, <1>15, <1>16,
     <1>17, <1>18 DEF ScriptNames

-----------------------------------------------------------------------------
(* The invariant.  It is stated of any nodes and any call stack: most steps change only the     *)
(* top of the stack, and the two that add a node do so before its caller gets it.               *)

Kids(f) == f.node.kids

IsFrame(f) ==
  DOMAIN f = {"fn", "pc", "node"} /\ DOMAIN f.node = {"kind", "name", "type", "op", "params", "kids"}

KindIn(nds, m) == IF m = 0 THEN "NULL" ELSE nds[m].kind

\* What a parse function holds fits the node it builds.
FrameOK(nds, f) ==
  /\ IsFrame(f) /\ f.fn \in ScriptNames \cup OperatorNames \cup {"parse_unary"}
  /\ f.fn \in ScriptNames =>
       /\ f.node.kind = Scripts[f.fn].kind /\ f.pc \in 1..End(f.fn)
       /\ Len(Kids(f)) \in Counts[f.fn][f.pc]
  /\ f.fn \in OperatorNames => Len(Kids(f)) <= 1
  /\ f.fn = "parse_unary" => Kids(f) = <<>>
  /\ Kids(f) \in Seq(Nat)
  /\ \A i \in DOMAIN Kids(f) : Kids(f)[i] <= Len(nds) /\ KindIn(nds, Kids(f)[i]) \in Accepts(f.fn, i)

\* f takes a node of any of the kinds.
WaitsFor(f, kinds) ==
  /\ f.fn # "parse_unary" /\ (f.fn \in OperatorNames => Kids(f) = <<>>)
  /\ f.fn \in ScriptNames =>
       /\ f.pc < End(f.fn) /\ NextPc(f.fn, f.pc) \in 1..End(f.fn)
       /\ Len(Kids(f)) + 1 \in Counts[f.fn][NextPc(f.fn, f.pc)]
  /\ kinds \subseteq Accepts(f.fn, Len(Kids(f)) + 1)

\* The one place where a script looks at a token before it knows what it has: a body or none.
TopOK(f) == f.fn = "function" /\ f.pc = 8 => Len(Kids(f)) = 1

StackOK(nds, cs) ==
  /\ IsSeq(cs)
  /\ \A j \in DOMAIN cs : FrameOK(nds, cs[j])
  /\ \A j \in 1..(Len(cs) - 1) : WaitsFor(cs[j], Results(cs[j + 1].fn))
  /\ cs # <<>> => cs[1].fn = "parse" /\ TopOK(cs[Len(cs)])

\* A stack whose last function waits for a node of the kinds.
Ready(nds, cs, kinds) ==
  /\ IsSeq(cs)
  /\ \A j \in DOMAIN cs : FrameOK(nds, cs[j])
  /\ \A j \in 1..(Len(cs) - 1) : WaitsFor(cs[j], Results(cs[j + 1].fn))
  /\ cs # <<>> => cs[1].fn = "parse" /\ WaitsFor(cs[Len(cs)], kinds)
  /\ cs = <<>> => kinds \subseteq {"PROGRAM"}

\* Functions that may be put on a stack.
Row(nds, fs) ==
  /\ IsSeq(fs) /\ fs # <<>>
  /\ \A j \in DOMAIN fs : FrameOK(nds, fs[j])
  /\ \A j \in 1..(Len(fs) - 1) : WaitsFor(fs[j], Results(fs[j + 1].fn))
  /\ TopOK(fs[Len(fs)])

LEMMA OnlyParse == \A fn \in ScriptNames \cup OperatorNames \cup {"parse_unary"} :
                     Results(fn) \subseteq {"PROGRAM"} => fn = "parse"
  BY Domains, ScriptDefs, SMTT(30) DEF Results, ScriptNames, OperatorNames, ExprKinds, Literals, Waiting, parse_var_decl, parse_block,
     parse_return, parse_if, parse_while, parse_for, expr_stmt, declaration, function, global_var, call, index,
     member, paren

LEMMA StackPops ==
  ASSUME NEW nds, NEW s, IsSeq(s), NEW t, StackOK(nds, s \o <<t>>)
  PROVE  Ready(nds, s, Results(t.fn)) /\ FrameOK(nds, t) /\ TopOK(t)
<1> DEFINE u == <<t>>
           c == s \o u
           n == Len(s)
<1>1. IsSeq(u) /\ Len(u) = 1 /\ u[1] = t
  BY SeqOne
<1>2. n \in Nat /\ DOMAIN s = 1..n /\ (s = <<>> <=> n = 0)
  BY SeqLen
<1>3. /\ Len(c) = n + 1 /\ DOMAIN c = 1..(n + 1)
      /\ \A i \in 1..(n + 1) : c[i] = IF i <= n THEN s[i] ELSE u[i - n]
  <2> HIDE DEF u
  <2> QED
    BY <1>1, SeqConcat
<1>4. StackOK(nds, c) /\ IsSeq(c) /\ c # <<>>
  <2>1. StackOK(nds, c)
    OBVIOUS
  <2> HIDE DEF c
  <2> QED
    BY <1>2, <1>3, <2>1, SeqLen DEF StackOK
<1> HIDE DEF c, u
<1>5. c[n + 1] = t /\ \A i \in 1..n : c[i] = s[i]
  BY <1>1, <1>2, <1>3
<1>6. FrameOK(nds, t) /\ TopOK(t)
  BY <1>2, <1>3, <1>4, <1>5 DEF StackOK
<1>7. \A j \in DOMAIN s : FrameOK(nds, s[j])
  BY <1>2, <1>3, <1>4, <1>5 DEF StackOK
<1>8. \A j \in 1..n : WaitsFor(s[j], Results(c[j + 1].fn))
  BY <1>2, <1>3, <1>4, <1>5 DEF StackOK
<1>9. s # <<>> => s[1].fn = "parse" /\ WaitsFor(s[n], Results(t.fn))
  BY <1>2, <1>3, <1>4, <1>5, <1>8 DEF StackOK
<1>10. s = <<>> => Results(t.fn) \subseteq {"PROGRAM"}
  <2> SUFFICES ASSUME s = <<>> PROVE Results(t.fn) \subseteq {"PROGRAM"}
    OBVIOUS
  <2>1. t.fn = "parse"
    BY <1>2, <1>4, <1>5 DEF StackOK
  <2> QED
    BY <2>1, Domains, ScriptDefs DEF Results, ScriptNames, program
<1>11. \A j \in 1..(n - 1) : WaitsFor(s[j], Results(s[j + 1].fn))
  BY <1>2, <1>5, <1>8
<1> HIDE DEF n
<1> QED
  BY <1>6, <1>7, <1>9, <1>10, <1>11 DEF Ready, n

LEMMA StackGrows ==
  ASSUME NEW nds, NEW s, NEW kinds, Ready(nds, s, kinds), NEW fs, Row(nds, fs), Results(fs[1].fn) \subseteq kinds
  PROVE  StackOK(nds, s \o fs)
<1> DEFINE c == s \o fs
           n == Len(s)
           m == Len(fs)
<1>1. n \in Nat /\ DOMAIN s = 1..n /\ (s = <<>> <=> n = 0) /\ IsSeq(s)
  BY SeqLen DEF Ready
<1>2. m \in Nat \ {0} /\ DOMAIN fs = 1..m /\ IsSeq(fs)
  BY SeqLen DEF Row
<1>3. /\ IsSeq(c) /\ Len(c) = n + m /\ DOMAIN c = 1..(n + m)
      /\ \A i \in 1..(n + m) : c[i] = IF i <= n THEN s[i] ELSE fs[i - n]
  BY <1>1, <1>2, SeqConcat
<1> HIDE DEF c
<1>4. /\ \A i \in 1..n : c[i] = s[i] /\ FrameOK(nds, c[i])
      /\ \A i \in 1..m : c[n + i] = fs[i] /\ FrameOK(nds, c[n + i])
  <2>1. \A i \in 1..n : c[i] = s[i] /\ FrameOK(nds, s[i])
    BY <1>1, <1>2, <1>3 DEF Ready
  <2>2. \A i \in 1..m : c[n + i] = fs[i] /\ FrameOK(nds, fs[i])
    BY <1>1, <1>2, <1>3 DEF Row
  <2> QED
    BY <2>1, <2>2
<1>5. \A j \in DOMAIN c : FrameOK(nds, c[j])
  <2> SUFFICES ASSUME NEW j \in 1..(n + m) PROVE FrameOK(nds, c[j])
    BY <1>3
  <2>1. j \in 1..n \/ j - n \in 1..m
    BY <1>1, <1>2
  <2>2. n + (j - n) = j
    BY <1>1
  <2> QED
    BY <1>4, <2>1, <2>2
<1>6. \A j \in 1..(n + m - 1) : WaitsFor(c[j], Results(c[j + 1].fn))
  <2> SUFFICES ASSUME NEW j \in 1..(n + m - 1) PROVE WaitsFor(c[j], Results(c[j + 1].fn))
    OBVIOUS
  <2>1. CASE j < n
    <3>1. j \in 1..(n - 1) /\ c[j] = s[j] /\ c[j + 1] = s[j + 1]
      BY <1>1, <1>2, <1>4, <2>1
    <3> QED
      BY <3>1 DEF Ready
  <2>2. CASE j = n
    <3>1. s # <<>> /\ c[j] = s[n] /\ c[j + 1] = fs[1]
      BY <1>1, <1>2, <1>4, <2>2
    <3> QED
      BY <3>1 DEF Ready, WaitsFor
  <2>3. CASE j > n
    <3> DEFINE k == j - n
    <3>1. k \in 1..(m - 1) /\ c[n + k] = fs[k] /\ c[n + (k + 1)] = fs[k + 1] /\ j = n + k /\ j + 1 = n + (k + 1)
      BY <1>1, <1>2, <1>4, <2>3
    <3> QED
      BY <3>1 DEF Row
  <2>4. j < n \/ j = n \/ j > n
    <3>1. n \in Int /\ m \in Int
      BY <1>1, <1>2
    <3> HIDE DEF n, m
    <3> QED
      BY <3>1
  <2> QED
    BY <2>1, <2>2, <2>3, <2>4, Zenon
<1>7. c[1].fn = "parse" /\ c[n + m] = fs[m]
  <2>1. c[n + m] = fs[m]
    BY <1>2, <1>4
  <2>2. CASE n = 0
    <3>1. c[1] = fs[1] /\ FrameOK(nds, fs[1]) /\ Results(fs[1].fn) \subseteq {"PROGRAM"}
      <4>1. 1 \in 1..m /\ n + 1 = 1
        BY <1>2, <2>2
      <4>2. c[1] = fs[1] /\ FrameOK(nds, fs[1])
        BY <1>4, <4>1
      <4> QED
        BY <1>1, <2>2, <4>2 DEF Ready
    <3> QED
      BY <2>1, <3>1, OnlyParse DEF FrameOK
  <2>3. CASE n # 0
    <3>1. s # <<>> /\ c[1] = s[1]
      BY <1>1, <1>4, <2>3
    <3> QED
      BY <2>1, <3>1 DEF Ready
  <2> QED
    BY <2>2, <2>3
<1>8. TopOK(c[Len(c)])
  BY <1>3, <1>7 DEF Row
<1> QED
  BY <1>3, <1>5, <1>6, <1>7, <1>8 DEF StackOK, c

LEMMA RowOne ==
  ASSUME NEW nds, NEW a, FrameOK(nds, a), TopOK(a)
  PROVE  Row(nds, <<a>>) /\ <<a>>[1] = a
<1> DEFINE u == <<a>>
<1>1. IsSeq(u) /\ Len(u) = 1 /\ u[1] = a /\ DOMAIN u = 1..1 /\ u # <<>>
  BY SeqOne, SeqNone
<1> HIDE DEF u
<1>2. \A j \in DOMAIN u : j = 1
  BY <1>1
<1>3. \A j \in 1..(Len(u) - 1) : FALSE
  BY <1>1
<1>4. Row(nds, u) /\ u[1] = a
  BY <1>1, <1>2, <1>3 DEF Row
<1> QED
  BY <1>4 DEF u

LEMMA RowStays == ASSUME NEW nds, NEW s, IsSeq(s), NEW fs, Row(nds, fs) PROVE s \o fs # <<>>
<1>1. IsSeq(fs) /\ fs # <<>>
  BY DEF Row
<1>2. Len(fs) \in Nat /\ Len(fs) # 0 /\ Len(s) \in Nat
  BY <1>1, SeqLen
<1>3. IsSeq(s \o fs) /\ Len(s \o fs) = Len(s) + Len(fs)
  BY <1>1, SeqConcat
<1> QED
  BY <1>2, <1>3, SeqLen

LEMMA RowCons ==
  ASSUME NEW nds, NEW a, FrameOK(nds, a), NEW fs, Row(nds, fs), WaitsFor(a, Results(fs[1].fn))
  PROVE  Row(nds, <<a>> \o fs) /\ (<<a>> \o fs)[1] = a
<1> DEFINE u == <<a>>
           c == u \o fs
           m == Len(fs)
<1>1. IsSeq(u) /\ Len(u) = 1 /\ u[1] = a
  BY SeqOne
<1>2. m \in Nat \ {0} /\ DOMAIN fs = 1..m /\ IsSeq(fs)
  BY SeqLen DEF Row
<1> HIDE DEF u
<1>3. /\ IsSeq(c) /\ Len(c) = 1 + m /\ DOMAIN c = 1..(1 + m)
      /\ \A i \in 1..(1 + m) : c[i] = IF i <= 1 THEN u[i] ELSE fs[i - 1]
  <2> HIDE DEF m
  <2>1. /\ IsSeq(c) /\ Len(c) = Len(u) + Len(fs) /\ DOMAIN c = 1..(Len(u) + Len(fs))
        /\ \A i \in 1..(Len(u) + Len(fs)) : c[i] = IF i <= Len(u) THEN u[i] ELSE fs[i - Len(u)]
    BY <1>1, <1>2, SeqConcat
  <2> QED
    BY <1>1, <2>1 DEF m
<1> HIDE DEF c
<1>4. c # <<>> /\ c[1] = a
  <2>1. Len(c) # 0
    BY <1>2, <1>3
  <2>2. c # <<>>
    BY <2>1, SeqNone
  <2>3. c[1] = a
    BY <1>1, <1>2, <1>3
  <2> QED
    BY <2>2, <2>3
<1>5. \A i \in 1..m : c[i + 1] = fs[i]
  BY <1>2, <1>3
<1>6. \A j \in DOMAIN c : FrameOK(nds, c[j])
  <2> SUFFICES ASSUME NEW j \in 1..(1 + m) PROVE FrameOK(nds, c[j])
    BY <1>3
  <2>1. CASE j = 1
    BY <1>4, <2>1
  <2>2. CASE j # 1
    <3>1. j - 1 \in 1..m /\ (j - 1) + 1 = j
      BY <1>2, <2>2
    <3>2. c[j] = fs[j - 1]
      BY <1>5, <3>1
    <3> QED
      BY <1>2, <3>1, <3>2 DEF Row
  <2> QED
    BY <2>1, <2>2
<1>7. \A j \in 1..(1 + m - 1) : WaitsFor(c[j], Results(c[j + 1].fn))
  <2> SUFFICES ASSUME NEW j \in 1..(1 + m - 1) PROVE WaitsFor(c[j], Results(c[j + 1].fn))
    OBVIOUS
  <2>1. CASE j = 1
    <3>1. c[j + 1] = fs[1]
      BY <1>2, <1>5, <2>1
    <3> QED
      BY <1>4, <2>1, <3>1
  <2>2. CASE j # 1
    <3> DEFINE k == j - 1
    <3>1. k \in 1..(m - 1) /\ k \in 1..m /\ j \in 1..m /\ k + 1 = j
      BY <1>2, <2>2
    <3> HIDE DEF k
    <3>2. c[j] = fs[k] /\ c[j + 1] = fs[k + 1]
      BY <1>5, <3>1
    <3>3. WaitsFor(fs[k], Results(fs[k + 1].fn))
      BY <3>1 DEF Row
    <3> QED
      BY <3>2, <3>3
  <2> QED
    BY <2>1, <2>2
<1>8. TopOK(c[Len(c)])
  <2>1. c[m + 1] = fs[m] /\ Len(c) = m + 1
    BY <1>2, <1>3, <1>5
  <2> QED
    BY <2>1 DEF Row
<1>9. Row(nds, c)
  BY <1>3, <1>4, <1>6, <1>7, <1>8 DEF Row
<1> QED
  BY <1>4, <1>9 DEF c, u

LEMMA FrameGrows ==
  ASSUME NEW nds, IsSeq(nds), NEW x, NEW f, FrameOK(nds, f)
  PROVE  FrameOK(Append(nds, x), f)
<1> DEFINE new == Append(nds, x)
           n == Len(nds)
<1>1. n \in Nat /\ Len(new) = n + 1 /\ \A i \in 1..(n + 1) : new[i] = IF i <= n THEN nds[i] ELSE x
  BY SeqAppend
<1> HIDE DEF new
<1>2. Kids(f) \in Seq(Nat) /\ \A i \in DOMAIN Kids(f) : Kids(f)[i] <= n /\ KindIn(nds, Kids(f)[i]) \in Accepts(f.fn, i)
  BY DEF FrameOK
<1> HIDE DEF n
<1>3. \A m \in Nat : m <= n => KindIn(new, m) = KindIn(nds, m) /\ m <= Len(new)
  BY <1>1 DEF KindIn
<1>4. \A i \in DOMAIN Kids(f) : Kids(f)[i] <= Len(new) /\ KindIn(new, Kids(f)[i]) \in Accepts(f.fn, i)
  <2> SUFFICES ASSUME NEW i \in DOMAIN Kids(f)
               PROVE  Kids(f)[i] <= Len(new) /\ KindIn(new, Kids(f)[i]) \in Accepts(f.fn, i)
    OBVIOUS
  <2>1. Kids(f)[i] \in Nat /\ Kids(f)[i] <= n
    BY <1>2
  <2> QED
    BY <1>2, <1>3, <2>1
<1>5. FrameOK(new, f)
  BY <1>4 DEF FrameOK
<1> QED
  BY <1>5 DEF new

LEMMA ReadyGrows ==
  ASSUME NEW nds, IsSeq(nds), NEW x, NEW s, NEW kinds, Ready(nds, s, kinds)
  PROVE  Ready(Append(nds, x), s, kinds)
<1>1. \A j \in DOMAIN s : FrameOK(Append(nds, x), s[j])
  BY FrameGrows DEF Ready
<1> QED
  BY <1>1 DEF Ready

-----------------------------------------------------------------------------
(* A value is returned. *)

Given(f, v) ==
  IF f.fn \in DOMAIN Operators THEN [f EXCEPT !.node.kids = <<v>>]
  ELSE [f EXCEPT !.node.kids = Append(@, v), !.pc = NextPc(f.fn, @)]

KeepsIt(f) == f.fn \in DOMAIN Operators => current.type \in Operators[f.fn]

LEMMA ReadyPrefix ==
  ASSUME NEW nds, NEW s, NEW kinds, Ready(nds, s, kinds), NEW k \in 1..Len(s)
  PROVE  Ready(nds, SubSeq(s, 1, k - 1), Results(s[k].fn)) /\ FrameOK(nds, s[k])
<1> DEFINE p == SubSeq(s, 1, k - 1)
           n == Len(s)
<1>1. n \in Nat /\ DOMAIN s = 1..n /\ IsSeq(s)
  BY SeqLen DEF Ready
<1>2. IsSeq(p) /\ Len(p) = k - 1 /\ DOMAIN p = 1..(k - 1) /\ \A i \in 1..(k - 1) : p[i] = s[i]
  <2>1. k - 1 \in Nat /\ k - 1 <= n
    BY <1>1
  <2> QED
    BY <1>1, <2>1, SeqPrefix
<1>3. s # <<>>
  BY <1>1, SeqNone
<1> HIDE DEF p
<1>4. FrameOK(nds, s[k]) /\ \A j \in DOMAIN p : FrameOK(nds, p[j])
  BY <1>1, <1>2 DEF Ready
<1>5. \A j \in 1..(k - 1) : WaitsFor(p[j], Results(s[j + 1].fn))
  BY <1>1, <1>2 DEF Ready
<1>6. \A j \in 1..(Len(p) - 1) : WaitsFor(p[j], Results(p[j + 1].fn))
  <2> SUFFICES ASSUME NEW j \in 1..(Len(p) - 1) PROVE WaitsFor(p[j], Results(p[j + 1].fn))
    OBVIOUS
  <2>1. j \in 1..(k - 1) /\ p[j + 1] = s[j + 1]
    BY <1>2
  <2> QED
    BY <1>5, <2>1
<1>7. ASSUME p # <<>> PROVE p[1].fn = "parse" /\ WaitsFor(p[Len(p)], Results(s[k].fn))
  <2>1. Len(p) # 0
    BY <1>2, <1>7, SeqLen
  <2>2. k - 1 \in 1..(k - 1) /\ 1 \in 1..(k - 1) /\ (k - 1) + 1 = k
    BY <1>2, <2>1
  <2>3. WaitsFor(p[k - 1], Results(s[k].fn))
    BY <1>5, <2>2
  <2>4. p[1] = s[1]
    BY <1>2, <2>2
  <2> QED
    BY <1>2, <1>3, <2>3, <2>4 DEF Ready
<1>8. ASSUME p = <<>> PROVE Results(s[k].fn) \subseteq {"PROGRAM"}
  <2>1. k = 1
    BY <1>2, <1>8, SeqNone
  <2>2. s[k].fn = "parse"
    BY <1>3, <2>1 DEF Ready
  <2> QED
    BY <2>2, Domains, ScriptDefs DEF Results, ScriptNames, program
<1>9. Ready(nds, p, Results(s[k].fn))
  BY <1>2, <1>4, <1>6, <1>7, <1>8 DEF Ready
<1> QED
  BY <1>4, <1>9 DEF p

LEMMA DeliverIs ==
  ASSUME NEW nds, NEW s, NEW kinds, Ready(nds, s, kinds), s # <<>>, NEW v
  PROVE  \E k \in 1..Len(s) :
           /\ KeepsIt(s[k]) /\ \A j \in 1..Len(s) : j > k => ~KeepsIt(s[j])
           /\ Deliver(s, v) = SubSeq(s, 1, k - 1) \o <<Given(s[k], v)>>
<1> DEFINE I == {i \in 1..Len(s) : KeepsIt(s[i])}
           k == Max(I)
<1>1. Len(s) \in Nat \ {0} /\ IsSeq(s)
  BY SeqLen DEF Ready
<1>2. 1 \in I
  BY <1>1, Domains DEF Ready, KeepsIt, OperatorNames
<1>3. k \in I /\ \A j \in I : k >= j
  <2>1. I \in SUBSET (1..Len(s)) /\ I # {}
    BY <1>2
  <2> HIDE DEF I
  <2>2. \E m \in I : \A j \in I : m >= j
    BY <1>1, <2>1, Greatest
  <2> QED
    BY <2>2 DEF Max
<1>4. Deliver(s, v) = Append(SubSeq(s, 1, k - 1), Given(s[k], v))
  <2>1. SelectLastInSeq(s, KeepsIt) = k
    BY <1>2 DEF SelectLastInSeq
  <2> QED
    BY <2>1 DEF Deliver, KeepsIt, Given, NextPc, StepOf, Iterations
<1>5. k \in 1..Len(s) /\ KeepsIt(s[k]) /\ \A j \in 1..Len(s) : j > k => ~KeepsIt(s[j])
  <2>1. \A j \in I : ~(j > k)
    BY <1>1, <1>3
  <2>2. k \in 1..Len(s) /\ KeepsIt(s[k])
    <3> HIDE DEF k
    <3> QED
      BY <1>3
  <2>3. \A j \in 1..Len(s) : KeepsIt(s[j]) => j \in I
    OBVIOUS
  <2> HIDE DEF I, k
  <2> QED
    BY <2>1, <2>2, <2>3, Zenon
<1>6. IsSeq(SubSeq(s, 1, k - 1))
  BY <1>5, ReadyPrefix DEF Ready
<1> HIDE DEF k
<1>7. Deliver(s, v) = SubSeq(s, 1, k - 1) \o <<Given(s[k], v)>>
  BY <1>4, <1>6, AppendIs
<1> QED
  BY <1>5, <1>7

\* f as a frame of fn, at pc, with these children.
LEMMA GivenFields ==
  ASSUME NEW f, IsFrame(f), NEW v
  PROVE  /\ IsFrame(Given(f, v)) /\ Given(f, v).fn = f.fn /\ Given(f, v).node.kind = f.node.kind
         /\ Kids(Given(f, v)) = IF f.fn \in OperatorNames THEN <<v>> ELSE Append(Kids(f), v)
         /\ f.fn \notin OperatorNames => Given(f, v).pc = NextPc(f.fn, f.pc)
<1>1. CASE f.fn \in OperatorNames
  <2>1. Given(f, v) = [f EXCEPT !.node.kids = <<v>>]
    BY <1>1, Domains DEF Given
  <2> QED
    BY <1>1, <2>1 DEF IsFrame, Kids
<1>2. CASE f.fn \notin OperatorNames
  <2>1. Given(f, v) = [f EXCEPT !.node.kids = Append(@, v), !.pc = NextPc(f.fn, @)]
    BY <1>2, Domains DEF Given
  <2> QED
    BY <1>2, <2>1 DEF IsFrame, Kids
<1> QED
  BY <1>1, <1>2

LEMMA Apart == \A fn \in ScriptNames : fn \notin OperatorNames /\ fn # "parse_unary"
  BY DEF ScriptNames, OperatorNames

LEMMA OperatorKinds ==
  \A fn \in OperatorNames : Results(fn) = ExprKinds /\ \A i : Accepts(fn, i) = ExprKinds
<1> SUFFICES ASSUME NEW fn \in OperatorNames PROVE Results(fn) = ExprKinds /\ \A i : Accepts(fn, i) = ExprKinds
  OBVIOUS
<1>1. fn \notin DOMAIN Scripts /\ fn # "declaration"
  BY Domains, Apart DEF ScriptNames
<1> QED
  BY <1>1 DEF Results, Accepts

LEMMA GivenFits ==
  ASSUME NEW nds, IsSeq(nds), NEW f, FrameOK(nds, f), NEW v \in 1..Len(nds), NEW kinds,
         WaitsFor(f, kinds), nds[v].kind \in kinds
  PROVE  /\ FrameOK(nds, Given(f, v)) /\ TopOK(Given(f, v)) /\ Given(f, v).fn = f.fn
         /\ Kids(Given(f, v)) = Append(Kids(f), v)
<1> DEFINE g == Given(f, v)
           old == Kids(f)
           new == Append(old, v)
           n == Len(old)
<1>1. /\ IsFrame(f) /\ f.fn \in ScriptNames \cup OperatorNames \cup {"parse_unary"} /\ f.fn # "parse_unary"
      /\ old \in Seq(Nat) /\ n \in Nat
      /\ \A i \in DOMAIN old : old[i] <= Len(nds) /\ KindIn(nds, old[i]) \in Accepts(f.fn, i)
  BY DEF FrameOK, WaitsFor
<1>2. f.fn \in OperatorNames => old = <<>>
  BY DEF WaitsFor
<1>3. Len(nds) \in Nat /\ v \in Nat \ {0}
  BY SeqLen
<1>4. IsFrame(g) /\ g.fn = f.fn /\ g.node.kind = f.node.kind /\ Kids(g) = new
      /\ (f.fn \notin OperatorNames => g.pc = NextPc(f.fn, f.pc))
  <2>1. old = <<>> => new = <<v>>
    OBVIOUS
  <2> HIDE DEF g, new
  <2> QED
    BY <1>1, <1>2, <2>1, GivenFields DEF g, new
<1>5. new \in Seq(Nat) /\ Len(new) = n + 1 /\ \A i \in 1..(n + 1) : new[i] = IF i <= n THEN old[i] ELSE v
  <2>1. IsSeq(old)
    BY <1>1, Zenon DEF IsSeq
  <2>2. new \in Seq(Nat)
    BY <1>1, <1>3
  <2> HIDE DEF old
  <2> QED
    BY <2>1, <2>2, SeqAppend
<1>6. KindIn(nds, v) \in Accepts(f.fn, n + 1) /\ v <= Len(nds)
  BY <1>3 DEF KindIn, WaitsFor
<1>7. \A i \in DOMAIN new : new[i] <= Len(nds) /\ KindIn(nds, new[i]) \in Accepts(g.fn, i)
  <2> HIDE DEF g, new
  <2> SUFFICES ASSUME NEW i \in 1..(n + 1) PROVE new[i] <= Len(nds) /\ KindIn(nds, new[i]) \in Accepts(f.fn, i)
    BY <1>4, <1>5
  <2>1. CASE i <= n
    <3>1. i \in DOMAIN old
      BY <1>1, <2>1
    <3> HIDE DEF old, n
    <3> QED
      BY <1>1, <1>5, <2>1, <3>1
  <2>2. CASE i = n + 1
    BY <1>1, <1>5, <1>6, <2>2
  <2>3. i <= n \/ i = n + 1
    BY <1>1
  <2> QED
    BY <2>1, <2>2, <2>3
<1>8. ASSUME f.fn \in ScriptNames
      PROVE  g.node.kind = Scripts[f.fn].kind /\ g.pc \in 1..End(f.fn) /\ n + 1 \in Counts[f.fn][g.pc]
  <2>1. g.pc = NextPc(f.fn, f.pc)
    BY <1>4, <1>8, Apart
  <2>2. NextPc(f.fn, f.pc) \in 1..End(f.fn) /\ n + 1 \in Counts[f.fn][NextPc(f.fn, f.pc)]
    BY <1>8 DEF WaitsFor
  <2>3. f.node.kind = Scripts[f.fn].kind
    BY <1>8 DEF FrameOK
  <2> HIDE DEF g, n
  <2> QED
    BY <1>4, <2>1, <2>2, <2>3
<1>9. f.fn \in OperatorNames => n = 0
  BY <1>2
<1> HIDE DEF g, new, n
<1>10. FrameOK(nds, g)
  BY <1>1, <1>4, <1>5, <1>7, <1>8, <1>9, Apart DEF FrameOK
<1>11. TopOK(g)
  <2> SUFFICES ASSUME g.fn = "function", g.pc = 8 PROVE Len(new) = 1
    BY <1>4 DEF TopOK
  <2>1. n + 1 \in Counts["function"][8]
    BY <1>4, <1>8 DEF ScriptNames
  <2>2. Counts["function"][8] = {0, 1}
    BY DEF Counts
  <2> QED
    BY <1>1, <1>5, <2>1, <2>2
<1> QED
  BY <1>4, <1>10, <1>11 DEF g, new

LEMMA Delivered ==
  ASSUME NEW nds, IsSeq(nds), NEW s, NEW kinds, Ready(nds, s, kinds), s # <<>>,
         NEW v \in 1..Len(nds), nds[v].kind \in kinds
  PROVE  /\ StackOK(nds, Deliver(s, v))
         /\ \E k \in 1..Len(s) :
              /\ Deliver(s, v) = SubSeq(s, 1, k - 1) \o <<Given(s[k], v)>>
              /\ Kids(Given(s[k], v)) = Append(Kids(s[k]), v) /\ IsSeq(Kids(s[k]))
              /\ \A j \in 1..Len(s) : j > k => Kids(s[j]) = <<>>
<1>1. PICK k \in 1..Len(s) :
        /\ KeepsIt(s[k]) /\ \A j \in 1..Len(s) : j > k => ~KeepsIt(s[j])
        /\ Deliver(s, v) = SubSeq(s, 1, k - 1) \o <<Given(s[k], v)>>
  BY DeliverIs
<1>2. Len(s) \in Nat \ {0} /\ DOMAIN s = 1..Len(s) /\ IsSeq(s)
  BY SeqLen DEF Ready
<1>3. \A j \in 1..Len(s) : j > k => s[j].fn \in OperatorNames
  <2>1. \A j \in 1..Len(s) : ~KeepsIt(s[j]) => s[j].fn \in OperatorNames
    BY Domains DEF KeepsIt
  <2> QED
    BY <1>1, <2>1, Zenon
<1>4. \A fn \in OperatorNames : Results(fn) = ExprKinds /\ \A i : Accepts(fn, i) = ExprKinds
  BY OperatorKinds
<1>12. Len(s) \in Nat \ {0}
  BY <1>2
<1>5. \A j \in 1..Len(s) : j > k => Kids(s[j]) = <<>>
  <2> SUFFICES ASSUME NEW j \in 1..Len(s), j > k PROVE Kids(s[j]) = <<>>
    OBVIOUS
  <2>1. s[j].fn \in OperatorNames
    BY <1>3
  <2>2. CASE j = Len(s)
    BY <2>1, <2>2 DEF Ready, WaitsFor
  <2>3. CASE j # Len(s)
    <3>1. j \in 1..(Len(s) - 1)
      BY <1>12, <2>3
    <3> QED
      BY <2>1, <3>1 DEF Ready, WaitsFor
  <2> QED
    BY <2>2, <2>3
<1>6. \E ks : WaitsFor(s[k], ks) /\ nds[v].kind \in ks
  <2>1. CASE k = Len(s)
    BY <2>1 DEF Ready
  <2>2. CASE k # Len(s)
    <3>1. k \in 1..(Len(s) - 1) /\ k + 1 \in 1..Len(s) /\ k + 1 > k /\ Len(s) > k
      BY <1>12, <2>2
    <3>2. WaitsFor(s[k], Results(s[k + 1].fn)) /\ Results(s[k + 1].fn) = ExprKinds
      BY <1>3, <1>4, <3>1 DEF Ready
    <3>3. s[Len(s)].fn \in OperatorNames
      BY <1>2, <1>3, <3>1
    <3>4. kinds \subseteq ExprKinds
      BY <1>4, <3>3 DEF Ready, WaitsFor
    <3> QED
      BY <3>2, <3>4
  <2> QED
    BY <2>1, <2>2
<1>7. PICK ks : WaitsFor(s[k], ks) /\ nds[v].kind \in ks
  BY <1>6
<1>8. Ready(nds, SubSeq(s, 1, k - 1), Results(s[k].fn)) /\ FrameOK(nds, s[k])
  BY ReadyPrefix
<1>9. /\ FrameOK(nds, Given(s[k], v)) /\ TopOK(Given(s[k], v)) /\ Given(s[k], v).fn = s[k].fn
      /\ Kids(Given(s[k], v)) = Append(Kids(s[k]), v)
  BY <1>7, <1>8, GivenFits
<1>10. StackOK(nds, Deliver(s, v))
  <2> DEFINE g == Given(s[k], v)
             p == SubSeq(s, 1, k - 1)
             row == <<g>>
  <2>1. Row(nds, row) /\ row[1] = g
    <3> HIDE DEF g
    <3> QED
      BY <1>9, RowOne DEF g
  <2>2. Results(row[1].fn) \subseteq Results(s[k].fn)
    BY <1>9, <2>1
  <2> HIDE DEF row, p
  <2>3. StackOK(nds, p \o row)
    BY <1>8, <2>1, <2>2, StackGrows DEF p
  <2> QED
    BY <1>1, <2>3 DEF row, p, g
<1>11. IsSeq(Kids(s[k]))
  BY <1>8, Zenon DEF FrameOK, IsSeq
<1> QED
  BY <1>1, <1>5, <1>9, <1>10, <1>11

-----------------------------------------------------------------------------
(* Ownership: a node is a child of one node or held by one parse function, once; but for the root. *)

Has(f, m) == \E i \in DOMAIN Kids(f) : Kids(f)[i] = m
Held(cs, m) == \E j \in DOMAIN cs : Has(cs[j], m)
Owned(nds, m) == \E n \in DOMAIN nds : Has([node |-> nds[n]], m)

HeldOnce(cs) ==
  \A h, j \in DOMAIN cs : \A i \in DOMAIN Kids(cs[h]), k \in DOMAIN Kids(cs[j]) :
    Kids(cs[h])[i] = Kids(cs[j])[k] /\ Kids(cs[h])[i] # 0 => h = j /\ i = k

OwnedOnce(nds) ==
  \A n, o \in DOMAIN nds : \A i \in DOMAIN nds[n].kids, k \in DOMAIN nds[o].kids :
    nds[n].kids[i] = nds[o].kids[k] /\ nds[n].kids[i] # 0 => n = o /\ i = k

OneOwner(nds, cs) ==
  /\ OwnedOnce(nds) /\ HeldOnce(cs)
  /\ \A m \in DOMAIN nds : ~(Owned(nds, m) /\ Held(cs, m))
  /\ \A m \in DOMAIN nds : Owned(nds, m) \/ Held(cs, m) \/ (cs = <<>> /\ m = Len(nds))

SameKids(new, old) ==
  /\ DOMAIN old \subseteq DOMAIN new /\ \A i \in DOMAIN old : new[i] = old[i]
  /\ \A i \in DOMAIN new : i \notin DOMAIN old => new[i] = 0

\* One of fs has the children, and the others have none.
Carry(fs, kids) ==
  \E p \in DOMAIN fs :
    SameKids(Kids(fs[p]), kids) /\ \A j \in DOMAIN fs : j # p => DOMAIN Kids(fs[j]) = {}

LEMMA SeqPush ==
  ASSUME NEW s, IsSeq(s), NEW t
  PROVE  /\ IsSeq(s \o <<t>>) /\ Len(s) \in Nat /\ DOMAIN s = 1..Len(s) /\ Len(s \o <<t>>) = Len(s) + 1
         /\ DOMAIN (s \o <<t>>) = 1..(Len(s) + 1) /\ s \o <<t>> # <<>>
         /\ \A i \in 1..Len(s) : (s \o <<t>>)[i] = s[i]
         /\ (s \o <<t>>)[Len(s) + 1] = t
<1> DEFINE a == Append(s, t)
           n == Len(s)
<1>1. /\ IsSeq(a) /\ n \in Nat /\ Len(a) = n + 1 /\ a # <<>> /\ DOMAIN s = 1..n /\ DOMAIN a = 1..(n + 1)
      /\ \A i \in 1..(n + 1) : a[i] = IF i <= n THEN s[i] ELSE t
  BY SeqAppend
<1> HIDE DEF a, n
<1>2. (\A i \in 1..n : a[i] = s[i]) /\ a[n + 1] = t
  BY <1>1
<1>3. a = s \o <<t>>
  BY AppendIs DEF a
<1> QED
  BY <1>1, <1>2, <1>3 DEF n

LEMMA CarryHeld ==
  ASSUME NEW s, IsSeq(s), NEW t, NEW fs, IsSeq(fs), Carry(fs, Kids(t)), HeldOnce(s \o <<t>>)
  PROVE  /\ HeldOnce(s \o fs)
         /\ \A m : m # 0 => (Held(s \o fs, m) <=> Held(s \o <<t>>, m))
<1> DEFINE c == s \o fs
           d == s \o <<t>>
           n == Len(s)
<1>1. /\ n \in Nat /\ DOMAIN d = 1..(n + 1)
      /\ \A i \in 1..n : d[i] = s[i]
      /\ d[n + 1] = t
  BY SeqPush
<1>2. /\ DOMAIN c = 1..(n + Len(fs)) /\ Len(fs) \in Nat /\ DOMAIN fs = 1..Len(fs)
      /\ \A i \in 1..(n + Len(fs)) : c[i] = IF i <= n THEN s[i] ELSE fs[i - n]
  BY SeqConcat
<1>3. PICK p \in DOMAIN fs : SameKids(Kids(fs[p]), Kids(t)) /\ \A j \in DOMAIN fs : j # p => DOMAIN Kids(fs[j]) = {}
  BY DEF Carry
<1>h. HeldOnce(d)
  OBVIOUS
<1> HIDE DEF c, d, n
<1>4. n + p \in DOMAIN c /\ c[n + p] = fs[p] /\ \A h \in 1..n : h \in DOMAIN c /\ h \in DOMAIN d /\ c[h] = d[h]
  BY <1>1, <1>2, <1>3
<1>5. \A h \in DOMAIN c : DOMAIN Kids(c[h]) # {} => h \in 1..n \/ h = n + p
  <2> SUFFICES ASSUME NEW h \in DOMAIN c, h \notin 1..n, h # n + p PROVE DOMAIN Kids(c[h]) = {}
    OBVIOUS
  <2>1. h - n \in DOMAIN fs /\ h - n # p /\ c[h] = fs[h - n]
    BY <1>1, <1>2, <1>3
  <2> QED
    BY <1>3, <2>1
<1> DEFINE q(h) == IF h \in 1..n THEN h ELSE n + 1
<1>6. ASSUME NEW h \in DOMAIN c, NEW i \in DOMAIN Kids(c[h]), Kids(c[h])[i] # 0
      PROVE  /\ h \in 1..n \/ h = n + p
             /\ q(h) \in DOMAIN d /\ i \in DOMAIN Kids(d[q(h)]) /\ Kids(d[q(h)])[i] = Kids(c[h])[i]
  <2>1. CASE h \in 1..n
    BY <1>4, <2>1
  <2>2. CASE h \notin 1..n
    <3>1. h = n + p
      BY <1>5, <2>2
    <3>2. i \in DOMAIN Kids(t) /\ Kids(t)[i] = Kids(c[h])[i]
      BY <1>3, <1>4, <1>6, <3>1 DEF SameKids
    <3>3. q(h) = n + 1 /\ q(h) \in DOMAIN d /\ d[q(h)] = t
      BY <1>1, <2>2
    <3> HIDE DEF q
    <3> QED
      BY <3>1, <3>2, <3>3
  <2> QED
    BY <2>1, <2>2
<1>7. \A h, j : (h \in 1..n \/ h = n + p) /\ (j \in 1..n \/ j = n + p) /\ q(h) = q(j) => h = j
  BY <1>1
<1>8. HeldOnce(c)
  <2> SUFFICES ASSUME NEW h \in DOMAIN c, NEW j \in DOMAIN c, NEW i \in DOMAIN Kids(c[h]), NEW k \in DOMAIN Kids(c[j]),
                      Kids(c[h])[i] = Kids(c[j])[k], Kids(c[h])[i] # 0
               PROVE  h = j /\ i = k
    BY DEF HeldOnce
  <2> HIDE DEF q
  <2>1. /\ h \in 1..n \/ h = n + p
        /\ q(h) \in DOMAIN d /\ i \in DOMAIN Kids(d[q(h)]) /\ Kids(d[q(h)])[i] = Kids(c[h])[i]
    BY <1>6
  <2>2. /\ j \in 1..n \/ j = n + p
        /\ q(j) \in DOMAIN d /\ k \in DOMAIN Kids(d[q(j)]) /\ Kids(d[q(j)])[k] = Kids(c[j])[k]
    BY <1>6
  <2>3. q(h) = q(j) /\ i = k
    BY <1>h, <2>1, <2>2 DEF HeldOnce
  <2> QED
    BY <1>7, <2>1, <2>2, <2>3
<1>9. ASSUME NEW m, m # 0, Held(c, m) PROVE Held(d, m)
  <2>1. PICK h \in DOMAIN c : \E i \in DOMAIN Kids(c[h]) : Kids(c[h])[i] = m
    BY <1>9 DEF Held, Has
  <2>2. PICK i \in DOMAIN Kids(c[h]) : Kids(c[h])[i] = m
    BY <2>1
  <2> HIDE DEF q
  <2>3. q(h) \in DOMAIN d /\ i \in DOMAIN Kids(d[q(h)]) /\ Kids(d[q(h)])[i] = m
    BY <1>6, <1>9, <2>2
  <2> QED
    BY <2>3 DEF Held, Has
<1>10. ASSUME NEW m, m # 0, Held(d, m) PROVE Held(c, m)
  <2>1. PICK h \in DOMAIN d : \E i \in DOMAIN Kids(d[h]) : Kids(d[h])[i] = m
    BY <1>10 DEF Held, Has
  <2>2. PICK i \in DOMAIN Kids(d[h]) : Kids(d[h])[i] = m
    BY <2>1
  <2>3. CASE h \in 1..n
    <3>1. h \in DOMAIN c /\ c[h] = d[h]
      BY <1>4, <2>3
    <3> QED
      BY <2>2, <3>1 DEF Held, Has
  <2>4. CASE h = n + 1
    <3>1. i \in DOMAIN Kids(fs[p]) /\ Kids(fs[p])[i] = m
      BY <1>1, <1>3, <2>2, <2>4 DEF SameKids
    <3> QED
      BY <1>4, <3>1 DEF Held, Has
  <2> QED
    BY <1>1, <2>3, <2>4
<1> QED
  BY <1>8, <1>9, <1>10 DEF c, d

LEMMA SameHeld ==
  ASSUME NEW nds, IsSeq(nds), NEW cs, NEW ds, OneOwner(nds, cs), cs # <<>>, HeldOnce(ds),
         \A m : m # 0 => (Held(ds, m) <=> Held(cs, m))
  PROVE  OneOwner(nds, ds)
<1>1. \A m \in DOMAIN nds : m # 0
  BY SeqLen
<1> QED
  BY <1>1, Zenon DEF OneOwner

\* What s and t hold is of the nodes there are.
Bounded(cs, n) == \A j \in DOMAIN cs : \A i \in DOMAIN Kids(cs[j]) : Kids(cs[j])[i] \in 0..n
Below(nds) == \A n \in DOMAIN nds : \A i \in DOMAIN nds[n].kids : nds[n].kids[i] \in 0..(n - 1)

LEMMA AllocOwner ==
  ASSUME NEW nds, IsSeq(nds), NEW s, IsSeq(s), NEW t, OneOwner(nds, s \o <<t>>), Bounded(s \o <<t>>, Len(nds)),
         Below(nds), NEW node, node.kids = Kids(t), NEW g, Kids(g) = <<Len(nds) + 1>>
  PROVE  OneOwner(Append(nds, node), s \o <<g>>)
<1> DEFINE c == s \o <<t>>
           d == s \o <<g>>
           l == Len(s)
           N == Len(nds)
           new == Append(nds, node)
<1>1. l \in Nat /\ DOMAIN c = 1..(l + 1) /\ (\A i \in 1..l : c[i] = s[i]) /\ c[l + 1] = t
  BY SeqPush
<1>2. l \in Nat /\ DOMAIN d = 1..(l + 1) /\ (\A i \in 1..l : d[i] = s[i]) /\ d[l + 1] = g /\ d # <<>>
  BY SeqPush
<1>3. N \in Nat /\ DOMAIN nds = 1..N /\ DOMAIN new = 1..(N + 1) /\ \A i \in 1..(N + 1) : new[i] = IF i <= N THEN nds[i] ELSE node
  BY SeqAppend
<1>4. /\ OwnedOnce(nds) /\ HeldOnce(c)
      /\ \A m \in DOMAIN nds : ~(Owned(nds, m) /\ Held(c, m))
      /\ \A m \in DOMAIN nds : Owned(nds, m) \/ Held(c, m) \/ c = <<>>
      /\ Bounded(c, N)
  BY DEF OneOwner
<1>5. DOMAIN Kids(g) = {1} /\ Kids(g)[1] = N + 1
  OBVIOUS
<1>c. c # <<>>
  BY SeqPush
<1> HIDE DEF c, d, new, N, l
<1>6. (\A n \in 1..N : n \in DOMAIN new /\ new[n] = nds[n]) /\ N + 1 \in DOMAIN new /\ new[N + 1] = node
  BY <1>3
<1>7. \A n \in DOMAIN new : n \in 1..N \/ n = N + 1
  BY <1>3
<1>8. \A n \in DOMAIN d : n \in 1..l \/ n = l + 1
  BY <1>2
\* The children of t are nodes there were, held and owned by nobody.
<1>9. ASSUME NEW k \in DOMAIN Kids(t), Kids(t)[k] # 0
      PROVE  Kids(t)[k] \in 1..N /\ Held(c, Kids(t)[k]) /\ ~Owned(nds, Kids(t)[k])
  <2>1. l + 1 \in DOMAIN c /\ c[l + 1] = t
    BY <1>1
  <2>2. Kids(t)[k] \in 0..N
    BY <1>4, <2>1 DEF Bounded
  <2>3. Kids(t)[k] \in 1..N
    BY <1>3, <1>9, <2>2
  <2>4. Held(c, Kids(t)[k])
    BY <2>1 DEF Held, Has
  <2> QED
    BY <1>3, <1>4, <2>3, <2>4
<1>10. OwnedOnce(new)
  <2> SUFFICES ASSUME NEW n \in DOMAIN new, NEW o \in DOMAIN new, NEW i \in DOMAIN new[n].kids, NEW k \in DOMAIN new[o].kids,
                      new[n].kids[i] = new[o].kids[k], new[n].kids[i] # 0
               PROVE  n = o /\ i = k
    BY DEF OwnedOnce
  <2>1. CASE n \in 1..N /\ o \in 1..N
    BY <1>3, <1>4, <1>6, <2>1 DEF OwnedOnce
  <2>2. CASE n = N + 1 /\ o = N + 1
    <3>1. l + 1 \in DOMAIN c /\ c[l + 1] = t
      BY <1>1
    <3>2. i \in DOMAIN Kids(t) /\ k \in DOMAIN Kids(t) /\ Kids(t)[i] = Kids(t)[k] /\ Kids(t)[i] # 0
      BY <1>6, <2>2
    <3> QED
      BY <1>4, <2>2, <3>1, <3>2 DEF HeldOnce
  <2>3. ASSUME n \in 1..N, o = N + 1 PROVE FALSE
    <3>1. k \in DOMAIN Kids(t) /\ Kids(t)[k] # 0 /\ Kids(t)[k] = nds[n].kids[i] /\ i \in DOMAIN nds[n].kids /\ n \in DOMAIN nds
      BY <1>3, <1>6, <2>3
    <3>2. Owned(nds, Kids(t)[k])
      BY <3>1 DEF Owned, Has, Kids
    <3> QED
      BY <1>9, <3>1, <3>2
  <2>4. ASSUME n = N + 1, o \in 1..N PROVE FALSE
    <3>1. i \in DOMAIN Kids(t) /\ Kids(t)[i] # 0 /\ Kids(t)[i] = nds[o].kids[k] /\ k \in DOMAIN nds[o].kids /\ o \in DOMAIN nds
      BY <1>3, <1>6, <2>4
    <3>2. Owned(nds, Kids(t)[i])
      BY <3>1 DEF Owned, Has, Kids
    <3> QED
      BY <1>9, <3>1, <3>2
  <2> QED
    BY <1>7, <2>1, <2>2, <2>3, <2>4
\* What s holds.
<1>11. \A h \in 1..l : h \in DOMAIN c /\ h \in DOMAIN d /\ c[h] = s[h] /\ d[h] = s[h] /\ h # l + 1
  BY <1>1, <1>2
<1>12. \A h \in 1..l : \A i \in DOMAIN Kids(s[h]) : Kids(s[h])[i] \in 0..N
  BY <1>4, <1>11 DEF Bounded
<1>13. HeldOnce(d)
  <2> SUFFICES ASSUME NEW h \in DOMAIN d, NEW j \in DOMAIN d, NEW i \in DOMAIN Kids(d[h]), NEW k \in DOMAIN Kids(d[j]),
                      Kids(d[h])[i] = Kids(d[j])[k], Kids(d[h])[i] # 0
               PROVE  h = j /\ i = k
    BY DEF HeldOnce
  <2>1. CASE h \in 1..l /\ j \in 1..l
    BY <1>4, <1>11, <2>1 DEF HeldOnce
  <2>2. CASE h = l + 1 /\ j = l + 1
    BY <1>2, <1>5, <2>2
  <2>3. ASSUME h \in 1..l, j = l + 1 PROVE FALSE
    <3>1. Kids(s[h])[i] = N + 1 /\ i \in DOMAIN Kids(s[h])
      BY <1>2, <1>5, <1>11, <2>3
    <3>2. N + 1 \in 0..N
      BY <1>12, <2>3, <3>1
    <3> QED
      BY <1>3, <3>2
  <2>4. ASSUME h = l + 1, j \in 1..l PROVE FALSE
    <3>1. Kids(s[j])[k] = N + 1 /\ k \in DOMAIN Kids(s[j])
      BY <1>2, <1>5, <1>11, <2>4
    <3>2. N + 1 \in 0..N
      BY <1>12, <2>4, <3>1
    <3> QED
      BY <1>3, <3>2
  <2> QED
    BY <1>8, <2>1, <2>2, <2>3, <2>4
<1>14. \A m : Owned(new, m) <=> Owned(nds, m) \/ Has(t, m)
  <2> SUFFICES ASSUME NEW m PROVE Owned(new, m) <=> Owned(nds, m) \/ Has(t, m)
    OBVIOUS
  <2>1. Has([node |-> node], m) <=> Has(t, m)
    BY DEF Has, Kids
  <2>2. ASSUME Owned(new, m) PROVE Owned(nds, m) \/ Has(t, m)
    <3>1. PICK n \in DOMAIN new : Has([node |-> new[n]], m)
      BY <2>2 DEF Owned
    <3>2. CASE n \in 1..N
      BY <1>3, <1>6, <3>1, <3>2 DEF Owned
    <3>3. CASE n = N + 1
      BY <1>6, <2>1, <3>1, <3>3
    <3> QED
      BY <1>7, <3>2, <3>3
  <2>3. ASSUME Owned(nds, m) PROVE Owned(new, m)
    <3>1. PICK n \in DOMAIN nds : Has([node |-> nds[n]], m)
      BY <2>3 DEF Owned
    <3>2. n \in DOMAIN new /\ new[n] = nds[n]
      BY <1>3, <1>6
    <3> QED
      BY <3>1, <3>2 DEF Owned
  <2>4. ASSUME Has(t, m) PROVE Owned(new, m)
    BY <1>6, <2>1, <2>4 DEF Owned
  <2> QED
    BY <2>2, <2>3, <2>4
<1>15. \A m : Held(d, m) <=> (\E h \in 1..l : Has(s[h], m)) \/ m = N + 1
  <2> SUFFICES ASSUME NEW m PROVE Held(d, m) <=> (\E h \in 1..l : Has(s[h], m)) \/ m = N + 1
    OBVIOUS
  <2>1. Has(g, m) <=> m = N + 1
    BY <1>5 DEF Has
  <2>2. l + 1 \in DOMAIN d /\ d[l + 1] = g
    BY <1>2
  <2> QED
    BY <1>8, <1>11, <2>1, <2>2 DEF Held
<1>16. \A m : Held(c, m) <=> (\E h \in 1..l : Has(s[h], m)) \/ Has(t, m)
  <2>1. \A n \in DOMAIN c : n \in 1..l \/ n = l + 1
    BY <1>1
  <2>2. l + 1 \in DOMAIN c /\ c[l + 1] = t
    BY <1>1
  <2> QED
    BY <1>11, <2>1, <2>2 DEF Held
\* No node is both in s and in t.
<1>17. \A m : m # 0 => ~((\E h \in 1..l : Has(s[h], m)) /\ Has(t, m))
  <2> SUFFICES ASSUME NEW m, m # 0, NEW h \in 1..l, Has(s[h], m), Has(t, m) PROVE FALSE
    OBVIOUS
  <2>1. PICK i \in DOMAIN Kids(s[h]) : Kids(s[h])[i] = m
    BY DEF Has
  <2>2. PICK k \in DOMAIN Kids(t) : Kids(t)[k] = m
    BY DEF Has
  <2>3. l + 1 \in DOMAIN c /\ c[l + 1] = t
    BY <1>1
  <2> QED
    BY <1>4, <1>11, <2>1, <2>2, <2>3 DEF HeldOnce
<1>18. ~Owned(nds, N + 1) /\ ~Has(t, N + 1)
  <2>1. ASSUME Owned(nds, N + 1) PROVE FALSE
    <3>1. PICK n \in DOMAIN nds : Has([node |-> nds[n]], N + 1)
      BY <2>1 DEF Owned
    <3>2. PICK i \in DOMAIN nds[n].kids : nds[n].kids[i] = N + 1
      BY <3>1 DEF Has, Kids
    <3>3. N + 1 \in 0..(n - 1) /\ n \in 1..N
      BY <1>3, <3>2 DEF Below
    <3> QED
      BY <1>3, <3>3
  <2>2. ASSUME Has(t, N + 1) PROVE FALSE
    <3>1. PICK k \in DOMAIN Kids(t) : Kids(t)[k] = N + 1
      BY <2>2 DEF Has
    <3>2. N + 1 \in 1..N
      <4>1. N + 1 # 0
        BY <1>3
      <4> QED
        BY <1>9, <3>1, <4>1
    <3> QED
      BY <1>3, <3>2
  <2> QED
    BY <2>1, <2>2
<1>19. \A m \in DOMAIN new : ~(Owned(new, m) /\ Held(d, m))
  <2> SUFFICES ASSUME NEW m \in DOMAIN new, Owned(new, m), Held(d, m) PROVE FALSE
    OBVIOUS
  <2>1. m # N + 1
    BY <1>14, <1>18
  <2>2. m \in DOMAIN nds /\ m # 0
    BY <1>3, <1>7, <2>1
  <2>3. \E h \in 1..l : Has(s[h], m)
    BY <1>15, <2>1
  <2>4. Held(c, m) /\ ~Has(t, m)
    BY <1>16, <1>17, <2>2, <2>3
  <2> QED
    BY <1>4, <1>14, <2>2, <2>4
<1>20. \A m \in DOMAIN new : Owned(new, m) \/ Held(d, m)
  <2> SUFFICES ASSUME NEW m \in DOMAIN new PROVE Owned(new, m) \/ Held(d, m)
    OBVIOUS
  <2>1. CASE m = N + 1
    BY <1>15, <2>1
  <2>2. CASE m # N + 1
    <3>1. m \in DOMAIN nds
      BY <1>3, <1>7, <2>2
    <3>2. Owned(nds, m) \/ Held(c, m)
      BY <1>4, <1>c, <3>1
    <3> QED
      BY <1>14, <1>15, <1>16, <3>2
  <2> QED
    BY <2>1, <2>2
<1>21. OneOwner(new, d)
  BY <1>10, <1>13, <1>19, <1>20 DEF OneOwner
<1> QED
  BY <1>21 DEF new, d

LEMMA SeqCut ==
  ASSUME NEW s, IsSeq(s), NEW k \in 1..Len(s), NEW g
  PROVE  LET d == SubSeq(s, 1, k - 1) \o <<g>>
         IN  DOMAIN d = 1..k /\ (\A i \in 1..(k - 1) : d[i] = s[i]) /\ d[k] = g
<1> DEFINE p == SubSeq(s, 1, k - 1)
           d == p \o <<g>>
           n == Len(p)
<1>1. IsSeq(p) /\ n = k - 1 /\ \A i \in 1..(k - 1) : p[i] = s[i]
  <2>1. k - 1 \in Nat /\ k - 1 <= Len(s)
    BY SeqLen
  <2> QED
    BY <2>1, SeqPrefix
<1>2. DOMAIN d = 1..(n + 1) /\ (\A i \in 1..n : d[i] = p[i]) /\ d[n + 1] = g
  <2> HIDE DEF p
  <2> QED
    BY <1>1, SeqPush, SMTT(60)
<1>3. n + 1 = k
  BY <1>1
<1> HIDE DEF p, d, n
<1>4. DOMAIN d = 1..k /\ (\A i \in 1..(k - 1) : d[i] = s[i]) /\ d[k] = g
  BY <1>1, <1>2, <1>3
<1> QED
  BY <1>4 DEF d, p

LEMMA DeliverHeld ==
  ASSUME NEW s, IsSeq(s), NEW k \in 1..Len(s), NEW v, v # 0, NEW h, Kids(h) = <<v>>, IsSeq(Kids(s[k])),
         NEW g, Kids(g) = Append(Kids(s[k]), v), \A j \in 1..Len(s) : j > k => Kids(s[j]) = <<>>,
         HeldOnce(s \o <<h>>)
  PROVE  /\ HeldOnce(SubSeq(s, 1, k - 1) \o <<g>>)
         /\ \A m : m # 0 => (Held(SubSeq(s, 1, k - 1) \o <<g>>, m) <=> Held(s \o <<h>>, m))
<1> DEFINE p == SubSeq(s, 1, k - 1)
           c == s \o <<h>>
           d == p \o <<g>>
           l == Len(s)
           old == Kids(s[k])
           L == Len(old)
<1>1. l \in Nat /\ DOMAIN c = 1..(l + 1) /\ (\A i \in 1..l : c[i] = s[i]) /\ c[l + 1] = h
  BY SeqPush
<1>3. DOMAIN d = 1..k /\ (\A i \in 1..(k - 1) : d[i] = s[i]) /\ d[k] = g
  BY SeqCut
<1>4. L \in Nat /\ DOMAIN old = 1..L /\ DOMAIN Kids(g) = 1..(L + 1) /\ (\A i \in 1..L : Kids(g)[i] = old[i]) /\ Kids(g)[L + 1] = v
  <2> DEFINE a == Append(old, v)
  <2>1. L \in Nat /\ DOMAIN old = 1..L /\ DOMAIN a = 1..(L + 1) /\ \A i \in 1..(L + 1) : a[i] = IF i <= L THEN old[i] ELSE v
    <3> HIDE DEF old
    <3> QED
      BY SeqAppend DEF old
  <2>2. Kids(g) = a
    OBVIOUS
  <2> HIDE DEF a, old, L
  <2> QED
    BY <2>1, <2>2
<1>5. DOMAIN Kids(h) = {1} /\ Kids(h)[1] = v
  OBVIOUS
<1>6. \A j \in 1..l : j > k => DOMAIN Kids(s[j]) = {}
  BY SeqNone
<1>h. HeldOnce(c)
  OBVIOUS
<1> HIDE DEF p, c, d, l, old, L
<1>7. /\ k \in 1..l /\ \A i \in 1..(k - 1) : i \in DOMAIN c /\ i \in DOMAIN d /\ c[i] = s[i] /\ d[i] = s[i] /\ i # k /\ i # l + 1
      /\ k \in DOMAIN c /\ c[k] = s[k] /\ k \in DOMAIN d /\ l + 1 \in DOMAIN c /\ k # l + 1
  BY <1>1, <1>3 DEF l
<1>8. \A j \in DOMAIN d : j \in 1..(k - 1) \/ j = k
  BY <1>3, <1>7
<1>9. \A j \in DOMAIN c : j \in 1..(k - 1) \/ j = k \/ j = l + 1 \/ (j \in 1..l /\ j > k)
  <2>1. l \in Nat /\ k \in 1..l
    BY <1>1, <1>7
  <2>2. \A j \in 1..(l + 1) : j \in 1..(k - 1) \/ j = k \/ j = l + 1 \/ (j \in 1..l /\ j > k)
    BY <2>1
  <2> QED
    BY <1>1, <2>2
<1> DEFINE Moved(j, i) == j = k /\ i = L + 1
           qj(j, i) == IF Moved(j, i) THEN l + 1 ELSE j
           qi(j, i) == IF Moved(j, i) THEN 1 ELSE i
<1>10. ASSUME NEW j \in DOMAIN d, NEW i \in DOMAIN Kids(d[j])
       PROVE  /\ qj(j, i) \in DOMAIN c /\ qi(j, i) \in DOMAIN Kids(c[qj(j, i)])
              /\ Kids(c[qj(j, i)])[qi(j, i)] = Kids(d[j])[i] /\ j # l + 1
  <2>1. CASE Moved(j, i)
    <3>1. qj(j, i) = l + 1 /\ qi(j, i) = 1 /\ c[l + 1] = h /\ d[j] = g /\ j = k /\ i = L + 1
      BY <1>1, <1>3, <2>1
    <3> HIDE DEF qj, qi, Moved
    <3> QED
      BY <1>4, <1>5, <1>7, <3>1
  <2>2. CASE ~Moved(j, i)
    <3>1. qj(j, i) = j /\ qi(j, i) = i
      BY <2>2
    <3>2. CASE j \in 1..(k - 1)
      <4> HIDE DEF qj, qi, Moved
      <4> QED
        BY <1>7, <3>1, <3>2
    <3>3. CASE j = k
      <4>1. i \in 1..L
        <5>1. i \in 1..(L + 1) /\ i # L + 1
          BY <1>3, <1>4, <2>2, <3>3
        <5> QED
          BY <1>4, <5>1
      <4>2. d[j] = g /\ c[j] = s[k] /\ Kids(s[k]) = old
        BY <1>3, <1>7, <3>3 DEF old
      <4> HIDE DEF qj, qi, Moved
      <4> QED
        BY <1>4, <1>7, <3>1, <3>3, <4>1, <4>2
    <3> QED
      BY <1>8, <3>2, <3>3
  <2> QED
    BY <2>1, <2>2
<1>11. HeldOnce(d)
  <2> SUFFICES ASSUME NEW j \in DOMAIN d, NEW o \in DOMAIN d, NEW i \in DOMAIN Kids(d[j]), NEW n \in DOMAIN Kids(d[o]),
                      Kids(d[j])[i] = Kids(d[o])[n], Kids(d[j])[i] # 0
               PROVE  j = o /\ i = n
    BY DEF HeldOnce
  <2>1. qj(j, i) = qj(o, n) /\ qi(j, i) = qi(o, n) /\ j # l + 1 /\ o # l + 1
    <3> HIDE DEF qj, qi
    <3>1. /\ qj(j, i) \in DOMAIN c /\ qi(j, i) \in DOMAIN Kids(c[qj(j, i)])
          /\ Kids(c[qj(j, i)])[qi(j, i)] = Kids(d[j])[i] /\ j # l + 1
      BY <1>10
    <3>2. /\ qj(o, n) \in DOMAIN c /\ qi(o, n) \in DOMAIN Kids(c[qj(o, n)])
          /\ Kids(c[qj(o, n)])[qi(o, n)] = Kids(d[o])[n] /\ o # l + 1
      BY <1>10
    <3> QED
      BY <1>h, <3>1, <3>2 DEF HeldOnce
  <2> QED
    BY <2>1
<1>12. ASSUME NEW m, m # 0, Held(d, m) PROVE Held(c, m)
  <2>1. PICK j \in DOMAIN d : Has(d[j], m)
    BY <1>12 DEF Held
  <2>2. PICK i \in DOMAIN Kids(d[j]) : Kids(d[j])[i] = m
    BY <2>1 DEF Has
  <2> HIDE DEF qj, qi
  <2>3. /\ qj(j, i) \in DOMAIN c /\ qi(j, i) \in DOMAIN Kids(c[qj(j, i)])
        /\ Kids(c[qj(j, i)])[qi(j, i)] = m
    BY <1>10, <2>2
  <2> QED
    BY <2>3 DEF Held, Has
<1>13. ASSUME NEW m, m # 0, Held(c, m) PROVE Held(d, m)
  <2>1. PICK j \in DOMAIN c : Has(c[j], m)
    BY <1>13 DEF Held
  <2>2. PICK i \in DOMAIN Kids(c[j]) : Kids(c[j])[i] = m
    BY <2>1 DEF Has
  <2>3. CASE j \in 1..(k - 1)
    BY <1>7, <2>1, <2>3 DEF Held
  <2>4. CASE j = k
    <3>1. i \in DOMAIN old /\ old[i] = m
      BY <1>7, <2>2, <2>4 DEF old
    <3>2. i \in 1..L /\ i \in 1..(L + 1)
      BY <1>4, <3>1
    <3>3. i \in DOMAIN Kids(g) /\ Kids(g)[i] = m
      BY <1>4, <3>1, <3>2
    <3> QED
      BY <1>3, <1>7, <3>3 DEF Held, Has
  <2>5. CASE j = l + 1
    <3>1. m = v
      BY <1>1, <1>5, <2>2, <2>5
    <3>2. L + 1 \in DOMAIN Kids(g) /\ Kids(g)[L + 1] = m
      BY <1>4, <3>1
    <3> QED
      BY <1>3, <1>7, <3>2 DEF Held, Has
  <2>6. ~(j \in 1..l /\ j > k)
    BY <1>1, <1>6, <2>2
  <2> QED
    BY <1>9, <2>3, <2>4, <2>5, <2>6
<1> QED
  BY <1>11, <1>12, <1>13 DEF c, d, p

LEMMA RootOwner ==
  ASSUME NEW nds, IsSeq(nds), NEW g, Kids(g) = <<Len(nds)>>, OneOwner(nds, <<>> \o <<g>>)
  PROVE  OneOwner(nds, <<>>)
<1> DEFINE e == <<>>
           c == e \o <<g>>
<1>1. DOMAIN c = 1..1 /\ c[1] = g /\ c # <<>>
  <2>1. IsSeq(e) /\ Len(e) = 0
    BY SeqNone
  <2> HIDE DEF e
  <2>2. DOMAIN c = 1..(Len(e) + 1) /\ c[Len(e) + 1] = g /\ c # <<>>
    BY <2>1, SeqPush
  <2> QED
    BY <2>1, <2>2
<1>2. OneOwner(nds, c)
  OBVIOUS
<1> HIDE DEF c
<1>3. \A m : Held(c, m) => m = Len(nds)
  <2>1. \A j \in DOMAIN c : c[j] = g
    BY <1>1
  <2>2. \A i \in DOMAIN Kids(g) : Kids(g)[i] = Len(nds)
    OBVIOUS
  <2> QED
    BY <2>1, <2>2 DEF Held, Has
<1>4. HeldOnce(<<>>) /\ \A m : ~Held(<<>>, m)
  BY SeqNone DEF HeldOnce, Held
<1> QED
  BY <1>1, <1>2, <1>3, <1>4 DEF OneOwner

-----------------------------------------------------------------------------
(* Steps that keep the nodes: the top of the stack is replaced by functions that hold together *)
(* what it held.                                                                               *)

LEMMA Replaced ==
  ASSUME NEW nds, IsSeq(nds), NEW s, IsSeq(s), NEW t, StackOK(nds, s \o <<t>>), OneOwner(nds, s \o <<t>>),
         NEW fs, Row(nds, fs), Results(fs[1].fn) \subseteq Results(t.fn), Carry(fs, Kids(t))
  PROVE  StackOK(nds, s \o fs) /\ OneOwner(nds, s \o fs)
<1>1. Ready(nds, s, Results(t.fn))
  BY StackPops
<1>2. StackOK(nds, s \o fs)
  BY <1>1, StackGrows
<1>3. IsSeq(fs)
  BY DEF Row
<1>4. HeldOnce(s \o <<t>>)
  BY DEF OneOwner
<1>5. HeldOnce(s \o fs) /\ \A m : m # 0 => (Held(s \o fs, m) <=> Held(s \o <<t>>, m))
  BY <1>3, <1>4, CarryHeld
<1>6. s \o <<t>> # <<>>
  BY SeqPush
<1> DEFINE c == s \o <<t>>
           d == s \o fs
<1> HIDE DEF c, d
<1>7. OneOwner(nds, d)
  BY <1>5, <1>6, SameHeld DEF c, d
<1> QED
  BY <1>2, <1>7 DEF d

LEMMA Returned ==
  ASSUME NEW nds, IsSeq(nds), NEW s, NEW kinds, Ready(nds, s, kinds), s # <<>>, NEW v \in 1..Len(nds),
         nds[v].kind \in kinds, NEW g, Kids(g) = <<v>>, OneOwner(nds, s \o <<g>>)
  PROVE  StackOK(nds, Deliver(s, v)) /\ OneOwner(nds, Deliver(s, v)) /\ Deliver(s, v) # <<>>
<1>1. StackOK(nds, Deliver(s, v))
  BY Delivered
<1>2. PICK k \in 1..Len(s) :
        /\ Deliver(s, v) = SubSeq(s, 1, k - 1) \o <<Given(s[k], v)>>
        /\ Kids(Given(s[k], v)) = Append(Kids(s[k]), v) /\ IsSeq(Kids(s[k]))
        /\ \A j \in 1..Len(s) : j > k => Kids(s[j]) = <<>>
  BY Delivered, SMTT(60)
<1>3. IsSeq(s) /\ v # 0
  BY SeqLen DEF Ready
<1>4. HeldOnce(s \o <<g>>) /\ s \o <<g>> # <<>>
  BY <1>3, SeqPush DEF OneOwner
<1> DEFINE c == s \o <<g>>
           h == Given(s[k], v)
           d == SubSeq(s, 1, k - 1) \o <<h>>
<1> HIDE DEF h
<1>5. HeldOnce(d) /\ \A m : m # 0 => (Held(d, m) <=> Held(c, m))
  BY <1>2, <1>3, <1>4, DeliverHeld DEF h
<1> HIDE DEF c, d
<1>6. OneOwner(nds, d)
  BY <1>4, <1>5, SameHeld DEF c
<1>7. d # <<>>
  <2>1. k - 1 \in Nat /\ k - 1 <= Len(s)
    BY <1>3, SeqLen
  <2>2. IsSeq(SubSeq(s, 1, k - 1))
    BY <1>3, <2>1, SeqPrefix
  <2> QED
    BY <2>2, SeqPush DEF d
<1> QED
  BY <1>1, <1>2, <1>6, <1>7 DEF d, h

Empty(fs) == \A j \in DOMAIN fs : DOMAIN Kids(fs[j]) = {}

LEMMA SameKidsSelf ==
  /\ \A kids : SameKids(kids, kids)
  /\ \A kids : IsSeq(kids) => SameKids(Append(kids, 0), kids)
<1>1. \A kids : SameKids(kids, kids)
  BY DEF SameKids
<1>2. ASSUME NEW kids, IsSeq(kids) PROVE SameKids(Append(kids, 0), kids)
  <2> DEFINE a == Append(kids, 0)
             n == Len(kids)
  <2>1. n \in Nat /\ DOMAIN kids = 1..n /\ DOMAIN a = 1..(n + 1) /\ \A i \in 1..(n + 1) : a[i] = IF i <= n THEN kids[i] ELSE 0
    BY <1>2, SeqAppend
  <2> HIDE DEF a, n
  <2>2. SameKids(a, kids)
    BY <2>1 DEF SameKids
  <2> QED
    BY <2>2 DEF a
<1> QED
  BY <1>1, <1>2

LEMMA CarryOne ==
  ASSUME NEW a, NEW kids, SameKids(Kids(a), kids)
  PROVE  Carry(<<a>>, kids)
<1> DEFINE u == <<a>>
<1>1. DOMAIN u = 1..1 /\ u[1] = a
  OBVIOUS
<1> HIDE DEF u
<1>2. 1 \in DOMAIN u /\ \A j \in DOMAIN u : j = 1
  BY <1>1
<1>3. Carry(u, kids)
  BY <1>1, <1>2 DEF Carry
<1> QED
  BY <1>3 DEF u

LEMMA ConsFacts ==
  ASSUME NEW a, NEW fs, IsSeq(fs)
  PROVE  /\ IsSeq(<<a>> \o fs) /\ 1 \in DOMAIN (<<a>> \o fs) /\ (<<a>> \o fs)[1] = a
         /\ \A j \in DOMAIN fs : j + 1 \in DOMAIN (<<a>> \o fs) /\ (<<a>> \o fs)[j + 1] = fs[j] /\ j # 0 /\ j \in Nat
         /\ \A j \in DOMAIN (<<a>> \o fs) : j = 1 \/ (j - 1 \in DOMAIN fs /\ (j - 1) + 1 = j)
<1> DEFINE u == <<a>>
           c == u \o fs
           m == Len(fs)
<1>1. IsSeq(u) /\ Len(u) = 1 /\ u[1] = a
  BY SeqOne
<1>2. m \in Nat /\ DOMAIN fs = 1..m
  BY SeqLen
<1> HIDE DEF u
<1>3. /\ IsSeq(c) /\ DOMAIN c = 1..(1 + m)
      /\ \A i \in 1..(1 + m) : c[i] = IF i <= 1 THEN u[i] ELSE fs[i - 1]
  <2> HIDE DEF m
  <2>1. /\ IsSeq(c) /\ DOMAIN c = 1..(Len(u) + Len(fs))
        /\ \A i \in 1..(Len(u) + Len(fs)) : c[i] = IF i <= Len(u) THEN u[i] ELSE fs[i - Len(u)]
    BY <1>1, SeqConcat
  <2> QED
    BY <1>1, <2>1 DEF m
<1> HIDE DEF c, m
<1>4. 1 \in DOMAIN c /\ c[1] = a
  BY <1>1, <1>2, <1>3
<1>5. \A j \in DOMAIN fs : j + 1 \in DOMAIN c /\ c[j + 1] = fs[j] /\ j # 0 /\ j \in Nat
  BY <1>2, <1>3
<1>6. \A j \in DOMAIN c : j = 1 \/ (j - 1 \in DOMAIN fs /\ (j - 1) + 1 = j)
  BY <1>2, <1>3
<1> QED
  BY <1>3, <1>4, <1>5, <1>6 DEF c, u

LEMMA CarryFirst ==
  ASSUME NEW a, NEW fs, IsSeq(fs), NEW kids, SameKids(Kids(a), kids), Empty(fs)
  PROVE  Carry(<<a>> \o fs, kids)
<1> DEFINE c == <<a>> \o fs
<1>1. /\ 1 \in DOMAIN c /\ c[1] = a
      /\ \A j \in DOMAIN fs : c[j + 1] = fs[j]
      /\ \A j \in DOMAIN c : j = 1 \/ (j - 1 \in DOMAIN fs /\ (j - 1) + 1 = j)
  BY ConsFacts
<1> HIDE DEF c
<1>2. ASSUME NEW j \in DOMAIN c, j # 1 PROVE DOMAIN Kids(c[j]) = {}
  <2>1. j - 1 \in DOMAIN fs /\ c[j] = fs[j - 1]
    BY <1>1, <1>2
  <2> QED
    BY <2>1 DEF Empty
<1>3. Carry(c, kids)
  BY <1>1, <1>2 DEF Carry
<1> QED
  BY <1>3 DEF c

LEMMA CarryLater ==
  ASSUME NEW a, NEW fs, IsSeq(fs), NEW kids, Kids(a) = <<>>, Carry(fs, kids)
  PROVE  Carry(<<a>> \o fs, kids)
<1> DEFINE c == <<a>> \o fs
<1>1. /\ 1 \in DOMAIN c /\ c[1] = a
      /\ \A j \in DOMAIN fs : j + 1 \in DOMAIN c /\ c[j + 1] = fs[j] /\ j # 0 /\ j \in Nat
      /\ \A j \in DOMAIN c : j = 1 \/ (j - 1 \in DOMAIN fs /\ (j - 1) + 1 = j)
  BY ConsFacts
<1>2. DOMAIN Kids(a) = {}
  BY SeqNone
<1> HIDE DEF c
<1>3. PICK p \in DOMAIN fs : SameKids(Kids(fs[p]), kids) /\ \A j \in DOMAIN fs : j # p => DOMAIN Kids(fs[j]) = {}
  BY DEF Carry
<1>4. p + 1 \in DOMAIN c /\ c[p + 1] = fs[p]
  BY <1>1
<1>5. ASSUME NEW j \in DOMAIN c, j # p + 1 PROVE DOMAIN Kids(c[j]) = {}
  <2>1. CASE j = 1
    BY <1>1, <1>2, <2>1
  <2>2. CASE j # 1
    <3>1. j - 1 \in DOMAIN fs /\ c[j] = fs[j - 1] /\ j - 1 # p
      BY <1>1, <1>5, <2>2
    <3> QED
      BY <1>3, <3>1
  <2> QED
    BY <2>1, <2>2
<1>6. Carry(c, kids)
  BY <1>3, <1>4, <1>5 DEF Carry
<1> QED
  BY <1>6 DEF c

-----------------------------------------------------------------------------
(* The functions a call adds. *)

LEMMA FrameFields ==
  ASSUME NEW fn
  PROVE  /\ IsFrame(Frame(fn)) /\ Frame(fn).fn = fn /\ Frame(fn).pc = 1 /\ Kids(Frame(fn)) = <<>>
         /\ fn \in ScriptNames => Frame(fn).node.kind = Scripts[fn].kind
  BY Domains DEF Frame, Node, IsFrame, Kids

LEMMA CountsAtFirst ==
  /\ \A fn \in ScriptNames \ {"call", "index", "member", "binary", "assign"} : 0 \in Counts[fn][1]
  /\ \A fn \in {"call", "index", "member", "binary", "assign"} : 1 \in Counts[fn][1]
  /\ \A fn \in ScriptNames : 1 \in 1..End(fn) /\ ~(fn = "function" /\ 1 = 8)
<1>1. \A fn \in ScriptNames \ {"call", "index", "member", "binary", "assign"} : 0 \in Counts[fn][1]
  BY DEF ScriptNames, Counts
<1>2. \A fn \in {"call", "index", "member", "binary", "assign"} : 1 \in Counts[fn][1]
  BY DEF Counts
<1>3. \A fn \in ScriptNames : 1 \in 1..End(fn)
  BY ScriptDefs DEF ScriptNames, End, parse_var_decl, parse_block, parse_return, parse_if, parse_while, parse_for,
     expr_stmt, declaration, function, global_var, program, call, index, member, paren, Waiting
<1> QED
  BY <1>1, <1>2, <1>3

LEMMA NewFrame ==
  ASSUME NEW nds, NEW fn \in (ScriptNames \ {"call", "index", "member", "binary", "assign"}) \cup OperatorNames
                               \cup {"parse_unary"}
  PROVE  FrameOK(nds, Frame(fn)) /\ TopOK(Frame(fn)) /\ DOMAIN Kids(Frame(fn)) = {}
<1>1. /\ IsFrame(Frame(fn)) /\ Frame(fn).fn = fn /\ Frame(fn).pc = 1 /\ Kids(Frame(fn)) = <<>>
      /\ fn \in ScriptNames => Frame(fn).node.kind = Scripts[fn].kind
  BY FrameFields
<1>2. <<>> \in Seq(Nat) /\ Len(<<>>) = 0 /\ DOMAIN <<>> = {}
  BY SeqNone
<1>3. fn \in ScriptNames => 1 \in 1..End(fn) /\ 0 \in Counts[fn][1]
  BY CountsAtFirst, Apart
<1>4. FrameOK(nds, Frame(fn))
  BY <1>1, <1>2, <1>3 DEF FrameOK
<1>5. TopOK(Frame(fn))
  BY <1>1 DEF TopOK
<1> QED
  BY <1>1, <1>2, <1>4, <1>5

LEMMA ChainFacts ==
  /\ DOMAIN Chain = 1..8 /\ Len(Chain) = 8
  /\ \A i \in 1..7 : Chain[i] \in OperatorNames \ {"parse_postfix"}
  /\ Chain[8] = "parse_unary"
  /\ \A fn \in Range(Chain) : Index(fn) \in 1..8 /\ Chain[Index(fn)] = fn
  /\ \A fn \in OperatorNames \ {"parse_postfix"} : fn \in Range(Chain)
<1>1. DOMAIN Chain = 1..8 /\ Len(Chain) = 8 /\ Chain[8] = "parse_unary"
  BY DEF Chain
<1>2. \A i \in 1..7 : Chain[i] \in OperatorNames \ {"parse_postfix"}
  BY DEF Chain, OperatorNames
<1>3. ASSUME NEW fn \in Range(Chain) PROVE Index(fn) \in 1..8 /\ Chain[Index(fn)] = fn
  <2>1. \E i \in DOMAIN Chain : Chain[i] = fn
    BY DEF Range
  <2>2. Index(fn) \in DOMAIN Chain /\ Chain[Index(fn)] = fn
    BY <2>1, Zenon DEF Index
  <2> QED
    BY <1>1, <2>2
<1>4. ASSUME NEW fn \in OperatorNames \ {"parse_postfix"} PROVE fn \in Range(Chain)
  <2>1. \E i \in 1..8 : Chain[i] = fn
    <3>1. /\ Chain[1] = "parse_assignment" /\ Chain[2] = "parse_logical_or" /\ Chain[3] = "parse_logical_and"
          /\ Chain[4] = "parse_equality" /\ Chain[5] = "parse_relational" /\ Chain[6] = "parse_additive"
          /\ Chain[7] = "parse_multiplicative"
      BY DEF Chain
    <3> QED
      BY <3>1 DEF OperatorNames
  <2> QED
    BY <1>1, <2>1 DEF Range
<1> QED
  BY <1>1, <1>2, <1>3, <1>4

(* A function on 1..n is a sequence. *)
LEMMA SeqFunction ==
  ASSUME NEW n \in Nat, NEW f, f = [i \in 1..n |-> f[i]]
  PROVE  IsSeq(f) /\ Len(f) = n /\ DOMAIN f = 1..n
<1> DEFINE S == {f[i] : i \in 1..n}
<1>1. DOMAIN f = 1..n /\ f \in [1..n -> S]
  OBVIOUS
<1> HIDE DEF S
<1>2. f \in Seq(S)
  <2>1. Seq(S) = UNION {[1..m -> S] : m \in Nat}
    BY SeqDef, Zenon
  <2> DEFINE T == Seq(S)
  <2> HIDE DEF T
  <2>2. T = UNION {[1..m -> S] : m \in Nat}
    BY <2>1 DEF T
  <2>3. f \in T
    BY <1>1, <2>2
  <2> QED
    BY <2>3 DEF T
<1>3. IsSeq(f)
  BY <1>2, Zenon DEF IsSeq
<1>4. Len(f) \in Nat /\ DOMAIN f = 1..Len(f)
  BY <1>3, SeqLen
<1>5. Len(f) = n
  BY <1>1, <1>4
<1> QED
  BY <1>1, <1>3, <1>5

LEMMA ChainRow ==
  ASSUME NEW nds, NEW k \in 1..8, NEW fs, fs = [i \in 1..(9 - k) |-> Frame(Chain[k + i - 1])]
  PROVE  Row(nds, fs) /\ Results(fs[1].fn) = ExprKinds /\ Empty(fs)
<1> DEFINE n == 9 - k
<1>1. n \in Nat \ {0} /\ DOMAIN fs = 1..n
  OBVIOUS
<1>2. ASSUME NEW i \in 1..n
      PROVE  /\ fs[i] = Frame(Chain[k + i - 1]) /\ fs[i].fn = Chain[k + i - 1] /\ Kids(fs[i]) = <<>>
             /\ FrameOK(nds, fs[i]) /\ TopOK(fs[i]) /\ DOMAIN Kids(fs[i]) = {}
             /\ Results(fs[i].fn) = ExprKinds
             /\ i < n => fs[i].fn \in OperatorNames
             /\ i = n => fs[i].fn = "parse_unary"
  <2> DEFINE fn == Chain[k + i - 1]
  <2>1. fs[i] = Frame(fn)
    BY <1>2
  <2>2. i < n => k + i - 1 \in 1..7
    OBVIOUS
  <2>3. i = n => k + i - 1 = 8
    OBVIOUS
  <2>4. i < n \/ i = n
    OBVIOUS
  <2>5. (i < n => fn \in OperatorNames) /\ (i = n => fn = "parse_unary")
    BY <2>2, <2>3, ChainFacts
  <2>6. fn \in OperatorNames \cup {"parse_unary"}
    BY <2>4, <2>5
  <2> HIDE DEF fn, n
  <2>7. FrameOK(nds, Frame(fn)) /\ TopOK(Frame(fn)) /\ DOMAIN Kids(Frame(fn)) = {}
    BY <2>6, NewFrame
  <2>8. Frame(fn).fn = fn /\ Kids(Frame(fn)) = <<>>
    BY FrameFields
  <2>9. Results(fn) = ExprKinds
    <3>1. Results("parse_unary") = ExprKinds
      BY Domains, Apart DEF Results
    <3> QED
      BY <2>6, <3>1, OperatorKinds
  <2> QED
    BY <2>1, <2>5, <2>7, <2>8, <2>9 DEF fn
<1> HIDE DEF n
<1>3. IsSeq(fs) /\ Len(fs) = n /\ fs # <<>>
  <2>1. n \in Nat /\ fs = [i \in 1..n |-> fs[i]]
    BY <1>1 DEF n
  <2>2. IsSeq(fs) /\ Len(fs) = n
    BY <2>1, SeqFunction
  <2> QED
    BY <1>1, <2>2, SeqNone
<1>4. \A j \in 1..(n - 1) : WaitsFor(fs[j], Results(fs[j + 1].fn))
  <2> SUFFICES ASSUME NEW j \in 1..(n - 1) PROVE WaitsFor(fs[j], Results(fs[j + 1].fn))
    OBVIOUS
  <2>1. j \in 1..n /\ j + 1 \in 1..n /\ j < n
    BY <1>1
  <2>2. Results(fs[j + 1].fn) = ExprKinds
    BY <1>2, <2>1
  <2>3. fs[j].fn \in OperatorNames /\ Kids(fs[j]) = <<>>
    BY <1>2, <2>1
  <2>4. fs[j].fn # "parse_unary" /\ fs[j].fn \notin ScriptNames
    BY <2>3, Apart DEF OperatorNames
  <2> QED
    BY <2>2, <2>3, <2>4, OperatorKinds DEF WaitsFor
<1>5. 1 \in 1..n /\ n \in 1..n
  BY <1>1
<1> QED
  BY <1>1, <1>2, <1>3, <1>4, <1>5 DEF Row, Empty

LEMMA FramesRow ==
  ASSUME NEW nds, NEW fn \in {"parse_expr", "parse_stmt", "for_init", "parse_block", "declaration"}
  PROVE  /\ Row(nds, Frames(fn)) /\ Results(Frames(fn)[1].fn) \subseteq Called(fn) /\ Empty(Frames(fn))
<1>1. CASE fn = "parse_expr"
  <2>1. Frames(fn) = [i \in 1..8 |-> Frame(Chain[i])]
    BY <1>1, ChainFacts DEF Frames
  <2>2. \A i \in 1..8 : 1 + i - 1 = i
    OBVIOUS
  <2>3. Frames(fn) = [i \in 1..(9 - 1) |-> Frame(Chain[1 + i - 1])]
    BY <2>1, <2>2
  <2>4. Row(nds, Frames(fn)) /\ Results(Frames(fn)[1].fn) = ExprKinds /\ Empty(Frames(fn))
    BY <2>3, ChainRow
  <2> QED
    BY <1>1, <2>4, CalledKinds
<1>2. ASSUME fn # "parse_expr"
      PROVE  \E g \in ScriptNames \ {"call", "index", "member", "binary", "assign"} :
               Frames(fn) = <<Frame(g)>> /\ Results(g) \subseteq Called(fn)
  <2>1. fn \notin Range(Chain)
    <3>1. \A i \in 1..8 : Chain[i] \in OperatorNames \cup {"parse_unary"}
      BY ChainFacts
    <3>2. fn \notin OperatorNames \cup {"parse_unary"}
      BY DEF OperatorNames
    <3> QED
      BY <3>1, <3>2, ChainFacts DEF Range
  <2>2. CASE fn = "parse_stmt"
    <3>1. StatementFunction \in
            {"parse_var_decl", "parse_return", "parse_if", "parse_while", "parse_for", "parse_block", "expr_stmt"}
      BY DEF StatementFunction
    <3>2. \A g \in {"parse_var_decl", "parse_return", "parse_if", "parse_while", "parse_for", "parse_block", "expr_stmt"} :
            /\ g \in ScriptNames \ {"call", "index", "member", "binary", "assign"}
            /\ Results(g) \subseteq StmtKinds
      BY Domains, ScriptDefs DEF Results, ScriptNames, StmtKinds, parse_var_decl, parse_return, parse_if, parse_while, parse_for,
         parse_block, expr_stmt
    <3>3. Frames(fn) = <<Frame(StatementFunction)>>
      BY <2>1, <2>2 DEF Frames
    <3> QED
      BY <2>2, <3>1, <3>2, <3>3, CalledKinds
  <2>3. CASE fn = "for_init"
    <3> DEFINE g == IF is_type_keyword(current.type) THEN "parse_var_decl" ELSE "expr_stmt"
    <3>1. Frames(fn) = <<Frame(g)>>
      BY <2>1, <2>3 DEF Frames
    <3>2. g \in {"parse_var_decl", "expr_stmt"}
      OBVIOUS
    <3>3. \A h \in {"parse_var_decl", "expr_stmt"} :
            /\ h \in ScriptNames \ {"call", "index", "member", "binary", "assign"}
            /\ Results(h) \subseteq {"VAR_DECL", "EXPR_STMT"}
      BY Domains, ScriptDefs DEF Results, ScriptNames, parse_var_decl, expr_stmt
    <3> HIDE DEF g
    <3> QED
      BY <2>3, <3>1, <3>2, <3>3, CalledKinds
  <2>4. CASE fn \in {"parse_block", "declaration"}
    <3>1. Frames(fn) = <<Frame(fn)>>
      BY <2>1, <2>4 DEF Frames
    <3>2. Called(fn) = Results(fn)
      BY <2>4 DEF Called
    <3>3. fn \in ScriptNames \ {"call", "index", "member", "binary", "assign"}
      BY <2>4 DEF ScriptNames
    <3> QED
      BY <3>1, <3>2, <3>3
  <2> QED
    BY <1>2, <2>2, <2>3, <2>4
<1>3. CASE fn # "parse_expr"
  <2>1. PICK g \in ScriptNames \ {"call", "index", "member", "binary", "assign"} :
          Frames(fn) = <<Frame(g)>> /\ Results(g) \subseteq Called(fn)
    BY <1>2, <1>3
  <2> DEFINE a == Frame(g)
             u == <<a>>
  <2>2. FrameOK(nds, a) /\ TopOK(a) /\ DOMAIN Kids(a) = {} /\ a.fn = g
    BY NewFrame, FrameFields
  <2> HIDE DEF a
  <2>3. Row(nds, u) /\ u[1] = a
    BY <2>2, RowOne
  <2>4. \A j \in DOMAIN u : u[j] = a
    OBVIOUS
  <2>5. Frames(fn) = u
    BY <2>1 DEF a
  <2> HIDE DEF u
  <2> QED
    BY <2>1, <2>2, <2>3, <2>4, <2>5 DEF Empty
<1> QED
  BY <1>1, <1>3

LEMMA LowerFrames ==
  ASSUME NEW nds, NEW fn \in OperatorNames \ {"parse_postfix"}
  PROVE  Row(nds, Frames(Right(fn))) /\ Results(Frames(Right(fn))[1].fn) = ExprKinds /\ Empty(Frames(Right(fn)))
<1>1. fn \in Range(Chain) /\ Index(fn) \in 1..8 /\ Chain[Index(fn)] = fn
  BY ChainFacts
<1>2. Index(fn) \in 1..7
  <2>1. Index(fn) # 8
    BY <1>1, ChainFacts DEF OperatorNames
  <2> QED
    BY <1>1, <2>1
<1>3. Right(fn) \in Range(Chain)
  <2>1. Index(fn) + 1 \in DOMAIN Chain
    BY <1>2, ChainFacts
  <2>2. Chain[Index(fn) + 1] \in Range(Chain)
    BY <2>1 DEF Range
  <2> QED
    BY <1>1, <2>2 DEF Right
<1> DEFINE g == Right(fn)
           k == Index(g)
<1>4. k \in 1..8 /\ Chain[k] = g
  BY <1>3, ChainFacts
<1>5. g # "parse_expr"
  <2>1. \A i \in 1..8 : Chain[i] \in OperatorNames \cup {"parse_unary"}
    BY ChainFacts
  <2> QED
    BY <1>4, <2>1 DEF OperatorNames
<1>6. Frames(g) = [i \in 1..(9 - k) |-> Frame(Chain[k + i - 1])]
  <2>1. Frames(g) = [i \in 1..(8 - k + 1) |-> Frame(Chain[k + i - 1])]
    BY <1>3, <1>5, ChainFacts DEF Frames
  <2>2. 8 - k + 1 = 9 - k
    BY <1>4
  <2> QED
    BY <2>1, <2>2
<1> HIDE DEF k, g
<1>7. Row(nds, Frames(g)) /\ Results(Frames(g)[1].fn) = ExprKinds /\ Empty(Frames(g))
  BY <1>4, <1>6, ChainRow
<1> QED
  BY <1>7 DEF g

-----------------------------------------------------------------------------
(* The invariant of the parser. *)

TreeIn(nds) ==
  \A n \in DOMAIN nds :
    LET node == nds[n]
    IN  /\ node.kind \in NodeKinds \ (HoleKinds \cup {"NULL"})
        /\ node.kids \in Seq(Nat) /\ HasArity(node.kind, Len(node.kids))
        /\ \A i \in DOMAIN node.kids :
             node.kids[i] \in 0..(n - 1) /\ KindIn(nds, node.kids[i]) \in Slot(node.kind, i)

Linked(nds, cs) == StackOK(nds, cs) /\ OneOwner(nds, cs)

ParserInv ==
  /\ IsSeq(nodes) /\ IsSeq(parens) /\ Len(parens) = Len(nodes) /\ TreeIn(nodes)
  /\ Linked(nodes, calls)
  /\ IsSeq(seen) /\ (seen = <<>> => nodes = <<>> /\ calls = <<>>)
  /\ seen # <<>> => calls # <<>> \/ nodes # <<>>

\* What holds of the function that runs.
LEMMA TopFacts ==
  ASSUME ParserInv, calls # <<>>
  PROVE  /\ IsSeq(calls) /\ IsSeq(Front(calls)) /\ calls = Front(calls) \o <<Top>> /\ IsSeq(nodes)
         /\ Linked(nodes, Front(calls) \o <<Top>>) /\ Linked(nodes, calls)
         /\ FrameOK(nodes, Top) /\ TopOK(Top) /\ Ready(nodes, Front(calls), Results(Top.fn))
         /\ IsFrame(Top) /\ IsSeq(Kids(Top))
<1>1. IsSeq(calls) /\ Linked(nodes, calls) /\ IsSeq(nodes)
  BY DEF ParserInv, Linked, StackOK
<1>2. IsSeq(Front(calls)) /\ calls = Front(calls) \o <<Top>>
  BY <1>1, SeqSplit DEF Top
<1>3. Linked(nodes, Front(calls) \o <<Top>>)
  BY <1>1, <1>2
<1> DEFINE s == Front(calls)
           t == Top
<1>4. StackOK(nodes, s \o <<t>>) /\ IsSeq(s)
  BY <1>2, <1>3 DEF Linked
<1> HIDE DEF s, t
<1>5. FrameOK(nodes, t) /\ TopOK(t) /\ Ready(nodes, s, Results(t.fn))
  BY <1>4, StackPops
<1>6. IsFrame(t) /\ IsSeq(Kids(t))
  BY <1>5, Zenon DEF FrameOK, IsSeq
<1> QED
  BY <1>1, <1>2, <1>3, <1>5, <1>6 DEF s, t

\* f differs from t in its place and in what no property is about.
Alike(f, t) == IsFrame(f) /\ f.fn = t.fn /\ f.node.kind = t.node.kind

LEMMA AfterFields ==
  ASSUME NEW t, IsFrame(t)
  PROVE  Alike(After(t), t) /\ Kids(After(t)) = Kids(t) /\ After(t).pc = t.pc + 1
  BY DEF Alike, After, IsFrame, Kids

LEMMA OtherFields ==
  ASSUME NEW t, IsFrame(t)
  PROVE  /\ \A x : /\ Alike([t EXCEPT !.pc = x], t) /\ Kids([t EXCEPT !.pc = x]) = Kids(t)
                   /\ [t EXCEPT !.pc = x].pc = x
         /\ \A x : /\ Alike([t EXCEPT !.node.name = x], t) /\ Kids([t EXCEPT !.node.name = x]) = Kids(t)
                   /\ [t EXCEPT !.node.name = x].pc = t.pc
         /\ \A x : /\ Alike([t EXCEPT !.node.type = x], t) /\ Kids([t EXCEPT !.node.type = x]) = Kids(t)
                   /\ [t EXCEPT !.node.type = x].pc = t.pc
         /\ \A x : /\ Alike([t EXCEPT !.node.params = x], t) /\ Kids([t EXCEPT !.node.params = x]) = Kids(t)
                   /\ [t EXCEPT !.node.params = x].pc = t.pc
         /\ \A x : /\ Alike([t EXCEPT !.node.kids = x], t) /\ Kids([t EXCEPT !.node.kids = x]) = x
                   /\ [t EXCEPT !.node.kids = x].pc = t.pc
  BY DEF Alike, IsFrame, Kids

LEMMA NextWithFields ==
  ASSUME IsFrame(Top), NEW v
  PROVE  Alike(NextWith(v), Top) /\ Kids(NextWith(v)) = Append(Kids(Top), v) /\ NextWith(v).pc = Top.pc + 2
  BY DEF NextWith, Alike, IsFrame, Kids

LEMMA AlikeTwice == \A f, g, t : Alike(f, g) /\ Alike(g, t) => Alike(f, t)
  BY DEF Alike

LEMMA SameChildren ==
  ASSUME NEW nds, NEW t, FrameOK(nds, t), NEW f, Alike(f, t), Kids(f) = Kids(t),
         t.fn \in ScriptNames => f.pc \in 1..End(t.fn) /\ Len(Kids(t)) \in Counts[t.fn][f.pc]
  PROVE  FrameOK(nds, f)
  BY DEF FrameOK, Alike

LEMMA NullChild ==
  ASSUME NEW nds, IsSeq(nds), NEW t, FrameOK(nds, t), NEW f, Alike(f, t), Kids(f) = Append(Kids(t), 0),
         t.fn \in ScriptNames, f.pc \in 1..End(t.fn), Len(Kids(t)) + 1 \in Counts[t.fn][f.pc],
         "NULL" \in Accepts(t.fn, Len(Kids(t)) + 1)
  PROVE  FrameOK(nds, f)
<1> DEFINE old == Kids(t)
           new == Append(old, 0)
           n == Len(old)
<1>1. /\ old \in Seq(Nat) /\ n \in Nat /\ DOMAIN old = 1..n
      /\ \A i \in DOMAIN old : old[i] <= Len(nds) /\ KindIn(nds, old[i]) \in Accepts(t.fn, i)
  BY DEF FrameOK
<1>2. /\ new \in Seq(Nat) /\ Len(new) = n + 1 /\ DOMAIN new = 1..(n + 1)
      /\ \A i \in 1..(n + 1) : new[i] = IF i <= n THEN old[i] ELSE 0
  <2>1. IsSeq(old)
    BY <1>1, Zenon DEF IsSeq
  <2>2. new \in Seq(Nat)
    BY <1>1
  <2> HIDE DEF old
  <2> QED
    BY <2>1, <2>2, SeqAppend
<1>3. Len(nds) \in Nat
  BY SeqLen
<1>4. f.fn = t.fn /\ IsFrame(f) /\ f.node.kind = Scripts[t.fn].kind /\ Kids(f) = new
  BY DEF Alike, FrameOK
<1>5. "NULL" \in Accepts(t.fn, n + 1) /\ n + 1 \in Counts[t.fn][f.pc]
  OBVIOUS
<1> HIDE DEF old, new, n
<1>6. \A i \in DOMAIN new : new[i] <= Len(nds) /\ KindIn(nds, new[i]) \in Accepts(t.fn, i)
  <2> SUFFICES ASSUME NEW i \in 1..(n + 1) PROVE new[i] <= Len(nds) /\ KindIn(nds, new[i]) \in Accepts(t.fn, i)
    BY <1>2
  <2>1. CASE i \in 1..n
    <3>1. i <= n /\ i \in 1..(n + 1) /\ i \in DOMAIN old
      BY <1>1, <2>1
    <3>2. new[i] = old[i]
      BY <1>2, <3>1
    <3> QED
      BY <1>1, <3>1, <3>2
  <2>2. CASE i = n + 1
    <3>1. new[i] = 0
      BY <1>1, <1>2, <2>2
    <3> QED
      BY <1>3, <1>5, <2>2, <3>1 DEF KindIn
  <2>3. i \in 1..n \/ i = n + 1
    BY <1>1
  <2> QED
    BY <2>1, <2>2, <2>3
<1> QED
  BY <1>2, <1>4, <1>5, <1>6, Apart DEF FrameOK

\* The function that runs goes on.
LEMMA GoesOn ==
  ASSUME ParserInv, calls # <<>>, NEW f, GoOn(f), FrameOK(nodes, f), TopOK(f), Results(f.fn) \subseteq Results(Top.fn),
         SameKids(Kids(f), Kids(Top))
  PROVE  Linked(nodes, calls') /\ calls' # <<>> /\ UNCHANGED <<nodes, parens>>
<1> DEFINE s == Front(calls)
           t == Top
           fs == <<f>>
<1>1. /\ IsSeq(s) /\ IsSeq(nodes) /\ StackOK(nodes, s \o <<t>>) /\ OneOwner(nodes, s \o <<t>>)
  BY TopFacts DEF Linked
<1>2. calls' = s \o fs /\ UNCHANGED <<nodes, parens>>
  <2>1. calls' = Append(s, f)
    BY DEF GoOn
  <2> QED
    BY <1>1, <2>1, AppendIs DEF GoOn, NoNode
<1>3. Row(nodes, fs) /\ fs[1] = f
  BY RowOne
<1>4. Carry(fs, Kids(t))
  BY CarryOne
<1>5. Results(fs[1].fn) \subseteq Results(t.fn)
  BY <1>3
<1> HIDE DEF s, t, fs
<1>6. StackOK(nodes, s \o fs) /\ OneOwner(nodes, s \o fs) /\ s \o fs # <<>>
  BY <1>1, <1>3, <1>4, <1>5, Replaced, RowStays
<1> QED
  BY <1>2, <1>6 DEF Linked
LEMMA Ends == \A fn \in ScriptNames : Len(Scripts[fn].steps) \in Nat
  BY ScriptDefs DEF ScriptNames, parse_var_decl, parse_block, parse_return, parse_if, parse_while, parse_for, expr_stmt,
     declaration, function, global_var, program, call, index, member, paren, Waiting

LEMMA DoingFacts ==
  ASSUME ParserInv, NEW do, Doing(do)
  PROVE  /\ calls # <<>> /\ Top.fn \in ScriptNames /\ Top.pc \in 1..(End(Top.fn) - 1)
         /\ This = StepOf(Top.fn, Top.pc) /\ This.do = do /\ TableOK(Top.fn, Top.pc)
         /\ Len(Kids(Top)) \in Counts[Top.fn][Top.pc] /\ Len(Kids(Top)) \in Nat
         /\ End(Top.fn) \in Nat
<1>1. calls # <<>> /\ Top.fn \in ScriptNames /\ Top.pc <= Len(Scripts[Top.fn].steps)
  BY Domains DEF Doing, Script
<1>2. This = StepOf(Top.fn, Top.pc) /\ This.do = do
  BY DEF Doing, This, StepOf, Script
<1>3. FrameOK(nodes, Top) /\ IsSeq(Kids(Top))
  BY <1>1, TopFacts
<1>4. Top.pc \in 1..End(Top.fn) /\ Len(Kids(Top)) \in Counts[Top.fn][Top.pc]
  BY <1>1, <1>3 DEF FrameOK
<1>5. Len(Scripts[Top.fn].steps) \in Nat
  BY <1>1, Ends
<1>6. Top.pc \in 1..(End(Top.fn) - 1) /\ End(Top.fn) \in Nat
  BY <1>1, <1>4, <1>5 DEF End
<1>7. TableOK(Top.fn, Top.pc)
  BY <1>1, <1>6, TheScripts DEF Scripted
<1>8. Len(Kids(Top)) \in Nat
  BY <1>3, SeqLen
<1> QED
  BY <1>1, <1>2, <1>4, <1>6, <1>7, <1>8

\* It goes on at another step with the children it has.
LEMMA GoesTo ==
  ASSUME ParserInv, NEW do, Doing(do), NEW f, GoOn(f), Alike(f, Top), Kids(f) = Kids(Top),
         Goes(Top.fn, Top.pc, f.pc, 0), Top.fn = "function" => f.pc # 8
  PROVE  Linked(nodes', calls') /\ calls' # <<>> /\ UNCHANGED <<nodes, parens>>
<1>1. /\ calls # <<>> /\ Top.fn \in ScriptNames /\ Len(Kids(Top)) \in Counts[Top.fn][Top.pc] /\ Len(Kids(Top)) \in Nat
  BY DoingFacts
<1>2. f.pc \in 1..End(Top.fn) /\ Len(Kids(Top)) \in Counts[Top.fn][f.pc]
  <2>1. \A c \in Counts[Top.fn][Top.pc] : c + 0 \in Counts[Top.fn][f.pc]
    BY DEF Goes
  <2>2. Len(Kids(Top)) + 0 \in Counts[Top.fn][f.pc]
    BY <1>1, <2>1
  <2>3. Len(Kids(Top)) + 0 = Len(Kids(Top))
    BY <1>1
  <2> QED
    BY <2>2, <2>3 DEF Goes
<1>3. FrameOK(nodes, Top)
  BY <1>1, TopFacts
<1>4. FrameOK(nodes, f)
  BY <1>2, <1>3, SameChildren
<1>5. f.fn = Top.fn
  BY DEF Alike
<1>6. TopOK(f) /\ Results(f.fn) \subseteq Results(Top.fn)
  BY <1>5 DEF TopOK
<1>7. SameKids(Kids(f), Kids(Top))
  BY SameKidsSelf
<1>8. Linked(nodes, calls') /\ calls' # <<>> /\ UNCHANGED <<nodes, parens>>
  BY <1>1, <1>4, <1>6, <1>7, GoesOn
<1> QED
  BY <1>8

\* It stays at its step.
LEMMA Stays ==
  ASSUME ParserInv, NEW do, Doing(do), NEW f, GoOn(f), Alike(f, Top), Kids(f) = Kids(Top), f.pc = Top.pc
  PROVE  Linked(nodes', calls') /\ calls' # <<>> /\ UNCHANGED <<nodes, parens>>
<1>1. calls # <<>>
  BY DoingFacts
<1>2. FrameOK(nodes, Top) /\ TopOK(Top)
  BY <1>1, TopFacts
<1>3. FrameOK(nodes, f)
  <2>1. Top.fn \in ScriptNames => f.pc \in 1..End(Top.fn) /\ Len(Kids(Top)) \in Counts[Top.fn][f.pc]
    BY <1>2 DEF FrameOK
  <2> QED
    BY <1>2, <2>1, SameChildren
<1>4. f.fn = Top.fn
  BY DEF Alike
<1>5. TopOK(f) /\ Results(f.fn) \subseteq Results(Top.fn)
  BY <1>2, <1>4 DEF TopOK
<1>6. SameKids(Kids(f), Kids(Top))
  BY SameKidsSelf
<1>7. Linked(nodes, calls') /\ calls' # <<>> /\ UNCHANGED <<nodes, parens>>
  BY <1>1, <1>3, <1>5, <1>6, GoesOn
<1> QED
  BY <1>7

\* It goes on with NULL for a child that is not there.
LEMMA GoesWithNull ==
  ASSUME ParserInv, NEW do, Doing(do), do \in {"if", "unless", "take"}, GoOn(NextWith(0))
  PROVE  Linked(nodes', calls') /\ calls' # <<>> /\ UNCHANGED <<nodes, parens>>
<1> DEFINE fn == Top.fn
           pc == Top.pc
           n == Len(Kids(Top))
<1>1. /\ calls # <<>> /\ fn \in ScriptNames /\ n \in Counts[fn][pc] /\ n \in Nat /\ pc \in 1..(End(fn) - 1)
      /\ This = StepOf(fn, pc) /\ This.do = do /\ TableOK(fn, pc)
  BY DoingFacts
<1>2. FrameOK(nodes, Top) /\ IsFrame(Top) /\ IsSeq(nodes) /\ IsSeq(Kids(Top))
  BY <1>1, TopFacts
<1>3. /\ Alike(NextWith(0), Top) /\ Kids(NextWith(0)) = Append(Kids(Top), 0) /\ NextWith(0).pc = pc + 2
  BY <1>2, NextWithFields
<1>4. fn # "function" /\ Goes(fn, pc, pc + 2, 1) /\ \A c \in Counts[fn][pc] : "NULL" \in Accepts(fn, c + 1)
  BY <1>1, Zenon DEF TableOK
<1>5. pc + 2 \in 1..End(fn) /\ n + 1 \in Counts[fn][pc + 2] /\ "NULL" \in Accepts(fn, n + 1)
  BY <1>1, <1>4 DEF Goes
<1>6. FrameOK(nodes, NextWith(0))
  BY <1>1, <1>2, <1>3, <1>5, NullChild
<1>7. NextWith(0).fn = fn
  BY <1>3 DEF Alike
<1>8. TopOK(NextWith(0)) /\ Results(NextWith(0).fn) \subseteq Results(Top.fn)
  BY <1>4, <1>7 DEF TopOK
<1>9. SameKids(Kids(NextWith(0)), Kids(Top))
  BY <1>2, <1>3, SameKidsSelf
<1>10. Linked(nodes, calls') /\ calls' # <<>> /\ UNCHANGED <<nodes, parens>>
  BY <1>1, <1>6, <1>8, <1>9, GoesOn
<1> QED
  BY <1>10

-----------------------------------------------------------------------------
(* The steps of scripts. *)

LEMMA ExpectTokenLinks ==
  ASSUME ParserInv, ExpectToken
  PROVE  Linked(nodes', calls') /\ calls' # <<>> /\ UNCHANGED <<nodes, parens>>
<1>1. Doing("expect") /\ GoOn(After(Top))
  BY DEF ExpectToken
<1>2. /\ calls # <<>> /\ Top.fn \in ScriptNames /\ Top.pc \in 1..(End(Top.fn) - 1) /\ End(Top.fn) \in Nat
      /\ StepOf(Top.fn, Top.pc).do = "expect" /\ TableOK(Top.fn, Top.pc)
  BY <1>1, DoingFacts
<1>3. FrameOK(nodes, Top) /\ TopOK(Top) /\ IsFrame(Top)
  BY <1>2, TopFacts
<1>4. Alike(After(Top), Top) /\ Kids(After(Top)) = Kids(Top) /\ After(Top).pc = Top.pc + 1
  BY <1>3, AfterFields
<1>5. CASE ~(Top.fn = "function" /\ Top.pc = 8)
  <2>1. Goes(Top.fn, Top.pc, Top.pc + 1, 0) /\ (Top.fn = "function" => Top.pc # 7)
    BY <1>2, <1>5, Zenon DEF TableOK, Plain
  <2>2. Top.fn = "function" => After(Top).pc # 8
    BY <1>2, <1>4, <2>1
  <2>3. Goes(Top.fn, Top.pc, After(Top).pc, 0)
    BY <1>4, <2>1
  <2> QED
    BY <1>1, <1>4, <2>2, <2>3, GoesTo
<1>6. CASE Top.fn = "function" /\ Top.pc = 8
  <2>1. Len(Kids(Top)) = 1
    BY <1>3, <1>6 DEF TopOK
  <2>2. 9 \in 1..End("function") /\ 1 \in Counts["function"][9]
    BY ScriptDefs DEF End, function, Counts
  <2>3. After(Top).pc = 9
    BY <1>4, <1>6
  <2>4. FrameOK(nodes, After(Top))
    BY <1>3, <1>4, <1>6, <2>1, <2>2, <2>3, SameChildren
  <2>5. After(Top).fn = Top.fn
    BY <1>4 DEF Alike
  <2>6. TopOK(After(Top)) /\ Results(After(Top).fn) \subseteq Results(Top.fn)
    BY <2>3, <2>5 DEF TopOK
  <2>7. SameKids(Kids(After(Top)), Kids(Top))
    BY <1>4, SameKidsSelf
  <2>8. Linked(nodes, calls') /\ calls' # <<>> /\ UNCHANGED <<nodes, parens>>
    BY <1>1, <1>2, <2>4, <2>6, <2>7, GoesOn
  <2> QED
    BY <2>8
<1> QED
  BY <1>5, <1>6

\* A step of the plain kinds leads to the next.
LEMMA PlainStep ==
  ASSUME ParserInv, NEW do, Doing(do), do \in Plain \ {"expect"}, NEW f, GoOn(f), Alike(f, Top), Kids(f) = Kids(Top),
         f.pc = Top.pc + 1
  PROVE  Linked(nodes', calls') /\ calls' # <<>> /\ UNCHANGED <<nodes, parens>>
<1>1. /\ calls # <<>> /\ Top.fn \in ScriptNames /\ Top.pc \in 1..(End(Top.fn) - 1) /\ End(Top.fn) \in Nat
      /\ StepOf(Top.fn, Top.pc).do = do /\ TableOK(Top.fn, Top.pc)
  BY DoingFacts
<1>2. ~(Top.fn = "function" /\ Top.pc = 8)
  <2>1. ASSUME Top.fn = "function", Top.pc = 8 PROVE FALSE
    <3>1. StepOf("function", 8).do = "expect"
      BY ScriptDefs DEF StepOf, function, Expect, Step
    <3> QED
      BY <1>1, <2>1, <3>1
  <2> QED
    BY <2>1
<1>3. Goes(Top.fn, Top.pc, Top.pc + 1, 0) /\ (Top.fn = "function" => Top.pc # 7)
  BY <1>1, <1>2, Zenon DEF TableOK
<1>4. Top.fn = "function" => f.pc # 8
  BY <1>1, <1>3
<1>5. Goes(Top.fn, Top.pc, f.pc, 0)
  BY <1>3
<1> QED
  BY <1>4, <1>5, GoesTo

LEMMA ExpectNameLinks ==
  ASSUME ParserInv, ExpectName
  PROVE  Linked(nodes', calls') /\ calls' # <<>> /\ UNCHANGED <<nodes, parens>>
<1> DEFINE f == [After(Top) EXCEPT !.node.name = current.lexeme]
<1>1. Doing("name") /\ GoOn(f)
  BY DEF ExpectName
<1>2. IsFrame(Top)
  BY <1>1, DoingFacts, TopFacts
<1>3. Alike(After(Top), Top) /\ Kids(After(Top)) = Kids(Top) /\ After(Top).pc = Top.pc + 1
  BY <1>2, AfterFields
<1>4. IsFrame(After(Top))
  BY <1>3 DEF Alike
<1>5. Alike(f, After(Top)) /\ Kids(f) = Kids(After(Top)) /\ f.pc = After(Top).pc
  BY <1>4, OtherFields
<1>6. "name" \in Plain \ {"expect"}
  BY DEF Plain
<1>7. Alike(f, Top)
  BY <1>3, <1>5, AlikeTwice
<1>8. Kids(f) = Kids(Top) /\ f.pc = Top.pc + 1
  BY <1>3, <1>5
<1> HIDE DEF f
<1> QED
  BY <1>1, <1>6, <1>7, <1>8, PlainStep

LEMMA ParseTypeLinks ==
  ASSUME ParserInv, ParseType
  PROVE  Linked(nodes', calls') /\ calls' # <<>> /\ UNCHANGED <<nodes, parens>>
<1> DEFINE f == [Top EXCEPT !.node.type = TypeInfo(current.type, 0)]
           g == [Top EXCEPT !.node.type.ptr_depth = @ + 1]
<1>1. Doing("type") /\ (GoOn(f) \/ GoOn(g) \/ GoOn(After(Top)))
  BY DEF ParseType
<1>2. IsFrame(Top)
  BY <1>1, DoingFacts, TopFacts
<1>3. CASE GoOn(f)
  <2>1. Alike(f, Top) /\ Kids(f) = Kids(Top) /\ f.pc = Top.pc
    BY <1>2, OtherFields
  <2> HIDE DEF f
  <2> QED
    BY <1>1, <1>3, <2>1, Stays
<1>4. CASE GoOn(g)
  <2>1. Alike(g, Top) /\ Kids(g) = Kids(Top) /\ g.pc = Top.pc
    BY <1>2 DEF Alike, IsFrame, Kids
  <2> HIDE DEF g
  <2> QED
    BY <1>1, <1>4, <2>1, Stays
<1>5. CASE GoOn(After(Top))
  <2>1. Alike(After(Top), Top) /\ Kids(After(Top)) = Kids(Top) /\ After(Top).pc = Top.pc + 1
    BY <1>2, AfterFields
  <2>2. "type" \in Plain \ {"expect"}
    BY DEF Plain
  <2> QED
    BY <1>1, <1>5, <2>1, <2>2, PlainStep
<1> QED
  BY <1>1, <1>3, <1>4, <1>5

\* The next step, for any of the plain kinds.
LEMMA ToNext ==
  ASSUME ParserInv, NEW do, Doing(do), do \in Plain \ {"expect"}, GoOn(After(Top))
  PROVE  Linked(nodes', calls') /\ calls' # <<>> /\ UNCHANGED <<nodes, parens>>
<1>1. IsFrame(Top)
  BY DoingFacts, TopFacts
<1>2. Alike(After(Top), Top) /\ Kids(After(Top)) = Kids(Top) /\ After(Top).pc = Top.pc + 1
  BY <1>1, AfterFields
<1> QED
  BY <1>2, PlainStep

\* The step a jump leads to.
LEMMA ToTarget ==
  ASSUME ParserInv, NEW do, Doing(do), do \in {"jump", "loop", "param"}, GoOn([Top EXCEPT !.pc = This.to])
  PROVE  Linked(nodes', calls') /\ calls' # <<>> /\ UNCHANGED <<nodes, parens>>
<1> DEFINE f == [Top EXCEPT !.pc = This.to]
<1>1. /\ calls # <<>> /\ StepOf(Top.fn, Top.pc).do = do /\ TableOK(Top.fn, Top.pc) /\ This = StepOf(Top.fn, Top.pc)
  BY DoingFacts
<1>2. IsFrame(Top)
  BY <1>1, TopFacts
<1>3. Alike(f, Top) /\ Kids(f) = Kids(Top) /\ f.pc = This.to
  BY <1>2, OtherFields
<1>4. Goes(Top.fn, Top.pc, This.to, 0) /\ (Top.fn = "function" => This.to # 8)
  BY <1>1, Zenon DEF TableOK
<1>5. Goes(Top.fn, Top.pc, f.pc, 0) /\ (Top.fn = "function" => f.pc # 8)
  BY <1>3, <1>4
<1>6. GoOn(f)
  OBVIOUS
<1> HIDE DEF f
<1> QED
  BY <1>3, <1>5, <1>6, GoesTo

LEMMA OptionalPartLinks ==
  ASSUME ParserInv, OptionalPart
  PROVE  Linked(nodes', calls') /\ calls' # <<>> /\ UNCHANGED <<nodes, parens>>
<1>1. \E do \in {"if", "unless", "take"} : Doing(do) /\ (GoOn(After(Top)) \/ GoOn(NextWith(0)))
  BY Zenon DEF OptionalPart
<1>2. PICK do \in {"if", "unless", "take"} : Doing(do) /\ (GoOn(After(Top)) \/ GoOn(NextWith(0)))
  BY <1>1
<1>3. do \in Plain \ {"expect"}
  BY DEF Plain
<1> QED
  BY <1>2, <1>3, ToNext, GoesWithNull

LEMMA BranchLinks ==
  ASSUME ParserInv, Branch
  PROVE  Linked(nodes', calls') /\ calls' # <<>> /\ UNCHANGED <<nodes, parens>>
<1>1. \E do \in {"jump", "loop"} : Doing(do) /\ (GoOn(After(Top)) \/ GoOn([Top EXCEPT !.pc = This.to]))
  BY DEF Branch, After
<1>2. PICK do \in {"jump", "loop"} : Doing(do) /\ (GoOn(After(Top)) \/ GoOn([Top EXCEPT !.pc = This.to]))
  BY <1>1
<1>3. do \in Plain \ {"expect"} /\ do \in {"jump", "loop", "param"}
  BY DEF Plain
<1> QED
  BY <1>2, <1>3, ToNext, ToTarget

LEMMA ParseParamTypeLinks ==
  ASSUME ParserInv, ParseParamType PROVE Linked(nodes', calls') /\ calls' # <<>> /\ UNCHANGED <<nodes, parens>>
<1> DEFINE f == [After(Top) EXCEPT !.node.params = Append(@, [name |-> NoName, type |-> TypeInfo(current.type, 0)])]
<1>1. Doing("param") /\ (GoOn(f) \/ GoOn([Top EXCEPT !.pc = This.to]))
  BY DEF ParseParamType
<1>2. IsFrame(Top)
  BY <1>1, DoingFacts, TopFacts
<1>3. CASE GoOn(f)
  <2>1. Alike(After(Top), Top) /\ Kids(After(Top)) = Kids(Top) /\ After(Top).pc = Top.pc + 1
    BY <1>2, AfterFields
  <2>2. IsFrame(After(Top))
    BY <2>1 DEF Alike
  <2>3. Alike(f, After(Top)) /\ Kids(f) = Kids(After(Top)) /\ f.pc = After(Top).pc
    BY <2>2 DEF Alike, IsFrame, Kids
  <2>4. Alike(f, Top)
    BY <2>1, <2>3, AlikeTwice
  <2>5. Kids(f) = Kids(Top) /\ f.pc = Top.pc + 1 /\ "param" \in Plain \ {"expect"}
    BY <2>1, <2>3 DEF Plain
  <2> HIDE DEF f
  <2> QED
    BY <1>1, <1>3, <2>4, <2>5, PlainStep
<1>4. CASE GoOn([Top EXCEPT !.pc = This.to])
  BY <1>1, <1>4, ToTarget
<1> QED
  BY <1>1, <1>3, <1>4

LEMMA ParseParamNameLinks ==
  ASSUME ParserInv, ParseParamName PROVE Linked(nodes', calls') /\ calls' # <<>> /\ UNCHANGED <<nodes, parens>>
<1> DEFINE last == Len(Top.node.params)
           f == [Top EXCEPT !.node.params[last].type.ptr_depth = @ + 1]
           g == [After(Top) EXCEPT !.node.params[last].name = current.lexeme]
<1>1. Doing("pname") /\ (GoOn(f) \/ GoOn(g))
  BY DEF ParseParamName
<1>2. IsFrame(Top)
  BY <1>1, DoingFacts, TopFacts
<1>3. CASE GoOn(f)
  <2>1. Alike(f, Top) /\ Kids(f) = Kids(Top) /\ f.pc = Top.pc
    BY <1>2 DEF Alike, IsFrame, Kids
  <2> HIDE DEF f
  <2> QED
    BY <1>1, <1>3, <2>1, Stays
<1>4. CASE GoOn(g)
  <2>1. Alike(After(Top), Top) /\ Kids(After(Top)) = Kids(Top) /\ After(Top).pc = Top.pc + 1
    BY <1>2, AfterFields
  <2>2. IsFrame(After(Top))
    BY <2>1 DEF Alike
  <2>3. Alike(g, After(Top)) /\ Kids(g) = Kids(After(Top)) /\ g.pc = After(Top).pc
    BY <2>2 DEF Alike, IsFrame, Kids
  <2>4. Alike(g, Top)
    BY <2>1, <2>3, AlikeTwice
  <2>5. Kids(g) = Kids(Top) /\ g.pc = Top.pc + 1 /\ "pname" \in Plain \ {"expect"}
    BY <2>1, <2>3 DEF Plain
  <2> HIDE DEF g
  <2> QED
    BY <1>1, <1>4, <2>4, <2>5, PlainStep
<1> QED
  BY <1>1, <1>3, <1>4

-----------------------------------------------------------------------------
(* The calls a script makes. *)

LEMMA Fewer == \A f, kinds, less : WaitsFor(f, kinds) /\ less \subseteq kinds => WaitsFor(f, less)
  BY DEF WaitsFor

\* The function that runs calls others, which have no children yet.
LEMMA Pushes ==
  ASSUME ParserInv, calls # <<>>, NEW a, FrameOK(nodes, a), Kids(a) = Kids(Top), a.fn = Top.fn, NEW fs, Row(nodes, fs),
         Empty(fs), WaitsFor(a, Results(fs[1].fn)), calls' = (Front(calls) \o <<a>>) \o fs, NoNode
  PROVE  Linked(nodes', calls') /\ calls' # <<>> /\ UNCHANGED <<nodes, parens>>
<1> DEFINE s == Front(calls)
           t == Top
           gs == <<a>> \o fs
<1>1. /\ IsSeq(s) /\ IsSeq(nodes) /\ StackOK(nodes, s \o <<t>>) /\ OneOwner(nodes, s \o <<t>>)
  BY TopFacts DEF Linked
<1>2. IsSeq(fs) /\ IsSeq(<<a>>)
  BY SeqOne DEF Row
<1>3. calls' = s \o gs
  BY <1>1, <1>2, ConcatAssoc
<1>4. Row(nodes, gs) /\ gs[1] = a
  BY RowCons
<1>5. SameKids(Kids(a), Kids(t))
  BY SameKidsSelf
<1>6. Carry(gs, Kids(t))
  BY <1>2, <1>5, CarryFirst
<1>7. Results(gs[1].fn) \subseteq Results(t.fn)
  BY <1>4
<1> HIDE DEF s, t, gs
<1>8. StackOK(nodes, s \o gs) /\ OneOwner(nodes, s \o gs) /\ s \o gs # <<>>
  BY <1>1, <1>4, <1>6, <1>7, Replaced, RowStays
<1> QED
  BY <1>3, <1>8 DEF Linked, NoNode

\* It calls one of these and waits for what it returns.
LEMMA CallsWith ==
  ASSUME ParserInv, calls # <<>>, NEW fn \in {"parse_expr", "parse_stmt", "for_init", "parse_block", "declaration"},
         NEW a, FrameOK(nodes, a), Kids(a) = Kids(Top), a.fn = Top.fn, WaitsFor(a, Called(fn)),
         calls' = (Front(calls) \o <<a>>) \o Frames(fn), NoNode
  PROVE  Linked(nodes', calls') /\ calls' # <<>> /\ UNCHANGED <<nodes, parens>>
<1> DEFINE fs == Frames(fn)
<1>1. Row(nodes, fs) /\ Results(fs[1].fn) \subseteq Called(fn) /\ Empty(fs)
  BY FramesRow
<1> HIDE DEF fs
<1>2. WaitsFor(a, Results(fs[1].fn))
  BY <1>1, Fewer
<1>3. calls' = (Front(calls) \o <<a>>) \o fs
  BY DEF fs
<1> QED
  BY <1>1, <1>2, <1>3, Pushes

LEMMA ScriptCalls ==
  ASSUME ParserInv, NEW do, Doing(do), NEW fn,
         \/ do \in {"call", "many"} /\ fn = This.fn
         \/ do = "declarations" /\ fn = "declaration",
         calls' = calls \o Frames(fn), NoNode
  PROVE  Linked(nodes', calls') /\ calls' # <<>> /\ UNCHANGED <<nodes, parens>>
<1> DEFINE me == Top.fn
           pc == Top.pc
           n == Len(Kids(Top))
<1>1. /\ calls # <<>> /\ me \in ScriptNames /\ n \in Counts[me][pc] /\ n \in Nat /\ pc \in 1..(End(me) - 1)
      /\ This = StepOf(me, pc) /\ This.do = do /\ TableOK(me, pc) /\ End(me) \in Nat
  BY DoingFacts
<1>2. FrameOK(nodes, Top) /\ calls = Front(calls) \o <<Top>>
  BY <1>1, TopFacts
<1>3. /\ fn \in {"parse_expr", "parse_stmt", "for_init", "parse_block", "declaration"}
      /\ Goes(me, pc, NextPc(me, pc), 1) /\ \A c \in Counts[me][pc] : Called(fn) \subseteq Accepts(me, c + 1)
  <2>1. CASE do \in {"call", "many"} /\ fn = This.fn
    <3>1. StepOf(me, pc).do \in {"call", "many"} /\ StepOf(me, pc).do \in {"call", "many", "declarations", "wait"}
      BY <1>1, <2>1
    <3>2. TableOK(me, pc)
      BY <1>1
    <3> HIDE DEF me, pc
    <3>3. Goes(me, pc, NextPc(me, pc), 1)
      BY <3>1, <3>2, Zenon DEF TableOK
    <3>4. /\ StepOf(me, pc).fn \in {"parse_expr", "parse_stmt", "for_init"}
          /\ \A c \in Counts[me][pc] : Called(StepOf(me, pc).fn) \subseteq Accepts(me, c + 1)
      BY <3>1, <3>2, Zenon DEF TableOK
    <3> QED
      BY <1>1, <2>1, <3>3, <3>4
  <2>2. CASE do = "declarations" /\ fn = "declaration"
    <3>1. Called("declaration") = Results("declaration")
      BY DEF Called
    <3> QED
      BY <1>1, <2>2, <3>1 DEF TableOK
  <2> QED
    BY <2>1, <2>2
<1>4. NextPc(me, pc) \in 1..End(me) /\ n + 1 \in Counts[me][NextPc(me, pc)] /\ Called(fn) \subseteq Accepts(me, n + 1)
  BY <1>1, <1>3 DEF Goes
<1>5. pc < End(me)
  BY <1>1
<1>6. WaitsFor(Top, Called(fn))
  BY <1>1, <1>4, <1>5, Apart DEF WaitsFor
<1>7. calls' = (Front(calls) \o <<Top>>) \o Frames(fn)
  BY <1>2
<1> QED
  BY <1>1, <1>2, <1>3, <1>6, <1>7, CallsWith

LEMMA CallFunctionLinks ==
  ASSUME ParserInv, CallFunction
  PROVE  Linked(nodes', calls') /\ calls' # <<>> /\ UNCHANGED <<nodes, parens>>
<1>1. Doing("call") /\ NoNode /\ calls' = calls \o Frames(This.fn)
  BY DEF CallFunction
<1> QED
  BY <1>1, ScriptCalls

LEMMA StatementsLinks ==
  ASSUME ParserInv, Statements
  PROVE  Linked(nodes', calls') /\ calls' # <<>> /\ UNCHANGED <<nodes, parens>>
<1>1. Doing("many") /\ (GoOn(After(Top)) \/ (NoNode /\ calls' = calls \o Frames(This.fn)))
  BY DEF Statements
<1>2. "many" \in Plain \ {"expect"}
  BY DEF Plain
<1> QED
  BY <1>1, <1>2, ScriptCalls, ToNext

LEMMA DeclarationsLinks ==
  ASSUME ParserInv, Declarations PROVE Linked(nodes', calls') /\ calls' # <<>> /\ UNCHANGED <<nodes, parens>>
<1>1. /\ Doing("declarations")
      /\ \/ GoOn(After(Top))
         \/ NoNode /\ calls' = calls \o Frames("declaration")
         \/ UNCHANGED calls /\ NoNode
  BY DEF Declarations
<1>2. "declarations" \in Plain \ {"expect"}
  BY DEF Plain
<1>3. CASE UNCHANGED calls /\ NoNode
  <2>1. calls # <<>>
    BY <1>1, DoingFacts
  <2> QED
    BY <1>3, <2>1 DEF NoNode, ParserInv
<1>4. CASE NoNode /\ calls' = calls \o Frames("declaration")
  BY <1>1, <1>4, ScriptCalls
<1>5. CASE GoOn(After(Top))
  BY <1>1, <1>2, <1>5, ToNext
<1> QED
  BY <1>1, <1>3, <1>4, <1>5

LEMMA FunctionBodyLinks ==
  ASSUME ParserInv, FunctionBody PROVE Linked(nodes', calls') /\ calls' # <<>> /\ UNCHANGED <<nodes, parens>>
<1> DEFINE a == After(Top)
           b == [a EXCEPT !.node.kids = <<0>>]
<1>1. Doing("body") /\ NoNode /\ (calls' = Append(Front(calls), a) \o Frames("parse_block") \/ calls' = Append(Front(calls), b))
  BY DEF FunctionBody
<1>2. /\ calls # <<>> /\ TableOK(Top.fn, Top.pc) /\ StepOf(Top.fn, Top.pc).do = "body"
      /\ Len(Kids(Top)) \in Counts[Top.fn][Top.pc] /\ Len(Kids(Top)) \in Nat
  BY <1>1, DoingFacts
<1>3. Top.fn = "function" /\ Top.pc = 7
  BY <1>2 DEF TableOK
<1>4. FrameOK(nodes, Top) /\ IsFrame(Top) /\ IsSeq(Front(calls)) /\ IsSeq(Kids(Top)) /\ IsSeq(nodes)
  BY <1>2, TopFacts
<1>5. /\ End("function") = 9 /\ Counts["function"][7] = {0} /\ Counts["function"][8] = {0, 1} /\ Counts["function"][9] = {1}
      /\ StepOf("function", 8).do = "expect"
  BY ScriptDefs DEF End, function, Counts, StepOf, Expect, Step
<1>6. Len(Kids(Top)) = 0 /\ Kids(Top) = <<>>
  BY <1>2, <1>3, <1>4, <1>5, SeqLen
<1>7. Alike(a, Top) /\ Kids(a) = Kids(Top) /\ a.pc = 8 /\ a.fn = "function"
  BY <1>3, <1>4, AfterFields DEF Alike
<1>8. FrameOK(nodes, a)
  <2>1. a.pc \in 1..End(Top.fn) /\ Len(Kids(Top)) \in Counts[Top.fn][a.pc]
    BY <1>3, <1>5, <1>6, <1>7
  <2> QED
    BY <1>4, <1>7, <2>1, SameChildren
<1>9. Accepts("function", 1) = {"?block", "BLOCK", "NULL"}
  BY ScriptDefs, Domains DEF Accepts, ScriptNames, function, Slot, MayBeNull, Null
<1>10. "function" \in ScriptNames
  BY DEF ScriptNames
<1>11. CASE calls' = Append(Front(calls), a) \o Frames("parse_block")
  <2>1. Called("parse_block") = {"BLOCK"}
    BY Domains, ScriptDefs DEF Called, Results, ScriptNames, parse_block
  <2>2. NextPc("function", 8) = 9
    BY <1>5 DEF NextPc, Iterations
  <2>3. Len(Kids(a)) = 0
    BY <1>6, <1>7
  <2>4. WaitsFor(a, Called("parse_block"))
    BY <1>5, <1>7, <1>9, <1>10, <2>1, <2>2, <2>3, Apart DEF WaitsFor
  <2>5. calls' = (Front(calls) \o <<a>>) \o Frames("parse_block")
    BY <1>4, <1>11, AppendIs
  <2>6. a.fn = Top.fn /\ Kids(a) = Kids(Top)
    BY <1>3, <1>7
  <2> HIDE DEF a
  <2> QED
    BY <1>1, <1>2, <1>8, <2>4, <2>5, <2>6, CallsWith
<1>12. CASE calls' = Append(Front(calls), b)
  <2>1. IsFrame(a)
    BY <1>7 DEF Alike
  <2>2. Alike(b, a) /\ Kids(b) = <<0>> /\ b.pc = 8
    BY <1>7, <2>1, OtherFields
  <2>3. Alike(b, Top)
    BY <1>7, <2>2, AlikeTwice
  <2>4. Kids(b) = Append(Kids(Top), 0)
    BY <1>6, <2>2
  <2>5. "NULL" \in Accepts(Top.fn, Len(Kids(Top)) + 1)
    BY <1>3, <1>6, <1>9
  <2>6. b.pc \in 1..End(Top.fn) /\ Len(Kids(Top)) + 1 \in Counts[Top.fn][b.pc]
    BY <1>3, <1>5, <1>6, <2>2
  <2>7. Top.fn \in ScriptNames
    BY <1>3, <1>10
  <2>8. b.fn = Top.fn
    BY <2>3 DEF Alike
  <2>9. GoOn(b)
    BY <1>1, <1>12 DEF GoOn
  <2>10. Len(Kids(b)) = 1
    BY <2>2
  <2> HIDE DEF b
  <2>11. FrameOK(nodes, b)
    BY <1>4, <2>3, <2>4, <2>5, <2>6, <2>7, NullChild
  <2>12. TopOK(b) /\ Results(b.fn) \subseteq Results(Top.fn)
    BY <2>8, <2>10 DEF TopOK
  <2>13. SameKids(Kids(b), Kids(Top))
    BY <1>4, <2>4, SameKidsSelf
  <2>14. Linked(nodes, calls') /\ calls' # <<>> /\ UNCHANGED <<nodes, parens>>
    BY <1>2, <2>9, <2>11, <2>12, <2>13, GoesOn
  <2> QED
    BY <2>14
<1> QED
  BY <1>1, <1>11, <1>12

LEMMA DeclaratorLinks ==
  ASSUME ParserInv, Declarator
  PROVE  Linked(nodes', calls') /\ calls' # <<>> /\ UNCHANGED <<nodes, parens>>
<1> DEFINE g == IF check("LPAREN") THEN "function" ELSE "global_var"
           f == [fn |-> g, pc |-> 1, node |-> [Top.node EXCEPT !.kind = Scripts[g].kind]]
<1>1. Doing("declarator") /\ GoOn(f)
  BY DEF Declarator
<1>2. /\ calls # <<>> /\ TableOK(Top.fn, Top.pc) /\ StepOf(Top.fn, Top.pc).do = "declarator"
      /\ Len(Kids(Top)) \in Counts[Top.fn][Top.pc] /\ Len(Kids(Top)) \in Nat
  BY <1>1, DoingFacts
<1>3. Top.fn = "declaration" /\ Top.pc = 3
  BY <1>2 DEF TableOK
<1>4. IsFrame(Top) /\ IsSeq(Kids(Top))
  BY <1>2, TopFacts
<1>5. Counts["declaration"][3] = {0}
  BY DEF Counts
<1>6. Len(Kids(Top)) = 0 /\ Kids(Top) = <<>>
  BY <1>2, <1>3, <1>4, <1>5, SeqLen
<1>7. g \in {"function", "global_var"}
  OBVIOUS
<1>8. \A h \in {"function", "global_var"} :
        /\ h \in ScriptNames /\ 1 \in 1..End(h) /\ 0 \in Counts[h][1] /\ Results(h) \subseteq Results("declaration")
  <2>1. \A h \in {"function", "global_var"} : h \in ScriptNames \ {"call", "index", "member", "binary", "assign"}
    BY DEF ScriptNames
  <2>2. \A h \in {"function", "global_var"} : Results(h) \subseteq Results("declaration")
    BY ScriptDefs, Domains DEF Results, ScriptNames, function, global_var
  <2> QED
    BY <2>1, <2>2, CountsAtFirst
<1>9. IsFrame(f) /\ f.fn = g /\ f.pc = 1 /\ Kids(f) = Kids(Top) /\ f.node.kind = Scripts[g].kind
  BY <1>4 DEF IsFrame, Kids
<1> HIDE DEF f, g
<1>10. Kids(f) = <<>> /\ Len(Kids(f)) = 0 /\ DOMAIN Kids(f) = {} /\ Kids(f) \in Seq(Nat)
  BY <1>6, <1>9, SeqNone
<1>11. FrameOK(nodes, f)
  BY <1>7, <1>8, <1>9, <1>10, Apart DEF FrameOK
<1>12. TopOK(f) /\ Results(f.fn) \subseteq Results(Top.fn)
  BY <1>3, <1>7, <1>8, <1>9 DEF TopOK
<1>13. SameKids(Kids(f), Kids(Top))
  BY <1>9, SameKidsSelf
<1>14. Linked(nodes, calls') /\ calls' # <<>> /\ UNCHANGED <<nodes, parens>>
  BY <1>1, <1>2, <1>11, <1>12, <1>13, GoesOn
<1> QED
  BY <1>14

-----------------------------------------------------------------------------
(* The steps of expressions. *)

LEMMA StepReplaces ==
  ASSUME ParserInv, calls # <<>>, NEW fs, Row(nodes, fs), Results(fs[1].fn) \subseteq Results(Top.fn),
         Carry(fs, Kids(Top)), calls' = Front(calls) \o fs, NoNode
  PROVE  Linked(nodes', calls') /\ calls' # <<>> /\ UNCHANGED <<nodes, parens>>
<1> DEFINE s == Front(calls)
           t == Top
<1>1. /\ IsSeq(s) /\ IsSeq(nodes) /\ StackOK(nodes, s \o <<t>>) /\ OneOwner(nodes, s \o <<t>>)
  BY TopFacts DEF Linked
<1>2. Results(fs[1].fn) \subseteq Results(t.fn) /\ Carry(fs, Kids(t)) /\ calls' = s \o fs
  OBVIOUS
<1> HIDE DEF s, t
<1>3. StackOK(nodes, s \o fs) /\ OneOwner(nodes, s \o fs) /\ s \o fs # <<>>
  BY <1>1, <1>2, Replaced, RowStays
<1> QED
  BY <1>2, <1>3 DEF Linked, NoNode

LEMMA TwoRow ==
  ASSUME NEW nds, NEW a, FrameOK(nds, a), NEW b, FrameOK(nds, b), TopOK(b), WaitsFor(a, Results(b.fn))
  PROVE  <<a, b>> = <<a>> \o <<b>> /\ Row(nds, <<a, b>>) /\ <<a, b>>[1] = a
<1>1. <<a, b>> = <<a>> \o <<b>>
  <2>1. Append(<<a>>, b) = <<a>> \o <<b>>
    BY SeqOne, AppendIs
  <2>2. Append(<<a>>, b) = <<a, b>>
    <3> DEFINE s == <<a>>
               v == Append(s, b)
               w == <<a, b>>
    <3>1. IsSeq(s) /\ Len(s) = 1 /\ s[1] = a
      BY SeqOne
    <3>2. IsSeq(w) /\ Len(w) = 2 /\ w[1] = a /\ w[2] = b
      BY SeqTwo
    <3> HIDE DEF s, w
    <3>3. IsSeq(v) /\ Len(v) = Len(s) + 1 /\ \A i \in 1..(Len(s) + 1) : v[i] = IF i <= Len(s) THEN s[i] ELSE b
      BY <3>1, SeqAppend
    <3> HIDE DEF v
    <3>4. Len(v) = 2 /\ v[1] = a /\ v[2] = b
      BY <3>1, <3>3
    <3>5. \A i \in 1..Len(v) : v[i] = w[i]
      BY <3>2, <3>4
    <3>6. v = w
      BY <3>2, <3>3, <3>4, <3>5, SeqEqual2
    <3> QED
      BY <3>6 DEF s, v, w
  <2> QED
    BY <2>1, <2>2
<1> DEFINE fs == <<b>>
<1>2. Row(nds, fs) /\ fs[1] = b
  BY RowOne
<1>3. WaitsFor(a, Results(fs[1].fn))
  BY <1>2
<1> HIDE DEF fs
<1>4. Row(nds, <<a>> \o fs) /\ (<<a>> \o fs)[1] = a
  BY <1>2, <1>3, RowCons
<1> QED
  BY <1>1, <1>4 DEF fs

LEMMA HoldingFields ==
  ASSUME NEW fn, NEW kids
  PROVE  /\ IsFrame(Holding(fn, kids)) /\ Holding(fn, kids).fn = fn /\ Holding(fn, kids).pc = 1
         /\ Kids(Holding(fn, kids)) = kids
         /\ fn \in ScriptNames => Holding(fn, kids).node.kind = Scripts[fn].kind
  BY Domains DEF Holding, Frame, IsFrame, Kids, Node

\* What a function of the expression grammar holds is an expression.
LEMMA HoldsExpr ==
  ASSUME NEW nds, IsSeq(nds), NEW t, FrameOK(nds, t), Len(Kids(t)) = 1, Accepts(t.fn, 1) = ExprKinds
  PROVE  /\ Kids(t) = <<Kids(t)[1]>> /\ DOMAIN Kids(t) = 1..1
         /\ Kids(t)[1] \in 1..Len(nds) /\ nds[Kids(t)[1]].kind \in ExprKinds
<1> DEFINE kids == Kids(t)
<1>1. kids \in Seq(Nat) /\ Len(kids) = 1
  BY DEF FrameOK
<1>2. IsSeq(kids)
  BY <1>1, Zenon DEF IsSeq
<1> HIDE DEF kids
<1>3. DOMAIN kids = 1..1
  BY <1>1, <1>2, SeqLen
<1>4. kids[1] \in Nat
  BY <1>1, <1>3
<1>5. kids[1] <= Len(nds) /\ KindIn(nds, kids[1]) \in Accepts(t.fn, 1)
  <2>1. 1 \in DOMAIN Kids(t)
    BY <1>3 DEF kids
  <2> QED
    BY <2>1 DEF FrameOK, kids
<1>6. "NULL" \notin ExprKinds
  BY DEF ExprKinds, Literals
<1>7. Len(nds) \in Nat
  BY SeqLen
<1>8. kids[1] # 0
  BY <1>5, <1>6 DEF KindIn
<1>9. kids[1] \in 1..Len(nds)
  BY <1>4, <1>5, <1>7, <1>8
<1>10. nds[kids[1]].kind \in ExprKinds
  BY <1>5, <1>8 DEF KindIn
<1>11. kids = <<kids[1]>>
  <2> DEFINE w == <<kids[1]>>
  <2>1. IsSeq(w) /\ Len(w) = 1 /\ w[1] = kids[1]
    BY SeqOne
  <2> HIDE DEF w
  <2>2. \A i \in 1..Len(kids) : kids[i] = w[i]
    BY <1>1, <2>1
  <2>3. kids = w
    BY <1>1, <1>2, <2>1, <2>2, SeqEqual2
  <2> QED
    BY <2>3 DEF w
<1> QED
  BY <1>3, <1>9, <1>10, <1>11 DEF kids

LEMMA Operand ==
  ASSUME NEW nds, IsSeq(nds), NEW t, FrameOK(nds, t), t.fn \in OperatorNames, Kids(t) # <<>>
  PROVE  /\ Len(Kids(t)) = 1 /\ Kids(t) = <<Kids(t)[1]>> /\ DOMAIN Kids(t) = 1..1
         /\ Kids(t)[1] \in 1..Len(nds) /\ nds[Kids(t)[1]].kind \in ExprKinds
<1> DEFINE kids == Kids(t)
<1>1. kids \in Seq(Nat) /\ Len(kids) <= 1 /\ kids # <<>>
  BY DEF FrameOK
<1>2. IsSeq(kids)
  BY <1>1, Zenon DEF IsSeq
<1> HIDE DEF kids
<1>3. Len(kids) = 1
  <2>1. Len(kids) \in Nat /\ (kids = <<>> <=> Len(kids) = 0)
    BY <1>2, SeqLen
  <2>2. Len(kids) # 0
    BY <1>1, <2>1, Zenon
  <2>3. Len(kids) <= 1 /\ Len(kids) \in Nat
    BY <1>1, <2>1, Zenon
  <2>4. \A n \in Nat : n # 0 /\ n <= 1 => n = 1
    OBVIOUS
  <2> QED
    BY <2>2, <2>3, <2>4, Zenon
<1>4. Accepts(t.fn, 1) = ExprKinds
  BY OperatorKinds
<1>5. Len(Kids(t)) = 1
  BY <1>3 DEF kids
<1> QED
  BY <1>4, <1>5, HoldsExpr

\* A suffix or a binary operator that has the operand.
LEMMA HasFirst ==
  ASSUME NEW nds, IsSeq(nds), NEW t, FrameOK(nds, t), t.fn \in OperatorNames, Kids(t) # <<>>,
         NEW f, IsFrame(f), f.fn \in {"call", "index", "member", "binary", "assign"}, f.pc = 1,
         f.node.kind = Scripts[f.fn].kind, Kids(f) = Kids(t)
  PROVE  FrameOK(nds, f) /\ TopOK(f)
<1>1. /\ Len(Kids(t)) = 1 /\ DOMAIN Kids(t) = 1..1 /\ Kids(t)[1] \in 1..Len(nds)
      /\ nds[Kids(t)[1]].kind \in ExprKinds
  BY Operand
<1>2. f.fn \in ScriptNames
  BY DEF ScriptNames
<1>3. 1 \in 1..End(f.fn) /\ 1 \in Counts[f.fn][1]
  BY <1>2, CountsAtFirst
<1>4. ExprKinds \subseteq Accepts(f.fn, 1)
  BY <1>2, Domains, ScriptDefs
     DEF Accepts, call, index, member, Waiting, Slot, IsStmtSlot, MayBeNull, ExprSlot, Null
<1>5. Kids(f) \in Seq(Nat)
  BY DEF FrameOK
<1>6. Len(nds) \in Nat
  BY SeqLen
<1>7. \A i \in DOMAIN Kids(f) : Kids(f)[i] <= Len(nds) /\ KindIn(nds, Kids(f)[i]) \in Accepts(f.fn, i)
  <2> SUFFICES ASSUME NEW i \in DOMAIN Kids(f)
               PROVE  Kids(f)[i] <= Len(nds) /\ KindIn(nds, Kids(f)[i]) \in Accepts(f.fn, i)
    OBVIOUS
  <2>1. i = 1
    BY <1>1
  <2>2. Kids(f)[1] \in Nat /\ Kids(f)[1] <= Len(nds) /\ Kids(f)[1] # 0
    BY <1>1, <1>6
  <2>3. KindIn(nds, Kids(f)[1]) \in ExprKinds
    BY <1>1, <2>2 DEF KindIn
  <2> QED
    BY <1>4, <2>1, <2>2, <2>3
<1>8. FrameOK(nds, f)
  BY <1>1, <1>2, <1>3, <1>5, <1>7, Apart DEF FrameOK
<1>9. TopOK(f)
  BY DEF TopOK
<1> QED
  BY <1>8, <1>9

\* Which results each function on the stack of an expression waits for.
LEMMA ExprResults ==
  /\ \A fn \in {"call", "index", "member", "paren", "unary", "binary", "assign", "parse_unary"} \cup OperatorNames :
       Results(fn) \subseteq ExprKinds
  /\ Results("parse_unary") = ExprKinds /\ \A fn \in OperatorNames : Results(fn) = ExprKinds
<1>1. \A fn \in {"call", "index", "member", "paren", "unary", "binary", "assign"} : Results(fn) \subseteq ExprKinds
  BY ScriptDefs, Domains DEF Results, ScriptNames, call, index, member, paren, Waiting, ExprKinds, Literals
<1>2. Results("parse_unary") = ExprKinds
  BY Domains DEF Results, ScriptNames
<1> QED
  BY <1>1, <1>2, OperatorKinds

LEMMA OperatorWaits ==
  ASSUME NEW nds, NEW fn \in OperatorNames, NEW kinds, kinds \subseteq ExprKinds
  PROVE  FrameOK(nds, Frame(fn)) /\ TopOK(Frame(fn)) /\ WaitsFor(Frame(fn), kinds) /\ Kids(Frame(fn)) = <<>>
<1>1. FrameOK(nds, Frame(fn)) /\ TopOK(Frame(fn))
  BY NewFrame
<1>2. Frame(fn).fn = fn /\ Kids(Frame(fn)) = <<>>
  BY FrameFields
<1>3. Accepts(fn, Len(Kids(Frame(fn))) + 1) = ExprKinds
  BY OperatorKinds
<1>4. fn \notin ScriptNames /\ fn # "parse_unary"
  BY Apart DEF OperatorNames
<1>5. WaitsFor(Frame(fn), kinds)
  BY <1>2, <1>3, <1>4 DEF WaitsFor
<1> QED
  BY <1>1, <1>2, <1>5

LEMMA UnaryLinks ==
  ASSUME ParserInv, Unary
  PROVE  Linked(nodes', calls') /\ calls' # <<>> /\ UNCHANGED <<nodes, parens>>
<1> DEFINE u == [Frame("unary") EXCEPT !.node.op = current.type]
           w == Frame("parse_unary")
           fs == <<u, w>>
<1>1. calls # <<>> /\ Top.fn = "parse_unary" /\ NoNode /\ calls' = Front(calls) \o fs
  BY DEF Unary
<1>2. FrameOK(nodes, Top)
  BY <1>1, TopFacts
<1>3. Kids(Top) = <<>>
  BY <1>1, <1>2 DEF FrameOK
<1>4. FrameOK(nodes, Frame("unary"))
  BY NewFrame DEF ScriptNames
<1>5. /\ IsFrame(Frame("unary")) /\ Frame("unary").fn = "unary" /\ Frame("unary").pc = 1 /\ Kids(Frame("unary")) = <<>>
  BY FrameFields
<1>6. Alike(u, Frame("unary")) /\ Kids(u) = Kids(Frame("unary")) /\ u.pc = Frame("unary").pc
  BY <1>5 DEF Alike, IsFrame, Kids
<1>7. FrameOK(nodes, u)
  BY <1>4, <1>6, SameChildren DEF FrameOK
<1>8. u.fn = "unary" /\ u.pc = 1 /\ Kids(u) = <<>>
  BY <1>5, <1>6 DEF Alike
<1>9. FrameOK(nodes, w) /\ TopOK(w) /\ w.fn = "parse_unary" /\ Kids(w) = <<>>
  BY NewFrame, FrameFields
<1> HIDE DEF u, w
<1>10. WaitsFor(u, Results(w.fn))
  <2>1. /\ End("unary") = 2 /\ StepOf("unary", 1).do = "wait" /\ Counts["unary"][2] = {1}
        /\ Accepts("unary", 1) = ExprSlot /\ "unary" \in ScriptNames
    BY ScriptDefs, Domains DEF End, StepOf, Waiting, Step, Counts, Accepts, ScriptNames, Slot, IsStmtSlot, MayBeNull
  <2>2. NextPc("unary", 1) = 2
    BY <2>1 DEF NextPc, Iterations
  <2>3. Results(w.fn) \subseteq ExprSlot
    BY <1>9, ExprResults DEF ExprSlot
  <2>4. Len(Kids(u)) = 0
    BY <1>8
  <2> QED
    BY <1>8, <2>1, <2>2, <2>3, <2>4, Apart DEF WaitsFor
<1>11. fs = <<u>> \o <<w>> /\ Row(nodes, fs) /\ fs[1] = u
  BY <1>7, <1>9, <1>10, TwoRow
<1>12. Results(fs[1].fn) \subseteq Results(Top.fn)
  BY <1>1, <1>8, <1>11, ExprResults
<1>13. Carry(fs, Kids(Top))
  <2>1. SameKids(Kids(u), Kids(Top))
    BY <1>3, <1>8, SameKidsSelf
  <2>2. Empty(<<w>>) /\ IsSeq(<<w>>)
    BY <1>9, SeqOne, SeqNone DEF Empty
  <2>3. Carry(<<u>> \o <<w>>, Kids(Top))
    BY <2>1, <2>2, CarryFirst
  <2> QED
    BY <1>11, <2>3
<1> HIDE DEF fs
<1> QED
  BY <1>1, <1>11, <1>12, <1>13, StepReplaces

\* Two functions in the place of the top, the second with what it held.
LEMMA OperatorOver ==
  ASSUME ParserInv, calls # <<>>, Top.fn \in OperatorNames \cup {"parse_unary"}, NEW fn \in OperatorNames,
         NEW b, FrameOK(nodes, b), TopOK(b), Results(b.fn) \subseteq ExprKinds, Kids(b) = Kids(Top),
         calls' = Front(calls) \o <<Frame(fn), b>>, NoNode
  PROVE  Linked(nodes', calls') /\ calls' # <<>> /\ UNCHANGED <<nodes, parens>>
<1> DEFINE a == Frame(fn)
           fs == <<a, b>>
<1>1. FrameOK(nodes, a) /\ WaitsFor(a, Results(b.fn)) /\ Kids(a) = <<>> /\ a.fn = fn
  BY OperatorWaits, FrameFields
<1>2. calls' = Front(calls) \o fs
  OBVIOUS
<1> HIDE DEF a
<1>3. fs = <<a>> \o <<b>> /\ Row(nodes, fs) /\ fs[1] = a
  BY <1>1, TwoRow
<1>4. Results(fs[1].fn) \subseteq Results(Top.fn)
  BY <1>1, <1>3, ExprResults
<1>5. Carry(fs, Kids(Top))
  <2>1. SameKids(Kids(b), Kids(Top))
    BY SameKidsSelf
  <2>2. Carry(<<b>>, Kids(Top))
    BY <2>1, CarryOne
  <2>3. IsSeq(<<b>>)
    BY SeqOne
  <2>4. Carry(<<a>> \o <<b>>, Kids(Top))
    BY <1>1, <2>2, <2>3, CarryLater
  <2> QED
    BY <1>3, <2>4
<1> HIDE DEF fs
<1> QED
  BY <1>2, <1>3, <1>4, <1>5, StepReplaces

LEMMA PostfixLinks ==
  ASSUME ParserInv, Postfix
  PROVE  Linked(nodes', calls') /\ calls' # <<>> /\ UNCHANGED <<nodes, parens>>
<1> DEFINE g == IF check("LPAREN") THEN "call" ELSE IF check("LBRACKET") THEN "index" ELSE "member"
           b == Holding(g, Kids(Top))
<1>1. /\ calls # <<>> /\ Top.fn = "parse_postfix" /\ Kids(Top) # <<>> /\ NoNode
      /\ calls' = Front(calls) \o <<Frame("parse_postfix"), b>>
  BY DEF Postfix, HasOperand, Kids
<1>2. g \in {"call", "index", "member"}
  OBVIOUS
<1>3. FrameOK(nodes, Top) /\ IsSeq(nodes)
  BY <1>1, TopFacts
<1>4. Top.fn \in OperatorNames
  BY <1>1 DEF OperatorNames
<1> HIDE DEF g
<1>5. g \in ScriptNames
  BY <1>2 DEF ScriptNames
<1>6. IsFrame(b) /\ b.fn = g /\ b.pc = 1 /\ Kids(b) = Kids(Top) /\ b.node.kind = Scripts[g].kind
  BY <1>5, HoldingFields
<1> HIDE DEF b
<1>7. FrameOK(nodes, b) /\ TopOK(b)
  BY <1>1, <1>2, <1>3, <1>4, <1>6, HasFirst
<1>8. Results(b.fn) \subseteq ExprKinds
  BY <1>2, <1>6, ExprResults
<1>9. "parse_postfix" \in OperatorNames
  BY DEF OperatorNames
<1> QED
  BY <1>1, <1>4, <1>6, <1>7, <1>8, <1>9, OperatorOver

LEMMA BinaryLinks ==
  ASSUME ParserInv, Binary
  PROVE  Linked(nodes', calls') /\ calls' # <<>> /\ UNCHANGED <<nodes, parens>>
<1> DEFINE top == Top.fn
           g == IF top = "parse_assignment" THEN "assign" ELSE "binary"
           b == [Frame(g) EXCEPT !.node.kids = Top.node.kids,
                                 !.node.op = IF top = "parse_assignment" THEN NoOp ELSE current.type]
           fs == Frames(Right(top))
           s == Front(calls)
           below == IF top = "parse_assignment" THEN <<>> ELSE <<Frame(top)>>
<1>1. /\ calls # <<>> /\ top \in OperatorNames \ {"parse_postfix"} /\ Kids(Top) # <<>> /\ NoNode
      /\ calls' = s \o below \o <<b>> \o fs
  BY Domains DEF Binary, HasOperand, Kids
<1>2. FrameOK(nodes, Top) /\ IsSeq(nodes) /\ IsSeq(s)
  BY <1>1, TopFacts
<1>3. Row(nodes, fs) /\ Results(fs[1].fn) = ExprKinds /\ Empty(fs)
  BY <1>1, LowerFrames
<1>4. g \in {"binary", "assign"}
  OBVIOUS
<1>5. Results(g) \subseteq Results(top)
  BY <1>1, <1>4, ExprResults
<1> HIDE DEF g
<1>6. g \in ScriptNames
  BY <1>4 DEF ScriptNames
<1>7. IsFrame(b) /\ b.fn = g /\ b.pc = 1 /\ Kids(b) = Kids(Top) /\ b.node.kind = Scripts[g].kind
  BY <1>6, Domains DEF Frame, IsFrame, Kids, Node
<1> HIDE DEF b, fs
<1>8. FrameOK(nodes, b)
  BY <1>1, <1>2, <1>4, <1>7, HasFirst
<1>9. WaitsFor(b, Results(fs[1].fn))
  <2>1. /\ End(g) = 2 /\ StepOf(g, 1).do = "wait" /\ Counts[g][2] = {2}
        /\ Accepts(g, 2) = ExprSlot
    <3>1. /\ End("binary") = 2 /\ StepOf("binary", 1).do = "wait" /\ Counts["binary"][2] = {2}
          /\ End("assign") = 2 /\ StepOf("assign", 1).do = "wait" /\ Counts["assign"][2] = {2}
      BY ScriptDefs DEF End, StepOf, Waiting, Step, Counts
    <3>2. \A h \in {"binary", "assign"} : Accepts(h, 2) = ExprSlot
      BY ScriptDefs, Domains DEF Waiting, Accepts, ScriptNames, Slot, IsStmtSlot, MayBeNull
    <3> QED
      BY <1>4, <3>1, <3>2
  <2>2. NextPc(g, 1) = 2
    BY <2>1 DEF NextPc, Iterations
  <2>3. Results(fs[1].fn) \subseteq ExprSlot
    BY <1>3 DEF ExprSlot
  <2>4. Len(Kids(b)) = 1
    BY <1>1, <1>2, <1>7, Operand
  <2> QED
    BY <1>6, <1>7, <2>1, <2>2, <2>3, <2>4, Apart DEF WaitsFor
<1> DEFINE gs == <<b>> \o fs
<1>10. Row(nodes, gs) /\ gs[1] = b
  BY <1>3, <1>8, <1>9, RowCons
<1>11. IsSeq(fs) /\ IsSeq(<<b>>) /\ IsSeq(gs)
  BY <1>3, <1>10, SeqOne DEF Row
<1>12. Carry(gs, Kids(Top))
  <2>1. SameKids(Kids(b), Kids(Top))
    BY <1>7, SameKidsSelf
  <2> QED
    BY <1>3, <1>11, <2>1, CarryFirst
<1>13. CASE top = "parse_assignment"
  <2>1. calls' = s \o gs
    <3>1. s \o <<>> = s
      BY <1>2, SeqNone, SeqConcat, SeqEqual2
    <3>2. calls' = (s \o <<b>>) \o fs
      BY <1>1, <1>13, <3>1
    <3> QED
      BY <1>2, <1>11, <3>2, ConcatAssoc
  <2>2. Results(gs[1].fn) \subseteq Results(Top.fn)
    BY <1>5, <1>7, <1>10
  <2> HIDE DEF gs, s
  <2>3. calls' = Front(calls) \o gs
    BY <2>1 DEF s
  <2> QED
    BY <1>1, <1>10, <1>12, <2>2, <2>3, StepReplaces
<1>14. CASE top # "parse_assignment"
  <2> DEFINE a == Frame(top)
             hs == <<a>> \o gs
  <2>1. FrameOK(nodes, a) /\ WaitsFor(a, Results(g)) /\ Kids(a) = <<>> /\ a.fn = top
    BY <1>1, <1>4, ExprResults, OperatorWaits, FrameFields
  <2>2. IsSeq(<<a>>)
    BY SeqOne
  <2>3. calls' = s \o hs
    <3>1. calls' = ((s \o <<a>>) \o <<b>>) \o fs
      BY <1>1, <1>14
    <3> HIDE DEF a, s
    <3>2. IsSeq(s \o <<a>>)
      BY <1>2, <2>2, SeqConcat
    <3>3. ((s \o <<a>>) \o <<b>>) \o fs = (s \o <<a>>) \o (<<b>> \o fs)
      BY <1>11, <3>2, ConcatAssoc
    <3>4. (s \o <<a>>) \o gs = s \o (<<a>> \o gs)
      BY <1>2, <1>11, <2>2, ConcatAssoc
    <3> QED
      BY <3>1, <3>3, <3>4
  <2> HIDE DEF a
  <2>4. WaitsFor(a, Results(gs[1].fn))
    BY <1>7, <1>10, <2>1
  <2> HIDE DEF gs
  <2>5. Row(nodes, hs) /\ hs[1] = a
    BY <1>10, <2>1, <2>4, RowCons
  <2>6. Carry(hs, Kids(Top))
    BY <1>11, <1>12, <2>1, CarryLater
  <2>7. Results(hs[1].fn) \subseteq Results(Top.fn)
    BY <2>1, <2>5
  <2> HIDE DEF hs
  <2> QED
    BY <1>1, <2>3, <2>5, <2>6, <2>7, StepReplaces
<1> QED
  BY <1>13, <1>14

\* The stack below a function of the expression grammar is not empty.
LEMMA NotLast ==
  ASSUME ParserInv, calls # <<>>, NEW v, v \in Results(Top.fn), v # "PROGRAM"
  PROVE  Front(calls) # <<>>
<1>1. Ready(nodes, Front(calls), Results(Top.fn))
  BY TopFacts
<1> QED
  BY <1>1 DEF Ready

\* The function that runs returns what it holds.
LEMMA Returns ==
  ASSUME ParserInv, calls # <<>>, Len(Kids(Top)) = 1, Accepts(Top.fn, 1) = ExprKinds, Results(Top.fn) = ExprKinds,
         calls' = Deliver(Front(calls), Top.node.kids[1]), UNCHANGED nodes
  PROVE  Linked(nodes', calls') /\ calls' # <<>> /\ Top.node.kids[1] \in 1..Len(nodes)
<1> DEFINE s == Front(calls)
           t == Top
           v == Top.node.kids[1]
<1>1. /\ IsSeq(nodes) /\ FrameOK(nodes, t) /\ OneOwner(nodes, s \o <<t>>)
      /\ Ready(nodes, s, ExprKinds)
  BY TopFacts DEF Linked
<1>2. Kids(t) = <<v>> /\ v \in 1..Len(nodes) /\ nodes[v].kind \in ExprKinds
  BY <1>1, HoldsExpr DEF Kids
<1>3. s # <<>>
  <2>1. "IDENT" \in ExprKinds
    BY DEF ExprKinds
  <2> QED
    BY <2>1, NotLast
<1> HIDE DEF s, t, v
<1>4. StackOK(nodes, Deliver(s, v)) /\ OneOwner(nodes, Deliver(s, v)) /\ Deliver(s, v) # <<>>
  BY <1>1, <1>2, <1>3, Returned
<1>5. calls' = Deliver(s, v)
  BY DEF s, v
<1>6. Linked(nodes', calls') /\ calls' # <<>>
  BY <1>4, <1>5 DEF Linked
<1> QED
  BY <1>2, <1>6 DEF v

LEMMA ReturnOperandLinks ==
  ASSUME ParserInv, ReturnOperand PROVE Linked(nodes', calls') /\ calls' # <<>> /\ UNCHANGED <<nodes, parens>>
<1>1. /\ calls # <<>> /\ Top.fn \in OperatorNames /\ Kids(Top) # <<>> /\ UNCHANGED <<nodes, parens>>
      /\ calls' = Deliver(Front(calls), Top.node.kids[1])
  BY Domains DEF ReturnOperand, HasOperand, Kids, NoNode
<1>2. FrameOK(nodes, Top) /\ IsSeq(nodes)
  BY <1>1, TopFacts
<1>3. Len(Kids(Top)) = 1
  BY <1>1, <1>2, Operand
<1>4. Accepts(Top.fn, 1) = ExprKinds /\ Results(Top.fn) = ExprKinds
  BY <1>1, OperatorKinds
<1>5. UNCHANGED nodes
  BY <1>1
<1>6. Linked(nodes', calls') /\ calls' # <<>>
  BY <1>1, <1>3, <1>4, <1>5, Returns
<1> QED
  BY <1>1, <1>6

-----------------------------------------------------------------------------
(* The steps that add a node. *)

LEMMA TreeBelow == ASSUME NEW nds, TreeIn(nds) PROVE Below(nds)
  BY DEF TreeIn, Below

LEMMA StackBounded == ASSUME NEW nds, IsSeq(nds), NEW cs, StackOK(nds, cs) PROVE Bounded(cs, Len(nds))
<1> SUFFICES ASSUME NEW j \in DOMAIN cs, NEW i \in DOMAIN Kids(cs[j]) PROVE Kids(cs[j])[i] \in 0..Len(nds)
  BY DEF Bounded
<1> DEFINE kids == Kids(cs[j])
<1>1. kids \in Seq(Nat) /\ kids[i] <= Len(nds)
  BY DEF StackOK, FrameOK
<1>2. IsSeq(kids) /\ i \in DOMAIN kids
  BY <1>1, Zenon DEF IsSeq
<1> HIDE DEF kids
<1>3. kids[i] \in Nat
  BY <1>1, <1>2, SeqLen
<1>4. Len(nds) \in Nat
  BY SeqLen
<1>5. kids[i] \in 0..Len(nds)
  BY <1>1, <1>3, <1>4
<1> QED
  BY <1>5 DEF kids

LEMMA TreeGrows ==
  ASSUME NEW nds, IsSeq(nds), TreeIn(nds), NEW node, node.kind \in NodeKinds \ (HoleKinds \cup {"NULL"}),
         node.kids \in Seq(Nat), HasArity(node.kind, Len(node.kids)),
         \A i \in DOMAIN node.kids : node.kids[i] <= Len(nds) /\ KindIn(nds, node.kids[i]) \in Slot(node.kind, i)
  PROVE  TreeIn(Append(nds, node))
<1> DEFINE new == Append(nds, node)
           l == Len(nds)
<1>1. /\ IsSeq(new) /\ l \in Nat /\ DOMAIN nds = 1..l /\ DOMAIN new = 1..(l + 1)
      /\ \A i \in 1..(l + 1) : new[i] = IF i <= l THEN nds[i] ELSE node
  BY SeqAppend
<1> HIDE DEF new, l
<1>2. \A m \in 0..l : KindIn(new, m) = KindIn(nds, m)
  BY <1>1 DEF KindIn
<1> SUFFICES ASSUME NEW n \in 1..(l + 1)
             PROVE  /\ new[n].kind \in NodeKinds \ (HoleKinds \cup {"NULL"})
                    /\ new[n].kids \in Seq(Nat) /\ HasArity(new[n].kind, Len(new[n].kids))
                    /\ \A i \in DOMAIN new[n].kids :
                         new[n].kids[i] \in 0..(n - 1) /\ KindIn(new, new[n].kids[i]) \in Slot(new[n].kind, i)
  BY <1>1 DEF TreeIn, new
<1>3. CASE n \in 1..l
  <2>1. n \in DOMAIN nds /\ new[n] = nds[n]
    BY <1>1, <1>3
  <2>2. /\ nds[n].kind \in NodeKinds \ (HoleKinds \cup {"NULL"})
        /\ nds[n].kids \in Seq(Nat) /\ HasArity(nds[n].kind, Len(nds[n].kids))
        /\ \A i \in DOMAIN nds[n].kids :
             nds[n].kids[i] \in 0..(n - 1) /\ KindIn(nds, nds[n].kids[i]) \in Slot(nds[n].kind, i)
    BY <2>1 DEF TreeIn
  <2>3. \A m \in 0..(n - 1) : m \in 0..l
    BY <1>1, <1>3
  <2>4. \A i \in DOMAIN nds[n].kids : KindIn(new, nds[n].kids[i]) = KindIn(nds, nds[n].kids[i])
    BY <1>2, <2>2, <2>3
  <2> QED
    BY <2>1, <2>2, <2>4
<1>4. CASE n = l + 1
  <2>1. new[n] = node
    BY <1>1, <1>4
  <2>2. \A i \in DOMAIN node.kids : node.kids[i] \in 0..l
    <3> SUFFICES ASSUME NEW i \in DOMAIN node.kids PROVE node.kids[i] \in 0..l
      OBVIOUS
    <3> DEFINE kids == node.kids
    <3>1. kids \in Seq(Nat) /\ i \in DOMAIN kids /\ kids[i] <= l
      BY DEF l
    <3>2. IsSeq(kids)
      BY <3>1, Zenon DEF IsSeq
    <3> HIDE DEF kids
    <3>3. kids[i] \in Nat
      BY <3>1, <3>2, SeqLen
    <3>4. kids[i] \in 0..l
      BY <1>1, <3>1, <3>3
    <3> QED
      BY <3>4 DEF kids
  <2>3. \A i \in DOMAIN node.kids : KindIn(new, node.kids[i]) = KindIn(nds, node.kids[i])
    BY <1>2, <2>2
  <2>4. n - 1 = l
    BY <1>1, <1>4
  <2> QED
    BY <2>1, <2>2, <2>3, <2>4
<1>5. n \in 1..l \/ n = l + 1
  BY <1>1
<1> QED
  BY <1>3, <1>4, <1>5

\* The function that runs ends with a new node, which its caller gets.
LEMMA Allocated ==
  ASSUME ParserInv, calls # <<>>, NEW node, node.kids = Kids(Top), node.kind \in Results(Top.fn),
         node.kind \in NodeKinds \ (HoleKinds \cup {"NULL"}), HasArity(node.kind, Len(node.kids)),
         \A i \in DOMAIN node.kids : KindIn(nodes, node.kids[i]) \in Slot(node.kind, i), Alloc(node),
         NEW g, Kids(g) = <<Len(nodes) + 1>>
  PROVE  /\ IsSeq(nodes') /\ IsSeq(parens') /\ Len(parens') = Len(nodes') /\ TreeIn(nodes')
         /\ OneOwner(nodes', Front(calls) \o <<g>>) /\ Ready(nodes', Front(calls), Results(Top.fn))
         /\ Len(nodes') = Len(nodes) + 1 /\ Len(nodes) + 1 \in 1..Len(nodes')
         /\ nodes'[Len(nodes) + 1].kind = node.kind
<1> DEFINE s == Front(calls)
           t == Top
           nds == nodes
           new == Append(nds, node)
           more1 == Append(parens, 0)
<1>1. /\ IsSeq(nds) /\ IsSeq(s) /\ FrameOK(nds, t) /\ OneOwner(nds, s \o <<t>>) /\ StackOK(nds, s \o <<t>>)
      /\ Ready(nds, s, Results(t.fn))
  BY TopFacts DEF Linked
<1>2. IsSeq(parens) /\ Len(parens) = Len(nds) /\ TreeIn(nds)
  BY DEF ParserInv
<1>3. nodes' = new /\ parens' = more1
  BY DEF Alloc
<1>4. node.kids \in Seq(Nat) /\ \A i \in DOMAIN node.kids : node.kids[i] <= Len(nds)
  BY <1>1 DEF FrameOK
<1>5. node.kids = Kids(t) /\ Kids(g) = <<Len(nds) + 1>>
  OBVIOUS
<1>6. TreeIn(new)
  BY <1>1, <1>2, <1>4, TreeGrows
<1> HIDE DEF s, t, nds
<1>7. IsSeq(new) /\ Len(nds) \in Nat /\ Len(new) = Len(nds) + 1 /\ new[Len(nds) + 1] = node
  BY <1>1, SeqAppend
<1>8. IsSeq(more1) /\ Len(more1) = Len(parens) + 1
  BY <1>2, SeqAppend
<1>9. Bounded(s \o <<t>>, Len(nds)) /\ Below(nds)
  BY <1>1, <1>2, StackBounded, TreeBelow
<1>10. OneOwner(new, s \o <<g>>)
  BY <1>1, <1>5, <1>9, AllocOwner
<1>11. Ready(new, s, Results(t.fn))
  BY <1>1, ReadyGrows
<1> HIDE DEF new, more1
<1>12. Len(nds) + 1 \in 1..Len(new)
  BY <1>7
<1> QED
  BY <1>2, <1>3, <1>6, <1>7, <1>8, <1>10, <1>11, <1>12 DEF s, t, nds

\* What every step keeps.
Kept ==
  /\ IsSeq(nodes) /\ IsSeq(parens) /\ Len(parens) = Len(nodes) /\ TreeIn(nodes)
  /\ Linked(nodes, calls) /\ (calls # <<>> \/ nodes # <<>>)

LEMMA SameNodes == ASSUME ParserInv, Linked(nodes', calls'), calls' # <<>>, UNCHANGED <<nodes, parens>> PROVE Kept'
  BY DEF ParserInv, Kept

LEMMA PrimaryKeeps == ASSUME ParserInv, Primary PROVE Kept'
<1>1. calls # <<>> /\ Top.fn = "parse_unary"
  BY DEF Primary
<1>2. FrameOK(nodes, Top) /\ IsSeq(Front(calls))
  BY <1>1, TopFacts
<1>3. Kids(Top) = <<>>
  BY <1>1, <1>2 DEF FrameOK
<1>4. Results(Top.fn) = ExprKinds
  BY <1>1, ExprResults
<1>5. CASE check("LPAREN")
  <2> DEFINE b == Frame("paren")
  <2>1. NoNode /\ calls' = Front(calls) \o <<Frame("parse_postfix"), b>>
    BY <1>5 DEF Primary
  <2>2. FrameOK(nodes, b) /\ TopOK(b)
    BY NewFrame DEF ScriptNames
  <2>3. Kids(b) = Kids(Top) /\ b.fn = "paren"
    BY <1>3, FrameFields
  <2>4. Results(b.fn) \subseteq ExprKinds
    BY <2>3, ExprResults
  <2>5. "parse_postfix" \in OperatorNames
    BY DEF OperatorNames
  <2> HIDE DEF b
  <2>6. Linked(nodes', calls') /\ calls' # <<>> /\ UNCHANGED <<nodes, parens>>
    BY <1>1, <2>1, <2>2, <2>3, <2>4, <2>5, OperatorOver
  <2> QED
    BY <2>6, SameNodes
<1>6. CASE ~check("LPAREN")
  <2> DEFINE node == IF current.type \in Spelled THEN [Node(current.type) EXCEPT !.name = current.lexeme]
                     ELSE [Node("INT_LIT") EXCEPT !.name = "0"]
             v == Len(nodes) + 1
             g == Holding("parse_postfix", <<v>>)
  <2>1. Alloc(node) /\ calls' = Append(Front(calls), g)
    BY <1>6 DEF Primary
  <2>2. node.kids = <<>> /\ node.kind \in Spelled
    BY DEF Node, Spelled, Literals
  <2>3. /\ \A k \in Spelled : k \in ExprKinds /\ k \in NodeKinds \ (HoleKinds \cup {"NULL"}) /\ HasArity(k, 0)
        /\ Len(<<>>) = 0 /\ DOMAIN <<>> = {}
    BY SeqNone DEF Spelled, Literals, ExprKinds, NodeKinds, HoleKinds, HasArity
  <2> HIDE DEF node
  <2>4. /\ node.kids = Kids(Top) /\ node.kind \in Results(Top.fn) /\ node.kind \in NodeKinds \ (HoleKinds \cup {"NULL"})
        /\ HasArity(node.kind, Len(node.kids))
        /\ \A i \in DOMAIN node.kids : KindIn(nodes, node.kids[i]) \in Slot(node.kind, i)
    BY <1>3, <1>4, <2>2, <2>3
  <2>5. IsFrame(g) /\ g.fn = "parse_postfix" /\ Kids(g) = <<v>>
    BY HoldingFields
  <2> HIDE DEF g
  <2>6. /\ IsSeq(nodes') /\ IsSeq(parens') /\ Len(parens') = Len(nodes') /\ TreeIn(nodes')
        /\ OneOwner(nodes', Front(calls) \o <<g>>) /\ Ready(nodes', Front(calls), Results(Top.fn))
        /\ v \in 1..Len(nodes') /\ nodes'[v].kind = node.kind
    BY <1>1, <2>1, <2>4, <2>5, Allocated
  <2> DEFINE new == nodes'
             fs == <<g>>
             s == Front(calls)
  <2>7. nodes'[v].kind \in ExprKinds
    BY <1>4, <2>4, <2>6
  <2> HIDE DEF v, s, new
  <2>8. FrameOK(new, g)
    <3>1. v \in 1..Len(new) /\ new[v].kind \in ExprKinds
      BY <2>6, <2>7 DEF new
    <3>2. g.fn \in OperatorNames /\ g.fn \notin ScriptNames /\ g.fn # "parse_unary"
      BY <2>5, Apart DEF OperatorNames
    <3>3. Len(new) \in Nat
      BY <2>6, SeqLen DEF new
    <3>4. v \in Nat /\ v # 0 /\ v <= Len(new)
      BY <3>1, <3>3
    <3>5. Kids(g) \in Seq(Nat) /\ Len(Kids(g)) = 1 /\ \A i \in DOMAIN Kids(g) : Kids(g)[i] = v
      BY <2>5, <3>4
    <3>6. \A i : Accepts(g.fn, i) = ExprKinds
      BY <3>2, OperatorKinds
    <3>7. KindIn(new, v) \in ExprKinds
      BY <3>1, <3>4 DEF KindIn
    <3> QED
      BY <2>5, <3>2, <3>4, <3>5, <3>6, <3>7 DEF FrameOK
  <2>9. TopOK(g)
    BY <2>5 DEF TopOK
  <2>10. Row(new, fs) /\ fs[1] = g
    BY <2>8, <2>9, RowOne
  <2>11. Results(fs[1].fn) \subseteq Results(Top.fn)
    <3>1. "parse_postfix" \in OperatorNames
      BY DEF OperatorNames
    <3> QED
      BY <1>4, <2>5, <2>10, <3>1, ExprResults
  <2>12. Ready(new, s, Results(Top.fn)) /\ OneOwner(new, s \o fs)
    BY <2>6 DEF new, s
  <2> HIDE DEF fs
  <2>13. StackOK(new, s \o fs)
    BY <2>10, <2>11, <2>12, StackGrows
  <2>14. calls' = s \o fs
    BY <1>2, <2>1, AppendIs DEF s, fs
  <2>15. Linked(nodes', calls')
    BY <2>12, <2>13, <2>14 DEF Linked, new
  <2> QED
    BY <2>6, <2>15 DEF Kept
<1> QED
  BY <1>5, <1>6

\* At its end a script has the children its kind has.
LEMMA AtEnd ==
  /\ \A fn \in ScriptNames \ {"paren", "declaration"} : \A c \in Counts[fn][End(fn)] :
       /\ Scripts[fn].kind \in NodeKinds \ (HoleKinds \cup {"NULL"}) /\ HasArity(Scripts[fn].kind, c)
       /\ Results(fn) = {Scripts[fn].kind} /\ \A i : Accepts(fn, i) = Slot(Scripts[fn].kind, i)
  /\ Counts["declaration"][End("declaration")] = {}
  /\ Counts["paren"][End("paren")] = {1} /\ Accepts("paren", 1) = ExprKinds /\ Results("paren") = ExprKinds
<1>1. \A fn \in ScriptNames \ {"paren", "declaration"} :
        Results(fn) = {Scripts[fn].kind} /\ \A i : Accepts(fn, i) = Slot(Scripts[fn].kind, i)
  BY Domains DEF Results, Accepts
<1>2. \A fn \in ScriptNames \ {"paren", "declaration"} : Scripts[fn].kind \in NodeKinds \ (HoleKinds \cup {"NULL"})
  BY ScriptDefs DEF ScriptNames, NodeKinds, HoleKinds, StmtKinds, ExprKinds, Literals, parse_var_decl, parse_block,
     parse_return, parse_if, parse_while, parse_for, expr_stmt, declaration, function, global_var, program, call, index,
     member, Waiting
<1>3. /\ End("parse_var_decl") = 6 /\ End("parse_block") = 4 /\ End("parse_return") = 5 /\ End("parse_if") = 8
      /\ End("parse_while") = 6 /\ End("parse_for") = 12 /\ End("expr_stmt") = 3 /\ End("declaration") = 4
      /\ End("function") = 9 /\ End("global_var") = 4 /\ End("parse") = 2 /\ End("call") = 5 /\ End("index") = 3
      /\ End("member") = 2 /\ End("paren") = 3 /\ End("unary") = 2 /\ End("binary") = 2 /\ End("assign") = 2
  BY ScriptDefs
     DEF End, parse_var_decl, parse_block, parse_return, parse_if, parse_while, parse_for, expr_stmt, declaration,
     function, global_var, program, call, index, member, paren, Waiting
<1>4. \A fn \in ScriptNames \ {"paren", "declaration"} : \A c \in Counts[fn][End(fn)] : HasArity(Scripts[fn].kind, c)
  <2>1. /\ \A c \in Counts["parse_var_decl"][6] : HasArity("VAR_DECL", c)
        /\ \A c \in Counts["parse_block"][4] : HasArity("BLOCK", c)
        /\ \A c \in Counts["parse_return"][5] : HasArity("RETURN", c)
        /\ \A c \in Counts["parse_if"][8] : HasArity("IF", c)
        /\ \A c \in Counts["parse_while"][6] : HasArity("WHILE", c)
        /\ \A c \in Counts["parse_for"][12] : HasArity("FOR", c)
    BY DEF Counts, HasArity, HoleKinds, Literals
  <2>2. /\ \A c \in Counts["expr_stmt"][3] : HasArity("EXPR_STMT", c)
        /\ \A c \in Counts["function"][9] : HasArity("FUNC_DECL", c)
        /\ \A c \in Counts["global_var"][4] : HasArity("VAR_DECL", c)
        /\ \A c \in Counts["parse"][2] : HasArity("PROGRAM", c)
        /\ \A c \in Counts["call"][5] : HasArity("CALL", c)
        /\ \A c \in Counts["index"][3] : HasArity("INDEX", c)
    BY DEF Counts, HasArity, HoleKinds, Literals
  <2>3. /\ \A c \in Counts["member"][2] : HasArity("MEMBER", c)
        /\ \A c \in Counts["unary"][2] : HasArity("UNARY", c)
        /\ \A c \in Counts["binary"][2] : HasArity("BINARY", c)
        /\ \A c \in Counts["assign"][2] : HasArity("ASSIGN", c)
    BY DEF Counts, HasArity, HoleKinds, Literals
  <2>4. /\ Scripts["parse_var_decl"].kind = "VAR_DECL" /\ Scripts["parse_block"].kind = "BLOCK"
        /\ Scripts["parse_return"].kind = "RETURN" /\ Scripts["parse_if"].kind = "IF"
        /\ Scripts["parse_while"].kind = "WHILE" /\ Scripts["parse_for"].kind = "FOR"
        /\ Scripts["expr_stmt"].kind = "EXPR_STMT" /\ Scripts["function"].kind = "FUNC_DECL"
        /\ Scripts["global_var"].kind = "VAR_DECL" /\ Scripts["parse"].kind = "PROGRAM"
        /\ Scripts["call"].kind = "CALL" /\ Scripts["index"].kind = "INDEX" /\ Scripts["member"].kind = "MEMBER"
        /\ Scripts["unary"].kind = "UNARY" /\ Scripts["binary"].kind = "BINARY" /\ Scripts["assign"].kind = "ASSIGN"
    BY ScriptDefs DEF parse_var_decl, parse_block, parse_return, parse_if, parse_while, parse_for, expr_stmt, function,
       global_var, program, call, index, member, Waiting
  <2> QED
    BY <1>3, <2>1, <2>2, <2>3, <2>4, SMTT(60) DEF ScriptNames
<1>5. Counts["declaration"][4] = {} /\ Counts["paren"][3] = {1}
  BY DEF Counts
<1>6. Accepts("paren", 1) = ExprKinds /\ Results("paren") = ExprKinds
  BY DEF Accepts, Results
<1> QED
  BY <1>1, <1>2, <1>3, <1>4, <1>5, <1>6

LEMMA SeqExcept ==
  ASSUME NEW s, IsSeq(s), NEW k, NEW x
  PROVE  IsSeq([s EXCEPT ![k] = x]) /\ Len([s EXCEPT ![k] = x]) = Len(s)
<1> DEFINE f == [s EXCEPT ![k] = x]
           n == Len(s)
<1>1. n \in Nat /\ DOMAIN s = 1..n
  BY SeqLen
<1>2. DOMAIN f = 1..n /\ f = [i \in 1..n |-> f[i]]
  <2>1. f = [i \in DOMAIN s |-> f[i]]
    BY Zenon
  <2> QED
    BY <1>1, <2>1
<1> HIDE DEF f, n
<1>3. IsSeq(f) /\ Len(f) = n
  BY <1>1, <1>2, SeqFunction
<1> QED
  BY <1>3 DEF f, n

LEMMA FinishKeeps == ASSUME ParserInv, Finish PROVE Kept'
<1>1. calls # <<>> /\ Top.fn \in ScriptNames /\ Top.pc > Len(Scripts[Top.fn].steps)
  BY Domains DEF Finish, Script
<1>2. FrameOK(nodes, Top) /\ IsSeq(calls) /\ IsSeq(nodes)
  BY <1>1, TopFacts
<1>3. Top.pc = End(Top.fn) /\ Len(Kids(Top)) \in Counts[Top.fn][End(Top.fn)]
  <2>1. Top.pc \in 1..End(Top.fn) /\ Len(Kids(Top)) \in Counts[Top.fn][Top.pc]
    BY <1>1, <1>2 DEF FrameOK
  <2>2. Len(Scripts[Top.fn].steps) \in Nat
    BY <1>1, Ends
  <2>3. Top.pc = End(Top.fn)
    BY <1>1, <2>1, <2>2 DEF End
  <2> QED
    BY <2>1, <2>3
<1>4. Top.fn # "declaration"
  BY <1>3, AtEnd
<1>5. CASE Top.fn = "paren"
  <2> DEFINE e == Top.node.kids[1]
  <2>1. /\ calls' = Deliver(Front(calls), e) /\ UNCHANGED nodes
        /\ parens' = [parens EXCEPT ![e] = parens[e] + 1]
    BY <1>5 DEF Finish
  <2>2. Len(Kids(Top)) = 1 /\ Accepts(Top.fn, 1) = ExprKinds /\ Results(Top.fn) = ExprKinds
    BY <1>3, <1>5, AtEnd
  <2>3. Linked(nodes', calls') /\ calls' # <<>>
    BY <1>1, <2>1, <2>2, Returns
  <2>4. IsSeq(parens) /\ Len(parens) = Len(nodes) /\ TreeIn(nodes)
    BY DEF ParserInv
  <2>5. IsSeq(parens') /\ Len(parens') = Len(parens)
    BY <2>1, <2>4, SeqExcept
  <2> HIDE DEF e
  <2> QED
    BY <1>2, <2>1, <2>3, <2>4, <2>5 DEF Kept
<1>6. CASE Top.fn # "paren"
  <2> DEFINE node == Top.node
             fn == Top.fn
             v == Len(nodes) + 1
             g == Holding("parse_postfix", <<v>>)
  <2>1. Alloc(node) /\ calls' = IF Len(calls) = 1 THEN <<>> ELSE Deliver(Front(calls), v)
    BY <1>6 DEF Finish
  <2>2. node.kids = Kids(Top) /\ node.kind = Scripts[fn].kind
    BY <1>1, <1>2 DEF FrameOK, Kids
  <2>3. /\ node.kind \in NodeKinds \ (HoleKinds \cup {"NULL"}) /\ HasArity(node.kind, Len(node.kids))
        /\ Results(fn) = {node.kind} /\ \A i : Accepts(fn, i) = Slot(node.kind, i)
    BY <1>1, <1>3, <1>4, <1>6, <2>2, AtEnd
  <2>4. \A i \in DOMAIN node.kids : KindIn(nodes, node.kids[i]) \in Slot(node.kind, i)
    BY <1>2, <2>2, <2>3 DEF FrameOK
  <2>5. node.kind \in Results(Top.fn)
    BY <2>3
  <2>6. Kids(g) = <<v>>
    BY HoldingFields
  <2> HIDE DEF g, node
  <2>7. /\ IsSeq(nodes') /\ IsSeq(parens') /\ Len(parens') = Len(nodes') /\ TreeIn(nodes')
        /\ OneOwner(nodes', Front(calls) \o <<g>>) /\ Ready(nodes', Front(calls), Results(Top.fn))
        /\ Len(nodes') = v /\ v \in 1..Len(nodes') /\ nodes'[v].kind = node.kind
    BY <1>1, <2>1, <2>2, <2>3, <2>4, <2>5, <2>6, Allocated
  <2> DEFINE new == nodes'
             s == Front(calls)
             kinds == Results(Top.fn)
  <2>8. /\ IsSeq(new) /\ OneOwner(new, s \o <<g>>) /\ Ready(new, s, kinds) /\ v \in 1..Len(new) /\ Len(new) = v
        /\ new[v].kind \in kinds
    BY <2>5, <2>7
  <2>9. IsSeq(s) /\ Len(s) = Len(calls) - 1 /\ Len(calls) \in Nat
    BY <1>1, <1>2, SeqSplit
  <2>10. ASSUME Len(calls) = 1 PROVE Linked(nodes', calls')
    <3>1. s = <<>> /\ calls' = <<>>
      BY <2>1, <2>9, <2>10, SeqLen
    <3>2. OneOwner(new, <<>> \o <<g>>) /\ Kids(g) = <<Len(new)>>
      BY <2>6, <2>8, <3>1
    <3> HIDE DEF new, s
    <3>3. OneOwner(new, <<>>)
      BY <2>8, <3>2, RootOwner
    <3>4. StackOK(new, <<>>)
      BY SeqNone DEF StackOK
    <3> QED
      BY <3>1, <3>3, <3>4 DEF Linked, new
  <2>11. ASSUME Len(calls) # 1 PROVE Linked(nodes', calls')
    <3>1. s # <<>> /\ calls' = Deliver(s, v)
      <4>1. Len(s) # 0
        BY <2>9, <2>11
      <4>2. s # <<>>
        BY <2>9, <4>1, SeqLen
      <4> QED
        BY <2>1, <2>11, <4>2
    <3> HIDE DEF new, s, v, kinds
    <3>2. StackOK(new, Deliver(s, v)) /\ OneOwner(new, Deliver(s, v))
      BY <2>6, <2>8, <3>1, Returned
    <3> QED
      BY <3>1, <3>2 DEF Linked, new
  <2> QED
    BY <2>7, <2>10, <2>11 DEF Kept
<1> QED
  BY <1>5, <1>6

-----------------------------------------------------------------------------
(* Every step. *)

LEMMA Advances ==
  ASSUME IsSeq(seen), seen # <<>>, NEW err, advance(err)
  PROVE  IsSeq(seen') /\ seen' # <<>>
<1>1. UNCHANGED seen \/ seen' = Append(seen, current')
  BY DEF advance, stream
<1>2. CASE UNCHANGED seen
  BY <1>2
<1>3. CASE seen' = Append(seen, current')
  BY <1>3, SeqAppend
<1> QED
  BY <1>1, <1>2, <1>3

LEMMA Reads ==
  ASSUME IsSeq(seen), seen # <<>>, ParserStep
  PROVE  IsSeq(seen') /\ seen' # <<>>
<1>1. (\E err : advance(err)) \/ UNCHANGED seen
  <2>1. ASSUME \/ ExpectToken \/ ExpectName \/ Unary \/ Binary \/ Postfix PROVE \E err : advance(err)
    <3>1. CASE ExpectToken
      BY <3>1, Zenon DEF ExpectToken
    <3>2. CASE ExpectName
      BY <3>2, Zenon DEF ExpectName
    <3>3. CASE Unary
      BY <3>3, Zenon DEF Unary
    <3>4. CASE Binary
      BY <3>4, Zenon DEF Binary
    <3>5. CASE Postfix
      BY <3>5, Zenon DEF Postfix
    <3> QED
      BY <2>1, <3>1, <3>2, <3>3, <3>4, <3>5
  <2>2. ASSUME \/ CallFunction \/ Statements \/ FunctionBody \/ Declarator \/ Finish \/ ReturnOperand PROVE NoToken
    BY <2>2, Zenon DEF CallFunction, Statements, FunctionBody, Declarator, Finish, ReturnOperand
  <2>3. ASSUME \/ ParseType \/ OptionalPart \/ Branch \/ ParseParamName \/ Declarations \/ Primary
        PROVE  NoToken \/ \E err : advance(err)
    <3>1. CASE ParseType
      BY <3>1, Zenon DEF ParseType
    <3>2. CASE OptionalPart
      BY <3>2, Zenon DEF OptionalPart
    <3>3. CASE Branch
      BY <3>3, Zenon DEF Branch
    <3>4. CASE ParseParamName
      BY <3>4, Zenon DEF ParseParamName
    <3>5. CASE Declarations
      BY <3>5, Zenon DEF Declarations
    <3>6. CASE Primary
      BY <3>6, Zenon DEF Primary
    <3> QED
      BY <2>3, <3>1, <3>2, <3>3, <3>4, <3>5, <3>6
  <2>4. ASSUME ParseParamType PROVE UNCHANGED stream \/ \E err : advance(err)
    BY <2>4, Zenon DEF ParseParamType
  <2>5. NoToken \/ UNCHANGED stream => UNCHANGED seen
    BY DEF NoToken, stream
  <2> QED
    BY <2>1, <2>2, <2>3, <2>4, <2>5, Zenon DEF ParserStep
<1>2. CASE UNCHANGED seen
  BY <1>2
<1>3. CASE \E err : advance(err)
  BY <1>3, Advances
<1> QED
  BY <1>1, <1>2, <1>3

LEMMA StepKeeps == ASSUME ParserInv, ParserStep PROVE Kept'
<1>1. CASE ExpectToken
  BY <1>1, ExpectTokenLinks, SameNodes
<1>2. CASE ExpectName
  BY <1>2, ExpectNameLinks, SameNodes
<1>3. CASE ParseType
  BY <1>3, ParseTypeLinks, SameNodes
<1>4. CASE CallFunction
  BY <1>4, CallFunctionLinks, SameNodes
<1>5. CASE OptionalPart
  BY <1>5, OptionalPartLinks, SameNodes
<1>6. CASE Statements
  BY <1>6, StatementsLinks, SameNodes
<1>7. CASE Branch
  BY <1>7, BranchLinks, SameNodes
<1>8. CASE ParseParamType
  BY <1>8, ParseParamTypeLinks, SameNodes
<1>9. CASE ParseParamName
  BY <1>9, ParseParamNameLinks, SameNodes
<1>10. CASE FunctionBody
  BY <1>10, FunctionBodyLinks, SameNodes
<1>11. CASE Declarations
  BY <1>11, DeclarationsLinks, SameNodes
<1>12. CASE Declarator
  BY <1>12, DeclaratorLinks, SameNodes
<1>13. CASE Finish
  BY <1>13, FinishKeeps
<1>14. CASE Unary
  BY <1>14, UnaryLinks, SameNodes
<1>15. CASE Primary
  BY <1>15, PrimaryKeeps
<1>16. CASE Binary
  BY <1>16, BinaryLinks, SameNodes
<1>17. CASE Postfix
  BY <1>17, PostfixLinks, SameNodes
<1>18. CASE ReturnOperand
  BY <1>18, ReturnOperandLinks, SameNodes
<1> QED
  BY <1>1, <1>2, <1>3, <1>4, <1>5, <1>6, <1>7, <1>8, <1>9, <1>10, <1>11, <1>12, <1>13, <1>14, <1>15, <1>16, <1>17,
     <1>18 DEF ParserStep

LEMMA NeedsText == ParserStep /\ ParserInv => seen # <<>> /\ calls # <<>>
<1>1. ParserStep => calls # <<>>
  BY DEF ParserStep, ExpectToken, ExpectName, ParseType, CallFunction, OptionalPart, Statements, Branch, ParseParamType,
     ParseParamName, FunctionBody, Declarations, Declarator, Finish, Unary, Primary, Binary, Postfix, ReturnOperand,
     Doing, HasOperand
<1> QED
  BY <1>1 DEF ParserInv

LEMMA ParserStepKeeps == ParserInv /\ ParserStep => ParserInv'
<1> SUFFICES ASSUME ParserInv, ParserStep PROVE ParserInv'
  OBVIOUS
<1>1. seen # <<>> /\ IsSeq(seen)
  BY NeedsText DEF ParserInv
<1>2. IsSeq(seen') /\ seen' # <<>>
  BY <1>1, Reads
<1>3. Kept'
  BY StepKeeps
<1> QED
  BY <1>2, <1>3 DEF ParserInv, Kept

LEMMA ParserInitInv == ParserInit => ParserInv
<1> SUFFICES ASSUME ParserInit PROVE ParserInv
  OBVIOUS
<1>1. nodes = <<>> /\ parens = <<>> /\ calls = <<>> /\ seen = <<>>
  BY DEF ParserInit
<1>2. StackOK(<<>>, <<>>) /\ OneOwner(<<>>, <<>>) /\ TreeIn(<<>>)
  BY SeqNone DEF StackOK, OneOwner, OwnedOnce, HeldOnce, TreeIn
<1> QED
  BY <1>1, <1>2, SeqNone DEF ParserInv, Linked

LEMMA StartKeeps == ASSUME NEW text, NEW rest PROVE ParserInv /\ Start(text, rest) => ParserInv'
<1> SUFFICES ASSUME ParserInv, Start(text, rest) PROVE ParserInv'
  OBVIOUS
<1> DEFINE a == Frame("parse")
           cs == <<a>>
<1>1. nodes = <<>> /\ UNCHANGED <<nodes, parens>> /\ calls' = cs /\ seen' = <<Head(text)>>
  BY DEF ParserInv, Start, NoNode
<1>2. FrameOK(<<>>, a) /\ TopOK(a) /\ DOMAIN Kids(a) = {} /\ a.fn = "parse"
  BY NewFrame, FrameFields DEF ScriptNames
<1> HIDE DEF a
<1>3. IsSeq(cs) /\ DOMAIN cs = 1..1 /\ Len(cs) = 1 /\ cs[1] = a
  BY SeqOne
<1> HIDE DEF cs
<1>4. StackOK(<<>>, cs)
  <2>1. \A j \in DOMAIN cs : cs[j] = a
    BY <1>3
  <2>2. \A j \in 1..(Len(cs) - 1) : WaitsFor(cs[j], Results(cs[j + 1].fn))
    BY <1>3
  <2> QED
    BY <1>2, <1>3, <2>1, <2>2 DEF StackOK
<1>5. OneOwner(<<>>, cs)
  <2>1. HeldOnce(cs)
    BY <1>2, <1>3 DEF HeldOnce
  <2> QED
    BY <2>1, SeqNone DEF OneOwner, OwnedOnce
<1>6. IsSeq(seen') /\ seen' # <<>>
  BY <1>1, SeqOne
<1>7. Linked(nodes', calls')
  BY <1>1, <1>4, <1>5 DEF Linked
<1>8. calls' # <<>>
  BY <1>1, <1>3, SeqLen
<1> QED
  BY <1>1, <1>6, <1>7, <1>8 DEF ParserInv

LEMMA ParserStutter == ParserInv /\ UNCHANGED pvars => ParserInv'
  BY DEF ParserInv, pvars

(* After any steps on any text, also after errors, the invariant holds. *)
THEOREM ParserInvariant == ParsingSpec => []ParserInv
<1>1. ParserInit => ParserInv
  BY ParserInitInv
<1>2. ParserInv /\ [ParsingNext]_pvars => ParserInv'
  <2> SUFFICES ASSUME ParserInv, [ParsingNext]_pvars PROVE ParserInv'
    OBVIOUS
  <2>1. CASE \E t \in Texts : Start(t.given, t)
    BY <2>1, StartKeeps
  <2>2. CASE ParserStep
    BY <2>2, ParserStepKeeps
  <2>3. CASE UNCHANGED pvars
    BY <2>3, ParserStutter
  <2> QED
    BY <2>1, <2>2, <2>3 DEF ParsingNext, Ended
<1> QED
  BY <1>1, <1>2, PTL DEF ParsingSpec

(* Whatever the text and after any number of errors, every node parse() has built has the children *)
(* its kind has, each built before it, of the kinds the walks over the tree have a case for.      *)
THEOREM ParsedTreesAreOfTheGrammar == ParsingSpec => []TreeTypeOK
<1>1. ParserInv => TreeTypeOK
  <2> SUFFICES ASSUME ParserInv PROVE TreeTypeOK
    OBVIOUS
  <2>1. Len(parens) = Len(nodes) /\ TreeIn(nodes)
    BY DEF ParserInv
  <2>2. \A m : KidKind(m) = KindIn(nodes, m)
    BY DEF KidKind, KindIn
  <2> QED
    BY <2>1, <2>2 DEF TreeTypeOK, TreeIn
<1>2. ParsingSpec => []ParserInv
  BY ParserInvariant
<1> QED
  BY <1>1, <1>2, PTL

-----------------------------------------------------------------------------
(* ast_free().  The active calls go down from the root, each to the child its caller is at; a node *)
(* is freed after its children, and the owner of a freed node is freed or past it.                 *)

Gone(fr, m) == \E i \in DOMAIN fr : fr[i] = m

IsVisit(nds, v) ==
  DOMAIN v = {"node", "next"} /\ v.node \in 1..Len(nds) /\ v.next \in 1..(Len(nds[v.node].kids) + 1)

\* What the calls have behind them: the last may still be with the child it is at.
Behind(nds, w, fr) ==
  \A i \in DOMAIN w : \A k \in 1..(w[i].next - 1) :
    LET m == nds[w[i].node].kids[k]
    IN  m = 0 \/ Gone(fr, m) \/ (i < Len(w) /\ k = w[i].next - 1)

WalkOK(nds, w, fr) ==
  /\ IsSeq(w) /\ \A i \in DOMAIN w : IsVisit(nds, w[i]) /\ ~Gone(fr, w[i].node)
  /\ w # <<>> => w[1].node = Len(nds)
  /\ \A i \in 1..(Len(w) - 1) : w[i].next >= 2 /\ w[i + 1].node = nds[w[i].node].kids[w[i].next - 1]
  /\ \A i, j \in DOMAIN w : i < j => w[j].node < w[i].node
  /\ Behind(nds, w, fr)

\* The owner of a freed node is freed or past it.
OwnersPast(nds, w, fr) ==
  \A n \in DOMAIN nds : \A k \in DOMAIN nds[n].kids :
    Gone(fr, nds[n].kids[k]) => Gone(fr, n) \/ \E i \in DOMAIN w : w[i].node = n /\ k < w[i].next

GoneOK(nds, w, fr) ==
  /\ IsSeq(fr) /\ IsInjective(fr) /\ \A i \in DOMAIN fr : fr[i] \in 1..Len(nds)
  /\ \A n \in DOMAIN nds : Gone(fr, n) =>
       \A k \in DOMAIN nds[n].kids : nds[n].kids[k] = 0 \/ Gone(fr, nds[n].kids[k])
  /\ OwnersPast(nds, w, fr)
  /\ w = <<>> => Gone(fr, Len(nds))

\* The tree: each node but the root is a child of one that was built after it, once.
Tree(nds) ==
  /\ IsSeq(nds) /\ nds # <<>> /\ \A n \in DOMAIN nds : IsSeq(nds[n].kids)
  /\ Below(nds) /\ OwnedOnce(nds)
  /\ \A m \in DOMAIN nds : m = Len(nds) \/ \E n \in DOMAIN nds : \E k \in DOMAIN nds[n].kids : nds[n].kids[k] = m

Freeing(nds, w, fr) == WalkOK(nds, w, fr) /\ GoneOK(nds, w, fr)

LEMMA VisitFields ==
  ASSUME NEW nds, NEW t, IsVisit(nds, t)
  PROVE  /\ [t EXCEPT !.next = @ + 1].node = t.node /\ [t EXCEPT !.next = @ + 1].next = t.next + 1
         /\ DOMAIN [t EXCEPT !.next = @ + 1] = {"node", "next"}
  BY DEF IsVisit

\* A child that is not there.
LEMMA SkipsNull ==
  ASSUME NEW nds, Tree(nds), NEW s, IsSeq(s), NEW t, NEW fr, Freeing(nds, s \o <<t>>, fr),
         t.next <= Len(nds[t.node].kids), nds[t.node].kids[t.next] = 0,
         NEW u, u = [t EXCEPT !.next = @ + 1]
  PROVE  Freeing(nds, s \o <<u>>, fr)
<1> DEFINE w == s \o <<t>>
           z == s \o <<u>>
           l == Len(s)
<1>1. /\ l \in Nat /\ IsSeq(w) /\ Len(w) = l + 1 /\ DOMAIN w = 1..(l + 1) /\ w # <<>>
      /\ w[l + 1] = t /\ \A i \in 1..l : w[i] = s[i]
  BY SeqPush
<1>2. /\ IsSeq(z) /\ Len(z) = l + 1 /\ DOMAIN z = 1..(l + 1) /\ z # <<>>
      /\ z[l + 1] = u /\ \A i \in 1..l : z[i] = s[i]
  BY SeqPush
<1>3. WalkOK(nds, w, fr) /\ GoneOK(nds, w, fr)
  BY DEF Freeing
<1> HIDE DEF w, z, l
<1>4. l + 1 \in DOMAIN w /\ \A i \in 1..(l + 1) : i \in 1..l \/ i = l + 1
  BY <1>1
<1>5. IsVisit(nds, t) /\ ~Gone(fr, t.node)
  BY <1>1, <1>3, <1>4 DEF WalkOK
<1>6. u.node = t.node /\ u.next = t.next + 1 /\ DOMAIN u = {"node", "next"} /\ t.next \in Nat \ {0}
  BY <1>5, VisitFields DEF IsVisit
<1>7. IsVisit(nds, u)
  <2>1. Len(nds[t.node].kids) \in Nat
    BY <1>5, SeqLen DEF Tree, IsVisit
  <2> QED
    BY <1>5, <1>6, <2>1 DEF IsVisit
<1>8. \A i \in DOMAIN z : IsVisit(nds, z[i]) /\ ~Gone(fr, z[i].node)
  BY <1>1, <1>2, <1>3, <1>4, <1>5, <1>6, <1>7 DEF WalkOK
<1>9. \A i \in 1..(l + 1) : z[i].node = w[i].node /\ (i # l + 1 => z[i].next = w[i].next)
  BY <1>1, <1>2, <1>4, <1>6
<1>10. z[1].node = Len(nds)
  BY <1>1, <1>3, <1>9 DEF WalkOK
<1>11. \A i \in 1..(Len(z) - 1) : z[i].next >= 2 /\ z[i + 1].node = nds[z[i].node].kids[z[i].next - 1]
  <2> SUFFICES ASSUME NEW i \in 1..l PROVE z[i].next >= 2 /\ z[i + 1].node = nds[z[i].node].kids[z[i].next - 1]
    BY <1>1, <1>2
  <2>1. i \in 1..(l + 1) /\ i + 1 \in 1..(l + 1) /\ i # l + 1 /\ i \in 1..(Len(w) - 1)
    BY <1>1
  <2>2. w[i].next >= 2 /\ w[i + 1].node = nds[w[i].node].kids[w[i].next - 1]
    BY <1>3, <2>1 DEF WalkOK
  <2> QED
    BY <1>9, <2>1, <2>2
<1>12. \A i, j \in DOMAIN z : i < j => z[j].node < z[i].node
  BY <1>1, <1>2, <1>3, <1>9 DEF WalkOK
<1>13. Behind(nds, z, fr)
  <2> SUFFICES ASSUME NEW i \in 1..(l + 1), NEW k \in 1..(z[i].next - 1)
               PROVE  \/ nds[z[i].node].kids[k] = 0 \/ Gone(fr, nds[z[i].node].kids[k])
                      \/ (i < l + 1 /\ k = z[i].next - 1)
    BY <1>2, Zenon DEF Behind
  <2>1. \A j \in 1..(l + 1) : \A h \in 1..(w[j].next - 1) :
          \/ nds[w[j].node].kids[h] = 0 \/ Gone(fr, nds[w[j].node].kids[h])
          \/ (j < l + 1 /\ h = w[j].next - 1)
    BY <1>1, <1>3, Zenon DEF WalkOK, Behind
  <2>2. CASE i # l + 1
    BY <1>9, <2>1, <2>2
  <2>3. CASE i = l + 1
    <3>1. z[i] = u /\ w[i] = t
      BY <1>1, <1>2, <2>3
    <3>2. k \in 1..t.next
      BY <1>6, <3>1
    <3>3. k = t.next \/ k \in 1..(t.next - 1)
      BY <1>6, <3>2
    <3>4. ASSUME k \in 1..(t.next - 1) PROVE nds[t.node].kids[k] = 0 \/ Gone(fr, nds[t.node].kids[k])
      <4>1. ~(i < l + 1)
        BY <1>1, <2>3
      <4> QED
        BY <2>1, <3>1, <3>4, <4>1
    <3> QED
      BY <1>6, <3>1, <3>3, <3>4
  <2> QED
    BY <2>2, <2>3
<1>14. WalkOK(nds, z, fr)
  BY <1>2, <1>8, <1>10, <1>11, <1>12, <1>13 DEF WalkOK
<1>15. OwnersPast(nds, z, fr)
  <2> SUFFICES ASSUME NEW n \in DOMAIN nds, NEW k \in DOMAIN nds[n].kids, Gone(fr, nds[n].kids[k]), ~Gone(fr, n)
               PROVE  \E i \in DOMAIN z : z[i].node = n /\ k < z[i].next
    BY DEF OwnersPast
  <2>1. PICK i \in DOMAIN w : w[i].node = n /\ k < w[i].next
    BY <1>3, Zenon DEF GoneOK, OwnersPast
  <2>2. CASE i # l + 1
    BY <1>1, <1>2, <1>9, <2>1, <2>2
  <2>3. CASE i = l + 1
    <3>1. IsSeq(nds[n].kids)
      BY DEF Tree
    <3>2. k \in Nat
      BY <3>1, SeqLen
    <3>3. k < t.next
      BY <1>1, <2>1, <2>3
    <3>4. k < u.next
      BY <1>6, <3>2, <3>3
    <3> QED
      BY <1>1, <1>2, <1>6, <2>1, <2>3, <3>4
  <2> QED
    BY <2>2, <2>3
<1>16. GoneOK(nds, z, fr)
  BY <1>2, <1>3, <1>15 DEF GoneOK
<1> QED
  BY <1>14, <1>16 DEF Freeing, z

\* The child the call is at was not freed: its owner is this call's node, which is at it only now.
LEMMA ChildThere ==
  ASSUME NEW nds, Tree(nds), NEW w, NEW fr, Freeing(nds, w, fr), NEW l \in DOMAIN w, l = Len(w),
         NEW k, k = w[l].next, k \in DOMAIN nds[w[l].node].kids, NEW m, m = nds[w[l].node].kids[k], m # 0
  PROVE  ~Gone(fr, m) /\ m \in 1..Len(nds) /\ \A i \in DOMAIN w : m < w[i].node
<1>1. WalkOK(nds, w, fr) /\ GoneOK(nds, w, fr)
  BY DEF Freeing
<1>2. \A i \in DOMAIN w : IsVisit(nds, w[i]) /\ ~Gone(fr, w[i].node)
  BY <1>1 DEF WalkOK
<1>3. IsSeq(w) /\ Len(w) \in Nat /\ DOMAIN w = 1..Len(w) /\ IsSeq(nds) /\ Len(nds) \in Nat /\ DOMAIN nds = 1..Len(nds)
  BY <1>1, SeqLen DEF WalkOK, Tree
<1>4. \A i \in DOMAIN w : w[i].node \in 1..Len(nds)
  BY <1>2 DEF IsVisit
<1>5. m \in 0..(w[l].node - 1)
  BY <1>3, <1>4 DEF Tree, Below
<1>6. m \in 1..Len(nds) /\ m < w[l].node
  BY <1>3, <1>4, <1>5
<1>7. \A i \in DOMAIN w : w[l].node <= w[i].node
  <2> SUFFICES ASSUME NEW i \in DOMAIN w PROVE w[l].node <= w[i].node
    OBVIOUS
  <2>1. i = l \/ i < l
    BY <1>3
  <2>2. i < l => w[l].node < w[i].node
    BY <1>1 DEF WalkOK
  <2>3. w[l].node \in Nat /\ w[i].node \in Nat
    BY <1>3, <1>4
  <2> QED
    BY <2>1, <2>2, <2>3
<1>8. \A i \in DOMAIN w : m < w[i].node
  <2> SUFFICES ASSUME NEW i \in DOMAIN w PROVE m < w[i].node
    OBVIOUS
  <2>1. w[l].node \in Nat /\ w[i].node \in Nat /\ m \in Nat /\ w[l].node <= w[i].node
    BY <1>3, <1>4, <1>6, <1>7
  <2> QED
    BY <1>6, <2>1
<1>9. ASSUME Gone(fr, m) PROVE FALSE
  <2>1. w[l].node \in DOMAIN nds
    BY <1>3, <1>4
  <2>2. ~Gone(fr, w[l].node)
    BY <1>2
  <2>3. PICK i \in DOMAIN w : w[i].node = w[l].node /\ k < w[i].next
    BY <1>1, <1>9, <2>1, <2>2, Zenon DEF GoneOK, OwnersPast
  <2>4. w[l].next \in Nat /\ i # l
    <3>1. w[l].next \in Nat
      BY <1>2 DEF IsVisit
    <3> QED
      BY <2>3, <3>1
  <2>5. i < l
    BY <1>3, <2>4
  <2>6. w[l].node < w[i].node
    BY <1>1, <2>5 DEF WalkOK
  <2>7. w[l].node \in Nat
    BY <1>3, <1>4
  <2> QED
    BY <2>3, <2>6, <2>7
<1> QED
  BY <1>6, <1>8, <1>9

LEMMA Descends ==
  ASSUME NEW nds, Tree(nds), NEW s, IsSeq(s), NEW t, NEW fr, Freeing(nds, s \o <<t>>, fr),
         t.next <= Len(nds[t.node].kids), nds[t.node].kids[t.next] # 0,
         NEW u, u = [t EXCEPT !.next = @ + 1], NEW c, c = Visit(nds[t.node].kids[t.next])
  PROVE  Freeing(nds, (s \o <<u>>) \o <<c>>, fr)
<1> DEFINE w == s \o <<t>>
           y == s \o <<u>>
           z == y \o <<c>>
           l == Len(s)
           m == nds[t.node].kids[t.next]
<1>1. /\ l \in Nat /\ IsSeq(w) /\ Len(w) = l + 1 /\ DOMAIN w = 1..(l + 1) /\ w # <<>>
      /\ w[l + 1] = t /\ \A i \in 1..l : w[i] = s[i]
  BY SeqPush
<1>2. IsSeq(y) /\ Len(y) = l + 1 /\ y[l + 1] = u /\ \A i \in 1..l : y[i] = s[i]
  BY SeqPush
<1>3. WalkOK(nds, w, fr) /\ GoneOK(nds, w, fr) /\ Freeing(nds, w, fr)
  BY DEF Freeing
<1>4. c = Visit(m) /\ m # 0
  OBVIOUS
<1> HIDE DEF w, y, l
<1>5. /\ IsSeq(z) /\ Len(z) = Len(y) + 1 /\ DOMAIN z = 1..(Len(y) + 1) /\ z # <<>>
      /\ z[Len(y) + 1] = c /\ \A i \in 1..Len(y) : z[i] = y[i]
  <2>1. IsSeq(y)
    BY <1>2
  <2> HIDE DEF m
  <2> QED
    BY <2>1, SeqPush
<1> HIDE DEF z
<1>6. /\ IsSeq(z) /\ Len(z) = l + 2 /\ DOMAIN z = 1..(l + 2) /\ z # <<>>
      /\ z[l + 2] = c /\ z[l + 1] = u /\ \A i \in 1..l : z[i] = w[i]
  <2>1. Len(y) + 1 = l + 2 /\ l + 1 \in 1..Len(y) /\ \A i \in 1..l : i \in 1..Len(y)
    BY <1>1, <1>2
  <2> QED
    BY <1>1, <1>2, <1>5, <2>1
<1>7. /\ l + 1 \in DOMAIN w /\ \A i \in 1..(l + 1) : i \in 1..l \/ i = l + 1
      /\ \A i \in 1..(l + 2) : i \in 1..l \/ i = l + 1 \/ i = l + 2
  BY <1>1
<1>8. IsVisit(nds, t) /\ ~Gone(fr, t.node)
  BY <1>1, <1>3, <1>7 DEF WalkOK
<1>9. u.node = t.node /\ u.next = t.next + 1 /\ DOMAIN u = {"node", "next"} /\ t.next \in Nat \ {0}
  BY <1>8, VisitFields DEF IsVisit
<1>10. /\ IsSeq(nds) /\ Len(nds) \in Nat /\ DOMAIN nds = 1..Len(nds) /\ t.node \in DOMAIN nds /\ IsSeq(nds[t.node].kids)
       /\ Len(nds[t.node].kids) \in Nat /\ DOMAIN nds[t.node].kids = 1..Len(nds[t.node].kids)
  <2>1. IsSeq(nds) /\ Len(nds) \in Nat /\ DOMAIN nds = 1..Len(nds)
    BY SeqLen DEF Tree
  <2>2. t.node \in DOMAIN nds
    BY <1>8, <2>1 DEF IsVisit
  <2>3. IsSeq(nds[t.node].kids)
    BY <2>2 DEF Tree
  <2> QED
    BY <2>1, <2>2, <2>3, SeqLen
<1>11. t.next \in DOMAIN nds[t.node].kids
  BY <1>9, <1>10
<1>12. ~Gone(fr, m) /\ m \in 1..Len(nds) /\ \A i \in DOMAIN w : m < w[i].node
  <2>1. l + 1 \in DOMAIN w /\ l + 1 = Len(w) /\ t.next = w[l + 1].next /\ t.next \in DOMAIN nds[w[l + 1].node].kids
        /\ m = nds[w[l + 1].node].kids[t.next] /\ m # 0
    BY <1>1, <1>4, <1>7, <1>11
  <2> QED
    BY <1>3, <2>1, ChildThere
<1> HIDE DEF m
<1>13. c.node = m /\ c.next = 1 /\ DOMAIN c = {"node", "next"}
  BY <1>4 DEF Visit
<1>14. IsVisit(nds, u)
  BY <1>8, <1>9, <1>10 DEF IsVisit
<1>15. IsVisit(nds, c)
  <2>1. IsSeq(nds[m].kids)
    BY <1>10, <1>12 DEF Tree
  <2>2. Len(nds[m].kids) \in Nat
    BY <2>1, SeqLen
  <2> QED
    BY <1>12, <1>13, <2>2 DEF IsVisit
<1>16. \A i \in DOMAIN z : IsVisit(nds, z[i]) /\ ~Gone(fr, z[i].node)
  <2>1. \A i \in 1..l : IsVisit(nds, w[i]) /\ ~Gone(fr, w[i].node)
    BY <1>1, <1>3 DEF WalkOK
  <2> QED
    BY <1>6, <1>7, <1>8, <1>9, <1>12, <1>13, <1>14, <1>15, <2>1
<1>17. \A i \in 1..(l + 1) : z[i].node = w[i].node /\ (i # l + 1 => z[i].next = w[i].next)
  BY <1>1, <1>6, <1>7, <1>9
<1>18. z[1].node = Len(nds)
  BY <1>1, <1>3, <1>17 DEF WalkOK
<1>19. \A i \in 1..(Len(z) - 1) : z[i].next >= 2 /\ z[i + 1].node = nds[z[i].node].kids[z[i].next - 1]
  <2> SUFFICES ASSUME NEW i \in 1..(l + 1) PROVE z[i].next >= 2 /\ z[i + 1].node = nds[z[i].node].kids[z[i].next - 1]
    BY <1>1, <1>6
  <2>1. CASE i # l + 1
    <3>1. i \in 1..(l + 1) /\ i + 1 \in 1..(l + 1) /\ i \in 1..(Len(w) - 1)
      BY <1>1, <2>1
    <3>2. w[i].next >= 2 /\ w[i + 1].node = nds[w[i].node].kids[w[i].next - 1]
      BY <1>3, <3>1 DEF WalkOK
    <3> QED
      BY <1>17, <2>1, <3>1, <3>2
  <2>2. CASE i = l + 1
    <3>1. i + 1 = l + 2 /\ z[i] = u /\ z[i + 1] = c
      BY <1>1, <1>6, <2>2
    <3>2. u.next >= 2 /\ u.next - 1 = t.next
      BY <1>9
    <3> QED
      BY <1>9, <1>13, <3>1, <3>2 DEF m
  <2> QED
    BY <2>1, <2>2
<1>20. \A i, j \in DOMAIN z : i < j => z[j].node < z[i].node
  <2> SUFFICES ASSUME NEW i \in 1..(l + 2), NEW j \in 1..(l + 2), i < j PROVE z[j].node < z[i].node
    BY <1>6
  <2>1. CASE j # l + 2
    <3>1. i \in 1..(l + 1) /\ j \in 1..(l + 1)
      BY <1>1, <2>1
    <3>2. w[j].node < w[i].node
      BY <1>1, <1>3, <3>1 DEF WalkOK
    <3> QED
      BY <1>17, <3>1, <3>2
  <2>2. CASE j = l + 2
    <3>1. i \in 1..(l + 1) /\ z[j] = c
      BY <1>1, <1>6, <2>2
    <3>2. m < w[i].node
      BY <1>1, <1>12, <3>1
    <3> QED
      BY <1>13, <1>17, <3>1, <3>2
  <2> QED
    BY <2>1, <2>2
<1>21. Behind(nds, z, fr)
  <2> SUFFICES ASSUME NEW i \in 1..(l + 2), NEW k \in 1..(z[i].next - 1)
               PROVE  \/ nds[z[i].node].kids[k] = 0 \/ Gone(fr, nds[z[i].node].kids[k])
                      \/ (i < l + 2 /\ k = z[i].next - 1)
    BY <1>6, Zenon DEF Behind
  <2>1. \A j \in 1..(l + 1) : \A h \in 1..(w[j].next - 1) :
          \/ nds[w[j].node].kids[h] = 0 \/ Gone(fr, nds[w[j].node].kids[h])
          \/ (j < l + 1 /\ h = w[j].next - 1)
    BY <1>1, <1>3, Zenon DEF WalkOK, Behind
  <2>2. CASE i \in 1..l
    <3>1. i \in 1..(l + 1) /\ i # l + 1 /\ i < l + 2
      BY <1>1, <2>2
    <3> QED
      BY <1>17, <2>1, <3>1
  <2>3. CASE i = l + 1
    <3>1. z[i] = u /\ w[i] = t /\ i < l + 2 /\ ~(i < l + 1) /\ i \in 1..(l + 1)
      BY <1>1, <1>6, <2>3
    <3>2. k = u.next - 1 \/ k \in 1..(t.next - 1)
      BY <1>9, <3>1
    <3>3. ASSUME k \in 1..(t.next - 1) PROVE nds[t.node].kids[k] = 0 \/ Gone(fr, nds[t.node].kids[k])
      <4>1. k \in 1..(w[i].next - 1)
        BY <3>1, <3>3
      <4> QED
        BY <2>1, <3>1, <4>1
    <3>4. z[i].node = t.node /\ z[i].next = u.next
      BY <1>9, <3>1
    <3> QED
      BY <3>1, <3>2, <3>3, <3>4
  <2>4. CASE i = l + 2
    <3>1. z[i].next = 1
      BY <1>6, <1>13, <2>4
    <3> QED
      BY <3>1
  <2> QED
    BY <1>7, <2>2, <2>3, <2>4
<1>22. WalkOK(nds, z, fr)
  BY <1>6, <1>16, <1>18, <1>19, <1>20, <1>21 DEF WalkOK
<1>23. OwnersPast(nds, z, fr)
  <2> SUFFICES ASSUME NEW n \in DOMAIN nds, NEW k \in DOMAIN nds[n].kids, Gone(fr, nds[n].kids[k]), ~Gone(fr, n)
               PROVE  \E i \in DOMAIN z : z[i].node = n /\ k < z[i].next
    BY DEF OwnersPast
  <2>1. PICK i \in DOMAIN w : w[i].node = n /\ k < w[i].next
    BY <1>3, Zenon DEF GoneOK, OwnersPast
  <2>2. i \in 1..(l + 2) /\ i \in 1..(l + 1)
    BY <1>1
  <2>3. CASE i # l + 1
    BY <1>6, <1>17, <2>1, <2>2, <2>3
  <2>4. CASE i = l + 1
    <3>1. IsSeq(nds[n].kids)
      BY DEF Tree
    <3>2. k \in Nat
      BY <3>1, SeqLen
    <3>3. k < t.next
      BY <1>1, <2>1, <2>4
    <3>4. k < u.next
      BY <1>9, <3>2, <3>3
    <3> QED
      BY <1>1, <1>6, <1>9, <2>1, <2>2, <2>4, <3>4
  <2> QED
    BY <2>3, <2>4
<1>24. GoneOK(nds, z, fr)
  BY <1>3, <1>6, <1>23 DEF GoneOK
<1> QED
  BY <1>22, <1>24 DEF Freeing, z, y

\* A node whose children are freed.
LEMMA FreesTop ==
  ASSUME NEW nds, Tree(nds), NEW s, IsSeq(s), NEW t, NEW fr, Freeing(nds, s \o <<t>>, fr),
         t.next > Len(nds[t.node].kids), NEW all, all = Append(fr, t.node)
  PROVE  Freeing(nds, s, all)
<1> DEFINE w == s \o <<t>>
           l == Len(s)
           n0 == t.node
<1>1. /\ l \in Nat /\ IsSeq(w) /\ Len(w) = l + 1 /\ DOMAIN w = 1..(l + 1) /\ w # <<>>
      /\ w[l + 1] = t /\ (\A i \in 1..l : w[i] = s[i]) /\ DOMAIN s = 1..l
  BY SeqPush
<1>2. WalkOK(nds, w, fr) /\ GoneOK(nds, w, fr)
  BY DEF Freeing
<1>3. s = <<>> <=> l = 0
  BY SeqLen
<1> HIDE DEF w, l
<1>4. l + 1 \in DOMAIN w /\ (\A i \in 1..(l + 1) : i \in 1..l \/ i = l + 1) /\ \A i \in 1..l : i \in 1..(l + 1) /\ i < l + 1
  BY <1>1
<1>5. IsVisit(nds, t) /\ ~Gone(fr, n0)
  BY <1>1, <1>2, <1>4 DEF WalkOK
<1>6. /\ IsSeq(nds) /\ Len(nds) \in Nat /\ DOMAIN nds = 1..Len(nds) /\ n0 \in DOMAIN nds /\ IsSeq(nds[n0].kids)
      /\ Len(nds[n0].kids) \in Nat /\ DOMAIN nds[n0].kids = 1..Len(nds[n0].kids)
  <2>1. IsSeq(nds) /\ Len(nds) \in Nat /\ DOMAIN nds = 1..Len(nds)
    BY SeqLen DEF Tree
  <2>2. n0 \in DOMAIN nds
    BY <1>5, <2>1 DEF IsVisit
  <2>3. IsSeq(nds[n0].kids)
    BY <2>2 DEF Tree
  <2> QED
    BY <2>1, <2>2, <2>3, SeqLen
<1>7. t.next - 1 = Len(nds[n0].kids) /\ t.next \in Nat
  BY <1>5, <1>6 DEF IsVisit
<1>8. IsSeq(fr) /\ \A i \in DOMAIN fr : fr[i] \in 1..Len(nds)
  BY <1>2 DEF GoneOK
<1>9. /\ IsSeq(all) /\ Len(fr) \in Nat /\ DOMAIN fr = 1..Len(fr) /\ DOMAIN all = 1..(Len(fr) + 1)
      /\ \A i \in 1..(Len(fr) + 1) : all[i] = IF i <= Len(fr) THEN fr[i] ELSE n0
  BY <1>8, SeqAppend
<1> DEFINE f == Len(fr)
<1>10. f \in Nat /\ DOMAIN fr = 1..f /\ DOMAIN all = 1..(f + 1) /\ all[f + 1] = n0 /\ \A i \in 1..f : all[i] = fr[i]
  BY <1>9
<1> HIDE DEF f
<1>11. (\A i \in 1..(f + 1) : i \in 1..f \/ i = f + 1) /\ (\A i \in 1..f : i \in 1..(f + 1)) /\ f + 1 \in 1..(f + 1)
  BY <1>10
<1>12. \A m : Gone(all, m) <=> Gone(fr, m) \/ m = n0
  BY <1>10, <1>11, Zenon DEF Gone
<1>13. \A k \in DOMAIN nds[n0].kids : nds[n0].kids[k] = 0 \/ Gone(fr, nds[n0].kids[k])
  <2> SUFFICES ASSUME NEW k \in DOMAIN nds[n0].kids PROVE nds[n0].kids[k] = 0 \/ Gone(fr, nds[n0].kids[k])
    OBVIOUS
  <2>1. k \in 1..(w[l + 1].next - 1)
    BY <1>1, <1>6, <1>7
  <2>2. \/ nds[w[l + 1].node].kids[k] = 0 \/ Gone(fr, nds[w[l + 1].node].kids[k])
        \/ (l + 1 < Len(w) /\ k = w[l + 1].next - 1)
    BY <1>2, <1>4, <2>1, Zenon DEF WalkOK, Behind
  <2> QED
    BY <1>1, <2>2
<1>14. \A i \in 1..l : w[i].node # n0
  <2> SUFFICES ASSUME NEW i \in 1..l PROVE w[i].node # n0
    OBVIOUS
  <2>1. w[l + 1].node < w[i].node
    BY <1>1, <1>2, <1>4 DEF WalkOK
  <2>2. n0 \in Nat
    BY <1>6
  <2> QED
    BY <1>1, <2>1, <2>2
<1>15. WalkOK(nds, s, all)
  <2>1. \A i \in DOMAIN s : IsVisit(nds, s[i]) /\ ~Gone(all, s[i].node)
    BY <1>1, <1>2, <1>4, <1>12, <1>14 DEF WalkOK
  <2>2. s # <<>> => s[1].node = Len(nds)
    <3>1. s # <<>> => 1 \in 1..l
      BY <1>1, <1>3
    <3> QED
      BY <1>1, <1>2, <3>1 DEF WalkOK
  <2>3. \A i \in 1..(l - 1) : s[i].next >= 2 /\ s[i + 1].node = nds[s[i].node].kids[s[i].next - 1]
    <3> SUFFICES ASSUME NEW i \in 1..(l - 1)
                 PROVE  s[i].next >= 2 /\ s[i + 1].node = nds[s[i].node].kids[s[i].next - 1]
      OBVIOUS
    <3>1. i \in 1..l /\ i + 1 \in 1..l /\ i \in 1..(Len(w) - 1)
      BY <1>1
    <3>2. w[i].next >= 2 /\ w[i + 1].node = nds[w[i].node].kids[w[i].next - 1]
      BY <1>2, <3>1 DEF WalkOK
    <3> QED
      BY <1>1, <3>1, <3>2
  <2>4. \A i, j \in DOMAIN s : i < j => s[j].node < s[i].node
    BY <1>1, <1>2, <1>4 DEF WalkOK
  <2>5. Behind(nds, s, all)
    <3> SUFFICES ASSUME NEW i \in 1..l, NEW k \in 1..(s[i].next - 1)
                 PROVE  \/ nds[s[i].node].kids[k] = 0 \/ Gone(all, nds[s[i].node].kids[k])
                        \/ (i < Len(s) /\ k = s[i].next - 1)
      BY <1>1, Zenon DEF Behind
    <3>1. w[i] = s[i] /\ i \in DOMAIN w /\ k \in 1..(w[i].next - 1)
      BY <1>1, <1>4
    <3>2. \/ nds[w[i].node].kids[k] = 0 \/ Gone(fr, nds[w[i].node].kids[k])
          \/ (i < Len(w) /\ k = w[i].next - 1)
      BY <1>2, <3>1, Zenon DEF WalkOK, Behind
    <3>3. CASE k = w[i].next - 1 /\ i < Len(w)
      <4>1. i = l \/ i < l
        BY <1>1
      <4>2. CASE i = l
        <5>1. i \in 1..(Len(w) - 1)
          BY <1>1
        <5>2. w[i + 1].node = nds[w[i].node].kids[w[i].next - 1]
          BY <1>2, <5>1 DEF WalkOK
        <5>3. n0 = nds[s[i].node].kids[k]
          BY <1>1, <3>1, <3>3, <4>2, <5>2
        <5> QED
          BY <1>12, <5>3
      <4>3. CASE i < l
        BY <3>1, <3>3, <4>3 DEF l
      <4> QED
        BY <4>1, <4>2, <4>3
    <3> QED
      BY <1>12, <3>1, <3>2, <3>3
  <2>6. \A i \in 1..(Len(s) - 1) : s[i].next >= 2 /\ s[i + 1].node = nds[s[i].node].kids[s[i].next - 1]
    BY <2>3 DEF l
  <2> QED
    BY <2>1, <2>2, <2>4, <2>5, <2>6 DEF WalkOK
<1>16. IsInjective(all)
  <2> SUFFICES ASSUME NEW i \in 1..(f + 1), NEW j \in 1..(f + 1), all[i] = all[j] PROVE i = j
    BY <1>10, Zenon DEF IsInjective
  <2>1. \A h \in 1..f : fr[h] # n0
    BY <1>5, <1>10 DEF Gone
  <2>2. \A g, h \in 1..f : fr[g] = fr[h] => g = h
    BY <1>2, <1>10 DEF GoneOK, IsInjective
  <2> QED
    BY <1>10, <1>11, <2>1, <2>2
<1>17. \A i \in DOMAIN all : all[i] \in 1..Len(nds)
  BY <1>6, <1>8, <1>10, <1>11
<1>18. \A n \in DOMAIN nds : Gone(all, n) =>
         \A k \in DOMAIN nds[n].kids : nds[n].kids[k] = 0 \/ Gone(all, nds[n].kids[k])
  <2>1. \A n \in DOMAIN nds : Gone(fr, n) =>
          \A k \in DOMAIN nds[n].kids : nds[n].kids[k] = 0 \/ Gone(fr, nds[n].kids[k])
    BY <1>2 DEF GoneOK
  <2> QED
    BY <1>12, <1>13, <2>1
<1>19. OwnersPast(nds, s, all)
  <2> SUFFICES ASSUME NEW n \in DOMAIN nds, NEW k \in DOMAIN nds[n].kids, Gone(all, nds[n].kids[k]), ~Gone(all, n)
               PROVE  \E i \in DOMAIN s : s[i].node = n /\ k < s[i].next
    BY DEF OwnersPast
  <2>1. n # n0 /\ ~Gone(fr, n)
    BY <1>12
  <2>2. CASE Gone(fr, nds[n].kids[k])
    <3>1. PICK i \in DOMAIN w : w[i].node = n /\ k < w[i].next
      BY <1>2, <2>1, <2>2, Zenon DEF GoneOK, OwnersPast
    <3>2. i \in 1..l
      BY <1>1, <1>4, <2>1, <3>1
    <3> QED
      BY <1>1, <3>1, <3>2
  <2>3. CASE nds[n].kids[k] = n0
    <3>1. n0 \in 0..(n - 1) /\ n \in 1..Len(nds)
      BY <1>6, <2>3 DEF Tree, Below
    <3>2. l # 0
      <4>1. ASSUME l = 0 PROVE FALSE
        <5>1. w[1].node = Len(nds) /\ w[1] = t
          BY <1>1, <1>2, <4>1 DEF WalkOK
        <5> QED
          BY <1>6, <3>1, <5>1
      <4> QED
        BY <4>1
    <3>3. l \in 1..(Len(w) - 1) /\ l \in 1..l /\ l \in DOMAIN w
      BY <1>1, <3>2
    <3>4. w[l].next >= 2 /\ w[l + 1].node = nds[w[l].node].kids[w[l].next - 1]
      BY <1>2, <3>3 DEF WalkOK
    <3>5. IsVisit(nds, w[l])
      BY <1>2, <3>3 DEF WalkOK
    <3> DEFINE o == w[l].node
               j == w[l].next - 1
    <3>6. o \in DOMAIN nds /\ j \in DOMAIN nds[o].kids /\ j < w[l].next
      <4>1. o \in DOMAIN nds
        BY <1>6, <3>5 DEF IsVisit
      <4>2. IsSeq(nds[o].kids)
        BY <4>1 DEF Tree
      <4>3. Len(nds[o].kids) \in Nat /\ DOMAIN nds[o].kids = 1..Len(nds[o].kids)
        BY <4>2, SeqLen
      <4>4. w[l].next \in 1..(Len(nds[o].kids) + 1)
        BY <3>5 DEF IsVisit
      <4> QED
        BY <3>4, <4>1, <4>3, <4>4
    <3>7. nds[o].kids[j] = nds[n].kids[k] /\ nds[o].kids[j] # 0
      <4>1. nds[o].kids[j] = n0
        BY <1>1, <3>4
      <4>2. n0 # 0
        BY <1>6
      <4> QED
        BY <2>3, <4>1, <4>2
    <3> HIDE DEF o, j
    <3>8. o = n /\ j = k
      BY <3>6, <3>7 DEF Tree, OwnedOnce
    <3> QED
      BY <1>1, <3>3, <3>6, <3>8 DEF o
  <2> QED
    BY <1>12, <2>2, <2>3
<1>20. s = <<>> => Gone(all, Len(nds))
  <2>1. ASSUME s = <<>> PROVE n0 = Len(nds)
    <3>1. l + 1 = 1
      BY <1>3, <2>1
    <3> QED
      BY <1>1, <1>2, <3>1 DEF WalkOK
  <2> QED
    BY <1>12, <2>1
<1> QED
  BY <1>9, <1>15, <1>16, <1>17, <1>18, <1>19, <1>20 DEF Freeing, GoneOK

\* When the last call has returned nothing is left: a node that is not freed would have an owner that is not.
LEMMA NothingLeft ==
  ASSUME NEW nds, Tree(nds), NEW fr, Freeing(nds, <<>>, fr)
  PROVE  \A m \in DOMAIN nds : Gone(fr, m)
<1> DEFINE T == {m \in 1..Len(nds) : ~Gone(fr, m)}
<1>1. IsSeq(nds) /\ Len(nds) \in Nat /\ DOMAIN nds = 1..Len(nds)
  BY SeqLen DEF Tree
<1>2. GoneOK(nds, <<>>, fr)
  BY DEF Freeing
<1>3. ASSUME T # {} PROVE FALSE
  <2>1. T \in SUBSET (1..Len(nds))
    OBVIOUS
  <2>2. PICK m \in T : \A j \in T : m >= j
    <3> HIDE DEF T
    <3> QED
      BY <1>1, <1>3, <2>1, Greatest
  <2>3. m \in DOMAIN nds /\ ~Gone(fr, m)
    BY <1>1
  <2>4. m # Len(nds)
    BY <1>2, <2>3 DEF GoneOK
  <2>5. PICK n \in DOMAIN nds : \E k \in DOMAIN nds[n].kids : nds[n].kids[k] = m
    BY <2>3, <2>4 DEF Tree
  <2>6. PICK k \in DOMAIN nds[n].kids : nds[n].kids[k] = m
    BY <2>5
  <2>7. m \in 0..(n - 1)
    BY <2>6 DEF Tree, Below
  <2>8. n \in Nat /\ m \in Nat /\ m < n /\ m # 0 /\ n \in 1..Len(nds)
    BY <1>1, <2>3, <2>7
  <2>9. Gone(fr, n)
    <3>1. ~(m >= n)
      BY <2>8
    <3>2. n \notin T
      BY <2>2, <3>1
    <3> QED
      BY <2>8, <3>2
  <2>10. nds[n].kids[k] = 0 \/ Gone(fr, nds[n].kids[k])
    BY <1>2, <2>9 DEF GoneOK
  <2> QED
    BY <2>3, <2>6, <2>8, <2>10
<1> QED
  BY <1>1, <1>3

FreeingInv ==
  /\ ParserInv
  /\ \/ walk = <<>> /\ freed = <<>>
     \/ Parsed /\ Freeing(nodes, walk, freed)

LEMMA ParsedTree == ASSUME ParserInv, Parsed PROVE Tree(nodes)
<1>1. IsSeq(nodes) /\ nodes # <<>> /\ TreeIn(nodes) /\ OneOwner(nodes, <<>>)
  BY DEF ParserInv, Parsed, Linked
<1>2. \A n \in DOMAIN nodes : IsSeq(nodes[n].kids)
  BY <1>1, Zenon DEF TreeIn, IsSeq
<1>3. Below(nodes) /\ OwnedOnce(nodes)
  BY <1>1, TreeBelow DEF OneOwner
<1>4. \A m \in DOMAIN nodes :
        m = Len(nodes) \/ \E n \in DOMAIN nodes : \E k \in DOMAIN nodes[n].kids : nodes[n].kids[k] = m
  <2>1. \A m : ~Held(<<>>, m)
    BY SeqNone DEF Held
  <2> QED
    BY <1>1, <2>1 DEF OneOwner, Owned, Has, Kids
<1> QED
  BY <1>1, <1>2, <1>3, <1>4 DEF Tree

LEMMA FreeRootKeeps == ASSUME FreeingInv, FreeRoot PROVE Freeing(nodes, walk', freed')
<1> DEFINE v == Visit(Len(nodes))
           w == <<v>>
<1>1. walk' = w /\ freed' = <<>> /\ Tree(nodes)
  BY ParsedTree DEF FreeRoot, FreeingInv
<1>2. v.node = Len(nodes) /\ v.next = 1 /\ DOMAIN v = {"node", "next"}
  BY DEF Visit
<1>3. IsSeq(nodes) /\ Len(nodes) \in Nat \ {0} /\ DOMAIN nodes = 1..Len(nodes)
  BY <1>1, SeqLen DEF Tree
<1>4. Len(nodes) \in DOMAIN nodes
  BY <1>3
<1>5. Len(nodes[Len(nodes)].kids) \in Nat
  BY <1>1, <1>4, SeqLen DEF Tree
<1> HIDE DEF v
<1>6. IsSeq(w) /\ Len(w) = 1 /\ w[1] = v /\ DOMAIN w = 1..1 /\ w # <<>>
  BY SeqOne, SeqNone
<1> HIDE DEF w
<1>7. \A m : ~Gone(<<>>, m)
  BY SeqNone DEF Gone
<1>8. IsVisit(nodes, v)
  BY <1>2, <1>3, <1>4, <1>5 DEF IsVisit
<1>9. \A i \in DOMAIN w : i = 1 /\ w[i] = v
  BY <1>6
<1>10. WalkOK(nodes, w, <<>>)
  <2>1. Behind(nodes, w, <<>>)
    BY <1>2, <1>9 DEF Behind
  <2>2. \A i \in 1..(Len(w) - 1) : FALSE
    BY <1>6
  <2> QED
    BY <1>2, <1>6, <1>7, <1>8, <1>9, <2>1, <2>2 DEF WalkOK
<1>11. GoneOK(nodes, w, <<>>)
  BY <1>6, <1>7, SeqNone DEF GoneOK, OwnersPast, IsInjective
<1> QED
  BY <1>1, <1>10, <1>11 DEF Freeing

\* What the case of a kind names is all the children a node of that kind has.
LEMMA ChildrenAreKids ==
  ASSUME TreeIn(nodes), NEW n \in DOMAIN nodes
  PROVE  Children(nodes[n]) = nodes[n].kids
<1> DEFINE k == nodes[n].kind
           s == nodes[n].kids
           f == Fields(k)
<1>1. k \in NodeKinds \ (HoleKinds \cup {"NULL"}) /\ s \in Seq(Nat) /\ HasArity(k, Len(s))
  BY DEF TreeIn
<1>2. Len(s) \in Nat
  BY <1>1
<1>3. Children(nodes[n]) = SubSeq(s, 1, f)
        \o (IF k \in {"PROGRAM", "BLOCK", "CALL"} THEN SubSeq(s, f + 1, Len(s)) ELSE <<>>)
  BY DEF Children, ListOf
<1>4. f \in 0..Len(s) /\ (k \in {"PROGRAM", "BLOCK", "CALL"} \/ f = Len(s))
  <2> DEFINE Ones == {"FUNC_DECL", "VAR_DECL", "RETURN", "EXPR_STMT", "UNARY", "MEMBER"}
             Twos == {"WHILE", "ASSIGN", "BINARY", "INDEX"}
             Nones == Literals \cup {"IDENT"}
  <2>1. \/ k \in Ones \/ k \in Twos \/ k \in Nones
        \/ k = "IF" \/ k = "FOR" \/ k = "CALL" \/ k \in {"PROGRAM", "BLOCK"}
    BY <1>1 DEF NodeKinds, StmtKinds, ExprKinds, Literals
  <2>2. CASE k \in Ones
    <3>1. Len(s) = 1 /\ f = 1
      BY <1>1, <2>2 DEF Fields, HasArity
    <3> QED
      BY <3>1
  <2>3. CASE k \in Twos
    <3>1. Len(s) = 2 /\ f = 2
      BY <1>1, <2>3 DEF Fields, HasArity
    <3> QED
      BY <3>1
  <2>4. CASE k \in Nones
    <3>1. Len(s) = 0 /\ f = 0
      BY <1>1, <2>4 DEF Fields, HasArity, Literals
    <3> QED
      BY <3>1
  <2>5. CASE k = "IF"
    <3>1. Len(s) = 3 /\ f = 3
      BY <1>1, <2>5 DEF Fields, HasArity
    <3> QED
      BY <3>1
  <2>6. CASE k = "FOR"
    <3>1. Len(s) = 4 /\ f = 4
      BY <1>1, <2>6 DEF Fields, HasArity
    <3> QED
      BY <3>1
  <2>7. CASE k = "CALL"
    <3>1. Len(s) >= 1 /\ f = 1
      BY <1>1, <2>7 DEF Fields, HasArity
    <3> QED
      BY <1>2, <2>7, <3>1
  <2>8. CASE k \in {"PROGRAM", "BLOCK"}
    <3>1. f = 0
      BY <2>8 DEF Fields
    <3> QED
      BY <1>2, <2>8, <3>1
  <2> QED
    BY <2>1, <2>2, <2>3, <2>4, <2>5, <2>6, <2>7, <2>8
<1> HIDE DEF f, k, s
<1>5. CASE k \in {"PROGRAM", "BLOCK", "CALL"}
  <2>1. SubSeq(s, 1, f) \o SubSeq(s, f + 1, Len(s)) = SubSeq(s, 1, Len(s))
    <3>1. s \in Seq(Nat) /\ 1 \in 1..(Len(s) + 1) /\ f \in (1 - 1)..Len(s) /\ Len(s) \in f..Len(s)
      BY <1>1, <1>2, <1>4
    <3> QED
      BY <3>1, ConcatAdjacentSubSeq
  <2>2. SubSeq(s, 1, Len(s)) = s
    BY <1>1, SubSeqFull
  <2> QED
    BY <1>3, <1>5, <2>1, <2>2 DEF s
<1>6. CASE k \notin {"PROGRAM", "BLOCK", "CALL"}
  <2>1. SubSeq(s, 1, Len(s)) \o <<>> = s
    BY <1>1, <1>2
  <2> QED
    BY <1>3, <1>4, <1>6, <2>1 DEF s
<1> QED
  BY <1>5, <1>6

LEMMA WalkingFacts ==
  ASSUME FreeingInv, walk # <<>>
  PROVE  /\ Parsed /\ Tree(nodes) /\ Freeing(nodes, Front(walk) \o <<Last(walk)>>, freed) /\ IsSeq(Front(walk))
         /\ walk = Front(walk) \o <<Last(walk)>>
         /\ Children(nodes[Last(walk).node]) = nodes[Last(walk).node].kids
<1>1. Parsed /\ Freeing(nodes, walk, freed) /\ Tree(nodes) /\ TreeIn(nodes)
  BY ParsedTree DEF FreeingInv, ParserInv
<1>2. IsSeq(walk) /\ \A i \in DOMAIN walk : IsVisit(nodes, walk[i])
  BY <1>1 DEF Freeing, WalkOK
<1>3. IsSeq(Front(walk)) /\ walk = Front(walk) \o <<Last(walk)>>
  BY <1>2, SeqSplit
<1>4. Last(walk).node \in DOMAIN nodes
  <2>1. Last(walk) = walk[Len(walk)] /\ Len(walk) \in DOMAIN walk
    BY <1>2, SeqLen DEF Last
  <2>2. DOMAIN nodes = 1..Len(nodes)
    BY <1>1, SeqLen DEF Tree
  <2> QED
    BY <1>2, <2>1, <2>2 DEF IsVisit
<1> QED
  BY <1>1, <1>3, <1>4, ChildrenAreKids

LEMMA FreeChildKeeps == ASSUME FreeingInv, FreeChild PROVE Freeing(nodes, walk', freed')
<1> DEFINE s == Front(walk)
           t == Last(walk)
           u == [t EXCEPT !.next = @ + 1]
           m == nodes[t.node].kids[t.next]
           y == s \o <<u>>
<1>1. /\ walk # <<>> /\ freed' = freed /\ t.next <= Len(nodes[t.node].kids)
      /\ walk' = Append(s, u) \o (IF m = 0 THEN <<>> ELSE <<Visit(m)>>)
  BY WalkingFacts, Zenon DEF FreeChild
<1>2. Tree(nodes) /\ Freeing(nodes, s \o <<t>>, freed) /\ IsSeq(s)
  BY <1>1, WalkingFacts
<1> HIDE DEF s, t
<1>3. Append(s, u) = y /\ IsSeq(y)
  BY <1>2, AppendIs, SeqPush
<1>4. CASE m = 0
  <2>1. Freeing(nodes, y, freed)
    BY <1>1, <1>2, <1>4, SkipsNull
  <2>2. walk' = y \o <<>>
    BY <1>1, <1>3, <1>4
  <2> HIDE DEF y
  <2>3. y \o <<>> = y
    BY <1>3, SeqNone, SeqConcat, SeqEqual2
  <2> QED
    BY <1>1, <2>1, <2>2, <2>3
<1>5. CASE m # 0
  <2>1. Freeing(nodes, y \o <<Visit(m)>>, freed)
    BY <1>1, <1>2, <1>5, Descends
  <2> QED
    BY <1>1, <1>3, <1>5, <2>1
<1> QED
  BY <1>4, <1>5

LEMMA FreeNodeKeeps == ASSUME FreeingInv, FreeNode PROVE Freeing(nodes, walk', freed')
<1> DEFINE s == Front(walk)
           t == Last(walk)
<1>1. walk # <<>> /\ t.next > Len(nodes[t.node].kids) /\ walk' = s /\ freed' = Append(freed, t.node)
  BY WalkingFacts DEF FreeNode
<1>2. Tree(nodes) /\ Freeing(nodes, s \o <<t>>, freed) /\ IsSeq(s)
  BY <1>1, WalkingFacts
<1> HIDE DEF s, t
<1>3. Freeing(nodes, s, Append(freed, t.node))
  BY <1>1, <1>2, FreesTop
<1> QED
  BY <1>1, <1>3

(* ast_free() on what parse() built, whatever program was written: each node is freed once. *)
THEOREM EveryNodeIsFreedOnce == RoundTripSpec => []FreesEachOnce
<1>1. RoundTripInit => FreeingInv
  BY ParserInitInv DEF RoundTripInit, FreeInit, FreeingInv
<1>2. FreeingInv /\ [RoundTripNext]_roundVars => FreeingInv'
  <2> SUFFICES ASSUME FreeingInv, [RoundTripNext]_roundVars PROVE FreeingInv'
    OBVIOUS
  <2>1. ASSUME UNCHANGED <<pvars, fvars>> PROVE FreeingInv'
    <3>1. ParserInv'
      BY <2>1, ParserStutter DEF FreeingInv
    <3>2. UNCHANGED <<nodes, walk, freed, seen, calls>>
      BY <2>1 DEF pvars, fvars
    <3> QED
      BY <3>1, <3>2 DEF FreeingInv, Parsed
  <2>2. CASE Read
    <3>1. Start(Written, NoMore) /\ UNCHANGED fvars
      BY <2>2 DEF Read
    <3>2. ParserInv'
      BY <3>1, StartKeeps DEF FreeingInv
    <3>3. seen = <<>>
      BY <3>1 DEF Start
    <3>4. walk = <<>> /\ freed = <<>>
      BY <3>3 DEF FreeingInv, Parsed
    <3> QED
      BY <3>1, <3>2, <3>4 DEF FreeingInv, fvars
  <2>3. CASE Reading
    <3>1. ParserStep /\ UNCHANGED fvars
      BY <2>3 DEF Reading
    <3>2. ParserInv' /\ calls # <<>>
      BY <3>1, ParserStepKeeps, NeedsText DEF FreeingInv
    <3>3. walk = <<>> /\ freed = <<>>
      BY <3>2 DEF FreeingInv, Parsed
    <3> QED
      BY <3>1, <3>2, <3>3 DEF FreeingInv, fvars
  <2>4. CASE Free
    <3>1. ast_free /\ UNCHANGED pvars
      BY <2>4 DEF Free
    <3>2. ParserInv' /\ nodes' = nodes /\ UNCHANGED <<seen, calls>>
      BY <3>1, ParserStutter DEF FreeingInv, pvars
    <3>3. Parsed
      <4>1. FreeRoot => Parsed
        BY DEF FreeRoot
      <4>2. FreeChild \/ FreeNode => walk # <<>>
        BY DEF FreeChild, FreeNode
      <4> QED
        BY <3>1, <4>1, <4>2, WalkingFacts DEF ast_free
    <3>4. Freeing(nodes, walk', freed')
      BY <3>1, FreeRootKeeps, FreeChildKeeps, FreeNodeKeeps DEF ast_free
    <3> QED
      BY <3>2, <3>3, <3>4 DEF FreeingInv, Parsed
  <2> QED
    BY <2>1, <2>2, <2>3, <2>4 DEF RoundTripNext, Grow, Over, roundVars
<1>3. FreeingInv => FreesEachOnce
  <2> SUFFICES ASSUME FreeingInv PROVE FreesEachOnce
    OBVIOUS
  <2>1. CASE walk = <<>> /\ freed = <<>>
    BY <2>1, SeqNone DEF FreesEachOnce, IsInjective
  <2>2. CASE Parsed /\ Freeing(nodes, walk, freed)
    <3>1. Tree(nodes) /\ IsInjective(freed) /\ \A i \in DOMAIN walk : walk[i].node \notin Range(freed)
      BY <2>2, ParsedTree DEF Freeing, GoneOK, WalkOK, Gone, Range, FreeingInv
    <3>2. ASSUME walk = <<>> PROVE Range(freed) = DOMAIN nodes
      <4>1. Freeing(nodes, <<>>, freed)
        BY <2>2, <3>2
      <4>2. \A m \in DOMAIN nodes : Gone(freed, m)
        BY <3>1, <4>1, NothingLeft
      <4>3. \A i \in DOMAIN freed : freed[i] \in DOMAIN nodes
        BY <2>2, <3>1, SeqLen DEF Freeing, GoneOK, Tree
      <4> QED
        BY <4>2, <4>3 DEF Gone, Range
    <3> QED
      BY <3>1, <3>2 DEF FreesEachOnce
  <2> QED
    BY <2>1, <2>2 DEF FreeingInv
<1> QED
  BY <1>1, <1>2, <1>3, PTL DEF RoundTripSpec
=============================================================================
