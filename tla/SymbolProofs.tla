----------------------------- MODULE SymbolProofs -----------------------------
(***************************************************************************)
(* Proofs about the two data structures under Sema.c: the names of types   *)
(* in a message, and the symbol table.                                     *)
(***************************************************************************)
EXTENDS SymbolTable, TypeNames, FiniteSetTheorems, SequenceTheorems, NaturalsInduction,
        WellFoundedInduction, TLAPS

-----------------------------------------------------------------------------
(* The names of types.  The buffers a message has been given are the last ones taken, and there  *)
(* are fewer of them than buffers until it has all its names.                                     *)

Given == {k \in DOMAIN bufs : bufs[k] # -1}

NamesInv ==
  /\ idx \in 0..(POOL - 1) /\ DOMAIN pool = 0..(POOL - 1)
  /\ \E n \in 0..MaxNamed : DOMAIN types = 1..n /\ DOMAIN bufs = 1..n
  /\ \A k \in DOMAIN types : types[k] \in Types
  /\ \A k \in Given :
       /\ bufs[k] \in 0..(POOL - 1) /\ pool[bufs[k]] = Named(types[k])
       /\ \E d \in 1..Cardinality(Given) : bufs[k] + d \in {idx, idx + POOL}
  /\ \A k \in DOMAIN printed : printed[k].type \in Types /\ printed[k].name = Named(printed[k].type)

LEMMA MinOfTwo == \A a, b \in Int : Min({a, b}) = IF a <= b THEN a ELSE b
<1> TAKE a, b \in Int
<1> DEFINE m == IF a <= b THEN a ELSE b
<1>1. m \in {a, b} /\ \A y \in {a, b} : m <= y
  OBVIOUS
<1>2. \A x \in {a, b} : (\A y \in {a, b} : x <= y) => x = m
  OBVIOUS
<1> HIDE DEF m
<1>3. Min({a, b}) = m
  BY <1>1, <1>2 DEF Min
<1> QED
  BY <1>3 DEF m

LEMMA AfterIsNext == \A b \in 0..(POOL - 1) : After(b) = IF b + 1 = POOL THEN 0 ELSE b + 1
  BY TypeNamesAssumption DEF After, TypeNamesAssumption

LEMMA NamesInitially == NamesInit => NamesInv
<1> SUFFICES ASSUME NamesInit PROVE NamesInv
  OBVIOUS
<1>0. POOL \in Nat /\ POOL > 0 /\ MaxNamed \in Nat
  BY TypeNamesAssumption DEF TypeNamesAssumption
<1>1. DOMAIN types = 1..0 /\ DOMAIN bufs = 1..0 /\ DOMAIN printed = {} /\ 0 \in 0..MaxNamed
  <2>1. types = <<>> /\ bufs = <<>> /\ printed = <<>>
    BY DEF NamesInit
  <2>2. 1..0 = {} /\ DOMAIN <<>> = {}
    OBVIOUS
  <2> QED
    BY <1>0, <2>1, <2>2
<1>2. idx \in 0..(POOL - 1) /\ DOMAIN pool = 0..(POOL - 1)
  <2>1. idx = 0 /\ DOMAIN pool = 0..(POOL - 1)
    BY DEF NamesInit
  <2> QED
    BY <1>0, <2>1
<1>3. Given = {} /\ \A k : k \notin 1..0
  BY <1>1 DEF Given
<1> QED
  BY <1>1, <1>2, <1>3 DEF NamesInv

LEMMA DiagnoseNames == NamesInv /\ Diagnose => NamesInv'
<1> SUFFICES ASSUME NamesInv, Diagnose PROVE NamesInv'
  OBVIOUS
<1>1. PICK n \in 1..MaxNamed : types' \in [1..n -> Types] /\ bufs' = [k \in 1..n |-> -1]
  BY DEF Diagnose
<1>2. n \in 0..MaxNamed
  BY TypeNamesAssumption DEF TypeNamesAssumption
<1>3. Given' = {} /\ DOMAIN bufs' = 1..n /\ DOMAIN types' = 1..n
  BY <1>1 DEF Given
<1>4. DOMAIN printed' = {} /\ UNCHANGED <<pool, idx>>
  BY DEF Diagnose
<1> QED
  BY <1>1, <1>2, <1>3, <1>4 DEF NamesInv

LEMMA type_nameNames == MaxNamed <= POOL /\ NamesInv /\ type_name => NamesInv'
<1> SUFFICES ASSUME MaxNamed <= POOL, NamesInv, type_name PROVE NamesInv'
  OBVIOUS
<1>1. PICK k \in DOMAIN types :
        bufs[k] = -1 /\ pool' = [pool EXCEPT ![idx] = Named(types[k])] /\ bufs' = [bufs EXCEPT ![k] = idx]
  BY DEF type_name
<1>2. PICK n \in 0..MaxNamed : DOMAIN types = 1..n /\ DOMAIN bufs = 1..n
  BY DEF NamesInv
<1>0. /\ idx \in 0..(POOL - 1) /\ DOMAIN pool = 0..(POOL - 1) /\ POOL \in Nat /\ MaxNamed \in Nat
      /\ UNCHANGED <<types, printed>> /\ idx' = After(idx)
  BY TypeNamesAssumption DEF NamesInv, type_name, TypeNamesAssumption
<1>3. idx' \in 0..(POOL - 1) /\ idx + 1 \in {idx', idx' + POOL}
  BY <1>0, AfterIsNext
<1>4. /\ k \in 1..n /\ k \notin Given /\ Given \in SUBSET (1..n)
      /\ Given' = Given \cup {k} /\ DOMAIN bufs' = 1..n
  BY <1>0, <1>1, <1>2 DEF Given
<1>5. /\ Cardinality(Given) \in Nat /\ Cardinality(Given) < n
      /\ Cardinality(Given') = Cardinality(Given) + 1
  <2>1. IsFiniteSet(1..n) /\ Cardinality(1..n) = n
    BY FS_Interval
  <2>2. /\ IsFiniteSet(Given) /\ Cardinality(Given) <= n
        /\ Cardinality(Given) = n => 1..n = Given
    BY <1>4, <2>1, FS_Subset
  <2>3. Cardinality(Given) \in Nat
    BY <2>2, FS_CardinalityType
  <2>4. Cardinality(Given \cup {k}) = Cardinality(Given) + 1
    BY <1>4, <2>2, FS_AddElement
  <2> QED
    BY <1>4, <2>2, <2>3, <2>4
<1>6. ASSUME NEW j \in Given'
      PROVE  /\ bufs'[j] \in 0..(POOL - 1) /\ pool'[bufs'[j]] = Named(types'[j])
             /\ \E d \in 1..Cardinality(Given') : bufs'[j] + d \in {idx', idx' + POOL}
  <2>1. CASE j = k
    <3>1. bufs'[j] = idx /\ pool'[idx] = Named(types'[j])
      BY <1>0, <1>1, <1>2, <2>1
    <3>2. 1 \in 1..Cardinality(Given')
      BY <1>5
    <3> QED
      BY <1>0, <1>3, <3>1, <3>2
  <2>2. CASE j # k
    <3>1. j \in Given /\ bufs'[j] = bufs[j]
      BY <1>1, <1>2, <1>4, <2>2
    <3>2. /\ bufs[j] \in 0..(POOL - 1) /\ pool[bufs[j]] = Named(types[j])
          /\ \E d \in 1..Cardinality(Given) : bufs[j] + d \in {idx, idx + POOL}
      BY <3>1 DEF NamesInv
    <3>3. PICK d \in 1..Cardinality(Given) : bufs[j] + d \in {idx, idx + POOL}
      BY <3>2
    <3>4. bufs[j] # idx
      BY <1>0, <1>5, <3>2, <3>3
    <3>5. d + 1 \in 1..Cardinality(Given') /\ bufs[j] + (d + 1) \in {idx', idx' + POOL}
      <4>1. d + 1 \in 1..Cardinality(Given')
        BY <1>5
      <4>2. d < POOL /\ d \in Nat
        BY <1>0, <1>5
      <4>3. idx' = IF idx + 1 = POOL THEN 0 ELSE idx + 1
        BY <1>0, AfterIsNext
      <4> DEFINE b == bufs[j]
                 e == idx'
      <4>4. b \in Nat /\ b < POOL /\ idx \in Nat /\ idx < POOL /\ (b + d = idx \/ b + d = idx + POOL)
        BY <1>0, <3>2, <3>3
      <4>5. e = IF idx + 1 = POOL THEN 0 ELSE idx + 1
        BY <4>3
      <4> HIDE DEF b, e
      <4>6. b + (d + 1) = e \/ b + (d + 1) = e + POOL
        BY <1>0, <4>2, <4>4, <4>5
      <4> QED
        BY <4>1, <4>6 DEF b, e
    <3> QED
      BY <1>0, <1>1, <3>1, <3>2, <3>4, <3>5
  <2> QED
    BY <2>1, <2>2
<1>7. DOMAIN pool' = 0..(POOL - 1)
  BY <1>0, <1>1
<1> QED
  BY <1>0, <1>2, <1>3, <1>4, <1>6, <1>7 DEF NamesInv

LEMMA emitNames == NamesInv /\ emit => NamesInv'
<1> SUFFICES ASSUME NamesInv, emit PROVE NamesInv'
  OBVIOUS
<1>1. PICK n \in 0..MaxNamed : DOMAIN types = 1..n /\ DOMAIN bufs = 1..n
  BY DEF NamesInv
<1>2. /\ printed' = [k \in 1..n |-> [type |-> types[k], name |-> pool[bufs[k]]]]
      /\ types' = <<>> /\ bufs' = <<>> /\ UNCHANGED <<pool, idx>> /\ \A k \in 1..n : k \in Given
  BY <1>1 DEF emit, Given
<1>3. \A k \in DOMAIN printed' : printed'[k].type \in Types /\ printed'[k].name = Named(printed'[k].type)
  BY <1>1, <1>2 DEF NamesInv
<1>4. DOMAIN types' = 1..0 /\ DOMAIN bufs' = 1..0 /\ 0 \in 0..MaxNamed /\ \A k : k \notin 1..0
  BY <1>2, TypeNamesAssumption DEF TypeNamesAssumption
<1>5. Given' = {}
  BY <1>4 DEF Given
<1> QED
  BY <1>2, <1>3, <1>4, <1>5 DEF NamesInv

(* As long as a message names no more types than type_name() has buffers, Sema.c's two of four,  *)
(* each name it shows is that of its own type, in whatever order the compiler has the calls made, *)
(* and is cut only when it fills its buffer.                                                      *)
THEOREM NamesAreOfTheirTypes == MaxNamed <= POOL => (NamesSpec => []MessagesNameTheirTypes)
<1> SUFFICES ASSUME MaxNamed <= POOL PROVE NamesSpec => []MessagesNameTheirTypes
  OBVIOUS
<1>1. NamesInit => NamesInv
  BY NamesInitially
<1>2. NamesInv /\ [NamesNext]_nameVars => NamesInv'
  <2> SUFFICES ASSUME NamesInv, [NamesNext]_nameVars PROVE NamesInv'
    OBVIOUS
  <2>1. CASE UNCHANGED nameVars
    BY <2>1 DEF NamesInv, Given, nameVars
  <2> QED
    BY <2>1, DiagnoseNames, type_nameNames, emitNames DEF NamesNext
<1>3. NamesInv => MessagesNameTheirTypes
  <2> SUFFICES ASSUME NamesInv, NEW k \in DOMAIN printed
               PROVE  LET p == printed[k]
                          full == Letters(p.name.base) + p.name.stars + 1 = BUFFER - 3
                      IN  /\ p.name.base = p.type.base
                          /\ p.name.stars = p.type.ptr_depth \/ (full /\ p.name.stars < p.type.ptr_depth)
    BY DEF MessagesNameTheirTypes
  <2> DEFINE t == printed[k].type
             room == BUFFER - 4 - Letters(t.base)
  <2>1. t \in Types /\ printed[k].name = Named(t)
    BY DEF NamesInv
  <2>2. t.ptr_depth \in Int /\ room \in Int /\ Letters(t.base) \in Int /\ BUFFER \in Int
    BY <2>1, TypeNamesAssumption DEF Types, Letters, TypeNamesAssumption
  <2>3. /\ printed[k].name.base = t.base
        /\ printed[k].name.stars = IF t.ptr_depth <= room THEN t.ptr_depth ELSE room
    BY <2>1, <2>2, MinOfTwo DEF Named
  <2> QED
    BY <2>2, <2>3
<1> QED
  BY <1>1, <1>2, <1>3, PTL DEF NamesSpec

-----------------------------------------------------------------------------
(* Chains.  Each symbol points to an older one of its bucket, so that a chain ends. *)

SymbolSet == [name : Names, info : Infos, next : Nat]

Linked ==
  /\ symbols \in Seq(SymbolSet)
  /\ \A s \in 1..Len(symbols) :
       /\ symbols[s].next < s
       /\ symbols[s].next # 0 => hash_name[symbols[symbols[s].next].name] = hash_name[symbols[s].name]

Older == [s \in 1..Len(symbols) |-> symbols[s].next]

LEMMA Minimum ==
  ASSUME NEW T \in SUBSET Nat, T # {}
  PROVE  \E k \in T : \A l \in T : k <= l
<1>1. \A a, b \in Nat : <<a, b>> \in OpToRel(<, Nat) <=> a < b
  BY DEF OpToRel
<1>2. PICK R : IsWellFoundedOn(R, Nat) /\ \A a, b \in Nat : <<a, b>> \in R <=> a < b
  BY <1>1, NatLessThanWellFounded
<1>3. \A a, b \in Nat : ~(<<a, b>> \in R) => b <= a
  BY <1>2
<1>4. IsWellFoundedOn(R, Nat)
  BY <1>2
<1>5. PICK k \in T : \A l \in T : ~(<<l, k>> \in R)
  BY <1>4, WFMin, Zenon
<1> QED
  BY <1>3, <1>5

\* A chain is a function of its head.
Chains(c, f, n) == c = [s \in 0..n |-> IF s = 0 THEN <<>> ELSE <<s>> \o c[f[s]]]

LEMMA ChainExists ==
  ASSUME NEW n \in Nat, NEW f, \A s \in 1..n : f[s] \in 0..(s - 1)
  PROVE  \E c : Chains(c, f, n)
<1> DEFINE T == {m \in 0..n : ~\E c : Chains(c, f, m)}
<1> SUFFICES ASSUME n \in T PROVE FALSE
  OBVIOUS
<1>1. PICK m \in T : \A l \in T : m <= l
  <2>1. T \in SUBSET Nat /\ T # {}
    OBVIOUS
  <2> HIDE DEF T
  <2> QED
    BY <2>1, Minimum
<1>2. m \in 0..n /\ ~\E c : Chains(c, f, m)
  OBVIOUS
<1>3. CASE m = 0
  <2> DEFINE c == [s \in 0..0 |-> <<>>]
  <2>1. c = [s \in 0..0 |-> IF s = 0 THEN <<>> ELSE <<s>> \o c[f[s]]]
    OBVIOUS
  <2> HIDE DEF c
  <2>2. Chains(c, f, 0)
    BY <2>1 DEF Chains
  <2> QED
    BY <1>2, <1>3, <2>2
<1>4. CASE m # 0
  <2>0. m \in 1..n /\ m - 1 \in 0..n
    BY <1>2, <1>4
  <2>1. m - 1 \notin T
    BY <1>1, <2>0
  <2>2. PICK c : Chains(c, f, m - 1)
    BY <2>0, <2>1
  <2> DEFINE d == [s \in 0..m |-> IF s = m THEN <<m>> \o c[f[m]] ELSE c[s]]
             e == [s \in 0..m |-> IF s = 0 THEN <<>> ELSE <<s>> \o d[f[s]]]
  <2>3. \A s \in 0..(m - 1) : c[s] = IF s = 0 THEN <<>> ELSE <<s>> \o c[f[s]]
    BY <2>2 DEF Chains
  <2>4. \A s \in 0..(m - 1) : d[s] = c[s]
    BY <2>0
  <2>5. d[m] = <<m>> \o c[f[m]]
    BY <2>0
  <2>6. \A s \in 1..m : f[s] \in 0..(m - 1)
    BY <2>0
  <2>7. DOMAIN d = 0..m /\ d = [s \in 0..m |-> d[s]]
    OBVIOUS
  <2> HIDE DEF d
  <2>8. ASSUME NEW s \in 0..m PROVE d[s] = IF s = 0 THEN <<>> ELSE <<s>> \o d[f[s]]
    <3>1. CASE s = m
      <4>1. m \in 1..m /\ f[m] \in 0..(m - 1)
        BY <2>0, <2>6
      <4>2. d[f[m]] = c[f[m]]
        BY <2>4, <4>1
      <4> QED
        BY <1>4, <2>5, <3>1, <4>2
    <3>2. CASE s # m
      <4>1. s \in 0..(m - 1) /\ (s # 0 => s \in 1..m)
        BY <2>0, <3>2
      <4> QED
        BY <2>3, <2>4, <2>6, <4>1
    <3> QED
      BY <3>1, <3>2
  <2>9. d = e
    BY <2>7, <2>8
  <2>10. Chains(d, f, m)
    BY <2>9 DEF Chains
  <2> QED
    BY <1>2, <2>10
<1> QED
  BY <1>3, <1>4

LEMMA OlderFacts ==
  Linked => /\ Len(symbols) \in Nat
            /\ \A s \in 1..Len(symbols) : Older[s] = symbols[s].next /\ Older[s] \in 0..(s - 1)
<1> SUFFICES ASSUME Linked, NEW s \in 1..Len(symbols)
             PROVE  symbols[s].next \in 0..(s - 1)
  BY DEF Linked, Older
<1>1. symbols[s] \in SymbolSet /\ symbols[s].next < s
  BY DEF Linked
<1> QED
  BY <1>1 DEF SymbolSet

LEMMA ChainUnfolds ==
  Linked => /\ ChainFrom[0] = <<>>
            /\ \A s \in 1..Len(symbols) : ChainFrom[s] = <<s>> \o ChainFrom[Older[s]]
<1> SUFFICES ASSUME Linked
             PROVE  /\ ChainFrom[0] = <<>>
                    /\ \A s \in 1..Len(symbols) : ChainFrom[s] = <<s>> \o ChainFrom[Older[s]]
  OBVIOUS
<1> DEFINE n == Len(symbols)
           Stored(d) == d = [s \in 0..n |-> IF s = 0 THEN <<>> ELSE <<s>> \o d[symbols[s].next]]
<1>1. n \in Nat /\ \A s \in 1..n : Older[s] = symbols[s].next /\ Older[s] \in 0..(s - 1)
  BY OlderFacts
<1>2. PICK c : Chains(c, Older, n)
  BY <1>1, ChainExists
<1>3. Stored(c)
  <2>1. \A s \in 0..n : s # 0 => s \in 1..n
    BY <1>1
  <2>2. \A s \in 0..n : (IF s = 0 THEN <<>> ELSE <<s>> \o c[Older[s]])
                          = IF s = 0 THEN <<>> ELSE <<s>> \o c[symbols[s].next]
    BY <1>1, <2>1
  <2> QED
    BY <1>2, <2>2 DEF Chains
<1>4. ChainFrom = CHOOSE d : Stored(d)
  BY DEF ChainFrom
<1>5. Stored(ChainFrom)
  <2> HIDE DEF Stored
  <2> QED
    BY <1>3, <1>4, Zenon
<1>6. ChainFrom = [s \in 0..n |-> IF s = 0 THEN <<>> ELSE <<s>> \o ChainFrom[symbols[s].next]]
  BY <1>5
<1> HIDE DEF Stored
<1>7. 0 \in 0..n /\ \A s \in 1..n : s \in 0..n /\ s # 0
  BY <1>1
<1> QED
  BY <1>1, <1>6, <1>7

\* The symbols a head leads to.
Reach(s) == Range(ChainFrom[s])
SameBucket(s, t) == hash_name[symbols[s].name] = hash_name[symbols[t].name]

LEMMA RangeIs == \A f, x : x \in Range(f) <=> \E k \in DOMAIN f : x = f[k]
  BY DEF Range

LEMMA ConcatInjective ==
  ASSUME NEW S, NEW c \in Seq(S), NEW d \in Seq(S), IsInjective(c), IsInjective(d),
         \A x : ~(x \in Range(c) /\ x \in Range(d))
  PROVE  /\ c \o d \in Seq(S) /\ IsInjective(c \o d)
         /\ \A x : x \in Range(c \o d) <=> x \in Range(c) \/ x \in Range(d)
<1> DEFINE e == c \o d
<1>1. /\ e \in Seq(S) /\ Len(e) = Len(c) + Len(d) /\ Len(c) \in Nat /\ Len(d) \in Nat
      /\ \A i \in 1..(Len(c) + Len(d)) : e[i] = IF i <= Len(c) THEN c[i] ELSE d[i - Len(c)]
  BY ConcatProperties
<1>2. DOMAIN e = 1..(Len(c) + Len(d)) /\ DOMAIN c = 1..Len(c) /\ DOMAIN d = 1..Len(d)
  BY <1>1
<1> HIDE DEF e
<1>3. \A i \in 1..(Len(c) + Len(d)) :
        \/ i \in 1..Len(c) /\ e[i] = c[i] /\ e[i] \in Range(c)
        \/ i > Len(c) /\ i - Len(c) \in 1..Len(d) /\ e[i] = d[i - Len(c)] /\ e[i] \in Range(d)
  BY <1>1, <1>2, RangeIs
<1>4. IsInjective(e)
  <2>1. \A i, j \in 1..(Len(c) + Len(d)) : e[i] = e[j] => i = j
    <3> SUFFICES ASSUME NEW i \in 1..(Len(c) + Len(d)), NEW j \in 1..(Len(c) + Len(d)), e[i] = e[j]
                 PROVE  i = j
      OBVIOUS
    <3>1. i \in Int /\ j \in Int /\ Len(c) \in Int
      BY <1>1
    <3>2. CASE i \in 1..Len(c) /\ e[i] = c[i] /\ e[i] \in Range(c)
      <4>1. j \in 1..Len(c) /\ e[j] = c[j]
        BY <1>3, <3>2
      <4> QED
        BY <1>2, <3>2, <4>1 DEF IsInjective
    <3>3. CASE i - Len(c) \in 1..Len(d) /\ e[i] = d[i - Len(c)] /\ e[i] \in Range(d)
      <4>1. j - Len(c) \in 1..Len(d) /\ e[j] = d[j - Len(c)]
        BY <1>3, <3>3
      <4>2. i - Len(c) = j - Len(c)
        BY <1>2, <3>3, <4>1 DEF IsInjective
      <4> QED
        BY <3>1, <4>2
    <3> QED
      BY <1>3, <3>2, <3>3
  <2> QED
    BY <1>2, <2>1 DEF IsInjective
<1>5. \A x : x \in Range(e) <=> x \in Range(c) \/ x \in Range(d)
  <2>1. Range(e) = Range(c) \cup Range(d)
    BY RangeConcatenation DEF e
  <2> QED
    BY <2>1
<1> QED
  BY <1>1, <1>4, <1>5 DEF e

LEMMA ChainFacts ==
  Linked =>
    /\ Reach(0) = {}
    /\ \A s \in 0..Len(symbols) : ChainFrom[s] \in Seq(1..Len(symbols)) /\ IsInjective(ChainFrom[s])
    /\ \A s \in 1..Len(symbols) :
         /\ \A t : t \in Reach(s) <=> t = s \/ t \in Reach(Older[s])
         /\ \A t \in Reach(s) : t \in 1..s /\ SameBucket(t, s)
<1> SUFFICES ASSUME Linked
             PROVE  /\ Reach(0) = {}
                    /\ \A s \in 0..Len(symbols) :
                         ChainFrom[s] \in Seq(1..Len(symbols)) /\ IsInjective(ChainFrom[s])
                    /\ \A s \in 1..Len(symbols) :
                         /\ \A t : t \in Reach(s) <=> t = s \/ t \in Reach(Older[s])
                         /\ \A t \in Reach(s) : t \in 1..s /\ SameBucket(t, s)
  OBVIOUS
<1> DEFINE N == Len(symbols)
           Good(s) == /\ ChainFrom[s] \in Seq(1..N) /\ IsInjective(ChainFrom[s])
                      /\ s # 0 => /\ \A t : t \in Reach(s) <=> t = s \/ t \in Reach(Older[s])
                                  /\ \A t \in Reach(s) : t \in 1..s /\ SameBucket(t, s)
           T == {s \in 0..N : ~Good(s)}
<1>0. N \in Nat /\ \A s \in 1..N : Older[s] \in 0..(s - 1) /\ (Older[s] # 0 => SameBucket(Older[s], s))
  BY OlderFacts DEF Linked, SameBucket
<1>1. ChainFrom[0] = <<>> /\ \A s \in 1..N : ChainFrom[s] = <<s>> \o ChainFrom[Older[s]]
  BY ChainUnfolds
<1>2. Reach(0) = {}
  BY <1>1 DEF Reach, Range
<1>3. Good(0)
  <2>1. <<>> \in Seq(1..N) /\ DOMAIN <<>> = {}
    OBVIOUS
  <2> QED
    BY <1>1, <2>1 DEF IsInjective
<1>4. ASSUME NEW s \in 1..N, \A r \in 0..(s - 1) : Good(r) PROVE Good(s)
  <2> DEFINE r == Older[s]
  <2>1. r \in 0..(s - 1) /\ Good(r) /\ s \in 1..N /\ s # 0
    <3> HIDE DEF Good
    <3> QED
      BY <1>0, <1>4
  <2>2. \A t \in Reach(r) : t \in 1..(s - 1) /\ SameBucket(t, s)
    <3>1. CASE r = 0
      BY <1>2, <3>1
    <3>2. CASE r # 0
      <4>1. \A t \in Reach(r) : t \in 1..r /\ SameBucket(t, r)
        BY <2>1, <3>2
      <4> QED
        BY <1>0, <2>1, <3>2, <4>1 DEF SameBucket
    <3> QED
      BY <3>1, <3>2
  <2>3. /\ <<s>> \in Seq(1..N) /\ IsInjective(<<s>>) /\ \A t : t \in Range(<<s>>) <=> t = s
    <3>1. <<s>> \in Seq(1..N) /\ DOMAIN <<s>> = {1} /\ <<s>>[1] = s
      BY <2>1
    <3> QED
      BY <3>1 DEF IsInjective, Range
  <2>4. /\ ChainFrom[s] \in Seq(1..N) /\ IsInjective(ChainFrom[s])
        /\ \A t : t \in Range(ChainFrom[s]) <=> t \in Range(<<s>>) \/ t \in Range(ChainFrom[r])
    <3>1. ChainFrom[r] \in Seq(1..N) /\ IsInjective(ChainFrom[r])
      BY <2>1
    <3>2. \A x : ~(x \in Range(<<s>>) /\ x \in Range(ChainFrom[r]))
      <4>1. s \notin Range(ChainFrom[r])
        <5>1. s \notin Reach(r)
          BY <2>1, <2>2
        <5> QED
          BY <5>1 DEF Reach
      <4> QED
        BY <2>3, <4>1, Zenon
    <3>3. ChainFrom[s] = <<s>> \o ChainFrom[r]
      BY <1>1, <2>1
    <3> DEFINE u == <<s>>
               c == ChainFrom[r]
    <3>4. u \in Seq(1..N) /\ IsInjective(u) /\ c \in Seq(1..N) /\ IsInjective(c) /\ ChainFrom[s] = u \o c
      BY <2>3, <3>1, <3>3
    <3>5. \A x : ~(x \in Range(u) /\ x \in Range(c))
      BY <3>2
    <3> HIDE DEF u, c
    <3>6. /\ u \o c \in Seq(1..N) /\ IsInjective(u \o c)
          /\ \A t : t \in Range(u \o c) <=> t \in Range(u) \/ t \in Range(c)
      BY <3>4, <3>5, ConcatInjective
    <3> QED
      BY <3>4, <3>6 DEF u, c
  <2>5. \A t : t \in Reach(s) <=> t = s \/ t \in Reach(r)
    BY <2>3, <2>4 DEF Reach
  <2>6. \A t \in Reach(s) : t \in 1..s /\ SameBucket(t, s)
    BY <2>1, <2>2, <2>5 DEF SameBucket
  <2> QED
    BY <2>4, <2>5, <2>6
<1>5. \A s \in 0..N : Good(s)
  <2> HIDE DEF Good
  <2> SUFFICES ASSUME T # {} PROVE FALSE
    OBVIOUS
  <2>1. PICK m \in T : \A l \in T : m <= l
    <3>1. T \in SUBSET Nat
      OBVIOUS
    <3> HIDE DEF T
    <3> QED
      BY <3>1, Minimum
  <2>2. m # 0
    BY <1>3
  <2>3. m \in 1..N /\ \A r \in 0..(m - 1) : Good(r)
    BY <1>0, <2>1, <2>2
  <2> QED
    BY <1>4, <2>3
<1> QED
  BY <1>0, <1>2, <1>5

\* Symbols allocated later do not change the chains there are.
LEMMA ChainsKept ==
  ASSUME Linked, Linked', Len(symbols) <= Len(symbols'), \A s \in 1..Len(symbols) : symbols'[s] = symbols[s]
  PROVE  /\ \A s \in 0..Len(symbols) : ChainFrom'[s] = ChainFrom[s]
         /\ \A s \in 1..Len(symbols') :
              Older'[s] = symbols'[s].next /\ ChainFrom'[s] = <<s>> \o ChainFrom'[Older'[s]]
<1> DEFINE N == Len(symbols)
           T == {s \in 0..N : ChainFrom'[s] # ChainFrom[s]}
<1>0. N \in Nat /\ \A s \in 1..N : Older[s] \in 0..(s - 1)
  BY OlderFacts
<1>1. ChainFrom[0] = <<>> /\ \A s \in 1..N : ChainFrom[s] = <<s>> \o ChainFrom[Older[s]]
  BY ChainUnfolds
<1>2. /\ ChainFrom'[0] = <<>>
      /\ \A s \in 1..Len(symbols') : ChainFrom'[s] = <<s>> \o ChainFrom'[Older'[s]]
  <2>1. (Linked => /\ ChainFrom[0] = <<>>
                   /\ \A s \in 1..Len(symbols) : ChainFrom[s] = <<s>> \o ChainFrom[Older[s]])'
    BY ChainUnfolds, PTL
  <2> QED
    BY <2>1
<1>3. Len(symbols') \in Nat /\ \A s \in 1..N : s \in 1..Len(symbols') /\ Older'[s] = Older[s]
  <2>1. Len(symbols') \in Nat
    BY DEF Linked
  <2> QED
    BY <1>0, <2>1 DEF Older
<1>4. T = {}
  <2> SUFFICES ASSUME T # {} PROVE FALSE
    OBVIOUS
  <2>1. PICK m \in T : \A l \in T : m <= l
    <3>1. T \in SUBSET Nat
      OBVIOUS
    <3> HIDE DEF T
    <3> QED
      BY <3>1, Minimum
  <2>2. m # 0
    BY <1>1, <1>2
  <2>3. m \in 1..N /\ Older[m] \in 0..N /\ Older[m] \notin T
    BY <1>0, <2>1, <2>2
  <2>4. ChainFrom'[m] = ChainFrom[m]
    <3>1. ChainFrom'[Older[m]] = ChainFrom[Older[m]]
      BY <2>3
    <3>2. ChainFrom[m] = <<m>> \o ChainFrom[Older[m]]
      BY <1>1, <2>3
    <3>3. m \in 1..Len(symbols') /\ Older'[m] = Older[m]
      BY <1>3, <2>3
    <3>4. ChainFrom'[m] = <<m>> \o ChainFrom'[Older'[m]]
      BY <1>2, <3>3
    <3> QED
      BY <3>1, <3>2, <3>3, <3>4
  <2> QED
    BY <2>4
<1> QED
  BY <1>2, <1>4 DEF Older

-----------------------------------------------------------------------------
(* FlattenSeq of chains that have no symbol in common. *)

Flattens(f, q, n) == f = [k \in 1..n |-> IF k = 1 THEN q[k] ELSE f[k - 1] \o q[k]]

LEMMA FlattenExists ==
  ASSUME NEW n \in Nat, NEW q
  PROVE  \E f : Flattens(f, q, n)
<1> DEFINE T == {m \in 0..n : ~\E f : Flattens(f, q, m)}
<1> SUFFICES ASSUME n \in T PROVE FALSE
  OBVIOUS
<1>1. PICK m \in T : \A l \in T : m <= l
  <2>1. T \in SUBSET Nat /\ T # {}
    OBVIOUS
  <2> HIDE DEF T
  <2> QED
    BY <2>1, Minimum
<1>2. m \in 0..n /\ ~\E f : Flattens(f, q, m)
  OBVIOUS
<1>3. CASE m = 0
  <2> DEFINE f == [k \in 1..0 |-> <<>>]
  <2>1. f = [k \in 1..0 |-> IF k = 1 THEN q[k] ELSE f[k - 1] \o q[k]]
    OBVIOUS
  <2> HIDE DEF f
  <2>2. Flattens(f, q, 0)
    BY <2>1 DEF Flattens
  <2> QED
    BY <1>2, <1>3, <2>2
<1>4. CASE m # 0
  <2>0. m \in 1..n /\ m - 1 \in 0..n
    BY <1>2, <1>4
  <2>1. m - 1 \notin T
    BY <1>1, <2>0
  <2>2. PICK f : Flattens(f, q, m - 1)
    BY <2>0, <2>1
  <2> DEFINE last == IF m = 1 THEN q[m] ELSE f[m - 1] \o q[m]
             g == [k \in 1..m |-> IF k = m THEN last ELSE f[k]]
             e == [k \in 1..m |-> IF k = 1 THEN q[k] ELSE g[k - 1] \o q[k]]
  <2>3. \A k \in 1..(m - 1) : f[k] = IF k = 1 THEN q[k] ELSE f[k - 1] \o q[k]
    BY <2>2 DEF Flattens
  <2>4. g[m] = last /\ \A k \in 1..(m - 1) : g[k] = f[k]
    <3>1. m \in 1..m /\ \A k \in 1..(m - 1) : k \in 1..m /\ k # m
      BY <2>0
    <3> HIDE DEF last
    <3> QED
      BY <3>1
  <2>5. DOMAIN g = 1..m /\ g = [k \in 1..m |-> g[k]]
    OBVIOUS
  <2> HIDE DEF g
  <2>6. ASSUME NEW k \in 1..m PROVE g[k] = IF k = 1 THEN q[k] ELSE g[k - 1] \o q[k]
    <3>1. k # 1 => k - 1 \in 1..(m - 1)
      BY <2>0
    <3>2. k # m => k \in 1..(m - 1)
      BY <2>0
    <3> QED
      BY <2>3, <2>4, <3>1, <3>2
  <2>7. g = e
    BY <2>5, <2>6
  <2>8. Flattens(g, q, m)
    BY <2>7 DEF Flattens
  <2> QED
    BY <1>2, <2>8
<1> QED
  BY <1>3, <1>4

LEMMA FlattenUnfolds ==
  ASSUME NEW n \in Nat \ {0}, NEW q, Len(q) = n
  PROVE  \E f : Flattens(f, q, n) /\ FlattenSeq(q) = f[n]
<1> DEFINE flatten == CHOOSE f : Flattens(f, q, n)
<1>1. FlattenSeq(q) = flatten[n]
  BY DEF FlattenSeq, Flattens
<1>2. Flattens(flatten, q, n)
  <2>1. \E f : Flattens(f, q, n)
    BY FlattenExists
  <2> QED
    BY <2>1, Zenon
<1> QED
  BY <1>1, <1>2

Apart(S, q, n) ==
  /\ n \in Nat \ {0} /\ q \in Seq(Seq(S)) /\ Len(q) = n
  /\ \A k \in 1..n : IsInjective(q[k])
  /\ \A k, l \in 1..n : \A x : x \in Range(q[k]) /\ x \in Range(q[l]) => k = l

AllOf(S, q, n, f) ==
  /\ f \in Seq(S) /\ IsInjective(f)
  /\ \A x : x \in Range(f) <=> \E k \in 1..n : x \in Range(q[k])

LEMMA FlattenFacts == ASSUME NEW S, NEW q, NEW n, Apart(S, q, n) PROVE AllOf(S, q, n, FlattenSeq(q))
<1>0. /\ n \in Nat \ {0} /\ q \in Seq(Seq(S)) /\ Len(q) = n
      /\ \A k \in 1..n : IsInjective(q[k])
      /\ \A k, l \in 1..n : \A x : x \in Range(q[k]) /\ x \in Range(q[l]) => k = l
      /\ \A k \in 1..n : q[k] \in Seq(S)
  BY DEF Apart
<1>1. PICK f : Flattens(f, q, n) /\ FlattenSeq(q) = f[n]
  BY <1>0, FlattenUnfolds
<1>2. \A k \in 1..n : f[k] = IF k = 1 THEN q[k] ELSE f[k - 1] \o q[k]
  BY <1>1 DEF Flattens
<1> DEFINE Good(m) == /\ f[m] \in Seq(S) /\ IsInjective(f[m])
                      /\ \A x : x \in Range(f[m]) <=> \E k \in 1..m : x \in Range(q[k])
           T == {m \in 1..n : ~Good(m)}
<1>3. Good(1)
  <2>1. f[1] = q[1] /\ q[1] \in Seq(S) /\ IsInjective(q[1])
    BY <1>0, <1>2
  <2>2. \A k \in 1..1 : k = 1
    OBVIOUS
  <2> QED
    BY <2>1, <2>2
<1>4. ASSUME NEW m \in 1..n, m # 1, Good(m - 1) PROVE Good(m)
  <2> DEFINE c == f[m - 1]
             d == q[m]
  <2>1. f[m] = c \o d /\ d \in Seq(S) /\ IsInjective(d)
    BY <1>0, <1>2, <1>4
  <2>2. c \in Seq(S) /\ IsInjective(c) /\ \A x : x \in Range(c) <=> \E k \in 1..(m - 1) : x \in Range(q[k])
    BY <1>4
  <2>3. \A k \in 1..(m - 1) : k \in 1..n /\ k # m
    BY <1>0
  <2>4. \A x : ~(x \in Range(c) /\ x \in Range(d))
    <3>1. \A k \in 1..(m - 1) : \A x : ~(x \in Range(q[k]) /\ x \in Range(q[m]))
      BY <1>0, <2>3
    <3> QED
      BY <2>2, <3>1
  <2> HIDE DEF c, d
  <2>5. /\ c \o d \in Seq(S) /\ IsInjective(c \o d)
        /\ \A x : x \in Range(c \o d) <=> x \in Range(c) \/ x \in Range(d)
    BY <2>1, <2>2, <2>4, ConcatInjective
  <2>6. \A k \in 1..m : k \in 1..(m - 1) \/ k = m
    BY <1>0
  <2>7. m \in 1..m /\ \A k \in 1..(m - 1) : k \in 1..m
    BY <1>0
  <2> QED
    BY <2>1, <2>2, <2>5, <2>6, <2>7 DEF d
<1>5. \A m \in 1..n : Good(m)
  <2> HIDE DEF Good
  <2> SUFFICES ASSUME T # {} PROVE FALSE
    OBVIOUS
  <2>1. PICK m \in T : \A l \in T : m <= l
    <3>1. T \in SUBSET Nat
      BY <1>0
    <3> HIDE DEF T
    <3> QED
      BY <3>1, Minimum
  <2>2. m \in 1..n /\ m # 1
    BY <1>3
  <2>3. m - 1 \in 1..n /\ m - 1 \notin T
    BY <1>0, <2>1, <2>2
  <2> QED
    BY <1>4, <2>2, <2>3
<1>6. Good(n)
  <2> HIDE DEF Good
  <2> QED
    BY <1>0, <1>5
<1> QED
  BY <1>1, <1>6 DEF AllOf

-----------------------------------------------------------------------------
(* The table.  Every symbol is in one bucket of one open scope or was freed, and a scope has no   *)
(* two of a name.                                                                                 *)

In(i, h, s) == s \in Reach(scopes[i][h])

ScopesOK ==
  /\ scopes \in Seq([Buckets -> 0..Len(symbols)])
  /\ \A i \in DOMAIN scopes, h \in Buckets :
       scopes[i][h] # 0 => hash_name[symbols[scopes[i][h]].name] = h

OneOwner ==
  \A i, j \in DOMAIN scopes : \A h, g \in Buckets : \A s : In(i, h, s) /\ In(j, g, s) => i = j /\ h = g

FreedOK ==
  /\ freed \in Seq(1..Len(symbols)) /\ IsInjective(freed)
  /\ \A s \in 1..Len(symbols) :
       s \in Range(freed) <=> ~\E i \in DOMAIN scopes, h \in Buckets : In(i, h, s)

OneOfAName ==
  \A i \in DOMAIN scopes, h \in Buckets : \A s, t :
    In(i, h, s) /\ In(i, h, t) /\ symbols[s].name = symbols[t].name => s = t

TableInv == Linked /\ ScopesOK /\ OneOwner /\ FreedOK /\ OneOfAName

LEMMA TableFacts ==
  ASSUME Linked, ScopesOK
  PROVE  /\ Len(symbols) \in Nat /\ Len(scopes) \in Nat /\ DOMAIN scopes = 1..Len(scopes)
         /\ \A i \in DOMAIN scopes : scopes[i] \in [Buckets -> 0..Len(symbols)]
         /\ \A i \in DOMAIN scopes, h \in Buckets : \A s :
              In(i, h, s) => s \in 1..Len(symbols) /\ hash_name[symbols[s].name] = h
<1>1. /\ Len(symbols) \in Nat /\ Len(scopes) \in Nat /\ DOMAIN scopes = 1..Len(scopes)
      /\ \A i \in DOMAIN scopes : scopes[i] \in [Buckets -> 0..Len(symbols)]
  BY DEF Linked, ScopesOK
<1>2. ASSUME NEW i \in DOMAIN scopes, NEW h \in Buckets, NEW s, In(i, h, s)
      PROVE  s \in 1..Len(symbols) /\ hash_name[symbols[s].name] = h
  <2> DEFINE head == scopes[i][h]
  <2>1. head \in 0..Len(symbols) /\ s \in Reach(head)
    BY <1>1, <1>2 DEF In
  <2>2. head # 0
    BY <2>1, ChainFacts
  <2> HIDE DEF head
  <2>3. s \in 1..head /\ SameBucket(s, head)
    <3>1. head \in 1..Len(symbols)
      BY <1>1, <2>1, <2>2
    <3>2. \A t \in Reach(head) : t \in 1..head /\ SameBucket(t, head)
      BY <3>1, ChainFacts
    <3> QED
      BY <2>1, <3>2
  <2>4. hash_name[symbols[head].name] = h
    BY <2>2 DEF ScopesOK, head
  <2> QED
    BY <1>1, <2>1, <2>3, <2>4 DEF SameBucket
<1> QED
  BY <1>1, <1>2

LEMMA FirstInFacts ==
  ASSUME Linked, NEW scope \in [Buckets -> 0..Len(symbols)], NEW x \in Names
  PROVE  LET s == FirstIn(scope, x)
             members == Reach(scope[hash_name[x]])
         IN  IF s = 0 THEN \A t \in members : symbols[t].name # x
             ELSE s \in members /\ symbols[s].name = x
<1> DEFINE h == hash_name[x]
           chain == ChainFrom[scope[h]]
           I == {k \in 1..Len(chain) : symbols[chain[k]].name = x}
           k == IF I # {} THEN Min(I) ELSE 0
<1>1. h \in Buckets /\ scope[h] \in 0..Len(symbols)
  BY SymbolTableAssumption DEF SymbolTableAssumption
<1>2. chain \in Seq(1..Len(symbols))
  BY <1>1, ChainFacts
<1>3. FirstIn(scope, x) = IF k = 0 THEN 0 ELSE chain[k]
  BY DEF FirstIn, SelectInSeq
<1>4. /\ Len(chain) \in Nat /\ DOMAIN chain = 1..Len(chain)
      /\ \A j \in 1..Len(chain) : chain[j] \in 1..Len(symbols)
  BY <1>2
<1>5. \A t : t \in Reach(scope[h]) <=> \E j \in 1..Len(chain) : t = chain[j]
  BY <1>4, RangeIs DEF Reach
<1>6. CASE I = {}
  <2>1. k = 0
    BY <1>6
  <2>2. FirstIn(scope, x) = 0
    <3> HIDE DEF k
    <3> QED
      BY <1>3, <2>1
  <2>3. \A j \in 1..Len(chain) : symbols[chain[j]].name # x
    BY <1>6
  <2>4. \A t \in Reach(scope[h]) : symbols[t].name # x
    BY <1>5, <2>3
  <2> HIDE DEF k, I, chain
  <2> QED
    BY <2>2, <2>4
<1>7. CASE I # {}
  <2>1. \E j \in I : \A l \in I : j <= l
    <3>1. I \in SUBSET Nat
      OBVIOUS
    <3> HIDE DEF I
    <3> QED
      BY <1>7, <3>1, Minimum
  <2>2. Min(I) \in I
    BY <2>1 DEF Min
  <2>3. k \in 1..Len(chain) /\ symbols[chain[k]].name = x
    BY <1>7, <2>2
  <2> HIDE DEF k, I, chain
  <2>4. k # 0 /\ FirstIn(scope, x) = chain[k] /\ chain[k] # 0
    BY <1>3, <1>4, <2>3
  <2>5. chain[k] \in Reach(scope[h])
    BY <1>5, <2>3
  <2> QED
    BY <2>3, <2>4, <2>5
<1> QED
  BY <1>6, <1>7

\* What scope_free() frees.
LEMMA FreeFacts ==
  ASSUME Linked, NEW scope \in [Buckets -> 0..Len(symbols)],
         \A h, g \in Buckets : \A s : s \in Reach(scope[h]) /\ s \in Reach(scope[g]) => h = g
  PROVE  /\ scope_free(scope) \in Seq(1..Len(symbols)) /\ IsInjective(scope_free(scope))
         /\ \A s : s \in Range(scope_free(scope)) <=> \E h \in Buckets : s \in Reach(scope[h])
<1> DEFINE q == [h \in 1..BUCKETS |-> ChainFrom[scope[h - 1]]]
           S == 1..Len(symbols)
<1>0. /\ BUCKETS \in Nat \ {0} /\ \A h \in 1..BUCKETS : h - 1 \in Buckets
      /\ \A h \in Buckets : h + 1 \in 1..BUCKETS /\ (h + 1) - 1 = h
  BY SymbolTableAssumption DEF SymbolTableAssumption, Buckets
<1>1. \A h \in Buckets : ChainFrom[scope[h]] \in Seq(S) /\ IsInjective(ChainFrom[scope[h]])
  BY ChainFacts
<1>2. \A h \in 1..BUCKETS :
        /\ q[h] \in Seq(S) /\ IsInjective(q[h])
        /\ \A s : s \in Range(q[h]) <=> s \in Reach(scope[h - 1])
  BY <1>0, <1>1 DEF Reach
<1>3. q \in Seq(Seq(S)) /\ Len(q) = BUCKETS
  BY <1>0, <1>2
<1>4. scope_free(scope) = FlattenSeq(q)
  BY DEF scope_free
<1> HIDE DEF q, S
<1>5. \A k, l \in 1..BUCKETS : \A x : x \in Range(q[k]) /\ x \in Range(q[l]) => k = l
  <2> SUFFICES ASSUME NEW k \in 1..BUCKETS, NEW l \in 1..BUCKETS, NEW x, x \in Range(q[k]), x \in Range(q[l])
               PROVE  k = l
    OBVIOUS
  <2>1. k - 1 = l - 1
    BY <1>0, <1>2
  <2> QED
    BY <1>0, <2>1
<1>6. /\ FlattenSeq(q) \in Seq(S) /\ IsInjective(FlattenSeq(q))
      /\ \A x : x \in Range(FlattenSeq(q)) <=> \E k \in 1..BUCKETS : x \in Range(q[k])
  <2>1. Apart(S, q, BUCKETS)
    BY <1>0, <1>2, <1>3, <1>5 DEF Apart
  <2>2. AllOf(S, q, BUCKETS, FlattenSeq(q))
    BY <2>1, FlattenFacts
  <2> QED
    BY <2>2 DEF AllOf
<1>7. \A x : (\E k \in 1..BUCKETS : x \in Range(q[k])) <=> \E h \in Buckets : x \in Reach(scope[h])
  <2> SUFFICES ASSUME NEW x
               PROVE  (\E k \in 1..BUCKETS : x \in Range(q[k])) <=> \E h \in Buckets : x \in Reach(scope[h])
    OBVIOUS
  <2>1. ASSUME NEW k \in 1..BUCKETS, x \in Range(q[k]) PROVE \E h \in Buckets : x \in Reach(scope[h])
    BY <1>0, <1>2, <2>1
  <2>2. ASSUME NEW h \in Buckets, x \in Reach(scope[h]) PROVE \E k \in 1..BUCKETS : x \in Range(q[k])
    BY <1>0, <1>2, <2>2
  <2> QED
    BY <2>1, <2>2
<1> QED
  BY <1>4, <1>6, <1>7 DEF S

LEMMA TableUnchanged == ASSUME TableInv, UNCHANGED <<scopes, symbols, freed>> PROVE TableInv'
<1>1. ChainFrom' = ChainFrom
  BY DEF ChainFrom
<1> QED
  BY <1>1 DEF TableInv, Linked, ScopesOK, OneOwner, FreedOK, OneOfAName, In, Reach

LEMMA PushKeeps == ASSUME TableInv, push_scope PROVE TableInv'
<1>1. /\ Len(symbols) \in Nat /\ Len(scopes) \in Nat /\ DOMAIN scopes = 1..Len(scopes)
      /\ scopes \in Seq([Buckets -> 0..Len(symbols)])
  BY TableFacts DEF TableInv, ScopesOK
<1>2. scopes' = Append(scopes, Empty) /\ symbols' = symbols /\ freed' = freed
  BY DEF push_scope
<1>3. Empty \in [Buckets -> 0..Len(symbols)] /\ \A h \in Buckets : Empty[h] = 0
  BY <1>1 DEF Empty
<1>4. /\ scopes' \in Seq([Buckets -> 0..Len(symbols)]) /\ DOMAIN scopes' = 1..(Len(scopes) + 1)
      /\ \A i \in 1..(Len(scopes) + 1) :
           scopes'[i] = IF i \in DOMAIN scopes THEN scopes[i] ELSE Empty
  BY <1>1, <1>2, <1>3, AppendProperties
<1>5. ChainFrom' = ChainFrom
  BY <1>2 DEF ChainFrom
<1>6. \A i \in DOMAIN scopes', h \in Buckets : \A s : In(i, h, s)' <=> i \in DOMAIN scopes /\ In(i, h, s)
  <2> SUFFICES ASSUME NEW i \in DOMAIN scopes', NEW h \in Buckets, NEW s
               PROVE  In(i, h, s)' <=> i \in DOMAIN scopes /\ In(i, h, s)
    OBVIOUS
  <2>1. In(i, h, s)' <=> s \in Range(ChainFrom[scopes'[i][h]])
    BY <1>5 DEF In, Reach
  <2>2. CASE i \in DOMAIN scopes
    BY <1>4, <2>1, <2>2 DEF In, Reach
  <2>3. CASE i \notin DOMAIN scopes
    <3>1. scopes'[i][h] = 0 /\ Reach(0) = {}
      BY <1>3, <1>4, <2>3, ChainFacts DEF TableInv
    <3> QED
      BY <2>1, <2>3, <3>1 DEF Reach
  <2> QED
    BY <2>2, <2>3
<1>7. Linked'
  BY <1>2 DEF TableInv, Linked
<1>8. ScopesOK'
  <2>1. ASSUME NEW i \in DOMAIN scopes', NEW h \in Buckets, scopes'[i][h] # 0
        PROVE  hash_name[symbols[scopes'[i][h]].name] = h
    <3>1. i \in DOMAIN scopes /\ scopes'[i] = scopes[i]
      BY <1>3, <1>4, <2>1
    <3> QED
      BY <2>1, <3>1 DEF TableInv, ScopesOK
  <2> QED
    BY <1>2, <1>4, <2>1 DEF ScopesOK
<1>9. OneOwner'
  <2>1. \A i, j \in DOMAIN scopes' : \A h, g \in Buckets : \A s :
          In(i, h, s)' /\ In(j, g, s)' => i = j /\ h = g
    BY <1>6 DEF TableInv, OneOwner
  <2> QED
    BY <2>1 DEF OneOwner
<1>10. FreedOK'
  <2>1. \A s : (\E i \in DOMAIN scopes', h \in Buckets : In(i, h, s)')
                 <=> \E i \in DOMAIN scopes, h \in Buckets : In(i, h, s)
    <3>1. \A i \in DOMAIN scopes : i \in DOMAIN scopes'
      BY <1>1, <1>4
    <3> QED
      BY <1>6, <3>1
  <2>2. \A s \in 1..Len(symbols') :
          s \in Range(freed') <=> ~\E i \in DOMAIN scopes', h \in Buckets : In(i, h, s)'
    BY <1>2, <2>1 DEF TableInv, FreedOK
  <2> QED
    BY <1>2, <2>2 DEF TableInv, FreedOK
<1>11. OneOfAName'
  <2>1. \A i \in DOMAIN scopes', h \in Buckets : \A s, t :
          In(i, h, s)' /\ In(i, h, t)' /\ symbols'[s].name = symbols'[t].name => s = t
    BY <1>2, <1>6 DEF TableInv, OneOfAName
  <2> QED
    BY <2>1 DEF OneOfAName
<1> QED
  BY <1>7, <1>8, <1>9, <1>10, <1>11 DEF TableInv

\* pop_scope(), and sema_free() where one scope is left.
Closes ==
  /\ Len(scopes) # 0
  /\ scopes' = SubSeq(scopes, 1, Len(scopes) - 1) /\ freed' = freed \o scope_free(scopes[Len(scopes)])
  /\ symbols' = symbols

LEMMA CloseKeeps == ASSUME TableInv, Closes PROVE TableInv'
<1> DEFINE L == Len(scopes)
           inner == scopes[L]
<1>1. /\ Len(symbols) \in Nat /\ L \in Nat /\ DOMAIN scopes = 1..L
      /\ scopes \in Seq([Buckets -> 0..Len(symbols)])
  BY TableFacts DEF TableInv, ScopesOK
<1>2. /\ L \in DOMAIN scopes /\ inner \in [Buckets -> 0..Len(symbols)]
      /\ symbols' = symbols /\ freed' = freed \o scope_free(inner)
  BY <1>1 DEF Closes
<1>3. /\ scopes' \in Seq([Buckets -> 0..Len(symbols)]) /\ DOMAIN scopes' = 1..(L - 1)
      /\ \A i \in 1..(L - 1) : i \in DOMAIN scopes /\ i # L /\ scopes'[i] = scopes[i]
  <2>1. 1..(L - 1) \subseteq 1..L /\ L - 1 \in Nat
    BY <1>1, <1>2
  <2>2. scopes' = SubSeq(scopes, 1, L - 1)
    BY DEF Closes
  <2>3. /\ SubSeq(scopes, 1, L - 1) \in Seq([Buckets -> 0..Len(symbols)])
        /\ DOMAIN SubSeq(scopes, 1, L - 1) = 1..(L - 1)
        /\ \A i \in 1..(L - 1) : SubSeq(scopes, 1, L - 1)[i] = scopes[i]
    <3> DEFINE S == [Buckets -> 0..Len(symbols)]
               m == L - 1
    <3>1. scopes \in Seq(S) /\ m \in Nat /\ m <= Len(scopes)
      BY <1>1, <2>1
    <3> HIDE DEF S, m
    <3>2. /\ SubSeq(scopes, 1, m) \in Seq(S) /\ DOMAIN SubSeq(scopes, 1, m) = 1..m
          /\ \A i \in 1..m : SubSeq(scopes, 1, m)[i] = scopes[i]
      BY <3>1
    <3> QED
      BY <3>2 DEF S, m
  <2>4. \A i \in 1..(L - 1) : i \in DOMAIN scopes /\ i # L
    <3>1. L \in Nat /\ DOMAIN scopes = 1..L
      BY <1>1
    <3> HIDE DEF L
    <3> QED
      BY <3>1
  <2> HIDE DEF L
  <2> QED
    BY <2>2, <2>3, <2>4, Zenon
<1>4. ChainFrom' = ChainFrom
  BY <1>2 DEF ChainFrom
<1>5. \A i \in DOMAIN scopes', h \in Buckets : \A s : In(i, h, s)' <=> In(i, h, s)
  BY <1>3, <1>4 DEF In, Reach
<1> DEFINE gone == scope_free(inner)
<1>6. /\ gone \in Seq(1..Len(symbols)) /\ IsInjective(gone)
      /\ \A s : s \in Range(gone) <=> \E h \in Buckets : In(L, h, s)
  <2>1. \A h, g \in Buckets : \A s : s \in Reach(inner[h]) /\ s \in Reach(inner[g]) => h = g
    BY <1>2 DEF TableInv, OneOwner, In
  <2>2. Linked
    BY DEF TableInv
  <2> HIDE DEF inner
  <2>3. /\ scope_free(inner) \in Seq(1..Len(symbols)) /\ IsInjective(scope_free(inner))
        /\ \A s : s \in Range(scope_free(inner)) <=> \E h \in Buckets : s \in Reach(inner[h])
    BY <1>2, <2>1, <2>2, FreeFacts
  <2> QED
    BY <2>3 DEF In, inner
<1>7. /\ freed' \in Seq(1..Len(symbols)) /\ IsInjective(freed')
      /\ \A s : s \in Range(freed') <=> s \in Range(freed) \/ s \in Range(gone)
  <2>1. freed \in Seq(1..Len(symbols)) /\ IsInjective(freed)
    BY DEF TableInv, FreedOK
  <2>2. \A s : ~(s \in Range(freed) /\ s \in Range(gone))
    <3> SUFFICES ASSUME NEW s, s \in Range(freed), s \in Range(gone) PROVE FALSE
      OBVIOUS
    <3>1. PICK h \in Buckets : In(L, h, s)
      BY <1>6
    <3>2. s \in 1..Len(symbols)
      BY <1>2, <3>1, TableFacts DEF TableInv
    <3> QED
      BY <1>2, <3>1, <3>2 DEF TableInv, FreedOK
  <2>3. freed' = freed \o gone
    BY <1>2
  <2> HIDE DEF gone
  <2> QED
    BY <1>6, <2>1, <2>2, <2>3, ConcatInjective
<1> HIDE DEF gone, inner
<1>8. Linked'
  BY <1>2 DEF TableInv, Linked
<1>9. ScopesOK'
  <2>1. \A i \in DOMAIN scopes', h \in Buckets :
          scopes'[i][h] # 0 => hash_name[symbols[scopes'[i][h]].name] = h
    <3>1. \A i \in DOMAIN scopes, h \in Buckets :
            scopes[i][h] # 0 => hash_name[symbols[scopes[i][h]].name] = h
      BY DEF TableInv, ScopesOK
    <3>2. \A i \in DOMAIN scopes' : i \in DOMAIN scopes /\ scopes'[i] = scopes[i]
      BY <1>3
    <3> QED
      BY <3>1, <3>2
  <2> QED
    BY <1>2, <1>3, <2>1 DEF ScopesOK
<1>10. OneOwner'
  <2>1. \A i, j \in DOMAIN scopes' : \A h, g \in Buckets : \A s :
          In(i, h, s)' /\ In(j, g, s)' => i = j /\ h = g
    BY <1>3, <1>5 DEF TableInv, OneOwner
  <2> QED
    BY <2>1 DEF OneOwner
<1>11. FreedOK'
  <2>1. ASSUME NEW s \in 1..Len(symbols)
        PROVE  s \in Range(freed') <=> ~\E i \in DOMAIN scopes', h \in Buckets : In(i, h, s)'
    <3>1. (\E i \in DOMAIN scopes', h \in Buckets : In(i, h, s)')
            <=> \E i \in DOMAIN scopes : i # L /\ \E h \in Buckets : In(i, h, s)
      <4>1. \A i \in DOMAIN scopes : i # L => i \in DOMAIN scopes'
        BY <1>1, <1>3
      <4> QED
        BY <1>3, <1>5, <4>1
    <3>2. s \in Range(freed) <=> ~\E i \in DOMAIN scopes, h \in Buckets : In(i, h, s)
      BY DEF TableInv, FreedOK
    <3>3. \A h \in Buckets : In(L, h, s) => \A i \in DOMAIN scopes : \A g \in Buckets : In(i, g, s) => i = L
      BY <1>2 DEF TableInv, OneOwner
    <3>4. s \in Range(freed') <=> s \in Range(freed) \/ \E h \in Buckets : In(L, h, s)
      BY <1>6, <1>7
    <3> HIDE DEF L
    <3> QED
      BY <1>2, <3>1, <3>2, <3>3, <3>4
  <2> QED
    BY <1>2, <1>7, <2>1 DEF FreedOK
<1>12. OneOfAName'
  <2>1. \A i \in DOMAIN scopes', h \in Buckets : \A s, t :
          In(i, h, s)' /\ In(i, h, t)' /\ symbols'[s].name = symbols'[t].name => s = t
    BY <1>2, <1>3, <1>5 DEF TableInv, OneOfAName
  <2> QED
    BY <2>1 DEF OneOfAName
<1> QED
  BY <1>8, <1>9, <1>10, <1>11, <1>12 DEF TableInv

\* What an insertion changes: the innermost scope L leads to the new symbol too.
LEMMA InsertedIn ==
  ASSUME TableInv, NEW x \in Names, NEW info \in Infos, scope_insert(x, info), FirstIn(Current, x) = 0
  PROVE  LET L == Len(scopes)
             new == Len(symbols) + 1
         IN  /\ L \in DOMAIN scopes /\ Linked' /\ ScopesOK' /\ DOMAIN scopes' = DOMAIN scopes
             /\ Len(symbols') = new /\ symbols'[new].name = x /\ symbols'[new].info = info
             /\ \A s \in 1..Len(symbols) : symbols'[s] = symbols[s]
             /\ \A i \in DOMAIN scopes, h \in Buckets : \A s :
                  In(i, h, s)' <=> In(i, h, s) \/ (i = L /\ h = hash_name[x] /\ s = new)
<1> DEFINE L == Len(scopes)
           N == Len(symbols)
           new == Len(symbols) + 1
           hash == hash_name[x]
           next == scopes[L][hash]
           entry == [name |-> x, info |-> info, next |-> next]
<1>1. /\ N \in Nat /\ L \in Nat /\ DOMAIN scopes = 1..L
      /\ scopes \in Seq([Buckets -> 0..N]) /\ symbols \in Seq(SymbolSet)
  BY TableFacts DEF TableInv, ScopesOK, Linked
<1>2. L # 0 /\ L \in DOMAIN scopes /\ Current = scopes[L]
  <2>1. scopes # <<>>
    BY DEF scope_insert
  <2>2. L # 0
    BY <1>1, <2>1
  <2> QED
    BY <1>1, <2>2 DEF Current, Last
<1>3. hash \in Buckets /\ next \in 0..N /\ (next # 0 => hash_name[symbols[next].name] = hash)
  <2>1. hash \in Buckets
    BY SymbolTableAssumption DEF SymbolTableAssumption
  <2>2. next \in 0..N
    BY <1>1, <1>2, <2>1
  <2>3. next # 0 => hash_name[symbols[next].name] = hash
    BY <1>2, <2>1 DEF TableInv, ScopesOK
  <2> QED
    BY <2>1, <2>2, <2>3
<1>4. symbols' = Append(symbols, entry) /\ scopes' = [scopes EXCEPT ![L][hash] = new]
  BY <1>2 DEF scope_insert
<1>5. entry \in SymbolSet /\ entry.name = x /\ entry.info = info /\ entry.next = next
  BY <1>1, <1>3 DEF SymbolSet
<1> HIDE DEF entry
<1>6. /\ symbols' \in Seq(SymbolSet) /\ Len(symbols') = new /\ symbols'[new] = entry
      /\ \A s \in 1..N : symbols'[s] = symbols[s]
  BY <1>1, <1>4, <1>5, AppendProperties
<1>7. /\ DOMAIN scopes' = DOMAIN scopes
      /\ \A i \in DOMAIN scopes : scopes'[i] \in [Buckets -> 0..new]
      /\ \A i \in DOMAIN scopes, h \in Buckets :
           scopes'[i][h] = IF i = L /\ h = hash THEN new ELSE scopes[i][h]
  <2>1. \A i \in DOMAIN scopes : scopes[i] \in [Buckets -> 0..N]
    BY <1>1
  <2>2. new \in 0..new /\ \A k \in 0..N : k \in 0..new
    BY <1>1
  <2> HIDE DEF new, N, L, hash
  <2> QED
    BY <1>2, <1>3, <1>4, <2>1, <2>2
<1>8. Linked'
  <2>1. ASSUME NEW s \in 1..new
        PROVE  /\ symbols'[s].next < s
               /\ symbols'[s].next # 0 => hash_name[symbols'[symbols'[s].next].name] = hash_name[symbols'[s].name]
    <3>1. CASE s = new
      BY <1>1, <1>3, <1>5, <1>6, <3>1
    <3>2. CASE s # new
      <4>1. s \in 1..N
        BY <1>1, <3>2
      <4>2. symbols[s].next \in 0..(s - 1)
        BY <4>1, OlderFacts DEF TableInv
      <4>3. symbols[s].next # 0 => symbols[s].next \in 1..N
        BY <1>1, <4>1, <4>2
      <4> QED
        BY <1>6, <4>1, <4>2, <4>3 DEF TableInv, Linked
    <3> QED
      BY <3>1, <3>2
  <2>2. symbols' \in Seq(SymbolSet) /\ Len(symbols') = new
    BY <1>6
  <2> HIDE DEF new
  <2>3. \A s \in 1..Len(symbols') :
          /\ symbols'[s].next < s
          /\ symbols'[s].next # 0 => hash_name[symbols'[symbols'[s].next].name] = hash_name[symbols'[s].name]
    BY <2>1, <2>2
  <2> QED
    BY <2>2, <2>3 DEF Linked

<1>9. /\ \A s \in 0..N : ChainFrom'[s] = ChainFrom[s]
      /\ \A s : s \in Range(ChainFrom'[new]) <=> s = new \/ s \in Reach(next)
  <2>1. N <= Len(symbols') /\ Linked
    BY <1>1, <1>6 DEF TableInv
  <2>2. /\ \A s \in 0..N : ChainFrom'[s] = ChainFrom[s]
        /\ \A s \in 1..new : Older'[s] = symbols'[s].next /\ ChainFrom'[s] = <<s>> \o ChainFrom'[Older'[s]]
    BY <1>6, <1>8, <2>1, ChainsKept
  <2>3. new \in 1..new /\ Older'[new] = next
    <3>1. new \in 1..new
      BY <1>1
    <3> QED
      BY <1>5, <1>6, <2>2, <3>1
  <2>4. ChainFrom'[new] = <<new>> \o ChainFrom[next]
    <3>1. ChainFrom'[new] = <<new>> \o ChainFrom'[next]
      BY <2>2, <2>3
    <3>2. ChainFrom'[next] = ChainFrom[next]
      BY <1>3, <2>2
    <3> QED
      BY <3>1, <3>2
  <2> DEFINE u == <<new>>
             c == ChainFrom[next]
  <2>5. Range(u \o c) = Range(u) \cup Range(c)
    <3>1. u \in Seq(Nat) /\ c \in Seq(Nat)
      <4>1. c \in Seq(1..N) /\ 1..N \subseteq Nat
        BY <1>1, <1>3, <2>1, ChainFacts
      <4> QED
        BY <1>1, <4>1
    <3> HIDE DEF u, c
    <3> QED
      BY <3>1, RangeConcatenation
  <2>6. \A s : s \in Range(u) <=> s = new
    <3>1. DOMAIN u = {1} /\ u[1] = new
      OBVIOUS
    <3> QED
      BY <3>1, RangeIs
  <2>7. ChainFrom'[new] = u \o c /\ Range(c) = Reach(next)
    BY <2>4 DEF Reach
  <2> HIDE DEF u, c
  <2>8. \A s : s \in Range(ChainFrom'[new]) <=> s = new \/ s \in Reach(next)
    BY <2>5, <2>6, <2>7
  <2> QED
    BY <2>2, <2>8
<1>10. \A i \in DOMAIN scopes, h \in Buckets : \A s :
         In(i, h, s)' <=> In(i, h, s) \/ (i = L /\ h = hash /\ s = new)
  <2> SUFFICES ASSUME NEW i \in DOMAIN scopes, NEW h \in Buckets, NEW s
               PROVE  In(i, h, s)' <=> In(i, h, s) \/ (i = L /\ h = hash /\ s = new)
    OBVIOUS
  <2>1. In(i, h, s)' <=> s \in Range(ChainFrom'[scopes'[i][h]])
    BY DEF In, Reach
  <2>2. CASE i = L /\ h = hash
    BY <1>7, <1>9, <2>1, <2>2 DEF In
  <2>3. CASE ~(i = L /\ h = hash)
    <3>1. scopes'[i][h] = scopes[i][h] /\ scopes[i][h] \in 0..N
      BY <1>1, <1>7, <2>3
    <3>2. ChainFrom'[scopes'[i][h]] = ChainFrom[scopes[i][h]]
      BY <1>9, <3>1
    <3> QED
      BY <2>1, <2>3, <3>2 DEF In, Reach
  <2> QED
    BY <2>2, <2>3
<1>11. ScopesOK'
  <2>1. scopes' \in Seq([Buckets -> 0..new])
    <3>1. scopes' = [i \in 1..L |-> scopes'[i]] /\ \A i \in 1..L : scopes'[i] \in [Buckets -> 0..new]
      BY <1>1, <1>4, <1>7
    <3>2. L \in Nat
      BY <1>1
    <3> DEFINE S == [Buckets -> 0..new]
               g == scopes'
    <3>3. g = [i \in 1..L |-> g[i]] /\ \A i \in 1..L : g[i] \in S
      BY <3>1
    <3> HIDE DEF S, L, g
    <3>4. g \in Seq(S)
      BY <3>2, <3>3
    <3> QED
      BY <3>4 DEF S, g
  <2>2. ASSUME NEW i \in DOMAIN scopes, NEW h \in Buckets, scopes'[i][h] # 0
        PROVE  hash_name[symbols'[scopes'[i][h]].name] = h
    <3>1. CASE i = L /\ h = hash
      BY <1>5, <1>6, <1>7, <3>1
    <3>2. CASE ~(i = L /\ h = hash)
      <4>1. scopes'[i][h] = scopes[i][h] /\ scopes[i][h] \in 1..N
        <5>1. scopes'[i][h] = scopes[i][h] /\ scopes[i][h] \in 0..N
          BY <1>1, <1>7, <3>2
        <5> QED
          BY <1>1, <2>2, <5>1
      <4> QED
        <5>1. scopes[i][h] # 0 => hash_name[symbols[scopes[i][h]].name] = h
          BY DEF TableInv, ScopesOK
        <5>2. symbols'[scopes[i][h]] = symbols[scopes[i][h]]
          BY <1>6, <4>1
        <5> QED
          BY <2>2, <4>1, <5>1, <5>2
    <3> QED
      BY <3>1, <3>2
  <2> HIDE DEF new
  <2> QED
    BY <1>6, <1>7, <2>1, <2>2 DEF ScopesOK
<1> QED
  BY <1>2, <1>5, <1>6, <1>7, <1>8, <1>10, <1>11

LEMMA InsertKeeps ==
  ASSUME TableInv, NEW x \in Names, NEW info \in Infos, scope_insert(x, info)
  PROVE  TableInv'
<1>1. CASE FirstIn(Current, x) # 0
  BY <1>1, TableUnchanged DEF scope_insert
<1>2. CASE FirstIn(Current, x) = 0
  <2> DEFINE L == Len(scopes)
             N == Len(symbols)
             new == Len(symbols) + 1
             hash == hash_name[x]
  <2>1. /\ L \in DOMAIN scopes /\ Linked' /\ ScopesOK' /\ DOMAIN scopes' = DOMAIN scopes
        /\ Len(symbols') = new /\ symbols'[new].name = x
        /\ \A s \in 1..N : symbols'[s] = symbols[s]
        /\ \A i \in DOMAIN scopes, h \in Buckets : \A s :
             In(i, h, s)' <=> In(i, h, s) \/ (i = L /\ h = hash /\ s = new)
    BY <1>2, InsertedIn
  <2>2. N \in Nat /\ \A i \in DOMAIN scopes, h \in Buckets : \A s : In(i, h, s) => s \in 1..N
    BY TableFacts DEF TableInv
  <2>3. new \notin 1..N /\ 1..new = 1..N \cup {new} /\ hash \in Buckets
    BY <2>2, SymbolTableAssumption DEF SymbolTableAssumption
  <2>4. freed' = freed
    BY DEF scope_insert
  <2>5. \A h \in Buckets : \A t : In(L, h, t) => symbols[t].name # x
    <3> SUFFICES ASSUME NEW h \in Buckets, NEW t, In(L, h, t), symbols[t].name = x PROVE FALSE
      OBVIOUS
    <3>1. hash_name[symbols[t].name] = h
      BY <2>1, TableFacts DEF TableInv
    <3>2. scopes[L] \in [Buckets -> 0..N] /\ Current = scopes[L]
      BY <2>1, TableFacts DEF TableInv, Current, Last
    <3>3. \A r \in Reach(scopes[L][hash]) : symbols[r].name # x
      BY <1>2, <3>2, FirstInFacts DEF TableInv
    <3> QED
      BY <3>1, <3>3 DEF In
  <2> HIDE DEF L, N, new, hash
  <2>6. OneOwner'
    <3>1. \A i, j \in DOMAIN scopes' : \A h, g \in Buckets : \A s :
            In(i, h, s)' /\ In(j, g, s)' => i = j /\ h = g
      BY <2>1, <2>2, <2>3 DEF TableInv, OneOwner
    <3> QED
      BY <3>1 DEF OneOwner
  <2>7. FreedOK'
    <3>1. \A s \in Range(freed) : s \in 1..N
      BY RangeIs DEF TableInv, FreedOK, N
    <3>2. \A s \in 1..new :
            s \in Range(freed') <=> ~\E i \in DOMAIN scopes', h \in Buckets : In(i, h, s)'
      <4>1. ASSUME NEW s \in 1..N
            PROVE  s \in Range(freed) <=> ~\E i \in DOMAIN scopes', h \in Buckets : In(i, h, s)'
        <5>1. s \in Range(freed) <=> ~\E i \in DOMAIN scopes, h \in Buckets : In(i, h, s)
          BY DEF TableInv, FreedOK, N
        <5> QED
          BY <2>1, <2>3, <5>1
      <4>2. new \notin Range(freed)
        BY <2>3, <3>1
      <4>3. \A s : s = new => \E i \in DOMAIN scopes', h \in Buckets : In(i, h, s)'
        BY <2>1, <2>3
      <4> QED
        BY <2>1, <2>3, <2>4, <4>1, <4>2, <4>3
    <3>3. freed' \in Seq(1..new) /\ IsInjective(freed')
      <4>1. 1..N \subseteq 1..new /\ freed \in Seq(1..N) /\ IsInjective(freed)
        BY <2>3 DEF TableInv, FreedOK, N
      <4> DEFINE A == 1..N
                 B == 1..new
      <4>2. A \subseteq B /\ freed \in Seq(A)
        BY <4>1
      <4> HIDE DEF A, B
      <4>3. freed \in Seq(B)
        BY <4>2
      <4> QED
        BY <2>4, <4>1, <4>3 DEF B
    <3> QED
      BY <2>1, <3>2, <3>3 DEF FreedOK
  <2>8. OneOfAName'
    <3>1. ASSUME NEW i \in DOMAIN scopes, NEW h \in Buckets, NEW s, NEW t,
                 In(i, h, s)', In(i, h, t)', symbols'[s].name = symbols'[t].name
          PROVE  s = t
      <4>1. CASE In(i, h, s) /\ In(i, h, t)
        <5>1. symbols[s].name = symbols[t].name
          BY <2>1, <2>2, <3>1, <4>1
        <5> QED
          BY <4>1, <5>1 DEF TableInv, OneOfAName
      <4>2. CASE In(i, h, s) /\ i = L /\ t = new
        BY <2>1, <2>2, <2>5, <3>1, <4>2
      <4>3. CASE In(i, h, t) /\ i = L /\ s = new
        BY <2>1, <2>2, <2>5, <3>1, <4>3
      <4>4. CASE s = new /\ t = new
        BY <4>4
      <4> QED
        BY <2>1, <3>1, <4>1, <4>2, <4>3, <4>4
    <3>2. \A i \in DOMAIN scopes', h \in Buckets : \A s, t :
            In(i, h, s)' /\ In(i, h, t)' /\ symbols'[s].name = symbols'[t].name => s = t
      BY <2>1, <3>1
    <3> QED
      BY <3>2 DEF OneOfAName
  <2> QED
    BY <2>1, <2>6, <2>7, <2>8 DEF TableInv
<1> QED
  BY <1>1, <1>2

LEMMA TableStarts == TableInit => TableInv
<1> SUFFICES ASSUME TableInit PROVE TableInv
  OBVIOUS
<1>1. scopes = <<Empty>> /\ symbols = <<>> /\ freed = <<>>
  BY DEF TableInit
<1>2. Len(symbols) = 0 /\ symbols \in Seq(SymbolSet) /\ 1..0 = {}
  BY <1>1
<1>3. Linked
  BY <1>2 DEF Linked
<1>4. Empty \in [Buckets -> 0..0] /\ \A h \in Buckets : Empty[h] = 0
  BY DEF Empty
<1>5. DOMAIN scopes = {1} /\ scopes[1] = Empty /\ scopes \in Seq([Buckets -> 0..0])
  BY <1>1, <1>4
<1>6. ScopesOK
  BY <1>2, <1>4, <1>5 DEF ScopesOK
<1>7. \A i \in DOMAIN scopes, h \in Buckets : \A s : ~In(i, h, s)
  BY <1>3, <1>4, <1>5, ChainFacts DEF In
<1>8. OneOwner /\ OneOfAName
  BY <1>7 DEF OneOwner, OneOfAName
<1>9. FreedOK
  <2>1. freed \in Seq(1..Len(symbols)) /\ DOMAIN freed = {}
    BY <1>1
  <2> QED
    BY <1>2, <2>1 DEF FreedOK, IsInjective
<1> QED
  BY <1>3, <1>6, <1>8, <1>9 DEF TableInv

LEMMA ClosesIs ==
  ASSUME scopes \in Seq([Buckets -> 0..Len(symbols)]), pop_scope \/ sema_free PROVE Closes
<1>1. CASE pop_scope
  BY <1>1 DEF pop_scope, Closes, Current, Last, Front
<1>2. CASE sema_free
  <2>1. SubSeq(scopes, 1, 0) = <<>>
    OBVIOUS
  <2> QED
    BY <1>2, <2>1 DEF sema_free, Closes, Current, Last
<1> QED
  BY <1>1, <1>2

LEMMA TableSteps == TableInv /\ [TableNext]_tableVars => TableInv'
<1> SUFFICES ASSUME TableInv, [TableNext]_tableVars PROVE TableInv'
  OBVIOUS
<1>0. Len(scopes) \in Nat /\ scopes \in Seq([Buckets -> 0..Len(symbols)])
  BY TableFacts DEF TableInv, ScopesOK
<1>1. CASE push_scope
  BY <1>1, PushKeeps
<1>2. CASE pop_scope \/ sema_free
  <2>1. Closes
    BY <1>0, <1>2, ClosesIs
  <2> QED
    BY <2>1, CloseKeeps
<1>3. CASE Over
  BY <1>3, TableUnchanged DEF Over, tableVars
<1>4. ASSUME NEW x \in Names, scope_lookup(x) PROVE TableInv'
  BY <1>4, TableUnchanged DEF scope_lookup
<1>5. ASSUME NEW x \in Names, NEW info \in Infos, scope_insert(x, info) PROVE TableInv'
  BY <1>5, InsertKeeps
<1>6. CASE UNCHANGED tableVars
  BY <1>6, TableUnchanged DEF tableVars
<1> QED
  BY <1>1, <1>2, <1>3, <1>4, <1>5, <1>6 DEF TableNext

LEMMA HeldIs == \A i : \A s : s \in Held(scopes[i]) <=> \E h \in Buckets : In(i, h, s)
<1> SUFFICES ASSUME NEW i, NEW s PROVE s \in Held(scopes[i]) <=> \E h \in Buckets : In(i, h, s)
  OBVIOUS
<1> DEFINE reach(h) == Range(ChainFrom[scopes[i][h]])
<1>1. \A h \in Buckets : In(i, h, s) <=> s \in reach(h)
  BY DEF In, Reach
<1>2. Held(scopes[i]) = UNION {reach(h) : h \in Buckets}
  BY DEF Held
<1> HIDE DEF reach
<1> QED
  BY <1>1, <1>2

LEMMA OwnedOnce == TableInv => SymbolsOwned
<1> SUFFICES ASSUME TableInv, NEW s \in DOMAIN symbols
             PROVE  Cardinality({i \in DOMAIN scopes : s \in Held(scopes[i])})
                      = IF s \in Range(freed) THEN 0 ELSE 1
  BY DEF TableInv, FreedOK, SymbolsOwned
<1> DEFINE owners == {i \in DOMAIN scopes : s \in Held(scopes[i])}
<1>1. s \in 1..Len(symbols)
  BY DEF TableInv, Linked
<1>2. \A i : i \in owners <=> i \in DOMAIN scopes /\ \E h \in Buckets : In(i, h, s)
  BY HeldIs
<1>3. s \in Range(freed) <=> owners = {}
  <2>1. s \in Range(freed) <=> ~\E i \in DOMAIN scopes, h \in Buckets : In(i, h, s)
    BY <1>1 DEF TableInv, FreedOK
  <2> HIDE DEF owners
  <2> QED
    BY <1>2, <2>1
<1>4. \A i, j \in owners : i = j
  <2> HIDE DEF owners
  <2> QED
    BY <1>2 DEF TableInv, OneOwner
<1> HIDE DEF owners
<1>5. CASE owners = {}
  BY <1>3, <1>5, FS_EmptySet DEF owners
<1>6. CASE owners # {}
  <2>1. PICK i : owners = {i}
    BY <1>4, <1>6
  <2>2. Cardinality(owners) = 1
    BY <2>1, FS_Singleton
  <2> QED
    BY <1>3, <1>6, <2>2 DEF owners
<1> QED
  BY <1>5, <1>6

(* Whatever is declared and looked up, and however the names hash: a symbol is in one bucket of   *)
(* one open scope until pop_scope() or sema_free() pops that scope, and then it was freed, once.  *)
THEOREM SymbolsAreOwned == TableSpec => []SymbolsOwned
<1>1. TableSpec => []TableInv
  BY TableStarts, TableSteps, PTL DEF TableSpec
<1> QED
  BY <1>1, OwnedOnce, PTL

-----------------------------------------------------------------------------
(* The refinement: what the scopes mean, step by step. *)

Abs == [i \in DOMAIN scopes |-> Meant(scopes[i])]

\* f is the meaning of scope i.
IsMeant(f, i) ==
  /\ f = [x \in DOMAIN f |-> f[x]]
  /\ \A x : x \in DOMAIN f <=> \E h \in Buckets : \E s : In(i, h, s) /\ symbols[s].name = x
  /\ \A h \in Buckets : \A s : In(i, h, s) => f[symbols[s].name] = symbols[s].info

LEMMA MeantFacts == ASSUME TableInv, NEW i \in DOMAIN scopes PROVE IsMeant(Meant(scopes[i]), i)
<1> DEFINE held == Held(scopes[i])
           declared == {symbols[s].name : s \in held}
           the(x) == CHOOSE s \in held : symbols[s].name = x
           f == [x \in declared |-> symbols[the(x)].info]
<1>1. \A s : s \in held <=> \E h \in Buckets : In(i, h, s)
  BY HeldIs
<1>2. Meant(scopes[i]) = f
  BY DEF Meant
<1>3. \A s, t \in held : symbols[s].name = symbols[t].name => s = t
  <2> SUFFICES ASSUME NEW s \in held, NEW t \in held, symbols[s].name = symbols[t].name PROVE s = t
    OBVIOUS
  <2>1. PICK h \in Buckets : In(i, h, s)
    BY <1>1
  <2>2. PICK g \in Buckets : In(i, g, t)
    BY <1>1
  <2>3. g = h
    BY <2>1, <2>2, TableFacts DEF TableInv
  <2> QED
    BY <2>1, <2>2, <2>3 DEF TableInv, OneOfAName
<1> HIDE DEF held
<1>4. \A s \in held : symbols[s].name \in declared /\ the(symbols[s].name) = s
  BY <1>3
<1> HIDE DEF the
<1>5. \A s \in held : f[symbols[s].name] = symbols[s].info
  BY <1>4
<1>6. \A x : x \in DOMAIN f <=> \E s : s \in held /\ symbols[s].name = x
  OBVIOUS
<1>7. f = [x \in DOMAIN f |-> f[x]]
  OBVIOUS
<1> HIDE DEF f
<1> QED
  BY <1>1, <1>2, <1>5, <1>6, <1>7 DEF IsMeant

\* What scope_find() finds in one scope.
LEMMA FindsMeant ==
  ASSUME TableInv, NEW i \in DOMAIN scopes, NEW x \in Names
  PROVE  LET s == FirstIn(scopes[i], x)
             f == Meant(scopes[i])
         IN  (s # 0 <=> x \in DOMAIN f) /\ (s # 0 => symbols[s].info = f[x])
<1> DEFINE s == FirstIn(scopes[i], x)
           f == Meant(scopes[i])
           hash == hash_name[x]
<1>1. IF s = 0 THEN \A t \in Reach(scopes[i][hash]) : symbols[t].name # x
      ELSE s \in Reach(scopes[i][hash]) /\ symbols[s].name = x
  BY TableFacts, FirstInFacts DEF TableInv
<1>2. hash \in Buckets
  BY SymbolTableAssumption DEF SymbolTableAssumption
<1>3. IsMeant(f, i)
  BY MeantFacts
<1> HIDE DEF s, f
<1>4. CASE s = 0
  <2>1. \A h \in Buckets : \A t : In(i, h, t) => symbols[t].name # x
    <3> SUFFICES ASSUME NEW h \in Buckets, NEW t, In(i, h, t), symbols[t].name = x PROVE FALSE
      OBVIOUS
    <3>1. hash_name[symbols[t].name] = h
      BY TableFacts DEF TableInv
    <3> QED
      BY <1>1, <1>4, <3>1 DEF In
  <2>2. x \notin DOMAIN f
    BY <1>3, <2>1 DEF IsMeant
  <2> QED
    BY <1>4, <2>2 DEF s, f
<1>5. CASE s # 0
  <2>1. In(i, hash, s) /\ symbols[s].name = x
    BY <1>1, <1>5 DEF In
  <2>2. x \in DOMAIN f /\ f[x] = symbols[s].info
    BY <1>2, <1>3, <2>1 DEF IsMeant
  <2> QED
    BY <1>5, <2>2 DEF s, f
<1> QED
  BY <1>4, <1>5

LEMMA AbsKept == symbols' = symbols => Abs' = [i \in DOMAIN scopes' |-> Meant(scopes'[i])]
<1> SUFFICES ASSUME symbols' = symbols PROVE Abs' = [i \in DOMAIN scopes' |-> Meant(scopes'[i])]
  OBVIOUS
<1>1. ChainFrom' = ChainFrom
  BY DEF ChainFrom
<1> QED
  BY <1>1 DEF Abs, Meant, Held

LEMMA MeantEmpty == ASSUME TableInv PROVE Meant(Empty) = [x \in {} |-> Nothing]
<1>1. \A h \in Buckets : Range(ChainFrom[Empty[h]]) = {}
  <2>1. Reach(0) = {} /\ \A h \in Buckets : Empty[h] = 0
    BY ChainFacts DEF TableInv, Empty
  <2> QED
    BY <2>1 DEF Reach
<1>2. Held(Empty) = {}
  <2> DEFINE reach(h) == Range(ChainFrom[Empty[h]])
  <2>1. Held(Empty) = UNION {reach(h) : h \in Buckets} /\ \A h \in Buckets : reach(h) = {}
    BY <1>1 DEF Held
  <2> HIDE DEF reach
  <2> QED
    BY <2>1
<1> QED
  BY <1>2 DEF Meant

LEMMA PushMeans == ASSUME TableInv, push_scope PROVE Ideal!Push
<1>1. /\ Len(symbols) \in Nat /\ Len(scopes) \in Nat /\ DOMAIN scopes = 1..Len(scopes)
      /\ scopes \in Seq([Buckets -> 0..Len(symbols)])
  BY TableFacts DEF TableInv, ScopesOK
<1>2. scopes' = Append(scopes, Empty) /\ symbols' = symbols /\ answer' = answer
  BY DEF push_scope
<1> DEFINE L == Len(scopes)
           nothing == [x \in {} |-> Nothing]
<1>3. /\ DOMAIN scopes' = 1..(L + 1)
      /\ \A i \in 1..(L + 1) : scopes'[i] = IF i = L + 1 THEN Empty ELSE scopes[i]
  BY <1>1, <1>2
<1>4. Abs' = [i \in 1..(L + 1) |-> IF i = L + 1 THEN nothing ELSE Meant(scopes[i])]
  <2>1. Abs' = [i \in 1..(L + 1) |-> Meant(scopes'[i])]
    BY <1>2, <1>3, AbsKept
  <2>2. \A i \in 1..(L + 1) : Meant(scopes'[i]) = IF i = L + 1 THEN nothing ELSE Meant(scopes[i])
    BY <1>3, MeantEmpty
  <2> HIDE DEF nothing, L
  <2> QED
    BY <2>1, <2>2
<1>5. Abs = [i \in 1..L |-> Meant(scopes[i])] /\ Len(Abs) = L
  BY <1>1 DEF Abs
<1>6. Abs' = Append(Abs, nothing)
  <2>1. Append(Abs, nothing) = [i \in 1..(L + 1) |-> IF i = L + 1 THEN nothing ELSE Abs[i]]
    BY <1>5
  <2>2. \A i \in 1..(L + 1) : i # L + 1 => Abs[i] = Meant(scopes[i])
    <3>1. \A i \in 1..(L + 1) : i # L + 1 => i \in 1..L
      BY <1>1
    <3> HIDE DEF L
    <3> QED
      BY <1>5, <3>1
  <2> HIDE DEF nothing, L
  <2> QED
    BY <1>4, <2>1, <2>2
<1> QED
  BY <1>2, <1>6 DEF Ideal!Push, Abs

LEMMA CloseMeans == ASSUME TableInv, Closes, answer' = answer PROVE Ideal!Pop
<1> DEFINE L == Len(scopes)
<1>1. /\ Len(symbols) \in Nat /\ L \in Nat /\ DOMAIN scopes = 1..L /\ L # 0
      /\ scopes \in Seq([Buckets -> 0..Len(symbols)])
  BY TableFacts DEF TableInv, ScopesOK, Closes
<1>2. scopes' = SubSeq(scopes, 1, L - 1) /\ symbols' = symbols
  BY DEF Closes
<1>3. /\ DOMAIN scopes' = 1..(L - 1)
      /\ \A i \in 1..(L - 1) : scopes'[i] = scopes[i]
  BY <1>1, <1>2
<1>4. Abs' = [i \in 1..(L - 1) |-> Meant(scopes[i])]
  <2>1. Abs' = [i \in 1..(L - 1) |-> Meant(scopes'[i])]
    BY <1>2, <1>3, AbsKept
  <2> HIDE DEF L
  <2> QED
    BY <1>3, <2>1
<1>5. Abs = [i \in 1..L |-> Meant(scopes[i])] /\ Len(Abs) = L
  BY <1>1 DEF Abs
<1>6. Abs' = SubSeq(Abs, 1, L - 1)
  <2>1. SubSeq(Abs, 1, L - 1) = [i \in 1..(L - 1) |-> Abs[1 + i - 1]]
    BY <1>1
  <2>2. \A i \in 1..(L - 1) : 1 + i - 1 = i /\ i \in 1..L
    BY <1>1
  <2> HIDE DEF L
  <2> QED
    BY <1>4, <1>5, <2>1, <2>2
<1>7. Abs # <<>>
  BY <1>1, <1>5
<1> QED
  BY <1>5, <1>6, <1>7 DEF Ideal!Pop, Ideal!Inner, Abs

LEMMA AbsFacts ==
  TableInv => DOMAIN Abs = DOMAIN scopes /\ \A i \in DOMAIN scopes : IsMeant(Abs[i], i)
<1> SUFFICES ASSUME TableInv, NEW i \in DOMAIN scopes PROVE IsMeant(Abs[i], i)
  BY DEF Abs
<1>1. Abs[i] = Meant(scopes[i])
  BY DEF Abs
<1> QED
  BY <1>1, MeantFacts

LEMMA SameFunction ==
  ASSUME NEW f, NEW g, f = [x \in DOMAIN f |-> f[x]], g = [x \in DOMAIN g |-> g[x]],
         \A x : x \in DOMAIN f <=> x \in DOMAIN g, \A x \in DOMAIN f : f[x] = g[x]
  PROVE  f = g
<1>1. DOMAIN f = DOMAIN g
  OBVIOUS
<1> QED
  BY <1>1

LEMMA InsertMeans ==
  ASSUME TableInv, TableInv', NEW x \in Names, NEW info \in Infos, scope_insert(x, info)
  PROVE  Ideal!Insert(x, info)
<1> DEFINE L == Len(scopes)
           N == Len(symbols)
           new == Len(symbols) + 1
<1>1. /\ N \in Nat /\ L \in Nat /\ DOMAIN scopes = 1..L
      /\ \A i \in DOMAIN scopes, h \in Buckets : \A s : In(i, h, s) => s \in 1..N
  BY TableFacts DEF TableInv
<1>2. L \in DOMAIN scopes /\ Current = scopes[L]
  <2>1. scopes # <<>> /\ scopes \in Seq([Buckets -> 0..N])
    BY DEF scope_insert, TableInv, ScopesOK
  <2>2. L # 0
    BY <2>1
  <2> QED
    BY <1>1, <2>2 DEF Current, Last
<1>3. /\ Abs = [i \in 1..L |-> Abs[i]] /\ Len(Abs) = L /\ Abs # <<>>
      /\ Abs[L] = Meant(scopes[L])
  <2>1. Abs = [i \in 1..L |-> Meant(scopes[i])]
    BY <1>1 DEF Abs
  <2> QED
    BY <1>1, <1>2, <2>1
<1>4. FirstIn(Current, x) # 0 <=> x \in DOMAIN Abs[L]
  BY <1>2, <1>3, FindsMeant
<1>5. CASE FirstIn(Current, x) # 0
  <2>1. answer' = "refused" /\ scopes' = scopes /\ symbols' = symbols
    BY <1>5 DEF scope_insert
  <2>2. Abs' = Abs
    BY <2>1, AbsKept DEF Abs
  <2>3. x \in DOMAIN Abs[L]
    BY <1>4, <1>5
  <2> QED
    BY <1>3, <2>1, <2>2, <2>3 DEF Ideal!Insert, Ideal!Inner, Abs
<1>6. CASE FirstIn(Current, x) = 0
  <2> DEFINE put == [y \in DOMAIN Abs[L] \cup {x} |-> IF y = x THEN info ELSE Abs[L][y]]
  <2>1. answer' = "inserted"
    BY <1>6 DEF scope_insert
  <2>2. /\ DOMAIN scopes' = DOMAIN scopes
        /\ symbols'[new].name = x /\ symbols'[new].info = info
        /\ \A s \in 1..N : symbols'[s] = symbols[s]
        /\ \A i \in DOMAIN scopes, h \in Buckets : \A s :
             In(i, h, s)' <=> In(i, h, s) \/ (i = L /\ h = hash_name[x] /\ s = new)
    BY <1>6, InsertedIn
  <2>3. DOMAIN Abs = DOMAIN scopes /\ \A i \in DOMAIN scopes : IsMeant(Abs[i], i)
    BY AbsFacts
  <2>4. /\ DOMAIN Abs' = DOMAIN scopes
        /\ \A i \in DOMAIN scopes :
             /\ Abs'[i] = [y \in DOMAIN Abs'[i] |-> Abs'[i][y]]
             /\ \A y : y \in DOMAIN Abs'[i] <=> \E h \in Buckets : \E s : In(i, h, s)' /\ symbols'[s].name = y
             /\ \A h \in Buckets : \A s : In(i, h, s)' => Abs'[i][symbols'[s].name] = symbols'[s].info
    <3>1. DOMAIN Abs' = DOMAIN scopes' /\ \A i \in DOMAIN scopes' : IsMeant(Abs[i], i)'
      <4>1. (TableInv => DOMAIN Abs = DOMAIN scopes /\ \A i \in DOMAIN scopes : IsMeant(Abs[i], i))'
        BY AbsFacts, PTL
      <4> QED
        BY <4>1
    <3> QED
      BY <2>2, <3>1 DEF IsMeant
  <2>5. hash_name[x] \in Buckets
    BY SymbolTableAssumption DEF SymbolTableAssumption
  <2> HIDE DEF N, L, new, Abs
  <2>6. ASSUME NEW i \in DOMAIN scopes, i # L PROVE Abs'[i] = Abs[i]
    <3>1. \A h \in Buckets : \A s : In(i, h, s)' <=> In(i, h, s)
      BY <2>2, <2>6
    <3>2. \A h \in Buckets : \A s : In(i, h, s) => symbols'[s] = symbols[s]
      BY <1>1, <2>2
    <3>3. \A y : y \in DOMAIN Abs'[i] <=> y \in DOMAIN Abs[i]
      BY <2>3, <2>4, <3>1, <3>2 DEF IsMeant
    <3>4. ASSUME NEW y \in DOMAIN Abs'[i] PROVE Abs'[i][y] = Abs[i][y]
      <4>0. PICK h \in Buckets : \E s : In(i, h, s) /\ symbols[s].name = y
        BY <2>3, <3>3, <3>4 DEF IsMeant
      <4>1. PICK s : In(i, h, s) /\ symbols[s].name = y
        BY <4>0
      <4>2. Abs[i][y] = symbols[s].info
        BY <2>3, <4>1 DEF IsMeant
      <4>3. In(i, h, s)' /\ symbols'[s] = symbols[s]
        BY <3>1, <3>2, <4>1
      <4>4. Abs'[i][y] = symbols'[s].info
        BY <2>4, <4>1, <4>3
      <4> QED
        BY <4>2, <4>3, <4>4
    <3>5. Abs'[i] = [y \in DOMAIN Abs'[i] |-> Abs'[i][y]] /\ Abs[i] = [y \in DOMAIN Abs[i] |-> Abs[i][y]]
      BY <2>3, <2>4 DEF IsMeant
    <3> DEFINE f == Abs'[i]
               g == Abs[i]
    <3>6. /\ f = [y \in DOMAIN f |-> f[y]] /\ g = [y \in DOMAIN g |-> g[y]]
          /\ (\A y : y \in DOMAIN f <=> y \in DOMAIN g) /\ \A y \in DOMAIN f : f[y] = g[y]
      BY <3>3, <3>4, <3>5
    <3> HIDE DEF f, g
    <3>7. f = g
      BY <3>6, SameFunction
    <3> QED
      BY <3>7 DEF f, g
  <2>7. Abs'[L] = put
    <3>1. \A h \in Buckets : \A s : In(L, h, s) => symbols'[s] = symbols[s]
      BY <1>1, <1>2, <2>2
    <3>2. x \notin DOMAIN Abs[L]
      BY <1>4, <1>6
    <3>3. \A y : y \in DOMAIN Abs'[L] <=> y \in DOMAIN Abs[L] \/ y = x
      <4>1. \A i \in DOMAIN scopes : i = L =>
              \A y : (\E h \in Buckets : \E s : In(i, h, s)' /\ symbols'[s].name = y)
                       <=> (\E h \in Buckets : \E s : In(i, h, s) /\ symbols[s].name = y) \/ y = x
        BY <2>2, <2>5, <3>1
      <4>2. \A i \in DOMAIN scopes : i = L => \A y : y \in DOMAIN Abs'[i] <=> y \in DOMAIN Abs[i] \/ y = x
        <5> SUFFICES ASSUME NEW i \in DOMAIN scopes, i = L, NEW y
                     PROVE  y \in DOMAIN Abs'[i] <=> y \in DOMAIN Abs[i] \/ y = x
          OBVIOUS
        <5>1. y \in DOMAIN Abs'[i] <=> \E h \in Buckets : \E s : In(i, h, s)' /\ symbols'[s].name = y
          BY <2>4
        <5>2. y \in DOMAIN Abs[i] <=> \E h \in Buckets : \E s : In(i, h, s) /\ symbols[s].name = y
          BY <2>3 DEF IsMeant
        <5> QED
          BY <4>1, <5>1, <5>2
      <4> QED
        BY <1>2, <4>2
    <3>4. ASSUME NEW y \in DOMAIN Abs'[L] PROVE Abs'[L][y] = IF y = x THEN info ELSE Abs[L][y]
      <4>1. \A i \in DOMAIN scopes : i = L =>
              \A h \in Buckets : \A s : In(i, h, s)' => Abs'[i][symbols'[s].name] = symbols'[s].info
        BY <2>4
      <4>2. \A i \in DOMAIN scopes : i = L =>
              /\ \A s : s = new => \E h \in Buckets : In(i, h, s)'
              /\ \A h \in Buckets : \A s : In(i, h, s) => In(i, h, s)'
        BY <2>2, <2>5
      <4>3. CASE y = x
        <5>1. Abs'[L][symbols'[new].name] = symbols'[new].info
          BY <1>2, <4>1, <4>2
        <5> QED
          BY <2>2, <4>3, <5>1
      <4>4. CASE y # x
        <5>0. PICK h \in Buckets : \E s : In(L, h, s) /\ symbols[s].name = y
          BY <1>2, <2>3, <3>3, <3>4, <4>4 DEF IsMeant
        <5>1. PICK s : In(L, h, s) /\ symbols[s].name = y
          BY <5>0
        <5>2. Abs[L][y] = symbols[s].info
          BY <1>2, <2>3, <5>1 DEF IsMeant
        <5>3. Abs'[L][symbols'[s].name] = symbols'[s].info
          BY <1>2, <4>1, <4>2, <5>1
        <5> QED
          BY <3>1, <4>4, <5>1, <5>2, <5>3
      <4> QED
        BY <4>3, <4>4
    <3>5. Abs'[L] = [y \in DOMAIN Abs'[L] |-> Abs'[L][y]]
      BY <1>2, <2>4
    <3>6. DOMAIN Abs'[L] = DOMAIN Abs[L] \cup {x}
      BY <3>3
    <3> QED
      BY <3>4, <3>5, <3>6
  <2>8. Abs' = [Abs EXCEPT ![L] = put]
    <3>1. Abs' = [i \in DOMAIN scopes |-> Abs'[i]]
      <4>1. Abs' = [i \in DOMAIN Abs' |-> Abs'[i]]
        BY DEF Abs
      <4> QED
        BY <2>4, <4>1
    <3> HIDE DEF put
    <3> QED
      BY <1>1, <1>2, <1>3, <2>3, <2>6, <2>7, <3>1
  <2>9. Ideal!Insert(x, info) <=>
          /\ Abs # <<>>
          /\ IF x \in DOMAIN Abs[Len(Abs)] THEN answer' = "refused" /\ UNCHANGED Abs
             ELSE /\ answer' = "inserted"
                  /\ Abs' = [Abs EXCEPT ![Len(Abs)] =
                               [y \in DOMAIN Abs[Len(Abs)] \cup {x} |-> IF y = x THEN info ELSE Abs[Len(Abs)][y]]]
    BY DEF Ideal!Insert, Ideal!Inner, Ideal!Put, Abs
  <2> QED
    BY <1>3, <1>4, <1>6, <2>1, <2>8, <2>9
<1> QED
  BY <1>5, <1>6

LEMMA Maximum ==
  ASSUME NEW n \in Nat, NEW T \in SUBSET (1..n), T # {}
  PROVE  Max(T) \in T /\ \A k \in T : k <= Max(T)
<1>0. \A k \in T : k \in Nat /\ k <= n
  <2>1. \A k \in T : k \in 1..n
    OBVIOUS
  <2>2. \A k \in 1..n : k \in Nat /\ k <= n
    OBVIOUS
  <2> QED
    BY <2>1, <2>2
<1> DEFINE below == {n - k : k \in T}
<1>1. below \in SUBSET Nat /\ below # {}
  <2>1. \A k \in T : n - k \in Nat
    BY <1>0
  <2> QED
    BY <2>1
<1>2. PICK b \in below : \A c \in below : b <= c
  <2> HIDE DEF below
  <2> QED
    BY <1>1, Minimum
<1>3. PICK m \in T : b = n - m
  OBVIOUS
<1>4. \A k \in T : n - m <= n - k
  BY <1>2, <1>3
<1>5. \A k \in T : k \in Int /\ m \in Int /\ n \in Int
  BY <1>0
<1> HIDE DEF below
<1>6. \A k \in T : m >= k
  BY <1>4, <1>5
<1>7. Max(T) \in T /\ \A k \in T : Max(T) >= k
  <2> DEFINE Top(k) == \A l \in T : k >= l
  <2>1. \E k \in T : Top(k)
    BY <1>6
  <2>2. Max(T) = CHOOSE k \in T : Top(k)
    BY DEF Max
  <2> HIDE DEF Top
  <2>3. Max(T) \in T /\ Top(Max(T))
    BY <2>1, <2>2, Zenon
  <2> QED
    BY <2>3 DEF Top
<1> QED
  BY <1>5, <1>7

LEMMA LookupMeans == ASSUME TableInv, NEW x \in Names, scope_lookup(x) PROVE Ideal!Lookup(x)
<1> DEFINE L == Len(scopes)
           I == {i \in 1..L : FirstIn(scopes[i], x) # 0}
           k == IF I # {} THEN Max(I) ELSE 0
           declaring == {i \in DOMAIN Abs : x \in DOMAIN Abs[i]}
<1>1. L \in Nat /\ DOMAIN scopes = 1..L
  BY TableFacts DEF TableInv
<1>2. scopes' = scopes /\ symbols' = symbols /\
      answer' = IF k = 0 THEN Nothing ELSE symbols[FirstIn(scopes[k], x)].info
  BY DEF scope_lookup, SelectLastInSeq
<1>3. Abs' = Abs
  BY <1>2, AbsKept DEF Abs
<1>4. \A i \in 1..L : Abs[i] = Meant(scopes[i])
  BY <1>1 DEF Abs
<1>5. DOMAIN Abs = 1..L
  BY <1>1 DEF Abs
<1>6. \A i \in 1..L : /\ FirstIn(scopes[i], x) # 0 <=> x \in DOMAIN Abs[i]
                      /\ FirstIn(scopes[i], x) # 0 => symbols[FirstIn(scopes[i], x)].info = Abs[i][x]
  BY <1>1, <1>4, FindsMeant
<1>7. declaring = I
  <2> HIDE DEF L, Abs
  <2> QED
    BY <1>5, <1>6
<1>8. Ideal!Lookup(x) <=>
        /\ IF declaring = {} THEN answer' = Nothing
           ELSE \E i \in declaring : (\A j \in declaring : j <= i) /\ answer' = Abs[i][x]
        /\ Abs' = Abs
  BY DEF Ideal!Lookup, Ideal!Declaring, Abs
<1>9. CASE I = {}
  <2>1. k = 0
    BY <1>9
  <2> HIDE DEF k, I, declaring, Abs
  <2> QED
    BY <1>2, <1>3, <1>7, <1>8, <1>9, <2>1
<1>10. CASE I # {}
  <2>1. I \in SUBSET (1..L)
    OBVIOUS
  <2>2. k = Max(I)
    BY <1>10
  <2>3. k \in I /\ \A j \in I : j <= k
    <3> HIDE DEF I, k, L
    <3> QED
      BY <1>1, <1>10, <2>1, <2>2, Maximum
  <2>4. k \in 1..L /\ FirstIn(scopes[k], x) # 0
    <3> HIDE DEF k
    <3> QED
      BY <2>3
  <2> HIDE DEF k, I, declaring, Abs
  <2>5. k # 0 /\ answer' = Abs[k][x]
    BY <1>1, <1>2, <1>6, <2>4
  <2> QED
    BY <1>3, <1>7, <1>8, <1>10, <2>3, <2>5
<1> QED
  BY <1>9, <1>10

(* The hash table implements nested scopes, whatever the names hash to: a name is refused where   *)
(* its scope has it and nowhere else, names of one bucket do not hide each other, a lookup finds   *)
(* the innermost declaration, and a declaration is gone when its scope is popped.                  *)
THEOREM TheTableImplementsScopes == TableSpec => ImplementsScopes
<1>1. TableInit => Ideal!Init
  <2> SUFFICES ASSUME TableInit PROVE Ideal!Init
    OBVIOUS
  <2>1. TableInv /\ scopes = <<Empty>> /\ answer = Nothing
    BY TableStarts DEF TableInit
  <2>2. DOMAIN scopes = {1} /\ scopes[1] = Empty
    BY <2>1
  <2>3. Abs = [i \in {1} |-> [x \in {} |-> Nothing]]
    BY <2>1, <2>2, MeantEmpty DEF Abs
  <2>4. Abs = <<[x \in {} |-> Nothing]>>
    BY <2>3
  <2> QED
    BY <2>1, <2>4 DEF Ideal!Init, Abs
<1>2. TableInv /\ TableInv' /\ [TableNext]_tableVars => [Ideal!Next]_<<Abs, answer>>
  <2> SUFFICES ASSUME TableInv, TableInv', [TableNext]_tableVars
               PROVE  [Ideal!Next]_<<Abs, answer>>
    OBVIOUS
  <2>0. Len(scopes) \in Nat /\ scopes \in Seq([Buckets -> 0..Len(symbols)])
    BY TableFacts DEF TableInv, ScopesOK
  <2>1. CASE push_scope
    BY <2>1, PushMeans DEF Ideal!Next
  <2>2. CASE pop_scope \/ sema_free
    <3>1. Closes /\ answer' = answer
      BY <2>0, <2>2, ClosesIs DEF pop_scope, sema_free
    <3> QED
      BY <3>1, CloseMeans DEF Ideal!Next
  <2>3. ASSUME scopes' = scopes, symbols' = symbols, answer' = answer PROVE <<Abs, answer>>' = <<Abs, answer>>
    <3>1. Abs' = Abs
      BY <2>3, AbsKept DEF Abs
    <3> QED
      BY <2>3, <3>1
  <2>4. CASE Over \/ UNCHANGED tableVars
    BY <2>3, <2>4 DEF Over, tableVars
  <2>5. ASSUME NEW x \in Names, scope_lookup(x) PROVE Ideal!Next
    BY <2>5, LookupMeans DEF Ideal!Next
  <2>6. ASSUME NEW x \in Names, NEW info \in Infos, scope_insert(x, info) PROVE Ideal!Next
    BY <2>6, InsertMeans DEF Ideal!Next
  <2> QED
    BY <2>1, <2>2, <2>4, <2>5, <2>6 DEF TableNext
<1>3. TableSpec => []TableInv
  BY TableStarts, TableSteps, PTL DEF TableSpec
<1> QED
  BY <1>1, <1>2, <1>3, PTL DEF TableSpec, ImplementsScopes, Ideal!Spec, Abs
=============================================================================
