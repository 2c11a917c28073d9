---------------------------- MODULE SemanticsProofs ----------------------------
(***************************************************************************)
(* Proofs that Sema decides the static semantics: its one pass over        *)
(* mutable scopes accepts exactly the programs the declarative rules       *)
(* accept, and gives each expression of those the type and each name the   *)
(* declaration the rules say.  The state of an analysis without an error   *)
(* is related to the tree: which declarations have been met, which of them *)
(* each open scope holds, and that whatever is finished is accepted.       *)
(* After the theorems come the lemmas about CodeGen's scopes: what they    *)
(* hold if its statements go through the tree as the analysis did.         *)
(***************************************************************************)
EXTENDS CodeGenProofs

-----------------------------------------------------------------------------
(* Trees: what is under what. *)

\* A whole tree of the grammar.
Whole == AstTypeOK /\ TreeOK /\ phase \in {"sema", "codegen"}

LEMMA UnderFacts ==
  ASSUME AstTypeOK, TreeOK
  PROVE  \A n \in Nodes : \A m : Under(n, m) => m \in Nodes /\ m <= n
<1> DEFINE Bad == {n \in Nodes : \E m : Under(n, m) /\ ~(m \in Nodes /\ m <= n)}
<1>1. Nodes = 1..Len(ast) /\ Len(ast) \in Nat
  BY ParentFacts
<1>2. SUFFICES ASSUME Bad # {} PROVE FALSE
  OBVIOUS
<1>3. PICK n \in Bad : \A k \in Bad : n <= k
  BY <1>1, <1>2, Extremes
<1>4. n \in Nodes /\ n \in Nat
  BY <1>1
<1>5. PICK m : Under(n, m) /\ ~(m \in Nodes /\ m <= n)
  BY <1>3
<1>6. m # n
  BY <1>4, <1>5
<1>7. n # 1 /\ Under(Parent(n), m)
  BY <1>4, <1>5, <1>6, PathUnfolds DEF Under
<1>8. Parent(n) \in Nodes /\ Parent(n) < n
  BY <1>4, <1>7, ParentFacts
<1>9. Parent(n) \notin Bad
  BY <1>1, <1>3, <1>4, <1>8
<1>10. m \in Nodes /\ m <= Parent(n)
  BY <1>7, <1>8, <1>9
<1> QED
  BY <1>1, <1>4, <1>5, <1>8, <1>10

LEMMA UnderParent ==
  ASSUME AstTypeOK, TreeOK, NEW n \in Nodes, NEW m
  PROVE  Under(n, m) <=> m = n \/ (n # 1 /\ Under(Parent(n), m))
  BY PathUnfolds DEF Under

LEMMA UnderTransitive ==
  ASSUME AstTypeOK, TreeOK, NEW n \in Nodes, NEW m, NEW k, Under(n, m), Under(m, k)
  PROVE  Under(n, k)
<1> DEFINE Bad == {p \in Nodes : Under(p, m) /\ ~Under(p, k)}
<1>1. Nodes = 1..Len(ast) /\ Len(ast) \in Nat
  BY ParentFacts
<1>2. SUFFICES ASSUME Bad # {} PROVE FALSE
  OBVIOUS
<1>3. PICK p \in Bad : \A q \in Bad : p <= q
  BY <1>1, <1>2, Extremes
<1>4. p \in Nodes /\ p \in Nat /\ Under(p, m) /\ ~Under(p, k)
  BY <1>1, <1>3
<1>5. p # m
  BY <1>4
<1>6. p # 1 /\ Under(Parent(p), m) /\ ~Under(Parent(p), k)
  BY <1>4, <1>5, UnderParent
<1>7. Parent(p) \in Nodes /\ Parent(p) < p
  BY <1>4, <1>6, ParentFacts
<1> QED
  BY <1>1, <1>3, <1>4, <1>6, <1>7

\* What is under a node and not the node itself is under a child of it.
LEMMA Descends ==
  ASSUME AstTypeOK, TreeOK, NEW n \in Nodes, NEW m \in Nodes, Under(m, n), m # n
  PROVE  \E i \in 1..Arity(n) : Under(m, Kid(n, i))
<1> DEFINE Bad == {p \in Nodes : Under(p, n) /\ p # n /\ ~\E i \in 1..Arity(n) : Under(p, Kid(n, i))}
<1>1. Nodes = 1..Len(ast) /\ Len(ast) \in Nat
  BY ParentFacts
<1>2. SUFFICES ASSUME Bad # {} PROVE FALSE
  OBVIOUS
<1>3. PICK p \in Bad : \A q \in Bad : p <= q
  BY <1>1, <1>2, Extremes
<1>4. p \in Nodes /\ p \in Nat /\ Under(p, n) /\ p # n
  BY <1>1, <1>3
<1>5. p # 1 /\ Under(Parent(p), n)
  BY <1>4, UnderParent
<1>6. Parent(p) \in Nodes /\ Parent(p) < p /\ \E i \in 1..Arity(Parent(p)) : Kid(Parent(p), i) = p
  BY <1>4, <1>5, ParentFacts
<1>7. CASE Parent(p) = n
  BY <1>3, <1>4, <1>6, <1>7, UnderSelf
<1>8. CASE Parent(p) # n
  <2>1. Parent(p) \notin Bad
    BY <1>1, <1>3, <1>4, <1>6
  <2>2. PICK i \in 1..Arity(n) : Under(Parent(p), Kid(n, i))
    BY <1>5, <1>6, <1>8, <2>1
  <2>3. Under(p, Kid(n, i))
    BY <1>4, <1>5, <2>2, UnderParent
  <2> QED
    BY <1>3, <2>3
<1> QED
  BY <1>7, <1>8

\* Nothing is declared in an expression.
LEMMA ExpressionsDeclareNothing ==
  ASSUME Whole, NEW n \in Nodes, Kind(n) \in ExprKinds \cup Null, NEW m \in Nodes, Under(m, n)
  PROVE  Kind(m) \in ExprKinds \cup Null
<1> DEFINE Bad == {p \in Nodes : Under(p, n) /\ Kind(p) \notin ExprKinds \cup Null}
<1>0. AstTypeOK /\ TreeOK /\ phase \in {"sema", "codegen"}
  BY DEF Whole
<1>1. Nodes = 1..Len(ast) /\ Len(ast) \in Nat
  BY <1>0, ParentFacts
<1>2. SUFFICES ASSUME Bad # {} PROVE FALSE
  OBVIOUS
<1>3. PICK p \in Bad : \A q \in Bad : p <= q
  BY <1>1, <1>2, Extremes
<1>4. p \in Nodes /\ p \in Nat /\ Under(p, n) /\ p # n /\ Kind(p) \notin ExprKinds \cup Null
  BY <1>1, <1>3
<1>5. p # 1 /\ Under(Parent(p), n)
  BY <1>0, <1>4, UnderParent
<1>6. Parent(p) \in Nodes /\ Parent(p) < p
  BY <1>0, <1>4, <1>5, ParentFacts
<1>7. PICK i \in 1..Arity(Parent(p)) : Kid(Parent(p), i) = p
  BY <1>0, <1>4, <1>5, ParentFacts
<1>8. Kind(Parent(p)) \in ExprKinds \cup Null
  BY <1>1, <1>3, <1>4, <1>5, <1>6
<1>9. Kind(Parent(p)) # "NULL"
  <2>1. Kind(Parent(p)) = "NULL" => Arity(Parent(p)) = 0
    BY <1>0, <1>6, NodeFacts DEF HasArity
  <2> QED
    BY <1>7, <2>1
<1>10. Kind(Kid(Parent(p), i)) \in ExprKinds
  BY <1>0, <1>6, <1>7, <1>8, <1>9, KindsOfKids DEF Null
<1> QED
  BY <1>4, <1>7, <1>10

-----------------------------------------------------------------------------
(* The recursive definitions of the static semantics unfold. *)

LEMMA OwnerUnfolds ==
  ASSUME AstTypeOK, TreeOK
  PROVE  \A n \in Nodes : Owner[n] = IF n = 1 \/ OpensScope(Parent(n)) THEN Parent(n) ELSE Owner[Parent(n)]
<1> DEFINE Stops(n) == {m \in Nodes : Under(n, m) /\ (m = 1 \/ OpensScope(Parent(m)))}
           stop(n) == CHOOSE m \in Stops(n) : \A k \in Stops(n) : k <= m
           owner == [n \in Nodes |-> Parent(stop(n))]
           Unfolds(f) == f = [n \in Nodes |-> IF n = 1 \/ OpensScope(Parent(n)) THEN Parent(n) ELSE f[Parent(n)]]
<1>1. Nodes = 1..Len(ast) /\ Len(ast) \in Nat
  BY ParentFacts
<1>2. ASSUME NEW n \in Nodes, n = 1 \/ OpensScope(Parent(n))
      PROVE  stop(n) = n
  <2>1. n \in Stops(n) /\ \A k \in Stops(n) : k <= n
    BY <1>2, UnderSelf, UnderFacts
  <2>2. \A m \in Stops(n) : (\A k \in Stops(n) : k <= m) => m = n
    BY <1>1, <2>1
  <2> HIDE DEF Stops
  <2> QED
    BY <2>1, <2>2
<1>3. ASSUME NEW n \in Nodes, ~(n = 1 \/ OpensScope(Parent(n)))
      PROVE  stop(n) = stop(Parent(n))
  <2>1. \A m : Under(n, m) <=> m = n \/ Under(Parent(n), m)
    BY <1>3, UnderParent
  <2>2. Stops(n) = Stops(Parent(n))
    BY <1>3, <2>1
  <2> HIDE DEF Stops
  <2> QED
    BY <2>2
<1>4. Unfolds(owner)
  <2>1. ASSUME NEW n \in Nodes
        PROVE  owner[n] = IF n = 1 \/ OpensScope(Parent(n)) THEN Parent(n) ELSE owner[Parent(n)]
    <3> HIDE DEF stop
    <3>1. n # 1 => Parent(n) \in Nodes
      BY ParentFacts
    <3> QED
      BY <1>2, <1>3, <3>1
  <2> DEFINE g == [n \in Nodes |-> IF n = 1 \/ OpensScope(Parent(n)) THEN Parent(n) ELSE owner[Parent(n)]]
  <2>2. owner = [n \in Nodes |-> owner[n]]
    OBVIOUS
  <2> HIDE DEF owner
  <2>3. [n \in Nodes |-> owner[n]] = g
    BY <2>1
  <2> QED
    BY <2>2, <2>3
<1>5. Owner = CHOOSE f : Unfolds(f)
  BY DEF Owner
<1>6. Unfolds(Owner)
  <2> HIDE DEF Unfolds, owner
  <2> QED
    BY <1>4, <1>5, Zenon
<1> QED
  BY <1>6

\* The types of the children, as Sema has them or as the rules say.
KidTypesOf(types, n) == [i \in 1..Arity(n) |-> types[Kid(n, i)]]

LEMMA TypeOfUnfolds ==
  ASSUME AstTypeOK, TreeOK
  PROVE  \A n \in Nodes : TypeOf[n] = TypeFrom(n, KidTypesOf(TypeOf, n))
<1> DEFINE From(k) == \E f : DOMAIN f = Nodes /\ \A n \in Nodes : n > k => f[n] = TypeFrom(n, KidTypesOf(f, n))
           Unfolds(f) == f = [n \in Nodes |-> TypeFrom(n, [i \in 1..Arity(n) |-> f[Kid(n, i)]])]
<1>1. Nodes = 1..Len(ast) /\ Len(ast) \in Nat
  BY ParentFacts
<1>2. From(Len(ast))
  <2>1. DOMAIN [n \in Nodes |-> 0] = Nodes /\ \A n \in Nodes : ~(n > Len(ast))
    BY <1>1
  <2> QED
    BY <2>1
<1>3. ASSUME NEW k \in Nat, k # 0, k \in Nodes, From(k) PROVE From(k - 1)
  <2>1. PICK f : DOMAIN f = Nodes /\ \A n \in Nodes : n > k => f[n] = TypeFrom(n, KidTypesOf(f, n))
    BY <1>3
  <2> DEFINE g == [n \in Nodes |-> IF n = k THEN TypeFrom(k, KidTypesOf(f, k)) ELSE f[n]]
  <2>2. ASSUME NEW n \in Nodes, n > k - 1
        PROVE  KidTypesOf(g, n) = KidTypesOf(f, n)
    <3>1. \A i \in 1..Arity(n) : Kid(n, i) \in Nodes /\ Kid(n, i) > n
      BY ParentFacts
    <3>2. \A i \in 1..Arity(n) : g[Kid(n, i)] = f[Kid(n, i)]
      BY <1>1, <1>3, <2>2, <3>1
    <3> HIDE DEF g
    <3> QED
      BY <3>2 DEF KidTypesOf
  <2>3. ASSUME NEW n \in Nodes, n > k - 1
        PROVE  g[n] = TypeFrom(n, KidTypesOf(g, n))
    <3>1. KidTypesOf(g, n) = KidTypesOf(f, n)
      BY <2>2, <2>3
    <3>2. g[n] = TypeFrom(n, KidTypesOf(f, n))
      <4>1. n = k \/ n > k
        BY <1>1, <1>3, <2>3
      <4> QED
        BY <2>1, <4>1
    <3> HIDE DEF g
    <3> QED
      BY <3>1, <3>2
  <2>4. DOMAIN g = Nodes
    OBVIOUS
  <2> HIDE DEF g
  <2> QED
    BY <2>3, <2>4
<1>4. From(0)
  <2> HIDE DEF From
  <2> DEFINE Starts == {j \in 1..Len(ast) : From(j)}
  <2>1. CASE Len(ast) = 0
    BY <1>2, <2>1
  <2>2. CASE Len(ast) # 0
    <3>1. Len(ast) \in Starts
      BY <1>1, <1>2, <2>2
    <3>2. PICK j \in Starts : \A i \in Starts : j <= i
      BY <1>1, <3>1, Extremes
    <3>3. From(j - 1) /\ j \in 1..Len(ast)
      BY <1>1, <1>3, <3>2
    <3>4. j - 1 = 0
      BY <1>1, <3>2, <3>3
    <3> QED
      BY <3>3, <3>4
  <2> QED
    BY <2>1, <2>2
<1>5. PICK f : DOMAIN f = Nodes /\ \A n \in Nodes : n > 0 => f[n] = TypeFrom(n, KidTypesOf(f, n))
  BY <1>4
<1>6. Unfolds([n \in Nodes |-> f[n]])
  <2> DEFINE g == [n \in Nodes |-> f[n]]
  <2>1. \A n \in Nodes : g[n] = TypeFrom(n, KidTypesOf(f, n))
    BY <1>1, <1>5
  <2>2. \A n \in Nodes : KidTypesOf(f, n) = [i \in 1..Arity(n) |-> g[Kid(n, i)]]
    <3> SUFFICES ASSUME NEW n \in Nodes PROVE KidTypesOf(f, n) = [i \in 1..Arity(n) |-> g[Kid(n, i)]]
      OBVIOUS
    <3>1. \A i \in 1..Arity(n) : Kid(n, i) \in Nodes
      BY ParentFacts
    <3>2. \A i \in 1..Arity(n) : g[Kid(n, i)] = f[Kid(n, i)]
      BY <3>1
    <3> HIDE DEF g
    <3> QED
      BY <3>2 DEF KidTypesOf
  <2>3. g = [n \in Nodes |-> g[n]]
    OBVIOUS
  <2> HIDE DEF g
  <2>4. \A n \in Nodes : g[n] = TypeFrom(n, [i \in 1..Arity(n) |-> g[Kid(n, i)]])
    BY <2>1, <2>2
  <2>5. [n \in Nodes |-> g[n]] = [n \in Nodes |-> TypeFrom(n, [i \in 1..Arity(n) |-> g[Kid(n, i)]])]
    BY <2>4
  <2> QED
    BY <2>3, <2>5 DEF g
<1>7. TypeOf = CHOOSE g : Unfolds(g)
  BY DEF TypeOf
<1>8. Unfolds(TypeOf)
  <2> HIDE DEF Unfolds
  <2> QED
    BY <1>6, <1>7, Zenon
<1>9. DOMAIN TypeOf = Nodes /\ \A n \in Nodes : TypeOf[n] = TypeFrom(n, [i \in 1..Arity(n) |-> TypeOf[Kid(n, i)]])
  BY <1>8
<1> QED
  BY <1>9 DEF KidTypesOf

LEMMA OwnerFacts ==
  ASSUME Whole, NEW n \in Nodes, n # 1
  PROVE  Owner[n] \in Nodes /\ Under(n, Owner[n]) /\ Owner[n] < n /\ OpensScope(Owner[n])
<1> DEFINE OK(p) == Owner[p] \in Nodes /\ Under(p, Owner[p]) /\ Owner[p] < p /\ OpensScope(Owner[p])
           Bad == {p \in Nodes : p # 1 /\ ~OK(p)}
<1>0. AstTypeOK /\ TreeOK /\ phase \in {"sema", "codegen"}
  BY DEF Whole
<1>1. Nodes = 1..Len(ast) /\ Len(ast) \in Nat
  BY <1>0, ParentFacts
<1>2. SUFFICES ASSUME Bad # {} PROVE FALSE
  OBVIOUS
<1>3. PICK p \in Bad : \A q \in Bad : p <= q
  BY <1>1, <1>2, Extremes
<1>4. p \in Nodes /\ p \in Nat /\ p # 1 /\ ~OK(p)
  BY <1>1, <1>3
<1> DEFINE q == Parent(p)
<1>5. q \in Nodes /\ q < p
  BY <1>0, <1>4, ParentFacts
<1>6. Owner[p] = IF OpensScope(q) THEN q ELSE Owner[q]
  BY <1>0, <1>4, OwnerUnfolds
<1>7. Under(p, q) /\ \A m : Under(q, m) => Under(p, m)
  BY <1>0, <1>4, <1>5, UnderParent, UnderSelf
<1>8. CASE OpensScope(q)
  BY <1>4, <1>5, <1>6, <1>7, <1>8
<1>9. CASE ~OpensScope(q)
  <2>1. q # 1
    BY <1>0, <1>9, KindsOfKids DEF OpensScope
  <2>2. q \notin Bad
    BY <1>1, <1>3, <1>5
  <2>3. OK(q)
    BY <1>5, <2>1, <2>2
  <2>4. Owner[p] = Owner[q]
    BY <1>6, <1>9
  <2>5. Owner[q] \in Nat /\ q \in Nat
    BY <1>1, <1>5, <2>3
  <2> QED
    BY <1>4, <1>5, <1>7, <2>3, <2>4, <2>5
<1> QED
  BY <1>8, <1>9

\* Functions are declared by the program, one after the other.
LEMMA FunctionsAtTop ==
  ASSUME Whole, NEW n \in Nodes, Kind(n) = "FUNC_DECL"
  PROVE  n # 1 /\ Parent(n) = 1 /\ Owner[n] = 1 /\ Path[n] \ {1} = {n}
<1>0. AstTypeOK /\ TreeOK /\ phase \in {"sema", "codegen"}
  BY DEF Whole
<1>1. n # 1 /\ 1 \in Nodes /\ Kind(1) = "PROGRAM"
  BY <1>0, KindsOfKids, ParentFacts
<1>2. Parent(n) \in Nodes /\ \E i \in 1..Arity(Parent(n)) : Kid(Parent(n), i) = n
  BY <1>0, <1>1, ParentFacts
<1>3. Kind(Parent(n)) = "PROGRAM"
  BY <1>0, <1>2, KindsOfKids
<1>4. Parent(n) = 1
  <2>1. SUFFICES ASSUME Parent(n) # 1 PROVE FALSE
    OBVIOUS
  <2> DEFINE p == Parent(n)
  <2>2. Parent(p) \in Nodes /\ \E i \in 1..Arity(Parent(p)) : Kid(Parent(p), i) = p
    BY <1>0, <1>2, <2>1, ParentFacts
  <2>3. Kind(p) # "PROGRAM"
    BY <1>0, <2>2, KindsOfKids
  <2> QED
    BY <1>3, <2>3
<1>5. Owner[n] = 1
  BY <1>0, <1>1, <1>4, OwnerUnfolds DEF OpensScope
<1>6. Path[n] = {n} \cup Path[1] /\ Path[1] = {1}
  BY <1>0, <1>1, <1>4, PathUnfolds
<1> QED
  BY <1>1, <1>4, <1>5, <1>6

-----------------------------------------------------------------------------
(* The call stack is the path to the running function's node. *)

CallStackOK(fs) ==
  /\ fs \in Seq(FrameSet) /\ Len(fs) >= 1 /\ fs[1].node = 1
  /\ \A i \in 1..Len(fs) : VisitOK(fs, i)

LEMMA VisitedUnder ==
  ASSUME Whole, NEW n \in Nodes, NEW k \in 1..VisitCount(n), NEW c, c = VisitKid(n, k)
  PROVE  /\ c \in Nodes /\ c # 1 /\ n < c
         /\ \A m : Under(c, m) <=> m = c \/ Under(n, m) \/ (Kind(n) = "FUNC_DECL" /\ m = Kid(n, 1))
<1>0. AstTypeOK /\ TreeOK /\ phase \in {"sema", "codegen"}
  BY DEF Whole
<1>1. PICK q \in Nodes : \E i \in 1..Arity(q) :
        /\ c = Kid(q, i) /\ ~(Kind(q) = "CALL" /\ i = 1)
        /\ q = n \/ (Kind(n) = "FUNC_DECL" /\ q = Kid(n, 1))
        /\ Kind(n) # "FUNC_DECL" => q = n
  BY <1>0, VisitedIsKid
<1>2. PICK i \in 1..Arity(q) :
        /\ c = Kid(q, i)
        /\ q = n \/ (Kind(n) = "FUNC_DECL" /\ q = Kid(n, 1))
  BY <1>1
<1>3. c \in Nodes /\ c # 1 /\ c > q
  BY <1>0, <1>2, ParentFacts
<1>4. \A m : Under(c, m) <=> m = c \/ Under(q, m)
  BY <1>0, <1>2, UnderKid
<1>5. Nodes \in SUBSET Nat
  BY <1>0, ParentFacts
<1>6. CASE Kind(n) # "FUNC_DECL"
  BY <1>2, <1>3, <1>4, <1>5, <1>6
<1>7. CASE Kind(n) = "FUNC_DECL"
  <2>1. Arity(n) = 1
    BY <1>0, <1>7, NodeFacts DEF HasArity
  <2>2. Kid(n, 1) \in Nodes /\ Kid(n, 1) > n
    BY <1>0, <2>1, ParentFacts
  <2>3. \A m : Under(Kid(n, 1), m) <=> m = Kid(n, 1) \/ Under(n, m)
    BY <1>0, <2>1, UnderKid
  <2>4. q = Kid(n, 1)
    <3>1. VisitKid(n, k) = Kid(Kid(n, 1), k) /\ k \in 1..Arity(Kid(n, 1))
      BY <1>7 DEF VisitKid, VisitCount
    <3>2. Parent(c) = q
      BY <1>0, <1>2, ParentFacts
    <3>3. Parent(Kid(Kid(n, 1), k)) = Kid(n, 1)
      BY <1>0, <2>2, <3>1, ParentFacts
    <3> QED
      BY <3>1, <3>2, <3>3
  <2>5. n < c
    BY <1>3, <1>5, <2>2, <2>4
  <2> QED
    BY <1>3, <1>4, <1>7, <2>3, <2>4, <2>5
<1> QED
  BY <1>6, <1>7

LEMMA StackFacts ==
  ASSUME Whole, NEW fs, CallStackOK(fs)
  PROVE  /\ Len(fs) \in Nat /\ Len(fs) >= 1 /\ DOMAIN fs = 1..Len(fs)
         /\ \A i \in 1..Len(fs) : fs[i].node \in Nodes /\ fs[i].next \in Nat /\ fs[i] \in FrameSet
         /\ fs[1].node = 1
         /\ \A i \in 2..Len(fs) :
              /\ fs[i - 1].next >= 2 /\ fs[i - 1].next - 1 \in 1..VisitCount(fs[i - 1].node)
              /\ fs[i].node = VisitKid(fs[i - 1].node, fs[i - 1].next - 1)
<1>0. AstTypeOK /\ TreeOK /\ phase \in {"sema", "codegen"}
  BY DEF Whole
<1>1. /\ fs \in Seq(FrameSet) /\ Len(fs) >= 1 /\ fs[1].node = 1
      /\ \A i \in 1..Len(fs) : VisitOK(fs, i)
  BY DEF CallStackOK
<1>2. Len(fs) \in Nat /\ DOMAIN fs = 1..Len(fs) /\ \A i \in 1..Len(fs) : fs[i] \in FrameSet
  BY <1>1
<1>3. \A i \in 1..Len(fs) : fs[i].node \in Nodes /\ fs[i].next \in Nat /\ VisitCount(fs[i].node) \in Nat
  BY <1>0, <1>2, FrameFields, VisitedIsKid
<1>4. ASSUME NEW i \in 2..Len(fs)
      PROVE  /\ fs[i - 1].next >= 2 /\ fs[i - 1].next - 1 \in 1..VisitCount(fs[i - 1].node)
             /\ fs[i].node = VisitKid(fs[i - 1].node, fs[i - 1].next - 1)
  <2>1. i \in 1..Len(fs) /\ i >= 2 /\ i - 1 \in 1..Len(fs)
    BY <1>2, <1>4
  <2>2. ChildOf(fs[i - 1], fs[i])
    BY <1>1, <2>1 DEF VisitOK
  <2>3. fs[i - 1].next \in Nat /\ VisitCount(fs[i - 1].node) \in Nat
    BY <1>3, <2>1
  <2> QED
    BY <2>2, <2>3 DEF ChildOf
<1> QED
  BY <1>1, <1>2, <1>3, <1>4

LEMMA StackOrder ==
  ASSUME Whole, NEW fs, CallStackOK(fs), NEW i \in 1..Len(fs), NEW j \in 1..Len(fs), i < j
  PROVE  fs[i].node < fs[j].node
<1> DEFINE Bad == {k \in 1..Len(fs) : i < k /\ ~(fs[i].node < fs[k].node)}
<1>0. AstTypeOK /\ TreeOK /\ phase \in {"sema", "codegen"} /\ Nodes \in SUBSET Nat
  BY ParentFacts DEF Whole
<1>1. /\ Len(fs) \in Nat
      /\ \A k \in 1..Len(fs) : fs[k].node \in Nodes
      /\ \A k \in 2..Len(fs) :
              /\ fs[k - 1].next - 1 \in 1..VisitCount(fs[k - 1].node)
              /\ fs[k].node = VisitKid(fs[k - 1].node, fs[k - 1].next - 1)
  BY StackFacts
<1>2. SUFFICES ASSUME Bad # {} PROVE FALSE
  OBVIOUS
<1>3. PICK k \in Bad : \A l \in Bad : k <= l
  BY <1>1, <1>2, Extremes
<1>4. k \in 1..Len(fs) /\ i < k /\ ~(fs[i].node < fs[k].node)
  BY <1>3
<1>5. k - 1 \in 1..Len(fs) /\ k \in 2..Len(fs)
  BY <1>1, <1>4
<1>6. fs[k - 1].node < fs[k].node
  BY <1>1, <1>5, VisitedUnder
<1>7. k - 1 \notin Bad
  BY <1>3, <1>4
<1>8. i = k - 1 \/ fs[i].node < fs[k - 1].node
  BY <1>1, <1>4, <1>5, <1>7
<1>9. fs[i].node \in Nat /\ fs[k - 1].node \in Nat /\ fs[k].node \in Nat
  BY <1>0, <1>1, <1>4, <1>5
<1> QED
  BY <1>4, <1>6, <1>8, <1>9

OnPath(fs, i, m) ==
  \/ \E j \in 1..i : m = fs[j].node
  \/ \E j \in 1..(i - 1) : Kind(fs[j].node) = "FUNC_DECL" /\ m = Kid(fs[j].node, 1)

LEMMA PathIsStack ==
  ASSUME Whole, NEW fs, CallStackOK(fs), NEW i \in 1..Len(fs), NEW m
  PROVE  Under(fs[i].node, m) <=> OnPath(fs, i, m)
<1> DEFINE Bad == {k \in 1..Len(fs) : ~(Under(fs[k].node, m) <=> OnPath(fs, k, m))}
<1>0. AstTypeOK /\ TreeOK /\ phase \in {"sema", "codegen"} /\ Nodes \in SUBSET Nat /\ 1 \in Nodes
  BY ParentFacts DEF Whole
<1>1. /\ Len(fs) \in Nat /\ fs[1].node = 1
      /\ \A k \in 1..Len(fs) : fs[k].node \in Nodes
      /\ \A k \in 2..Len(fs) :
              /\ fs[k - 1].next - 1 \in 1..VisitCount(fs[k - 1].node)
              /\ fs[k].node = VisitKid(fs[k - 1].node, fs[k - 1].next - 1)
  BY StackFacts
<1>2. SUFFICES ASSUME Bad # {} PROVE FALSE
  OBVIOUS
<1>3. PICK k \in Bad : \A l \in Bad : k <= l
  BY <1>1, <1>2, Extremes
<1>4. k \in 1..Len(fs) /\ k \in Nat /\ ~(Under(fs[k].node, m) <=> OnPath(fs, k, m))
  BY <1>3
<1>5. CASE k = 1
  <2>1. Under(1, m) <=> m = 1
    BY <1>0, UnderParent
  <2>2. 1..1 = {1} /\ 1..(1 - 1) = {}
    OBVIOUS
  <2>3. OnPath(fs, 1, m) <=> m = 1
    BY <1>1, <2>2 DEF OnPath
  <2> QED
    BY <1>1, <1>4, <1>5, <2>1, <2>3
<1>6. CASE k # 1
  <2>1. k - 1 \in 1..Len(fs) /\ k \in 2..Len(fs)
    BY <1>1, <1>4, <1>6
  <2>2. Under(fs[k - 1].node, m) <=> OnPath(fs, k - 1, m)
    <3>1. k - 1 \notin Bad
      BY <1>3, <1>4
    <3> QED
      BY <2>1, <3>1
  <2>3. Under(fs[k].node, m) <=>
          \/ m = fs[k].node \/ Under(fs[k - 1].node, m)
          \/ (Kind(fs[k - 1].node) = "FUNC_DECL" /\ m = Kid(fs[k - 1].node, 1))
    BY <1>1, <2>1, VisitedUnder
  <2>4. 1..k = 1..(k - 1) \cup {k} /\ 1..(k - 1) = 1..(k - 1 - 1) \cup {k - 1}
    BY <1>4, <1>6
  <2>5. OnPath(fs, k, m) <=>
          \/ m = fs[k].node \/ OnPath(fs, k - 1, m)
          \/ (Kind(fs[k - 1].node) = "FUNC_DECL" /\ m = Kid(fs[k - 1].node, 1))
    BY <2>4 DEF OnPath
  <2> QED
    BY <1>4, <2>2, <2>3, <2>5
<1> QED
  BY <1>5, <1>6

-----------------------------------------------------------------------------
(* The declarations Sema has met, and which of them a name can mean. *)

\* The child from which on frame i has not finished its children.
Past(fs, i) == fs[i].next - (IF i < Len(fs) THEN 1 ELSE 0)

\* m is part of a child some running function is done with.
Finished(fs, m) ==
  \E i \in 1..Len(fs) : \E k \in 1..VisitCount(fs[i].node) : k < Past(fs, i) /\ Under(m, VisitKid(fs[i].node, k))

\* The body of function m is analysed.
Entered(fs, m) == Kind(m) = "FUNC_DECL" /\ \E i \in 1..Len(fs) : fs[i].node = m /\ fs[i].next > 0

Seen(fs) == {s \in Sites : Finished(fs, s.decl) \/ Entered(fs, s.decl)}

\* The frames that have pushed a scope: the program's, and those of Active.
OpenAt(fs) == {i \in 1..Len(fs) : i = 1 \/ HasScope(fs[i])}

\* The running function is about to look up identifier e: on it, or on the call of it.
LooksUp(fs, e) ==
  /\ e \in Nodes /\ Kind(e) = "IDENT"
  /\ \/ e = fs[Len(fs)].node
     \/ Kind(fs[Len(fs)].node) = "CALL" /\ e = Kid(fs[Len(fs)].node, 1)

LEMMA SiteFacts ==
  ASSUME Whole, NEW s \in Sites
  PROVE  /\ s.decl \in Nodes /\ Kind(s.decl) \in {"VAR_DECL", "FUNC_DECL"} /\ s.decl # 1
         /\ s = Site(s.decl, s.param)
         /\ IsParam(s) => /\ Kind(s.decl) = "FUNC_DECL" /\ s.param \in DOMAIN ast[s.decl].params
                          /\ ~IsNull(Kid(s.decl, 1))
         /\ SiteScope(s) \in Nodes /\ OpensScope(SiteScope(s))
         /\ IsFunction(s) => SiteScope(s) = 1
<1>0. AstTypeOK /\ TreeOK /\ phase \in {"sema", "codegen"}
  BY DEF Whole
<1>1. /\ s.decl \in Nodes /\ Kind(s.decl) \in {"VAR_DECL", "FUNC_DECL"} /\ s = Site(s.decl, s.param)
      /\ IsParam(s) => Kind(s.decl) = "FUNC_DECL" /\ s.param \in DOMAIN ast[s.decl].params
      /\ IsParam(s) => ~IsNull(Kid(s.decl, 1))
  BY DEF Sites, Site, IsParam
<1>2. s.decl # 1
  BY <1>0, <1>1, KindsOfKids
<1>3. SiteScope(s) \in Nodes /\ OpensScope(SiteScope(s))
  BY <1>1, <1>2, OwnerFacts DEF SiteScope, OpensScope
<1>4. IsFunction(s) => SiteScope(s) = 1
  BY <1>1, FunctionsAtTop DEF IsFunction, SiteScope
<1> QED
  BY <1>1, <1>2, <1>3, <1>4

LEMMA VisitSiblings ==
  ASSUME Whole, NEW n \in Nodes, NEW k \in 1..VisitCount(n), NEW l \in 1..VisitCount(n), k < l
  PROVE  VisitKid(n, k) < VisitKid(n, l) /\ Parent(VisitKid(n, k)) = Parent(VisitKid(n, l))
<1>0. AstTypeOK /\ TreeOK /\ phase \in {"sema", "codegen"}
  BY DEF Whole
<1>1. Arity(n) \in Nat /\ Ascending
  BY <1>0, NodeFacts DEF TreeOK
<1>2. CASE Kind(n) = "FUNC_DECL"
  <2>1. Arity(n) = 1
    BY <1>0, <1>2, NodeFacts DEF HasArity
  <2>2. Kid(n, 1) \in Nodes
    BY <1>0, <2>1, ParentFacts
  <2>3. k \in 1..Arity(Kid(n, 1)) /\ l \in 1..Arity(Kid(n, 1))
    BY <1>2 DEF VisitCount
  <2> QED
    BY <1>0, <1>1, <1>2, <2>2, <2>3, ParentFacts DEF VisitKid, Ascending
<1>3. CASE Kind(n) = "CALL"
  <2>1. k + 1 \in 1..Arity(n) /\ l + 1 \in 1..Arity(n) /\ k + 1 < l + 1
    BY <1>1, <1>3 DEF VisitCount
  <2> QED
    BY <1>0, <1>1, <1>3, <2>1, ParentFacts DEF VisitKid, Ascending
<1>4. CASE Kind(n) \notin {"FUNC_DECL", "CALL"}
  <2>1. k \in 1..Arity(n) /\ l \in 1..Arity(n)
    BY <1>1, <1>4 DEF VisitCount
  <2> QED
    BY <1>0, <1>1, <1>4, <2>1, ParentFacts DEF VisitKid, Ascending
<1> QED
  BY <1>2, <1>3, <1>4

\* The siblings before a visited child are visited before it, a callee aside.
LEMMA SiblingsBefore ==
  ASSUME Whole, NEW n \in Nodes, NEW l \in 1..VisitCount(n), NEW a \in Nodes, a # 1,
         a < VisitKid(n, l), Parent(a) = Parent(VisitKid(n, l))
  PROVE  \/ \E k \in 1..VisitCount(n) : k < l /\ a = VisitKid(n, k)
         \/ Kind(n) = "CALL" /\ a = Kid(n, 1)
<1>0. AstTypeOK /\ TreeOK /\ phase \in {"sema", "codegen"} /\ Nodes \in SUBSET Nat
  BY ParentFacts DEF Whole
<1>1. Arity(n) \in Nat
  BY <1>0, NodeFacts
<1> DEFINE q == Parent(a)
<1>2. q \in Nodes /\ Arity(q) \in Nat
  BY <1>0, ParentFacts, NodeFacts
<1>3. PICK i \in 1..Arity(q) : Kid(q, i) = a
  BY <1>0, ParentFacts
<1>4. \A p \in Nodes : \A j \in 1..Arity(p) : Parent(Kid(p, j)) = p
  BY <1>0, ParentFacts
<1>5. \A j \in 1..Arity(q) : a < Kid(q, j) => i < j
  <2> SUFFICES ASSUME NEW j \in 1..Arity(q), a < Kid(q, j), ~(i < j) PROVE FALSE
    BY <1>2
  <2>1. Kid(q, j) \in Nat /\ a \in Nat
    BY <1>0, <1>2, ParentFacts
  <2>2. j = i \/ j < i
    BY <1>2
  <2>3. j < i => Kid(q, j) < a
    BY <1>0, <1>2, <1>3 DEF TreeOK, Ascending
  <2> QED
    BY <1>3, <2>1, <2>2, <2>3
<1>6. CASE Kind(n) = "FUNC_DECL"
  <2>1. Arity(n) = 1
    BY <1>0, <1>6, NodeFacts DEF HasArity
  <2>2. Kid(n, 1) \in Nodes
    BY <1>0, <2>1, ParentFacts
  <2>3. l \in 1..Arity(Kid(n, 1)) /\ VisitKid(n, l) = Kid(Kid(n, 1), l)
    BY <1>6 DEF VisitCount, VisitKid
  <2>4. q = Kid(n, 1)
    BY <1>4, <2>2, <2>3
  <2>5. i < l
    BY <1>5, <2>3, <2>4
  <2>6. i \in 1..VisitCount(n) /\ a = VisitKid(n, i)
    BY <1>3, <1>6, <2>4 DEF VisitCount, VisitKid
  <2> QED
    BY <2>5, <2>6
<1>7. CASE Kind(n) = "CALL"
  <2>1. l + 1 \in 1..Arity(n) /\ VisitKid(n, l) = Kid(n, l + 1)
    BY <1>1, <1>7 DEF VisitCount, VisitKid
  <2>2. q = n
    BY <1>4, <2>1
  <2>3. i < l + 1
    BY <1>5, <2>1, <2>2
  <2>4. CASE i = 1
    BY <1>3, <1>7, <2>2, <2>4
  <2>5. CASE i # 1
    <3>1. i - 1 \in 1..VisitCount(n) /\ i - 1 < l /\ (i - 1) + 1 = i
      BY <1>1, <1>3, <1>7, <2>2, <2>3, <2>5 DEF VisitCount
    <3>2. a = VisitKid(n, i - 1)
      BY <1>3, <1>7, <2>2, <3>1 DEF VisitKid
    <3> QED
      BY <3>1, <3>2
  <2> QED
    BY <2>4, <2>5
<1>8. CASE Kind(n) \notin {"FUNC_DECL", "CALL"}
  <2>1. l \in 1..Arity(n) /\ VisitKid(n, l) = Kid(n, l)
    BY <1>8 DEF VisitCount, VisitKid
  <2>2. q = n
    BY <1>4, <2>1
  <2>3. i < l
    BY <1>5, <2>1, <2>2
  <2>4. i \in 1..VisitCount(n) /\ a = VisitKid(n, i)
    BY <1>3, <1>8, <2>2 DEF VisitCount, VisitKid
  <2> QED
    BY <2>3, <2>4
<1> QED
  BY <1>6, <1>7, <1>8

LEMMA LookupFrame ==
  ASSUME Whole, NEW fs, CallStackOK(fs), NEW e, LooksUp(fs, e)
  PROVE  /\ Len(fs) >= 2 /\ Kind(fs[Len(fs)].node) \in ExprKinds
         /\ e # 1 /\ Under(e, fs[Len(fs)].node)
         /\ \A m : Under(e, m) <=> m = e \/ OnPath(fs, Len(fs), m)
<1>0. AstTypeOK /\ TreeOK /\ phase \in {"sema", "codegen"}
  BY DEF Whole
<1> DEFINE top == fs[Len(fs)].node
<1>1. Len(fs) \in Nat /\ Len(fs) >= 1 /\ fs[1].node = 1 /\ top \in Nodes /\ Kind(1) = "PROGRAM"
  BY <1>0, StackFacts, KindsOfKids
<1>2. Kind(top) \in ExprKinds
  BY DEF LooksUp, ExprKinds
<1>3. Len(fs) # 1 /\ e # 1
  BY <1>1, <1>2 DEF LooksUp, ExprKinds, Literals
<1>4. \A m : Under(top, m) <=> OnPath(fs, Len(fs), m)
  BY <1>1, PathIsStack
<1>5. CASE e = top
  <2>1. OnPath(fs, Len(fs), e)
    BY <1>0, <1>1, <1>4, <1>5, UnderSelf
  <2> QED
    BY <1>0, <1>1, <1>2, <1>3, <1>4, <1>5, <2>1, UnderSelf
<1>6. CASE Kind(top) = "CALL" /\ e = Kid(top, 1)
  <2>1. 1 \in 1..Arity(top)
    BY <1>0, <1>1, <1>6, NodeFacts DEF HasArity
  <2>2. \A m : Under(e, m) <=> m = e \/ Under(top, m)
    BY <1>0, <1>1, <1>6, <2>1, UnderKid
  <2>3. Under(e, top)
    BY <1>0, <1>1, <2>2, UnderSelf
  <2>4. \A m : Under(e, m) <=> m = e \/ OnPath(fs, Len(fs), m)
    BY <1>4, <2>2
  <2>5. Len(fs) >= 2
    <3> DEFINE L == Len(fs)
    <3>1. L \in Nat /\ L >= 1 /\ L # 1
      BY <1>1, <1>3
    <3> HIDE DEF L
    <3>2. L >= 2
      BY <3>1
    <3> QED
      BY <3>2 DEF L
  <2> QED
    BY <1>2, <1>3, <2>3, <2>4, <2>5
<1> QED
  BY <1>5, <1>6 DEF LooksUp

\* A declaration ends before a name that is looked up exactly if it is finished.
LEMMA PrecedesIsFinished ==
  ASSUME Whole, NEW fs, CallStackOK(fs), NEW e, LooksUp(fs, e),
         NEW d \in Nodes, Kind(d) \in {"VAR_DECL", "FUNC_DECL"}
  PROVE  Precedes(d, e) <=> Finished(fs, d)
<1>0. AstTypeOK /\ TreeOK /\ phase \in {"sema", "codegen"} /\ Nodes \in SUBSET Nat
  BY ParentFacts DEF Whole
<1> DEFINE top == fs[Len(fs)].node
<1>1. /\ Len(fs) \in Nat /\ fs[1].node = 1
      /\ \A i \in 1..Len(fs) : fs[i].node \in Nodes /\ fs[i].next \in Nat
      /\ \A i \in 2..Len(fs) :
           /\ fs[i - 1].next - 1 \in 1..VisitCount(fs[i - 1].node)
           /\ fs[i].node = VisitKid(fs[i - 1].node, fs[i - 1].next - 1)
  BY StackFacts
<1>2. /\ Len(fs) >= 2 /\ Kind(top) \in ExprKinds /\ e # 1 /\ e \in Nodes
      /\ \A m : Under(e, m) <=> m = e \/ OnPath(fs, Len(fs), m)
  BY LookupFrame DEF LooksUp
<1>3. \A a \in Nodes : Kind(a) \in ExprKinds \cup Null => ~Under(d, a)
  BY ExpressionsDeclareNothing DEF ExprKinds, Literals, Null
<1>4. ASSUME Finished(fs, d) PROVE Precedes(d, e)
  <2>1. PICK i \in 1..Len(fs) : \E k \in 1..VisitCount(fs[i].node) : k < Past(fs, i) /\ Under(d, VisitKid(fs[i].node, k))
    BY <1>4 DEF Finished
  <2>2. PICK k \in 1..VisitCount(fs[i].node) : k < Past(fs, i) /\ Under(d, VisitKid(fs[i].node, k))
    BY <2>1
  <2> DEFINE a == VisitKid(fs[i].node, k)
             b == fs[i + 1].node
  <2>3. i # Len(fs)
    <3>1. SUFFICES ASSUME i = Len(fs) PROVE FALSE
      OBVIOUS
    <3>2. a \in Nodes /\ Kind(a) \in ExprKinds \cup Null
      BY <1>0, <1>1, <1>2, <3>1, VisitKinds
    <3> QED
      BY <1>3, <2>2, <3>2
  <2>4. i + 1 \in 2..Len(fs) /\ i + 1 \in 1..Len(fs) /\ (i + 1) - 1 = i /\ i < Len(fs)
    BY <1>1, <2>3
  <2>5. /\ fs[i].next - 1 \in 1..VisitCount(fs[i].node)
        /\ b = VisitKid(fs[i].node, fs[i].next - 1)
    BY <1>1, <2>4
  <2>6. k < fs[i].next - 1
    BY <2>2, <2>4 DEF Past
  <2>7. a < b /\ Parent(a) = Parent(b)
    BY <1>1, <2>5, <2>6, VisitSiblings
  <2>8. a # 1 /\ b # 1
    BY <1>1, <2>5, VisitedUnder
  <2>9. Under(e, b)
    <3>1. OnPath(fs, Len(fs), b)
      BY <2>4 DEF OnPath
    <3> QED
      BY <1>2, <3>1
  <2> QED
    BY <2>2, <2>7, <2>8, <2>9 DEF Precedes, Under
<1>5. ASSUME Precedes(d, e) PROVE Finished(fs, d)
  <2>1. PICK a \in Path[d] \ {1} : \E b \in Path[e] \ {1} : a < b /\ Parent(a) = Parent(b)
    BY <1>5 DEF Precedes
  <2>2. PICK b \in Path[e] \ {1} : a < b /\ Parent(a) = Parent(b)
    BY <2>1
  <2>3. a # 1 /\ b # 1 /\ Under(d, a) /\ Under(e, b)
    BY DEF Under
  <2>4. a \in Nodes /\ b \in Nodes
    BY <1>0, <1>2, <2>3, UnderFacts
  <2>5. \A q \in Nodes : Arity(q) >= 1 => b # Kid(q, 1)
    <3> SUFFICES ASSUME NEW q \in Nodes, Arity(q) >= 1, b = Kid(q, 1) PROVE FALSE
      OBVIOUS
    <3>1. Arity(q) \in Nat /\ Parent(b) = q /\ 1 \in 1..Arity(q)
      BY <1>0, ParentFacts, NodeFacts
    <3>2. PICK i \in 1..Arity(Parent(a)) : Kid(Parent(a), i) = a
      BY <1>0, <2>3, <2>4, ParentFacts
    <3>3. Parent(a) = q
      BY <2>2, <3>1
    <3>4. i \in 1..Arity(q) /\ Kid(q, i) = a
      BY <3>2, <3>3
    <3>5. a \in Nat /\ b \in Nat
      BY <1>0, <2>4
    <3>6. i # 1
      BY <2>2, <3>4, <3>5
    <3>7. 1 < i
      BY <3>4, <3>6
    <3>8. b < a
      BY <1>0, <3>1, <3>4, <3>7 DEF TreeOK, Ascending
    <3> QED
      BY <2>2, <3>5, <3>8
  <2>6. ASSUME NEW j \in 1..Len(fs), b = fs[j].node PROVE Finished(fs, d)
    <3>1. j # 1
      BY <1>1, <2>3, <2>6
    <3>2. j \in 2..Len(fs) /\ j - 1 \in 1..Len(fs) /\ j - 1 < Len(fs)
      BY <1>1, <3>1
    <3> DEFINE l == fs[j - 1].next - 1
               n == fs[j - 1].node
    <3>3. n \in Nodes /\ l \in 1..VisitCount(n) /\ b = VisitKid(n, l)
      BY <1>1, <2>6, <3>2
    <3>4. \/ \E k \in 1..VisitCount(n) : k < l /\ a = VisitKid(n, k)
          \/ Kind(n) = "CALL" /\ a = Kid(n, 1)
      <4> HIDE DEF l, n
      <4> QED
        BY <2>2, <2>3, <2>4, <3>3, SiblingsBefore
    <3>5. CASE Kind(n) = "CALL" /\ a = Kid(n, 1)
      <4>1. Kind(n) \in ExprKinds /\ 1 \in 1..Arity(n)
        <5>1. Arity(n) \in Nat /\ Arity(n) >= 1
          BY <1>0, <3>3, <3>5, NodeFacts DEF HasArity
        <5> QED
          BY <3>5, <5>1 DEF ExprKinds
      <4>2. Kind(a) \in ExprKinds
        BY <1>0, <3>3, <3>5, <4>1, KindsOfKids
      <4> QED
        BY <1>3, <2>3, <2>4, <4>2
    <3>6. CASE \E k \in 1..VisitCount(n) : k < l /\ a = VisitKid(n, k)
      <4>1. Past(fs, j - 1) = l
        BY <3>2 DEF Past
      <4> QED
        BY <2>3, <3>2, <3>6, <4>1 DEF Finished
    <3> QED
      BY <3>4, <3>5, <3>6
  <2>7. ASSUME NEW j \in 1..(Len(fs) - 1), Kind(fs[j].node) = "FUNC_DECL", b = Kid(fs[j].node, 1)
        PROVE  FALSE
    <3>1. fs[j].node \in Nodes
      BY <1>1
    <3>2. Arity(fs[j].node) = 1
      BY <1>0, <2>7, <3>1, NodeFacts DEF HasArity
    <3> QED
      BY <2>5, <2>7, <3>1, <3>2
  <2>8. CASE b = e
    <3>1. CASE e = top
      <4>1. Len(fs) \in 1..Len(fs) /\ b = fs[Len(fs)].node
        BY <1>1, <1>2, <2>8, <3>1
      <4> QED
        BY <2>6, <4>1
    <3>2. CASE Kind(top) = "CALL" /\ e = Kid(top, 1)
      <4>1. top \in Nodes
        BY <1>1, <1>2
      <4>2. Arity(top) >= 1
        BY <1>0, <3>2, <4>1, NodeFacts DEF HasArity
      <4> QED
        BY <2>5, <2>8, <3>2, <4>1, <4>2
    <3> QED
      BY <3>1, <3>2 DEF LooksUp
  <2>9. CASE b # e
    <3>1. OnPath(fs, Len(fs), b)
      BY <1>2, <2>3, <2>9
    <3> QED
      BY <2>6, <2>7, <3>1 DEF OnPath
  <2> QED
    BY <2>8, <2>9
<1> QED
  BY <1>4, <1>5

\* What is visible from a name that is looked up: the declarations met whose scope is open.
LEMMA VisibleIsSeen ==
  ASSUME Whole, NEW fs, CallStackOK(fs), NEW e, LooksUp(fs, e), NEW s \in Sites
  PROVE  Visible(s, e) <=> s \in Seen(fs) /\ \E i \in OpenAt(fs) : fs[i].node = SiteScope(s)
<1>0. AstTypeOK /\ TreeOK /\ phase \in {"sema", "codegen"}
  BY DEF Whole
<1> DEFINE top == fs[Len(fs)].node
           d == s.decl
<1>1. /\ Len(fs) \in Nat /\ fs[1].node = 1
      /\ \A i \in 1..Len(fs) : fs[i].node \in Nodes /\ fs[i].next \in Nat
      /\ \A i \in 2..Len(fs) : fs[i - 1].next >= 2
  BY StackFacts
<1>2. /\ Len(fs) >= 2 /\ Kind(top) \in ExprKinds /\ e # 1 /\ e \in Nodes /\ Kind(e) = "IDENT"
      /\ \A m : Under(e, m) <=> m = e \/ OnPath(fs, Len(fs), m)
  BY LookupFrame DEF LooksUp
<1>3. /\ d \in Nodes /\ Kind(d) \in {"VAR_DECL", "FUNC_DECL"}
      /\ SiteScope(s) \in Nodes /\ OpensScope(SiteScope(s))
  BY SiteFacts
<1>4. Precedes(d, e) <=> Finished(fs, d)
  BY <1>3, PrecedesIsFinished
<1>5. \A j \in 1..Len(fs) : Kind(fs[j].node) = "FUNC_DECL" => j < Len(fs) /\ fs[j].next > 0
  <2> SUFFICES ASSUME NEW j \in 1..Len(fs), Kind(fs[j].node) = "FUNC_DECL"
               PROVE  j < Len(fs) /\ fs[j].next > 0
    OBVIOUS
  <2>1. j # Len(fs)
    BY <1>2 DEF ExprKinds, Literals
  <2>2. j + 1 \in 2..Len(fs) /\ (j + 1) - 1 = j
    BY <1>1, <2>1
  <2>3. fs[j].next >= 2
    BY <1>1, <2>2
  <2> QED
    BY <1>1, <2>1, <2>3
<1>6. \A m \in Nodes : OpensScope(m) =>
        (Under(e, m) <=> \E i \in OpenAt(fs) : fs[i].node = m)
  <2> SUFFICES ASSUME NEW m \in Nodes, OpensScope(m)
               PROVE  Under(e, m) <=> \E i \in OpenAt(fs) : fs[i].node = m
    OBVIOUS
  <2>1. m # e
    BY <1>2 DEF OpensScope
  <2>2. ASSUME NEW j \in 1..(Len(fs) - 1), Kind(fs[j].node) = "FUNC_DECL", m = Kid(fs[j].node, 1)
        PROVE  FALSE
    <3>1. fs[j].node \in Nodes
      BY <1>1
    <3>2. Arity(fs[j].node) = 1
      BY <1>0, <2>2, <3>1, NodeFacts DEF HasArity
    <3>3. Kind(m) \in {"BLOCK", "NULL"} /\ Parent(m) = fs[j].node
      BY <1>0, <2>2, <3>1, <3>2, KindsOfKids, ParentFacts
    <3> QED
      BY <2>2, <3>3 DEF OpensScope
  <2>3. ASSUME NEW j \in 1..Len(fs), m = fs[j].node PROVE j \in OpenAt(fs)
    <3>1. Kind(m) \in {"PROGRAM", "FUNC_DECL", "FOR", "BLOCK"}
      BY DEF OpensScope
    <3>2. CASE Kind(m) = "PROGRAM"
      <4>1. VisitOK(fs, j)
        BY DEF CallStackOK
      <4>2. j = 1
        BY <2>3, <3>2, <4>1 DEF VisitOK, KindsAt, StmtKinds, ExprKinds, Literals
      <4> QED
        BY <1>1, <1>2, <4>2 DEF OpenAt
    <3>3. CASE Kind(m) # "PROGRAM"
      <4>1. j # Len(fs)
        BY <1>2, <2>3, <3>1 DEF ExprKinds, Literals
      <4>2. j + 1 \in 2..Len(fs) /\ (j + 1) - 1 = j
        BY <1>1, <4>1
      <4>3. fs[j].next >= 2 /\ fs[j].next \in Nat
        BY <1>1, <4>2
      <4> QED
        BY <2>3, <3>1, <3>3, <4>3 DEF OpenAt, HasScope, ScopedKinds
    <3> QED
      BY <3>2, <3>3
  <2>4. \A j \in OpenAt(fs) : j \in 1..Len(fs)
    BY DEF OpenAt
  <2>5. Under(e, m) <=> \E j \in 1..Len(fs) : m = fs[j].node
    BY <1>2, <2>1, <2>2 DEF OnPath
  <2> QED
    BY <2>3, <2>4, <2>5
<1>7. Kind(d) = "FUNC_DECL" /\ Under(e, d) <=> Entered(fs, d)
  <2>1. Kind(d) = "FUNC_DECL" => OpensScope(d) /\ d # e
    BY <1>2 DEF OpensScope
  <2>2. \A j \in OpenAt(fs) : j \in 1..Len(fs)
    BY DEF OpenAt
  <2>3. Kind(d) = "FUNC_DECL" => \A j \in 1..Len(fs) : fs[j].node = d => j \in OpenAt(fs)
    BY <1>1, <1>5 DEF OpenAt, HasScope, ScopedKinds
  <2>4. Kind(d) = "FUNC_DECL" => (Under(e, d) <=> \E j \in 1..Len(fs) : fs[j].node = d)
    BY <1>3, <1>6, <2>1, <2>2, <2>3
  <2> QED
    BY <1>5, <2>4 DEF Entered
<1>8. Under(e, SiteScope(s)) <=> \E i \in OpenAt(fs) : fs[i].node = SiteScope(s)
  BY <1>3, <1>6
<1> QED
  BY <1>4, <1>7, <1>8 DEF Visible, Seen

-----------------------------------------------------------------------------
(* Scopes hold the declarations met: of each name the first. *)

\* The symbol Sema makes of a declaration.
SymbolOf(s) == IF IsFunction(s) THEN FuncSymbol(s.decl) ELSE VarSymbol(s.decl, SiteType(s))

Compete(s, t) == SiteName(s) = SiteName(t) /\ SiteScope(s) = SiteScope(t)
Distinct(seen) == \A s, t \in seen : Compete(s, t) => s = t \/ (IsFunction(s) /\ IsFunction(t))

\* A scope that belongs to node n holds the first of the declarations in seen of each name.
ScopeHolds(scope, n, seen) ==
  /\ \A x \in DOMAIN scope :
       \E s \in seen : /\ SiteScope(s) = n /\ SiteName(s) = x /\ scope[x] = SymbolOf(s)
                       /\ \A t \in seen : Compete(s, t) => s.decl <= t.decl
  /\ \A s \in seen : SiteScope(s) = n => SiteName(s) \in DOMAIN scope

\* own[j] is the frame that has pushed scope j.
Owns(own, fs, sc) ==
  /\ own \in [1..Len(sc) -> OpenAt(fs)]
  /\ \A i \in OpenAt(fs) : \E j \in 1..Len(sc) : own[j] = i
  /\ \A j, k \in 1..Len(sc) : j < k => own[j] < own[k]
  /\ \A j \in 1..Len(sc) : ScopeHolds(sc[j], fs[own[j]].node, Seen(fs))

LEMMA LookupInner ==
  ASSUME NEW chain \in Seq(ScopeSet), NEW x
  PROVE  \/ LookupIn(chain, x) = NoSymbol /\ \A i \in 1..Len(chain) : x \notin DOMAIN chain[i]
         \/ \E i \in 1..Len(chain) :
              /\ x \in DOMAIN chain[i] /\ LookupIn(chain, x) = chain[i][x]
              /\ \A j \in 1..Len(chain) : j > i => x \notin DOMAIN chain[j]
<1> DEFINE has == {i \in 1..Len(chain) : x \in DOMAIN chain[i]}
           inner(i) == /\ x \in DOMAIN chain[i]
                       /\ \A j \in DOMAIN chain : j > i => x \notin DOMAIN chain[j]
<1>1. DOMAIN chain = 1..Len(chain) /\ Len(chain) \in Nat
  OBVIOUS
<1>2. CASE has = {}
  BY <1>1, <1>2 DEF LookupIn
<1>3. CASE has # {}
  <2>1. PICK i \in has : \A j \in has : j <= i
    BY <1>1, <1>3, Extremes
  <2>2. i \in DOMAIN chain /\ inner(i)
    BY <1>1, <2>1
  <2> DEFINE c == CHOOSE k \in DOMAIN chain : inner(k)
  <2>3. LookupIn(chain, x) = chain[c][x]
    BY <2>2 DEF LookupIn
  <2>4. c \in DOMAIN chain /\ inner(c)
    <3> HIDE DEF inner
    <3> QED
      BY <2>2
  <2> HIDE DEF c
  <2> QED
    BY <1>1, <2>3, <2>4
<1> QED
  BY <1>2, <1>3

\* A name is looked up to the symbol of the declaration it means.
LEMMA LookupMeans ==
  ASSUME Whole, NEW fs, CallStackOK(fs), NEW e, LooksUp(fs, e), NEW sc \in Seq(ScopeSet), NEW own,
         Owns(own, fs, sc), Distinct(Seen(fs)), NEW symbol, symbol = LookupIn(sc, ast[e].name)
  PROVE  /\ ~Declared(e) => symbol = NoSymbol
         /\ Declared(e) => Meaning(e) \in Sites /\ symbol = SymbolOf(Meaning(e))
<1> DEFINE x == ast[e].name
           C == Candidates(e)
           Beats(s, t) == \/ SiteScope(s) # SiteScope(t) /\ Under(SiteScope(s), SiteScope(t))
                          \/ SiteScope(s) = SiteScope(t) /\ Earlier(s, t)
           Best(s) == \A t \in C \ {s} : Beats(s, t)
<1>0. AstTypeOK /\ TreeOK /\ phase \in {"sema", "codegen"} /\ Nodes \in SUBSET Nat
  BY ParentFacts DEF Whole
<1>1. /\ Len(sc) \in Nat /\ Len(fs) \in Nat
      /\ own \in [1..Len(sc) -> OpenAt(fs)]
      /\ \A i \in OpenAt(fs) : \E j \in 1..Len(sc) : own[j] = i
      /\ \A j, k \in 1..Len(sc) : j < k => own[j] < own[k]
      /\ \A j \in 1..Len(sc) : ScopeHolds(sc[j], fs[own[j]].node, Seen(fs))
  BY StackFacts DEF Owns
<1>2. \A s : s \in C <=> /\ s \in Seen(fs) /\ SiteName(s) = x
                         /\ \E i \in OpenAt(fs) : fs[i].node = SiteScope(s)
  <2>1. \A s \in Sites : Visible(s, e) <=> s \in Seen(fs) /\ \E i \in OpenAt(fs) : fs[i].node = SiteScope(s)
    BY VisibleIsSeen
  <2>2. Seen(fs) \subseteq Sites
    BY DEF Seen
  <2> QED
    BY <2>1, <2>2 DEF Candidates
<1>3. \A s \in C : s \in Sites
  BY DEF Candidates
<1>4. \A s \in C : \E j \in 1..Len(sc) : fs[own[j]].node = SiteScope(s) /\ x \in DOMAIN sc[j]
  <2> SUFFICES ASSUME NEW s \in C
               PROVE  \E j \in 1..Len(sc) : fs[own[j]].node = SiteScope(s) /\ x \in DOMAIN sc[j]
    OBVIOUS
  <2>1. PICK i \in OpenAt(fs) : fs[i].node = SiteScope(s)
    BY <1>2
  <2>2. PICK j \in 1..Len(sc) : own[j] = i
    BY <1>1
  <2>3. ScopeHolds(sc[j], SiteScope(s), Seen(fs))
    BY <1>1, <2>1, <2>2
  <2>4. s \in Seen(fs) /\ SiteName(s) = x
    BY <1>2
  <2> QED
    BY <2>1, <2>2, <2>3, <2>4 DEF ScopeHolds
<1>5. CASE \A i \in 1..Len(sc) : x \notin DOMAIN sc[i]
  <2>1. C = {}
    BY <1>4, <1>5
  <2>2. symbol = NoSymbol
    BY <1>5, LookupInner
  <2> QED
    BY <2>1, <2>2 DEF Declared
<1>6. CASE \E i \in 1..Len(sc) : x \in DOMAIN sc[i]
  <2>1. PICK j \in 1..Len(sc) : /\ x \in DOMAIN sc[j] /\ symbol = sc[j][x]
                                /\ \A k \in 1..Len(sc) : k > j => x \notin DOMAIN sc[k]
    BY <1>6, LookupInner
  <2> DEFINE n == fs[own[j]].node
  <2>2. PICK s \in Seen(fs) : /\ SiteScope(s) = n /\ SiteName(s) = x /\ sc[j][x] = SymbolOf(s)
                              /\ \A t \in Seen(fs) : Compete(s, t) => s.decl <= t.decl
    BY <1>1, <2>1 DEF ScopeHolds
  <2>3. s \in C
    BY <1>1, <1>2, <2>2
  <2>4. \A t \in C : SiteScope(t) # n => Under(n, SiteScope(t))
    <3> SUFFICES ASSUME NEW t \in C, SiteScope(t) # n PROVE Under(n, SiteScope(t))
      OBVIOUS
    <3>1. PICK k \in 1..Len(sc) : fs[own[k]].node = SiteScope(t) /\ x \in DOMAIN sc[k]
      BY <1>4
    <3>2. ~(k > j) /\ k # j
      BY <2>1, <3>1
    <3>3. k < j
      BY <1>1, <3>2
    <3>4. own[k] < own[j] /\ own[j] \in OpenAt(fs) /\ own[k] \in OpenAt(fs)
      BY <1>1, <3>3
    <3>5. own[j] \in 1..Len(fs) /\ own[k] \in 1..own[j]
      BY <3>4 DEF OpenAt
    <3> DEFINE i == own[j]
    <3>6. OnPath(fs, i, SiteScope(t))
      BY <3>1, <3>5 DEF OnPath
    <3> HIDE DEF i
    <3>7. i \in 1..Len(fs)
      BY <3>5 DEF i
    <3>8. Under(fs[i].node, SiteScope(t))
      BY <3>6, <3>7, PathIsStack
    <3> QED
      BY <3>8 DEF i
  <2>5. \A t \in C : SiteScope(t) = n /\ t # s =>
          IsFunction(s) /\ IsFunction(t) /\ s.decl < t.decl
    <3> SUFFICES ASSUME NEW t \in C, SiteScope(t) = n, t # s
                 PROVE  IsFunction(s) /\ IsFunction(t) /\ s.decl < t.decl
      OBVIOUS
    <3>1. t \in Seen(fs) /\ Compete(s, t)
      BY <1>2, <2>2 DEF Compete
    <3>2. IsFunction(s) /\ IsFunction(t) /\ s.decl <= t.decl
      BY <2>2, <3>1 DEF Distinct
    <3>3. s = Site(s.decl, s.param) /\ t = Site(t.decl, t.param) /\ s.decl \in Nodes /\ t.decl \in Nodes
      BY <1>3, <2>3, SiteFacts
    <3>4. s.param = 0 /\ t.param = 0
      BY <3>2 DEF IsFunction, IsParam
    <3>5. s.decl # t.decl
      BY <3>3, <3>4
    <3>6. s.decl \in Nat /\ t.decl \in Nat
      BY <1>0, <3>3
    <3>7. s.decl < t.decl
      <4>1. s.decl <= t.decl
        BY <3>2
      <4> QED
        BY <3>5, <3>6, <4>1
    <3> QED
      BY <3>2, <3>7
  <2>6. \A t \in C : t # s /\ SiteScope(t) = n => Earlier(s, t) /\ ~Earlier(t, s)
    <3> SUFFICES ASSUME NEW t \in C, SiteScope(t) = n, t # s
                 PROVE  Earlier(s, t) /\ ~Earlier(t, s)
      OBVIOUS
    <3>1. IsFunction(s) /\ IsFunction(t) /\ s.decl < t.decl
      BY <2>5
    <3>2. s.decl \in Nodes /\ t.decl \in Nodes /\ Kind(s.decl) = "FUNC_DECL" /\ Kind(t.decl) = "FUNC_DECL"
      BY <1>3, <2>3, <3>1, SiteFacts DEF IsFunction
    <3>3. /\ Path[s.decl] \ {1} = {s.decl} /\ Path[t.decl] \ {1} = {t.decl}
          /\ Parent(s.decl) = 1 /\ Parent(t.decl) = 1
      BY <3>2, FunctionsAtTop
    <3>4. Precedes(s.decl, t.decl)
      BY <3>1, <3>3 DEF Precedes
    <3>5. ~(t.decl < s.decl) /\ s.decl # t.decl
      <4>1. s.decl \in Nat /\ t.decl \in Nat /\ s.decl < t.decl
        BY <1>0, <3>1, <3>2
      <4> QED
        BY <4>1
    <3>6. ~Precedes(t.decl, s.decl)
      BY <3>3, <3>5 DEF Precedes
    <3> QED
      BY <3>1, <3>4, <3>5, <3>6 DEF Earlier, IsFunction
  <2>7. Best(s)
    BY <2>2, <2>4, <2>6
  <2>8. ASSUME NEW t \in C, Best(t) PROVE t = s
    <3>1. SUFFICES ASSUME t # s PROVE FALSE
      OBVIOUS
    <3>2. Beats(t, s)
      BY <2>3, <2>8, <3>1
    <3>3. CASE SiteScope(t) = n
      BY <2>2, <2>6, <3>1, <3>2, <3>3
    <3>4. CASE SiteScope(t) # n
      <4>1. Under(n, SiteScope(t)) /\ Under(SiteScope(t), n)
        BY <2>2, <2>4, <3>2, <3>4
      <4>2. n \in Nodes /\ SiteScope(t) \in Nodes
        BY <1>3, <2>2, <2>3, SiteFacts
      <4>3. n <= SiteScope(t) /\ SiteScope(t) <= n
        BY <1>0, <4>1, <4>2, UnderFacts
      <4>4. n \in Nat /\ SiteScope(t) \in Nat
        BY <1>0, <4>2
      <4> QED
        BY <3>4, <4>3, <4>4
    <3> QED
      BY <3>3, <3>4
  <2>9. Meaning(e) = CHOOSE t \in C : Best(t)
    BY DEF Meaning
  <2>10. Meaning(e) = s
    <3> HIDE DEF C, Best
    <3> QED
      BY <2>3, <2>7, <2>8, <2>9
  <2> QED
    BY <1>3, <2>1, <2>2, <2>3, <2>10 DEF Declared
<1> QED
  BY <1>5, <1>6

-----------------------------------------------------------------------------
(* The innermost open scope is that of the running function's node. *)

LEMMA VisitedParent ==
  ASSUME Whole, NEW n \in Nodes, NEW k \in 1..VisitCount(n), NEW c, c = VisitKid(n, k)
  PROVE  /\ c \in Nodes /\ c # 1 /\ ~IsCallee(c)
         /\ Kind(n) # "FUNC_DECL" => Parent(c) = n
         /\ Kind(n) = "FUNC_DECL" =>
              /\ Parent(c) = Kid(n, 1) /\ Kid(n, 1) \in Nodes /\ Kid(n, 1) # 1
              /\ Kind(Kid(n, 1)) = "BLOCK" /\ Parent(Kid(n, 1)) = n
<1>0. AstTypeOK /\ TreeOK /\ phase \in {"sema", "codegen"} /\ Nodes \in SUBSET Nat
  BY ParentFacts DEF Whole
<1>1. PICK q \in Nodes : \E i \in 1..Arity(q) :
        c = Kid(q, i) /\ ~(Kind(q) = "CALL" /\ i = 1)
  BY <1>0, VisitedIsKid
<1>2. PICK i \in 1..Arity(q) : c = Kid(q, i) /\ ~(Kind(q) = "CALL" /\ i = 1)
  BY <1>1
<1>3. c \in Nodes /\ c # 1 /\ Parent(c) = q
  BY <1>0, <1>2, ParentFacts
<1>4. ~IsCallee(c)
  <2> SUFFICES ASSUME IsCallee(c) PROVE FALSE
    OBVIOUS
  <2>1. Kind(q) = "CALL" /\ Kid(q, 1) = c
    BY <1>3 DEF IsCallee
  <2>2. i # 1
    BY <1>2, <2>1
  <2>3. 1 \in 1..Arity(q) /\ i \in 1..Arity(q) /\ 1 < i
    <3>1. Arity(q) \in Nat
      BY <1>0, NodeFacts
    <3> QED
      BY <2>2, <3>1
  <2>4. Kid(q, 1) < Kid(q, i)
    BY <1>0, <2>3 DEF TreeOK, Ascending
  <2>5. c \in Nat
    BY <1>0, <1>3
  <2> QED
    BY <1>2, <2>1, <2>4, <2>5
<1>5. CASE Kind(n) # "FUNC_DECL"
  <2>1. PICK p \in Nodes : \E j \in 1..Arity(p) : c = Kid(p, j) /\ p = n
    BY <1>0, <1>5, VisitedIsKid
  <2>2. Parent(c) = n
    BY <1>0, <2>1, ParentFacts
  <2> QED
    BY <1>3, <1>4, <1>5, <2>2
<1>6. CASE Kind(n) = "FUNC_DECL"
  <2>1. Arity(n) = 1
    BY <1>0, <1>6, NodeFacts DEF HasArity
  <2>2. Kid(n, 1) \in Nodes /\ Kid(n, 1) # 1 /\ Parent(Kid(n, 1)) = n
    BY <1>0, <2>1, ParentFacts
  <2>3. c = Kid(Kid(n, 1), k) /\ k \in 1..Arity(Kid(n, 1))
    BY <1>6 DEF VisitKid, VisitCount
  <2>4. Parent(c) = Kid(n, 1)
    BY <1>0, <2>2, <2>3, ParentFacts
  <2>5. Kind(Kid(n, 1)) \in {"BLOCK", "NULL"}
    BY <1>0, <1>6, <2>1, KindsOfKids
  <2>6. Kind(Kid(n, 1)) # "NULL"
    <3>1. Kind(Kid(n, 1)) = "NULL" => Arity(Kid(n, 1)) = 0
      BY <1>0, <2>2, NodeFacts DEF HasArity
    <3> QED
      BY <2>3, <3>1
  <2> QED
    BY <1>3, <1>4, <1>6, <2>2, <2>4, <2>5, <2>6
<1> QED
  BY <1>5, <1>6

LEMMA OwnerOfVisited ==
  ASSUME Whole, NEW n \in Nodes, NEW k \in 1..VisitCount(n), NEW c, c = VisitKid(n, k)
  PROVE  /\ OpensScope(n) => Owner[c] = n
         /\ ~OpensScope(n) => Owner[c] = Owner[n]
         /\ n # 1 /\ Kind(Parent(n)) # "FUNC_DECL" => (OpensScope(n) <=> Kind(n) \in ScopedKinds)
         /\ Kind(Parent(c)) # "FUNC_DECL"
<1>0. AstTypeOK /\ TreeOK /\ phase \in {"sema", "codegen"}
  BY DEF Whole
<1>1. c \in Nodes /\ c # 1
  BY VisitedParent
<1>2. Owner[c] = IF OpensScope(Parent(c)) THEN Parent(c) ELSE Owner[Parent(c)]
  BY <1>0, <1>1, OwnerUnfolds
<1>3. n # 1 => Kind(n) # "PROGRAM"
  <2> SUFFICES ASSUME n # 1 PROVE Kind(n) # "PROGRAM"
    OBVIOUS
  <2>1. Parent(n) \in Nodes /\ \E i \in 1..Arity(Parent(n)) : Kid(Parent(n), i) = n
    BY <1>0, ParentFacts
  <2> QED
    BY <1>0, <2>1, KindsOfKids
<1>4. n # 1 /\ Kind(Parent(n)) # "FUNC_DECL" => (OpensScope(n) <=> Kind(n) \in ScopedKinds)
  BY <1>3 DEF OpensScope, ScopedKinds
<1>5. CASE Kind(n) # "FUNC_DECL"
  BY <1>2, <1>4, <1>5, VisitedParent
<1>6. CASE Kind(n) = "FUNC_DECL"
  <2> DEFINE b == Kid(n, 1)
  <2>1. Parent(c) = b /\ b \in Nodes /\ b # 1 /\ Kind(b) = "BLOCK" /\ Parent(b) = n
    BY <1>6, VisitedParent
  <2>2. OpensScope(n) /\ ~OpensScope(b)
    BY <1>6, <2>1 DEF OpensScope
  <2>3. Owner[b] = n
    BY <1>0, <2>1, <2>2, OwnerUnfolds
  <2> QED
    BY <1>2, <1>4, <2>1, <2>2, <2>3
<1> QED
  BY <1>5, <1>6

\* j is the innermost frame with a scope.
LEMMA OwnerOfFrame ==
  ASSUME Whole, NEW fs, CallStackOK(fs), NEW j \in OpenAt(fs), \A i \in OpenAt(fs) : i <= j,
         NEW i \in 1..Len(fs), j < i
  PROVE  Owner[fs[i].node] = fs[j].node
<1> DEFINE Bad == {k \in 1..Len(fs) : j < k /\ Owner[fs[k].node] # fs[j].node}
<1>0. AstTypeOK /\ TreeOK /\ phase \in {"sema", "codegen"} /\ Kind(1) = "PROGRAM"
  BY KindsOfKids DEF Whole
<1>1. /\ Len(fs) \in Nat /\ fs[1].node = 1
      /\ \A k \in 1..Len(fs) : fs[k].node \in Nodes /\ fs[k].next \in Nat
      /\ \A k \in 2..Len(fs) :
           /\ fs[k - 1].next >= 2 /\ fs[k - 1].next - 1 \in 1..VisitCount(fs[k - 1].node)
           /\ fs[k].node = VisitKid(fs[k - 1].node, fs[k - 1].next - 1)
  BY StackFacts
<1>2. j \in 1..Len(fs) /\ (j = 1 \/ HasScope(fs[j]))
  BY DEF OpenAt
<1>3. SUFFICES ASSUME Bad # {} PROVE FALSE
  OBVIOUS
<1>4. PICK k \in Bad : \A l \in Bad : k <= l
  BY <1>1, <1>3, Extremes
<1>5. k \in 2..Len(fs) /\ k - 1 \in 1..Len(fs) /\ j <= k - 1 /\ Owner[fs[k].node] # fs[j].node
  BY <1>1, <1>2, <1>4
<1> DEFINE n == fs[k - 1].node
<1>6. /\ n \in Nodes /\ fs[k].node = VisitKid(n, fs[k - 1].next - 1)
      /\ fs[k - 1].next - 1 \in 1..VisitCount(n) /\ fs[k - 1].next >= 2 /\ fs[k - 1].next \in Nat
  BY <1>1, <1>5
<1>7. k - 1 # 1 => n # 1 /\ Kind(Parent(n)) # "FUNC_DECL"
  <2> SUFFICES ASSUME k - 1 # 1 PROVE n # 1 /\ Kind(Parent(n)) # "FUNC_DECL"
    OBVIOUS
  <2>1. k - 1 \in 2..Len(fs) /\ (k - 1) - 1 \in 1..Len(fs)
    BY <1>1, <1>5
  <2>2. /\ fs[(k - 1) - 1].node \in Nodes
        /\ fs[(k - 1) - 1].next - 1 \in 1..VisitCount(fs[(k - 1) - 1].node)
        /\ n = VisitKid(fs[(k - 1) - 1].node, fs[(k - 1) - 1].next - 1)
    BY <1>1, <2>1
  <2> QED
    BY <2>2, OwnerOfVisited, VisitedParent
<1>8. OpensScope(n) <=> k - 1 \in OpenAt(fs)
  <2>1. CASE k - 1 = 1
    BY <1>0, <1>1, <1>5, <2>1 DEF OpensScope, OpenAt
  <2>2. CASE k - 1 # 1
    <3>1. OpensScope(n) <=> Kind(n) \in ScopedKinds
      BY <1>6, <1>7, <2>2, OwnerOfVisited
    <3>2. k - 1 \in OpenAt(fs) <=> Kind(n) \in ScopedKinds
      BY <1>5, <1>6, <2>2 DEF OpenAt, HasScope
    <3> QED
      BY <3>1, <3>2
  <2> QED
    BY <2>1, <2>2
<1>9. CASE k - 1 = j
  <2>1. OpensScope(n)
    BY <1>8, <1>9
  <2>2. Owner[fs[k].node] = n
    BY <1>6, <2>1, OwnerOfVisited
  <2> QED
    BY <1>5, <1>9, <2>2
<1>10. CASE k - 1 # j
  <2>1. k - 1 > j
    BY <1>1, <1>2, <1>5, <1>10
  <2>2. k - 1 \notin OpenAt(fs)
    BY <1>1, <1>2, <1>5, <2>1
  <2>3. Owner[fs[k].node] = Owner[n]
    BY <1>6, <1>8, <2>2, OwnerOfVisited
  <2>4. k - 1 \notin Bad
    BY <1>4, <1>5
  <2> QED
    BY <1>5, <2>1, <2>3, <2>4
<1> QED
  BY <1>9, <1>10

-----------------------------------------------------------------------------
(* The steps of the call stack, from fs to gs, and the declarations met in each. *)

Popped(fs, gs) == Len(gs) = Len(fs) - 1 /\ \A i \in 1..Len(gs) : gs[i] = fs[i]
Opened(fs, gs) ==
  /\ Len(gs) = Len(fs) /\ \A i \in 1..Len(gs) : gs[i].node = fs[i].node
  /\ \A i \in 1..Len(gs) : i # Len(fs) => gs[i] = fs[i]
  /\ fs[Len(fs)].next = 0 /\ gs[Len(fs)].next = 1
ChildCalled(fs, gs) ==
  LET top == fs[Len(fs)]
      child == VisitKid(top.node, top.next)
  IN /\ top.next \in 1..VisitCount(top.node)
     /\ \A i \in 1..Len(fs) : gs[i].node = fs[i].node /\ (i # Len(fs) => gs[i] = fs[i])
     /\ gs[Len(fs)].next = top.next + 1
     /\ IF IsNull(child) THEN Len(gs) = Len(fs)
        ELSE Len(gs) = Len(fs) + 1 /\ gs[Len(fs) + 1] = Frame(child)

Declares(d) == d \in Nodes /\ Kind(d) \in {"VAR_DECL", "FUNC_DECL"}

\* What a node declares is its own, or declared in a child that is visited.
LEMMA DeclaredWithin ==
  ASSUME Whole, NEW n \in Nodes, NEW d, Declares(d)
  PROVE  Under(d, n) <=> d = n \/ \E k \in 1..VisitCount(n) : Under(d, VisitKid(n, k))
<1>0. AstTypeOK /\ TreeOK /\ phase \in {"sema", "codegen"}
  BY DEF Whole
<1>1. d \in Nodes /\ Kind(d) \in {"VAR_DECL", "FUNC_DECL"} /\ Arity(n) \in Nat
  BY <1>0, NodeFacts DEF Declares
<1>2. d = n => Under(d, n)
  BY <1>0, <1>1, UnderSelf
<1>3. ASSUME NEW k \in 1..VisitCount(n), Under(d, VisitKid(n, k)) PROVE Under(d, n)
  <2>1. VisitKid(n, k) \in Nodes /\ Under(VisitKid(n, k), n)
    BY <1>0, VisitedUnder, UnderSelf
  <2> QED
    BY <1>0, <1>1, <1>3, <2>1, UnderTransitive
<1>4. ASSUME Under(d, n), d # n PROVE \E k \in 1..VisitCount(n) : Under(d, VisitKid(n, k))
  <2>1. PICK i \in 1..Arity(n) : Under(d, Kid(n, i))
    BY <1>0, <1>1, <1>4, Descends
  <2>2. CASE Kind(n) = "CALL"
    <3>1. Kind(n) \in ExprKinds
      BY <2>2 DEF ExprKinds
    <3>2. Kind(d) \in ExprKinds \cup Null
      BY <1>1, <1>4, <3>1, ExpressionsDeclareNothing
    <3> QED
      BY <1>1, <3>2 DEF ExprKinds, Literals, Null
  <2>3. CASE Kind(n) = "FUNC_DECL"
    <3> DEFINE b == Kid(n, 1)
    <3>1. Arity(n) = 1
      BY <1>0, <2>3, NodeFacts DEF HasArity
    <3>2. b \in Nodes /\ Kind(b) \in {"BLOCK", "NULL"} /\ Under(d, b)
      BY <1>0, <2>1, <2>3, <3>1, ParentFacts, KindsOfKids
    <3>3. d # b
      BY <1>1, <3>2
    <3>4. PICK k \in 1..Arity(b) : Under(d, Kid(b, k))
      BY <1>0, <1>1, <3>2, <3>3, Descends
    <3> QED
      BY <2>3, <3>4 DEF VisitCount, VisitKid
  <2>4. CASE Kind(n) \notin {"CALL", "FUNC_DECL"}
    BY <2>1, <2>4 DEF VisitCount, VisitKid
  <2> QED
    BY <2>2, <2>3, <2>4
<1> QED
  BY <1>2, <1>3, <1>4

\* All children of the running function's node are finished.
Complete(fs) ==
  LET top == fs[Len(fs)]
  IN top.next > VisitCount(top.node) \/ (Kind(top.node) = "FUNC_DECL" /\ IsNull(Kid(top.node, 1)))

LEMMA FinishedPop ==
  ASSUME Whole, NEW fs, CallStackOK(fs), Len(fs) >= 2, NEW gs, Popped(fs, gs), Complete(fs), NEW d, Declares(d)
  PROVE  Finished(gs, d) <=> Finished(fs, d) \/ d = fs[Len(fs)].node
<1> DEFINE L == Len(fs)
           n == fs[L].node
           F(i) == \E k \in 1..VisitCount(fs[i].node) : k < Past(fs, i) /\ Under(d, VisitKid(fs[i].node, k))
           G(i) == \E k \in 1..VisitCount(gs[i].node) : k < Past(gs, i) /\ Under(d, VisitKid(gs[i].node, k))
<1>0. AstTypeOK /\ TreeOK /\ phase \in {"sema", "codegen"} /\ d \in Nodes
  BY DEF Whole, Declares
<1>1. /\ L \in Nat /\ L >= 2 /\ Len(gs) = L - 1
      /\ \A i \in 1..(L - 1) : gs[i] = fs[i]
      /\ \A i \in 1..L : fs[i].node \in Nodes /\ fs[i].next \in Nat
      /\ fs[L - 1].next >= 2 /\ fs[L - 1].next - 1 \in 1..VisitCount(fs[L - 1].node)
      /\ n = VisitKid(fs[L - 1].node, fs[L - 1].next - 1)
  BY StackFacts DEF Popped
<1>2. Finished(fs, d) <=> \E i \in 1..L : F(i)
  BY DEF Finished
<1>3. Finished(gs, d) <=> \E i \in 1..(L - 1) : G(i)
  BY <1>1 DEF Finished
<1>4. ASSUME NEW i \in 1..(L - 1), i # L - 1 PROVE G(i) <=> F(i)
  <2>1. Past(gs, i) = Past(fs, i)
    BY <1>1, <1>4 DEF Past
  <2> QED
    BY <1>1, <2>1
<1>5. G(L - 1) <=> F(L - 1) \/ Under(d, n)
  <2> DEFINE p == fs[L - 1]
  <2>1. Past(gs, L - 1) = p.next /\ Past(fs, L - 1) = p.next - 1 /\ gs[L - 1] = p /\ p.next \in Nat
    BY <1>1 DEF Past
  <2>2. \A k \in 1..VisitCount(p.node) : k < p.next <=> k < p.next - 1 \/ k = p.next - 1
    BY <2>1
  <2>3. p.next - 1 \in 1..VisitCount(p.node) /\ n = VisitKid(p.node, p.next - 1)
    BY <1>1
  <2> HIDE DEF p
  <2>4. G(L - 1) <=> \E k \in 1..VisitCount(p.node) : k < p.next /\ Under(d, VisitKid(p.node, k))
    BY <2>1
  <2>5. F(L - 1) <=> \E k \in 1..VisitCount(p.node) : k < p.next - 1 /\ Under(d, VisitKid(p.node, k))
    BY <2>1 DEF p
  <2>6. Under(d, n) <=> \E k \in 1..VisitCount(p.node) : k = p.next - 1 /\ Under(d, VisitKid(p.node, k))
    BY <2>3
  <2> HIDE DEF F, G
  <2> QED
    BY <2>2, <2>4, <2>5, <2>6
<1>6. Under(d, n) <=> d = n \/ F(L)
  <2>1. n \in Nodes /\ fs[L].next \in Nat
    BY <1>1
  <2>2. Under(d, n) <=> d = n \/ \E k \in 1..VisitCount(n) : Under(d, VisitKid(n, k))
    BY <2>1, DeclaredWithin
  <2>3. Past(fs, L) = fs[L].next
    BY <2>1 DEF Past
  <2>4. \A k \in 1..VisitCount(n) : k < fs[L].next
    <3>1. CASE fs[L].next > VisitCount(n)
      BY <1>0, <2>1, <3>1, VisitedIsKid
    <3>2. CASE Kind(n) = "FUNC_DECL" /\ IsNull(Kid(n, 1))
      <4>1. Kid(n, 1) \in Nodes
        <5>1. Arity(n) = 1
          BY <1>0, <2>1, <3>2, NodeFacts DEF HasArity
        <5> QED
          BY <1>0, <2>1, <5>1, NodeFacts
      <4>2. VisitCount(n) = 0
        BY <1>0, <3>2, <4>1, NodeFacts DEF HasArity, VisitCount, IsNull
      <4> QED
        BY <4>2
    <3> QED
      BY <3>1, <3>2 DEF Complete
  <2> QED
    BY <2>2, <2>3, <2>4
<1>7. (\E i \in 1..L : F(i)) <=> F(L) \/ F(L - 1) \/ \E i \in 1..(L - 1) : i # L - 1 /\ F(i)
  <2>1. 1..L = 1..(L - 1) \cup {L} /\ L - 1 \in 1..(L - 1)
    BY <1>1
  <2> HIDE DEF F, L
  <2> QED
    BY <2>1
<1>8. (\E i \in 1..(L - 1) : G(i)) <=> G(L - 1) \/ \E i \in 1..(L - 1) : i # L - 1 /\ G(i)
  <2>1. L - 1 \in 1..(L - 1)
    BY <1>1
  <2> HIDE DEF G, L
  <2> QED
    BY <2>1
<1> HIDE DEF F, G, L
<1>9. (\E i \in 1..(L - 1) : i # L - 1 /\ G(i)) <=> \E i \in 1..(L - 1) : i # L - 1 /\ F(i)
  BY <1>4
<1>10. Finished(gs, d) <=> Finished(fs, d) \/ d = n
  BY <1>2, <1>3, <1>5, <1>6, <1>7, <1>8, <1>9
<1> QED
  BY <1>10 DEF L

LEMMA FinishedOpen ==
  ASSUME Whole, NEW fs, CallStackOK(fs), NEW gs, Opened(fs, gs), NEW d, Declares(d)
  PROVE  Finished(gs, d) <=> Finished(fs, d)
<1>1. Len(fs) \in Nat
  BY StackFacts
<1>2. ASSUME NEW i \in 1..Len(fs), NEW k \in 1..VisitCount(fs[i].node)
      PROVE  k < Past(gs, i) <=> k < Past(fs, i)
  BY <1>1 DEF Opened, Past
<1> QED
  BY <1>2 DEF Finished, Opened

LEMMA FinishedCall ==
  ASSUME Whole, NEW fs, CallStackOK(fs), NEW gs, ChildCalled(fs, gs), NEW d, Declares(d)
  PROVE  Finished(gs, d) <=> Finished(fs, d)
<1> DEFINE L == Len(fs)
           n == fs[L].node
           c == VisitKid(n, fs[L].next)
           F(i) == \E k \in 1..VisitCount(fs[i].node) : k < Past(fs, i) /\ Under(d, VisitKid(fs[i].node, k))
           G(i) == \E k \in 1..VisitCount(gs[i].node) : k < Past(gs, i) /\ Under(d, VisitKid(gs[i].node, k))
<1>0. AstTypeOK /\ TreeOK /\ phase \in {"sema", "codegen"} /\ d \in Nodes /\ Kind(d) \in {"VAR_DECL", "FUNC_DECL"}
  BY DEF Whole, Declares
<1>1. /\ L \in Nat /\ L >= 1
      /\ \A i \in 1..L : fs[i].node \in Nodes /\ fs[i].next \in Nat
  BY StackFacts
<1>2. /\ fs[L].next \in 1..VisitCount(n)
      /\ \A i \in 1..L : gs[i].node = fs[i].node /\ (i # L => gs[i] = fs[i])
      /\ gs[L].next = fs[L].next + 1
      /\ IF IsNull(c) THEN Len(gs) = L ELSE Len(gs) = L + 1 /\ gs[L + 1] = Frame(c)
  BY DEF ChildCalled
<1>3. Finished(fs, d) <=> \E i \in 1..L : F(i)
  BY DEF Finished
<1>4. Finished(gs, d) <=> \E i \in 1..Len(gs) : G(i)
  BY DEF Finished
<1>5. ASSUME NEW i \in 1..L, i # L PROVE G(i) <=> F(i)
  <2>1. Past(gs, i) = Past(fs, i)
    BY <1>1, <1>2, <1>5 DEF Past
  <2> QED
    BY <1>2, <1>5, <2>1
<1>6. CASE IsNull(c)
  <2>1. Past(gs, L) = fs[L].next + 1 /\ Past(fs, L) = fs[L].next /\ fs[L].next \in Nat
    BY <1>1, <1>2, <1>6 DEF Past
  <2>2. ~Under(d, c)
    <3>1. c \in Nodes /\ Kind(c) \in ExprKinds \cup Null
      BY <1>1, <1>2, <1>6, VisitedUnder DEF Null, IsNull
    <3>2. Under(d, c) => Kind(d) \in ExprKinds \cup Null
      BY <1>0, <3>1, ExpressionsDeclareNothing
    <3> QED
      BY <1>0, <3>2 DEF ExprKinds, Literals, Null
  <2>3. G(L) <=> F(L)
    <3>1. \A k \in 1..VisitCount(n) : k < fs[L].next + 1 <=> k < fs[L].next \/ k = fs[L].next
      BY <2>1
    <3>2. gs[L].node = n
      BY <1>1, <1>2
    <3>3. G(L) <=> \E k \in 1..VisitCount(n) : k < fs[L].next + 1 /\ Under(d, VisitKid(n, k))
      BY <2>1, <3>2
    <3>4. F(L) <=> \E k \in 1..VisitCount(n) : k < fs[L].next /\ Under(d, VisitKid(n, k))
      BY <2>1
    <3>5. \A k : k = fs[L].next => ~Under(d, VisitKid(n, k))
      BY <2>2
    <3> HIDE DEF F, G
    <3> QED
      BY <3>1, <3>3, <3>4, <3>5
  <2>4. Len(gs) = L
    BY <1>2, <1>6
  <2>5. \A i \in 1..L : G(i) <=> F(i)
    BY <1>5, <2>3
  <2> HIDE DEF F, G
  <2> QED
    BY <1>3, <1>4, <2>4, <2>5
<1>7. CASE ~IsNull(c)
  <2>1. Len(gs) = L + 1 /\ gs[L + 1].node = c /\ gs[L + 1].next \in {0, 1}
    BY <1>2, <1>7 DEF Frame
  <2>2. ~G(L + 1)
    <3>1. Past(gs, L + 1) \in {0, 1}
      BY <1>1, <2>1 DEF Past
    <3> QED
      BY <3>1
  <2>3. G(L) <=> F(L)
    <3>1. Past(gs, L) = Past(fs, L) /\ gs[L].node = n
      BY <1>1, <1>2, <2>1 DEF Past
    <3> QED
      BY <3>1
  <2>4. \A i \in 1..L : G(i) <=> F(i)
    BY <1>5, <2>3
  <2>5. 1..Len(gs) = 1..L \cup {L + 1}
    BY <1>1, <2>1
  <2> HIDE DEF F, G, L
  <2> QED
    BY <1>3, <1>4, <2>2, <2>4, <2>5
<1> QED
  BY <1>6, <1>7

LEMMA SiblingsDisjoint ==
  ASSUME Whole, NEW a \in Nodes, NEW b \in Nodes, a # 1, b # 1, Parent(a) = Parent(b),
         NEW d \in Nodes, Under(d, a), Under(d, b)
  PROVE  a = b
<1> DEFINE Bad == {c \in Nodes : Under(c, a) /\ Under(c, b)}
<1>0. AstTypeOK /\ TreeOK /\ phase \in {"sema", "codegen"} /\ Nodes = 1..Len(ast) /\ Len(ast) \in Nat
  BY ParentFacts DEF Whole
<1>1. ASSUME NEW p \in Nodes, NEW q \in Nodes, p # 1, q # 1, Parent(p) = Parent(q), Under(p, q)
      PROVE  p = q
  <2>1. SUFFICES ASSUME p # q PROVE FALSE
    OBVIOUS
  <2>2. Under(Parent(q), q) /\ Parent(q) \in Nodes /\ Parent(q) < q
    BY <1>0, <1>1, <2>1, UnderParent, ParentFacts
  <2>3. q <= Parent(q)
    BY <1>0, <2>2, UnderFacts
  <2>4. q \in Nat /\ Parent(q) \in Nat
    BY <1>0, <2>2
  <2> QED
    BY <2>2, <2>3, <2>4
<1>2. SUFFICES ASSUME a # b PROVE FALSE
  OBVIOUS
<1>3. Bad # {}
  OBVIOUS
<1>4. PICK c \in Bad : \A e \in Bad : c <= e
  BY <1>0, <1>3, Extremes
<1>5. c \in Nodes /\ Under(c, a) /\ Under(c, b)
  BY <1>4
<1>6. c # a /\ c # b
  BY <1>1, <1>2, <1>5
<1>7. c # 1 /\ Under(Parent(c), a) /\ Under(Parent(c), b)
  BY <1>0, <1>5, <1>6, UnderParent
<1>8. Parent(c) \in Nodes /\ Parent(c) < c
  BY <1>0, <1>5, <1>7, ParentFacts
<1>9. Parent(c) \in Bad
  BY <1>7, <1>8
<1>10. c <= Parent(c)
  BY <1>4, <1>9
<1>11. c \in Nat /\ Parent(c) \in Nat
  BY <1>0, <1>5, <1>8
<1> QED
  BY <1>8, <1>10, <1>11

Sited(n) == {s \in Sites : s.decl = n}

LEMMA SitesDeclare == Whole => \A s \in Sites : Declares(s.decl)
  BY SiteFacts DEF Declares

LEMMA SeenPop ==
  ASSUME Whole, NEW fs, CallStackOK(fs), Len(fs) >= 2, NEW gs, Popped(fs, gs), Complete(fs)
  PROVE  Seen(gs) = Seen(fs) \cup Sited(fs[Len(fs)].node)
<1> DEFINE n == fs[Len(fs)].node
<1>1. Len(fs) \in Nat /\ Len(gs) = Len(fs) - 1 /\ \A i \in 1..Len(gs) : gs[i] = fs[i]
  BY StackFacts DEF Popped
<1>2. \A d : Entered(gs, d) => Entered(fs, d)
  BY <1>1 DEF Entered
<1>3. \A d : Entered(fs, d) => Entered(gs, d) \/ d = n
  BY <1>1 DEF Entered
<1>4. \A s \in Sites : Finished(gs, s.decl) <=> Finished(fs, s.decl) \/ s.decl = n
  BY SitesDeclare, FinishedPop
<1> HIDE DEF n
<1>5. \A s \in Sites : s \in Seen(gs) <=> s \in Seen(fs) \/ s.decl = n
  BY <1>2, <1>3, <1>4 DEF Seen
<1>6. Seen(gs) \subseteq Sites /\ Seen(fs) \subseteq Sites
  BY DEF Seen
<1> QED
  BY <1>5, <1>6 DEF Sited, n

LEMMA SeenOpen ==
  ASSUME Whole, NEW fs, CallStackOK(fs), NEW gs, Opened(fs, gs)
  PROVE  Seen(gs) = Seen(fs) \cup IF Kind(fs[Len(fs)].node) = "FUNC_DECL" THEN Sited(fs[Len(fs)].node) ELSE {}
<1> DEFINE n == fs[Len(fs)].node
<1>1. /\ Len(fs) \in Nat /\ Len(fs) >= 1 /\ Len(gs) = Len(fs)
      /\ \A i \in 1..Len(gs) : gs[i].node = fs[i].node /\ (i # Len(fs) => gs[i] = fs[i])
      /\ fs[Len(fs)].next = 0 /\ gs[Len(fs)].next = 1
  BY StackFacts DEF Opened
<1>2. \A d : Entered(gs, d) <=> Entered(fs, d) \/ (d = n /\ Kind(n) = "FUNC_DECL")
  BY <1>1 DEF Entered
<1>3. \A s \in Sites : Finished(gs, s.decl) <=> Finished(fs, s.decl)
  BY SitesDeclare, FinishedOpen
<1> HIDE DEF n
<1>4. \A s \in Sites : s \in Seen(gs) <=> s \in Seen(fs) \/ (s.decl = n /\ Kind(n) = "FUNC_DECL")
  BY <1>2, <1>3 DEF Seen
<1>5. Seen(gs) \subseteq Sites /\ Seen(fs) \subseteq Sites
  BY DEF Seen
<1> QED
  BY <1>4, <1>5 DEF Sited, n

LEMMA FrameStarts ==
  \A c : Frame(c).node = c /\ (Kind(c) \in ScopedKinds => Frame(c).next = 0)
  BY DEF Frame

LEMMA SeenCall ==
  ASSUME Whole, NEW fs, CallStackOK(fs), NEW gs, ChildCalled(fs, gs)
  PROVE  Seen(gs) = Seen(fs)
<1> DEFINE L == Len(fs)
<1>1. /\ L \in Nat /\ L >= 1
      /\ \A i \in 1..L : fs[i].node \in Nodes /\ fs[i].next \in Nat
  BY StackFacts
<1>2. /\ fs[L].next \in 1..VisitCount(fs[L].node)
      /\ \A i \in 1..L : gs[i].node = fs[i].node /\ (i # L => gs[i] = fs[i])
      /\ gs[L].next = fs[L].next + 1
      /\ \/ Len(gs) = L
         \/ Len(gs) = L + 1 /\ \E c : gs[L + 1] = Frame(c)
  BY DEF ChildCalled
<1>3. ASSUME NEW d PROVE Entered(gs, d) <=> Entered(fs, d)
  <2>1. \A i \in 1..L : gs[i].node = fs[i].node /\ (gs[i].next > 0 <=> fs[i].next > 0)
    <3>1. gs[L].next > 0 /\ fs[L].next > 0
      BY <1>1, <1>2
    <3> QED
      BY <1>2, <3>1
  <2>2. Len(gs) = L + 1 => (Kind(gs[L + 1].node) = "FUNC_DECL" => ~(gs[L + 1].next > 0))
    <3> SUFFICES ASSUME Len(gs) = L + 1, Kind(gs[L + 1].node) = "FUNC_DECL"
                 PROVE  ~(gs[L + 1].next > 0)
      OBVIOUS
    <3>1. PICK c : gs[L + 1] = Frame(c)
      BY <1>1, <1>2
    <3>2. gs[L + 1].next = 0
      BY <3>1, FrameStarts DEF ScopedKinds
    <3> QED
      BY <3>2
  <2>3. Len(gs) = L + 1 => 1..Len(gs) = 1..L \cup {L + 1}
    BY <1>1
  <2>4. Len(gs) = L \/ Len(gs) = L + 1
    BY <1>2
  <2> HIDE DEF L
  <2> QED
    BY <2>1, <2>2, <2>3, <2>4 DEF Entered, L
<1>4. \A s \in Sites : Finished(gs, s.decl) <=> Finished(fs, s.decl)
  BY SitesDeclare, FinishedCall
<1> QED
  BY <1>3, <1>4 DEF Seen

LEMMA OpenAtSteps ==
  ASSUME Whole, NEW fs, CallStackOK(fs), NEW gs
  PROVE  /\ Popped(fs, gs) /\ Len(fs) >= 2 => OpenAt(gs) = OpenAt(fs) \ {Len(fs)}
         /\ Opened(fs, gs) /\ Kind(fs[Len(fs)].node) \in ScopedKinds =>
              OpenAt(gs) = OpenAt(fs) \cup {Len(fs)} /\ Len(fs) \notin OpenAt(fs) /\ Len(fs) >= 2
         /\ ChildCalled(fs, gs) => OpenAt(gs) = OpenAt(fs)
<1> DEFINE L == Len(fs)
<1>0. AstTypeOK /\ phase \in {"sema", "codegen"} /\ Kind(1) = "PROGRAM"
  BY KindsOfKids DEF Whole
<1>1. /\ L \in Nat /\ L >= 1 /\ fs[1].node = 1
      /\ \A i \in 1..L : fs[i].node \in Nodes /\ fs[i].next \in Nat
  BY StackFacts
<1>2. ASSUME Popped(fs, gs), Len(fs) >= 2 PROVE OpenAt(gs) = OpenAt(fs) \ {Len(fs)}
  BY <1>1, <1>2 DEF Popped, OpenAt
<1>3. ASSUME Opened(fs, gs), Kind(fs[Len(fs)].node) \in ScopedKinds
      PROVE  OpenAt(gs) = OpenAt(fs) \cup {Len(fs)} /\ Len(fs) \notin OpenAt(fs) /\ Len(fs) >= 2
  <2>1. L # 1
    BY <1>0, <1>1, <1>3 DEF ScopedKinds
  <2>2. L >= 2
    <3>1. L \in Nat /\ L >= 1 /\ L # 1
      BY <1>1, <2>1
    <3> HIDE DEF L
    <3> QED
      BY <3>1
  <2>3. L \notin OpenAt(fs)
    BY <1>1, <1>3, <2>1 DEF Opened, OpenAt, HasScope
  <2>4. \A i \in 1..L : i \in OpenAt(gs) <=> i \in OpenAt(fs) \/ i = L
    BY <1>1, <1>3 DEF Opened, OpenAt, HasScope
  <2>5. OpenAt(gs) \subseteq 1..L /\ OpenAt(fs) \subseteq 1..L
    BY <1>3 DEF Opened, OpenAt
  <2> QED
    BY <1>1, <2>2, <2>3, <2>4, <2>5
<1>4. ASSUME ChildCalled(fs, gs) PROVE OpenAt(gs) = OpenAt(fs)
  <2>1. /\ fs[L].next \in 1..VisitCount(fs[L].node)
        /\ \A i \in 1..L : gs[i].node = fs[i].node /\ (i # L => gs[i] = fs[i])
        /\ gs[L].next = fs[L].next + 1
        /\ \/ Len(gs) = L
           \/ Len(gs) = L + 1 /\ \E c : gs[L + 1] = Frame(c)
    BY <1>4 DEF ChildCalled
  <2>2. gs[L].next > 0 /\ fs[L].next > 0
    BY <1>1, <2>1
  <2>3. \A i \in 1..L : i \in OpenAt(gs) <=> i \in OpenAt(fs)
    <3>1. \A i \in 1..L : HasScope(gs[i]) <=> HasScope(fs[i])
      BY <2>1, <2>2 DEF HasScope
    <3>2. L <= Len(gs)
      BY <1>1, <2>1
    <3> QED
      BY <1>1, <3>1, <3>2, <2>1 DEF OpenAt
  <2>4. Len(gs) = L + 1 => L + 1 \notin OpenAt(gs)
    <3> SUFFICES ASSUME Len(gs) = L + 1 PROVE L + 1 \notin OpenAt(gs)
      OBVIOUS
    <3>1. PICK c : gs[L + 1] = Frame(c)
      BY <1>1, <2>1
    <3>2. ~HasScope(gs[L + 1])
      BY <3>1, FrameStarts DEF HasScope
    <3>3. L + 1 # 1
      BY <1>1
    <3> QED
      BY <3>2, <3>3 DEF OpenAt
  <2>5. OpenAt(gs) \subseteq 1..Len(gs) /\ OpenAt(fs) \subseteq 1..L
    BY DEF OpenAt
  <2>6. Len(gs) = L \/ (Len(gs) = L + 1 /\ 1..Len(gs) = 1..L \cup {L + 1})
    BY <1>1, <2>1
  <2> HIDE DEF L
  <2>7. \A i \in OpenAt(gs) : i \in 1..L
    BY <2>4, <2>5, <2>6
  <2> QED
    BY <2>3, <2>5, <2>7 DEF L
<1> QED
  BY <1>2, <1>3, <1>4

-----------------------------------------------------------------------------
(* What the scopes hold after each step. *)

LEMMA ScopeHoldsMore ==
  ASSUME NEW scope, NEW n, NEW seen, NEW more, ScopeHolds(scope, n, seen),
         \A t \in more : SiteScope(t) # n
  PROVE  ScopeHolds(scope, n, seen \cup more)
  BY DEF ScopeHolds, Compete

LEMMA ScopeHoldsNew ==
  ASSUME NEW scope, NEW n, NEW seen, NEW t, ScopeHolds(scope, n, seen),
         SiteScope(t) = n, SiteName(t) \notin DOMAIN scope, t.decl \in Nat
  PROVE  ScopeHolds(Insert(scope, SiteName(t), SymbolOf(t)), n, seen \cup {t})
<1> DEFINE x == SiteName(t)
           new == Insert(scope, x, SymbolOf(t))
<1>1. /\ DOMAIN new = DOMAIN scope \cup {x}
      /\ \A y \in DOMAIN scope : new[y] = scope[y]
      /\ new[x] = SymbolOf(t)
  BY DEF Insert
<1> HIDE DEF new
<1>2. \A s \in seen : SiteScope(s) = n => SiteName(s) \in DOMAIN scope
  BY DEF ScopeHolds
<1>3. ASSUME NEW y \in DOMAIN scope
      PROVE  \E s \in seen \cup {t} :
               /\ SiteScope(s) = n /\ SiteName(s) = y /\ new[y] = SymbolOf(s)
               /\ \A u \in seen \cup {t} : Compete(s, u) => s.decl <= u.decl
  <2>1. PICK s \in seen : /\ SiteScope(s) = n /\ SiteName(s) = y /\ scope[y] = SymbolOf(s)
                          /\ \A u \in seen : Compete(s, u) => s.decl <= u.decl
    BY DEF ScopeHolds
  <2>2. ~Compete(s, t)
    BY <2>1 DEF Compete
  <2> QED
    BY <1>1, <2>1, <2>2
<1>4. \A u \in seen \cup {t} : Compete(t, u) => t.decl <= u.decl
  <2>1. \A u \in seen : ~Compete(t, u)
    BY <1>2 DEF Compete
  <2>2. t.decl <= t.decl
    OBVIOUS
  <2> QED
    BY <2>1, <2>2
<1> QED
  BY <1>1, <1>2, <1>3, <1>4 DEF ScopeHolds, new

LEMMA ScopeHoldsAgain ==
  ASSUME NEW scope, NEW n, NEW seen, NEW t, ScopeHolds(scope, n, seen),
         SiteScope(t) = n, SiteName(t) \in DOMAIN scope, NEW symbol,
         \A s \in seen : Compete(s, t) => s.decl <= t.decl
  PROVE  ScopeHolds(Insert(scope, SiteName(t), symbol), n, seen \cup {t})
<1> DEFINE x == SiteName(t)
           new == Insert(scope, x, symbol)
<1>1. DOMAIN new = DOMAIN scope /\ \A y \in DOMAIN scope : new[y] = scope[y]
  BY DEF Insert
<1> HIDE DEF new
<1>2. ASSUME NEW y \in DOMAIN scope
      PROVE  \E s \in seen \cup {t} :
               /\ SiteScope(s) = n /\ SiteName(s) = y /\ new[y] = SymbolOf(s)
               /\ \A u \in seen \cup {t} : Compete(s, u) => s.decl <= u.decl
  <2>1. PICK s \in seen : /\ SiteScope(s) = n /\ SiteName(s) = y /\ scope[y] = SymbolOf(s)
                          /\ \A u \in seen : Compete(s, u) => s.decl <= u.decl
    BY DEF ScopeHolds
  <2> QED
    BY <1>1, <2>1
<1> QED
  BY <1>1, <1>2 DEF ScopeHolds, new

\* Nothing of a node whose function has just started has been met.
LEMMA NothingInside ==
  ASSUME Whole, NEW fs, CallStackOK(fs), Len(fs) >= 2, fs[Len(fs)].next = 0, NEW s \in Seen(fs)
  PROVE  SiteScope(s) # fs[Len(fs)].node /\ s.decl # fs[Len(fs)].node
<1> DEFINE L == Len(fs)
           n == fs[L].node
           d == s.decl
<1>0. AstTypeOK /\ TreeOK /\ phase \in {"sema", "codegen"} /\ Nodes \in SUBSET Nat
  BY ParentFacts DEF Whole
<1>1. /\ L \in Nat /\ L >= 2 /\ fs[1].node = 1 /\ fs[L].next = 0
      /\ \A i \in 1..L : fs[i].node \in Nodes /\ fs[i].next \in Nat
      /\ \A i \in 2..L :
           /\ fs[i - 1].next - 1 \in 1..VisitCount(fs[i - 1].node)
           /\ fs[i].node = VisitKid(fs[i - 1].node, fs[i - 1].next - 1)
  BY StackFacts
<1>2. s \in Sites /\ (Finished(fs, d) \/ Entered(fs, d))
  BY DEF Seen
<1>3. d \in Nodes /\ d # 1 /\ (IsFunction(s) => SiteScope(s) = 1)
  BY <1>2, SiteFacts
<1>4. \A i \in 1..L : i # L => fs[i].node # n
  <2> SUFFICES ASSUME NEW i \in 1..L, i # L PROVE fs[i].node # n
    OBVIOUS
  <2>1. i < L /\ L \in 1..L
    BY <1>1
  <2>2. fs[i].node < n
    BY <2>1, StackOrder
  <2>3. fs[i].node \in Nat /\ n \in Nat
    BY <1>0, <1>1, <2>1
  <2> QED
    BY <2>2, <2>3
<1>5. n # 1
  <2>1. 1 \in 1..L /\ L # 1
    BY <1>1
  <2>2. fs[1].node # n
    BY <1>4, <2>1
  <2> QED
    BY <1>1, <2>2
<1>6. CASE Finished(fs, d)
  <2>1. PICK i \in 1..L : \E k \in 1..VisitCount(fs[i].node) : k < Past(fs, i) /\ Under(d, VisitKid(fs[i].node, k))
    BY <1>6 DEF Finished
  <2>2. PICK k \in 1..VisitCount(fs[i].node) : k < Past(fs, i) /\ Under(d, VisitKid(fs[i].node, k))
    BY <2>1
  <2> DEFINE p == fs[i].node
             a == VisitKid(p, k)
             b == fs[i + 1].node
  <2>3. i # L
    <3>1. i = L => Past(fs, i) = 0
      BY <1>1 DEF Past
    <3> QED
      BY <2>2, <3>1
  <2>4. i + 1 \in 2..L /\ i + 1 \in 1..L /\ (i + 1) - 1 = i /\ i < L
    BY <1>1, <2>3
  <2>5. fs[i].next - 1 \in 1..VisitCount(p) /\ b = VisitKid(p, fs[i].next - 1) /\ p \in Nodes /\ b \in Nodes
    BY <1>1, <2>4
  <2>6. k < fs[i].next - 1
    BY <2>2, <2>4 DEF Past
  <2>7. a < b /\ Parent(a) = Parent(b) /\ a \in Nodes /\ a # 1 /\ b # 1
    BY <2>5, <2>6, VisitSiblings, VisitedUnder
  <2>8. a # b
    <3>1. a \in Nat /\ b \in Nat /\ a < b
      BY <1>0, <2>5, <2>7
    <3> HIDE DEF a, b
    <3> QED
      BY <3>1
  <2>9. ~Under(d, b)
    BY <1>3, <2>2, <2>5, <2>7, <2>8, SiblingsDisjoint
  <2>10. Under(n, b)
    <3>1. OnPath(fs, L, b) /\ L \in 1..L
      BY <1>1, <2>4 DEF OnPath
    <3> QED
      BY <3>1, PathIsStack
  <2>11. ~Under(d, n)
    BY <1>0, <1>3, <2>9, <2>10, UnderTransitive
  <2>12. d # n
    BY <1>0, <1>3, <2>11, UnderSelf
  <2>13. Under(d, Owner[d])
    BY <1>3, OwnerFacts
  <2> QED
    BY <2>11, <2>12, <2>13 DEF SiteScope
<1>7. CASE Entered(fs, d)
  <2>1. PICK i \in 1..L : fs[i].node = d /\ fs[i].next > 0 /\ Kind(d) = "FUNC_DECL"
    BY <1>7 DEF Entered
  <2>2. i # L
    BY <1>1, <2>1
  <2>3. d # n
    BY <1>4, <2>1, <2>2
  <2> QED
    BY <1>3, <1>5, <2>1, <2>3 DEF SiteScope, IsFunction
<1> QED
  BY <1>2, <1>6, <1>7

LEMMA OwnedFacts ==
  ASSUME Whole, NEW fs, CallStackOK(fs), NEW sc, Len(sc) \in Nat, NEW own, Owns(own, fs, sc)
  PROVE  /\ Len(sc) >= 1 /\ \A j \in 1..Len(sc) : own[j] \in OpenAt(fs) /\ own[j] \in 1..Len(fs)
         /\ \A i \in OpenAt(fs) : i <= own[Len(sc)]
         /\ \A j, k \in 1..Len(sc) : j # k => own[j] # own[k] /\ fs[own[j]].node # fs[own[k]].node
<1> DEFINE M == Len(sc)
           L == Len(fs)
<1>0. Nodes \in SUBSET Nat
  BY ParentFacts DEF Whole
<1>1. L \in Nat /\ L >= 1 /\ \A i \in 1..L : fs[i].node \in Nodes
  BY StackFacts
<1>2. /\ own \in [1..M -> OpenAt(fs)] /\ M \in Nat
      /\ \A i \in OpenAt(fs) : \E j \in 1..M : own[j] = i
      /\ \A j, k \in 1..M : j < k => own[j] < own[k]
  BY DEF Owns
<1>3. \A j \in 1..M : own[j] \in OpenAt(fs) /\ own[j] \in 1..L
  BY <1>2 DEF OpenAt
<1>4. 1 \in OpenAt(fs)
  BY <1>1 DEF OpenAt
<1>5. M >= 1
  BY <1>2, <1>4
<1>6. \A i \in OpenAt(fs) : i <= own[M]
  <2> SUFFICES ASSUME NEW i \in OpenAt(fs) PROVE i <= own[M]
    OBVIOUS
  <2>1. PICK j \in 1..M : own[j] = i
    BY <1>2
  <2>2. M \in 1..M /\ (j = M \/ j < M)
    BY <1>2, <1>5
  <2>3. own[j] \in Nat /\ own[M] \in Nat
    BY <1>3, <2>2
  <2>4. j = M \/ own[j] < own[M]
    BY <1>2, <2>2
  <2> QED
    BY <2>1, <2>3, <2>4
<1>7. ASSUME NEW j \in 1..M, NEW k \in 1..M, j < k
      PROVE  own[j] # own[k] /\ fs[own[j]].node # fs[own[k]].node
  <2>1. own[j] < own[k] /\ own[j] \in 1..L /\ own[k] \in 1..L
    BY <1>2, <1>3, <1>7
  <2>2. fs[own[j]].node < fs[own[k]].node
    BY <2>1, StackOrder
  <2>3. fs[own[j]].node \in Nat /\ fs[own[k]].node \in Nat
    BY <1>0, <1>1, <2>1
  <2> QED
    BY <2>1, <2>2, <2>3
<1>8. \A j, k \in 1..M : j # k => j < k \/ k < j
  BY <1>2
<1> QED
  BY <1>3, <1>5, <1>6, <1>7, <1>8

\* Nothing that is finished holds the running function's node or a node in it.
LEMMA TopUnfinished ==
  ASSUME Whole, NEW fs, CallStackOK(fs), NEW i \in 1..Len(fs), NEW k \in 1..VisitCount(fs[i].node),
         k < Past(fs, i), NEW c \in Nodes, Under(c, fs[Len(fs)].node),
         i = Len(fs) => ~\E l \in 1..VisitCount(fs[i].node) : Under(c, VisitKid(fs[i].node, l))
  PROVE  ~Under(c, VisitKid(fs[i].node, k))
<1> DEFINE L == Len(fs)
           p == fs[i].node
           a == VisitKid(p, k)
           b == fs[i + 1].node
<1>0. AstTypeOK /\ TreeOK /\ phase \in {"sema", "codegen"} /\ Nodes \in SUBSET Nat
  BY ParentFacts DEF Whole
<1>1. /\ L \in Nat /\ L >= 1
      /\ \A j \in 1..L : fs[j].node \in Nodes /\ fs[j].next \in Nat
      /\ \A j \in 2..L :
           /\ fs[j - 1].next - 1 \in 1..VisitCount(fs[j - 1].node)
           /\ fs[j].node = VisitKid(fs[j - 1].node, fs[j - 1].next - 1)
  BY StackFacts
<1>2. CASE i = L
  BY <1>2
<1>3. CASE i # L
  <2>4. i + 1 \in 2..L /\ i + 1 \in 1..L /\ (i + 1) - 1 = i /\ i < L
    BY <1>1, <1>3
  <2>5. fs[i].next - 1 \in 1..VisitCount(p) /\ b = VisitKid(p, fs[i].next - 1) /\ p \in Nodes /\ b \in Nodes
    BY <1>1, <2>4
  <2>6. k < fs[i].next - 1
    BY <2>4 DEF Past
  <2>7. a < b /\ Parent(a) = Parent(b) /\ a \in Nodes /\ a # 1 /\ b # 1
    BY <2>5, <2>6, VisitSiblings, VisitedUnder
  <2>8. a # b
    <3>1. a \in Nat /\ b \in Nat /\ a < b
      BY <1>0, <2>5, <2>7
    <3> HIDE DEF a, b
    <3> QED
      BY <3>1
  <2>9. Under(fs[L].node, b)
    <3>1. OnPath(fs, L, b) /\ L \in 1..L
      BY <1>1, <2>4 DEF OnPath
    <3> QED
      BY <3>1, PathIsStack
  <2>10. Under(c, b)
    BY <1>0, <2>9, UnderTransitive
  <2> QED
    BY <2>5, <2>7, <2>8, <2>10, SiblingsDisjoint
<1> QED
  BY <1>2, <1>3

\* The running function's node is in none of its own children.
LEMMA NotInChild ==
  ASSUME Whole, NEW n \in Nodes, NEW k \in 1..VisitCount(n)
  PROVE  ~Under(n, VisitKid(n, k))
<1>0. AstTypeOK /\ TreeOK /\ phase \in {"sema", "codegen"} /\ Nodes \in SUBSET Nat
  BY ParentFacts DEF Whole
<1> DEFINE c == VisitKid(n, k)
<1>1. c \in Nodes /\ n < c
  BY VisitedUnder
<1>2. Under(n, c) => c <= n
  BY <1>0, UnderFacts
<1>3. c \in Nat /\ n \in Nat
  BY <1>0, <1>1
<1> HIDE DEF c
<1>4. ~Under(n, c)
  BY <1>1, <1>2, <1>3
<1> QED
  BY <1>4 DEF c

\* The callee of a call is in none of the arguments.
LEMMA CalleeNotInArgument ==
  ASSUME Whole, NEW n \in Nodes, Kind(n) = "CALL"
  PROVE  /\ Kid(n, 1) \in Nodes /\ Kid(n, 1) # 1 /\ Under(Kid(n, 1), n) /\ IsCallee(Kid(n, 1))
         /\ Kind(Kid(n, 1)) \in ExprKinds
         /\ \A k \in 1..VisitCount(n) : ~Under(Kid(n, 1), VisitKid(n, k))
<1>0. AstTypeOK /\ TreeOK /\ phase \in {"sema", "codegen"} /\ Nodes \in SUBSET Nat
  BY ParentFacts DEF Whole
<1>1. Arity(n) \in Nat /\ Arity(n) >= 1
  BY <1>0, NodeFacts DEF HasArity
<1>2. 1 \in 1..Arity(n)
  BY <1>1
<1> DEFINE c == Kid(n, 1)
<1>3. c \in Nodes /\ c # 1 /\ Parent(c) = n
  BY <1>0, <1>2, ParentFacts
<1>4. Under(c, n) /\ Under(c, c)
  BY <1>0, <1>2, UnderKid, UnderSelf
<1>5. IsCallee(c)
  BY <1>3 DEF IsCallee
<1>6. Kind(c) \in ExprKinds
  <2>1. Kind(n) \in ExprKinds
    BY DEF ExprKinds
  <2> QED
    BY <1>0, <1>2, <2>1, KindsOfKids
<1>7. ASSUME NEW k \in 1..VisitCount(n) PROVE ~Under(c, VisitKid(n, k))
  <2> DEFINE a == VisitKid(n, k)
  <2>1. a \in Nodes /\ a # 1 /\ ~IsCallee(a) /\ Parent(a) = n
    BY VisitedParent
  <2>2. a # c
    BY <1>5, <2>1
  <2>3. Under(c, a) => c = a
    BY <1>3, <1>4, <2>1, SiblingsDisjoint
  <2> QED
    BY <2>2, <2>3
<1> QED
  BY <1>3, <1>4, <1>5, <1>6, <1>7

LEMMA OwnsCall ==
  ASSUME Whole, NEW fs, CallStackOK(fs), NEW gs, ChildCalled(fs, gs), NEW sc, NEW own, Owns(own, fs, sc)
  PROVE  Owns(own, gs, sc)
<1>1. OpenAt(gs) = OpenAt(fs) /\ Seen(gs) = Seen(fs)
  BY OpenAtSteps, SeenCall
<1>2. \A i \in OpenAt(fs) : gs[i].node = fs[i].node
  BY DEF ChildCalled, OpenAt
<1>3. \A j \in 1..Len(sc) : gs[own[j]].node = fs[own[j]].node
  BY <1>2 DEF Owns
<1> QED
  BY <1>1, <1>3 DEF Owns

\* A function without a scope of its own returns: the innermost scope may get what it declares.
LEMMA OwnsPop ==
  ASSUME Whole, NEW fs, CallStackOK(fs), Len(fs) >= 2, NEW gs, Popped(fs, gs), Complete(fs),
         Len(fs) \notin OpenAt(fs), NEW sc, NEW own, Owns(own, fs, sc), Len(sc) \in Nat,
         NEW sd, Len(sd) = Len(sc), \A j \in 1..(Len(sc) - 1) : sd[j] = sc[j],
         \A s \in Sited(fs[Len(fs)].node) : SiteScope(s) = fs[own[Len(sc)]].node,
         ScopeHolds(sd[Len(sc)], fs[own[Len(sc)]].node, Seen(fs) \cup Sited(fs[Len(fs)].node))
  PROVE  Owns(own, gs, sd)
<1> DEFINE M == Len(sc)
<1>1. OpenAt(gs) = OpenAt(fs) /\ Seen(gs) = Seen(fs) \cup Sited(fs[Len(fs)].node)
  <2>1. OpenAt(gs) = OpenAt(fs) \ {Len(fs)}
    BY OpenAtSteps
  <2>2. OpenAt(gs) = OpenAt(fs)
    BY <2>1
  <2> QED
    BY <2>2, SeenPop
<1>2. \A j, k \in 1..M : j # k => fs[own[j]].node # fs[own[k]].node
  BY OwnedFacts
<1>3. M \in Nat /\ M >= 1 /\ \A j \in 1..M : own[j] \in OpenAt(fs)
  BY OwnedFacts
<1>4. \A i \in OpenAt(gs) : gs[i].node = fs[i].node
  BY DEF OpenAt, Popped
<1>5. ASSUME NEW j \in 1..M PROVE ScopeHolds(sd[j], gs[own[j]].node, Seen(gs))
  <2>1. gs[own[j]].node = fs[own[j]].node
    BY <1>1, <1>3, <1>4
  <2>2. CASE j = M
    BY <1>1, <2>1, <2>2
  <2>3. CASE j # M
    <3>1. sd[j] = sc[j] /\ ScopeHolds(sc[j], fs[own[j]].node, Seen(fs))
      BY <1>3, <2>3 DEF Owns
    <3>2. fs[own[j]].node # fs[own[M]].node
      BY <1>2, <1>3, <2>3
    <3>3. ScopeHolds(sc[j], fs[own[j]].node, Seen(fs) \cup Sited(fs[Len(fs)].node))
      BY <3>1, <3>2, ScopeHoldsMore
    <3> QED
      BY <1>1, <2>1, <3>1, <3>3
  <2> QED
    BY <2>2, <2>3
<1> QED
  BY <1>1, <1>5 DEF Owns

\* A function with a scope of its own returns: all it declares has been met.
LEMMA OwnsLeave ==
  ASSUME Whole, NEW fs, CallStackOK(fs), Len(fs) >= 2, NEW gs, Popped(fs, gs), Complete(fs),
         Len(fs) \in OpenAt(fs), NEW sc, NEW own, Owns(own, fs, sc), Len(sc) \in Nat,
         NEW sd, Len(sd) = Len(sc) - 1, \A j \in 1..(Len(sc) - 1) : sd[j] = sc[j]
  PROVE  Seen(gs) = Seen(fs) /\ \E pwn : Owns(pwn, gs, sd)
<1> DEFINE M == Len(sc)
           L == Len(fs)
           n == fs[L].node
           pwn == [j \in 1..(M - 1) |-> own[j]]
<1>0. L \in Nat /\ \A i \in 1..L : fs[i].node \in Nodes
  BY StackFacts
<1>1. OpenAt(gs) = OpenAt(fs) \ {L} /\ Seen(gs) = Seen(fs) \cup Sited(n)
  BY OpenAtSteps, SeenPop
<1>2. Sited(n) \subseteq Seen(fs)
  <2> SUFFICES ASSUME NEW s \in Sited(n) PROVE s \in Seen(fs)
    OBVIOUS
  <2>1. s \in Sites /\ s.decl = n /\ Kind(n) \in {"VAR_DECL", "FUNC_DECL"}
    BY SiteFacts DEF Sited
  <2>2. HasScope(fs[L]) /\ L \in 1..L
    BY <1>0 DEF OpenAt
  <2>3. Kind(n) = "FUNC_DECL" /\ fs[L].next > 0
    BY <2>1, <2>2 DEF HasScope, ScopedKinds
  <2> QED
    BY <2>1, <2>2, <2>3 DEF Seen, Entered
<1>3. Seen(gs) = Seen(fs)
  BY <1>1, <1>2
<1>4. /\ own \in [1..M -> OpenAt(fs)] /\ M \in Nat
      /\ \A i \in OpenAt(fs) : \E j \in 1..M : own[j] = i
      /\ \A j, k \in 1..M : j < k => own[j] < own[k]
      /\ \A j \in 1..M : ScopeHolds(sc[j], fs[own[j]].node, Seen(fs))
  BY DEF Owns
<1>5. /\ M >= 1 /\ \A j, k \in 1..M : j # k => own[j] # own[k]
      /\ \A i \in OpenAt(fs) : i <= own[M]
      /\ \A j \in 1..M : own[j] \in 1..L
  BY OwnedFacts
<1>6. own[M] = L
  BY <1>0, <1>4, <1>5
<1>7. \A j \in 1..(M - 1) : own[j] \in OpenAt(gs) /\ pwn[j] = own[j] /\ j \in 1..M
  <2> SUFFICES ASSUME NEW j \in 1..(M - 1) PROVE own[j] \in OpenAt(gs) /\ j \in 1..M
    OBVIOUS
  <2>1. j \in 1..M /\ M \in 1..M /\ j # M
    BY <1>4, <1>5
  <2>2. own[j] # L /\ own[j] \in OpenAt(fs)
    BY <1>4, <1>5, <1>6, <2>1
  <2> QED
    BY <1>1, <2>1, <2>2
<1>8. pwn \in [1..(M - 1) -> OpenAt(gs)]
  BY <1>7
<1> HIDE DEF pwn
<1>9. \A i \in OpenAt(gs) : \E j \in 1..(M - 1) : pwn[j] = i
  <2> SUFFICES ASSUME NEW i \in OpenAt(gs) PROVE \E j \in 1..(M - 1) : pwn[j] = i
    OBVIOUS
  <2>1. PICK j \in 1..M : own[j] = i
    BY <1>1, <1>4
  <2>2. j # M
    BY <1>1, <1>6, <2>1
  <2>3. j \in 1..(M - 1)
    BY <1>4, <2>2
  <2> QED
    BY <1>7, <2>1, <2>3
<1>10. \A j, k \in 1..(M - 1) : j < k => pwn[j] < pwn[k]
  BY <1>4, <1>7
<1>11. \A j \in 1..(M - 1) : ScopeHolds(sd[j], gs[pwn[j]].node, Seen(gs))
  <2> SUFFICES ASSUME NEW j \in 1..(M - 1) PROVE ScopeHolds(sd[j], gs[pwn[j]].node, Seen(gs))
    OBVIOUS
  <2>1. pwn[j] = own[j] /\ own[j] \in OpenAt(gs) /\ ScopeHolds(sc[j], fs[own[j]].node, Seen(fs)) /\ sd[j] = sc[j]
    BY <1>4, <1>7
  <2>2. gs[own[j]].node = fs[own[j]].node
    BY <2>1 DEF OpenAt, Popped
  <2> QED
    BY <1>3, <2>1, <2>2
<1>12. Owns(pwn, gs, sd)
  BY <1>8, <1>9, <1>10, <1>11 DEF Owns
<1> QED
  BY <1>3, <1>12

\* A function pushes its scope.
LEMMA OwnsOpen ==
  ASSUME Whole, NEW fs, CallStackOK(fs), NEW gs, Opened(fs, gs), Kind(fs[Len(fs)].node) \in ScopedKinds,
         NEW sc, NEW own, Owns(own, fs, sc), Len(sc) \in Nat,
         NEW sd, Len(sd) = Len(sc) + 1,
         \A j \in 1..Len(sc) : ScopeHolds(sd[j], fs[own[j]].node, Seen(gs)),
         ScopeHolds(sd[Len(sc) + 1], fs[Len(fs)].node, Seen(gs))
  PROVE  \E pwn : Owns(pwn, gs, sd)
<1> DEFINE M == Len(sc)
           L == Len(fs)
           pwn == [j \in 1..(M + 1) |-> IF j = M + 1 THEN L ELSE own[j]]
<1>0. L \in Nat
  BY StackFacts
<1>1. OpenAt(gs) = OpenAt(fs) \cup {L} /\ L \notin OpenAt(fs)
  BY OpenAtSteps
<1>4. /\ own \in [1..M -> OpenAt(fs)] /\ M \in Nat
      /\ \A i \in OpenAt(fs) : \E j \in 1..M : own[j] = i
      /\ \A j, k \in 1..M : j < k => own[j] < own[k]
  BY DEF Owns
<1>5. \A j \in 1..M : own[j] \in 1..L /\ own[j] \in OpenAt(fs) /\ own[j] # L
  BY <1>1, OwnedFacts
<1>6. /\ \A j \in 1..M : j \in 1..(M + 1) /\ j # M + 1 /\ pwn[j] = own[j]
      /\ M + 1 \in 1..(M + 1) /\ pwn[M + 1] = L
      /\ \A j \in 1..(M + 1) : j \in 1..M \/ j = M + 1
  BY <1>4
<1>7. pwn \in [1..(M + 1) -> OpenAt(gs)]
  <2>1. \A j \in 1..(M + 1) : (IF j = M + 1 THEN L ELSE own[j]) \in OpenAt(gs)
    BY <1>1, <1>5, <1>6
  <2> QED
    BY <2>1
<1> HIDE DEF pwn
<1>8. \A i \in OpenAt(gs) : \E j \in 1..(M + 1) : pwn[j] = i
  <2> SUFFICES ASSUME NEW i \in OpenAt(gs) PROVE \E j \in 1..(M + 1) : pwn[j] = i
    OBVIOUS
  <2>1. CASE i = L
    BY <1>6, <2>1
  <2>2. CASE i # L
    <3>1. PICK j \in 1..M : own[j] = i
      BY <1>1, <1>4, <2>2
    <3> QED
      BY <1>6, <3>1
  <2> QED
    BY <2>1, <2>2
<1>9. ASSUME NEW j \in 1..(M + 1), NEW k \in 1..(M + 1), j < k PROVE pwn[j] < pwn[k]
  <2>1. j \in 1..M
    BY <1>4, <1>9
  <2>2. CASE k = M + 1
    BY <1>0, <1>5, <1>6, <2>1, <2>2
  <2>3. CASE k # M + 1
    BY <1>4, <1>6, <1>9, <2>1, <2>3
  <2> QED
    BY <2>2, <2>3
<1>10. \A j \in 1..(M + 1) : ScopeHolds(sd[j], gs[pwn[j]].node, Seen(gs))
  <2> SUFFICES ASSUME NEW j \in 1..(M + 1) PROVE ScopeHolds(sd[j], gs[pwn[j]].node, Seen(gs))
    OBVIOUS
  <2>0. \A i \in 1..L : gs[i].node = fs[i].node
    BY DEF Opened
  <2>1. CASE j = M + 1
    <3>1. L \in 1..L
      BY <1>0, StackFacts
    <3> QED
      BY <1>6, <2>0, <2>1, <3>1
  <2>2. CASE j \in 1..M
    <3>1. gs[pwn[j]].node = fs[own[j]].node
      BY <1>5, <1>6, <2>0, <2>2
    <3> QED
      BY <2>2, <3>1
  <2> QED
    BY <1>6, <2>1, <2>2
<1>11. Owns(pwn, gs, sd)
  BY <1>7, <1>8, <1>9, <1>10 DEF Owns
<1> QED
  BY <1>11

-----------------------------------------------------------------------------
(* What is finished is accepted and annotated. *)

NodeRight(n, types, binds) ==
  /\ NodeAccepted(n)
  /\ Kind(n) \in ExprKinds /\ ~IsCallee(n) => types[n] = TypeOf[n] /\ TypeOf[n] \in TypeInfos
  /\ Kind(n) = "IDENT" => Declared(n) /\ binds[n] = SymbolOf(Meaning(n))
AllDone(m, types, binds) == \A n \in Nodes : Under(n, m) => NodeRight(n, types, binds)

\* What the running function checks of its child k.
KidAccepted(n, k) ==
  /\ Kind(n) \in {"IF", "WHILE"} /\ k = 1 => TypeOf[Kid(n, 1)].ptr_depth = 0
  /\ Kind(n) = "FOR" /\ k = 2 => IsNull(Kid(n, 2)) \/ TypeOf[Kid(n, 2)].ptr_depth = 0
  /\ Kind(n) = "CALL" =>
       LET params == ast[Meaning(Kid(n, 1)).decl].params
       IN k \in DOMAIN params => SameDepth(TypeOf[Kid(n, k + 1)], params[k].type)

KidsDone(fs, types, binds) ==
  \A i \in 1..Len(fs) : \A k \in 1..VisitCount(fs[i].node) :
    /\ k < Past(fs, i) => AllDone(VisitKid(fs[i].node, k), types, binds)
    /\ k < fs[i].next - 1 => KidAccepted(fs[i].node, k)
EnteredOK(fs) ==
  \A i \in 1..Len(fs) : Kind(fs[i].node) = "FUNC_DECL" /\ fs[i].next > 0 => NodeAccepted(fs[i].node)

\* Nodes that are no expressions have no type.
NoOtherTypes(types) == \A n \in Nodes : Kind(n) \notin ExprKinds => types[n] = Unset

LEMMA NullIsDone ==
  ASSUME Whole, NEW m \in Nodes, IsNull(m), NEW types, NEW binds
  PROVE  AllDone(m, types, binds)
<1>0. AstTypeOK /\ TreeOK
  BY DEF Whole
<1>1. Arity(m) \in Nat /\ Arity(m) = 0
  BY <1>0, NodeFacts DEF HasArity, IsNull
<1>2. SUFFICES ASSUME NEW n \in Nodes, Under(n, m) PROVE NodeRight(n, types, binds)
  BY DEF AllDone
<1>3. n = m
  BY <1>0, <1>1, <1>2, Descends
<1>4. Kind(n) = "NULL"
  BY <1>3 DEF IsNull
<1> QED
  BY <1>4 DEF NodeRight, NodeAccepted, ExprKinds, Literals

LEMMA KidsDoneCall ==
  ASSUME Whole, NEW fs, CallStackOK(fs), NEW gs, ChildCalled(fs, gs), NEW types, NEW binds,
         KidsDone(fs, types, binds), KidAccepted(fs[Len(fs)].node, fs[Len(fs)].next - 1)
  PROVE  KidsDone(gs, types, binds)
<1> DEFINE L == Len(fs)
           top == fs[L].node
           next == fs[L].next
           child == VisitKid(top, next)
<1>1. /\ L \in Nat /\ L >= 1 /\ top \in Nodes /\ next \in Nat
      /\ \A i \in 1..L : fs[i].node \in Nodes /\ fs[i].next \in Nat
  BY StackFacts
<1>2. /\ next \in 1..VisitCount(top) /\ gs[L].node = top /\ gs[L].next = next + 1
      /\ \A i \in 1..L : gs[i].node = fs[i].node /\ (i # L => gs[i] = fs[i])
      /\ IF IsNull(child) THEN Len(gs) = L ELSE Len(gs) = L + 1 /\ gs[L + 1] = Frame(child)
  BY <1>1 DEF ChildCalled
<1>3. SUFFICES ASSUME NEW i \in 1..Len(gs), NEW k \in 1..VisitCount(gs[i].node)
               PROVE /\ k < Past(gs, i) => AllDone(VisitKid(gs[i].node, k), types, binds)
                     /\ k < gs[i].next - 1 => KidAccepted(gs[i].node, k)
  BY DEF KidsDone
<1>4. Past(fs, L) = next
  BY <1>1 DEF Past
<1>5. child \in Nodes
  BY <1>1, <1>2, VisitedUnder
<1> HIDE DEF L, next, child
<1>6. CASE i < L
  <2>1. i \in 1..L /\ i < Len(gs) /\ gs[i] = fs[i] /\ Len(gs) \in Nat
    BY <1>1, <1>2, <1>6
  <2>2. Past(gs, i) = Past(fs, i)
    BY <1>6, <2>1 DEF Past, L
  <2> QED
    BY <1>3, <2>1, <2>2 DEF KidsDone, L
<1>7. CASE i = L
  <2>1. gs[i].node = top /\ gs[i].next = next + 1 /\ L \in 1..L /\ k \in 1..VisitCount(top) /\ fs[L].next = next
    BY <1>1, <1>2, <1>3, <1>7 DEF next
  <2>2. k < next => AllDone(VisitKid(top, k), types, binds)
    BY <1>4, <2>1 DEF KidsDone, L
  <2>3. k < next - 1 => KidAccepted(top, k)
    BY <2>1 DEF KidsDone, L
  <2>4. k < gs[i].next - 1 => KidAccepted(top, k)
    <3>1. KidAccepted(top, next - 1) 
      BY DEF L, next
    <3>2. k < next => k < next - 1 \/ k = next - 1
      BY <1>2, <2>1
    <3> QED
      BY <1>2, <2>1, <2>3, <3>1, <3>2
  <2>5. CASE IsNull(child)
    <3>1. Past(gs, i) = next + 1
      BY <1>1, <1>2, <1>7, <2>1, <2>5 DEF Past
    <3>2. AllDone(child, types, binds)
      BY <1>5, <2>5, NullIsDone
    <3>3. k < Past(gs, i) => k < next \/ k = next
      BY <1>2, <2>1, <3>1
    <3> QED
      BY <2>1, <2>2, <2>4, <3>2, <3>3 DEF child, next, top
  <2>6. CASE ~IsNull(child)
    <3>1. Past(gs, i) = next
      BY <1>1, <1>2, <1>7, <2>1, <2>6 DEF Past
    <3> QED
      BY <2>1, <2>2, <2>4, <3>1
  <2> QED
    BY <2>5, <2>6
<1>8. CASE i > L
  <2>1. i = L + 1 /\ Len(gs) = L + 1 /\ gs[i] = Frame(child)
    BY <1>1, <1>2, <1>8
  <2>2. gs[i].next \in {0, 1}
    BY <2>1 DEF Frame
  <2>3. Past(gs, i) = gs[i].next
    BY <1>1, <2>1, <2>2 DEF Past
  <2> QED
    BY <1>3, <2>2, <2>3
<1> QED
  BY <1>1, <1>2, <1>6, <1>7, <1>8

LEMMA KidsDoneOpen ==
  ASSUME Whole, NEW fs, CallStackOK(fs), NEW gs, Opened(fs, gs), NEW types, NEW binds,
         KidsDone(fs, types, binds)
  PROVE  KidsDone(gs, types, binds)
<1> DEFINE L == Len(fs)
<1>1. L \in Nat /\ L >= 1
  BY StackFacts
<1>2. /\ Len(gs) = L /\ gs[L].next = 1
      /\ \A i \in 1..L : i # L => gs[i] = fs[i]
  BY DEF Opened
<1>3. SUFFICES ASSUME NEW i \in 1..L, NEW k \in 1..VisitCount(gs[i].node)
               PROVE /\ k < Past(gs, i) => AllDone(VisitKid(gs[i].node, k), types, binds)
                     /\ k < gs[i].next - 1 => KidAccepted(gs[i].node, k)
  BY <1>2 DEF KidsDone
<1> HIDE DEF L
<1>4. CASE i = L
  <2>1. Past(gs, i) = 1 /\ gs[i].next = 1
    BY <1>1, <1>2, <1>4 DEF Past
  <2> QED
    BY <1>3, <2>1
<1>5. CASE i # L
  <2>1. gs[i] = fs[i] /\ Past(gs, i) = Past(fs, i)
    BY <1>1, <1>2, <1>5 DEF Past, L
  <2> QED
    BY <1>3, <2>1 DEF KidsDone, L
<1> QED
  BY <1>4, <1>5

\* What the running function's node is annotated with by its own function.
Own(fs) ==
  LET top == fs[Len(fs)].node IN {top} \cup IF Kind(top) = "CALL" THEN {Kid(top, 1)} ELSE {}

LEMMA OwnFacts ==
  ASSUME Whole, NEW fs, CallStackOK(fs), NEW c \in Own(fs)
  PROVE  /\ c \in Nodes /\ Under(c, fs[Len(fs)].node)
         /\ \A k \in 1..VisitCount(fs[Len(fs)].node) : ~Under(c, VisitKid(fs[Len(fs)].node, k))
<1> DEFINE top == fs[Len(fs)].node
<1>1. top \in Nodes
  BY StackFacts
<1>2. AstTypeOK /\ TreeOK
  BY DEF Whole
<1>3. CASE c = top
  BY <1>1, <1>2, <1>3, UnderSelf, NotInChild
<1>4. CASE Kind(top) = "CALL" /\ c = Kid(top, 1)
  BY <1>1, <1>4, CalleeNotInArgument
<1> QED
  BY <1>3, <1>4 DEF Own

\* A function that is done with its children, its own node right: everything in it is.
LEMMA TopDone ==
  ASSUME Whole, NEW fs, CallStackOK(fs), NEW types, NEW binds, KidsDone(fs, types, binds), Complete(fs),
         NEW types2, NEW binds2,
         \A n \in Nodes \ Own(fs) : types2[n] = types[n] /\ binds2[n] = binds[n],
         NodeRight(fs[Len(fs)].node, types2, binds2),
         Kind(fs[Len(fs)].node) = "CALL" =>
           LET callee == Kid(fs[Len(fs)].node, 1)
           IN Kind(callee) = "IDENT" /\ NodeRight(callee, types2, binds2)
  PROVE  AllDone(fs[Len(fs)].node, types2, binds2)
<1> DEFINE L == Len(fs)
           top == fs[L].node
<1>0. AstTypeOK /\ TreeOK /\ phase \in {"sema", "codegen"}
  BY DEF Whole
<1>1. L \in Nat /\ L >= 1 /\ top \in Nodes /\ fs[L].next \in Nat
  BY StackFacts
<1>2. Past(fs, L) = fs[L].next /\ L \in 1..L
  BY <1>1 DEF Past
<1>3. SUFFICES ASSUME NEW n \in Nodes, Under(n, top) PROVE NodeRight(n, types2, binds2)
  BY DEF AllDone
<1>4. ASSUME NEW k \in 1..VisitCount(top), Under(n, VisitKid(top, k)), fs[L].next > VisitCount(top)
      PROVE  NodeRight(n, types2, binds2)
  <2>1. VisitCount(top) \in Nat
    BY <1>0, <1>1, VisitedIsKid
  <2>2. k < Past(fs, L)
    <3>1. k < fs[L].next
      BY <1>1, <1>4, <2>1
    <3> QED
      BY <1>2, <3>1
  <2>3. AllDone(VisitKid(top, k), types, binds)
    BY <1>2, <2>2 DEF KidsDone
  <2>4. NodeRight(n, types, binds)
    BY <1>4, <2>3 DEF AllDone
  <2>5. n \notin Own(fs)
    BY <1>4, OwnFacts
  <2> QED
    BY <2>4, <2>5 DEF NodeRight
<1>5. ASSUME n # top, NEW i \in 1..Arity(top), Under(n, Kid(top, i))
      PROVE  NodeRight(n, types2, binds2)
  <2>1. Kid(top, i) \in Nodes /\ Arity(top) \in Nat
    BY <1>0, <1>1, NodeFacts
  <2>2. CASE Kind(top) = "FUNC_DECL"
    <3>1. Arity(top) = 1 /\ i = 1
      BY <1>0, <1>1, <1>5, <2>1, <2>2, NodeFacts DEF HasArity
    <3>2. Kind(Kid(top, 1)) \in {"BLOCK", "NULL"}
      BY <1>0, <1>1, <2>2, <3>1, KindsOfKids
    <3>3. CASE n = Kid(top, 1)
      BY <3>2, <3>3 DEF NodeRight, NodeAccepted, ExprKinds, Literals
    <3>4. CASE n # Kid(top, 1)
      <4>1. PICK k \in 1..Arity(Kid(top, 1)) : Under(n, Kid(Kid(top, 1), k))
        BY <1>0, <1>5, <2>1, <3>1, <3>4, Descends
      <4>2. VisitCount(top) = Arity(Kid(top, 1)) /\ VisitKid(top, k) = Kid(Kid(top, 1), k)
        BY <2>2 DEF VisitCount, VisitKid
      <4>3. ~IsNull(Kid(top, 1))
        <5>1. IsNull(Kid(top, 1)) => Arity(Kid(top, 1)) = 0
          BY <1>0, <2>1, <3>1, NodeFacts DEF HasArity, IsNull
        <5> QED
          BY <4>1, <5>1
      <4> QED
        BY <1>4, <4>1, <4>2, <4>3 DEF Complete
    <3> QED
      BY <3>3, <3>4
  <2>3. CASE Kind(top) = "CALL" /\ i = 1
    <3>1. Kind(Kid(top, 1)) = "IDENT" /\ NodeRight(Kid(top, 1), types2, binds2)
      BY <2>3
    <3>2. Arity(Kid(top, 1)) = 0
      BY <1>0, <2>1, <2>3, <3>1, NodeFacts DEF HasArity
    <3>3. n = Kid(top, 1)
      BY <1>0, <1>5, <2>1, <2>3, <3>2, Descends
    <3> QED
      BY <3>1, <3>3
  <2>4. CASE Kind(top) # "FUNC_DECL" /\ ~(Kind(top) = "CALL" /\ i = 1)
    <3>1. \E k \in 1..VisitCount(top) : VisitKid(top, k) = Kid(top, i)
      <4>1. CASE Kind(top) = "CALL"
        <5>1. i - 1 \in 1..(Arity(top) - 1) /\ (i - 1) + 1 = i
          BY <2>1, <2>4, <4>1
        <5> QED
          BY <4>1, <5>1 DEF VisitCount, VisitKid
      <4>2. CASE Kind(top) # "CALL"
        BY <2>4, <4>2 DEF VisitCount, VisitKid
      <4> QED
        BY <4>1, <4>2
    <3>2. fs[L].next > VisitCount(top)
      BY <2>4 DEF Complete
    <3> QED
      BY <1>4, <1>5, <3>1, <3>2
  <2> QED
    BY <2>2, <2>3, <2>4
<1>6. n # top => \E i \in 1..Arity(top) : Under(n, Kid(top, i))
  BY <1>0, <1>1, <1>3, Descends
<1> QED
  BY <1>5, <1>6

LEMMA KidsDonePop ==
  ASSUME Whole, NEW fs, CallStackOK(fs), Len(fs) >= 2, NEW gs, Popped(fs, gs),
         NEW types, NEW binds, KidsDone(fs, types, binds), NEW types2, NEW binds2,
         \A n \in Nodes \ Own(fs) : types2[n] = types[n] /\ binds2[n] = binds[n],
         AllDone(fs[Len(fs)].node, types2, binds2)
  PROVE  KidsDone(gs, types2, binds2)
<1> DEFINE L == Len(fs)
<1>1. /\ L \in Nat /\ L >= 2
      /\ \A i \in 1..L : fs[i].node \in Nodes /\ fs[i].next \in Nat
      /\ \A i \in 2..L :
           /\ fs[i - 1].next - 1 \in 1..VisitCount(fs[i - 1].node)
           /\ fs[i].node = VisitKid(fs[i - 1].node, fs[i - 1].next - 1)
  BY StackFacts
<1>2. Len(gs) = L - 1 /\ \A i \in 1..(L - 1) : gs[i] = fs[i]
  BY DEF Popped
<1>3. SUFFICES ASSUME NEW i \in 1..(L - 1), NEW k \in 1..VisitCount(fs[i].node)
               PROVE /\ k < Past(gs, i) => AllDone(VisitKid(fs[i].node, k), types2, binds2)
                     /\ k < fs[i].next - 1 => KidAccepted(fs[i].node, k)
  BY <1>2 DEF KidsDone
<1>4. ASSUME k < Past(fs, i) PROVE AllDone(VisitKid(fs[i].node, k), types2, binds2)
  <2>1. AllDone(VisitKid(fs[i].node, k), types, binds) /\ i \in 1..L /\ i # L
    BY <1>1, <1>4 DEF KidsDone
  <2>2. \A c \in Own(fs) : ~Under(c, VisitKid(fs[i].node, k))
    <3>1. SUFFICES ASSUME NEW c \in Own(fs) PROVE ~Under(c, VisitKid(fs[i].node, k))
      OBVIOUS
    <3>2. c \in Nodes /\ Under(c, fs[Len(fs)].node)
      BY OwnFacts
    <3> QED
      BY <1>4, <2>1, <3>2, TopUnfinished
  <2> QED
    BY <2>1, <2>2 DEF AllDone, NodeRight
<1>5. k < fs[i].next - 1 => KidAccepted(fs[i].node, k)
  BY <1>1 DEF KidsDone
<1>6. k < Past(gs, i) => k < Past(fs, i) \/ (i = L - 1 /\ k = fs[i].next - 1)
  <2>1. i \in 1..L /\ fs[i].next \in Nat /\ gs[i] = fs[i] /\ k \in Int
    BY <1>1, <1>2
  <2>2. Past(fs, i) = fs[i].next - 1
    BY <1>1 DEF Past
  <2>3. Past(gs, i) = fs[i].next - (IF i < L - 1 THEN 1 ELSE 0)
    BY <1>2, <2>1 DEF Past
  <2>4. L \in Nat /\ L >= 2 /\ i \in 1..(L - 1)
    BY <1>1
  <2> DEFINE p == Past(fs, i)
             q == Past(gs, i)
             m == fs[i].next
  <2>5. p = m - 1 /\ q = m - (IF i < L - 1 THEN 1 ELSE 0) /\ m \in Nat /\ k \in Int
    BY <2>1, <2>2, <2>3
  <2> HIDE DEF L, p, q, m
  <2>6. k < q => k < p \/ (i = L - 1 /\ k = m - 1)
    BY <2>4, <2>5
  <2> QED
    BY <2>6 DEF p, q, m
<1>7. i = L - 1 /\ k = fs[i].next - 1 => VisitKid(fs[i].node, k) = fs[L].node
  <2>1. L \in 2..L
    BY <1>1
  <2> QED
    BY <1>1, <2>1
<1> QED
  BY <1>4, <1>5, <1>6, <1>7

LEMMA EnteredSteps ==
  ASSUME Whole, NEW fs, CallStackOK(fs), EnteredOK(fs), NEW gs
  PROVE  /\ Popped(fs, gs) => EnteredOK(gs)
         /\ ChildCalled(fs, gs) => EnteredOK(gs)
         /\ Opened(fs, gs) /\ (Kind(fs[Len(fs)].node) = "FUNC_DECL" => NodeAccepted(fs[Len(fs)].node))
              => EnteredOK(gs)
<1> DEFINE L == Len(fs)
<1>1. L \in Nat /\ L >= 1 /\ \A i \in 1..L : fs[i].next \in Nat
  BY StackFacts
<1>2. ASSUME Popped(fs, gs) PROVE EnteredOK(gs)
  <2>1. \A i \in 1..Len(gs) : gs[i] = fs[i] /\ i \in 1..L
    BY <1>1, <1>2 DEF Popped
  <2> QED
    BY <2>1 DEF EnteredOK
<1>3. ASSUME Opened(fs, gs), Kind(fs[L].node) = "FUNC_DECL" => NodeAccepted(fs[L].node) PROVE EnteredOK(gs)
  <2>1. \A i \in 1..Len(gs) : i \in 1..L /\ gs[i].node = fs[i].node /\ (i # L => gs[i] = fs[i])
    BY <1>3 DEF Opened
  <2> QED
    BY <1>3, <2>1 DEF EnteredOK
<1>4. ASSUME ChildCalled(fs, gs) PROVE EnteredOK(gs)
  <2> DEFINE child == VisitKid(fs[L].node, fs[L].next)
  <2>1. /\ fs[L].next \in 1..VisitCount(fs[L].node)
        /\ \A i \in 1..L : gs[i].node = fs[i].node /\ (i # L => gs[i] = fs[i])
        /\ IF IsNull(child) THEN Len(gs) = L ELSE Len(gs) = L + 1 /\ gs[L + 1] = Frame(child)
    BY <1>4 DEF ChildCalled
  <2> HIDE DEF child
  <2>2. SUFFICES ASSUME NEW i \in 1..Len(gs), Kind(gs[i].node) = "FUNC_DECL", gs[i].next > 0
                 PROVE  NodeAccepted(gs[i].node)
    BY DEF EnteredOK
  <2>3. i \in 1..L \/ (i = L + 1 /\ gs[i] = Frame(child))
    BY <1>1, <2>1
  <2>4. i \in 1..L
    BY <2>2, <2>3, FrameStarts DEF ScopedKinds
  <2>5. fs[i].next > 0 /\ fs[i].node = gs[i].node
    <3>1. fs[L].next > 0
      BY <1>1, <2>1
    <3> QED
      BY <2>1, <2>2, <2>4, <3>1
  <2> QED
    BY <2>2, <2>4, <2>5 DEF EnteredOK
<1> QED
  BY <1>2, <1>3, <1>4

-----------------------------------------------------------------------------
(* The typing rules: no error is reported exactly if the rules give a type, which is the result's. *)

Typed(result, type) ==
  /\ result.diag.err = 0 <=> type # none
  /\ result.diag.err = 0 => result.type = type /\ type \in TypeInfos

LEMMA TypesInfos ==
  /\ \A t \in TypeInfos : t # none /\ t # Unknown /\ t.ptr_depth \in Nat
  /\ IntType \in TypeInfos /\ CharType \in TypeInfos
  /\ \A t \in TypeInfos : PointerTo(t) \in TypeInfos /\ (t.ptr_depth > 0 => Pointee(t) \in TypeInfos)
  BY DEF TypeInfos, BaseTypes, none, Unknown, TypeInfo, IntType, CharType, PointerTo, Pointee

LEMMA DiagErrors == \A e, w : Diag(e, w).err = (IF e THEN 1 ELSE 0)
  BY DEF Diag

LEMMA AssignAgrees ==
  ASSUME NEW s \in TypeInfos, NEW t \in TypeInfos
  PROVE  /\ Typed(AssignRule(s, t), IF SameDepth(s, t) THEN s ELSE none)
         /\ Conversion(s, t).err = 0 <=> SameDepth(s, t)
<1>1. Unknown \notin {s, t} /\ s # none
  BY TypesInfos
<1>2. Conversion(s, t).err = 0 <=> SameDepth(s, t)
  BY <1>1 DEF Conversion, SameDepth, Diag, Silent
<1>3. AssignRule(s, t).type = s /\ AssignRule(s, t).diag = Conversion(s, t)
  BY <1>1, ResultFields DEF AssignRule
<1> QED
  BY <1>1, <1>2, <1>3 DEF Typed

LEMMA UnaryAgrees ==
  ASSUME NEW s \in TypeInfos, NEW op \in {"MINUS", "BANG", "STAR", "AMP"}
  PROVE  Typed(UnaryRule(op, s), UnaryType(op, s))
<1>1. s # Unknown /\ s.ptr_depth \in Nat
  BY TypesInfos
<1>2. Silent.err = 0 /\ Error.err = 1
  BY DiagErrors DEF Silent, Error
<1>3. CASE op = "AMP"
  BY <1>1, <1>2, <1>3, TypesInfos, ResultFields DEF UnaryRule, UnaryType, Typed, PointerTo
<1>4. CASE op = "STAR"
  BY <1>1, <1>2, <1>4, TypesInfos, ResultFields DEF UnaryRule, UnaryType, Typed, Pointee, Scalar
<1>5. CASE op \notin {"AMP", "STAR"}
  BY <1>1, <1>2, <1>5, TypesInfos, ResultFields DEF UnaryRule, UnaryType, Typed, Scalar
<1> QED
  BY <1>3, <1>4, <1>5

LEMMA IndexAgrees ==
  ASSUME NEW s \in TypeInfos, NEW t \in TypeInfos
  PROVE  Typed(IndexRule(s, t),
               IF s.ptr_depth > 0 /\ t.ptr_depth = 0 THEN TypeInfo(s.base, s.ptr_depth - 1) ELSE none)
<1>1. s # Unknown /\ s.ptr_depth \in Nat /\ Error.err = 1
  BY TypesInfos, DiagErrors DEF Error
<1>2. CASE Scalar(s)
  BY <1>1, <1>2, ResultFields DEF IndexRule, Typed, Scalar
<1>3. CASE ~Scalar(s)
  <2>1. IndexRule(s, t).type = Pointee(s) /\ IndexRule(s, t).diag = Diag(~Scalar(t), FALSE)
    BY <1>1, <1>3, ResultFields DEF IndexRule
  <2>2. s.ptr_depth > 0 /\ Pointee(s) \in TypeInfos /\ Pointee(s) = TypeInfo(s.base, s.ptr_depth - 1)
    <3>1. s.ptr_depth > 0
      BY <1>1, <1>3 DEF Scalar
    <3> QED
      BY <3>1, TypesInfos DEF Pointee
  <2> QED
    BY <2>1, <2>2, TypesInfos DEF Diag, Typed, Scalar
<1> QED
  BY <1>2, <1>3

LEMMA BinaryAgrees ==
  ASSUME NEW s \in TypeInfos, NEW t \in TypeInfos, NEW op
  PROVE  Typed(BinaryRule(op, s, t), BinaryType(op, s, t))
<1>1. Unknown \notin {s, t} /\ s.ptr_depth \in Nat /\ t.ptr_depth \in Nat /\ s # none /\ t # none
  BY TypesInfos
<1>2. Silent.err = 0 /\ IntType \in TypeInfos /\ CharType \in TypeInfos /\ IntType # none /\ CharType # none
  BY DiagErrors, TypesInfos DEF Silent
<1>3. CASE op \in Comparisons \cup Logical
  <2>1. BinaryRule(op, s, t) = Result(IntType, Diag(~Scalar(s) /\ s # t, FALSE))
    BY <1>1, <1>3 DEF BinaryRule
  <2>2. BinaryType(op, s, t) = IF s.ptr_depth = 0 \/ s = t THEN IntType ELSE none
    BY <1>3 DEF BinaryType
  <2> QED
    BY <1>2, <2>1, <2>2, ResultFields DEF Diag, Typed, Scalar
<1>4. CASE op \notin Comparisons \cup Logical
  <2>1. BothScalar(s, t) <=> Scalar(s) /\ Scalar(t)
    BY <1>1 DEF BothScalar, Scalar
  <2>2. CASE Scalar(s) /\ Scalar(t)
    <3>1. /\ BinaryRule(op, s, t).diag.err = 0
          /\ BinaryRule(op, s, t).type = IF "INT" \in {s.base, t.base} THEN IntType ELSE CharType
      BY <1>1, <1>4, <2>2, ResultFields DEF Diag, BinaryRule
    <3>2. BinaryType(op, s, t) = IF s = CharType /\ t = CharType THEN CharType ELSE IntType
      BY <1>4, <2>1, <2>2 DEF BinaryType
    <3>3. \A u \in {s, t} : u = CharType <=> u.base # "INT"
      BY <2>2 DEF Scalar, TypeInfos, BaseTypes, CharType, TypeInfo
    <3> QED
      BY <1>2, <3>1, <3>2, <3>3 DEF Typed
  <2>3. CASE ~Scalar(s) /\ Scalar(t)
    <3>1. BinaryRule(op, s, t) = Result(s, Silent) /\ BinaryType(op, s, t) = s
      BY <1>1, <1>4, <2>1, <2>3 DEF BinaryRule, BinaryType, Scalar
    <3> QED
      BY <1>1, <1>2, <3>1, ResultFields DEF Typed
  <2>4. CASE ~Scalar(s) /\ ~Scalar(t)
    <3>1. /\ BinaryRule(op, s, t) = Result(IntType, Diag(op # "MINUS", FALSE))
          /\ BinaryType(op, s, t) = IF op = "MINUS" THEN IntType ELSE none
      BY <1>1, <1>4, <2>1, <2>4 DEF BinaryRule, BinaryType, Scalar
    <3> QED
      BY <1>1, <1>2, <3>1, ResultFields DEF Diag, Typed
  <2>5. CASE Scalar(s) /\ ~Scalar(t)
    <3>1. /\ BinaryRule(op, s, t) = Result(t, Diag(op # "PLUS", FALSE))
          /\ BinaryType(op, s, t) = IF op = "PLUS" THEN t ELSE none
      BY <1>1, <1>4, <2>1, <2>5 DEF BinaryRule, BinaryType, Scalar
    <3> QED
      BY <1>1, <1>2, <3>1, ResultFields DEF Diag, Typed
  <2> QED
    BY <2>2, <2>3, <2>4, <2>5
<1> QED
  BY <1>3, <1>4

-----------------------------------------------------------------------------
(* The analysis so far, without an error. *)

MeaningOK(fs, sc, types, binds) ==
  /\ Distinct(Seen(fs)) /\ KidsDone(fs, types, binds) /\ EnteredOK(fs)
  /\ \E own : Owns(own, fs, sc)

Fine ==
  /\ Good /\ frames # <<>> /\ FramesOK /\ TreeOK /\ FuncOK /\ phase = "sema" /\ GlobalsOK
  /\ NoOtherTypes(rtype) /\ error_count = 0 /\ MeaningOK(frames, scopes, rtype, bind)

\* A step keeps it, or reports an error in a program that is not accepted.
Decided == IF error_count' = 0 THEN MeaningOK(frames', scopes', rtype', bind') ELSE ~Accepted

LEMMA FineFacts ==
  ASSUME Fine
  PROVE  /\ Whole /\ AstTypeOK /\ TreeOK /\ CallStackOK(frames) /\ Height \in Nat /\ Height >= 1
         /\ Top = frames[Height] /\ node = frames[Height].node /\ node \in Nodes /\ Top.next \in Nat
         /\ Past(frames, Height) = Top.next /\ Top.next <= VisitCount(node) + 1 /\ VisitCount(node) \in Nat
         /\ KidsDone(frames, rtype, bind)
<1>1. Good /\ AstTypeOK /\ frames \in Seq(FrameSet) /\ frames # <<>> /\ FramesOK /\ TreeOK /\ phase = "sema"
  BY DEF Fine, Good
<1>2. Height \in Nat /\ Height >= 1 /\ Top = frames[Height] /\ node = frames[Height].node
      /\ node \in Nodes /\ Top.next \in Nat
  BY <1>1, TopFacts DEF Height, Top, node
<1>3. CallStackOK(frames)
  BY <1>1, <1>2 DEF CallStackOK, FramesOK, Height
<1>4. VisitOK(frames, Height)
  BY <1>1, <1>2 DEF FramesOK
<1>5. Past(frames, Height) = Top.next
  BY <1>2 DEF Past, Height
<1> QED
  BY <1>1, <1>2, <1>3, <1>4, <1>5, VisitFacts DEF Whole, VisitOK, Fine, MeaningOK

\* The running function's node but for the program's is a visited child.
LEMMA TopVisited ==
  ASSUME Fine, Height >= 2
  PROVE  /\ ~IsCallee(node) /\ node # 1
         /\ \E p \in Nodes : \E k \in 1..VisitCount(p) : node = VisitKid(p, k)
<1>1. Whole /\ CallStackOK(frames) /\ Height \in Nat /\ node = frames[Height].node
  BY FineFacts
<1>2. /\ frames[Height - 1].next - 1 \in 1..VisitCount(frames[Height - 1].node)
      /\ frames[Height].node = VisitKid(frames[Height - 1].node, frames[Height - 1].next - 1)
      /\ frames[Height - 1].node \in Nodes
  <2>1. Height \in 2..Len(frames) /\ Height - 1 \in 1..Len(frames)
    BY <1>1 DEF Height
  <2> QED
    BY <1>1, <2>1, StackFacts
<1> QED
  BY <1>1, <1>2, VisitedParent

LEMMA Rejected ==
  ASSUME NEW n \in Nodes, ~NodeAccepted(n)
  PROVE  ~Accepted
  BY DEF Accepted

\* The children that are done.
LEMMA KidTyped ==
  ASSUME Fine, NEW k \in 1..VisitCount(node), k < Top.next
  PROVE  /\ VisitKid(node, k) \in Nodes /\ AllDone(VisitKid(node, k), rtype, bind)
         /\ Kind(VisitKid(node, k)) \in ExprKinds =>
              /\ rtype[VisitKid(node, k)] = TypeOf[VisitKid(node, k)]
              /\ TypeOf[VisitKid(node, k)] \in TypeInfos
<1> DEFINE c == VisitKid(node, k)
<1>1. Whole /\ AstTypeOK /\ TreeOK /\ Height \in 1..Len(frames) /\ node = frames[Height].node /\ node \in Nodes
      /\ k < Past(frames, Height) /\ KidsDone(frames, rtype, bind)
  BY FineFacts DEF Height
<1>2. AllDone(c, rtype, bind)
  BY <1>1 DEF KidsDone
<1>3. c \in Nodes /\ ~IsCallee(c)
  BY <1>1, VisitedParent
<1>4. NodeRight(c, rtype, bind)
  BY <1>1, <1>2, <1>3, UnderSelf DEF AllDone
<1> QED
  BY <1>2, <1>3, <1>4 DEF NodeRight

\* What a call calls.
LEMMA CalleeMeans ==
  ASSUME Fine, Kind(node) = "CALL"
  PROVE  /\ Callable <=> Kind(Callee) = "IDENT" /\ Declared(Callee) /\ IsFunction(Meaning(Callee))
         /\ Callable =>
              /\ CalleeSymbol = SymbolOf(Meaning(Callee)) /\ CalleeSymbol = FuncSymbol(Meaning(Callee).decl)
              /\ Meaning(Callee).decl \in Nodes
<1> DEFINE f == Meaning(Callee)
<1>1. /\ Whole /\ CallStackOK(frames) /\ node = frames[Len(frames)].node /\ node \in Nodes
      /\ scopes \in Seq(ScopeSet) /\ Distinct(Seen(frames))
  BY FineFacts DEF Height, Fine, Good, MeaningOK
<1>2. PICK own : Owns(own, frames, scopes)
  BY DEF Fine, MeaningOK
<1>3. Callee \in Nodes
  BY <1>1, CalleeNotInArgument DEF Callee
<1>4. ASSUME Kind(Callee) = "IDENT"
      PROVE  /\ CalleeSymbol = LookupIn(scopes, ast[Callee].name)
             /\ ~Declared(Callee) => CalleeSymbol = NoSymbol
             /\ Declared(Callee) => f \in Sites /\ CalleeSymbol = SymbolOf(f)
  <2>1. CalleeSymbol = LookupIn(scopes, ast[Callee].name)
    BY <1>4 DEF CalleeSymbol, Lookup
  <2>2. LooksUp(frames, Callee)
    BY <1>1, <1>3, <1>4 DEF LooksUp, Callee
  <2> QED
    BY <1>1, <1>2, <2>1, <2>2, LookupMeans
<1>5. Kind(Callee) # "IDENT" => ~Callable
  BY DEF Callable, CalleeSymbol, NoSymbol, Symbol
<1>6. NoSymbol.kind # "FUNC"
  BY DEF NoSymbol, Symbol
<1>7. (SymbolOf(f).kind = "FUNC" <=> IsFunction(f)) /\ (IsFunction(f) => SymbolOf(f) = FuncSymbol(f.decl))
  BY DEF SymbolOf, FuncSymbol, VarSymbol, Symbol
<1> QED
  BY <1>1, <1>4, <1>5, <1>6, <1>7, SiteFacts DEF Callable

\* The parameters an argument is checked against.
LEMMA CalleeParams ==
  ASSUME Fine, Kind(node) = "CALL", Callable
  PROVE  LET params == ast[Meaning(Callee).decl].params
         IN /\ Len(params) \in Nat /\ DOMAIN params = 1..Len(params)
            /\ Len(CalleeSymbol.params) = Len(params) /\ DOMAIN CalleeSymbol.params = DOMAIN params
            /\ \A i \in DOMAIN params :
                 CalleeSymbol.params[i] = params[i].type /\ params[i].type \in TypeInfos
            /\ CalleeSymbol.type = ast[Meaning(Callee).decl].type
<1> DEFINE d == Meaning(Callee).decl
           params == ast[d].params
<1>1. AstTypeOK /\ d \in Nodes /\ CalleeSymbol = FuncSymbol(d)
  BY FineFacts, CalleeMeans
<1>2. params \in Seq(Parameters)
  BY <1>1, NodeFacts
<1>3. CalleeSymbol.params = [i \in DOMAIN params |-> params[i].type] /\ CalleeSymbol.type = ast[d].type
  BY <1>1 DEF FuncSymbol, Symbol
<1>4. Len(params) \in Nat /\ DOMAIN params = 1..Len(params)
  BY <1>2
<1>5. Len(CalleeSymbol.params) = Len(params)
  <2> HIDE DEF params
  <2>1. [i \in 1..Len(params) |-> params[i].type] \in Seq({params[i].type : i \in 1..Len(params)})
    BY <1>4
  <2> QED
    BY <1>3, <1>4, <2>1
<1>6. \A i \in DOMAIN params : params[i].type \in TypeInfos
  BY <1>2, ParameterFields
<1> QED
  BY <1>3, <1>4, <1>5, <1>6

LEMMA ConditionKinds ==
  ASSUME Whole, NEW n \in Nodes
  PROVE  /\ Kind(n) \in {"IF", "WHILE"} => 1 \in 1..VisitCount(n) /\ VisitKid(n, 1) = Kid(n, 1)
              /\ Kind(Kid(n, 1)) \in ExprKinds
         /\ Kind(n) = "FOR" => 2 \in 1..VisitCount(n) /\ VisitKid(n, 2) = Kid(n, 2)
              /\ Kid(n, 2) \in Nodes /\ (IsNull(Kid(n, 2)) \/ Kind(Kid(n, 2)) \in ExprKinds)
<1>1. AstTypeOK /\ Holes = {} /\ Arity(n) \in Nat /\ HasArity(Kind(n), Arity(n))
  BY NodeFacts DEF Whole, AstTypeOK
<1>2. \A i \in 1..Arity(n) :
        Kid(n, i) \in Nodes /\ Kind(Kid(n, i)) \in Slot(Kind(n), i) /\ Kind(Kid(n, i)) \notin HoleKinds
  BY <1>1 DEF AstTypeOK, Holes
<1>3. CASE Kind(n) \in {"IF", "WHILE"}
  <2>1. Arity(n) >= 2 /\ VisitCount(n) = Arity(n) /\ VisitKid(n, 1) = Kid(n, 1)
    BY <1>1, <1>3 DEF HasArity, VisitCount, VisitKid
  <2>2. Slot(Kind(n), 1) = ExprSlot
    BY <1>3 DEF Slot, IsStmtSlot, MayBeNull
  <2> QED
    BY <1>1, <1>2, <1>3, <2>1, <2>2 DEF ExprSlot, HoleKinds
<1>4. CASE Kind(n) = "FOR"
  <2>1. Arity(n) = 4 /\ VisitCount(n) = Arity(n) /\ VisitKid(n, 2) = Kid(n, 2)
    BY <1>1, <1>4 DEF HasArity, VisitCount, VisitKid
  <2>2. Slot(Kind(n), 2) = ExprSlot \cup Null
    BY <1>4 DEF Slot, IsStmtSlot, MayBeNull
  <2> QED
    BY <1>2, <1>4, <2>1, <2>2 DEF ExprSlot, HoleKinds, IsNull, Null
<1> QED
  BY <1>3, <1>4

\* The type of a call, as the rules say it, in Sema's terms.
LEMMA CallType ==
  ASSUME Fine, Kind(node) = "CALL"
  PROVE  LET params == ast[Meaning(Callee).decl].params
         IN TypeOf[node] =
              IF /\ Callable /\ Arity(node) = Len(params) + 1
                 /\ \A i \in DOMAIN params :
                      TypeOf[Kid(node, i + 1)] # none /\ SameDepth(TypeOf[Kid(node, i + 1)], params[i].type)
              THEN CalleeSymbol.type ELSE none
<1> DEFINE f == Meaning(Callee)
           params == ast[f.decl].params
           kid == KidTypesOf(TypeOf, node)
<1>1. AstTypeOK /\ TreeOK /\ node \in Nodes
  BY FineFacts
<1>2. TypeOf[node] = TypeFrom(node, kid)
  BY <1>1, TypeOfUnfolds
<1>3. TypeFrom(node, kid) =
        IF /\ Kind(Callee) = "IDENT" /\ Declared(Callee) /\ IsFunction(f)
           /\ Arity(node) = Len(params) + 1
           /\ \A i \in DOMAIN params :
                kid[i + 1] # none /\ SameDepth(kid[i + 1], params[i].type)
        THEN ast[f.decl].type ELSE none
  BY DEF TypeFrom, Callee
<1>4. Callable <=> Kind(Callee) = "IDENT" /\ Declared(Callee) /\ IsFunction(f)
  BY CalleeMeans
<1>5. Callable => CalleeSymbol.type = ast[f.decl].type /\ Len(params) \in Nat /\ DOMAIN params = 1..Len(params)
  BY CalleeParams
<1>6. \A i \in 1..Arity(node) : kid[i] = TypeOf[Kid(node, i)]
  BY DEF KidTypesOf
<1>7. Callable /\ Arity(node) = Len(params) + 1 =>
        \A i \in DOMAIN params : kid[i + 1] = TypeOf[Kid(node, i + 1)]
  <2> SUFFICES ASSUME Callable, Arity(node) = Len(params) + 1, NEW i \in DOMAIN params
               PROVE  kid[i + 1] = TypeOf[Kid(node, i + 1)]
    OBVIOUS
  <2> HIDE DEF params, kid
  <2>1. i + 1 \in 1..Arity(node)
    BY <1>5
  <2> QED
    BY <1>6, <2>1
<1> HIDE DEF params, kid, f
<1> QED
  BY <1>2, <1>3, <1>4, <1>5, <1>7 DEF params, f

\* An expression without a type is rejected.
LEMMA UntypedRejected ==
  ASSUME Fine, Kind(node) \in ExprKinds, TypeOf[node] = none
  PROVE  ~Accepted
<1>1. Height >= 2
  <2>1. node \in Nodes /\ Height \in Nat /\ Height >= 1 /\ node = frames[Height].node /\ Whole
        /\ CallStackOK(frames)
    BY FineFacts
  <2>2. Kind(1) = "PROGRAM"
    BY <2>1, KindsOfKids DEF Whole
  <2>3. Height # 1
    BY <2>1, <2>2 DEF CallStackOK, ExprKinds, Literals
  <2> QED
    BY <2>1, <2>3
<1>2. ~NodeAccepted(node) /\ node \in Nodes
  BY <1>1, TopVisited, FineFacts DEF NodeAccepted
<1> QED
  BY <1>2, Rejected

\* The check of the child before: of a condition or an argument.
LEMMA KidChecked ==
  ASSUME Fine, Kind(node) = "CALL" => Callable
  PROVE  /\ KidDiag.err \in {0, 1}
         /\ KidDiag.err = 0 => KidAccepted(node, Top.next - 1)
         /\ KidDiag.err = 1 => ~Accepted
<1> DEFINE i == Top.next - 1
<1>1. Whole /\ node \in Nodes /\ Top.next \in Nat /\ Top.next <= VisitCount(node) + 1 /\ VisitCount(node) \in Nat
      /\ Good /\ frames # <<>>
  BY FineFacts DEF Fine
<1>2. KidDiag.err \in {0, 1}
  BY KidDiagIsDiag DEF Diags
<1>3. ASSUME NEW k \in 1..VisitCount(node), k = i, Kind(VisitKid(node, k)) \in ExprKinds
      PROVE  /\ rtype[VisitKid(node, k)] = TypeOf[VisitKid(node, k)]
             /\ TypeOf[VisitKid(node, k)] \in TypeInfos
  <2>1. k < Top.next
    BY <1>1, <1>3
  <2> QED
    BY <1>3, <2>1, KidTyped
<1>q. Silent.err = 0
  BY DEF Silent, Diag
<1>4. CASE Kind(node) \in {"IF", "WHILE"} /\ i = 1
  <2>1. KidDiag.err = IF KidType(1).ptr_depth = 0 THEN 0 ELSE 1
    BY <1>4 DEF KidDiag, Diag, Scalar
  <2>2. KidType(1) = TypeOf[Kid(node, 1)]
    BY <1>1, <1>3, <1>4, ConditionKinds DEF KidType
  <2>3. KidDiag.err = 1 => ~NodeAccepted(node)
    BY <1>4, <2>1, <2>2 DEF NodeAccepted
  <2>4. KidDiag.err = 0 => KidAccepted(node, i)
    BY <1>4, <2>1, <2>2 DEF KidAccepted
  <2> QED
    BY <1>1, <1>2, <2>3, <2>4, Rejected
<1>5. CASE Kind(node) = "FOR" /\ i = 2
  <2>0. Kid(node, 2) \in Nodes
    BY <1>1, <1>5, ConditionKinds
  <2>1. KidDiag.err = IF KidType(2).ptr_depth = 0 THEN 0 ELSE 1
    BY <1>5 DEF KidDiag, Diag, Scalar
  <2>2. CASE IsNull(Kid(node, 2))
    <3>1. rtype[Kid(node, 2)] = Unset
      BY <2>0, <2>2 DEF Fine, NoOtherTypes, IsNull, ExprKinds, Literals
    <3>2. KidDiag.err = 0
      BY <2>1, <3>1 DEF Unset, TypeInfo, KidType
    <3>3. KidAccepted(node, i)
      BY <1>5, <2>2 DEF KidAccepted
    <3> QED
      BY <3>2, <3>3
  <2>3. CASE ~IsNull(Kid(node, 2))
    <3>1. KidType(2) = TypeOf[Kid(node, 2)]
      BY <1>1, <1>3, <1>5, <2>3, ConditionKinds DEF KidType
    <3>2. KidDiag.err = 1 => ~NodeAccepted(node)
      BY <1>5, <2>1, <2>3, <3>1 DEF NodeAccepted
    <3>3. KidDiag.err = 0 => KidAccepted(node, i)
      BY <1>5, <2>1, <3>1 DEF KidAccepted
    <3> QED
      BY <1>1, <1>2, <3>2, <3>3, Rejected
  <2> QED
    BY <2>2, <2>3
<1>6. CASE Kind(node) = "CALL"
  <2> DEFINE params == ast[Meaning(Callee).decl].params
  <2>0. Callable
    BY <1>6
  <2>1. /\ Len(params) \in Nat /\ DOMAIN params = 1..Len(params)
        /\ DOMAIN CalleeSymbol.params = DOMAIN params
        /\ \A j \in DOMAIN params : CalleeSymbol.params[j] = params[j].type /\ params[j].type \in TypeInfos
    BY <1>6, <2>0, CalleeParams
  <2>2. DOMAIN Visits = 1..VisitCount(node) /\ \A k \in 1..VisitCount(node) : Visits[k] = VisitKid(node, k)
    BY <1>1, <1>6, <2>0, VisitFacts
  <2>3. CASE i \in DOMAIN params
    <3>1. i \in 1..VisitCount(node) /\ VisitKid(node, i) = Kid(node, i + 1)
      <4>1. i >= 1
        BY <2>1, <2>3
      <4> QED
        BY <1>1, <1>6, <4>1 DEF VisitKid
    <3>2. KidDiag = Conversion(CalleeSymbol.params[i], rtype[Visits[i]])
      BY <1>6, <2>1, <2>2, <2>3, <3>1 DEF KidDiag
    <3>3. Kind(VisitKid(node, i)) \in ExprKinds
      <4>1. VisitCount(node) = Arity(node) - 1 /\ AstTypeOK /\ phase \in {"sema", "codegen"} /\ Arity(node) \in Nat
        BY <1>1, <1>6, NodeFacts DEF VisitCount, Whole
      <4>2. i + 1 \in 1..Arity(node)
        BY <1>1, <3>1, <4>1
      <4> QED
        BY <1>1, <1>6, <3>1, <4>1, <4>2, KindsOfKids DEF ExprKinds
    <3>4. rtype[Visits[i]] = TypeOf[Kid(node, i + 1)] /\ TypeOf[Kid(node, i + 1)] \in TypeInfos
      BY <1>3, <2>2, <3>1, <3>3
    <3>5. KidDiag.err = 0 <=> SameDepth(TypeOf[Kid(node, i + 1)], params[i].type)
      <4>1. KidDiag.err = 0 <=> SameDepth(params[i].type, TypeOf[Kid(node, i + 1)])
        BY <2>1, <2>3, <3>2, <3>4, AssignAgrees
      <4> QED
        BY <4>1 DEF SameDepth
    <3>6. KidDiag.err = 1 => TypeOf[node] = none
      BY <1>6, <2>3, <3>5, CallType
    <3>7. Kind(node) \in ExprKinds
      BY <1>6 DEF ExprKinds
    <3>8. KidDiag.err = 0 => KidAccepted(node, i)
      BY <1>6, <3>5 DEF KidAccepted, Callee
    <3> QED
      BY <1>2, <3>6, <3>7, <3>8, UntypedRejected
  <2>4. CASE i \notin DOMAIN params
    <3>1. KidDiag = Silent
      BY <1>6, <2>1, <2>4 DEF KidDiag
    <3>2. KidAccepted(node, i)
      BY <1>6, <2>4 DEF KidAccepted, Callee
    <3> QED
      BY <1>q, <3>1, <3>2
  <2> QED
    BY <2>3, <2>4
<1>7. CASE /\ ~(Kind(node) \in {"IF", "WHILE"} /\ i = 1) /\ ~(Kind(node) = "FOR" /\ i = 2)
           /\ Kind(node) # "CALL"
  <2>1. KidDiag = Silent /\ KidAccepted(node, i)
    BY <1>7 DEF KidDiag, KidAccepted
  <2> QED
    BY <1>q, <2>1
<1> QED
  BY <1>4, <1>5, <1>6, <1>7

-----------------------------------------------------------------------------
(* A function returns. *)

LEMMA BelowProgram ==
  ASSUME Fine, Kind(node) # "PROGRAM"
  PROVE  Height >= 2
<1>1. Height \in Nat /\ Height >= 1 /\ node = frames[Height].node /\ Whole /\ CallStackOK(frames) /\ AstTypeOK
  BY FineFacts
<1>2. Kind(1) = "PROGRAM"
  BY <1>1, KindsOfKids DEF Whole
<1>3. Height # 1
  BY <1>1, <1>2 DEF CallStackOK
<1> QED
  BY <1>1, <1>3

\* What a function that returns may have changed of the annotations: its own node's.
OnlyOwn(types, binds) == \A n \in Nodes \ Own(frames) : types[n] = rtype[n] /\ binds[n] = bind[n]
OwnRight(types, binds) ==
  /\ NodeRight(node, types, binds)
  /\ Kind(node) = "CALL" => Kind(Callee) = "IDENT" /\ NodeRight(Callee, types, binds)

LEMMA PopMeans ==
  ASSUME Fine, Kind(node) # "PROGRAM", Return, Complete(frames),
         NEW types, NEW binds, OnlyOwn(types, binds), OwnRight(types, binds)
  PROVE  /\ Popped(frames, frames')
         /\ KidsDone(frames', types, binds) /\ EnteredOK(frames') /\ Seen(frames') = Seen(frames) \cup Sited(node)
<1>1. /\ Whole /\ CallStackOK(frames) /\ Height \in Nat /\ Height >= 2 /\ node = frames[Len(frames)].node
      /\ KidsDone(frames, rtype, bind) /\ EnteredOK(frames)
  BY FineFacts, BelowProgram DEF Height, Fine, MeaningOK
<1>2. Popped(frames, frames')
  BY ReturnFacts DEF Popped, Height, Fine, Good
<1>3. AllDone(node, types, binds)
  BY <1>1, TopDone DEF OnlyOwn, OwnRight, Callee
<1>4. KidsDone(frames', types, binds)
  BY <1>1, <1>2, <1>3, KidsDonePop DEF OnlyOwn, Height
<1>5. EnteredOK(frames')
  BY <1>1, <1>2, EnteredSteps
<1> QED
  BY <1>1, <1>2, <1>4, <1>5, SeenPop DEF Height

\* A function that neither has a scope nor declares a name.
LEMMA QuietPop ==
  ASSUME Fine, Kind(node) \notin ScopedKinds \cup {"PROGRAM", "VAR_DECL"}, Return, Complete(frames),
         NEW types, NEW binds, OnlyOwn(types, binds), OwnRight(types, binds)
  PROVE  MeaningOK(frames', scopes, types, binds)
<1>1. /\ Whole /\ CallStackOK(frames) /\ Height \in Nat /\ Height >= 2 /\ node = frames[Len(frames)].node
      /\ Distinct(Seen(frames)) /\ scopes \in Seq(ScopeSet)
  BY FineFacts, BelowProgram DEF Height, Fine, MeaningOK, Good
<1>2. /\ Popped(frames, frames') /\ KidsDone(frames', types, binds) /\ EnteredOK(frames')
      /\ Seen(frames') = Seen(frames) \cup Sited(node)
  BY PopMeans
<1>3. Sited(node) = {}
  BY <1>1, SiteFacts DEF Sited, ScopedKinds
<1>4. PICK own : Owns(own, frames, scopes)
  BY DEF Fine, MeaningOK
<1>5. Height \notin OpenAt(frames)
  BY <1>1 DEF OpenAt, HasScope, Height
<1>6. Len(scopes) \in Nat
  BY <1>1
<1>7. Len(scopes) >= 1
  BY <1>1, <1>4, <1>6, OwnedFacts
<1>8. ScopeHolds(scopes[Len(scopes)], frames[own[Len(scopes)]].node, Seen(frames))
  BY <1>4, <1>6, <1>7 DEF Owns
<1>9. Owns(own, frames', scopes)
  <2>1. ScopeHolds(scopes[Len(scopes)], frames[own[Len(scopes)]].node, Seen(frames) \cup Sited(frames[Len(frames)].node))
    <3>1. Seen(frames) \cup Sited(frames[Len(frames)].node) = Seen(frames)
      BY <1>1, <1>3
    <3> QED
      BY <1>8, <3>1
  <2>2. \A s \in Sited(frames[Len(frames)].node) : SiteScope(s) = frames[own[Len(scopes)]].node
    BY <1>1, <1>3
  <2> QED
    BY <1>1, <1>2, <1>4, <1>5, <1>6, <2>1, <2>2, OwnsPop DEF Height
<1>10. Seen(frames') = Seen(frames)
  BY <1>2, <1>3
<1> QED
  BY <1>1, <1>2, <1>9, <1>10 DEF MeaningOK

-----------------------------------------------------------------------------
(* Expressions. *)

LEMMA ReportedErrors ==
  ASSUME Fine, NEW diag \in Diags, Report(diag)
  PROVE  /\ error_count' \in Nat /\ (error_count' = 0 <=> KidDiag.err = 0 /\ diag.err = 0)
         /\ KidDiag.err \in {0, 1} /\ diag.err \in {0, 1}
<1>1. KidDiag.err \in {0, 1} /\ diag.err \in {0, 1}
  BY KidDiagIsDiag DEF Diags
<1>2. error_count' = KidDiag.err + diag.err
  BY <1>1 DEF Report, Fine
<1> QED
  BY <1>1, <1>2

LEMMA ExpressionDecided ==
  ASSUME Fine, Kind(node) \in ExprKinds, Complete(frames), NEW result, result.diag \in Diags,
         KidDiag.err = 0 => Typed(result, TypeOf[node]),
         rtype' = [rtype EXCEPT ![node] = result.type], Report(result.diag), Return, UNCHANGED scopes,
         \A n \in Nodes \ Own(frames) : bind'[n] = bind[n],
         Kind(node) = "CALL" => Callable,
         TypeOf[node] # none /\ Kind(node) = "IDENT" => Declared(node) /\ bind'[node] = SymbolOf(Meaning(node)),
         TypeOf[node] # none /\ Kind(node) = "CALL" =>
           Kind(Callee) = "IDENT" /\ Declared(Callee) /\ bind'[Callee] = SymbolOf(Meaning(Callee))
  PROVE  Decided
<1>1. /\ Whole /\ AstTypeOK /\ node \in Nodes /\ DOMAIN rtype = Nodes /\ node = frames[Len(frames)].node
      /\ CallStackOK(frames)
  BY FineFacts DEF Height, Fine, Good
<1>2. /\ error_count' \in Nat /\ (error_count' = 0 <=> KidDiag.err = 0 /\ result.diag.err = 0)
      /\ KidDiag.err \in {0, 1} /\ result.diag.err \in {0, 1}
  BY ReportedErrors
<1>3. CASE error_count' # 0
  <2>1. CASE KidDiag.err = 1
    BY <1>3, <2>1, KidChecked DEF Decided
  <2>2. CASE KidDiag.err = 0 /\ result.diag.err = 1
    <3>1. TypeOf[node] = none
      BY <2>2 DEF Typed
    <3> QED
      BY <1>3, <3>1, UntypedRejected DEF Decided
  <2> QED
    BY <1>2, <1>3, <2>1, <2>2
<1>4. CASE error_count' = 0
  <2>1. result.type = TypeOf[node] /\ TypeOf[node] \in TypeInfos /\ TypeOf[node] # none
    BY <1>2, <1>4 DEF Typed
  <2>2. rtype'[node] = TypeOf[node]
    BY <1>1, <2>1
  <2>3. NodeRight(node, rtype', bind')
    BY <1>1, <2>1, <2>2 DEF NodeRight, NodeAccepted, ExprKinds, Literals
  <2>4. Kind(node) = "CALL" => Kind(Callee) = "IDENT" /\ NodeRight(Callee, rtype', bind')
    <3> SUFFICES ASSUME Kind(node) = "CALL" PROVE Kind(Callee) = "IDENT" /\ NodeRight(Callee, rtype', bind')
      OBVIOUS
    <3>1. Kind(Callee) = "IDENT" /\ Declared(Callee) /\ bind'[Callee] = SymbolOf(Meaning(Callee))
      BY <2>1
    <3>2. IsCallee(Callee)
      BY <1>1, CalleeNotInArgument DEF Callee
    <3> QED
      BY <3>1, <3>2 DEF NodeRight, NodeAccepted
  <2>5. OnlyOwn(rtype', bind')
    BY <1>1 DEF OnlyOwn, Own
  <2>6. OwnRight(rtype', bind')
    BY <2>3, <2>4 DEF OwnRight
  <2>7. Kind(node) \notin ScopedKinds \cup {"PROGRAM", "VAR_DECL"}
    BY DEF ExprKinds, Literals, ScopedKinds
  <2>8. MeaningOK(frames', scopes, rtype', bind')
    BY <2>5, <2>6, <2>7, QuietPop
  <2> QED
    BY <1>4, <2>8 DEF Decided
<1> QED
  BY <1>3, <1>4

LEMMA LeavingIsComplete ==
  ASSUME Fine, Top.next > Len(Visits),
         \/ Kind(node) \notin {"CALL", "RETURN"}
         \/ Kind(node) = "CALL" /\ Callable
         \/ Kind(node) = "RETURN" /\ current_func # NoSymbol
  PROVE  Complete(frames) /\ Top.next > VisitCount(node)
<1>1. Good /\ frames # <<>> /\ node = frames[Len(frames)].node /\ Top = frames[Len(frames)]
  BY FineFacts DEF Fine, Height
<1>2. Len(Visits) = VisitCount(node)
  BY <1>1, VisitFacts
<1> QED
  BY <1>1, <1>2 DEF Complete

\* The operands are done: their types are right, and those the rules say the expression's from.
LEMMA OperandsTyped ==
  ASSUME Fine, Kind(node) \in ExprKinds \ {"CALL"}, Top.next > VisitCount(node)
  PROVE  /\ Arity(node) \in Nat /\ HasArity(Kind(node), Arity(node))
         /\ \A i \in 1..Arity(node) : KidType(i) = TypeOf[Kid(node, i)] /\ KidType(i) \in TypeInfos
         /\ TypeOf[node] = TypeFrom(node, KidTypesOf(TypeOf, node))
         /\ KidTypesOf(TypeOf, node) = [i \in 1..Arity(node) |-> KidType(i)]
         /\ \A i \in 1..Arity(node) : KidTypesOf(TypeOf, node)[i] = KidType(i) /\ KidType(i) # none
<1>1. AstTypeOK /\ TreeOK /\ phase = "sema" /\ node \in Nodes /\ Top.next \in Nat
  BY FineFacts DEF Fine
<1>2. Arity(node) \in Nat /\ HasArity(Kind(node), Arity(node))
  BY <1>1, NodeFacts
<1>3. VisitCount(node) = Arity(node) /\ \A i : VisitKid(node, i) = Kid(node, i)
  BY DEF VisitCount, VisitKid, ExprKinds, Literals
<1>4. ASSUME NEW i \in 1..Arity(node)
      PROVE  KidType(i) = TypeOf[Kid(node, i)] /\ KidType(i) \in TypeInfos
  <2>1. Kind(Kid(node, i)) \in ExprKinds
    BY <1>1, KindsOfKids
  <2>2. i \in 1..VisitCount(node) /\ i < Top.next /\ VisitKid(node, i) = Kid(node, i)
    BY <1>1, <1>2, <1>3
  <2> QED
    BY <2>1, <2>2, KidTyped DEF KidType
<1>5. KidTypesOf(TypeOf, node) = [i \in 1..Arity(node) |-> KidType(i)]
  BY <1>4 DEF KidTypesOf
<1>6. \A i \in 1..Arity(node) : KidTypesOf(TypeOf, node)[i] = KidType(i) /\ KidType(i) # none
  BY <1>4, <1>5, TypesInfos
<1> QED
  BY <1>1, <1>2, <1>4, <1>5, <1>6, TypeOfUnfolds

LEMMA LiteralDecided ==
  ASSUME Fine, AnalyseLiteral
  PROVE  Decided
<1> DEFINE result == Result(LiteralType[Kind(node)], Silent)
<1>1. Kind(node) \in Literals /\ Top.next > Len(Visits)
  BY DEF AnalyseLiteral, Leaving, Running
<1>2. Complete(frames) /\ Top.next > VisitCount(node)
  BY <1>1, LeavingIsComplete DEF Literals
<1>3. TypeOf[node] = TypeFrom(node, KidTypesOf(TypeOf, node))
  BY <1>1, <1>2, OperandsTyped DEF ExprKinds, Literals
<1>4. TypeOf[node] = LiteralType[Kind(node)] /\ TypeOf[node] \in TypeInfos
  <2>1. CASE Kind(node) = "INT_LIT"
    BY <1>3, <2>1, TypesInfos DEF TypeFrom, LiteralType
  <2>2. CASE Kind(node) = "CHAR_LIT"
    BY <1>3, <2>2, TypesInfos DEF TypeFrom, LiteralType
  <2>3. CASE Kind(node) = "STR_LIT"
    BY <1>3, <2>3, TypesInfos DEF TypeFrom, LiteralType, PointerTo, CharType, TypeInfo
  <2> QED
    BY <1>1, <2>1, <2>2, <2>3 DEF Literals
<1>5. result.type = TypeOf[node] /\ result.diag = Silent /\ Silent.err = 0 /\ Silent \in Diags
  BY <1>4, ResultFields, SilentIsDiag DEF Silent, Diag
<1>6. Typed(result, TypeOf[node])
  BY <1>4, <1>5, TypesInfos DEF Typed
<1>7. /\ rtype' = [rtype EXCEPT ![node] = result.type] /\ Report(result.diag) /\ Return
      /\ UNCHANGED scopes /\ UNCHANGED bind
  BY DEF AnalyseLiteral, Resolve
<1> HIDE DEF result
<1> QED
  BY <1>1, <1>2, <1>5, <1>6, <1>7, ExpressionDecided DEF ExprKinds, Literals

\* The operators, by the rule of each.
LEMMA OperatorDecided ==
  ASSUME Fine, AnalyseAssign \/ AnalyseBinary \/ AnalyseUnary \/ AnalyseIndex \/ AnalyseMember
  PROVE  Decided
<1> DEFINE kid == KidTypesOf(TypeOf, node)
<1>1. Kind(node) \in {"ASSIGN", "BINARY", "UNARY", "INDEX", "MEMBER"} /\ Top.next > Len(Visits)
  BY DEF AnalyseAssign, AnalyseBinary, AnalyseUnary, AnalyseIndex, AnalyseMember, Leaving, Running
<1>2. Complete(frames) /\ Top.next > VisitCount(node)
  BY <1>1, LeavingIsComplete
<1>3. /\ Arity(node) \in Nat /\ HasArity(Kind(node), Arity(node))
      /\ \A i \in 1..Arity(node) : KidType(i) \in TypeInfos /\ kid[i] = KidType(i) /\ kid[i] # none
      /\ TypeOf[node] = TypeFrom(node, kid)
  BY <1>1, <1>2, OperandsTyped DEF ExprKinds
<1> HIDE DEF kid
<1>4. ASSUME NEW result, Resolve(result), result.diag \in Diags, Typed(result, TypeOf[node]), UNCHANGED bind
      PROVE  Decided
  <2>1. rtype' = [rtype EXCEPT ![node] = result.type] /\ Report(result.diag) /\ Return /\ UNCHANGED scopes
    BY <1>4 DEF Resolve
  <2> QED
    BY <1>1, <1>2, <1>4, <2>1, ExpressionDecided DEF ExprKinds
<1>5. CASE AnalyseAssign
  <2>1. Kind(node) = "ASSIGN" /\ Resolve(AssignRule(KidType(1), KidType(2))) /\ UNCHANGED bind
    BY <1>5 DEF AnalyseAssign, Leaving, Running
  <2>2. Arity(node) = 2
    BY <1>3, <2>1 DEF HasArity
  <2>3. TypeOf[node] = IF SameDepth(KidType(1), KidType(2)) THEN KidType(1) ELSE none
    BY <1>3, <2>1, <2>2 DEF TypeFrom
  <2> QED
    BY <1>3, <1>4, <2>1, <2>2, <2>3, AssignAgrees, RuleDiags
<1>6. CASE AnalyseBinary
  <2>1. Kind(node) = "BINARY" /\ Resolve(BinaryRule(ast[node].op, KidType(1), KidType(2))) /\ UNCHANGED bind
    BY <1>6 DEF AnalyseBinary, Leaving, Running
  <2>2. Arity(node) = 2
    BY <1>3, <2>1 DEF HasArity
  <2>3. TypeOf[node] = BinaryType(ast[node].op, KidType(1), KidType(2))
    BY <1>3, <2>1, <2>2 DEF TypeFrom
  <2> QED
    BY <1>3, <1>4, <2>1, <2>2, <2>3, BinaryAgrees, RuleDiags
<1>7. CASE AnalyseUnary
  <2>1. Kind(node) = "UNARY" /\ Resolve(UnaryRule(ast[node].op, KidType(1))) /\ UNCHANGED bind
    BY <1>7 DEF AnalyseUnary, Leaving, Running
  <2>2. Arity(node) = 1
    BY <1>3, <2>1 DEF HasArity
  <2>3. TypeOf[node] = UnaryType(ast[node].op, KidType(1))
    BY <1>3, <2>1, <2>2 DEF TypeFrom
  <2>4. ast[node].op \in {"MINUS", "BANG", "STAR", "AMP"}
    <3>1. Labelled(ast[node])
      BY FineFacts, NodeFacts
    <3> QED
      BY <2>1, <3>1, AstAssumption DEF Labelled, Kind
  <2> QED
    BY <1>3, <1>4, <2>1, <2>2, <2>3, <2>4, UnaryAgrees, RuleDiags
<1>8. CASE AnalyseIndex
  <2>1. Kind(node) = "INDEX" /\ Resolve(IndexRule(KidType(1), KidType(2))) /\ UNCHANGED bind
    BY <1>8 DEF AnalyseIndex, Leaving, Running
  <2>2. Arity(node) = 2
    BY <1>3, <2>1 DEF HasArity
  <2>3. TypeOf[node] = IF KidType(1).ptr_depth > 0 /\ KidType(2).ptr_depth = 0
                       THEN TypeInfo(KidType(1).base, KidType(1).ptr_depth - 1) ELSE none
    BY <1>3, <2>1, <2>2 DEF TypeFrom
  <2> QED
    BY <1>3, <1>4, <2>1, <2>2, <2>3, IndexAgrees, RuleDiags
<1>9. CASE AnalyseMember
  <2>1. Kind(node) = "MEMBER" /\ Resolve(Result(Unknown, Error)) /\ UNCHANGED bind
    BY <1>9 DEF AnalyseMember, Leaving, Running
  <2>2. TypeOf[node] = none
    BY <1>3, <2>1 DEF TypeFrom
  <2>3. Typed(Result(Unknown, Error), TypeOf[node]) /\ Result(Unknown, Error).diag \in Diags
    BY <2>2, ResultFields, SilentIsDiag DEF Typed
  <2> QED
    BY <1>4, <2>1, <2>3
<1> QED
  BY <1>5, <1>6, <1>7, <1>8, <1>9

LEMMA SiteSymbols ==
  ASSUME NEW s
  PROVE  SymbolOf(s) # NoSymbol /\ SymbolOf(s).type = SiteType(s)
<1>1. SymbolOf(s).kind # NoSymbol.kind
  BY DEF SymbolOf, FuncSymbol, VarSymbol, Symbol, NoSymbol
<1> QED
  BY <1>1 DEF SymbolOf, FuncSymbol, VarSymbol, Symbol, SiteType, IsFunction

LEMMA IdentDecided ==
  ASSUME Fine, AnalyseIdent
  PROVE  Decided
<1> DEFINE symbol == Lookup(Name)
           result == Result(symbol.type, Diag(symbol = NoSymbol, FALSE))
<1>1. Kind(node) = "IDENT" /\ Top.next > Len(Visits)
  BY DEF AnalyseIdent, Leaving, Running
<1>2. Complete(frames) /\ Top.next > VisitCount(node)
  BY <1>1, LeavingIsComplete
<1>3. TypeOf[node] = IF Declared(node) THEN SiteType(Meaning(node)) ELSE none
  <2>1. TypeOf[node] = TypeFrom(node, KidTypesOf(TypeOf, node))
    BY <1>1, <1>2, OperandsTyped DEF ExprKinds
  <2> QED
    BY <1>1, <2>1 DEF TypeFrom
<1>4. /\ ~Declared(node) => symbol = NoSymbol
      /\ Declared(node) => symbol = SymbolOf(Meaning(node))
  <2>1. /\ Whole /\ CallStackOK(frames) /\ node = frames[Len(frames)].node /\ node \in Nodes
        /\ scopes \in Seq(ScopeSet) /\ Distinct(Seen(frames))
    BY FineFacts DEF Height, Fine, Good, MeaningOK
  <2>2. PICK own : Owns(own, frames, scopes)
    BY DEF Fine, MeaningOK
  <2>3. LooksUp(frames, node)
    BY <1>1, <2>1 DEF LooksUp
  <2>4. symbol = LookupIn(scopes, ast[node].name)
    BY DEF Lookup, Name
  <2> QED
    BY <2>1, <2>2, <2>3, <2>4, LookupMeans
<1>5. symbol \in Symbols \cup {NoSymbol} /\ \A s \in Symbols : s.type \in TypeInfos
  BY LookupFacts DEF Fine
<1>6. /\ rtype' = [rtype EXCEPT ![node] = result.type] /\ Report(result.diag) /\ Return /\ UNCHANGED scopes
      /\ bind' = [bind EXCEPT ![node] = symbol]
  BY DEF AnalyseIdent, Resolve
<1>7. DOMAIN bind = Nodes /\ node \in Nodes
  BY FineFacts DEF Fine, Good
<1> HIDE DEF symbol
<1>8. result.diag \in Diags /\ result.type = symbol.type /\ result.diag.err = IF symbol = NoSymbol THEN 1 ELSE 0
  <2> DEFINE diag == Diag(symbol = NoSymbol, FALSE)
  <2>1. result.diag = diag /\ result.type = symbol.type
    BY ResultFields
  <2>2. diag \in Diags
    BY DiagIsDiag, Zenon
  <2>3. diag.err = IF symbol = NoSymbol THEN 1 ELSE 0
    BY DEF Diag
  <2> HIDE DEF diag, result
  <2> QED
    BY <2>1, <2>2, <2>3
<1> HIDE DEF result
<1>9. Typed(result, TypeOf[node])
  <2>1. CASE Declared(node)
    <3>1. symbol # NoSymbol /\ symbol.type = TypeOf[node]
      BY <1>3, <1>4, <2>1, SiteSymbols
    <3> QED
      BY <1>5, <1>8, <3>1, TypesInfos DEF Typed
  <2>2. CASE ~Declared(node)
    <3>1. symbol = NoSymbol /\ TypeOf[node] = none
      BY <1>3, <1>4, <2>2
    <3>2. result.diag.err = 1
      BY <1>8, <3>1
    <3> QED
      BY <3>1, <3>2 DEF Typed
  <2> QED
    BY <2>1, <2>2
<1>10. /\ \A n \in Nodes \ Own(frames) : bind'[n] = bind[n]
       /\ TypeOf[node] # none => Declared(node) /\ bind'[node] = SymbolOf(Meaning(node))
  <2>1. node \in Own(frames)
    BY FineFacts DEF Own, Height
  <2> QED
    BY <1>3, <1>4, <1>6, <1>7, <2>1
<1> QED
  BY <1>1, <1>2, <1>6, <1>8, <1>9, <1>10, ExpressionDecided DEF ExprKinds

LEMMA CallDecided ==
  ASSUME Fine, AnalyseCall
  PROVE  Decided
<1> DEFINE params == ast[Meaning(Callee).decl].params
           result == Result(CalleeSymbol.type, Diag(Len(CalleeSymbol.params) # Arity(node) - 1, FALSE))
<1>1. Kind(node) = "CALL" /\ Top.next > Len(Visits)
  BY DEF AnalyseCall, Leaving, Running
<1>2. Kind(node) \in ExprKinds /\ node \in Nodes /\ AstTypeOK /\ TreeOK /\ phase = "sema"
  BY <1>1, FineFacts DEF ExprKinds, Fine
<1>3. CASE ~Callable
  <2>1. TypeOf[node] = none
    BY <1>1, <1>3, CallType
  <2>2. Report(Error)
    BY <1>3, ResultFields DEF AnalyseCall, Resolve
  <2>3. error_count' # 0
    BY <2>2, ReportedErrors, SilentIsDiag
  <2> QED
    BY <1>2, <2>1, <2>3, UntypedRejected DEF Decided
<1>4. CASE Callable
  <2>1. Complete(frames) /\ Top.next > VisitCount(node)
    BY <1>1, <1>4, LeavingIsComplete
  <2>2. /\ Len(params) \in Nat /\ DOMAIN params = 1..Len(params) /\ Len(CalleeSymbol.params) = Len(params)
    BY <1>1, <1>4, CalleeParams
  <2>3. Arity(node) \in Nat /\ Arity(node) >= 1 /\ VisitCount(node) = Arity(node) - 1
    BY <1>1, <1>2, NodeFacts DEF HasArity, VisitCount
  <2>4. Top.next = VisitCount(node) + 1
    <3>1. Top.next \in Nat /\ Top.next <= VisitCount(node) + 1 /\ VisitCount(node) \in Nat
      BY FineFacts
    <3> QED
      BY <2>1, <3>1
  <2>5. CalleeSymbol.type \in TypeInfos
    <3>1. CalleeSymbol \in Symbols \cup {NoSymbol} /\ \A s \in Symbols : s.type \in TypeInfos
      BY LookupFacts DEF Fine
    <3>2. CalleeSymbol # NoSymbol
      BY <1>4 DEF Callable, NoSymbol, Symbol
    <3> QED
      BY <3>1, <3>2
  <2>6. ASSUME KidDiag.err = 0, NEW i \in DOMAIN params, Arity(node) = Len(params) + 1
        PROVE  TypeOf[Kid(node, i + 1)] # none /\ SameDepth(TypeOf[Kid(node, i + 1)], params[i].type)
    <3> HIDE DEF params
    <3>1. i \in 1..VisitCount(node) /\ i < Top.next /\ i + 1 \in 1..Arity(node)
      BY <2>2, <2>3, <2>4, <2>6
    <3>2. VisitKid(node, i) = Kid(node, i + 1) /\ Kind(Kid(node, i + 1)) \in ExprKinds
      BY <1>1, <1>2, <3>1, KindsOfKids DEF VisitKid
    <3>3. TypeOf[Kid(node, i + 1)] \in TypeInfos
      BY <3>1, <3>2, KidTyped
    <3>4. KidAccepted(node, i)
      <4>1. CASE i = Top.next - 1
        BY <1>4, <2>6, <4>1, KidChecked
      <4>2. CASE i # Top.next - 1
        <5>1. Height \in 1..Len(frames) /\ node = frames[Height].node /\ Top = frames[Height]
              /\ Top.next \in Nat /\ KidsDone(frames, rtype, bind)
          BY FineFacts DEF Height
        <5>2. i < Top.next - 1
          BY <3>1, <4>2, <5>1
        <5> QED
          BY <3>1, <5>1, <5>2 DEF KidsDone
      <4> QED
        BY <4>1, <4>2
    <3>5. SameDepth(TypeOf[Kid(node, i + 1)], params[i].type)
      BY <1>1, <2>6, <3>4 DEF KidAccepted, Callee, params
    <3> QED
      BY <3>3, <3>5, TypesInfos
  <2>7. TypeOf[node] =
          IF /\ Arity(node) = Len(params) + 1
             /\ \A i \in DOMAIN params :
                  TypeOf[Kid(node, i + 1)] # none /\ SameDepth(TypeOf[Kid(node, i + 1)], params[i].type)
          THEN CalleeSymbol.type ELSE none
    BY <1>1, <1>4, CallType
  <2>8. result.diag \in Diags /\ result.type = CalleeSymbol.type
        /\ (result.diag.err = 0 <=> Arity(node) = Len(params) + 1)
    <3> DEFINE wrong == Len(CalleeSymbol.params) # Arity(node) - 1
               diag == Diag(wrong, FALSE)
    <3>1. result.diag = diag /\ result.type = CalleeSymbol.type
      BY ResultFields
    <3>2. diag \in Diags
      BY DiagIsDiag, Zenon
    <3>3. diag.err = 0 <=> ~wrong
      BY DEF Diag
    <3>4. wrong <=> Arity(node) # Len(params) + 1
      <4> HIDE DEF params
      <4> QED
        BY <2>2, <2>3
    <3> HIDE DEF diag, result, wrong
    <3> QED
      BY <3>1, <3>2, <3>3, <3>4
  <2>9. Resolve(result) /\ bind' = [bind EXCEPT ![Callee] = CalleeSymbol]
    BY <1>4 DEF AnalyseCall
  <2> HIDE DEF result
  <2>10. KidDiag.err = 0 => Typed(result, TypeOf[node])
    <3> HIDE DEF params
    <3> SUFFICES ASSUME KidDiag.err = 0 PROVE Typed(result, TypeOf[node])
      OBVIOUS
    <3>1. CASE Arity(node) = Len(params) + 1
      <4>1. TypeOf[node] = CalleeSymbol.type
        BY <2>6, <2>7, <3>1
      <4> QED
        BY <2>5, <2>8, <3>1, <4>1, TypesInfos DEF Typed
    <3>2. CASE Arity(node) # Len(params) + 1
      BY <2>7, <2>8, <3>2 DEF Typed
    <3> QED
      BY <3>1, <3>2
  <2>11. Kind(Callee) = "IDENT" /\ Declared(Callee) /\ CalleeSymbol = SymbolOf(Meaning(Callee))
    BY <1>1, <1>4, CalleeMeans
  <2>12. /\ \A n \in Nodes \ Own(frames) : bind'[n] = bind[n]
         /\ bind'[Callee] = SymbolOf(Meaning(Callee))
    <3>1. Callee \in Own(frames) /\ Callee \in Nodes /\ DOMAIN bind = Nodes
      BY <1>1, <1>2, FineFacts, CalleeNotInArgument DEF Own, Callee, Height, Fine, Good
    <3> QED
      BY <2>9, <2>11, <3>1
  <2>13. rtype' = [rtype EXCEPT ![node] = result.type] /\ Report(result.diag) /\ Return /\ UNCHANGED scopes
    BY <2>9 DEF Resolve
  <2> QED
    BY <1>1, <1>2, <1>4, <2>1, <2>8, <2>10, <2>11, <2>12, <2>13, ExpressionDecided
<1> QED
  BY <1>3, <1>4

LEMMA ExpressionsDecided ==
  ASSUME Fine,
         \/ AnalyseLiteral \/ AnalyseIdent \/ AnalyseAssign \/ AnalyseBinary
         \/ AnalyseUnary \/ AnalyseCall \/ AnalyseIndex \/ AnalyseMember
  PROVE  Decided
  BY LiteralDecided, IdentDecided, OperatorDecided, CallDecided

-----------------------------------------------------------------------------
(* Statements. *)

LEMMA AllKidsAccepted ==
  ASSUME Fine, Kind(node) = "CALL" => Callable, KidDiag.err = 0, Top.next > VisitCount(node),
         NEW k \in 1..VisitCount(node)
  PROVE  KidAccepted(node, k)
<1>1. /\ Height \in 1..Len(frames) /\ node = frames[Height].node /\ Top = frames[Height]
      /\ Top.next \in Nat /\ KidsDone(frames, rtype, bind) /\ VisitCount(node) \in Nat
  BY FineFacts DEF Height
<1>2. CASE k = Top.next - 1
  BY <1>2, KidChecked
<1>3. CASE k # Top.next - 1
  <2>1. k < Top.next - 1
    BY <1>1, <1>3
  <2> QED
    BY <1>1, <2>1 DEF KidsDone
<1> QED
  BY <1>2, <1>3

LEMMA StatementRight ==
  ASSUME Kind(node) \notin ExprKinds, NodeAccepted(node)
  PROVE  OwnRight(rtype, bind) /\ OnlyOwn(rtype, bind)
  BY DEF OwnRight, OnlyOwn, NodeRight, ExprKinds

\* Its checks passed, a statement is accepted.
LEMMA StatementAccepted ==
  ASSUME Fine, Kind(node) \in {"IF", "WHILE", "FOR", "EXPR_STMT", "BLOCK"},
         KidDiag.err = 0, Top.next > VisitCount(node)
  PROVE  NodeAccepted(node)
<1>1. \A k \in 1..VisitCount(node) : KidAccepted(node, k)
  BY AllKidsAccepted
<1>2. Whole /\ node \in Nodes
  BY FineFacts
<1>3. CASE Kind(node) \in {"IF", "WHILE"}
  <2>1. KidAccepted(node, 1)
    BY <1>1, <1>2, <1>3, ConditionKinds
  <2> QED
    BY <1>3, <2>1 DEF KidAccepted, NodeAccepted, ExprKinds, Literals
<1>4. CASE Kind(node) = "FOR"
  <2>1. KidAccepted(node, 2)
    BY <1>1, <1>2, <1>4, ConditionKinds
  <2> QED
    BY <1>4, <2>1 DEF KidAccepted, NodeAccepted, ExprKinds, Literals
<1>5. CASE Kind(node) \in {"EXPR_STMT", "BLOCK"}
  BY <1>5 DEF NodeAccepted, ExprKinds, Literals
<1> QED
  BY <1>3, <1>4, <1>5

LEMMA StatementDecided ==
  ASSUME Fine, LeaveStatement
  PROVE  Decided
<1>1. Kind(node) \in {"IF", "WHILE", "EXPR_STMT"} /\ Top.next > Len(Visits) /\ Return /\ Report(Silent)
      /\ UNCHANGED <<scopes, rtype, bind>>
  BY DEF LeaveStatement, Leaving, Running
<1>2. Complete(frames) /\ Top.next > VisitCount(node)
  BY <1>1, LeavingIsComplete
<1>3. error_count' = 0 <=> KidDiag.err = 0
  BY <1>1, ReportedErrors, SilentIsDiag DEF Silent, Diag
<1>4. CASE error_count' = 0
  <2>1. NodeAccepted(node)
    BY <1>1, <1>2, <1>3, <1>4, StatementAccepted
  <2>2. OwnRight(rtype, bind) /\ OnlyOwn(rtype, bind)
    BY <1>1, <2>1, StatementRight DEF ExprKinds, Literals
  <2>3. MeaningOK(frames', scopes, rtype, bind)
    BY <1>1, <1>2, <2>2, QuietPop DEF ScopedKinds
  <2> QED
    BY <1>1, <1>4, <2>3 DEF Decided
<1>5. CASE error_count' # 0
  <2>1. KidDiag.err = 1
    BY <1>3, <1>5, KidChecked, <1>1
  <2> QED
    BY <1>1, <1>5, <2>1, KidChecked DEF Decided
<1> QED
  BY <1>4, <1>5

LEMMA ChildDecided ==
  ASSUME Fine, AnalyseChild
  PROVE  Decided
<1>1. Top.next \in DOMAIN Visits /\ Report(Silent) /\ UNCHANGED <<scopes, rtype, bind>>
  BY DEF AnalyseChild
<1>2. Kind(node) = "CALL" => Callable
  BY <1>1 DEF Visits
<1>3. error_count' = 0 <=> KidDiag.err = 0
  BY <1>1, ReportedErrors, SilentIsDiag DEF Silent, Diag
<1>4. CASE error_count' # 0
  <2>1. KidDiag.err = 1
    BY <1>2, <1>3, <1>4, KidChecked
  <2> QED
    BY <1>2, <1>4, <2>1, KidChecked DEF Decided
<1>5. CASE error_count' = 0
  <2>1. /\ Whole /\ CallStackOK(frames) /\ Distinct(Seen(frames)) /\ KidsDone(frames, rtype, bind)
        /\ EnteredOK(frames)
    BY FineFacts DEF Fine, MeaningOK
  <2>2. ChildCalled(frames, frames')
    <3>1. /\ Height \in Nat /\ Height >= 1 /\ DOMAIN frames = 1..Height
          /\ Top.next \in 1..VisitCount(node)
          /\ \A i \in 1..(Height - 1) : frames'[i] = frames[i]
          /\ frames'[Height].node = node /\ frames'[Height].next = Top.next + 1
          /\ \/ IsNull(VisitKid(node, Top.next)) /\ Height' = Height
             \/ /\ ~IsNull(VisitKid(node, Top.next)) /\ Height' = Height + 1
                /\ frames'[Height + 1] = Frame(VisitKid(node, Top.next))
      BY CallFacts DEF Fine
    <3>2. Top = frames[Height] /\ node = frames[Height].node
      BY FineFacts
    <3>3. \A i \in 1..Height : frames'[i].node = frames[i].node /\ (i # Height => frames'[i] = frames[i])
      <4>1. \A i \in 1..Height : i # Height => i \in 1..(Height - 1)
        BY <3>1
      <4> QED
        BY <3>1, <3>2, <4>1
    <3> QED
      BY <3>1, <3>2, <3>3 DEF ChildCalled, Height
  <2>3. KidAccepted(frames[Len(frames)].node, frames[Len(frames)].next - 1)
    <3>1. KidAccepted(node, Top.next - 1)
      BY <1>2, <1>3, <1>5, KidChecked
    <3> QED
      BY <3>1 DEF node, Top
  <2>4. KidsDone(frames', rtype, bind) /\ EnteredOK(frames') /\ Seen(frames') = Seen(frames)
    BY <2>1, <2>2, <2>3, KidsDoneCall, EnteredSteps, SeenCall
  <2>5. \E own : Owns(own, frames', scopes)
    <3>1. PICK own : Owns(own, frames, scopes)
      BY DEF Fine, MeaningOK
    <3>2. Owns(own, frames', scopes)
      BY <2>1, <2>2, <3>1, OwnsCall
    <3> QED
      BY <3>2
  <2> QED
    BY <1>1, <1>5, <2>1, <2>4, <2>5 DEF Decided, MeaningOK
<1> QED
  BY <1>4, <1>5

\* A function that has not pushed its scope does so.
LEMMA OpenedFrames ==
  ASSUME Fine, Top.next = 0, frames' = [frames EXCEPT ![Len(frames)].next = 1]
  PROVE  Opened(frames, frames')
<1>1. /\ Height \in Nat /\ Height >= 1 /\ Height' = Height
      /\ \A i \in 1..(Height - 1) : frames'[i] = frames[i]
      /\ frames'[Height].node = node /\ frames'[Height].next = 1
  BY EnterFacts DEF Fine, Good
<1>2. Top = frames[Height] /\ node = frames[Height].node
  BY FineFacts
<1>3. \A i \in 1..Height : i # Height => i \in 1..(Height - 1)
  BY <1>1
<1>4. \A i \in 1..Height : frames'[i].node = frames[i].node /\ (i # Height => frames'[i] = frames[i])
  BY <1>1, <1>2, <1>3
<1> QED
  BY <1>1, <1>2, <1>4 DEF Opened, Height

LEMMA EmptyHolds ==
  ASSUME NEW n, NEW seen, \A s \in seen : SiteScope(s) # n
  PROVE  ScopeHolds(EmptyScope, n, seen)
  BY DEF ScopeHolds, EmptyScope

LEMMA ScopeDecided ==
  ASSUME Fine, EnterScope
  PROVE  Decided
<1>1. /\ Kind(node) \in {"BLOCK", "FOR"} /\ Top.next = 0 /\ scopes' = Append(scopes, EmptyScope)
      /\ frames' = [frames EXCEPT ![Len(frames)].next = 1] /\ UNCHANGED <<error_count, rtype, bind>>
  BY DEF EnterScope, Entering, Running, Enter
<1>2. /\ Whole /\ CallStackOK(frames) /\ Distinct(Seen(frames)) /\ KidsDone(frames, rtype, bind)
      /\ EnteredOK(frames) /\ error_count = 0 /\ scopes \in Seq(ScopeSet) /\ Len(scopes) \in Nat
      /\ node = frames[Len(frames)].node /\ Top = frames[Len(frames)]
  BY FineFacts DEF Fine, MeaningOK, Good, Height
<1>3. Opened(frames, frames')
  BY <1>1, OpenedFrames
<1>4. Seen(frames') = Seen(frames)
  <2>1. Seen(frames') = Seen(frames) \cup IF Kind(node) = "FUNC_DECL" THEN Sited(node) ELSE {}
    BY <1>2, <1>3, SeenOpen
  <2> QED
    BY <1>1, <2>1
<1>5. KidsDone(frames', rtype, bind) /\ EnteredOK(frames')
  BY <1>1, <1>2, <1>3, KidsDoneOpen, EnteredSteps
<1>6. PICK own : Owns(own, frames, scopes)
  BY DEF Fine, MeaningOK
<1>7. /\ Len(scopes') = Len(scopes) + 1 /\ scopes'[Len(scopes) + 1] = EmptyScope
      /\ \A j \in 1..Len(scopes) : scopes'[j] = scopes[j]
  BY <1>1, <1>2, ScopeFacts
<1>8. ScopeHolds(EmptyScope, frames[Len(frames)].node, Seen(frames'))
  <2>1. Len(frames) >= 2
    BY <1>1, BelowProgram DEF Height
  <2>2. \A s \in Seen(frames) : SiteScope(s) # frames[Len(frames)].node
    BY <1>1, <1>2, <2>1, NothingInside
  <2> QED
    BY <1>4, <2>2, EmptyHolds
<1>9. \A j \in 1..Len(scopes) : ScopeHolds(scopes'[j], frames[own[j]].node, Seen(frames'))
  BY <1>4, <1>6, <1>7 DEF Owns
<1>10. \E pwn : Owns(pwn, frames', scopes')
  <2>1. Kind(frames[Len(frames)].node) \in ScopedKinds
    BY <1>1, <1>2 DEF ScopedKinds
  <2>2. ScopeHolds(scopes'[Len(scopes) + 1], frames[Len(frames)].node, Seen(frames'))
    BY <1>7, <1>8
  <2>3. Whole /\ CallStackOK(frames) /\ Len(scopes) \in Nat /\ Len(scopes') = Len(scopes) + 1
    BY <1>2, <1>7
  <2> QED
    BY <1>3, <1>6, <1>9, <2>1, <2>2, <2>3, OwnsOpen
<1> QED
  BY <1>1, <1>2, <1>4, <1>5, <1>10 DEF Decided, MeaningOK

\* A function with a scope returns.
LEMMA ScopedPop ==
  ASSUME Fine, Kind(node) \in ScopedKinds, Top.next > VisitCount(node), Return, PopScope,
         UNCHANGED <<rtype, bind>>, NodeAccepted(node)
  PROVE  MeaningOK(frames', scopes', rtype', bind')
<1>1. /\ Whole /\ CallStackOK(frames) /\ Distinct(Seen(frames)) /\ Height \in Nat
      /\ scopes \in Seq(ScopeSet) /\ Len(scopes) \in Nat /\ frames # <<>> /\ Good
      /\ node = frames[Len(frames)].node /\ Top = frames[Len(frames)] /\ VisitCount(node) \in Nat /\ Top.next \in Nat
  BY FineFacts DEF Fine, MeaningOK, Good, Height
<1>2. Complete(frames)
  BY <1>1 DEF Complete
<1>3. Kind(node) # "PROGRAM" /\ Kind(node) \notin ExprKinds
  BY DEF ScopedKinds, ExprKinds, Literals
<1>4. Height >= 2
  BY <1>3, BelowProgram
<1>5. OwnRight(rtype, bind) /\ OnlyOwn(rtype, bind)
  BY <1>3, StatementRight
<1>6. Popped(frames, frames') /\ KidsDone(frames', rtype, bind) /\ EnteredOK(frames')
  BY <1>2, <1>3, <1>5, PopMeans
<1>7. Len(frames) \in OpenAt(frames)
  <2>1. Top.next > 0
    BY <1>1
  <2> QED
    BY <1>1, <1>4, <2>1 DEF OpenAt, HasScope, Height
<1>8. PICK own : Owns(own, frames, scopes)
  BY DEF Fine, MeaningOK
<1>9. Len(scopes') = Len(scopes) - 1 /\ \A j \in 1..(Len(scopes) - 1) : scopes'[j] = scopes[j]
  BY <1>1, ScopeSteps, PrefixFirst DEF PopScope, Fine, GlobalsOK
<1>10. Seen(frames') = Seen(frames) /\ \E pwn : Owns(pwn, frames', scopes')
  BY <1>1, <1>2, <1>4, <1>6, <1>7, <1>8, <1>9, OwnsLeave DEF Height
<1> QED
  BY <1>1, <1>6, <1>10 DEF MeaningOK

LEMMA LeaveScopeDecided ==
  ASSUME Fine, LeaveScope
  PROVE  Decided
<1>1. Kind(node) \in {"BLOCK", "FOR"} /\ Top.next > Len(Visits) /\ Return /\ PopScope /\ Report(Silent)
      /\ UNCHANGED <<rtype, bind>>
  BY DEF LeaveScope, Leaving, Running
<1>2. Complete(frames) /\ Top.next > VisitCount(node)
  BY <1>1, LeavingIsComplete
<1>3. error_count' = 0 <=> KidDiag.err = 0
  BY <1>1, ReportedErrors, SilentIsDiag DEF Silent, Diag
<1>4. CASE error_count' = 0
  <2>1. NodeAccepted(node)
    BY <1>1, <1>2, <1>3, <1>4, StatementAccepted
  <2> QED
    BY <1>1, <1>2, <1>4, <2>1, ScopedPop DEF Decided, ScopedKinds
<1>5. CASE error_count' # 0
  <2>1. KidDiag.err = 1
    BY <1>3, <1>5, KidChecked, <1>1
  <2> QED
    BY <1>1, <1>5, <2>1, KidChecked DEF Decided
<1> QED
  BY <1>4, <1>5

LEMMA LeaveFunctionDecided ==
  ASSUME Fine, LeaveFunction
  PROVE  Decided
<1>1. Kind(node) = "FUNC_DECL" /\ Top.next > Len(Visits) /\ Return /\ PopScope /\ Report(Diag(FALSE, ~has_return))
      /\ UNCHANGED <<rtype, bind>>
  BY DEF LeaveFunction, Leaving, Running
<1>2. Complete(frames) /\ Top.next > VisitCount(node)
  BY <1>1, LeavingIsComplete
<1>3. error_count' = 0 <=> KidDiag.err = 0
  <2>1. Diag(FALSE, ~has_return) \in Diags
    BY DiagIsDiag
  <2>2. Diag(FALSE, ~has_return).err = 0
    BY DEF Diag
  <2> QED
    BY <1>1, <2>1, <2>2, ReportedErrors
<1>4. CASE error_count' = 0
  <2>1. NodeAccepted(node)
    <3>1. /\ EnteredOK(frames) /\ Height \in 1..Len(frames) /\ node = frames[Height].node /\ Top = frames[Height]
          /\ Top.next \in Nat /\ VisitCount(node) \in Nat
      BY FineFacts DEF Fine, MeaningOK, Height
    <3>2. Top.next > 0
      BY <1>2, <3>1
    <3> QED
      BY <1>1, <3>1, <3>2 DEF EnteredOK
  <2> QED
    BY <1>1, <1>2, <1>4, <2>1, ScopedPop DEF Decided, ScopedKinds
<1>5. CASE error_count' # 0
  <2>1. KidDiag.err = 1
    BY <1>3, <1>5, KidChecked, <1>1
  <2> QED
    BY <1>1, <1>5, <2>1, KidChecked DEF Decided
<1> QED
  BY <1>4, <1>5

-----------------------------------------------------------------------------
(* A return is checked against the first declaration of its function. *)

LEMMA FunctionIsSecond ==
  ASSUME Fine, InBody
  PROVE  /\ EnclosingFunction(node) = frames[2].node /\ frames[2].node \in Nodes
         /\ Kind(frames[2].node) = "FUNC_DECL"
<1>1. /\ Whole /\ AstTypeOK /\ CallStackOK(frames) /\ Height \in Nat /\ Height >= 2 /\ node = frames[Height].node
      /\ FramesOK /\ Kind(frames[2].node) = "FUNC_DECL" /\ phase = "sema" /\ 2 \in 1..Len(frames)
      /\ Height \in 1..Len(frames)
  BY FineFacts DEF InBody, Fine, Height
<1>2. frames[2].node \in Nodes /\ \A i \in 1..Height : frames[i].node \in Nodes
  BY <1>1, StackFacts DEF Height
<1>3. Under(node, frames[2].node)
  <2>1. OnPath(frames, Height, frames[2].node)
    BY <1>1 DEF OnPath
  <2> QED
    BY <1>1, <2>1, PathIsStack
<1>4. ASSUME NEW f \in Nodes, Kind(f) = "FUNC_DECL", Under(node, f)
      PROVE  f = frames[2].node
  <2>1. OnPath(frames, Height, f)
    BY <1>1, <1>4, PathIsStack
  <2>2. CASE \E j \in 1..Height : f = frames[j].node
    <3>1. PICK j \in 1..Height : f = frames[j].node
      BY <2>2
    <3>2. Kind(f) \in KindsAt(j)
      BY <1>1, <3>1 DEF FramesOK, VisitOK
    <3>3. j = 2
      BY <1>4, <3>2 DEF KindsAt, StmtKinds, ExprKinds, Literals
    <3> QED
      BY <3>1, <3>3
  <2>3. CASE \E j \in 1..(Height - 1) : Kind(frames[j].node) = "FUNC_DECL" /\ f = Kid(frames[j].node, 1)
    <3>1. PICK j \in 1..(Height - 1) : Kind(frames[j].node) = "FUNC_DECL" /\ f = Kid(frames[j].node, 1)
      BY <2>3
    <3>2. frames[j].node \in Nodes
      BY <1>1, <1>2, <3>1
    <3>3. 1 \in 1..Arity(frames[j].node)
      BY <1>1, <3>1, <3>2, NodeFacts DEF HasArity
    <3>4. Kind(f) \in {"BLOCK", "NULL"}
      BY <1>1, <3>1, <3>2, <3>3, KindsOfKids
    <3> QED
      BY <1>4, <3>4
  <2> QED
    BY <2>1, <2>2, <2>3 DEF OnPath
<1> QED
  BY <1>1, <1>2, <1>3, <1>4 DEF EnclosingFunction

\* The first declaration, found in the scope and by the rules.
LEMMA FirstIsFirst ==
  ASSUME AstTypeOK, NEW f \in Nodes, NEW s, IsFirst(s, ast[f].name)
  PROVE  FirstDeclaration(f) = s.decl
<1>1. Nodes \in SUBSET Nat
  BY DEF AstTypeOK, Nodes
<1>2. DeclarationsOf(ast[f].name) \in SUBSET Nat
  BY <1>1 DEF DeclarationsOf
<1>3. \A g \in DeclarationsOf(ast[f].name) :
        (\A h \in DeclarationsOf(ast[f].name) : g <= h) => g = s.decl
  BY <1>2 DEF IsFirst
<1> QED
  BY <1>3 DEF FirstDeclaration, IsFirst

\* The symbol of a function is that of the first declaration.
LEMMA GlobalFunction ==
  ASSUME Fine, NEW f \in Nodes, ast[f].name \in DOMAIN scopes[1], scopes[1][ast[f].name].kind = "FUNC"
  PROVE  scopes[1][ast[f].name] = FuncSymbol(FirstDeclaration(f))
<1> DEFINE x == ast[f].name
           symbol == scopes[1][x]
<1>1. /\ Whole /\ AstTypeOK /\ CallStackOK(frames) /\ scopes \in Seq(ScopeSet) /\ Len(scopes) \in Nat
      /\ FuncsFirst(scopes)
  BY FineFacts DEF Fine, Good, GlobalsOK
<1>2. PICK own : Owns(own, frames, scopes)
  BY DEF Fine, MeaningOK
<1>3. Len(scopes) >= 1 /\ 1 \in DOMAIN scopes
  BY <1>1, <1>2, OwnedFacts
<1>4. IsFirst(symbol, x)
  BY <1>1, <1>3 DEF FuncsFirst, ScopeFirst
<1>5. ScopeHolds(scopes[1], frames[own[1]].node, Seen(frames))
  BY <1>2, <1>1, <1>3 DEF Owns
<1>6. PICK s \in Seen(frames) : symbol = SymbolOf(s)
  BY <1>5 DEF ScopeHolds
<1>7. symbol = FuncSymbol(s.decl) /\ symbol.decl = s.decl
  BY <1>6 DEF SymbolOf, FuncSymbol, VarSymbol, Symbol
<1>8. FirstDeclaration(f) = symbol.decl
  BY <1>1, <1>4, FirstIsFirst
<1> QED
  BY <1>7, <1>8

LEMMA ReturnDecided ==
  ASSUME Fine, AnalyseReturn
  PROVE  Decided
<1> DEFINE e == Kid(node, 1)
           func == FirstDeclaration(EnclosingFunction(node))
           diag == IF IsNull(e) THEN Diag(FALSE, TRUE) ELSE Conversion(current_func.type, rtype[e])
<1>1. Kind(node) = "RETURN" /\ Top.next > Len(Visits) /\ Return /\ UNCHANGED <<scopes, rtype, bind>>
  BY DEF AnalyseReturn, Leaving, Running
<1>2. Good /\ frames # <<>> /\ FramesOK /\ FuncOK
  BY DEF Fine
<1>3. InBody
  BY <1>1, <1>2, ReturnsInBody DEF StmtKinds
<1>4. current_func = scopes[1][FuncName] /\ current_func.kind = "FUNC" /\ FuncName \in DOMAIN scopes[1]
  BY <1>2, <1>3 DEF FuncOK
<1>5. current_func = FuncSymbol(func)
  <2>1. frames[2].node \in Nodes /\ EnclosingFunction(node) = frames[2].node
    BY <1>3, FunctionIsSecond
  <2> QED
    BY <1>4, <2>1, GlobalFunction DEF FuncName
<1>6. current_func # NoSymbol /\ current_func.type = ast[func].type /\ current_func.type \in TypeInfos
  <2>1. current_func # NoSymbol
    BY <1>4 DEF NoSymbol, Symbol
  <2>2. current_func \in Symbols
    BY <1>2, <2>1 DEF Good
  <2> QED
    BY <1>2, <1>5, <2>1, <2>2, LookupFacts DEF FuncSymbol, Symbol
<1>7. Complete(frames) /\ Top.next > VisitCount(node)
  BY <1>1, <1>6, LeavingIsComplete
<1>8. Report(diag)
  BY <1>6 DEF AnalyseReturn
<1>9. diag \in Diags
  BY DiagIsDiag, ConversionIsDiag
<1>10. diag.err = 0 <=> NodeAccepted(node)
  <2>1. NodeAccepted(node) <=> Initialised(node, ast[func].type)
    BY <1>1 DEF NodeAccepted, ExprKinds, Literals
  <2>2. CASE IsNull(e)
    BY <2>1, <2>2 DEF Initialised, Diag
  <2>3. CASE ~IsNull(e)
    <3>1. /\ AstTypeOK /\ phase = "sema" /\ node \in Nodes /\ Arity(node) = 1 /\ Top.next \in Nat
      BY <1>1, FineFacts, NodeFacts DEF HasArity, Fine
    <3>2. VisitCount(node) = 1 /\ VisitKid(node, 1) = e
      BY <1>1, <3>1 DEF VisitCount, VisitKid
    <3>3. Kind(e) \in ExprKinds
      <4>1. Kind(e) \in Slot("RETURN", 1) /\ Kind(e) \notin HoleKinds
        BY <1>1, <3>1 DEF AstTypeOK, Holes
      <4> QED
        BY <2>3, <4>1 DEF Slot, IsStmtSlot, MayBeNull, ExprSlot, HoleKinds, Null, IsNull
    <3>4. 1 \in 1..VisitCount(node) /\ 1 < Top.next
      BY <1>7, <3>1, <3>2
    <3>5. rtype[e] = TypeOf[e] /\ TypeOf[e] \in TypeInfos
      BY <3>2, <3>3, <3>4, KidTyped
    <3>6. diag.err = 0 <=> SameDepth(current_func.type, TypeOf[e])
      BY <1>6, <2>3, <3>5, AssignAgrees
    <3>7. Initialised(node, ast[func].type) <=> SameDepth(TypeOf[e], ast[func].type)
      BY <2>3 DEF Initialised
    <3> QED
      BY <1>6, <2>1, <3>6, <3>7 DEF SameDepth
  <2> QED
    BY <2>2, <2>3
<1> HIDE DEF diag
<1>11. /\ error_count' = 0 <=> KidDiag.err = 0 /\ diag.err = 0
       /\ KidDiag.err \in {0, 1}
  BY <1>8, <1>9, ReportedErrors
<1>12. CASE error_count' = 0
  <2>1. OwnRight(rtype, bind) /\ OnlyOwn(rtype, bind)
    BY <1>1, <1>10, <1>11, <1>12, StatementRight DEF ExprKinds, Literals
  <2>2. MeaningOK(frames', scopes, rtype, bind)
    BY <1>1, <1>7, <2>1, QuietPop DEF ScopedKinds
  <2> QED
    BY <1>1, <1>12, <2>2 DEF Decided
<1>13. CASE error_count' # 0
  <2>1. CASE KidDiag.err = 1
    BY <1>1, <1>13, <2>1, KidChecked DEF Decided
  <2>2. CASE diag.err # 0
    <3>1. ~NodeAccepted(node) /\ node \in Nodes
      BY <1>10, <2>2, FineFacts
    <3> QED
      BY <1>13, <3>1, Rejected DEF Decided
  <2> QED
    BY <1>11, <1>13, <2>1, <2>2
<1> QED
  BY <1>12, <1>13

-----------------------------------------------------------------------------
(* Declarations. *)

\* What the running function's node declares has not been met.
LEMMA TopUnseen ==
  ASSUME Fine, Kind(node) # "FUNC_DECL" \/ Top.next = 0
  PROVE  \A s \in Seen(frames) : s.decl # node
<1>1. /\ Whole /\ CallStackOK(frames) /\ Height \in Nat /\ Height >= 1 /\ Top = frames[Height]
      /\ node = frames[Height].node /\ node \in Nodes
  BY FineFacts
<1>2. CASE Top.next = 0 /\ Kind(node) # "PROGRAM"
  <2>1. Height >= 2
    BY <1>2, BelowProgram
  <2> QED
    BY <1>1, <1>2, <2>1, NothingInside DEF Height
<1>3. CASE Kind(node) # "FUNC_DECL"
  <2>1. ~Finished(frames, node)
    <3>1. node \in Own(frames)
      BY <1>1 DEF Own, Height
    <3>2. /\ node \in Nodes /\ Under(node, frames[Len(frames)].node)
          /\ \A k \in 1..VisitCount(frames[Len(frames)].node) : ~Under(node, VisitKid(frames[Len(frames)].node, k))
      BY <1>1, <3>1, OwnFacts
    <3>3. ASSUME NEW i \in 1..Len(frames), NEW k \in 1..VisitCount(frames[i].node), k < Past(frames, i)
          PROVE  ~Under(node, VisitKid(frames[i].node, k))
      BY <1>1, <3>2, <3>3, TopUnfinished
    <3> QED
      BY <3>3 DEF Finished
  <2>2. ~Entered(frames, node)
    BY <1>3 DEF Entered
  <2> QED
    BY <2>1, <2>2 DEF Seen
<1> QED
  BY <1>2, <1>3

\* The site of a declared name that is no parameter.
LEMMA PlainSite ==
  ASSUME Whole, NEW n \in Nodes, Kind(n) \in {"VAR_DECL", "FUNC_DECL"}
  PROVE  /\ Site(n, 0) \in Sites /\ Site(n, 0).decl = n /\ SiteName(Site(n, 0)) = ast[n].name
         /\ SiteType(Site(n, 0)) = ast[n].type /\ SiteScope(Site(n, 0)) = Owner[n]
         /\ IsFunction(Site(n, 0)) <=> Kind(n) = "FUNC_DECL"
         /\ SymbolOf(Site(n, 0)) = IF Kind(n) = "FUNC_DECL" THEN FuncSymbol(n) ELSE VarSymbol(n, ast[n].type)
         /\ Kind(n) = "VAR_DECL" => Sited(n) = {Site(n, 0)}
<1>1. Site(n, 0).decl = n /\ Site(n, 0).param = 0 /\ ~IsParam(Site(n, 0))
  BY DEF Site, IsParam
<1>2. Site(n, 0) \in Sites
  BY DEF Sites
<1>3. ASSUME Kind(n) = "VAR_DECL", NEW s \in Sited(n) PROVE s = Site(n, 0)
  <2>1. s \in Sites /\ s.decl = n
    BY <1>3 DEF Sited
  <2>2. s = Site(s.decl, s.param) /\ ~IsParam(s)
    BY <1>3, <2>1, SiteFacts
  <2> QED
    BY <2>1, <2>2 DEF IsParam
<1>4. Site(n, 0) \in Sited(n)
  BY <1>1, <1>2 DEF Sited
<1>5. IsFunction(Site(n, 0)) <=> Kind(n) = "FUNC_DECL"
  BY <1>1 DEF IsFunction
<1>6. SiteType(Site(n, 0)) = ast[n].type
  BY <1>1 DEF SiteType
<1> QED
  BY <1>1, <1>2, <1>3, <1>4, <1>5, <1>6 DEF SiteName, SiteScope, SymbolOf

LEMMA NamesRejected ==
  ASSUME NEW s \in Sites, NEW t \in Sites, Compete(s, t), s # t, ~(IsFunction(s) /\ IsFunction(t))
  PROVE  ~Accepted
  BY DEF Accepted, NamesAccepted, Compete

LEMMA VariableInitialised ==
  ASSUME Fine, Kind(node) = "VAR_DECL", Top.next > VisitCount(node)
  PROVE  IF IsNull(Kid(node, 1)) THEN NodeAccepted(node)
         ELSE Conversion(ast[node].type, rtype[Kid(node, 1)]).err = 0 <=> NodeAccepted(node)
<1> DEFINE e == Kid(node, 1)
           type == ast[node].type
<1>1. NodeAccepted(node) <=> Initialised(node, type)
  BY DEF NodeAccepted, ExprKinds, Literals
<1>2. CASE IsNull(e)
  BY <1>1, <1>2 DEF Initialised
<1>3. CASE ~IsNull(e)
  <2>1. /\ AstTypeOK /\ phase = "sema" /\ node \in Nodes /\ Arity(node) = 1 /\ Top.next \in Nat /\ type \in TypeInfos
    BY FineFacts, NodeFacts DEF HasArity, Fine, Labelled, Kind
  <2>2. VisitCount(node) = 1 /\ VisitKid(node, 1) = e
    BY <2>1 DEF VisitCount, VisitKid
  <2>3. Kind(e) \in ExprKinds
    BY <1>3, <2>1, KindsOfKids DEF Null, IsNull
  <2>4. 1 \in 1..VisitCount(node) /\ 1 < Top.next
    BY <2>1, <2>2
  <2>5. rtype[e] = TypeOf[e] /\ TypeOf[e] \in TypeInfos
    BY <2>2, <2>3, <2>4, KidTyped
  <2>6. Conversion(type, rtype[e]).err = 0 <=> SameDepth(type, TypeOf[e])
    BY <2>1, <2>5, AssignAgrees
  <2>7. Initialised(node, type) <=> SameDepth(TypeOf[e], type)
    BY <1>3 DEF Initialised
  <2> QED
    BY <1>1, <1>3, <2>6, <2>7 DEF SameDepth
<1> QED
  BY <1>2, <1>3

\* The scope a declaration is entered in is its owner's.
LEMMA InnermostOwns ==
  ASSUME Fine, Kind(node) # "PROGRAM", Height \notin OpenAt(frames), NEW own, Owns(own, frames, scopes)
  PROVE  frames[own[Len(scopes)]].node = Owner[node]
<1>1. /\ Whole /\ CallStackOK(frames) /\ Height \in Nat /\ Height >= 2 /\ node = frames[Height].node
      /\ scopes \in Seq(ScopeSet) /\ Len(scopes) \in Nat /\ Height \in 1..Len(frames)
  BY FineFacts, BelowProgram DEF Height, Fine, Good
<1> DEFINE j == own[Len(scopes)]
<1>2. Len(scopes) \in 1..Len(scopes) /\ j \in OpenAt(frames) /\ j \in 1..Height /\ \A i \in OpenAt(frames) : i <= j
  <2>1. /\ Len(scopes) >= 1 /\ \A i \in 1..Len(scopes) : own[i] \in OpenAt(frames) /\ own[i] \in 1..Len(frames)
        /\ \A i \in OpenAt(frames) : i <= own[Len(scopes)]
    BY <1>1, OwnedFacts
  <2> QED
    BY <1>1, <2>1 DEF Height
<1> HIDE DEF j
<1>3. j < Height
  <2>1. j # Height
    BY <1>2
  <2> QED
    BY <1>1, <1>2, <2>1
<1>4. Owner[frames[Height].node] = frames[j].node
  BY <1>1, <1>2, <1>3, OwnerOfFrame
<1> QED
  BY <1>1, <1>4 DEF j

LEMMA VariableDecided ==
  ASSUME Fine, DeclareVariable
  PROVE  Decided
<1> DEFINE e == Kid(node, 1)
           type == ast[node].type
           site == Site(node, 0)
           n == Owner[node]
           M == Len(scopes)
           symbol == VarSymbol(node, type)
           conversion == IF Fresh(Name) /\ ~IsNull(e) THEN Conversion(type, rtype[e]) ELSE Silent
<1>1. /\ Kind(node) = "VAR_DECL" /\ Top.next > Len(Visits) /\ Return /\ UNCHANGED <<rtype, bind>>
      /\ scopes' = Append(Enclosing, Insert(Current, Name, symbol))
      /\ error_count' = error_count + conversion.err + (IF Fresh(Name) THEN 0 ELSE 1)
  BY DEF DeclareVariable, Leaving, Running
<1>2. Complete(frames) /\ Top.next > VisitCount(node)
  BY <1>1, LeavingIsComplete
<1>3. /\ Whole /\ CallStackOK(frames) /\ Distinct(Seen(frames)) /\ Height \in Nat /\ node \in Nodes
      /\ scopes \in Seq(ScopeSet) /\ M \in Nat /\ M >= 1 /\ frames # <<>> /\ Good /\ error_count = 0
      /\ node = frames[Len(frames)].node /\ Top = frames[Len(frames)] /\ AstTypeOK
  <2>1. Good /\ frames # <<>> /\ error_count = 0 /\ Distinct(Seen(frames))
    BY DEF Fine, MeaningOK
  <2> QED
    BY <2>1, FineFacts, ScopeSteps DEF Good, Height
<1>4. Height >= 2 /\ Height \notin OpenAt(frames) /\ Len(frames) \notin OpenAt(frames)
  <2>1. Height >= 2
    BY <1>1, BelowProgram
  <2> QED
    BY <1>1, <1>3, <2>1 DEF OpenAt, HasScope, ScopedKinds, Height
<1>5. PICK own : Owns(own, frames, scopes)
  BY DEF Fine, MeaningOK
<1>6. /\ site \in Sites /\ site.decl = node /\ SiteName(site) = Name /\ SiteScope(site) = n /\ ~IsFunction(site)
      /\ SymbolOf(site) = symbol /\ Sited(node) = {site}
  BY <1>1, <1>3, PlainSite DEF Name
<1>7. frames[own[M]].node = n /\ ScopeHolds(Current, n, Seen(frames))
  <2>1. frames[own[M]].node = n
    BY <1>1, <1>4, <1>5, InnermostOwns
  <2>2. M \in 1..M
    BY <1>3
  <2>3. ScopeHolds(scopes[M], frames[own[M]].node, Seen(frames))
    BY <1>5, <2>2 DEF Owns
  <2> QED
    BY <2>1, <2>3 DEF Current
<1>8. conversion.err \in {0, 1}
  BY ConversionIsDiag, SilentIsDiag DEF Diags
<1> HIDE DEF site, n, symbol
<1>9. CASE ~Fresh(Name)
  <2>1. error_count' # 0
    BY <1>1, <1>3, <1>8, <1>9
  <2>2. Name \in DOMAIN Current
    BY <1>9 DEF Fresh
  <2>3. PICK s \in Seen(frames) : SiteScope(s) = n /\ SiteName(s) = Name
    BY <1>7, <2>2 DEF ScopeHolds
  <2>4. s \in Sites /\ s # site /\ Compete(s, site)
    <3>1. s.decl # node
      BY <1>1, <2>3, TopUnseen
    <3> QED
      BY <1>6, <2>3, <3>1 DEF Seen, Compete
  <2> QED
    BY <1>6, <2>1, <2>4, NamesRejected DEF Decided
<1>10. CASE Fresh(Name)
  <2>1. conversion.err = 0 <=> NodeAccepted(node)
    <3>1. CASE IsNull(e)
      <4>1. conversion.err = 0
        BY <3>1 DEF Silent, Diag
      <4> QED
        BY <1>1, <1>2, <3>1, <4>1, VariableInitialised
    <3>2. CASE ~IsNull(e)
      BY <1>1, <1>2, <1>10, <3>2, VariableInitialised
    <3> QED
      BY <3>1, <3>2
  <2>2. error_count' = conversion.err
    BY <1>1, <1>3, <1>8, <1>10
  <2> HIDE DEF conversion
  <2>3. CASE error_count' # 0
    BY <1>3, <2>1, <2>2, <2>3, Rejected DEF Decided
  <2>4. CASE error_count' = 0
    <3>1. OwnRight(rtype, bind) /\ OnlyOwn(rtype, bind)
      BY <1>1, <2>1, <2>2, <2>4, StatementRight DEF ExprKinds, Literals
    <3>2. /\ Popped(frames, frames') /\ KidsDone(frames', rtype, bind) /\ EnteredOK(frames')
          /\ Seen(frames') = Seen(frames) \cup Sited(node)
      BY <1>1, <1>2, <3>1, PopMeans
    <3>3. Name \notin DOMAIN Current
      BY <1>10 DEF Fresh
    <3>4. ScopeHolds(Insert(Current, Name, symbol), n, Seen(frames) \cup {site})
      <4>1. site.decl \in Nat
        BY <1>3, <1>6, ParentFacts DEF Whole
      <4>2. ScopeHolds(Insert(Current, SiteName(site), SymbolOf(site)), n, Seen(frames) \cup {site})
        BY <1>6, <1>7, <3>3, <4>1, ScopeHoldsNew
      <4> QED
        BY <1>6, <4>2
    <3>5. /\ Len(scopes') = M /\ scopes'[M] = Insert(Current, Name, symbol)
          /\ \A j \in 1..(M - 1) : scopes'[j] = scopes[j]
      <4>1. /\ Enclosing \in Seq(ScopeSet) /\ Len(Enclosing) = M - 1
            /\ \A j \in 1..(M - 1) : Enclosing[j] = scopes[j]
        BY <1>3, ScopeSteps, PrefixFirst DEF Fine, GlobalsOK
      <4>2. Insert(Current, Name, symbol) \in ScopeSet
        <5>1. Current \in ScopeSet
          BY <1>3, ScopeSteps
        <5>2. Name \in Names /\ symbol \in Symbols
          BY <1>1, <1>3, NodeFacts, DeclaredSymbols, AstAssumption DEF Labelled, Kind, Name, symbol
        <5> QED
          BY <5>1, <5>2, ScopeFacts
      <4> QED
        BY <1>1, <1>3, <4>1, <4>2
    <3>6. Owns(own, frames', scopes')
      <4>1. \A s \in Sited(frames[Len(frames)].node) : SiteScope(s) = frames[own[M]].node
        BY <1>3, <1>6, <1>7
      <4>2. ScopeHolds(scopes'[M], frames[own[M]].node, Seen(frames) \cup Sited(frames[Len(frames)].node))
        BY <1>3, <1>6, <1>7, <3>4, <3>5
      <4>3. Len(frames) >= 2
        BY <1>4 DEF Height
      <4> QED
        BY <1>2, <1>3, <1>4, <1>5, <3>2, <3>5, <4>1, <4>2, <4>3, OwnsPop
    <3>7. Distinct(Seen(frames'))
      <4>1. \A s \in Seen(frames) : ~Compete(s, site) /\ ~Compete(site, s)
        BY <1>6, <1>7, <3>3 DEF ScopeHolds, Compete
      <4>2. Seen(frames') = Seen(frames) \cup {site}
        BY <1>6, <3>2
      <4> QED
        BY <1>3, <4>1, <4>2 DEF Distinct
    <3> QED
      BY <1>1, <2>4, <3>2, <3>6, <3>7 DEF Decided, MeaningOK
  <2> QED
    BY <2>3, <2>4
<1> QED
  BY <1>9, <1>10

-----------------------------------------------------------------------------
(* A function declaration, entered with the global scope alone. *)

Starting == Fine /\ Entering("FUNC_DECL")

LEMMA GlobalHolds ==
  ASSUME Starting
  PROVE  /\ Height = 2 /\ Len(frames) = 2 /\ Len(scopes) = 1 /\ frames[1].node = 1 /\ node = frames[2].node
         /\ Kind(node) = "FUNC_DECL" /\ Top.next = 0 /\ Top = frames[2]
         /\ scopes \in Seq(ScopeSet) /\ scopes[1] \in ScopeSet
         /\ Lookup(Name) = IF Name \in DOMAIN scopes[1] THEN scopes[1][Name] ELSE NoSymbol
         /\ \A own : Owns(own, frames, scopes) => own[1] = 1 /\ frames[own[1]].node = 1
         /\ ScopeHolds(scopes[1], 1, Seen(frames))
<1>1. /\ Good /\ frames # <<>> /\ FramesOK /\ Whole /\ CallStackOK(frames)
      /\ node = frames[Height].node /\ Top = frames[Height]
  BY FineFacts DEF Starting, Fine
<1>2. Kind(node) = "FUNC_DECL" /\ Top.next = 0
  BY DEF Starting, Entering, Running
<1>3. Height = 2 /\ Len(scopes) = 1 /\ Lookup(Name) = IF Name \in DOMAIN scopes[1] THEN scopes[1][Name] ELSE NoSymbol
  BY <1>1, GlobalAlone DEF Starting
<1>4. frames[1].node = 1 /\ Len(frames) = 2
  BY <1>1, <1>3 DEF CallStackOK, Height
<1>5. OpenAt(frames) = {1}
  BY <1>1, <1>2, <1>3, <1>4 DEF OpenAt, HasScope
<1>6. scopes \in Seq(ScopeSet) /\ scopes[1] \in ScopeSet
  <2>1. scopes \in Seq(ScopeSet)
    BY <1>1 DEF Good
  <2> QED
    BY <1>3, <2>1
<1>7. ASSUME NEW own, Owns(own, frames, scopes) PROVE own[1] = 1
  BY <1>3, <1>5, <1>7 DEF Owns
<1>8. PICK own : Owns(own, frames, scopes)
  BY DEF Starting, Fine, MeaningOK
<1>9. ScopeHolds(scopes[1], 1, Seen(frames))
  BY <1>3, <1>4, <1>7, <1>8 DEF Owns
<1> QED
  BY <1>1, <1>2, <1>3, <1>4, <1>6, <1>7, <1>9

\* The program's declarations met before a function are those before it.
LEMMA MetBefore ==
  ASSUME Starting, NEW s \in Seen(frames), IsFunction(s)
  PROVE  s.decl \in Nodes /\ s.decl <= node
<1>1. /\ Whole /\ CallStackOK(frames) /\ s \in Sites /\ Height = 2 /\ Len(frames) = 2
      /\ frames[1].node = 1 /\ node = frames[2].node /\ Top = frames[2] /\ Top.next = 0 /\ AstTypeOK /\ node \in Nodes
  BY GlobalHolds, FineFacts DEF Starting, Seen
<1>2. s.decl \in Nodes /\ Kind(s.decl) = "FUNC_DECL" /\ s.decl # 1
  BY <1>1, SiteFacts DEF IsFunction
<1>3. Path[s.decl] \ {1} = {s.decl}
  BY <1>1, <1>2, FunctionsAtTop
<1>4. CASE Entered(frames, s.decl)
  <2>1. \A i \in 1..2 : i = 1 \/ i = 2
    OBVIOUS
  <2> QED
    BY <1>1, <1>2, <1>4, <2>1 DEF Entered
<1>5. CASE Finished(frames, s.decl)
  <2>1. PICK i \in 1..Len(frames) : \E k \in 1..VisitCount(frames[i].node) :
          k < Past(frames, i) /\ Under(s.decl, VisitKid(frames[i].node, k))
    BY <1>5 DEF Finished
  <2>2. PICK k \in 1..VisitCount(frames[i].node) :
          k < Past(frames, i) /\ Under(s.decl, VisitKid(frames[i].node, k))
    BY <2>1
  <2>3. i = 1
    <3>1. i # 2
      BY <1>1, <2>2 DEF Past
    <3> QED
      BY <1>1, <2>1, <3>1
  <2>4. /\ frames[1].next \in Nat /\ frames[1].next - 1 \in 1..VisitCount(1)
        /\ node = VisitKid(1, frames[1].next - 1)
    BY <1>1, StackFacts
  <2>5. k < frames[1].next - 1 /\ k \in 1..VisitCount(1) /\ VisitKid(1, k) \in Path[s.decl]
    BY <1>1, <2>2, <2>3, <2>4 DEF Past, Under
  <2>6. VisitKid(1, k) # 1 /\ 1 \in Nodes
    <3>1. 1 \in Nodes
      BY <1>1 DEF AstTypeOK, Nodes
    <3> QED
      BY <1>1, <2>5, <3>1, VisitedParent
  <2>7. s.decl = VisitKid(1, k)
    BY <1>3, <2>5, <2>6
  <2>8. VisitKid(1, k) < VisitKid(1, frames[1].next - 1)
    BY <1>1, <2>4, <2>5, <2>6, VisitSiblings
  <2>9. s.decl \in Nat /\ node \in Nat
    BY <1>1, <1>2, ParentFacts DEF Whole
  <2> QED
    BY <1>2, <2>4, <2>7, <2>8, <2>9
<1> QED
  BY <1>2, <1>4, <1>5 DEF Seen

\* The symbol a function is declared with, if the name is not a variable's.
LEMMA FunctionSymbol ==
  ASSUME Starting, Lookup(Name).kind # "VAR"
  PROVE  (IF Lookup(Name) = NoSymbol THEN FuncSymbol(node) ELSE Lookup(Name)) = FuncSymbol(FirstDeclaration(node))
<1>1. /\ Fine /\ Whole /\ AstTypeOK /\ TreeOK /\ phase = "sema" /\ node \in Nodes /\ Kind(node) = "FUNC_DECL"
      /\ Good /\ frames # <<>> /\ FramesOK /\ GlobalsOK /\ Height = 2 /\ scopes[1] \in ScopeSet
      /\ Lookup(Name) = IF Name \in DOMAIN scopes[1] THEN scopes[1][Name] ELSE NoSymbol
  BY GlobalHolds, FineFacts DEF Starting, Fine
<1>2. CASE Name \in DOMAIN scopes[1]
  <2>1. Lookup(Name) \in Symbols
    BY <1>1, <1>2, ScopeFacts
  <2>2. Lookup(Name).kind = "FUNC" /\ Lookup(Name) # NoSymbol
    BY <2>1 DEF Symbols, NoSymbol, Symbol, Starting
  <2>3. Lookup(Name) = FuncSymbol(FirstDeclaration(node))
    BY <1>1, <1>2, <2>2, GlobalFunction DEF Name
  <2> QED
    BY <2>2, <2>3
<1>3. CASE Name \notin DOMAIN scopes[1]
  <2>1. /\ frames[1].next \in Nat /\ frames[1].next - 1 \in 1..Arity(1)
        /\ frames[2].node = Kid(1, frames[1].next - 1)
    BY <1>1, SecondFacts
  <2> DEFINE here == frames[1].next - 1
  <2>2. Done = here /\ here \in 1..Arity(1) /\ node = Kid(1, here)
    BY <1>1, <2>1, GlobalHolds DEF Done
  <2> HIDE DEF here
  <2>3. NamedUpTo(scopes[1], here)
    BY <1>1, <2>2 DEF GlobalsOK
  <2>4. IsFirst(FuncSymbol(Kid(1, here)), ast[Kid(1, here)].name)
    BY <1>1, <1>3, <2>2, <2>3, FirstDeclared DEF Name
  <2>5. IsFirst(FuncSymbol(node), ast[node].name)
    BY <2>2, <2>4
  <2>6. FirstDeclaration(node) = FuncSymbol(node).decl
    BY <1>1, <2>5, FirstIsFirst
  <2> QED
    BY <1>1, <1>3, <2>6 DEF FuncSymbol, Symbol
<1> QED
  BY <1>2, <1>3

\* The declarations of a name compared: no error exactly if the function is accepted.
LEMMA RedeclarationAccepted ==
  ASSUME Starting, NEW symbol, symbol = FuncSymbol(FirstDeclaration(node))
  PROVE  Redeclaration(symbol) \in Nat /\ (Redeclaration(symbol) = 0 <=> NodeAccepted(node))
<1>1. Kind(node) = "FUNC_DECL" /\ AstTypeOK /\ node \in Nodes
  BY GlobalHolds, FineFacts DEF Starting
<1> DEFINE g == FirstDeclaration(node)
<1>2. symbol.type = ast[g].type /\ symbol.params = [i \in DOMAIN ast[g].params |-> ast[g].params[i].type]
  BY DEF FuncSymbol, Symbol
<1>3. g \in Nodes
  <2>1. node \in DeclarationsOf(ast[node].name) /\ DeclarationsOf(ast[node].name) \subseteq Nodes
    BY <1>1 DEF DeclarationsOf
  <2>2. \A h \in DeclarationsOf(ast[node].name) : h \in Nat
    BY <1>1, <2>1 DEF Nodes, AstTypeOK
  <2>3. \E e \in DeclarationsOf(ast[node].name) : \A h \in DeclarationsOf(ast[node].name) : e <= h
    <3>1. Nodes = 1..Len(ast) /\ Len(ast) \in Nat
      BY <1>1 DEF Nodes, AstTypeOK
    <3> DEFINE D == DeclarationsOf(ast[node].name)
    <3>2. D \in SUBSET (1..Len(ast)) /\ D # {}
      BY <2>1, <3>1
    <3> HIDE DEF D
    <3>3. \E e \in D : \A h \in D : e <= h
      BY <3>1, <3>2, Extremes
    <3> QED
      BY <3>3 DEF D
  <2>4. g \in DeclarationsOf(ast[node].name)
    BY <2>3 DEF FirstDeclaration
  <2> QED
    BY <2>1, <2>4
<1>4. Len(symbol.params) = Len(ast[g].params)
  <2>1. ast[g].params \in Seq(Parameters)
    BY <1>1, <1>3, NodeFacts
  <2> HIDE DEF g
  <2> QED
    BY <1>2, <2>1
<1> HIDE DEF g
<1>5. NodeAccepted(node) <=> symbol.type = ast[node].type /\ Len(symbol.params) = Len(Params)
  BY <1>1, <1>2, <1>4 DEF NodeAccepted, ExprKinds, Literals, Params, g
<1> QED
  BY <1>5 DEF Redeclaration

\* The site of the function itself, and those of its parameters.
ParamSites(n) == {s \in Sited(n) : IsParam(s)}

LEMMA FunctionSites ==
  ASSUME Whole, NEW n \in Nodes, Kind(n) = "FUNC_DECL"
  PROVE  /\ Sited(n) = {Site(n, 0)} \cup ParamSites(n) /\ n # 1
         /\ Site(n, 0) \in Sites /\ Site(n, 0).decl = n /\ SiteName(Site(n, 0)) = ast[n].name
         /\ SiteScope(Site(n, 0)) = 1 /\ IsFunction(Site(n, 0))
         /\ \A s \in ParamSites(n) : /\ s.decl = n /\ SiteScope(s) = n /\ ~IsFunction(s) /\ s \in Sites
                                     /\ s.param \in DOMAIN ast[n].params /\ s = Site(n, s.param)
                                     /\ SiteName(s) = ast[n].params[s.param].name
         /\ IF IsNull(Kid(n, 1)) THEN ParamSites(n) = {}
            ELSE \A i \in DOMAIN ast[n].params : Site(n, i) \in ParamSites(n)
<1>1. AstTypeOK /\ Owner[n] = 1 /\ n # 1
  BY FunctionsAtTop DEF Whole
<1>2. /\ Site(n, 0) \in Sites /\ Site(n, 0).decl = n /\ SiteName(Site(n, 0)) = ast[n].name
      /\ SiteScope(Site(n, 0)) = 1 /\ IsFunction(Site(n, 0))
  BY <1>1, PlainSite
<1>3. ASSUME NEW s \in Sited(n) PROVE s = Site(n, s.param) /\ s \in Sites /\ s.decl = n
  BY <1>3, SiteFacts DEF Sited
<1>4. Site(n, 0) \in Sited(n)
  BY <1>2 DEF Sited
<1>5. Sited(n) = {Site(n, 0)} \cup ParamSites(n)
  BY <1>3, <1>4 DEF ParamSites, IsParam
<1>6. ASSUME NEW s \in ParamSites(n)
      PROVE  /\ s.decl = n /\ SiteScope(s) = n /\ ~IsFunction(s) /\ s \in Sites
             /\ s.param \in DOMAIN ast[n].params /\ s = Site(n, s.param)
             /\ SiteName(s) = ast[n].params[s.param].name /\ ~IsNull(Kid(n, 1))
  <2>1. IsParam(s) /\ s \in Sited(n)
    BY <1>6 DEF ParamSites
  <2>2. s = Site(n, s.param) /\ s \in Sites /\ s.decl = n
    BY <1>3, <2>1
  <2>3. s.param \in DOMAIN ast[n].params /\ ~IsNull(Kid(n, 1))
    BY <2>1, <2>2, SiteFacts
  <2> QED
    BY <2>1, <2>2, <2>3 DEF SiteScope, IsFunction, SiteName
<1>7. ASSUME ~IsNull(Kid(n, 1)), NEW i \in DOMAIN ast[n].params PROVE Site(n, i) \in ParamSites(n)
  <2>1. Site(n, i) \in Sites
    BY <1>7 DEF Sites
  <2>2. i # 0
    <3>1. ast[n].params \in Seq(Parameters)
      BY <1>1, NodeFacts
    <3> QED
      BY <1>7, <3>1
  <2>3. Site(n, i).decl = n /\ Site(n, i).param = i
    BY DEF Site
  <2> QED
    BY <2>1, <2>2, <2>3 DEF ParamSites, Sited, IsParam
<1> QED
  BY <1>1, <1>2, <1>5, <1>6, <1>7

\* A function named as a variable is rejected.
LEMMA NamedAsVariable ==
  ASSUME Starting, Lookup(Name).kind = "VAR"
  PROVE  ~Accepted
<1>1. /\ Whole /\ node \in Nodes /\ Kind(node) = "FUNC_DECL" /\ ScopeHolds(scopes[1], 1, Seen(frames))
      /\ Lookup(Name) = IF Name \in DOMAIN scopes[1] THEN scopes[1][Name] ELSE NoSymbol
  BY GlobalHolds, FineFacts DEF Starting
<1>2. Name \in DOMAIN scopes[1] /\ scopes[1][Name].kind = "VAR"
  BY <1>1 DEF NoSymbol, Symbol
<1>3. PICK s \in Seen(frames) : SiteScope(s) = 1 /\ SiteName(s) = Name /\ scopes[1][Name] = SymbolOf(s)
  BY <1>1, <1>2 DEF ScopeHolds
<1>4. ~IsFunction(s)
  BY <1>2, <1>3 DEF SymbolOf, FuncSymbol, Symbol
<1>5. s \in Sites /\ Compete(s, Site(node, 0)) /\ Site(node, 0) \in Sites /\ IsFunction(Site(node, 0))
  BY <1>1, <1>3, FunctionSites DEF Compete, Seen, Name
<1> QED
  BY <1>4, <1>5, NamesRejected

LEMMA FunctionMet ==
  ASSUME Starting, Lookup(Name).kind # "VAR", NEW symbol, symbol = FuncSymbol(FirstDeclaration(node)),
         symbol = (IF Lookup(Name) = NoSymbol THEN FuncSymbol(node) ELSE Lookup(Name))
  PROVE  /\ ScopeHolds(Insert(scopes[1], Name, symbol), 1, Seen(frames) \cup {Site(node, 0)})
         /\ \A s \in Seen(frames) : Compete(s, Site(node, 0)) => IsFunction(s)
<1> DEFINE site == Site(node, 0)
<1>1. /\ Whole /\ node \in Nodes /\ Kind(node) = "FUNC_DECL" /\ ScopeHolds(scopes[1], 1, Seen(frames))
      /\ Lookup(Name) = IF Name \in DOMAIN scopes[1] THEN scopes[1][Name] ELSE NoSymbol
      /\ Distinct(Seen(frames)) /\ scopes[1] \in ScopeSet
  BY GlobalHolds, FineFacts DEF Starting, Fine, MeaningOK
<1>2. site \in Sites /\ site.decl = node /\ SiteName(site) = Name /\ SiteScope(site) = 1 /\ IsFunction(site)
  BY <1>1, FunctionSites DEF Name
<1>3. SymbolOf(site) = FuncSymbol(node)
  BY <1>2 DEF SymbolOf
<1> HIDE DEF site
<1>4. CASE Name \notin DOMAIN scopes[1]
  <2>1. symbol = SymbolOf(site)
    BY <1>1, <1>3, <1>4
  <2>2. site.decl \in Nat
    BY <1>1, <1>2, ParentFacts DEF Whole
  <2>3. ScopeHolds(Insert(scopes[1], SiteName(site), SymbolOf(site)), 1, Seen(frames) \cup {site})
    BY <1>1, <1>2, <1>4, <2>2, ScopeHoldsNew
  <2>4. \A s \in Seen(frames) : ~Compete(s, site)
    BY <1>1, <1>2, <1>4 DEF ScopeHolds, Compete
  <2> QED
    BY <1>2, <2>1, <2>3, <2>4 DEF site
<1>5. CASE Name \in DOMAIN scopes[1]
  <2>1. PICK s1 \in Seen(frames) : SiteScope(s1) = 1 /\ SiteName(s1) = Name /\ scopes[1][Name] = SymbolOf(s1)
    BY <1>1, <1>5 DEF ScopeHolds
  <2>2. IsFunction(s1)
    BY <1>1, <1>5, <2>1 DEF SymbolOf, VarSymbol, Symbol
  <2>3. \A s \in Seen(frames) : Compete(s, site) => IsFunction(s)
    BY <1>1, <1>2, <2>1, <2>2 DEF Compete, Distinct
  <2>4. \A s \in Seen(frames) : Compete(s, site) => s.decl <= site.decl
    BY <1>2, <2>3, MetBefore
  <2>5. ScopeHolds(Insert(scopes[1], SiteName(site), symbol), 1, Seen(frames) \cup {site})
    BY <1>1, <1>2, <1>5, <2>4, ScopeHoldsAgain
  <2> QED
    BY <1>2, <2>3, <2>5 DEF site
<1> QED
  BY <1>4, <1>5

LEMMA ParamsCompared ==
  ASSUME Starting
  PROVE  /\ Len(Params) \in Nat /\ Cardinality(ParamNames) \in Nat /\ Len(Params) - Cardinality(ParamNames) \in Nat
         /\ DOMAIN Params = 1..Len(Params)
         /\ Len(Params) - Cardinality(ParamNames) = 0 <=>
              \A i, j \in DOMAIN Params : Params[i].name = Params[j].name => i = j
<1>1. AstTypeOK /\ node \in Nodes
  BY FineFacts DEF Starting
<1>2. Len(Params) \in Nat /\ Cardinality(ParamNames) \in Nat /\ Len(Params) - Cardinality(ParamNames) \in Nat
  BY <1>1, ParamFacts
<1>3. Params \in Seq(Parameters)
  BY <1>1, NodeFacts DEF Params
<1>4. DOMAIN Params = 1..Len(Params)
  BY <1>3
<1> DEFINE S == 1..Len(Params)
           f == [i \in S |-> Params[i].name]
<1>5. f \in Surjection(S, ParamNames)
  BY <1>4 DEF Surjection, ParamNames
<1>6. IsFiniteSet(S) /\ Cardinality(S) = Len(Params)
  <2>1. \A n \in Nat : IsFiniteSet(1..n) /\ Cardinality(1..n) = n
    <3> TAKE n \in Nat
    <3>1. IsFiniteSet(1..n) /\ Cardinality(1..n) = IF 1 > n THEN 0 ELSE n - 1 + 1
      BY FS_Interval
    <3> QED
      BY <3>1
  <2> QED
    BY <1>2, <2>1
<1>7. Cardinality(ParamNames) = Cardinality(S) <=> f \in Injection(S, ParamNames)
  <2> HIDE DEF f, S
  <2> QED
    BY <1>5, <1>6, FS_Surjection
<1>8. f \in Injection(S, ParamNames) <=> \A i, j \in S : Params[i].name = Params[j].name => i = j
  <2>1. f \in [S -> ParamNames] /\ \A i \in S : f[i] = Params[i].name
    BY <1>4 DEF ParamNames
  <2> HIDE DEF f, S
  <2>2. f \in Injection(S, ParamNames) <=> \A i, j \in S : f[i] = f[j] => i = j
    BY <2>1 DEF Injection, IsInjective
  <2> QED
    BY <2>1, <2>2
<1> HIDE DEF f
<1> QED
  BY <1>2, <1>4, <1>6, <1>7, <1>8

LEMMA ParamScopeHolds ==
  ASSUME Starting, ~IsNull(Kid(node, 1))
  PROVE  ScopeHolds(ParamScope, node, Seen(frames) \cup Sited(node))
<1> DEFINE seen == Seen(frames) \cup Sited(node)
<1>1. /\ Whole /\ CallStackOK(frames) /\ node \in Nodes /\ Kind(node) = "FUNC_DECL" /\ Len(frames) = 2
      /\ frames[Len(frames)].next = 0 /\ node = frames[Len(frames)].node
  BY GlobalHolds, FineFacts DEF Starting
<1>2. \A s \in Seen(frames) : SiteScope(s) # node
  BY <1>1, NothingInside
<1>3. \A s \in seen : SiteScope(s) = node => s \in ParamSites(node)
  BY <1>1, <1>2, FunctionSites
<1>4. ASSUME NEW s \in seen, SiteScope(s) = node PROVE SiteName(s) \in ParamNames
  <2>1. s.param \in DOMAIN Params /\ SiteName(s) = Params[s.param].name
    BY <1>1, <1>3, <1>4, FunctionSites DEF Params
  <2> QED
    BY <2>1 DEF ParamNames
<1>5. ASSUME NEW x \in ParamNames
      PROVE  \E s \in seen : /\ SiteScope(s) = node /\ SiteName(s) = x /\ ParamScope[x] = SymbolOf(s)
                             /\ \A t \in seen : Compete(s, t) => s.decl <= t.decl
  <2> DEFINE i == FirstParam(x)
             s == Site(node, i)
  <2>1. i \in DOMAIN Params /\ Params[i].name = x
    <3>1. /\ DOMAIN Params = 1..Len(Params) /\ Len(Params) \in Nat
      BY ParamsCompared
    <3> DEFINE S == {k \in 1..Len(Params) : Params[k].name = x}
    <3>2. S \in SUBSET (1..Len(Params)) /\ S # {}
      BY <1>5, <3>1 DEF ParamNames
    <3>3. PICK k \in S : \A l \in S : k <= l
      BY <3>1, <3>2, Extremes
    <3>4. \A j \in 1..(k - 1) : j \in 1..Len(Params) /\ ~(k <= j)
      BY <3>1, <3>3
    <3>5. \E k1 \in DOMAIN Params : Params[k1].name = x /\ \A j \in 1..(k1 - 1) : Params[j].name # x
      BY <3>1, <3>3, <3>4
    <3> QED
      BY <3>5 DEF FirstParam
  <2>2. s \in ParamSites(node) /\ s.param = i
    <3>1. s \in ParamSites(node)
      BY <1>1, <2>1, FunctionSites, Zenon DEF Starting, Params
    <3> QED
      BY <3>1 DEF Site
  <2>3. s \in seen /\ s.decl = node /\ SiteScope(s) = node /\ ~IsFunction(s) /\ SiteName(s) = x
    BY <1>1, <2>1, <2>2, FunctionSites DEF Params
  <2>4. SymbolOf(s) = VarSymbol(node, Params[i].type)
    <3>1. IsParam(s)
      BY <2>2 DEF ParamSites
    <3> QED
      BY <2>2, <2>3, <3>1 DEF SymbolOf, SiteType, Params
  <2>5. ParamScope[x] = SymbolOf(s)
    BY <1>5, <2>4 DEF ParamScope
  <2> HIDE DEF s, i
  <2>6. ASSUME NEW t \in seen, Compete(s, t) PROVE s.decl <= t.decl
    <3>1. SiteScope(t) = node
      BY <2>3, <2>6 DEF Compete
    <3>2. t.decl = node
      BY <1>1, <1>3, <3>1, FunctionSites
    <3>3. node \in Nat
      BY <1>1, ParentFacts DEF Whole
    <3> QED
      BY <2>3, <3>2, <3>3
  <2> QED
    BY <2>3, <2>5, <2>6
<1>6. DOMAIN ParamScope = ParamNames
  BY DEF ParamScope
<1> HIDE DEF seen
<1>7. ScopeHolds(ParamScope, node, seen)
  BY <1>4, <1>5, <1>6 DEF ScopeHolds
<1> QED
  BY <1>7 DEF seen

\* What a function declares is distinct from all met before exactly if its parameters are distinct.
LEMMA FunctionDistinct ==
  ASSUME Starting, Lookup(Name).kind # "VAR",
         \A s \in Seen(frames) : Compete(s, Site(node, 0)) => IsFunction(s)
  PROVE  IF IsNull(Kid(node, 1)) \/ \A i, j \in DOMAIN Params : Params[i].name = Params[j].name => i = j
         THEN Distinct(Seen(frames) \cup Sited(node)) ELSE ~Accepted
<1> DEFINE site == Site(node, 0)
           injective == \A i, j \in DOMAIN Params : Params[i].name = Params[j].name => i = j
<1>1. /\ Whole /\ CallStackOK(frames) /\ node \in Nodes /\ Kind(node) = "FUNC_DECL" /\ Len(frames) = 2
      /\ frames[Len(frames)].next = 0 /\ node = frames[Len(frames)].node /\ Distinct(Seen(frames))
  BY GlobalHolds, FineFacts DEF Starting, Fine, MeaningOK
<1>2. \A s \in Seen(frames) : SiteScope(s) # node
  BY <1>1, NothingInside
<1>3. /\ Sited(node) = {site} \cup ParamSites(node) /\ SiteScope(site) = 1 /\ IsFunction(site) /\ node # 1
      /\ \A s \in ParamSites(node) : /\ SiteScope(s) = node /\ ~IsFunction(s) /\ s \in Sites
                                     /\ s.param \in DOMAIN Params /\ s = Site(node, s.param)
                                     /\ SiteName(s) = Params[s.param].name
      /\ IF IsNull(Kid(node, 1)) THEN ParamSites(node) = {}
         ELSE \A i \in DOMAIN Params : Site(node, i) \in ParamSites(node)
  BY <1>1, FunctionSites DEF Params
<1>4. \A s \in Seen(frames) : (Compete(s, site) => IsFunction(s)) /\ (Compete(site, s) => IsFunction(s))
  BY DEF Compete
<1> HIDE DEF site
<1>5. CASE IsNull(Kid(node, 1)) \/ injective
  <2>1. \A s, t \in ParamSites(node) : Compete(s, t) => s = t
    BY <1>3, <1>5 DEF Compete
  <2>2. \A s \in ParamSites(node), t \in Seen(frames) \cup {site} : ~Compete(s, t) /\ ~Compete(t, s)
    BY <1>2, <1>3 DEF Compete
  <2> HIDE DEF injective
  <2>3. Distinct(Seen(frames) \cup Sited(node))
    BY <1>1, <1>3, <1>4, <2>1, <2>2 DEF Distinct
  <2> QED
    BY <1>5, <2>3 DEF injective
<1>6. CASE ~(IsNull(Kid(node, 1)) \/ injective)
  <2>1. PICK i \in DOMAIN Params, j \in DOMAIN Params : Params[i].name = Params[j].name /\ i # j
    BY <1>6
  <2> DEFINE s == Site(node, i)
             t == Site(node, j)
  <2>2. s \in ParamSites(node) /\ t \in ParamSites(node) /\ s.param = i /\ t.param = j
    BY <1>3, <1>6, <2>1 DEF Site
  <2> HIDE DEF s, t
  <2>3. s \in Sites /\ t \in Sites /\ Compete(s, t) /\ s # t /\ ~IsFunction(s)
    BY <1>3, <2>1, <2>2 DEF Compete
  <2>4. ~Accepted
    BY <2>3, NamesRejected
  <2> QED
    BY <1>6, <2>4
<1> QED
  BY <1>5, <1>6

LEMMA PrototypeMet ==
  ASSUME Starting, Lookup(Name).kind # "VAR", IsNull(Kid(node, 1)), Return, UNCHANGED <<rtype, bind>>,
         NEW symbol, scopes' = [scopes EXCEPT ![1] = Insert(@, Name, symbol)], NodeAccepted(node),
         ScopeHolds(Insert(scopes[1], Name, symbol), 1, Seen(frames) \cup {Site(node, 0)}),
         \A s \in Seen(frames) : Compete(s, Site(node, 0)) => IsFunction(s)
  PROVE  MeaningOK(frames', scopes', rtype', bind')
<1>1. /\ Fine /\ Whole /\ CallStackOK(frames) /\ node \in Nodes /\ Kind(node) = "FUNC_DECL" /\ Len(frames) = 2
      /\ frames[Len(frames)].next = 0 /\ node = frames[Len(frames)].node /\ Len(scopes) = 1
      /\ scopes \in Seq(ScopeSet) /\ \A own : Owns(own, frames, scopes) => frames[own[1]].node = 1
  BY GlobalHolds, FineFacts DEF Starting
<1>2. Complete(frames)
  BY <1>1 DEF Complete
<1>3. OwnRight(rtype, bind) /\ OnlyOwn(rtype, bind)
  <2>1. Kind(node) \notin ExprKinds
    BY <1>1 DEF ExprKinds, Literals
  <2> QED
    BY <2>1, StatementRight
<1>4. Popped(frames, frames') /\ Seen(frames') = Seen(frames) \cup Sited(node)
      /\ KidsDone(frames', rtype, bind) /\ EnteredOK(frames')
  <2>1. Kind(node) # "PROGRAM"
    BY <1>1
  <2> QED
    BY <1>1, <1>2, <1>3, <2>1, PopMeans
<1>5. Distinct(Seen(frames'))
  BY <1>4, FunctionDistinct
<1>6. Sited(node) = {Site(node, 0)} /\ SiteScope(Site(node, 0)) = 1
  BY <1>1, FunctionSites
<1>7. PICK own : Owns(own, frames, scopes)
  BY <1>1 DEF Fine, MeaningOK
<1>8. Len(scopes') = 1 /\ scopes'[1] = Insert(scopes[1], Name, symbol)
  BY <1>1
<1>9. Owns(own, frames', scopes')
  <2>1. Len(frames) \notin OpenAt(frames)
    BY <1>1 DEF OpenAt, HasScope
  <2>2. \A s \in Sited(frames[Len(frames)].node) : SiteScope(s) = frames[own[Len(scopes)]].node
    BY <1>1, <1>6, <1>7
  <2>3. ScopeHolds(scopes'[Len(scopes)], frames[own[Len(scopes)]].node,
                   Seen(frames) \cup Sited(frames[Len(frames)].node))
    BY <1>1, <1>6, <1>7, <1>8
  <2>4. /\ Len(scopes') = Len(scopes) /\ Len(scopes) \in Nat /\ Len(frames) >= 2
        /\ \A j \in 1..(Len(scopes) - 1) : scopes'[j] = scopes[j]
    BY <1>1, <1>8
  <2> QED
    <3>1. Whole /\ CallStackOK(frames) /\ Popped(frames, frames')
      BY <1>1, <1>4
    <3> QED
      BY <1>2, <1>7, <2>1, <2>2, <2>3, <2>4, <3>1, OwnsPop
<1> QED
  BY <1>4, <1>5, <1>9 DEF MeaningOK

LEMMA BodyMet ==
  ASSUME Starting, Lookup(Name).kind # "VAR", ~IsNull(Kid(node, 1)), UNCHANGED <<rtype, bind>>,
         frames' = [frames EXCEPT ![Len(frames)].next = 1], NEW symbol,
         scopes' = Append([scopes EXCEPT ![1] = Insert(@, Name, symbol)], ParamScope), NodeAccepted(node),
         ScopeHolds(Insert(scopes[1], Name, symbol), 1, Seen(frames) \cup {Site(node, 0)}),
         \A s \in Seen(frames) : Compete(s, Site(node, 0)) => IsFunction(s),
         \A i, j \in DOMAIN Params : Params[i].name = Params[j].name => i = j
  PROVE  MeaningOK(frames', scopes', rtype', bind')
<1>1. /\ Fine /\ Whole /\ CallStackOK(frames) /\ node \in Nodes /\ Kind(node) = "FUNC_DECL" /\ Len(frames) = 2
      /\ Top.next = 0 /\ node = frames[Len(frames)].node /\ Len(scopes) = 1 /\ Len(scopes) \in Nat
      /\ scopes \in Seq(ScopeSet) /\ \A own : Owns(own, frames, scopes) => frames[own[1]].node = 1
  <2>1. /\ Fine /\ Whole /\ CallStackOK(frames) /\ node \in Nodes /\ Kind(node) = "FUNC_DECL" /\ Len(frames) = 2
        /\ Top.next = 0 /\ node = frames[2].node /\ Len(scopes) = 1
        /\ scopes \in Seq(ScopeSet) /\ \A own : Owns(own, frames, scopes) => frames[own[1]].node = 1
    BY GlobalHolds, FineFacts DEF Starting
  <2> QED
    BY <2>1
<1>2. KidsDone(frames, rtype, bind) /\ EnteredOK(frames)
  BY <1>1 DEF Fine, MeaningOK
<1>3. Opened(frames, frames')
  BY <1>1, OpenedFrames
<1>4. KidsDone(frames', rtype, bind) /\ EnteredOK(frames')
  BY <1>1, <1>2, <1>3, KidsDoneOpen, EnteredSteps
<1>5. Seen(frames') = Seen(frames) \cup Sited(node)
  <2>1. Seen(frames') = Seen(frames) \cup IF Kind(frames[Len(frames)].node) = "FUNC_DECL"
                                          THEN Sited(frames[Len(frames)].node) ELSE {}
    BY <1>1, <1>3, SeenOpen
  <2> QED
    BY <1>1, <2>1
<1>6. Distinct(Seen(frames'))
  BY <1>5, FunctionDistinct
<1>7. PICK own : Owns(own, frames, scopes)
  BY <1>1 DEF Fine, MeaningOK
<1> DEFINE global == [scopes EXCEPT ![1] = Insert(@, Name, symbol)]
<1>8. Len(scopes') = 2 /\ scopes'[1] = Insert(scopes[1], Name, symbol) /\ scopes'[2] = ParamScope
  <2>1. Len(global) = 1 /\ global[1] = Insert(scopes[1], Name, symbol) /\ scopes' = Append(global, ParamScope)
    BY <1>1
  <2>2. global \in Seq({Insert(scopes[1], Name, symbol)})
    <3> DEFINE new == Insert(scopes[1], Name, symbol)
    <3>1. DOMAIN scopes = 1..1
      BY <1>1
    <3>2. global = [scopes EXCEPT ![1] = new]
      OBVIOUS
    <3> HIDE DEF new, global
    <3>3. DOMAIN global = 1..1 /\ \A j \in 1..1 : global[j] = new
      BY <3>1, <3>2
    <3>4. global = [j \in 1..1 |-> global[j]]
      BY <3>1, <3>2
    <3>5. global \in [1..1 -> {new}]
      BY <3>3, <3>4
    <3>6. \A n \in Nat : \A f \in [1..n -> {new}] : f \in Seq({new})
      OBVIOUS
    <3>7. global \in Seq({new})
      BY <3>5, <3>6
    <3> QED
      BY <3>7 DEF new
  <2> HIDE DEF global
  <2> QED
    BY <2>1, <2>2, AppendProperties
<1>9. ScopeHolds(scopes'[1], 1, Seen(frames'))
  <2>1. \A s \in ParamSites(node) : SiteScope(s) # 1
    BY <1>1, FunctionSites
  <2>2. ScopeHolds(scopes'[1], 1, (Seen(frames) \cup {Site(node, 0)}) \cup ParamSites(node))
    BY <1>8, <2>1, ScopeHoldsMore
  <2>3. Seen(frames') = (Seen(frames) \cup {Site(node, 0)}) \cup ParamSites(node)
    BY <1>1, <1>5, FunctionSites
  <2> QED
    BY <2>2, <2>3
<1>10. ScopeHolds(scopes'[2], node, Seen(frames'))
  BY <1>5, <1>8, ParamScopeHolds
<1>11. \E pwn : Owns(pwn, frames', scopes')
  <2>1. Kind(frames[Len(frames)].node) \in ScopedKinds
    BY <1>1 DEF ScopedKinds
  <2>2. \A j \in 1..Len(scopes) : ScopeHolds(scopes'[j], frames[own[j]].node, Seen(frames'))
    <3>1. \A j \in 1..Len(scopes) : j = 1
      BY <1>1
    <3> QED
      BY <1>1, <1>7, <1>9, <3>1
  <2>3. ScopeHolds(scopes'[Len(scopes) + 1], frames[Len(frames)].node, Seen(frames'))
    BY <1>1, <1>10
  <2>4. Len(scopes') = Len(scopes) + 1
    BY <1>1, <1>8
  <2> QED
    BY <1>1, <1>3, <1>7, <2>1, <2>2, <2>3, <2>4, OwnsOpen
<1> QED
  BY <1>4, <1>6, <1>11 DEF MeaningOK

LEMMA FunctionDecided ==
  ASSUME Fine, EnterFunction
  PROVE  Decided
<1> DEFINE existing == Lookup(Name)
           symbol == IF existing = NoSymbol THEN FuncSymbol(node) ELSE existing
           global == [scopes EXCEPT ![1] = Insert(@, Name, symbol)]
           injective == \A i, j \in DOMAIN Params : Params[i].name = Params[j].name => i = j
<1>1. Starting /\ error_count = 0 /\ UNCHANGED <<rtype, bind>>
  BY DEF Starting, EnterFunction, Fine
<1>2. CASE existing.kind = "VAR"
  <2>1. error_count' = 1
    BY <1>1, <1>2 DEF EnterFunction
  <2> QED
    BY <1>1, <1>2, <2>1, NamedAsVariable DEF Decided
<1>3. CASE existing.kind # "VAR"
  <2>1. symbol = FuncSymbol(FirstDeclaration(node))
    BY <1>1, <1>3, FunctionSymbol
  <2>2. Redeclaration(symbol) \in Nat /\ (Redeclaration(symbol) = 0 <=> NodeAccepted(node))
    <3> HIDE DEF symbol
    <3> QED
      BY <1>1, <2>1, RedeclarationAccepted
  <2>3. /\ ScopeHolds(Insert(scopes[1], Name, symbol), 1, Seen(frames) \cup {Site(node, 0)})
        /\ \A s \in Seen(frames) : Compete(s, Site(node, 0)) => IsFunction(s)
    <3>1. symbol = IF Lookup(Name) = NoSymbol THEN FuncSymbol(node) ELSE Lookup(Name)
      OBVIOUS
    <3> HIDE DEF symbol
    <3> QED
      BY <1>1, <1>3, <2>1, <3>1, FunctionMet
  <2>4. CASE IsNull(Kid(node, 1))
    <3>1. Return /\ scopes' = global /\ error_count' = error_count + Redeclaration(symbol)
      BY <1>3, <2>4 DEF EnterFunction
    <3> HIDE DEF symbol
    <3>2. CASE ~NodeAccepted(node)
      BY <1>1, <2>2, <3>1, <3>2, Rejected, FineFacts DEF Decided
    <3>3. CASE NodeAccepted(node)
      <4>1. MeaningOK(frames', scopes', rtype', bind')
        BY <1>1, <1>3, <2>3, <2>4, <3>1, <3>3, PrototypeMet
      <4> QED
        BY <1>1, <2>2, <3>1, <3>3, <4>1 DEF Decided
    <3> QED
      BY <3>2, <3>3
  <2>5. CASE ~IsNull(Kid(node, 1))
    <3>1. /\ scopes' = Append(global, ParamScope) /\ frames' = [frames EXCEPT ![Len(frames)].next = 1]
          /\ error_count' = error_count + Redeclaration(symbol) + Len(Params) - Cardinality(ParamNames)
      BY <1>3, <2>5 DEF EnterFunction
    <3>2. /\ Len(Params) \in Nat /\ Cardinality(ParamNames) \in Nat
          /\ Len(Params) - Cardinality(ParamNames) \in Nat
          /\ (Len(Params) - Cardinality(ParamNames) = 0 <=> injective)
      BY <1>1, ParamsCompared
    <3> HIDE DEF symbol, injective
    <3>3. error_count' = 0 <=> NodeAccepted(node) /\ injective
      BY <1>1, <2>2, <3>1, <3>2
    <3>4. CASE ~NodeAccepted(node)
      BY <1>1, <3>3, <3>4, Rejected, FineFacts DEF Decided
    <3>5. CASE ~injective
      <4>1. ~Accepted
        BY <1>1, <1>3, <2>3, <2>5, <3>5, FunctionDistinct DEF injective
      <4> QED
        BY <3>3, <3>5, <4>1 DEF Decided
    <3>6. CASE NodeAccepted(node) /\ injective
      <4>1. MeaningOK(frames', scopes', rtype', bind')
        BY <1>1, <1>3, <2>3, <2>5, <3>1, <3>6, BodyMet DEF injective
      <4> QED
        BY <3>3, <3>6, <4>1 DEF Decided
    <3> QED
      BY <3>4, <3>5, <3>6
  <2> QED
    BY <2>4, <2>5
<1> QED
  BY <1>2, <1>3

-----------------------------------------------------------------------------
(* The end of the analysis, and its start. *)

AllRight(types, binds) == \A n \in Nodes : NodeRight(n, types, binds)

LEMMA UnderProgram ==
  ASSUME AstTypeOK, TreeOK
  PROVE  1 \in Nodes /\ \A n \in Nodes : Under(n, 1)
<1> DEFINE Bad == {n \in Nodes : ~Under(n, 1)}
<1>1. Nodes = 1..Len(ast) /\ Len(ast) \in Nat
  BY ParentFacts
<1>2. 1 \in Nodes
  BY DEF AstTypeOK, Nodes
<1>3. SUFFICES ASSUME Bad # {} PROVE FALSE
  BY <1>2
<1>4. PICK n \in Bad : \A k \in Bad : n <= k
  BY <1>1, <1>3, Extremes
<1>5. n \in Nodes /\ n \in Nat /\ ~Under(n, 1)
  BY <1>1, <1>4
<1>6. n # 1 /\ ~Under(Parent(n), 1)
  BY <1>5, UnderParent
<1>7. Parent(n) \in Nodes /\ Parent(n) < n
  BY <1>5, <1>6, ParentFacts
<1> QED
  BY <1>1, <1>4, <1>5, <1>6, <1>7

LEMMA EndDecided ==
  ASSUME Fine, SemaEnd
  PROVE  Accepted /\ AllRight(rtype, bind)
<1>1. Kind(node) = "PROGRAM" /\ Top.next > Len(Visits)
  BY DEF SemaEnd, Leaving, Running
<1>2. /\ Whole /\ AstTypeOK /\ TreeOK /\ CallStackOK(frames) /\ Height \in Nat /\ Height >= 1
      /\ Top = frames[Height] /\ node = frames[Height].node /\ KidsDone(frames, rtype, bind)
      /\ Past(frames, Height) = Top.next /\ Distinct(Seen(frames)) /\ VisitCount(node) \in Nat /\ node \in Nodes
      /\ Top.next \in Nat
  BY FineFacts DEF Fine, MeaningOK
<1>3. Top.next > VisitCount(node)
  BY <1>1, LeavingIsComplete
<1>4. Height = 1 /\ node = 1
  <2>1. Kind(node) \in KindsAt(Height)
    BY <1>2 DEF Fine, FramesOK, VisitOK
  <2>2. Height = 1
    BY <1>1, <1>2, <2>1 DEF KindsAt, StmtKinds, ExprKinds, Literals
  <2> QED
    BY <1>2, <2>2 DEF CallStackOK
<1>5. 1 \in Nodes /\ \A n \in Nodes : Under(n, 1)
  BY <1>2, UnderProgram
<1>6. \A k \in 1..VisitCount(1) : AllDone(VisitKid(1, k), rtype, bind)
  <2>1. \A k \in 1..VisitCount(1) : k < Past(frames, 1)
    BY <1>2, <1>3, <1>4
  <2>2. 1 \in 1..Len(frames) /\ frames[1].node = 1
    BY <1>2, <1>4 DEF Height
  <2> QED
    BY <1>2, <2>1, <2>2 DEF KidsDone
<1>7. VisitCount(1) = Arity(1) /\ \A k : VisitKid(1, k) = Kid(1, k)
  BY <1>1, <1>4 DEF VisitCount, VisitKid
<1>8. NodeRight(1, rtype, bind)
  BY <1>1, <1>4 DEF NodeRight, NodeAccepted, ExprKinds, Literals
<1>9. AllRight(rtype, bind)
  <2> SUFFICES ASSUME NEW n \in Nodes, n # 1 PROVE NodeRight(n, rtype, bind)
    BY <1>8 DEF AllRight
  <2>1. PICK i \in 1..Arity(1) : Under(n, Kid(1, i))
    BY <1>2, <1>5, Descends
  <2> QED
    BY <1>6, <1>7, <2>1 DEF AllDone
<1>10. \A s \in Sites : s \in Seen(frames)
  <2> SUFFICES ASSUME NEW s \in Sites PROVE s \in Seen(frames)
    OBVIOUS
  <2>1. Declares(s.decl) /\ s.decl \in Nodes /\ s.decl # 1
    BY <1>2, SitesDeclare, SiteFacts
  <2>2. PICK k \in 1..VisitCount(1) : Under(s.decl, VisitKid(1, k))
    BY <1>2, <1>5, <2>1, DeclaredWithin
  <2>3. Finished(frames, s.decl)
    <3>1. k < Past(frames, 1)
      BY <1>2, <1>3, <1>4
    <3>2. 1 \in 1..Len(frames) /\ frames[1].node = 1
      BY <1>2, <1>4 DEF Height
    <3> QED
      BY <2>2, <3>1, <3>2 DEF Finished
  <2> QED
    BY <2>3 DEF Seen
<1>11. NamesAccepted
  BY <1>2, <1>10 DEF NamesAccepted, Distinct, Compete
<1> QED
  BY <1>9, <1>11 DEF Accepted, AllRight, NodeRight

\* Before anything is analysed.
LEMMA StartMeans ==
  ASSUME AstTypeOK, TreeOK, SemaStart
  PROVE  MeaningOK(frames', scopes', rtype', bind') /\ NoOtherTypes(rtype')
<1>1. /\ phase = "sema" /\ frames' = <<Frame(1)>> /\ scopes' = <<EmptyScope>> /\ rtype' = [n \in Nodes |-> Unset]
  BY DEF SemaStart
<1>2. 1 \in Nodes /\ Kind(1) = "PROGRAM" /\ Whole
  <2>1. 1 \in Nodes
    BY DEF AstTypeOK, Nodes
  <2> QED
    BY <1>1, <2>1, KindsOfKids DEF Whole
<1>3. Frame(1).node = 1 /\ Frame(1).next = 1
  BY <1>2 DEF Frame, ScopedKinds
<1> DEFINE fs == <<Frame(1)>>
<1>4. Len(fs) = 1 /\ fs[1] = Frame(1)
  OBVIOUS
<1> HIDE DEF fs
<1>5. \A i \in 1..Len(fs) : i = 1 /\ fs[i].node = 1 /\ fs[i].next = 1
  BY <1>3, <1>4
<1>6. Seen(fs) = {}
  <2>1. \A i \in 1..Len(fs) : Past(fs, i) = 1
    BY <1>4, <1>5 DEF Past
  <2>2. \A m : ~Finished(fs, m)
    <3>1. VisitCount(1) \in Nat
      BY <1>2, NodeFacts DEF VisitCount
    <3> QED
      BY <1>5, <2>1, <3>1 DEF Finished
  <2>3. \A m : ~Entered(fs, m)
    BY <1>2, <1>5 DEF Entered
  <2> QED
    BY <2>2, <2>3 DEF Seen
<1>7. Distinct(Seen(fs)) /\ EnteredOK(fs)
  BY <1>2, <1>5, <1>6 DEF Distinct, EnteredOK
<1>8. KidsDone(fs, rtype', bind')
  <2>1. \A i \in 1..Len(fs) : Past(fs, i) = 1
    BY <1>4, <1>5 DEF Past
  <2>2. \A k \in 1..VisitCount(1) : ~(k < 1) /\ ~(k < 1 - 1)
    BY <1>2, NodeFacts DEF VisitCount
  <2> QED
    BY <1>5, <2>1, <2>2 DEF KidsDone
<1>9. OpenAt(fs) = {1}
  BY <1>4 DEF OpenAt
<1>10. Owns([j \in 1..1 |-> 1], fs, <<EmptyScope>>)
  <2> DEFINE own == [j \in 1..1 |-> 1]
             sc == <<EmptyScope>>
  <2>1. Len(sc) = 1 /\ sc[1] = EmptyScope /\ own[1] = 1 /\ own \in [1..1 -> {1}] /\ \A j \in 1..1 : j = 1
    OBVIOUS
  <2>2. ScopeHolds(EmptyScope, 1, Seen(fs))
    BY <1>6, EmptyHolds
  <2> HIDE DEF own, sc
  <2>3. Owns(own, fs, sc)
    BY <1>4, <1>5, <1>9, <2>1, <2>2 DEF Owns
  <2> QED
    BY <2>3 DEF own, sc
<1>11. MeaningOK(fs, scopes', rtype', bind')
  BY <1>1, <1>7, <1>8, <1>10 DEF MeaningOK
<1> QED
  BY <1>1, <1>11 DEF NoOtherTypes, fs

-----------------------------------------------------------------------------
(* A step of the analysis. *)

StepOf ==
  \/ AnalyseChild \/ EnterScope \/ LeaveScope \/ EnterFunction \/ LeaveFunction
  \/ DeclareVariable \/ AnalyseReturn \/ LeaveStatement
  \/ AnalyseLiteral \/ AnalyseIdent \/ AnalyseAssign \/ AnalyseBinary
  \/ AnalyseUnary \/ AnalyseCall \/ AnalyseIndex \/ AnalyseMember

LEMMA StepDecided ==
  ASSUME Fine, StepOf
  PROVE  Decided
  BY ChildDecided, ScopeDecided, LeaveScopeDecided, FunctionDecided, LeaveFunctionDecided,
     VariableDecided, ReturnDecided, StatementDecided, ExpressionsDecided DEF StepOf

LEMMA StepErrors ==
  ASSUME Good, frames # <<>>, StepOf
  PROVE  error_count' \in Nat /\ error_count' >= error_count
  BY StatementErrors, FunctionErrors, ExpressionErrors DEF StepOf

LEMMA StepKeeps ==
  ASSUME Good, frames # <<>>, NoOtherTypes(rtype), StepOf
  PROVE  NoOtherTypes(rtype') /\ UNCHANGED <<ast, phase>>
<1>1. CASE \/ AnalyseChild \/ EnterScope \/ LeaveScope \/ EnterFunction \/ LeaveFunction
           \/ DeclareVariable \/ AnalyseReturn \/ LeaveStatement
  <2>1. UNCHANGED <<ast, phase, rtype>>
    BY <1>1 DEF AnalyseChild, EnterScope, LeaveScope, EnterFunction, LeaveFunction,
       DeclareVariable, AnalyseReturn, LeaveStatement
  <2> QED
    BY <2>1
<1>2. CASE \/ AnalyseLiteral \/ AnalyseIdent \/ AnalyseAssign \/ AnalyseBinary
           \/ AnalyseUnary \/ AnalyseCall \/ AnalyseIndex \/ AnalyseMember
  <2>1. Kind(node) \in ExprKinds
    BY <1>2 DEF AnalyseLiteral, AnalyseIdent, AnalyseAssign, AnalyseBinary, AnalyseUnary, AnalyseCall,
       AnalyseIndex, AnalyseMember, Leaving, Running, ExprKinds
  <2>2. \E result : Resolve(result)
    BY <1>2 DEF AnalyseLiteral, AnalyseIdent, AnalyseAssign, AnalyseBinary, AnalyseUnary, AnalyseCall,
       AnalyseIndex, AnalyseMember
  <2>3. UNCHANGED <<ast, phase>> /\ \E t : rtype' = [rtype EXCEPT ![node] = t]
    BY <2>2 DEF Resolve
  <2>4. \A n \in Nodes : n # node => rtype'[n] = rtype[n]
    BY <2>3 DEF Good
  <2>5. NoOtherTypes(rtype')
    BY <2>1, <2>4 DEF NoOtherTypes
  <2> QED
    BY <2>3, <2>5
<1> QED
  BY <1>1, <1>2 DEF StepOf

-----------------------------------------------------------------------------
(* The rules say the same of a tree that does not change. *)

LEMMA RulesStable ==
  ASSUME UNCHANGED ast
  PROVE  /\ Nodes' = Nodes /\ Path' = Path /\ Owner' = Owner /\ Sites' = Sites
         /\ TypeOf' = TypeOf /\ \A n : (Declared(n)' <=> Declared(n)) /\ Meaning(n)' = Meaning(n)
<1>1. Nodes' = Nodes /\ \A n : Kind(n)' = Kind(n) /\ Arity(n)' = Arity(n) /\ \A i : Kid(n, i)' = Kid(n, i)
  BY DEF Nodes, Kind, Arity, Kid
<1>2. Path' = Path
  BY DEF Path, Nodes, Parent, Kid, Arity
<1>3. Owner' = Owner
  BY DEF Owner, OpensScope, Nodes, Parent, Kind, Kid, Arity
<1>4. Sites' = Sites
  BY DEF Sites, Nodes, Kind, Kid, IsNull
<1>5. \A n : /\ Declared(n)' <=> Declared(n)
             /\ Meaning(n)' = Meaning(n)
  <2>1. \A m, n : Under(m, n)' <=> Under(m, n)
    BY <1>2 DEF Under
  <2>2. \A m, n : Precedes(m, n)' <=> Precedes(m, n)
    BY <1>2, <1>1 DEF Precedes, Path, Parent, Kid, Arity, Nodes
  <2>3. \A s : /\ SiteName(s)' = SiteName(s) /\ SiteType(s)' = SiteType(s) /\ SiteScope(s)' = SiteScope(s)
               /\ (IsFunction(s)' <=> IsFunction(s)) /\ (IsParam(s)' <=> IsParam(s))
    BY <1>3 DEF SiteName, SiteType, SiteScope, IsFunction, IsParam, Kind
  <2>4. \A s, t : Earlier(s, t)' <=> Earlier(s, t)
    BY <2>1, <2>2, <2>3 DEF Earlier
  <2>5. \A s, n : Visible(s, n)' <=> Visible(s, n)
    BY <2>1, <2>2, <2>3 DEF Visible, Kind
  <2>6. \A n : Candidates(n)' = Candidates(n)
    BY <1>4, <2>3, <2>5 DEF Candidates
  <2>7. \A n : Declared(n)' <=> Declared(n)
    BY <2>6 DEF Declared
  <2>8. \A n : Meaning(n)' = Meaning(n)
    BY <2>1, <2>3, <2>4, <2>6 DEF Meaning
  <2> QED
    BY <2>7, <2>8
<1>6. \A n, kid : TypeFrom(n, kid)' = TypeFrom(n, kid)
  <2>1. \A s : SiteType(s)' = SiteType(s) /\ (IsFunction(s)' <=> IsFunction(s))
    BY DEF SiteType, IsFunction, IsParam, Kind
  <2> QED
    BY <1>1, <1>5, <2>1 DEF TypeFrom
<1>7. TypeOf' = TypeOf
  BY <1>1, <1>6 DEF TypeOf
<1> QED
  BY <1>1, <1>2, <1>3, <1>4, <1>5, <1>7

LEMMA AcceptanceStable ==
  ASSUME UNCHANGED ast
  PROVE  /\ Accepted' <=> Accepted
         /\ \A n, types, binds : NodeRight(n, types, binds)' <=> NodeRight(n, types, binds)
         /\ \A n : NodeAccepted(n)' <=> NodeAccepted(n)
<1>1. /\ Nodes' = Nodes /\ Path' = Path /\ Owner' = Owner /\ Sites' = Sites /\ TypeOf' = TypeOf
      /\ \A n : (Declared(n)' <=> Declared(n)) /\ Meaning(n)' = Meaning(n)
  BY RulesStable
<1>2. \A n : Kind(n)' = Kind(n) /\ Arity(n)' = Arity(n) /\ \A i : Kid(n, i)' = Kid(n, i)
  BY DEF Kind, Arity, Kid
<1>3. \A n : IsCallee(n)' <=> IsCallee(n)
  BY <1>1 DEF IsCallee, Parent, Kind, Kid, Arity
<1>4. \A s : /\ SiteName(s)' = SiteName(s) /\ SiteType(s)' = SiteType(s) /\ SiteScope(s)' = SiteScope(s)
             /\ (IsFunction(s)' <=> IsFunction(s)) /\ SymbolOf(s)' = SymbolOf(s)
  BY <1>1 DEF SiteName, SiteType, SiteScope, IsFunction, IsParam, Kind, SymbolOf, FuncSymbol, VarSymbol
<1>5. NamesAccepted' <=> NamesAccepted
  BY <1>1, <1>4 DEF NamesAccepted
<1>6. \A n, t : Initialised(n, t)' <=> Initialised(n, t)
  BY <1>1, <1>2 DEF Initialised, IsNull
<1>7. \A n : FirstDeclaration(n)' = FirstDeclaration(n)
  BY <1>1 DEF FirstDeclaration, DeclarationsOf, Kind
<1>8. \A n : EnclosingFunction(n)' = EnclosingFunction(n)
  BY <1>1 DEF EnclosingFunction, Under, Kind
<1>9. \A n : NodeAccepted(n)' <=> NodeAccepted(n)
  BY <1>1, <1>2, <1>3, <1>6, <1>7, <1>8 DEF NodeAccepted, IsNull
<1>10. Accepted' <=> Accepted
  BY <1>1, <1>5, <1>9 DEF Accepted
<1>11. \A n, types, binds : NodeRight(n, types, binds)' <=> NodeRight(n, types, binds)
  BY <1>1, <1>2, <1>3, <1>4, <1>9 DEF NodeRight
<1> QED
  BY <1>9, <1>10, <1>11

LEMMA MeaningStable ==
  ASSUME UNCHANGED ast, MeaningOK(frames', scopes', rtype', bind')
  PROVE  MeaningOK(frames, scopes, rtype, bind)'
<1>1. /\ Nodes' = Nodes /\ Path' = Path /\ Owner' = Owner /\ Sites' = Sites /\ TypeOf' = TypeOf
      /\ \A n : (Declared(n)' <=> Declared(n)) /\ Meaning(n)' = Meaning(n)
  BY RulesStable
<1>2. \A n : /\ Kind(n)' = Kind(n) /\ Arity(n)' = Arity(n) /\ (IsNull(n)' <=> IsNull(n))
             /\ \A i : Kid(n, i)' = Kid(n, i)
  BY DEF Kind, Arity, Kid, IsNull
<1>3. \A n : VisitCount(n)' = VisitCount(n) /\ \A k : VisitKid(n, k)' = VisitKid(n, k)
  BY <1>2 DEF VisitCount, VisitKid
<1>4. \A s : /\ SiteName(s)' = SiteName(s) /\ SiteScope(s)' = SiteScope(s)
             /\ (IsFunction(s)' <=> IsFunction(s)) /\ SymbolOf(s)' = SymbolOf(s)
  BY <1>1 DEF SiteName, SiteType, SiteScope, IsFunction, IsParam, Kind, SymbolOf, FuncSymbol, VarSymbol
<1>5. \A m, n : Under(m, n)' <=> Under(m, n)
  BY <1>1 DEF Under
<1>6. \A m : /\ Finished(frames, m)' <=> Finished(frames', m)
             /\ Entered(frames, m)' <=> Entered(frames', m)
  BY <1>2, <1>3, <1>5 DEF Finished, Entered, Past
<1>7. Seen(frames)' = Seen(frames')
  BY <1>1, <1>6 DEF Seen
<1>8. \A s, t : Compete(s, t)' <=> Compete(s, t)
  BY <1>4 DEF Compete
<1>9. Distinct(Seen(frames))'
  <2>1. Distinct(Seen(frames'))
    BY DEF MeaningOK
  <2> QED
    BY <1>4, <1>7, <1>8, <2>1 DEF Distinct
<1>10. \A n, k : KidAccepted(n, k)' <=> KidAccepted(n, k)
  BY <1>1, <1>2 DEF KidAccepted
<1>11. KidsDone(frames, rtype, bind)'
  <2>1. \A m : AllDone(m, rtype, bind)' <=> AllDone(m, rtype', bind')
    BY <1>1, <1>5, AcceptanceStable DEF AllDone, NodeRight
  <2>2. KidsDone(frames', rtype', bind')
    BY DEF MeaningOK
  <2> QED
    BY <1>3, <1>10, <2>1, <2>2 DEF KidsDone, Past
<1>12. EnteredOK(frames)'
  <2>1. EnteredOK(frames')
    BY DEF MeaningOK
  <2> QED
    BY <1>2, <2>1, AcceptanceStable DEF EnteredOK
<1>13. PICK own : Owns(own, frames', scopes')
  BY DEF MeaningOK
<1>14. Owns(own, frames, scopes)'
  <2>1. OpenAt(frames)' = OpenAt(frames')
    BY <1>2 DEF OpenAt, HasScope
  <2>2. \A j \in 1..Len(scopes') : ScopeHolds(scopes[j], frames[own[j]].node, Seen(frames))'
    BY <1>4, <1>7, <1>8, <1>13 DEF Owns, ScopeHolds
  <2> QED
    BY <1>13, <2>1, <2>2 DEF Owns
<1> QED
  BY <1>9, <1>11, <1>12, <1>14 DEF MeaningOK

-----------------------------------------------------------------------------
(* The invariant. *)

NotStarted == phase = "parse" \/ (phase = "sema" /\ frames = <<>>)

MeaningInv ==
  /\ NotStarted => error_count = 0
  /\ Analysing => /\ NoOtherTypes(rtype)
                  /\ IF error_count = 0 THEN MeaningOK(frames, scopes, rtype, bind) ELSE ~Accepted
  /\ phase = "rejected" => ~Accepted
  /\ phase = "codegen" => Accepted /\ AllRight(rtype, bind)

LEMMA StepsOfSema ==
  ASSUME SemaNext, phase = "sema", frames # <<>>
  PROVE  SemaEnd \/ StepOf
  BY StillParsing DEF SemaNext, SemaStart, StepOf

LEMMA MeaningStarts ==
  ASSUME SemaInv, VisitInv, MeaningInv, SemaStart
  PROVE  MeaningInv'
<1>1. /\ UNCHANGED <<ast, phase, error_count>> /\ phase = "sema" /\ frames = <<>> /\ frames' = <<Frame(1)>>
  BY DEF SemaStart
<1>2. AstTypeOK /\ TreeOK /\ error_count = 0
  BY <1>1 DEF SemaInv, VisitInv, MeaningInv, NotStarted
<1>3. MeaningOK(frames', scopes', rtype', bind') /\ NoOtherTypes(rtype')
  BY <1>2, StartMeans
<1>4. MeaningOK(frames, scopes, rtype, bind)'
  BY <1>1, <1>3, MeaningStable
<1>5. NoOtherTypes(rtype)'
  BY <1>1, <1>3 DEF NoOtherTypes, Nodes, Kind
<1>6. error_count' = 0 /\ phase' = "sema"
  BY <1>1, <1>2
<1> QED
  BY <1>4, <1>5, <1>6 DEF MeaningInv

\* The program's own function is the last to return.
LEMMA StillAnalysing ==
  ASSUME Good, FramesOK, phase = "sema", frames # <<>>, StepOf
  PROVE  frames' # <<>>
<1>1. CASE AnalyseChild
  <2>1. Height' >= 1
    BY <1>1, CallFacts
  <2> QED
    BY <2>1 DEF Height
<1>2. CASE frames' = [frames EXCEPT ![Len(frames)].next = 1]
  <2>1. Height' >= 1
    BY <1>2, EnterFacts DEF Good
  <2> QED
    BY <2>1 DEF Height
<1>3. CASE Return /\ Kind(node) # "PROGRAM"
  <2>1. Height >= 2
    <3>1. Height \in Nat /\ Height >= 1 /\ node = frames[Height].node
      BY TopFacts DEF Height, Good, Top, node
    <3>2. Height = 1 => Kind(node) = "PROGRAM"
      BY <3>1 DEF FramesOK, VisitOK, KindsAt
    <3> QED
      BY <1>3, <3>1, <3>2
  <2>2. Height' >= 1
    BY <1>3, <2>1, ReturnFacts DEF Good
  <2> QED
    BY <2>2 DEF Height
<1>4. EnterScope => frames' = [frames EXCEPT ![Len(frames)].next = 1]
  BY DEF EnterScope, Enter
<1>5. EnterFunction => frames' = [frames EXCEPT ![Len(frames)].next = 1] \/ (Return /\ Kind(node) # "PROGRAM")
  BY DEF EnterFunction, Entering, Running
<1>6. LeaveFunction => Return /\ Kind(node) # "PROGRAM"
  BY DEF LeaveFunction, Leaving, Running
<1>7. Pops => Return /\ Kind(node) # "PROGRAM"
  BY DEF Pops
<1>8. has_return \in BOOLEAN
  BY DEF Good
<1>9. AnalyseChild \/ EnterScope \/ EnterFunction \/ LeaveFunction \/ Pops
  BY <1>8, StatementPops, ExpressionPops DEF StepOf
<1> QED
  BY <1>1, <1>2, <1>3, <1>4, <1>5, <1>6, <1>7, <1>9

LEMMA MeaningMoves ==
  ASSUME SemaInv, VisitInv, AgInv, MeaningInv, phase = "sema", frames # <<>>, SemaNext
  PROVE  MeaningInv'
<1>1. /\ Good /\ FramesOK /\ FuncOK /\ TreeOK /\ GlobalsOK /\ NoOtherTypes(rtype) /\ error_count \in Nat
      /\ IF error_count = 0 THEN MeaningOK(frames, scopes, rtype, bind) ELSE ~Accepted
  BY InvIsGood DEF VisitInv, AgInv, AgreeOK, MeaningInv, Analysing, Good
<1>2. error_count = 0 => Fine
  BY <1>1 DEF Fine
<1>3. CASE SemaEnd
  <2>1. /\ UNCHANGED <<ast, error_count, rtype, bind>>
        /\ phase' = IF error_count = 0 THEN "codegen" ELSE "rejected"
    BY <1>3 DEF SemaEnd
  <2>2. CASE error_count = 0
    <3>1. Accepted /\ AllRight(rtype, bind)
      BY <1>2, <1>3, <2>2, EndDecided
    <3>2. Accepted' /\ AllRight(rtype, bind)'
      BY <2>1, <3>1, AcceptanceStable, RulesStable DEF AllRight, NodeRight
    <3> QED
      BY <2>1, <2>2, <3>2 DEF MeaningInv, NotStarted, Analysing
  <2>3. CASE error_count # 0
    <3>1. ~Accepted'
      BY <1>1, <2>1, <2>3, AcceptanceStable
    <3> QED
      BY <2>1, <2>3, <3>1 DEF MeaningInv, NotStarted, Analysing
  <2> QED
    BY <2>2, <2>3
<1>4. CASE StepOf
  <2>1. NoOtherTypes(rtype') /\ UNCHANGED <<ast, phase>>
    BY <1>1, <1>4, StepKeeps
  <2>2. error_count' \in Nat /\ error_count' >= error_count
    BY <1>1, <1>4, StepErrors
  <2>3. NoOtherTypes(rtype)'
    BY <2>1 DEF NoOtherTypes, Nodes, Kind
  <2>4. IF error_count' = 0 THEN MeaningOK(frames', scopes', rtype', bind') ELSE ~Accepted
    <3>1. CASE error_count = 0
      BY <1>2, <1>4, <3>1, StepDecided DEF Decided
    <3>2. CASE error_count # 0
      BY <1>1, <2>2, <3>2
    <3> QED
      BY <3>1, <3>2
  <2>5. IF error_count' = 0 THEN MeaningOK(frames, scopes, rtype, bind)' ELSE ~Accepted'
    BY <2>1, <2>4, MeaningStable, AcceptanceStable
  <2>6. phase' = "sema" /\ (frames' = <<>> => error_count' = 0)
    <3>1. frames' # <<>>
      BY <1>1, <1>4, StillAnalysing
    <3> QED
      BY <2>1, <3>1
  <2> QED
    BY <2>3, <2>5, <2>6 DEF MeaningInv, NotStarted, Analysing
<1> QED
  BY <1>3, <1>4, StepsOfSema

LEMMA MeaningKept == SemaInv /\ VisitInv /\ AgInv /\ MeaningInv /\ [Next]_vars => MeaningInv'
<1> SUFFICES ASSUME SemaInv, VisitInv, AgInv, MeaningInv, [Next]_vars PROVE MeaningInv'
  OBVIOUS
<1>1. CASE SemaNext
  <2>1. CASE AstNext /\ UNCHANGED semaVars
    <3>1. phase = "parse" /\ phase' \in {"parse", "sema"} /\ error_count' = error_count
      BY <2>1, StillParsing DEF semaVars
    <3>2. frames = <<>> /\ frames' = <<>>
      BY <2>1, <3>1 DEF SemaInv, semaVars
    <3> QED
      BY <3>1, <3>2 DEF MeaningInv, NotStarted, Analysing
  <2>2. CASE SemaStart
    BY <2>2, MeaningStarts
  <2>3. CASE ~(AstNext /\ UNCHANGED semaVars) /\ ~SemaStart
    <3>1. phase = "sema" /\ frames # <<>>
      BY <1>1, <2>3, SemaRuns
    <3> QED
      BY <1>1, <3>1, MeaningMoves
  <2> QED
    BY <2>1, <2>2, <2>3
<1>2. ASSUME UNCHANGED <<ast, semaVars>>, phase' = "codegen" => phase = "codegen",
             phase' \notin {"parse", "sema", "rejected"}
      PROVE  MeaningInv'
  <2>1. phase = "codegen" => Accepted' /\ AllRight(rtype, bind)'
    BY <1>2, AcceptanceStable, RulesStable DEF MeaningInv, AllRight, NodeRight, semaVars
  <2> QED
    BY <1>2, <2>1 DEF MeaningInv, NotStarted, Analysing
<1>3. CASE CgNext
  <2>1. phase' # "rejected"
    BY <1>3, CgKeepsSema
  <2> QED
    BY <1>2, <1>3, <2>1, CgKeepsSema
<1>4. CASE Main
  <2>1. phase' \notin {"codegen", "rejected"}
    BY <1>4 DEF Main, MainNoParse, MainRejected, MainVerify, MainWriteIr, MainWriteObject, Exit
  <2> QED
    BY <1>2, <1>4, <2>1, MainKeepsSema
<1>5. CASE UNCHANGED vars
  <2>1. UNCHANGED <<ast, phase, semaVars>>
    BY <1>5 DEF vars
  <2>2. Accepted' <=> Accepted
    BY <2>1, AcceptanceStable
  <2>3. AllRight(rtype, bind) => AllRight(rtype, bind)'
    BY <2>1, AcceptanceStable, RulesStable DEF AllRight, NodeRight, semaVars
  <2>4. MeaningOK(frames, scopes, rtype, bind) => MeaningOK(frames, scopes, rtype, bind)'
    BY <2>1, MeaningStable DEF semaVars
  <2>5. NoOtherTypes(rtype) => NoOtherTypes(rtype)'
    BY <2>1 DEF NoOtherTypes, Nodes, Kind, semaVars
  <2> QED
    BY <2>1, <2>2, <2>3, <2>4, <2>5 DEF MeaningInv, NotStarted, Analysing, semaVars
<1> QED
  BY <1>1, <1>3, <1>4, <1>5 DEF Next, Ended

LEMMA MeaningAlways == Spec => []MeaningInv
<1>1. Init => MeaningInv
  BY DEF Init, SemaInit, AstInit, MeaningInv, NotStarted, Analysing
<1>2. SemaInv /\ VisitInv /\ AgInv /\ MeaningInv /\ [Next]_vars => MeaningInv'
  BY MeaningKept
<1> QED
  BY <1>1, <1>2, SemaInvAlways, VisitInvAlways, AgInvAlways, PTL DEF Spec

-----------------------------------------------------------------------------
(* Theorems. *)

(* Sema accepts exactly the programs the declarative rules accept, whatever the program:   *)
(* its early returns, the Unknown types it propagates and the one pass in which scopes are *)
(* filled and dropped neither miss an error nor invent one.                                *)
THEOREM SemaDecidesTheRules == Spec => []SemaDecides
<1>1. MeaningInv => SemaDecides
  BY DEF MeaningInv, SemaDecides
<1> QED
  BY <1>1, MeaningAlways, PTL

(* What Sema leaves in the tree of an accepted program is what the rules say: the type of  *)
(* each expression, and of each name the declaration in the innermost scope, the first.    *)
THEOREM AnnotationsFollowTheRules == Spec => []SemaAnnotates
<1>1. \A s : SymbolOf(s).decl = s.decl
  BY DEF SymbolOf, FuncSymbol, VarSymbol, Symbol
<1>2. MeaningInv => SemaAnnotates
  <2> SUFFICES ASSUME MeaningInv, phase = "codegen", NEW n \in Nodes, Kind(n) \in ExprKinds
      PROVE  /\ ~IsCallee(n) => rtype[n] = TypeOf[n]
             /\ Kind(n) = "IDENT" => bind[n].decl = Meaning(n).decl /\ bind[n].type = SiteType(Meaning(n))
    BY DEF SemaAnnotates
  <2>1. NodeRight(n, rtype, bind)
    BY DEF MeaningInv, AllRight
  <2> QED
    BY <1>1, <2>1, SiteSymbols DEF NodeRight
<1> QED
  BY <1>2, MeaningAlways, PTL

-----------------------------------------------------------------------------
(* Trees: where two nodes part. *)

LEMMA AncestorsOrdered ==
  ASSUME Whole, NEW e \in Nodes, NEW a, NEW b, Under(e, a), Under(e, b)
  PROVE  Under(a, b) \/ Under(b, a)
<1> DEFINE Both == {c \in Nodes : Under(c, a) /\ Under(c, b)}
<1>0. AstTypeOK /\ TreeOK /\ Nodes = 1..Len(ast) /\ Len(ast) \in Nat
  BY ParentFacts DEF Whole
<1>1. Both # {}
  OBVIOUS
<1>2. PICK c \in Both : \A d \in Both : c <= d
  BY <1>0, <1>1, Extremes
<1>3. c \in Nodes /\ Under(c, a) /\ Under(c, b)
  BY <1>2
<1>4. c = a \/ (c # 1 /\ Under(Parent(c), a))
  BY <1>0, <1>3, UnderParent
<1>5. c = b \/ (c # 1 /\ Under(Parent(c), b))
  BY <1>0, <1>3, UnderParent
<1>6. CASE c = a \/ c = b
  BY <1>3, <1>6
<1>7. CASE c # a /\ c # b
  <2>1. Parent(c) \in Nodes /\ Parent(c) < c
    BY <1>0, <1>3, <1>4, <1>7, ParentFacts
  <2>2. Parent(c) \in Both
    BY <1>4, <1>5, <1>7, <2>1
  <2>3. c <= Parent(c) /\ c \in Nat /\ Parent(c) \in Nat
    BY <1>0, <1>2, <1>3, <2>1, <2>2
  <2> QED
    BY <2>1, <2>3
<1> QED
  BY <1>6, <1>7

Siblings(a, b) == a \in Nodes /\ b \in Nodes /\ a # 1 /\ b # 1 /\ Parent(a) = Parent(b) /\ a # b

LEMMA Apart ==
  ASSUME Whole, NEW a, NEW b, Siblings(a, b), NEW d \in Nodes, Under(d, a)
  PROVE  ~Under(d, b)
  BY SiblingsDisjoint DEF Siblings

LEMMA BranchInside ==
  ASSUME Whole, NEW a, NEW b, Siblings(a, b), NEW p, NEW q, Siblings(p, q),
         NEW d \in Nodes, NEW e \in Nodes, Under(d, a), Under(e, b), Under(d, p), Under(e, q), Under(b, q)
  PROVE  a = p /\ b = q
<1>0. AstTypeOK /\ TreeOK /\ a \in Nodes /\ b \in Nodes /\ a # 1 /\ b # 1 /\ Parent(a) = Parent(b)
  BY DEF Whole, Siblings
<1>1. CASE b = q
  <2>1. p \in Nodes /\ p # 1 /\ Parent(p) = Parent(a)
    BY <1>0, <1>1 DEF Siblings
  <2> QED
    BY <1>0, <1>1, <2>1, SiblingsDisjoint
<1>2. CASE b # q
  <2>1. Under(Parent(a), q)
    BY <1>0, <1>2, UnderParent
  <2>2. Parent(a) \in Nodes
    BY <1>0, ParentFacts
  <2>3. Under(a, Parent(a))
    BY <1>0, <2>2, UnderParent, UnderSelf
  <2>4. Under(a, q)
    BY <1>0, <2>1, <2>3, UnderTransitive
  <2>5. Under(d, q)
    BY <1>0, <2>4, UnderTransitive
  <2> QED
    BY <2>5, Apart
<1> QED
  BY <1>1, <1>2

\* Two nodes neither of which is part of the other are part of two siblings, and only of those.
LEMMA BranchOnce ==
  ASSUME Whole, NEW a, NEW b, Siblings(a, b), NEW p, NEW q, Siblings(p, q),
         NEW d \in Nodes, NEW e \in Nodes, Under(d, a), Under(e, b), Under(d, p), Under(e, q)
  PROVE  a = p /\ b = q
<1>1. Under(b, q) \/ Under(q, b)
  BY AncestorsOrdered
<1>2. CASE Under(b, q)
  BY <1>2, BranchInside
<1>3. CASE Under(q, b)
  <2>1. p = a /\ q = b
    BY <1>3, BranchInside
  <2> QED
    BY <2>1
<1> QED
  BY <1>1, <1>2, <1>3

LEMMA PrecedesSiblings ==
  ASSUME Whole, NEW a, NEW b, Siblings(a, b), NEW d \in Nodes, NEW e \in Nodes, Under(d, a), Under(e, b)
  PROVE  Precedes(d, e) <=> a < b
<1>1. ASSUME Precedes(d, e) PROVE a < b
  <2>1. PICK p \in Path[d] \ {1}, q \in Path[e] \ {1} : p < q /\ Parent(p) = Parent(q)
    BY <1>1 DEF Precedes
  <2>2. Under(d, p) /\ Under(e, q) /\ p # 1 /\ q # 1
    BY <2>1 DEF Under
  <2>3. p \in Nodes /\ q \in Nodes /\ Nodes \in SUBSET Nat
    BY <2>2, UnderFacts, ParentFacts DEF Whole
  <2>4. Siblings(p, q)
    BY <2>1, <2>2, <2>3 DEF Siblings
  <2>5. a = p /\ b = q
    BY <2>2, <2>4, BranchOnce
  <2> QED
    BY <2>1, <2>5
<1>2. ASSUME a < b PROVE Precedes(d, e)
  BY <1>2 DEF Precedes, Siblings, Under
<1> QED
  BY <1>1, <1>2

LEMMA PrecedesOutside ==
  ASSUME Whole, NEW d \in Nodes, NEW e \in Nodes, Precedes(d, e)
  PROVE  ~Under(e, d)
<1>1. PICK p \in Path[d] \ {1}, q \in Path[e] \ {1} : p < q /\ Parent(p) = Parent(q)
  BY DEF Precedes
<1>2. Under(d, p) /\ Under(e, q) /\ p # 1 /\ q # 1
  BY <1>1 DEF Under
<1>3. p \in Nodes /\ q \in Nodes /\ Nodes \in SUBSET Nat /\ AstTypeOK /\ TreeOK
  BY <1>2, UnderFacts, ParentFacts DEF Whole
<1>4. Siblings(p, q)
  BY <1>1, <1>2, <1>3 DEF Siblings
<1>5. SUFFICES ASSUME Under(e, d) PROVE FALSE
  OBVIOUS
<1>6. Under(e, p)
  BY <1>2, <1>3, <1>5, UnderTransitive
<1> QED
  BY <1>2, <1>4, <1>6, Apart

\* What is declared in a scope, or in a scope inside it, is declared inside.
LEMMA OwnerInside ==
  ASSUME Whole, NEW n \in Nodes, n # 1, NEW o \in Nodes, OpensScope(o), Under(n, o), n # o
  PROVE  Under(Owner[n], o)
<1> DEFINE Bad == {p \in Nodes : p # 1 /\ Under(p, o) /\ p # o /\ ~Under(Owner[p], o)}
<1>0. AstTypeOK /\ TreeOK /\ Nodes = 1..Len(ast) /\ Len(ast) \in Nat
  BY ParentFacts DEF Whole
<1>1. SUFFICES ASSUME Bad # {} PROVE FALSE
  OBVIOUS
<1>2. PICK p \in Bad : \A q \in Bad : p <= q
  BY <1>0, <1>1, Extremes
<1> DEFINE q == Parent(p)
<1>3. p \in Nodes /\ p # 1 /\ Under(p, o) /\ p # o /\ ~Under(Owner[p], o)
  BY <1>2
<1>4. Under(q, o) /\ q \in Nodes /\ q < p
  BY <1>0, <1>3, UnderParent, ParentFacts
<1>5. Owner[p] = IF OpensScope(q) THEN q ELSE Owner[q]
  BY <1>0, <1>3, OwnerUnfolds
<1>6. ~OpensScope(q) /\ Owner[p] = Owner[q]
  BY <1>3, <1>4, <1>5
<1>7. q # o
  BY <1>6
<1>8. q # 1
  <2>1. Kind(1) = "PROGRAM"
    BY KindsOfKids DEF Whole
  <2> QED
    BY <1>6, <2>1 DEF OpensScope
<1>9. q \in Bad
  BY <1>3, <1>4, <1>6, <1>7, <1>8
<1>10. p <= q /\ p \in Nat /\ q \in Nat
  BY <1>0, <1>2, <1>3, <1>4, <1>9
<1> QED
  BY <1>4, <1>10

-----------------------------------------------------------------------------
(* The statements CodeGen executes: its call stack without the expressions *)
(* is one of Sema's, and takes the same steps but for those that pass over *)
(* children in which nothing is declared.                                  *)

\* The top frame goes on, past children that declare nothing.
Advanced(fs, gs) ==
  LET top == fs[Len(fs)]
  IN /\ Len(gs) = Len(fs) /\ gs \in Seq(FrameSet)
     /\ \A i \in 1..Len(fs) : gs[i].node = fs[i].node /\ (i # Len(fs) => gs[i] = fs[i])
     /\ top.next >= 1 /\ gs[Len(fs)].next >= top.next /\ gs[Len(fs)].next <= VisitCount(top.node) + 1
     /\ \A k \in 1..VisitCount(top.node) :
          k >= top.next /\ k < gs[Len(fs)].next => Kind(VisitKid(top.node, k)) \in ExprKinds \cup Null

LEMMA AdvancedStack ==
  ASSUME Whole, NEW fs, CallStackOK(fs), NEW gs, Advanced(fs, gs)
  PROVE  CallStackOK(gs) /\ OpenAt(gs) = OpenAt(fs)
<1> DEFINE L == Len(fs)
<1>1. /\ L \in Nat /\ L >= 1 /\ fs[1].node = 1
      /\ \A i \in 1..L : fs[i].node \in Nodes /\ fs[i].next \in Nat
      /\ \A i \in 1..L : VisitOK(fs, i)
  BY StackFacts DEF CallStackOK
<1>2. /\ Len(gs) = L /\ gs \in Seq(FrameSet)
      /\ \A i \in 1..L : gs[i].node = fs[i].node /\ (i # L => gs[i] = fs[i])
      /\ fs[L].next >= 1 /\ gs[L].next >= fs[L].next /\ gs[L].next <= VisitCount(fs[L].node) + 1
  BY DEF Advanced
<1>3. gs[L] \in FrameSet
  BY <1>1, <1>2
<1>4. gs[L].next \in Nat
  BY <1>3, FrameFields
<1>5. ASSUME NEW i \in 1..L PROVE VisitOK(gs, i)
  <2>1. VisitOK(fs, i) /\ gs[i].node = fs[i].node
    BY <1>1, <1>2
  <2>2. i >= 3 => gs[2].node = fs[2].node
    BY <1>1, <1>2
  <2>3. i >= 2 => ChildOf(gs[i - 1], gs[i])
    <3> SUFFICES ASSUME i >= 2 PROVE ChildOf(gs[i - 1], gs[i])
      OBVIOUS
    <3>1. ChildOf(fs[i - 1], fs[i])
      BY <2>1 DEF VisitOK
    <3>2. i - 1 \in 1..L /\ i - 1 # L
      BY <1>1
    <3>3. gs[i - 1] = fs[i - 1]
      BY <1>2, <3>2
    <3> QED
      BY <2>1, <3>1, <3>3 DEF ChildOf
  <2>4. gs[i].next <= VisitCount(gs[i].node) + 1 /\ (fs[i].next >= 1 => gs[i].next >= 1)
    <3>1. CASE i = L
      BY <1>1, <1>2, <1>4, <3>1
    <3>2. CASE i # L
      BY <1>2, <2>1, <3>2 DEF VisitOK
    <3> QED
      BY <3>1, <3>2
  <2> QED
    BY <2>1, <2>2, <2>3, <2>4 DEF VisitOK
<1>6. \A i \in 1..L : HasScope(gs[i]) <=> HasScope(fs[i])
  <2> SUFFICES ASSUME NEW i \in 1..L PROVE HasScope(gs[i]) <=> HasScope(fs[i])
    OBVIOUS
  <2>1. gs[i].next > 0 <=> fs[i].next > 0
    BY <1>1, <1>2, <1>4
  <2> QED
    BY <1>2, <2>1 DEF HasScope
<1>7. gs[1].node = 1
  BY <1>1, <1>2
<1> QED
  BY <1>1, <1>2, <1>5, <1>6, <1>7 DEF CallStackOK, OpenAt

LEMMA AdvancedSeen ==
  ASSUME Whole, NEW fs, CallStackOK(fs), NEW gs, Advanced(fs, gs)
  PROVE  Seen(gs) = Seen(fs)
<1> DEFINE L == Len(fs)
           n == fs[L].node
<1>1. /\ L \in Nat /\ L >= 1
      /\ \A i \in 1..L : fs[i].node \in Nodes /\ fs[i].next \in Nat
  BY StackFacts
<1>2. /\ Len(gs) = L /\ gs \in Seq(FrameSet)
      /\ \A i \in 1..L : gs[i].node = fs[i].node /\ (i # L => gs[i] = fs[i])
      /\ fs[L].next >= 1 /\ gs[L].next >= fs[L].next
      /\ \A k \in 1..VisitCount(n) : k >= fs[L].next /\ k < gs[L].next => Kind(VisitKid(n, k)) \in ExprKinds \cup Null
  BY DEF Advanced
<1>3. gs[L] \in FrameSet /\ n \in Nodes
  BY <1>1, <1>2
<1>4. gs[L].next \in Nat
  BY <1>3, FrameFields
<1>5. \A d : Entered(gs, d) <=> Entered(fs, d)
  <2>1. \A i \in 1..L : gs[i].next > 0 <=> fs[i].next > 0
    BY <1>1, <1>2, <1>4
  <2> QED
    BY <1>2, <2>1 DEF Entered
<1>6. ASSUME NEW d, Declares(d) PROVE Finished(gs, d) <=> Finished(fs, d)
  <2> DEFINE F(i) == \E k \in 1..VisitCount(fs[i].node) : k < Past(fs, i) /\ Under(d, VisitKid(fs[i].node, k))
             G(i) == \E k \in 1..VisitCount(gs[i].node) : k < Past(gs, i) /\ Under(d, VisitKid(gs[i].node, k))
  <2>1. Finished(fs, d) <=> \E i \in 1..L : F(i)
    BY DEF Finished
  <2>2. Finished(gs, d) <=> \E i \in 1..L : G(i)
    BY <1>2 DEF Finished
  <2>3. ASSUME NEW i \in 1..L, i # L PROVE G(i) <=> F(i)
    <3>1. Past(gs, i) = Past(fs, i) /\ gs[i].node = fs[i].node
      BY <1>1, <1>2, <2>3 DEF Past
    <3> QED
      BY <3>1
  <2>4. ASSUME NEW k \in 1..VisitCount(n), k >= fs[L].next, k < gs[L].next PROVE ~Under(d, VisitKid(n, k))
    <3>1. VisitKid(n, k) \in Nodes /\ Kind(VisitKid(n, k)) \in ExprKinds \cup Null
      BY <1>2, <1>3, <2>4, VisitedUnder
    <3>2. d \in Nodes /\ Kind(d) \in {"VAR_DECL", "FUNC_DECL"}
      BY <1>6 DEF Declares
    <3>3. Under(d, VisitKid(n, k)) => Kind(d) \in ExprKinds \cup Null
      BY <3>1, <3>2, ExpressionsDeclareNothing
    <3> QED
      BY <3>2, <3>3 DEF ExprKinds, Literals, Null
  <2>5. G(L) <=> F(L)
    <3>1. Past(fs, L) = fs[L].next /\ Past(gs, L) = gs[L].next /\ gs[L].node = n
      BY <1>1, <1>2, <1>4 DEF Past
    <3>2. G(L) <=> \E k \in 1..VisitCount(n) : k < gs[L].next /\ Under(d, VisitKid(n, k))
      BY <3>1
    <3>3. F(L) <=> \E k \in 1..VisitCount(n) : k < fs[L].next /\ Under(d, VisitKid(n, k))
      BY <3>1
    <3>4. \A k \in 1..VisitCount(n) : k < fs[L].next => k < gs[L].next
      BY <1>1, <1>2, <1>4
    <3>5. \A k \in 1..VisitCount(n) : k < fs[L].next \/ k >= fs[L].next
      BY <1>1
    <3> HIDE DEF F, G, n
    <3> QED
      BY <2>4, <3>2, <3>3, <3>4, <3>5
  <2> HIDE DEF F, G
  <2> QED
    BY <2>1, <2>2, <2>3, <2>5
<1>7. \A s \in Sites : Finished(gs, s.decl) <=> Finished(fs, s.decl)
  BY <1>6, SitesDeclare
<1> QED
  BY <1>5, <1>7 DEF Seen

LEMMA PoppedStack ==
  ASSUME Whole, NEW fs, CallStackOK(fs), Len(fs) >= 2, NEW gs \in Seq(FrameSet), Popped(fs, gs)
  PROVE  CallStackOK(gs)
<1>1. /\ Len(fs) \in Nat /\ fs[1].node = 1 /\ \A i \in 1..Len(fs) : VisitOK(fs, i)
      /\ Len(gs) = Len(fs) - 1 /\ \A i \in 1..Len(gs) : gs[i] = fs[i]
  BY StackFacts DEF CallStackOK, Popped
<1>2. ASSUME NEW i \in 1..Len(gs) PROVE VisitOK(gs, i)
  <2>1. VisitOK(fs, i) /\ gs[i] = fs[i]
    BY <1>1
  <2>2. i >= 3 => gs[2] = fs[2]
    BY <1>1
  <2>3. i >= 2 => gs[i - 1] = fs[i - 1]
    BY <1>1
  <2> QED
    BY <2>1, <2>2, <2>3 DEF VisitOK
<1> QED
  BY <1>1, <1>2 DEF CallStackOK

LEMMA OpenedStack ==
  ASSUME Whole, NEW fs, CallStackOK(fs), NEW gs \in Seq(FrameSet), Opened(fs, gs)
  PROVE  CallStackOK(gs)
<1> DEFINE L == Len(fs)
<1>1. /\ L \in Nat /\ L >= 1 /\ fs[1].node = 1
      /\ \A i \in 1..L : VisitOK(fs, i) /\ fs[i].node \in Nodes
      /\ Len(gs) = L /\ \A i \in 1..L : gs[i].node = fs[i].node /\ (i # L => gs[i] = fs[i])
      /\ gs[L].next = 1
  BY StackFacts DEF CallStackOK, Opened
<1>2. ASSUME NEW i \in 1..L PROVE VisitOK(gs, i)
  <2>1. VisitOK(fs, i) /\ gs[i].node = fs[i].node
    BY <1>1
  <2>2. i >= 3 => gs[2].node = fs[2].node
    BY <1>1
  <2>3. i >= 2 => ChildOf(gs[i - 1], gs[i])
    <3> SUFFICES ASSUME i >= 2 PROVE ChildOf(gs[i - 1], gs[i])
      OBVIOUS
    <3>1. ChildOf(fs[i - 1], fs[i])
      BY <2>1 DEF VisitOK
    <3>2. i - 1 \in 1..L /\ i - 1 # L
      BY <1>1
    <3>3. gs[i - 1] = fs[i - 1]
      BY <1>1, <3>2
    <3> QED
      BY <2>1, <3>1, <3>3 DEF ChildOf
  <2>4. gs[i].next <= VisitCount(gs[i].node) + 1 /\ (fs[i].next >= 1 => gs[i].next >= 1)
    <3>1. CASE i = L
      <4>1. VisitCount(gs[i].node) \in Nat
        BY <1>1, <2>1, VisitedIsKid DEF Whole
      <4> QED
        BY <1>1, <3>1, <4>1
    <3>2. CASE i # L
      BY <1>1, <2>1, <3>2 DEF VisitOK
    <3> QED
      BY <3>1, <3>2
  <2> QED
    BY <2>1, <2>2, <2>3, <2>4 DEF VisitOK
<1> QED
  BY <1>1, <1>2 DEF CallStackOK

\* A statement or a declaration calls a statement.
LEMMA CalledStack ==
  ASSUME Whole, NEW fs, CallStackOK(fs), NEW gs \in Seq(FrameSet), ChildCalled(fs, gs)
  PROVE  CallStackOK(gs)
<1> DEFINE L == Len(fs)
           n == fs[L].node
           c == VisitKid(n, fs[L].next)
<1>0. AstTypeOK /\ phase \in {"sema", "codegen"}
  BY DEF Whole
<1>1. /\ L \in Nat /\ L >= 1 /\ fs[1].node = 1
      /\ \A i \in 1..L : VisitOK(fs, i) /\ fs[i].node \in Nodes /\ fs[i].next \in Nat
  BY StackFacts DEF CallStackOK
<1>2. /\ fs[L].next \in 1..VisitCount(n)
      /\ \A i \in 1..L : gs[i].node = fs[i].node /\ (i # L => gs[i] = fs[i])
      /\ gs[L].next = fs[L].next + 1
      /\ IF IsNull(c) THEN Len(gs) = L ELSE Len(gs) = L + 1 /\ gs[L + 1] = Frame(c)
  BY DEF ChildCalled
<1>3. VisitCount(n) \in Nat /\ n \in Nodes
  BY <1>0, <1>1, VisitedIsKid
<1>4. ASSUME NEW i \in 1..L PROVE VisitOK(gs, i)
  <2>1. VisitOK(fs, i) /\ gs[i].node = fs[i].node
    BY <1>1, <1>2
  <2>2. i >= 3 => gs[2].node = fs[2].node
    BY <1>1, <1>2
  <2>3. i >= 2 => ChildOf(gs[i - 1], gs[i])
    <3> SUFFICES ASSUME i >= 2 PROVE ChildOf(gs[i - 1], gs[i])
      OBVIOUS
    <3>1. ChildOf(fs[i - 1], fs[i])
      BY <2>1 DEF VisitOK
    <3>2. i - 1 \in 1..L /\ i - 1 # L
      BY <1>1
    <3>3. gs[i - 1] = fs[i - 1]
      BY <1>2, <3>2
    <3> QED
      BY <2>1, <3>1, <3>3 DEF ChildOf
  <2>4. gs[i].next <= VisitCount(gs[i].node) + 1 /\ (fs[i].next >= 1 => gs[i].next >= 1)
    <3>1. CASE i = L
      BY <1>1, <1>2, <1>3, <3>1
    <3>2. CASE i # L
      BY <1>2, <2>1, <3>2 DEF VisitOK
    <3> QED
      BY <3>1, <3>2
  <2> QED
    BY <2>1, <2>2, <2>3, <2>4 DEF VisitOK
<1>5. ASSUME ~IsNull(c) PROVE VisitOK(gs, L + 1)
  <2>1. gs[L + 1].node = c /\ gs[L + 1].next = IF Kind(c) \in ScopedKinds THEN 0 ELSE 1
    BY <1>2, <1>5 DEF Frame
  <2>2. /\ c \in Nodes /\ Kind(c) # "PROGRAM"
        /\ Kind(c) = "FUNC_DECL" => Kind(n) = "PROGRAM"
        /\ Kind(n) = "PROGRAM" => Kind(c) \in {"FUNC_DECL", "VAR_DECL"}
        /\ Kind(n) = "FUNC_DECL" => Kind(c) \in StmtKinds
        /\ Kind(n) \in ExprKinds \cup {"VAR_DECL"} => Kind(c) \in ExprKinds \cup Null
        /\ Kind(n) \in StmtKinds => Kind(c) \in StmtKinds \cup ExprKinds \cup Null
    BY <1>0, <1>2, <1>3, VisitKinds
  <2>3. VisitCount(c) \in Nat
    BY <1>0, <2>2, VisitedIsKid
  <2>4. Kind(n) \in KindsAt(L) /\ (L >= 3 /\ Kind(n) \in StmtKinds => Kind(fs[2].node) = "FUNC_DECL")
    BY <1>1 DEF VisitOK
  <2>5. Kind(c) \notin Null
    BY <1>5 DEF IsNull, Null
  <2>6. Kind(c) \in KindsAt(L + 1)
    <3>1. CASE L = 1
      BY <2>2, <2>4, <3>1 DEF KindsAt
    <3>2. CASE L # 1
      <4> HIDE DEF L
      <4>1. L + 1 # 1 /\ L + 1 # 2
        BY <1>1, <3>2
      <4>2. Kind(n) \in {"FUNC_DECL", "VAR_DECL"} \cup StmtKinds \cup ExprKinds
        BY <2>4, <3>2 DEF KindsAt
      <4> QED
        BY <2>2, <2>5, <4>1, <4>2 DEF KindsAt
    <3> QED
      BY <3>1, <3>2
  <2>7. L + 1 >= 3 /\ Kind(c) \in StmtKinds => Kind(gs[2].node) = "FUNC_DECL"
    <3> SUFFICES ASSUME L + 1 >= 3, Kind(c) \in StmtKinds PROVE Kind(gs[2].node) = "FUNC_DECL"
      OBVIOUS
    <3>1. L >= 2 /\ gs[2].node = fs[2].node
      BY <1>1, <1>2
    <3>2. Kind(c) \notin ExprKinds \cup Null
      BY DEF StmtKinds, ExprKinds, Literals, Null
    <3>3. CASE L = 2
      BY <2>2, <2>4, <3>1, <3>2, <3>3 DEF KindsAt
    <3>4. CASE L # 2
      <4> HIDE DEF L
      <4>1. L >= 3 /\ L # 1
        BY <1>1, <3>1, <3>4
      <4>2. Kind(n) \in StmtKinds
        BY <2>2, <2>4, <3>2, <3>4, <4>1 DEF KindsAt
      <4> QED
        BY <2>4, <3>1, <4>1, <4>2
    <3> QED
      BY <3>3, <3>4
  <2>8. ChildOf(gs[(L + 1) - 1], gs[L + 1])
    <3>1. (L + 1) - 1 = L /\ L \in 1..L
      BY <1>1
    <3>2. fs[L].next \in Nat /\ fs[L].next >= 1 /\ fs[L].next <= VisitCount(n)
      BY <1>2, <1>3
    <3>3. gs[L].next = fs[L].next + 1 /\ gs[L].node = n
      BY <1>2, <3>1
    <3> HIDE DEF L
    <3>4. gs[L].next >= 2 /\ gs[L].next - 1 = fs[L].next
      BY <3>2, <3>3
    <3> QED
      BY <2>1, <3>1, <3>2, <3>3, <3>4 DEF ChildOf
  <2> HIDE DEF c, n
  <2> QED
    BY <2>1, <2>3, <2>6, <2>7, <2>8 DEF VisitOK
<1>6. gs[1].node = 1
  BY <1>1, <1>2
<1>7. Len(gs) = L \/ (~IsNull(c) /\ Len(gs) = L + 1 /\ 1..Len(gs) = 1..L \cup {L + 1})
  BY <1>1, <1>2
<1>8. Len(gs) >= 1
  BY <1>1, <1>7
<1>9. \A i \in 1..Len(gs) : VisitOK(gs, i)
  <2> HIDE DEF L, c
  <2> QED
    BY <1>4, <1>5, <1>7
<1> QED
  BY <1>6, <1>8, <1>9 DEF CallStackOK

-----------------------------------------------------------------------------
(* What is visible from a name that is evaluated: what CodeGen has met.    *)

\* e is a name in child l of the running statement, the expression it evaluates; the post
\* expression of a loop comes after the body.
Evaluates(fs, e, l) ==
  LET top == fs[Len(fs)]
  IN /\ e \in Nodes /\ Kind(e) = "IDENT" /\ Kind(top.node) \in StmtKinds
     /\ l \in 1..VisitCount(top.node) /\ Kind(VisitKid(top.node, l)) \in ExprKinds
     /\ Under(e, VisitKid(top.node, l))
     /\ l = top.next - 1 \/ (Kind(top.node) = "FOR" /\ l = 3 /\ top.next = 5)

LEMMA EvaluatedIn ==
  ASSUME Whole, NEW fs, CallStackOK(fs), NEW e, NEW l, Evaluates(fs, e, l), NEW m
  PROVE  Under(e, m) <=> (Under(m, VisitKid(fs[Len(fs)].node, l)) /\ Under(e, m)) \/ OnPath(fs, Len(fs), m)
<1> DEFINE L == Len(fs)
           n == fs[L].node
           c == VisitKid(n, l)
<1>0. AstTypeOK /\ TreeOK
  BY DEF Whole
<1>1. L \in Nat /\ L >= 1 /\ n \in Nodes
  BY StackFacts
<1>2. /\ l \in 1..VisitCount(n) /\ e \in Nodes /\ Under(e, c) /\ Kind(n) \in StmtKinds
  BY DEF Evaluates
<1>3. /\ c \in Nodes /\ c # 1
      /\ Under(c, m) <=> m = c \/ Under(n, m) \/ (Kind(n) = "FUNC_DECL" /\ m = Kid(n, 1))
  BY <1>1, <1>2, VisitedUnder
<1>4. Under(n, m) <=> OnPath(fs, L, m)
  BY <1>1, PathIsStack
<1>5. Kind(n) # "FUNC_DECL"
  BY <1>2 DEF StmtKinds
<1>6. ASSUME OnPath(fs, L, m) PROVE Under(e, m)
  <2>1. Under(c, m)
    BY <1>3, <1>4, <1>6
  <2> QED
    BY <1>0, <1>2, <2>1, UnderTransitive
<1>7. ASSUME Under(e, m), ~Under(m, c) PROVE OnPath(fs, L, m)
  <2>1. Under(c, m)
    BY <1>2, <1>7, AncestorsOrdered
  <2>2. m # c
    BY <1>0, <1>3, <1>7, UnderSelf
  <2> QED
    BY <1>3, <1>4, <1>5, <2>1, <2>2
<1> QED
  BY <1>6, <1>7

\* The scopes around it are the open ones.
LEMMA ScopesAround ==
  ASSUME Whole, NEW fs, CallStackOK(fs), NEW e, NEW l, Evaluates(fs, e, l), NEW m \in Nodes, OpensScope(m)
  PROVE  Under(e, m) <=> \E i \in OpenAt(fs) : fs[i].node = m
<1> DEFINE L == Len(fs)
           n == fs[L].node
           c == VisitKid(n, l)
<1>0. AstTypeOK /\ TreeOK /\ phase \in {"sema", "codegen"}
  BY DEF Whole
<1>1. /\ L \in Nat /\ L >= 1 /\ fs[1].node = 1
      /\ \A i \in 1..L : fs[i].node \in Nodes /\ fs[i].next \in Nat
      /\ \A i \in 2..L : fs[i - 1].next >= 2
  BY StackFacts
<1>2. /\ l \in 1..VisitCount(n) /\ Kind(c) \in ExprKinds /\ Kind(n) \in StmtKinds
      /\ l = fs[L].next - 1 \/ fs[L].next = 5
  BY DEF Evaluates
<1>3. VisitCount(n) \in Nat /\ c \in Nodes
  BY <1>0, <1>1, <1>2, VisitedIsKid, VisitedUnder
<1>4. \A j \in 1..L : fs[j].next >= 1
  <2> SUFFICES ASSUME NEW j \in 1..L PROVE fs[j].next >= 1
    OBVIOUS
  <2>1. CASE j = L
    BY <1>1, <1>2, <1>3, <2>1
  <2>2. CASE j # L
    <3>1. j + 1 \in 2..L /\ (j + 1) - 1 = j
      BY <1>1, <2>2
    <3>2. fs[j].next >= 2 /\ fs[j].next \in Nat
      BY <1>1, <3>1
    <3> QED
      BY <3>2
  <2> QED
    BY <2>1, <2>2
<1>5. ~Under(m, c)
  <2>1. Kind(m) \in {"PROGRAM", "FUNC_DECL", "FOR", "BLOCK"}
    BY DEF OpensScope
  <2>2. Under(m, c) => Kind(m) \in ExprKinds \cup Null
    BY <1>2, <1>3, ExpressionsDeclareNothing
  <2> QED
    BY <2>1, <2>2 DEF ExprKinds, Literals, Null
<1>6. Under(e, m) <=> OnPath(fs, L, m)
  BY <1>5, EvaluatedIn
<1>7. ASSUME NEW j \in 1..(L - 1), Kind(fs[j].node) = "FUNC_DECL", m = Kid(fs[j].node, 1)
      PROVE  FALSE
  <2>1. fs[j].node \in Nodes
    BY <1>1
  <2>2. Arity(fs[j].node) = 1
    BY <1>0, <1>7, <2>1, NodeFacts DEF HasArity
  <2>3. Kind(m) \in {"BLOCK", "NULL"} /\ Parent(m) = fs[j].node
    BY <1>0, <1>7, <2>1, <2>2, KindsOfKids, ParentFacts
  <2> QED
    BY <1>7, <2>3 DEF OpensScope
<1>8. ASSUME NEW j \in 1..L, m = fs[j].node PROVE j \in OpenAt(fs)
  <2>1. Kind(m) \in {"PROGRAM", "FUNC_DECL", "FOR", "BLOCK"}
    BY DEF OpensScope
  <2>2. CASE Kind(m) = "PROGRAM"
    <3>1. VisitOK(fs, j)
      BY DEF CallStackOK
    <3>2. j = 1
      BY <1>8, <2>2, <3>1 DEF VisitOK, KindsAt, StmtKinds, ExprKinds, Literals
    <3> QED
      BY <1>1, <3>2 DEF OpenAt
  <2>3. CASE Kind(m) # "PROGRAM"
    <3>1. fs[j].next > 0
      BY <1>1, <1>4
    <3> QED
      BY <1>8, <2>1, <2>3, <3>1 DEF OpenAt, HasScope, ScopedKinds
  <2> QED
    BY <2>2, <2>3
<1>9. \A j \in OpenAt(fs) : j \in 1..L
  BY DEF OpenAt
<1>10. OnPath(fs, L, m) <=> \E j \in 1..L : m = fs[j].node
  BY <1>7 DEF OnPath
<1> QED
  BY <1>6, <1>8, <1>9, <1>10

\* What ends before the name is finished.
LEMMA PrecedingIsFinished ==
  ASSUME Whole, NEW fs, CallStackOK(fs), NEW e, NEW l, Evaluates(fs, e, l), NEW d, Declares(d), Precedes(d, e)
  PROVE  Finished(fs, d)
<1> DEFINE L == Len(fs)
           n == fs[L].node
           c == VisitKid(n, l)
<1>0. AstTypeOK /\ TreeOK /\ phase \in {"sema", "codegen"} /\ Nodes \in SUBSET Nat
  BY ParentFacts DEF Whole
<1>1. /\ L \in Nat /\ L >= 1 /\ fs[1].node = 1
      /\ \A i \in 1..L : fs[i].node \in Nodes /\ fs[i].next \in Nat
      /\ \A i \in 2..L : /\ fs[i - 1].next - 1 \in 1..VisitCount(fs[i - 1].node)
                         /\ fs[i].node = VisitKid(fs[i - 1].node, fs[i - 1].next - 1)
  BY StackFacts
<1>2. /\ l \in 1..VisitCount(n) /\ Kind(c) \in ExprKinds /\ Kind(n) \in StmtKinds /\ e \in Nodes
      /\ Under(e, c) /\ l < fs[L].next
  <2>0. n \in Nodes
    BY <1>1
  <2>1. VisitCount(n) \in Nat
    BY <1>0, <2>0, VisitedIsKid
  <2> QED
    BY <1>1, <2>1 DEF Evaluates
<1>3. c \in Nodes /\ c # 1 /\ d \in Nodes /\ Kind(d) \in {"VAR_DECL", "FUNC_DECL"}
  BY <1>1, <1>2, VisitedUnder DEF Declares
<1>4. \A a \in Nodes : Kind(a) \in ExprKinds \cup Null => ~Under(d, a)
  BY <1>3, ExpressionsDeclareNothing DEF ExprKinds, Literals, Null
<1>5. PICK a \in Path[d] \ {1}, b \in Path[e] \ {1} : a < b /\ Parent(a) = Parent(b)
  BY DEF Precedes
<1>6. a # 1 /\ b # 1 /\ Under(d, a) /\ Under(e, b) /\ a < b /\ Parent(a) = Parent(b)
  BY <1>5 DEF Under
<1>7. a \in Nodes /\ b \in Nodes /\ a \in Nat /\ b \in Nat /\ a # b
  <2>1. \A m, k : m \in Nodes /\ Under(m, k) => k \in Nodes
    BY <1>0, UnderFacts
  <2>2. a \in Nodes /\ b \in Nodes
    BY <1>2, <1>3, <1>6, <2>1
  <2>3. \A m \in Nodes : m \in Nat
    BY <1>0
  <2> QED
    BY <1>6, <2>2, <2>3
<1>8. b = c \/ ~Under(b, c)
  <2> SUFFICES ASSUME b # c, Under(b, c) PROVE FALSE
    OBVIOUS
  <2>1. Under(Parent(b), c)
    BY <1>0, <1>6, <1>7, UnderParent
  <2>2. Parent(a) \in Nodes /\ Under(a, Parent(a))
    BY <1>0, <1>6, <1>7, ParentFacts, UnderParent, UnderSelf
  <2>3. Under(a, c)
    BY <1>0, <1>6, <1>7, <2>1, <2>2, UnderTransitive
  <2>4. Under(d, c)
    BY <1>0, <1>3, <1>6, <2>3, UnderTransitive
  <2> QED
    BY <1>2, <1>3, <1>4, <2>4
<1>9. \A q \in Nodes : Arity(q) = 1 => b # Kid(q, 1)
  <2> SUFFICES ASSUME NEW q \in Nodes, Arity(q) = 1, b = Kid(q, 1) PROVE FALSE
    OBVIOUS
  <2>1. Parent(b) = q
    BY <1>0, ParentFacts
  <2>2. PICK i \in 1..Arity(Parent(a)) : Kid(Parent(a), i) = a
    BY <1>0, <1>6, <1>7, ParentFacts
  <2>3. i \in 1..1 /\ Kid(q, i) = a
    BY <1>6, <2>1, <2>2
  <2> QED
    BY <1>7, <2>3
<1>10. CASE b = c
  <2>1. \/ \E k \in 1..VisitCount(n) : k < l /\ a = VisitKid(n, k)
        \/ Kind(n) = "CALL" /\ a = Kid(n, 1)
    <3>1. n \in Nodes /\ l \in 1..VisitCount(n) /\ a \in Nodes /\ a # 1
      BY <1>1, <1>2, <1>6, <1>7
    <3>2. a < VisitKid(n, l) /\ Parent(a) = Parent(VisitKid(n, l))
      BY <1>6, <1>10
    <3> HIDE DEF n
    <3> QED
      BY <3>1, <3>2, SiblingsBefore
  <2>2. Kind(n) # "CALL"
    BY <1>2 DEF StmtKinds
  <2>3. PICK k \in 1..VisitCount(n) : k < l /\ a = VisitKid(n, k)
    BY <2>1, <2>2
  <2>4. Past(fs, L) = fs[L].next /\ L \in 1..L
    BY <1>1 DEF Past
  <2>5. VisitCount(n) \in Nat
    <3>1. n \in Nodes
      BY <1>1
    <3> HIDE DEF n
    <3> QED
      BY <1>0, <3>1, VisitedIsKid
  <2>6. k < Past(fs, L)
    BY <1>1, <1>2, <2>3, <2>4, <2>5
  <2> QED
    BY <1>6, <2>3, <2>4, <2>6 DEF Finished
<1>11. CASE b # c
  <2>1. OnPath(fs, L, b)
    BY <1>6, <1>8, <1>11, EvaluatedIn
  <2>2. ASSUME NEW j \in 1..L, b = fs[j].node PROVE Finished(fs, d)
    <3>1. j # 1
      BY <1>1, <1>6, <2>2
    <3>2. j \in 2..L /\ j - 1 \in 1..L /\ j - 1 < L
      BY <1>1, <3>1
    <3> DEFINE r == fs[j - 1].next - 1
               q == fs[j - 1].node
    <3>3. q \in Nodes /\ r \in 1..VisitCount(q) /\ b = VisitKid(q, r)
      BY <1>1, <2>2, <3>2
    <3>4. \/ \E k \in 1..VisitCount(q) : k < r /\ a = VisitKid(q, k)
          \/ Kind(q) = "CALL" /\ a = Kid(q, 1)
      <4> HIDE DEF r, q
      <4> QED
        BY <1>6, <1>7, <3>3, SiblingsBefore
    <3>5. CASE Kind(q) = "CALL" /\ a = Kid(q, 1)
      <4>1. Kind(q) \in ExprKinds /\ 1 \in 1..Arity(q)
        <5>1. Arity(q) \in Nat /\ Arity(q) >= 1
          BY <1>0, <3>3, <3>5, NodeFacts DEF HasArity
        <5> QED
          BY <3>5, <5>1 DEF ExprKinds
      <4>2. Kind(a) \in ExprKinds
        BY <1>0, <3>3, <3>5, <4>1, KindsOfKids
      <4> QED
        BY <1>4, <1>6, <1>7, <4>2
    <3>6. CASE \E k \in 1..VisitCount(q) : k < r /\ a = VisitKid(q, k)
      <4>1. Past(fs, j - 1) = r
        BY <3>2 DEF Past
      <4> QED
        BY <1>6, <3>2, <3>6, <4>1 DEF Finished
    <3> QED
      BY <3>4, <3>5, <3>6
  <2>3. ASSUME NEW j \in 1..(L - 1), Kind(fs[j].node) = "FUNC_DECL", b = Kid(fs[j].node, 1)
        PROVE  FALSE
    <3>1. fs[j].node \in Nodes
      BY <1>1
    <3>2. Arity(fs[j].node) = 1
      BY <1>0, <2>3, <3>1, NodeFacts DEF HasArity
    <3> QED
      BY <1>9, <2>3, <3>1, <3>2
  <2> QED
    BY <2>1, <2>2, <2>3 DEF OnPath
<1> QED
  BY <1>10, <1>11

\* What is finished ends before the name, but for what the body of a loop declares when the
\* post expression is evaluated.
LEMMA FinishedPrecedes ==
  ASSUME Whole, NEW fs, CallStackOK(fs), NEW e, NEW l, Evaluates(fs, e, l), NEW d, Declares(d), Finished(fs, d)
  PROVE  LET n == fs[Len(fs)].node
         IN Precedes(d, e) \/ (Kind(n) = "FOR" /\ l = 3 /\ Under(d, VisitKid(n, 4)))
<1> DEFINE L == Len(fs)
           n == fs[L].node
           c == VisitKid(n, l)
<1>0. AstTypeOK /\ TreeOK /\ phase \in {"sema", "codegen"} /\ Nodes \in SUBSET Nat
  BY ParentFacts DEF Whole
<1>1. /\ L \in Nat /\ L >= 1 /\ fs[1].node = 1
      /\ \A i \in 1..L : fs[i].node \in Nodes /\ fs[i].next \in Nat
      /\ \A i \in 2..L : /\ fs[i - 1].next - 1 \in 1..VisitCount(fs[i - 1].node)
                         /\ fs[i].node = VisitKid(fs[i - 1].node, fs[i - 1].next - 1)
  BY StackFacts
<1>2. /\ l \in 1..VisitCount(n) /\ Kind(c) \in ExprKinds /\ Kind(n) \in StmtKinds /\ e \in Nodes
      /\ Under(e, c)
      /\ l = fs[L].next - 1 \/ (Kind(n) = "FOR" /\ l = 3 /\ fs[L].next = 5)
  BY DEF Evaluates
<1>3. c \in Nodes /\ c # 1 /\ d \in Nodes /\ Kind(d) \in {"VAR_DECL", "FUNC_DECL"}
  BY <1>1, <1>2, VisitedUnder DEF Declares
<1>4. PICK i \in 1..L : \E k \in 1..VisitCount(fs[i].node) : k < Past(fs, i) /\ Under(d, VisitKid(fs[i].node, k))
  BY DEF Finished
<1>5. PICK k \in 1..VisitCount(fs[i].node) : k < Past(fs, i) /\ Under(d, VisitKid(fs[i].node, k))
  BY <1>4
<1>6. CASE i = L
  <2>1. Past(fs, i) = fs[L].next
    BY <1>1, <1>6 DEF Past
  <2>2. VisitCount(n) \in Nat /\ k \in 1..VisitCount(n) /\ k < fs[L].next
    BY <1>0, <1>1, <1>5, <1>6, <2>1, VisitedIsKid
  <2>3. k # l
    <3>1. ~Under(d, c)
      BY <1>2, <1>3, ExpressionsDeclareNothing DEF ExprKinds, Literals, Null
    <3> QED
      BY <1>5, <1>6, <3>1
  <2>4. CASE k < l
    <3>1. VisitKid(n, k) < c /\ Parent(VisitKid(n, k)) = Parent(c)
      BY <1>1, <1>2, <2>2, <2>4, VisitSiblings
    <3>2. VisitKid(n, k) \in Nodes /\ VisitKid(n, k) # 1
      BY <1>1, <2>2, VisitedUnder
    <3>3. Under(d, VisitKid(n, k))
      BY <1>5, <1>6
    <3>4. VisitKid(n, k) \in Path[d] \ {1} /\ c \in Path[e] \ {1}
      BY <1>2, <1>3, <3>2, <3>3 DEF Under
    <3> QED
      BY <3>1, <3>4 DEF Precedes
  <2>5. CASE ~(k < l)
    <3>1. Kind(n) = "FOR" /\ l = 3 /\ k = 4
      <4> HIDE DEF L, n, c
      <4> QED
        BY <1>1, <1>2, <2>2, <2>3, <2>5
    <3> QED
      BY <1>5, <1>6, <3>1
  <2> QED
    BY <2>4, <2>5
<1>7. CASE i # L
  <2> DEFINE a == VisitKid(fs[i].node, k)
             b == fs[i + 1].node
  <2>1. i + 1 \in 2..L /\ i + 1 \in 1..L /\ (i + 1) - 1 = i /\ i < L
    BY <1>1, <1>7
  <2>2. /\ fs[i].next - 1 \in 1..VisitCount(fs[i].node)
        /\ b = VisitKid(fs[i].node, fs[i].next - 1)
    BY <1>1, <2>1
  <2>3. k < fs[i].next - 1
    BY <1>5, <2>1 DEF Past
  <2>4. a < b /\ Parent(a) = Parent(b)
    BY <1>1, <2>2, <2>3, VisitSiblings
  <2>5. a # 1 /\ b # 1 /\ a \in Nodes /\ b \in Nodes
    BY <1>1, <2>2, VisitedUnder
  <2>6. OnPath(fs, L, b)
    BY <2>1 DEF OnPath
  <2>7. Under(e, b)
    BY <2>6, EvaluatedIn
  <2> QED
    BY <1>3, <1>5, <2>4, <2>5, <2>7 DEF Precedes, Under
<1> QED
  BY <1>6, <1>7

-----------------------------------------------------------------------------
(* The variables CodeGen has met: a variable is one before its initialiser. *)

Met(fs) ==
  LET top == fs[Len(fs)]
  IN {s \in Seen(fs) : ~IsFunction(s)}
       \cup {s \in Sites : Kind(top.node) = "VAR_DECL" /\ s.decl = top.node /\ top.next = 2}

IsOpen(fs, n) == \E i \in OpenAt(fs) : fs[i].node = n

LEMMA MetFacts ==
  ASSUME NEW fs, NEW s \in Met(fs)
  PROVE  s \in Sites /\ ~IsFunction(s)
  BY DEF Met, Seen, IsFunction

LEMMA VisibleIsMet ==
  ASSUME Whole, NEW fs, CallStackOK(fs), NEW e, NEW l, Evaluates(fs, e, l),
         NEW s \in Sites, ~IsFunction(s), Visible(s, e)
  PROVE  s \in Met(fs) /\ IsOpen(fs, SiteScope(s))
<1>1. /\ s.decl \in Nodes /\ Kind(s.decl) \in {"VAR_DECL", "FUNC_DECL"}
      /\ SiteScope(s) \in Nodes /\ OpensScope(SiteScope(s))
  BY SiteFacts
<1>2. /\ Under(e, SiteScope(s))
      /\ Precedes(s.decl, e) \/ (Kind(s.decl) = "FUNC_DECL" /\ Under(e, s.decl))
  BY DEF Visible
<1>3. IsOpen(fs, SiteScope(s))
  BY <1>1, <1>2, ScopesAround DEF IsOpen
<1>4. CASE Precedes(s.decl, e)
  <2>1. Finished(fs, s.decl)
    BY <1>1, <1>4, PrecedingIsFinished DEF Declares
  <2> QED
    BY <1>3, <2>1 DEF Met, Seen
<1>5. CASE Kind(s.decl) = "FUNC_DECL" /\ Under(e, s.decl)
  <2>1. OpensScope(s.decl)
    BY <1>5 DEF OpensScope
  <2>2. PICK i \in OpenAt(fs) : fs[i].node = s.decl
    BY <1>1, <1>5, <2>1, ScopesAround
  <2>3. i \in 1..Len(fs) /\ (i = 1 \/ HasScope(fs[i]))
    BY <2>2 DEF OpenAt
  <2>4. fs[1].node = 1 /\ s.decl # 1
    BY StackFacts, SiteFacts
  <2>5. fs[i].next > 0
    BY <2>2, <2>3, <2>4 DEF HasScope
  <2>6. Entered(fs, s.decl)
    BY <1>5, <2>2, <2>3, <2>5 DEF Entered
  <2> QED
    BY <1>3, <2>6 DEF Met, Seen
<1> QED
  BY <1>2, <1>4, <1>5

LEMMA FunctionAbove ==
  ASSUME Whole, NEW q \in Nodes, Kind(q) = "FUNC_DECL", NEW x, Under(q, x)
  PROVE  x = 1 \/ x = q
  BY FunctionsAtTop DEF Under

\* Where the body of a loop declares a name in the loop's own scope, the post expression can see it.
LEMMA MetInBody ==
  ASSUME Whole, NEW f \in Nodes, Kind(f) = "FOR", NEW d, Declares(d), Under(d, VisitKid(f, 4)),
         NEW e \in Nodes, Under(e, VisitKid(f, 3)), Under(e, Owner[d])
  PROVE  Kind(d) = "VAR_DECL" /\ InPostBeforeBody(e, d)
<1> DEFINE b == Kid(f, 4)
<1>0. AstTypeOK /\ TreeOK /\ phase \in {"sema", "codegen"}
  BY DEF Whole
<1>1. Arity(f) = 4 /\ VisitKid(f, 4) = b /\ VisitKid(f, 3) = Kid(f, 3) /\ VisitCount(f) = 4
  BY <1>0, NodeFacts DEF HasArity, VisitKid, VisitCount
<1>2. /\ b \in Nodes /\ Kid(f, 3) \in Nodes /\ b # 1 /\ Kid(f, 3) # 1
      /\ Parent(b) = f /\ Parent(Kid(f, 3)) = f
  BY <1>0, <1>1, ParentFacts
<1>3. b # Kid(f, 3)
  <2>1. 3 \in 1..Arity(f) /\ 4 \in 1..Arity(f)
    BY <1>1
  <2> QED
    BY <1>0, <2>1 DEF TreeOK, OneParent
<1>4. Siblings(Kid(f, 3), b)
  BY <1>2, <1>3 DEF Siblings
<1>5. d \in Nodes /\ Kind(d) \in {"VAR_DECL", "FUNC_DECL"} /\ Under(d, b) /\ Under(e, Kid(f, 3))
  BY <1>1 DEF Declares
<1>6. Under(b, f) /\ f # 1
  <2>1. Under(f, f) /\ Kind(1) = "PROGRAM"
    BY <1>0, UnderSelf, KindsOfKids
  <2> QED
    BY <1>0, <1>2, <2>1, UnderParent
<1>7. ASSUME NEW q \in Nodes, Kind(q) = "FUNC_DECL" PROVE ~Under(q, f) /\ ~Under(q, b)
  <2>1. ~Under(q, f)
    BY <1>6, <1>7, FunctionAbove
  <2> QED
    BY <1>0, <1>6, <1>7, <2>1, UnderTransitive
<1>8. Kind(d) = "VAR_DECL"
  BY <1>5, <1>7
<1>9. ASSUME NEW m \in Nodes, Under(d, m), Under(m, b), Kind(m) \in {"BLOCK", "FOR"} PROVE FALSE
  <2>1. m # 1
    BY <1>0, <1>9, KindsOfKids
  <2>2. Under(Parent(m), f) /\ Parent(m) \in Nodes
    <3>1. Under(m, f)
      BY <1>0, <1>6, <1>9, UnderTransitive
    <3>2. m # f
      <4>1. b > f
        BY <1>0, <1>1, <1>2, ParentFacts
      <4>2. b <= m
        BY <1>0, <1>9, UnderFacts
      <4>3. \A x \in Nodes : x \in Nat
        BY <1>0, ParentFacts
      <4>4. b \in Nat /\ m \in Nat /\ f \in Nat
        BY <1>2, <1>9, <4>3
      <4> HIDE DEF b
      <4> QED
        BY <4>1, <4>2, <4>4
    <3> QED
      BY <1>0, <2>1, <3>1, <3>2, UnderParent, ParentFacts
  <2>3. OpensScope(m)
    BY <1>7, <1>9, <2>2 DEF OpensScope
  <2>4. d # 1 /\ d # m
    BY <1>0, <1>8, <1>9, KindsOfKids
  <2>5. Under(Owner[d], m)
    BY <1>5, <1>9, <2>3, <2>4, OwnerInside
  <2>6. Under(e, m)
    BY <1>0, <2>5, UnderTransitive
  <2>7. Under(e, b)
    BY <1>0, <1>9, <2>6, UnderTransitive
  <2> QED
    BY <1>4, <1>5, <2>7, Apart
<1> QED
  BY <1>5, <1>8, <1>9 DEF InPostBeforeBody

LEMMA MetIsVisible ==
  ASSUME Whole, NEW fs, CallStackOK(fs), NEW e, NEW l, Evaluates(fs, e, l),
         NEW s \in Met(fs), IsOpen(fs, SiteScope(s))
  PROVE  Visible(s, e) \/ InOwnInitialiser(e, s.decl) \/ InPostBeforeBody(e, s.decl)
<1> DEFINE L == Len(fs)
           n == fs[L].node
<1>0. AstTypeOK /\ TreeOK
  BY DEF Whole
<1>1. L \in Nat /\ L >= 1 /\ \A i \in 1..L : fs[i].node \in Nodes
  BY StackFacts
<1>2. e \in Nodes /\ Under(e, VisitKid(n, l)) /\ l \in 1..VisitCount(n)
  BY DEF Evaluates
<1>3. s \in Sites /\ ~IsFunction(s)
  BY MetFacts
<1>4. /\ s.decl \in Nodes /\ Kind(s.decl) \in {"VAR_DECL", "FUNC_DECL"} /\ Declares(s.decl)
      /\ SiteScope(s) \in Nodes /\ OpensScope(SiteScope(s))
  BY <1>3, SiteFacts DEF Declares
<1>5. Under(e, SiteScope(s))
  BY <1>4, ScopesAround DEF IsOpen
<1>6. \A j \in 1..L : Under(e, fs[j].node)
  <2> SUFFICES ASSUME NEW j \in 1..L PROVE Under(e, fs[j].node)
    OBVIOUS
  <2>1. OnPath(fs, L, fs[j].node)
    BY DEF OnPath
  <2> QED
    BY <2>1, EvaluatedIn
<1>7. CASE Kind(n) = "VAR_DECL" /\ s.decl = n
  <2>1. Under(e, n)
    BY <1>1, <1>6
  <2> QED
    BY <1>7, <2>1 DEF InOwnInitialiser
<1>8. CASE Entered(fs, s.decl)
  <2>1. Kind(s.decl) = "FUNC_DECL" /\ Under(e, s.decl)
    BY <1>6, <1>8 DEF Entered
  <2> QED
    BY <1>5, <2>1 DEF Visible
<1>9. CASE Finished(fs, s.decl)
  <2>1. Precedes(s.decl, e) \/ (Kind(n) = "FOR" /\ l = 3 /\ Under(s.decl, VisitKid(n, 4)))
    BY <1>4, <1>9, FinishedPrecedes
  <2>2. ASSUME Kind(n) = "FOR", l = 3, Under(s.decl, VisitKid(n, 4)) PROVE InPostBeforeBody(e, s.decl)
    <3>1. n \in Nodes /\ Under(e, VisitKid(n, 3))
      BY <1>1, <1>2, <2>2
    <3>2. ~IsParam(s)
      <4>1. Kind(s.decl) # "FUNC_DECL"
        <5> SUFFICES ASSUME Kind(s.decl) = "FUNC_DECL" PROVE FALSE
          OBVIOUS
        <5>1. Arity(n) = 4 /\ VisitKid(n, 4) = Kid(n, 4)
          BY <1>0, <2>2, <3>1, NodeFacts DEF HasArity, VisitKid
        <5>2. Kid(n, 4) # 1 /\ Kid(n, 4) \in Nodes /\ 4 \in 1..Arity(n)
          BY <1>0, <3>1, <5>1, ParentFacts
        <5>3. Kind(Kid(n, 4)) # "FUNC_DECL"
          BY <1>0, <2>2, <3>1, <5>2, KindsOfKids DEF Whole
        <5>4. Kid(n, 4) = 1 \/ Kid(n, 4) = s.decl
          BY <1>4, <2>2, <5>1, FunctionAbove
        <5> QED
          BY <5>2, <5>3, <5>4
      <4> QED
        BY <1>3, <4>1, SiteFacts
    <3>3. SiteScope(s) = Owner[s.decl]
      BY <3>2 DEF SiteScope
    <3>4. Under(e, Owner[s.decl])
      BY <1>5, <3>3
    <3> HIDE DEF n
    <3> QED
      BY <1>2, <1>4, <2>2, <3>1, <3>4, MetInBody
  <2> QED
    BY <1>5, <2>1, <2>2 DEF Visible
<1> QED
  BY <1>7, <1>8, <1>9 DEF Met, Seen

-----------------------------------------------------------------------------
(* CodeGen's scopes, and what it looks up in them. *)

CgHolds(scope, n, met) ==
  /\ \A x \in DOMAIN scope :
       \E s \in met : /\ SiteScope(s) = n /\ SiteName(s) = x
                      /\ scope[x].decl = s.decl /\ scope[x].type = SiteType(s)
  /\ \A s \in met : SiteScope(s) = n => SiteName(s) \in DOMAIN scope

\* own[j] is the frame that has pushed scope j of m.
Pushed(own, fs, m) ==
  /\ own \in [1..m -> OpenAt(fs)]
  /\ \A i \in OpenAt(fs) : \E j \in 1..m : own[j] = i
  /\ \A j, k \in 1..m : j < k => own[j] < own[k]

CgOwns(own, fs, sc) ==
  Pushed(own, fs, Len(sc)) /\ \A j \in 1..Len(sc) : CgHolds(sc[j], fs[own[j]].node, Met(fs))

LEMMA CgLookupInner ==
  ASSUME NEW N \in Nat, DOMAIN env = 1..N, NEW x
  PROVE  \/ CgLookup(x) = NoVar /\ \A i \in 1..N : x \notin DOMAIN env[i]
         \/ \E i \in 1..N : /\ x \in DOMAIN env[i] /\ CgLookup(x) = env[i][x]
                            /\ \A j \in 1..N : j > i => x \notin DOMAIN env[j]
<1> DEFINE holders == {i \in 1..N : x \in DOMAIN env[i]}
<1>1. CgLookup(x) = IF holders = {} THEN NoVar
                    ELSE env[CHOOSE i \in holders : \A j \in holders : j <= i][x]
  BY DEF CgLookup
<1>2. CASE holders = {}
  BY <1>1, <1>2
<1>3. CASE holders # {}
  <2>1. \E i \in holders : \A j \in holders : j <= i
    BY <1>3, Extremes
  <2> DEFINE top == CHOOSE i \in holders : \A j \in holders : j <= i
  <2>2. top \in holders /\ \A j \in holders : j <= top
    BY <2>1
  <2>3. top \in 1..N /\ x \in DOMAIN env[top] /\ CgLookup(x) = env[top][x]
    BY <1>1, <1>3, <2>2
  <2>4. \A j \in 1..N : j > top => x \notin DOMAIN env[j]
    BY <2>2
  <2> QED
    BY <2>3, <2>4
<1> QED
  BY <1>2, <1>3

\* Of the declarations a name could mean one is inside or before all others.
LEMMA MeaningIsBest ==
  ASSUME Whole, NamesAccepted, NEW e \in Nodes, Declared(e)
  PROVE  /\ Meaning(e) \in Candidates(e)
         /\ \A t \in Candidates(e) \ {Meaning(e)} :
              \/ SiteScope(Meaning(e)) # SiteScope(t) /\ Under(SiteScope(Meaning(e)), SiteScope(t))
              \/ SiteScope(Meaning(e)) = SiteScope(t) /\ Earlier(Meaning(e), t)
<1> DEFINE C == Candidates(e)
           D == {SiteScope(s) : s \in C}
           Beats(s, t) == \/ SiteScope(s) # SiteScope(t) /\ Under(SiteScope(s), SiteScope(t))
                          \/ SiteScope(s) = SiteScope(t) /\ Earlier(s, t)
           Best(s) == \A t \in C \ {s} : Beats(s, t)
<1>0. AstTypeOK /\ TreeOK /\ Nodes \in SUBSET Nat
  BY ParentFacts DEF Whole
<1>1. Nodes = 1..Len(ast) /\ Len(ast) \in Nat
  BY <1>0, ParentFacts DEF Nodes, AstTypeOK
<1>2. \A s \in C : /\ s \in Sites /\ SiteName(s) = ast[e].name /\ Under(e, SiteScope(s))
                   /\ s.decl \in Nodes /\ SiteScope(s) \in Nodes /\ s = Site(s.decl, s.param)
  BY SiteFacts DEF Candidates, Visible
<1>3. PICK n \in D : \A m \in D : m <= n
  <2>1. D \in SUBSET (1..Len(ast)) /\ D # {}
    BY <1>1, <1>2 DEF Declared
  <2> HIDE DEF D
  <2> QED
    BY <1>1, <2>1, Extremes
<1> DEFINE F == {s.decl : s \in {t \in C : SiteScope(t) = n}}
<1>4. PICK d \in F : \A c \in F : d <= c
  <2>1. F \in SUBSET (1..Len(ast)) /\ F # {}
    BY <1>1, <1>2, <1>3
  <2> HIDE DEF F
  <2> QED
    BY <1>1, <2>1, Extremes
<1>5. PICK s \in C : SiteScope(s) = n /\ s.decl = d
  BY <1>4
<1>6. ASSUME NEW t \in C, t # s PROVE Beats(s, t)
  <2>1. CASE SiteScope(t) = n
    <3>1. IsFunction(s) /\ IsFunction(t)
      BY <1>2, <1>5, <1>6, <2>1 DEF NamesAccepted
    <3>2. s.param = 0 /\ t.param = 0
      BY <3>1 DEF IsFunction, IsParam
    <3>3. s.decl # t.decl
      BY <1>2, <1>6, <3>2
    <3>4. s.decl < t.decl
      <4>1. t.decl \in F
        BY <2>1
      <4>2. s.decl <= t.decl
        BY <1>4, <1>5, <4>1
      <4>3. s.decl \in Nat /\ t.decl \in Nat
        BY <1>0, <1>2
      <4> QED
        BY <3>3, <4>2, <4>3
    <3>5. s.decl \in Nodes /\ t.decl \in Nodes /\ Kind(s.decl) = "FUNC_DECL" /\ Kind(t.decl) = "FUNC_DECL"
      BY <1>2, <3>1 DEF IsFunction
    <3>6. /\ Path[s.decl] \ {1} = {s.decl} /\ Path[t.decl] \ {1} = {t.decl}
          /\ Parent(s.decl) = 1 /\ Parent(t.decl) = 1
      BY <3>5, FunctionsAtTop
    <3>7. Precedes(s.decl, t.decl)
      BY <3>4, <3>6 DEF Precedes
    <3> QED
      BY <1>5, <2>1, <3>3, <3>7 DEF Earlier
  <2>2. CASE SiteScope(t) # n
    <3>1. Under(n, SiteScope(t)) \/ Under(SiteScope(t), n)
      BY <1>2, <1>5, AncestorsOrdered
    <3>2. ASSUME Under(SiteScope(t), n) PROVE FALSE
      <4>1. n <= SiteScope(t) /\ SiteScope(t) <= n
        BY <1>0, <1>2, <1>3, <3>2, UnderFacts
      <4>2. n \in Nat /\ SiteScope(t) \in Nat
        BY <1>0, <1>2, <1>5
      <4> QED
        BY <2>2, <4>1, <4>2
    <3> QED
      BY <1>5, <2>2, <3>1, <3>2
  <2> QED
    BY <2>1, <2>2
<1>7. Best(s)
  BY <1>6
<1>8. Meaning(e) = CHOOSE t \in C : Best(t)
  BY DEF Meaning
<1>9. Meaning(e) \in C /\ Best(Meaning(e))
  <2> HIDE DEF C, Best
  <2> QED
    BY <1>5, <1>7, <1>8
<1> QED
  BY <1>9

\* CodeGen resolves a name to the declaration it means, to none only if that is a function, or to
\* one that the order of evaluation lets it see and Sema not.
LEMMA LookupAgrees ==
  ASSUME Whole, NEW fs, CallStackOK(fs), NEW e, NEW l, Evaluates(fs, e, l),
         Len(env) \in Nat, DOMAIN env = 1..Len(env), NEW own, CgOwns(own, fs, env),
         NamesAccepted, Declared(e), NEW var, var = CgLookup(ast[e].name)
  PROVE  /\ Meaning(e) \in Sites
         /\ var = NoVar => IsFunction(Meaning(e))
         /\ var # NoVar => /\ var.decl \in Nodes
                           /\ \/ var.decl = Meaning(e).decl
                              \/ InOwnInitialiser(e, var.decl)
                              \/ InPostBeforeBody(e, var.decl)
<1> DEFINE x == ast[e].name
           M == Meaning(e)
<1>0. AstTypeOK /\ TreeOK /\ Nodes \in SUBSET Nat /\ 0 \notin Nodes /\ e \in Nodes
  BY ParentFacts DEF Whole, Evaluates
<1>1. /\ M \in Candidates(e)
      /\ \A t \in Candidates(e) \ {M} :
           \/ SiteScope(M) # SiteScope(t) /\ Under(SiteScope(M), SiteScope(t))
           \/ SiteScope(M) = SiteScope(t) /\ Earlier(M, t)
  BY <1>0, MeaningIsBest
<1>2. M \in Sites /\ SiteName(M) = x /\ Visible(M, e)
  BY <1>1 DEF Candidates
<1> HIDE DEF M
<1>3. ASSUME ~IsFunction(M)
      PROVE  \E j \in 1..Len(env) : fs[own[j]].node = SiteScope(M) /\ x \in DOMAIN env[j]
  <2>1. M \in Met(fs) /\ IsOpen(fs, SiteScope(M))
    BY <1>2, <1>3, VisibleIsMet
  <2>2. PICK i \in OpenAt(fs) : fs[i].node = SiteScope(M)
    BY <2>1 DEF IsOpen
  <2>3. PICK j \in 1..Len(env) : own[j] = i
    BY <2>2 DEF CgOwns, Pushed
  <2>4. CgHolds(env[j], SiteScope(M), Met(fs))
    BY <2>2, <2>3 DEF CgOwns, Pushed
  <2> QED
    BY <1>2, <2>1, <2>2, <2>3, <2>4 DEF CgHolds
<1>4. CASE var = NoVar /\ \A i \in 1..Len(env) : x \notin DOMAIN env[i]
  BY <1>2, <1>3, <1>4 DEF M
<1>5. CASE \E i \in 1..Len(env) : /\ x \in DOMAIN env[i] /\ var = env[i][x]
                                  /\ \A j \in 1..Len(env) : j > i => x \notin DOMAIN env[j]
  <2>1. PICK i \in 1..Len(env) : /\ x \in DOMAIN env[i] /\ var = env[i][x]
                                 /\ \A j \in 1..Len(env) : j > i => x \notin DOMAIN env[j]
    BY <1>5
  <2>2. own[i] \in OpenAt(fs) /\ CgHolds(env[i], fs[own[i]].node, Met(fs))
    BY DEF CgOwns, Pushed
  <2>3. PICK s \in Met(fs) : SiteScope(s) = fs[own[i]].node /\ SiteName(s) = x /\ var.decl = s.decl
    BY <2>1, <2>2 DEF CgHolds
  <2>4. s \in Sites /\ ~IsFunction(s) /\ s.decl \in Nodes /\ SiteScope(s) \in Nodes /\ SiteScope(M) \in Nodes
    BY <1>2, MetFacts, SiteFacts
  <2>5. IsOpen(fs, SiteScope(s))
    BY <2>2, <2>3 DEF IsOpen
  <2>6. Visible(s, e) \/ InOwnInitialiser(e, s.decl) \/ InPostBeforeBody(e, s.decl)
    BY <2>5, MetIsVisible
  <2>7. ASSUME Visible(s, e) PROVE s = M
    <3>1. SUFFICES ASSUME s # M PROVE FALSE
      OBVIOUS
    <3>2. s \in Candidates(e)
      BY <2>3, <2>4, <2>7 DEF Candidates
    <3>3. SiteScope(M) # SiteScope(s)
      BY <1>2, <2>3, <2>4, <3>1 DEF NamesAccepted
    <3>4. Under(SiteScope(M), SiteScope(s))
      BY <1>1, <3>1, <3>2, <3>3
    <3>5. SiteScope(s) <= SiteScope(M)
      BY <1>0, <2>4, <3>4, UnderFacts
    <3>6. ~IsFunction(M)
      <4>1. SUFFICES ASSUME IsFunction(M) PROVE FALSE
        OBVIOUS
      <4>2. SiteScope(M) = 1
        BY <1>2, <4>1, SiteFacts
      <4>3. SiteScope(s) \in Nat /\ SiteScope(s) # 0 /\ SiteScope(s) <= 1 /\ SiteScope(s) # 1
        BY <1>0, <2>4, <3>3, <3>5, <4>2
      <4> QED
        BY <4>3
    <3>7. PICK j \in 1..Len(env) : fs[own[j]].node = SiteScope(M) /\ x \in DOMAIN env[j]
      BY <1>3, <3>6
    <3>8. ~(j > i) /\ j # i
      BY <2>1, <2>3, <3>3, <3>7
    <3>9. j < i
      BY <3>8
    <3>10. own[j] < own[i] /\ own[j] \in OpenAt(fs)
      BY <3>9 DEF CgOwns, Pushed
    <3>11. own[j] \in 1..Len(fs) /\ own[i] \in 1..Len(fs)
      BY <2>2, <3>10 DEF OpenAt
    <3>12. fs[own[j]].node < fs[own[i]].node
      BY <3>10, <3>11, StackOrder
    <3>13. SiteScope(M) < SiteScope(s) /\ SiteScope(M) \in Nat /\ SiteScope(s) \in Nat
      BY <1>0, <2>3, <2>4, <3>7, <3>12
    <3> QED
      BY <3>5, <3>13
  <2>8. var # NoVar
    BY <1>0, <2>3, <2>4 DEF NoVar, Var
  <2> QED
    BY <1>2, <2>3, <2>4, <2>6, <2>7, <2>8 DEF M
<1> QED
  BY <1>4, <1>5, CgLookupInner

-----------------------------------------------------------------------------
(* Which frames have pushed the scopes, after each step. *)

LEMMA PushedFacts ==
  ASSUME Whole, NEW fs, CallStackOK(fs), NEW m \in Nat, NEW own, Pushed(own, fs, m)
  PROVE  /\ m >= 1 /\ \A j \in 1..m : own[j] \in OpenAt(fs) /\ own[j] \in 1..Len(fs)
         /\ \A i \in OpenAt(fs) : i <= own[m]
         /\ \A j, k \in 1..m : j # k => own[j] # own[k] /\ fs[own[j]].node # fs[own[k]].node
<1> DEFINE L == Len(fs)
<1>0. Nodes \in SUBSET Nat
  BY ParentFacts DEF Whole
<1>1. L \in Nat /\ L >= 1 /\ \A i \in 1..L : fs[i].node \in Nodes
  BY StackFacts
<1>2. /\ own \in [1..m -> OpenAt(fs)]
      /\ \A i \in OpenAt(fs) : \E j \in 1..m : own[j] = i
      /\ \A j, k \in 1..m : j < k => own[j] < own[k]
  BY DEF Pushed
<1>3. \A j \in 1..m : own[j] \in OpenAt(fs) /\ own[j] \in 1..L
  BY <1>2 DEF OpenAt
<1>4. 1 \in OpenAt(fs)
  BY <1>1 DEF OpenAt
<1>5. m >= 1
  BY <1>2, <1>4
<1>6. \A i \in OpenAt(fs) : i <= own[m]
  <2> SUFFICES ASSUME NEW i \in OpenAt(fs) PROVE i <= own[m]
    OBVIOUS
  <2>1. PICK j \in 1..m : own[j] = i
    BY <1>2
  <2>2. m \in 1..m /\ (j = m \/ j < m)
    BY <1>5
  <2>3. own[j] \in Nat /\ own[m] \in Nat
    BY <1>3, <2>2
  <2>4. j = m \/ own[j] < own[m]
    BY <1>2, <2>2
  <2> QED
    BY <2>1, <2>3, <2>4
<1>7. ASSUME NEW j \in 1..m, NEW k \in 1..m, j < k
      PROVE  own[j] # own[k] /\ fs[own[j]].node # fs[own[k]].node
  <2>1. own[j] < own[k] /\ own[j] \in 1..L /\ own[k] \in 1..L
    BY <1>2, <1>3, <1>7
  <2>2. fs[own[j]].node < fs[own[k]].node
    BY <2>1, StackOrder
  <2>3. fs[own[j]].node \in Nat /\ fs[own[k]].node \in Nat
    BY <1>0, <1>1, <2>1
  <2> QED
    BY <2>1, <2>2, <2>3
<1>8. \A j, k \in 1..m : j # k => j < k \/ k < j
  OBVIOUS
<1> QED
  BY <1>3, <1>5, <1>6, <1>7, <1>8

LEMMA PushedLeave ==
  ASSUME Whole, NEW fs, CallStackOK(fs), Len(fs) >= 2, NEW gs, Popped(fs, gs), Len(fs) \in OpenAt(fs),
         NEW m \in Nat, NEW own, Pushed(own, fs, m)
  PROVE  own[m] = Len(fs) /\ \E pwn : Pushed(pwn, gs, m - 1) /\ \A j \in 1..(m - 1) : pwn[j] = own[j]
<1> DEFINE L == Len(fs)
           pwn == [j \in 1..(m - 1) |-> own[j]]
<1>0. L \in Nat
  BY StackFacts
<1>1. OpenAt(gs) = OpenAt(fs) \ {L}
  BY OpenAtSteps
<1>4. /\ own \in [1..m -> OpenAt(fs)]
      /\ \A i \in OpenAt(fs) : \E j \in 1..m : own[j] = i
      /\ \A j, k \in 1..m : j < k => own[j] < own[k]
  BY DEF Pushed
<1>5. /\ m >= 1 /\ \A j, k \in 1..m : j # k => own[j] # own[k]
      /\ \A i \in OpenAt(fs) : i <= own[m]
      /\ \A j \in 1..m : own[j] \in 1..L
  BY PushedFacts
<1>6. own[m] = L
  BY <1>0, <1>4, <1>5
<1>7. \A j \in 1..(m - 1) : own[j] \in OpenAt(gs) /\ pwn[j] = own[j] /\ j \in 1..m
  <2> SUFFICES ASSUME NEW j \in 1..(m - 1) PROVE own[j] \in OpenAt(gs) /\ j \in 1..m
    OBVIOUS
  <2>1. j \in 1..m /\ m \in 1..m /\ j # m
    BY <1>5
  <2>2. own[j] # L /\ own[j] \in OpenAt(fs)
    BY <1>4, <1>5, <1>6, <2>1
  <2> QED
    BY <1>1, <2>1, <2>2
<1>8. pwn \in [1..(m - 1) -> OpenAt(gs)]
  BY <1>7
<1> HIDE DEF pwn
<1>9. \A i \in OpenAt(gs) : \E j \in 1..(m - 1) : pwn[j] = i
  <2> SUFFICES ASSUME NEW i \in OpenAt(gs) PROVE \E j \in 1..(m - 1) : pwn[j] = i
    OBVIOUS
  <2>1. PICK j \in 1..m : own[j] = i
    BY <1>1, <1>4
  <2>2. j # m
    BY <1>1, <1>6, <2>1
  <2>3. j \in 1..(m - 1)
    BY <2>2
  <2> QED
    BY <1>7, <2>1, <2>3
<1>10. \A j, k \in 1..(m - 1) : j < k => pwn[j] < pwn[k]
  BY <1>4, <1>7
<1>11. Pushed(pwn, gs, m - 1)
  BY <1>8, <1>9, <1>10 DEF Pushed
<1> QED
  BY <1>6, <1>7, <1>11

LEMMA PushedOpen ==
  ASSUME Whole, NEW fs, CallStackOK(fs), NEW gs, Opened(fs, gs), Kind(fs[Len(fs)].node) \in ScopedKinds,
         NEW m \in Nat, NEW own, Pushed(own, fs, m)
  PROVE  \E pwn : /\ Pushed(pwn, gs, m + 1) /\ pwn[m + 1] = Len(fs)
                  /\ \A j \in 1..m : pwn[j] = own[j] /\ own[j] \in 1..Len(fs) /\ own[j] # Len(fs)
<1> DEFINE L == Len(fs)
           pwn == [j \in 1..(m + 1) |-> IF j = m + 1 THEN L ELSE own[j]]
<1>0. L \in Nat
  BY StackFacts
<1>1. OpenAt(gs) = OpenAt(fs) \cup {L} /\ L \notin OpenAt(fs)
  BY OpenAtSteps
<1>4. /\ own \in [1..m -> OpenAt(fs)]
      /\ \A i \in OpenAt(fs) : \E j \in 1..m : own[j] = i
      /\ \A j, k \in 1..m : j < k => own[j] < own[k]
  BY DEF Pushed
<1>5. \A j \in 1..m : own[j] \in 1..L /\ own[j] \in OpenAt(fs) /\ own[j] # L
  BY <1>1, PushedFacts
<1>6. /\ \A j \in 1..m : j \in 1..(m + 1) /\ j # m + 1 /\ pwn[j] = own[j]
      /\ m + 1 \in 1..(m + 1) /\ pwn[m + 1] = L
      /\ \A j \in 1..(m + 1) : j \in 1..m \/ j = m + 1
  OBVIOUS
<1>7. pwn \in [1..(m + 1) -> OpenAt(gs)]
  <2>1. \A j \in 1..(m + 1) : (IF j = m + 1 THEN L ELSE own[j]) \in OpenAt(gs)
    BY <1>1, <1>5, <1>6
  <2> QED
    BY <2>1
<1> HIDE DEF pwn
<1>8. \A i \in OpenAt(gs) : \E j \in 1..(m + 1) : pwn[j] = i
  <2> SUFFICES ASSUME NEW i \in OpenAt(gs) PROVE \E j \in 1..(m + 1) : pwn[j] = i
    OBVIOUS
  <2>1. CASE i = L
    BY <1>6, <2>1
  <2>2. CASE i # L
    <3>1. PICK j \in 1..m : own[j] = i
      BY <1>1, <1>4, <2>2
    <3> QED
      BY <1>6, <3>1
  <2> QED
    BY <2>1, <2>2
<1>9. ASSUME NEW j \in 1..(m + 1), NEW k \in 1..(m + 1), j < k PROVE pwn[j] < pwn[k]
  <2>1. j \in 1..m
    BY <1>9
  <2>2. CASE k = m + 1
    BY <1>0, <1>5, <1>6, <2>1, <2>2
  <2>3. CASE k # m + 1
    BY <1>4, <1>6, <1>9, <2>1, <2>3
  <2> QED
    BY <2>2, <2>3
<1>11. Pushed(pwn, gs, m + 1)
  BY <1>7, <1>8, <1>9 DEF Pushed
<1> QED
  BY <1>5, <1>6, <1>11

-----------------------------------------------------------------------------
(* What the scopes hold after each step. *)

Holding(fs, sc) == \E own : CgOwns(own, fs, sc)

LEMMA HoldsStay ==
  ASSUME NEW fs, NEW gs, OpenAt(gs) = OpenAt(fs), \A i \in OpenAt(fs) : gs[i].node = fs[i].node,
         Met(gs) = Met(fs), NEW sc, Holding(fs, sc)
  PROVE  Holding(gs, sc)
<1>1. PICK own : CgOwns(own, fs, sc)
  BY DEF Holding
<1>2. Pushed(own, gs, Len(sc))
  BY <1>1 DEF CgOwns, Pushed
<1>3. \A j \in 1..Len(sc) : gs[own[j]].node = fs[own[j]].node
  BY <1>1 DEF CgOwns, Pushed
<1>4. CgOwns(own, gs, sc)
  BY <1>1, <1>2, <1>3 DEF CgOwns
<1> QED
  BY <1>4 DEF Holding

LEMMA HoldsAdvance ==
  ASSUME Whole, NEW fs, CallStackOK(fs), NEW gs, Advanced(fs, gs), Kind(fs[Len(fs)].node) # "VAR_DECL",
         NEW sc, Holding(fs, sc)
  PROVE  Holding(gs, sc)
<1>1. Len(fs) \in Nat /\ Len(fs) >= 1
  BY StackFacts
<1>2. Len(gs) = Len(fs) /\ \A i \in 1..Len(fs) : gs[i].node = fs[i].node
  BY DEF Advanced
<1>3. gs[Len(gs)].node = fs[Len(fs)].node
  BY <1>1, <1>2
<1>4. Met(gs) = Met(fs)
  BY <1>3, AdvancedSeen DEF Met
<1>5. \A i \in OpenAt(fs) : gs[i].node = fs[i].node
  BY <1>2 DEF OpenAt
<1> QED
  BY <1>4, <1>5, AdvancedStack, HoldsStay

LEMMA HoldsCall ==
  ASSUME Whole, NEW fs, CallStackOK(fs), NEW gs, ChildCalled(fs, gs), Kind(fs[Len(fs)].node) # "VAR_DECL",
         NEW sc, Holding(fs, sc)
  PROVE  Holding(gs, sc)
<1> DEFINE L == Len(fs)
           c == VisitKid(fs[L].node, fs[L].next)
<1>1. L \in Nat /\ L >= 1
  BY StackFacts
<1>2. /\ \A i \in 1..L : gs[i].node = fs[i].node
      /\ IF IsNull(c) THEN Len(gs) = L ELSE Len(gs) = L + 1 /\ gs[L + 1] = Frame(c)
  BY DEF ChildCalled
<1>3. {s \in Sites : Kind(gs[Len(gs)].node) = "VAR_DECL" /\ s.decl = gs[Len(gs)].node /\ gs[Len(gs)].next = 2} = {}
  <2>1. CASE IsNull(c)
    <3>1. gs[Len(gs)].node = fs[L].node
      BY <1>1, <1>2, <2>1
    <3> QED
      BY <3>1
  <2>2. CASE ~IsNull(c)
    <3>1. gs[Len(gs)].next \in {0, 1}
      BY <1>2, <2>2 DEF Frame
    <3>2. gs[Len(gs)].next # 2
      BY <3>1
    <3> QED
      BY <3>2
  <2> QED
    BY <2>1, <2>2
<1>4. Met(gs) = Met(fs)
  BY <1>3, SeenCall DEF Met
<1>5. \A i \in OpenAt(fs) : gs[i].node = fs[i].node
  BY <1>2 DEF OpenAt
<1>6. OpenAt(gs) = OpenAt(fs)
  BY OpenAtSteps
<1> QED
  BY <1>4, <1>5, <1>6, HoldsStay

\* The node below the running function's is none that calls expressions alone.
LEMMA BelowTop ==
  ASSUME Whole, NEW fs, CallStackOK(fs), Len(fs) >= 2, Kind(fs[Len(fs)].node) \notin ExprKinds \cup Null
  PROVE  Kind(fs[Len(fs) - 1].node) \notin ExprKinds \cup {"VAR_DECL"}
<1> DEFINE L == Len(fs)
           p == fs[L - 1].node
           k == fs[L - 1].next - 1
<1>0. AstTypeOK /\ phase \in {"sema", "codegen"}
  BY DEF Whole
<1>1. /\ L \in Nat /\ \A i \in 1..L : fs[i].node \in Nodes
      /\ \A i \in 2..L : /\ fs[i - 1].next - 1 \in 1..VisitCount(fs[i - 1].node)
                         /\ fs[i].node = VisitKid(fs[i - 1].node, fs[i - 1].next - 1)
  BY StackFacts
<1>2. L \in 2..L /\ L - 1 \in 1..L
  BY <1>1
<1>3. p \in Nodes /\ k \in 1..VisitCount(p) /\ fs[L].node = VisitKid(p, k)
  BY <1>1, <1>2
<1>4. Kind(p) \in ExprKinds \cup {"VAR_DECL"} => Kind(VisitKid(p, k)) \in ExprKinds \cup Null
  <2> HIDE DEF p, k
  <2> QED
    BY <1>0, <1>3, VisitKinds
<1> QED
  BY <1>3, <1>4

LEMMA HoldsPop ==
  ASSUME Whole, NEW fs, CallStackOK(fs), Len(fs) >= 2, NEW gs, Popped(fs, gs), Complete(fs),
         Len(fs) \notin OpenAt(fs), Kind(fs[Len(fs)].node) \notin ExprKinds \cup Null, NEW sc, Holding(fs, sc)
  PROVE  Holding(gs, sc)
<1> DEFINE L == Len(fs)
           n == fs[L].node
<1>0. AstTypeOK /\ TreeOK /\ phase \in {"sema", "codegen"}
  BY DEF Whole
<1>1. /\ L \in Nat /\ n \in Nodes /\ fs[L].next \in Nat /\ VisitOK(fs, L)
      /\ Len(gs) = L - 1 /\ \A i \in 1..(L - 1) : gs[i] = fs[i]
  BY StackFacts DEF Popped, CallStackOK
<1>2. OpenAt(gs) = OpenAt(fs)
  <2>1. OpenAt(gs) = OpenAt(fs) \ {L}
    BY OpenAtSteps
  <2> QED
    BY <2>1
<1>3. Seen(gs) = Seen(fs) \cup Sited(n)
  BY SeenPop
<1>4. Kind(gs[Len(gs)].node) # "VAR_DECL"
  <2>1. gs[Len(gs)] = fs[L - 1]
    BY <1>1
  <2> QED
    BY <2>1, BelowTop
<1>5. Met(gs) = {s \in Seen(fs) \cup Sited(n) : ~IsFunction(s)}
  BY <1>3, <1>4 DEF Met
<1>6. CASE Kind(n) = "VAR_DECL"
  <2>1. VisitCount(n) = 1
    BY <1>0, <1>1, <1>6, NodeFacts DEF HasArity, VisitCount
  <2>2. fs[L].next > 1
    BY <1>6, <2>1 DEF Complete
  <2>3. fs[L].next <= 1 + 1
    BY <1>1, <2>1 DEF VisitOK
  <2>4. fs[L].next = 2
    <3> HIDE DEF L
    <3> QED
      BY <1>1, <2>2, <2>3
  <2>5. Met(fs) = {s \in Seen(fs) : ~IsFunction(s)} \cup Sited(n)
    BY <1>6, <2>4 DEF Met, Sited
  <2>6. \A s \in Sited(n) : ~IsFunction(s)
    BY <1>6 DEF Sited, IsFunction
  <2>7. Met(gs) = Met(fs)
    BY <1>5, <2>5, <2>6
  <2> QED
    BY <1>1, <1>2, <2>7, HoldsStay DEF OpenAt
<1>7. CASE Kind(n) # "VAR_DECL"
  <2>1. \A s \in Sited(n) : IsFunction(s)
    <3>1. CASE Kind(n) = "FUNC_DECL"
      <4>1. ~HasScope(fs[L])
        BY <1>1 DEF OpenAt
      <4>2. fs[L].next = 0
        BY <1>1, <3>1, <4>1 DEF HasScope, ScopedKinds
      <4>3. VisitCount(n) \in Nat
        BY <1>0, <1>1, VisitedIsKid
      <4>4. ~(fs[L].next > VisitCount(n))
        <5> HIDE DEF n, L
        <5> QED
          BY <4>2, <4>3
      <4>5. IsNull(Kid(n, 1))
        BY <4>4 DEF Complete
      <4>6. ParamSites(n) = {} /\ Sited(n) = {Site(n, 0)} \cup ParamSites(n) /\ IsFunction(Site(n, 0))
        BY <1>1, <3>1, <4>5, FunctionSites
      <4> QED
        BY <4>6
    <3>2. CASE Kind(n) # "FUNC_DECL"
      <4>1. Sited(n) = {}
        BY <1>7, <3>2, SiteFacts DEF Sited
      <4> QED
        BY <4>1
    <3> QED
      BY <3>1, <3>2
  <2>2. Met(fs) = {s \in Seen(fs) : ~IsFunction(s)}
    BY <1>7 DEF Met
  <2>3. Met(gs) = Met(fs)
    BY <1>5, <2>1, <2>2
  <2> QED
    BY <1>1, <1>2, <2>3, HoldsStay DEF OpenAt
<1> QED
  BY <1>6, <1>7

LEMMA CgHoldsMore ==
  ASSUME NEW scope, NEW n, NEW met, NEW more, CgHolds(scope, n, met),
         \A t \in more \ met : SiteScope(t) # n, met \subseteq more
  PROVE  CgHolds(scope, n, more)
  BY DEF CgHolds

LEMMA CgHoldsNew ==
  ASSUME NEW scope, NEW n, NEW met, NEW t, CgHolds(scope, n, met), SiteScope(t) = n,
         NEW new, DOMAIN new = DOMAIN scope \cup {SiteName(t)},
         new[SiteName(t)].decl = t.decl, new[SiteName(t)].type = SiteType(t),
         \A y \in DOMAIN scope : y # SiteName(t) => new[y] = scope[y]
  PROVE  CgHolds(new, n, met \cup {t})
<1> DEFINE x == SiteName(t)
<1>3. ASSUME NEW y \in DOMAIN new
      PROVE  \E s \in met \cup {t} : /\ SiteScope(s) = n /\ SiteName(s) = y
                                     /\ new[y].decl = s.decl /\ new[y].type = SiteType(s)
  <2>1. CASE y = x
    BY <2>1
  <2>2. CASE y # x
    <3>1. y \in DOMAIN scope /\ new[y] = scope[y]
      BY <1>3, <2>2
    <3> QED
      BY <3>1 DEF CgHolds
  <2> QED
    BY <2>1, <2>2
<1>4. \A s \in met \cup {t} : SiteScope(s) = n => SiteName(s) \in DOMAIN new
  BY DEF CgHolds
<1> QED
  BY <1>3, <1>4 DEF CgHolds

\* The scope a declaration is defined in is its owner's.
LEMMA CgInnermost ==
  ASSUME Whole, NEW fs, CallStackOK(fs), NEW m \in Nat, NEW own, Pushed(own, fs, m), Len(fs) \notin OpenAt(fs)
  PROVE  fs[own[m]].node = Owner[fs[Len(fs)].node]
<1>1. Len(fs) \in Nat /\ Len(fs) >= 1
  BY StackFacts
<1>2. m >= 1 /\ own[m] \in OpenAt(fs) /\ own[m] \in 1..Len(fs) /\ \A i \in OpenAt(fs) : i <= own[m]
  BY PushedFacts
<1>3. own[m] < Len(fs)
  BY <1>1, <1>2
<1>4. Len(fs) \in 1..Len(fs)
  BY <1>1
<1> DEFINE j == own[m]
<1> HIDE DEF j
<1>5. Owner[fs[Len(fs)].node] = fs[j].node
  BY <1>2, <1>3, <1>4, OwnerOfFrame DEF j
<1> QED
  BY <1>5 DEF j

\* CodeGen defines a variable and goes on to its initialiser.
LEMMA HoldsDefine ==
  ASSUME Whole, NEW fs, CallStackOK(fs), NEW gs, Advanced(fs, gs), NEW n, n = fs[Len(fs)].node,
         Kind(n) = "VAR_DECL", fs[Len(fs)].next = 1, gs[Len(fs)].next = 2,
         NEW sc, Len(sc) \in Nat, Holding(fs, sc), NEW var, var.decl = n, var.type = ast[n].type,
         NEW sd, Len(sd) = Len(sc), \A j \in 1..Len(sc) : j # Len(sc) => sd[j] = sc[j],
         Len(sc) >= 1 =>
           sd[Len(sc)] = [y \in DOMAIN sc[Len(sc)] \cup {ast[n].name} |->
                            IF y = ast[n].name THEN var ELSE sc[Len(sc)][y]]
  PROVE  Holding(gs, sd)
<1> DEFINE L == Len(fs)
           m == Len(sc)
           t == Site(n, 0)
<1>0. AstTypeOK /\ TreeOK /\ phase \in {"sema", "codegen"}
  BY DEF Whole
<1>1. /\ L \in Nat /\ L >= 1 /\ n \in Nodes /\ fs[1].node = 1
      /\ Len(gs) = L /\ \A i \in 1..L : gs[i].node = fs[i].node
  BY StackFacts DEF Advanced
<1>2. /\ t \in Sites /\ SiteName(t) = ast[n].name /\ t.decl = n
      /\ SiteType(t) = ast[n].type /\ SiteScope(t) = Owner[n] /\ ~IsFunction(t) /\ Sited(n) = {t}
  BY <1>1, PlainSite
<1> HIDE DEF t
<1>3. L \notin OpenAt(fs)
  <2>1. L # 1
    BY <1>0, <1>1, KindsOfKids
  <2>2. ~HasScope(fs[L])
    BY DEF HasScope, ScopedKinds
  <2> QED
    BY <2>1, <2>2 DEF OpenAt
<1>4. PICK own : CgOwns(own, fs, sc)
  BY DEF Holding
<1>5. Pushed(own, fs, m) /\ \A j \in 1..m : CgHolds(sc[j], fs[own[j]].node, Met(fs))
  BY <1>4 DEF CgOwns
<1>6. fs[own[m]].node = Owner[n]
  BY <1>3, <1>5, CgInnermost
<1>7. /\ m >= 1 /\ \A j \in 1..m : own[j] \in 1..L
      /\ \A j, k \in 1..m : j # k => fs[own[j]].node # fs[own[k]].node
  BY <1>5, PushedFacts
<1>8. Met(gs) = Met(fs) \cup {t}
  <2>1. Seen(gs) = Seen(fs)
    BY AdvancedSeen
  <2>2. gs[Len(gs)].node = n /\ gs[Len(gs)].next = 2
    BY <1>1
  <2>3. {s \in Sites : Kind(n) = "VAR_DECL" /\ s.decl = n /\ 2 = 2} = {t}
    BY <1>2 DEF Sited
  <2>4. Met(gs) = {s \in Seen(fs) : ~IsFunction(s)} \cup {t}
    BY <2>1, <2>2, <2>3 DEF Met
  <2>5. Met(fs) = {s \in Seen(fs) : ~IsFunction(s)}
    <3>1. fs[Len(fs)].next # 2
      OBVIOUS
    <3> QED
      BY <3>1 DEF Met
  <2> QED
    BY <2>4, <2>5
<1>9. ASSUME NEW j \in 1..m PROVE CgHolds(sd[j], gs[own[j]].node, Met(gs))
  <2>1. gs[own[j]].node = fs[own[j]].node /\ CgHolds(sc[j], fs[own[j]].node, Met(fs))
    BY <1>1, <1>5, <1>7
  <2>2. CASE j = m
    <3>1. sd[m] = [y \in DOMAIN sc[m] \cup {SiteName(t)} |-> IF y = SiteName(t) THEN var ELSE sc[m][y]]
      BY <1>2, <1>7
    <3>2. CgHolds(sd[m], Owner[n], Met(fs) \cup {t})
      <4>1. CgHolds(sc[m], Owner[n], Met(fs)) /\ SiteScope(t) = Owner[n]
        BY <1>2, <1>6, <2>1, <2>2
      <4>2. var.decl = t.decl /\ var.type = SiteType(t)
        BY <1>2
      <4> HIDE DEF m
      <4> QED
        <5>1. /\ DOMAIN sd[m] = DOMAIN sc[m] \cup {SiteName(t)} /\ sd[m][SiteName(t)] = var
              /\ \A y \in DOMAIN sc[m] : y # SiteName(t) => sd[m][y] = sc[m][y]
          BY <3>1
        <5> DEFINE new == sd[m]
        <5>2. /\ DOMAIN new = DOMAIN sc[m] \cup {SiteName(t)}
              /\ new[SiteName(t)].decl = t.decl /\ new[SiteName(t)].type = SiteType(t)
              /\ \A y \in DOMAIN sc[m] : y # SiteName(t) => new[y] = sc[m][y]
          BY <4>2, <5>1
        <5> HIDE DEF new
        <5>3. CgHolds(new, Owner[n], Met(fs) \cup {t})
          BY <4>1, <5>2, CgHoldsNew
        <5> QED
          BY <5>3 DEF new
    <3> QED
      BY <1>6, <1>8, <2>1, <2>2, <3>2
  <2>3. CASE j # m
    <3>1. m \in 1..m
      BY <1>7
    <3>2. fs[own[j]].node # Owner[n]
      BY <1>6, <1>7, <2>3, <3>1
    <3>3. CgHolds(sc[j], fs[own[j]].node, Met(gs))
      BY <1>2, <1>8, <2>1, <3>2, CgHoldsMore
    <3> QED
      BY <2>1, <2>3, <3>3
  <2> QED
    BY <2>2, <2>3
<1>10. Pushed(own, gs, m)
  BY <1>5, AdvancedStack DEF Pushed
<1>11. CgOwns(own, gs, sd)
  BY <1>9, <1>10 DEF CgOwns
<1> QED
  BY <1>11 DEF Holding

\* CodeGen pushes a scope.
LEMMA HoldsOpen ==
  ASSUME Whole, NEW fs, CallStackOK(fs), NEW gs, Opened(fs, gs), Kind(fs[Len(fs)].node) \in ScopedKinds,
         NEW sc, Len(sc) \in Nat, Holding(fs, sc), NEW sd, Len(sd) = Len(sc) + 1,
         \A j \in 1..Len(sc) : sd[j] = sc[j],
         CgHolds(sd[Len(sc) + 1], fs[Len(fs)].node, Met(gs))
  PROVE  Holding(gs, sd)
<1> DEFINE L == Len(fs)
           m == Len(sc)
           n == fs[L].node
<1>0. Nodes \in SUBSET Nat
  BY ParentFacts DEF Whole
<1>1. /\ L \in Nat /\ L >= 1 /\ n \in Nodes /\ Len(gs) = L
      /\ \A i \in 1..L : gs[i].node = fs[i].node /\ fs[i].node \in Nodes
  BY StackFacts DEF Opened
<1>2. PICK own : Pushed(own, fs, m) /\ \A j \in 1..m : CgHolds(sc[j], fs[own[j]].node, Met(fs))
  BY DEF Holding, CgOwns
<1>3. PICK pwn : /\ Pushed(pwn, gs, m + 1) /\ pwn[m + 1] = L
                 /\ \A j \in 1..m : pwn[j] = own[j] /\ own[j] \in 1..L /\ own[j] # L
  BY <1>2, PushedOpen
<1>4. Kind(n) # "VAR_DECL"
  BY DEF ScopedKinds
<1>5. Met(fs) = {s \in Seen(fs) : ~IsFunction(s)} /\ Met(gs) = {s \in Seen(gs) : ~IsFunction(s)}
  BY <1>1, <1>4 DEF Met
<1>6. Met(fs) \subseteq Met(gs) /\ \A s \in Met(gs) \ Met(fs) : SiteScope(s) = n
  <2>1. Seen(gs) = Seen(fs) \cup IF Kind(n) = "FUNC_DECL" THEN Sited(n) ELSE {}
    BY SeenOpen
  <2>2. \A s \in Sited(n) : Kind(n) = "FUNC_DECL" /\ ~IsFunction(s) => SiteScope(s) = n
    BY <1>1, FunctionSites
  <2> QED
    BY <1>5, <2>1, <2>2
<1>7. ASSUME NEW j \in 1..m PROVE CgHolds(sd[j], gs[pwn[j]].node, Met(gs))
  <2>1. gs[pwn[j]].node = fs[own[j]].node /\ own[j] \in 1..L /\ own[j] # L /\ own[j] < L
    BY <1>1, <1>3
  <2>2. fs[own[j]].node # n
    <3>1. L \in 1..L
      BY <1>1
    <3>2. fs[own[j]].node < n
      BY <2>1, <3>1, StackOrder
    <3>3. fs[own[j]].node \in Nat /\ n \in Nat
      BY <1>0, <1>1, <2>1
    <3> HIDE DEF n
    <3> QED
      BY <3>2, <3>3
  <2>3. CgHolds(sc[j], fs[own[j]].node, Met(gs))
    BY <1>2, <1>6, <2>2, CgHoldsMore
  <2> QED
    BY <2>1, <2>3
<1>8. CgHolds(sd[m + 1], gs[pwn[m + 1]].node, Met(gs))
  <2>1. L \in 1..L
    BY <1>1
  <2> QED
    BY <1>1, <1>3, <2>1
<1>9. \A j \in 1..(m + 1) : j \in 1..m \/ j = m + 1
  OBVIOUS
<1>10. CgOwns(pwn, gs, sd)
  BY <1>3, <1>7, <1>8, <1>9 DEF CgOwns
<1> QED
  BY <1>10 DEF Holding

LEMMA ScopeInside ==
  ASSUME Whole, NEW o \in Nodes, OpensScope(o), NEW s \in Sites, ~IsFunction(s), Under(s.decl, o)
  PROVE  Under(SiteScope(s), o)
<1>1. s.decl \in Nodes /\ s.decl # 1 /\ Kind(s.decl) \in {"VAR_DECL", "FUNC_DECL"}
  BY SiteFacts
<1>2. CASE IsParam(s)
  BY <1>2 DEF SiteScope
<1>3. CASE ~IsParam(s)
  <2>1. Kind(s.decl) = "VAR_DECL"
    BY <1>1, <1>3 DEF IsFunction
  <2>2. s.decl # o
    BY <2>1 DEF OpensScope
  <2>3. Under(Owner[s.decl], o)
    BY <1>1, <2>2, OwnerInside
  <2> QED
    BY <1>3, <2>3 DEF SiteScope
<1> QED
  BY <1>2, <1>3

\* The running function is done, perhaps not with all its children.
LEMMA SeenLeave ==
  ASSUME Whole, NEW fs, CallStackOK(fs), Len(fs) >= 2, NEW gs, Popped(fs, gs)
  PROVE  /\ Seen(fs) \subseteq Seen(gs)
         /\ \A s \in Seen(gs) : s \in Seen(fs) \/ Under(s.decl, fs[Len(fs)].node)
<1> DEFINE L == Len(fs)
           n == fs[L].node
           p == fs[L - 1].node
<1>0. AstTypeOK /\ TreeOK /\ phase \in {"sema", "codegen"}
  BY DEF Whole
<1>1. /\ L \in Nat /\ Len(gs) = L - 1 /\ \A i \in 1..(L - 1) : gs[i] = fs[i]
      /\ \A i \in 1..L : fs[i].node \in Nodes /\ fs[i].next \in Nat
      /\ \A i \in 2..L : /\ fs[i - 1].next - 1 \in 1..VisitCount(fs[i - 1].node)
                         /\ fs[i].node = VisitKid(fs[i - 1].node, fs[i - 1].next - 1)
  BY StackFacts DEF Popped
<1>2. L \in 2..L /\ L - 1 \in 1..L /\ L \in 1..L /\ L - 1 \in 1..(L - 1)
  BY <1>1
<1>3. n \in Nodes /\ p \in Nodes /\ fs[L - 1].next - 1 \in 1..VisitCount(p) /\ n = VisitKid(p, fs[L - 1].next - 1)
  BY <1>1, <1>2
<1>4. Past(gs, L - 1) = fs[L - 1].next /\ Past(fs, L - 1) = fs[L - 1].next - 1 /\ gs[L - 1].node = p
  BY <1>1, <1>2 DEF Past
<1>5. \A i \in 1..(L - 1) : i # L - 1 => Past(gs, i) = Past(fs, i) /\ gs[i].node = fs[i].node
  BY <1>1 DEF Past
<1>6. \A d \in Nodes : Under(d, n) => Finished(gs, d)
  <2> SUFFICES ASSUME NEW d \in Nodes, Under(d, n) PROVE Finished(gs, d)
    OBVIOUS
  <2> DEFINE k == fs[L - 1].next - 1
  <2>1. k < Past(gs, L - 1) /\ k \in 1..VisitCount(gs[L - 1].node) /\ L - 1 \in 1..Len(gs)
    BY <1>1, <1>2, <1>3, <1>4
  <2>2. Under(d, VisitKid(gs[L - 1].node, k))
    BY <1>3, <1>4
  <2> HIDE DEF k
  <2> QED
    BY <2>1, <2>2 DEF Finished
<1>7. ASSUME NEW d \in Nodes, Finished(fs, d) PROVE Finished(gs, d)
  <2>1. PICK i \in 1..L : \E k \in 1..VisitCount(fs[i].node) : k < Past(fs, i) /\ Under(d, VisitKid(fs[i].node, k))
    BY <1>7 DEF Finished
  <2>2. PICK k \in 1..VisitCount(fs[i].node) : k < Past(fs, i) /\ Under(d, VisitKid(fs[i].node, k))
    BY <2>1
  <2>3. CASE i = L
    <3>1. \A m : Under(VisitKid(n, k), m) <=> m = VisitKid(n, k) \/ Under(n, m) \/ (Kind(n) = "FUNC_DECL" /\ m = Kid(n, 1))
      BY <1>3, <2>3, VisitedUnder
    <3>2. Under(n, n)
      BY <1>0, <1>3, UnderSelf
    <3>3. Under(VisitKid(n, k), n)
      BY <3>1, <3>2
    <3>4. Under(d, n)
      BY <1>0, <2>2, <2>3, <3>3, UnderTransitive
    <3> QED
      BY <1>6, <3>4
  <2>4. CASE i = L - 1
    <3>1. k < Past(gs, i) /\ gs[i].node = fs[i].node /\ i \in 1..Len(gs)
      <4>1. k < fs[L - 1].next - 1 /\ fs[L - 1].next \in Nat
        BY <1>1, <1>2, <1>4, <2>2, <2>4
      <4>2. k < fs[L - 1].next
        BY <4>1
      <4> QED
        BY <1>1, <1>2, <1>4, <2>4, <4>2
    <3> QED
      BY <2>2, <3>1 DEF Finished
  <2>5. CASE i # L /\ i # L - 1
    <3>1. i \in 1..(L - 1)
      BY <1>1, <2>5
    <3>2. k < Past(gs, i) /\ gs[i].node = fs[i].node /\ i \in 1..Len(gs)
      BY <1>1, <1>5, <2>2, <2>5, <3>1
    <3> QED
      BY <2>2, <3>2 DEF Finished
  <2> QED
    BY <2>3, <2>4, <2>5
<1>8. ASSUME NEW d \in Nodes, Finished(gs, d) PROVE Finished(fs, d) \/ Under(d, n)
  <2>1. PICK i \in 1..(L - 1) : \E k \in 1..VisitCount(gs[i].node) : k < Past(gs, i) /\ Under(d, VisitKid(gs[i].node, k))
    BY <1>1, <1>8 DEF Finished
  <2>2. PICK k \in 1..VisitCount(gs[i].node) : k < Past(gs, i) /\ Under(d, VisitKid(gs[i].node, k))
    BY <2>1
  <2>3. i \in 1..L
    BY <1>1
  <2>4. CASE i = L - 1
    <3>1. k < fs[L - 1].next - 1 \/ k = fs[L - 1].next - 1
      BY <1>1, <1>2, <1>4, <2>2, <2>4
    <3>2. CASE k = fs[L - 1].next - 1
      BY <1>3, <1>4, <2>2, <2>4, <3>2
    <3>3. CASE k < fs[L - 1].next - 1
      BY <1>4, <2>2, <2>3, <2>4, <3>3 DEF Finished
    <3> QED
      BY <3>1, <3>2, <3>3
  <2>5. CASE i # L - 1
    BY <1>5, <2>2, <2>3, <2>5 DEF Finished
  <2> QED
    BY <2>4, <2>5
<1>9. ASSUME NEW d \in Nodes, Entered(fs, d) PROVE Finished(gs, d) \/ Entered(gs, d)
  <2>1. PICK i \in 1..L : fs[i].node = d /\ fs[i].next > 0
    BY <1>9 DEF Entered
  <2>2. CASE i = L
    <3>1. Under(d, n)
      BY <1>0, <1>3, <2>1, <2>2, UnderSelf
    <3> QED
      BY <1>6, <3>1
  <2>3. CASE i # L
    <3>1. i \in 1..(L - 1)
      BY <1>1, <2>3
    <3> QED
      BY <1>1, <1>9, <2>1, <3>1 DEF Entered
  <2> QED
    BY <2>2, <2>3
<1>10. ASSUME NEW d, Entered(gs, d) PROVE Entered(fs, d)
  <2>1. PICK i \in 1..(L - 1) : gs[i].node = d /\ gs[i].next > 0
    BY <1>1, <1>10 DEF Entered
  <2>2. i \in 1..L /\ gs[i] = fs[i]
    BY <1>1, <2>1
  <2> QED
    BY <1>10, <2>1, <2>2 DEF Entered
<1>11. \A s \in Sites : s.decl \in Nodes
  BY SiteFacts
<1> QED
  BY <1>7, <1>8, <1>9, <1>10, <1>11 DEF Seen

LEMMA HoldsLeave ==
  ASSUME Whole, NEW fs, CallStackOK(fs), Len(fs) >= 2, NEW gs, Popped(fs, gs), Len(fs) \in OpenAt(fs),
         NEW sc, Len(sc) \in Nat, Holding(fs, sc), NEW sd, Len(sd) = Len(sc) - 1,
         \A j \in 1..(Len(sc) - 1) : sd[j] = sc[j]
  PROVE  Holding(gs, sd)
<1> DEFINE L == Len(fs)
           m == Len(sc)
           n == fs[L].node
<1>0. AstTypeOK /\ TreeOK /\ phase \in {"sema", "codegen"} /\ Nodes \in SUBSET Nat
  BY ParentFacts DEF Whole
<1>1. /\ L \in Nat /\ n \in Nodes /\ Len(gs) = L - 1 /\ \A i \in 1..(L - 1) : gs[i] = fs[i]
      /\ \A i \in 1..L : fs[i].node \in Nodes
      /\ \A i \in 2..L : /\ fs[i - 1].next - 1 \in 1..VisitCount(fs[i - 1].node)
                         /\ fs[i].node = VisitKid(fs[i - 1].node, fs[i - 1].next - 1)
  BY StackFacts DEF Popped
<1>2. Kind(n) \in ScopedKinds
  BY DEF OpenAt, HasScope
<1>3. Kind(n) # "VAR_DECL" /\ Kind(gs[Len(gs)].node) # "VAR_DECL"
  <2>1. Kind(n) \notin ExprKinds \cup Null /\ Kind(n) # "VAR_DECL"
    BY <1>2 DEF ScopedKinds, ExprKinds, Literals, Null
  <2>2. gs[Len(gs)] = fs[L - 1]
    BY <1>1
  <2> QED
    BY <2>1, <2>2, BelowTop
<1>4. OpensScope(n)
  <2> DEFINE p == fs[L - 1].node
             k == fs[L - 1].next - 1
  <2>0. L \in 2..L /\ L - 1 \in 1..L
    BY <1>1
  <2>1. p \in Nodes /\ k \in 1..VisitCount(p) /\ n = VisitKid(p, k)
    BY <1>1, <2>0
  <2> HIDE DEF p, k, n
  <2>2. Kind(Parent(n)) # "FUNC_DECL"
    BY <2>1, OwnerOfVisited
  <2> QED
    BY <1>2, <2>2 DEF OpensScope, ScopedKinds
<1>5. /\ Met(fs) \subseteq Met(gs)
      /\ \A s \in Met(gs) \ Met(fs) : s \in Sites /\ ~IsFunction(s) /\ Under(s.decl, n)
  <2>1. Met(fs) = {s \in Seen(fs) : ~IsFunction(s)} /\ Met(gs) = {s \in Seen(gs) : ~IsFunction(s)}
    BY <1>3 DEF Met
  <2>2. Seen(gs) \subseteq Sites
    BY DEF Seen
  <2> QED
    BY <2>1, <2>2, SeenLeave
<1>6. PICK own : Pushed(own, fs, m) /\ \A j \in 1..m : CgHolds(sc[j], fs[own[j]].node, Met(fs))
  BY DEF Holding, CgOwns
<1>7. PICK pwn : Pushed(pwn, gs, m - 1) /\ \A j \in 1..(m - 1) : pwn[j] = own[j]
  BY <1>6, PushedLeave
<1>8. m >= 1 /\ \A j \in 1..m : own[j] \in 1..L
  BY <1>6, PushedFacts
<1>9. ASSUME NEW j \in 1..(m - 1) PROVE CgHolds(sd[j], gs[pwn[j]].node, Met(gs))
  <2>1. j \in 1..m /\ sd[j] = sc[j] /\ CgHolds(sc[j], fs[own[j]].node, Met(fs))
    <3>1. j \in 1..m
      BY <1>8
    <3>2. sd[j] = sc[j]
      OBVIOUS
    <3> QED
      BY <1>6, <3>1, <3>2
  <2>2. pwn[j] \in 1..(L - 1)
    BY <1>1, <1>7 DEF Pushed, OpenAt
  <2> DEFINE i == own[j]
  <2>3. i \in 1..(L - 1) /\ pwn[j] = i
    BY <1>7, <2>2
  <2> HIDE DEF i
  <2>4. gs[i].node = fs[i].node /\ i \in 1..L /\ i < L /\ L \in 1..L
    BY <1>1, <2>3
  <2>5. fs[i].node < n
    BY <2>4, StackOrder
  <2>6. \A s \in Met(gs) \ Met(fs) : SiteScope(s) # fs[i].node
    <3> SUFFICES ASSUME NEW s \in Met(gs) \ Met(fs) PROVE SiteScope(s) # fs[i].node
      OBVIOUS
    <3>1. s \in Sites /\ ~IsFunction(s) /\ Under(s.decl, n)
      BY <1>5
    <3>2. Under(SiteScope(s), n) /\ SiteScope(s) \in Nodes
      BY <1>1, <1>4, <3>1, ScopeInside, SiteFacts
    <3>3. n <= SiteScope(s)
      BY <1>0, <3>2, UnderFacts
    <3>4. n \in Nat /\ SiteScope(s) \in Nat /\ fs[i].node \in Nat
      BY <1>0, <1>1, <2>4, <3>2
    <3> HIDE DEF n
    <3> QED
      BY <2>5, <3>3, <3>4
  <2>7. CgHolds(sc[j], fs[i].node, Met(gs))
    <3>1. CgHolds(sc[j], fs[i].node, Met(fs))
      BY <2>1 DEF i
    <3> QED
      BY <1>5, <2>6, <3>1, CgHoldsMore
  <2> QED
    BY <2>1, <2>3, <2>4, <2>7
<1>10. CgOwns(pwn, gs, sd)
  BY <1>7, <1>9 DEF CgOwns
<1> QED
  BY <1>10 DEF Holding
=============================================================================
