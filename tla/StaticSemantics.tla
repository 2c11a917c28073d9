--------------------------- MODULE StaticSemantics ---------------------------
(***************************************************************************)
(* What Sema promises, said of the finished tree without running it: which *)
(* declaration a name means, what type an expression has and when a        *)
(* program is accepted.  Sema.tla is checked against these definitions.    *)
(***************************************************************************)
EXTENDS Compiler

Parent(n) == CHOOSE p \in 1..(n - 1) : \E i \in 1..Arity(p) : Kid(p, i) = n

\* n and the nodes it is part of.
Path[n \in Nodes] == {n} \cup IF n = 1 THEN {} ELSE Path[Parent(n)]
Under(n, m) == m \in Path[n]

\* m ends before n begins in the source text: siblings are numbered in that order.
Precedes(m, n) ==
  \E a \in Path[m] \ {1}, b \in Path[n] \ {1} : a < b /\ Parent(a) = Parent(b)

-----------------------------------------------------------------------------
(* Scopes: the program, a function with its parameters, a for, a block. *)

OpensScope(n) ==
  \/ Kind(n) \in {"PROGRAM", "FUNC_DECL", "FOR"}
  \/ Kind(n) = "BLOCK" /\ Kind(Parent(n)) # "FUNC_DECL"

\* The innermost scope around n, n itself aside.
Owner[n \in Nodes] == IF n = 1 \/ OpensScope(Parent(n)) THEN Parent(n) ELSE Owner[Parent(n)]

\* A declaration site: a declaration, or parameter i of a function.
Site(decl, i) == [decl |-> decl, param |-> i]
Sites ==
  {Site(n, 0) : n \in {m \in Nodes : Kind(m) \in {"VAR_DECL", "FUNC_DECL"}}} \cup
  UNION {{Site(n, i) : i \in DOMAIN ast[n].params} :
           n \in {m \in Nodes : Kind(m) = "FUNC_DECL" /\ ~IsNull(Kid(m, 1))}}

IsParam(s) == s.param # 0
SiteName(s) == IF IsParam(s) THEN ast[s.decl].params[s.param].name ELSE ast[s.decl].name
SiteType(s) == IF IsParam(s) THEN ast[s.decl].params[s.param].type ELSE ast[s.decl].type
SiteScope(s) == IF IsParam(s) THEN s.decl ELSE Owner[s.decl]
IsFunction(s) == ~IsParam(s) /\ Kind(s.decl) = "FUNC_DECL"

Earlier(s, t) ==
  IF s.decl = t.decl THEN s.param < t.param
  ELSE Precedes(s.decl, t.decl) \/ (IsParam(s) /\ Under(t.decl, s.decl))

\* A variable is visible after its whole declaration, a function in its own body too.
Visible(s, n) ==
  /\ Under(n, SiteScope(s))
  /\ \/ Precedes(s.decl, n)
     \/ Kind(s.decl) = "FUNC_DECL" /\ Under(n, s.decl)

Candidates(n) == {s \in Sites : SiteName(s) = ast[n].name /\ Visible(s, n)}
Declared(n) == Candidates(n) # {}

\* The declaration a name means: in the innermost scope, the first.
Meaning(n) ==
  CHOOSE s \in Candidates(n) :
    \A t \in Candidates(n) \ {s} :
      \/ SiteScope(s) # SiteScope(t) /\ Under(SiteScope(s), SiteScope(t))
      \/ SiteScope(s) = SiteScope(t) /\ Earlier(s, t)

-----------------------------------------------------------------------------
(* Types: none is the type of an expression that has no type. *)

none == Unknown

\* A value of a type converts to another of the same pointer depth.
SameDepth(s, t) == s.ptr_depth = t.ptr_depth
BothScalar(s, t) == s.ptr_depth + t.ptr_depth = 0

BinaryType(op, l, r) ==
  IF op \in Comparisons \cup Logical
  THEN IF l.ptr_depth = 0 \/ l = r THEN IntType ELSE none
  ELSE IF BothScalar(l, r) THEN IF l = CharType /\ r = CharType THEN CharType ELSE IntType
  ELSE IF r.ptr_depth = 0 THEN l
  ELSE IF l.ptr_depth = 0 THEN IF op = "PLUS" THEN r ELSE none
  ELSE IF op = "MINUS" THEN IntType ELSE none

UnaryType(op, t) ==
  CASE op = "AMP" -> TypeInfo(t.base, t.ptr_depth + 1)
    [] op = "STAR" -> IF t.ptr_depth = 0 THEN none ELSE TypeInfo(t.base, t.ptr_depth - 1)
    [] OTHER -> IF t.ptr_depth = 0 THEN IntType ELSE none

\* The type of n, given the types of its children: every operand has to have one, the callee
\* of a call aside.
TypeFrom(n, kid) ==
  LET typed == \A i \in 1..Arity(n) : kid[i] # none
  IN CASE Kind(n) = "INT_LIT" -> IntType
       [] Kind(n) = "CHAR_LIT" -> CharType
       [] Kind(n) = "STR_LIT" -> TypeInfo("CHAR", 1)
       [] Kind(n) = "IDENT" -> IF Declared(n) THEN SiteType(Meaning(n)) ELSE none
       [] Kind(n) = "ASSIGN" -> IF typed /\ SameDepth(kid[1], kid[2]) THEN kid[1] ELSE none
       [] Kind(n) = "BINARY" -> IF typed THEN BinaryType(ast[n].op, kid[1], kid[2]) ELSE none
       [] Kind(n) = "UNARY" -> IF typed THEN UnaryType(ast[n].op, kid[1]) ELSE none
       [] Kind(n) = "INDEX" ->
            IF typed /\ kid[1].ptr_depth > 0 /\ kid[2].ptr_depth = 0
            THEN TypeInfo(kid[1].base, kid[1].ptr_depth - 1) ELSE none
       [] Kind(n) = "CALL" ->
            LET callee == Kid(n, 1)
                f == Meaning(callee)
                params == ast[f.decl].params
            IN IF /\ Kind(callee) = "IDENT" /\ Declared(callee) /\ IsFunction(f)
                  /\ Arity(n) = Len(params) + 1
                  /\ \A i \in DOMAIN params :
                       kid[i + 1] # none /\ SameDepth(kid[i + 1], params[i].type)
               THEN ast[f.decl].type ELSE none
       [] OTHER -> none

TypeOf[n \in Nodes] == TypeFrom(n, [i \in 1..Arity(n) |-> TypeOf[Kid(n, i)]])

IsCallee(n) == n # 1 /\ Kind(Parent(n)) = "CALL" /\ Kid(Parent(n), 1) = n

-----------------------------------------------------------------------------
(* Acceptance. *)

EnclosingFunction(n) == CHOOSE f \in Nodes : Kind(f) = "FUNC_DECL" /\ Under(n, f)
FirstDeclaration(f) ==
  CHOOSE g \in DeclarationsOf(ast[f].name) : \A h \in DeclarationsOf(ast[f].name) : g <= h

Initialised(n, to) == IsNull(Kid(n, 1)) \/ SameDepth(TypeOf[Kid(n, 1)], to)

NodeAccepted(n) ==
  /\ Kind(n) \in ExprKinds /\ ~IsCallee(n) => TypeOf[n] # none
  /\ Kind(n) = "VAR_DECL" => Initialised(n, ast[n].type)
  /\ Kind(n) = "RETURN" => Initialised(n, ast[FirstDeclaration(EnclosingFunction(n))].type)
  /\ Kind(n) \in {"IF", "WHILE"} => TypeOf[Kid(n, 1)].ptr_depth = 0
  /\ Kind(n) = "FOR" => IsNull(Kid(n, 2)) \/ TypeOf[Kid(n, 2)].ptr_depth = 0
  /\ Kind(n) = "FUNC_DECL" =>
       LET first == ast[FirstDeclaration(n)]
       IN first.type = ast[n].type /\ Len(first.params) = Len(ast[n].params)

\* One declaration per name and scope, but a function may be declared again.
NamesAccepted ==
  \A s, t \in Sites :
    s # t /\ SiteName(s) = SiteName(t) /\ SiteScope(s) = SiteScope(t)
      => IsFunction(s) /\ IsFunction(t)

Accepted == NamesAccepted /\ \A n \in Nodes : NodeAccepted(n)


(* Sema accepts exactly the accepted programs: the one pass over mutable scopes, with  *)
(* its early returns and Unknown types, decides the declarative rules (sema_analyse).  *)
SemaDecides ==
  /\ phase = "rejected" => ~Accepted
  /\ phase = "codegen" /\ stack = <<>> => Accepted

(* Whatever CodeGen reads of an accepted program is there and right: the resolved type *)
(* of every expression but callees, and the declaration each identifier was bound to.  *)
SemaAnnotates ==
  phase = "codegen" /\ stack = <<>> =>
    \A n \in Nodes : Kind(n) \in ExprKinds =>
      /\ ~IsCallee(n) => rtype[n] = TypeOf[n]
      /\ Kind(n) = "IDENT" =>
           bind[n].decl = Meaning(n).decl /\ bind[n].type = SiteType(Meaning(n))

(* The "has no return statement" warning is exact: when a body is done has_return says   *)
(* whether the function, not an earlier or a later one, contains a return.              *)
HasReturnExact ==
  Leaving({"FUNC_DECL"}) =>
    (has_return <=> \E n \in Nodes : Kind(n) = "RETURN" /\ Under(n, node))
=============================================================================
