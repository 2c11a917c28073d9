------------------------------ MODULE Agreement ------------------------------
(***************************************************************************)
(* What CodeGen relies on Sema for, and how far the two agree on a program *)
(* Sema accepts: the two resolve names each with scopes of its own, and    *)
(* CodeGen types values by the types Sema resolved.  Where they disagree   *)
(* the exceptions are part of the property, each named and as narrow as    *)
(* the code allows.                                                        *)
(***************************************************************************)
EXTENDS StaticSemantics

\* The generated code is complete, or generation stopped for good.
Generated == phase \in {"verify", "failed", "crashed"}

\* cg_expr or cg_lvalue has run on the node; dead code is never generated.
Visited(n) == val[n] # "none"

-----------------------------------------------------------------------------
(* Names. *)

\* int x = x: Sema declares after the initialiser, CodeGen before it.
InOwnInitialiser(n, decl) == Kind(decl) = "VAR_DECL" /\ Under(n, decl)

\* for (;; x) int x: Sema analyses the post expression first, CodeGen the body, in one scope
\* unless a block or loop in between has its own.
InPostBeforeBody(n, decl) ==
  \E f \in Nodes :
    /\ Kind(f) = "FOR" /\ Under(n, Kid(f, 3)) /\ Under(decl, Kid(f, 4))
    /\ \A m \in Nodes : Under(decl, m) /\ Under(m, Kid(f, 4)) => Kind(m) \notin {"BLOCK", "FOR"}

(* CodeGen resolves an identifier to the declaration Sema bound it to (two scope        *)
(* stacks, Sema.c and CodeGen.c), but for the two orders above; it finds none only for  *)
(* a name that Sema bound to a function.                                                *)
ResolutionAgrees ==
  Generated => \A n \in Nodes : Kind(n) = "IDENT" /\ Visited(n) =>
    IF cgbind[n] = 0 THEN bind[n].kind = "FUNC"
    ELSE \/ cgbind[n] = bind[n].decl
         \/ InOwnInitialiser(n, cgbind[n])
         \/ InPostBeforeBody(n, cgbind[n])

(* A call reaches the function Sema checked it against (func_lookup ignores scopes).    *)
CallsAgree ==
  phase = "codegen" /\ stack # <<>> /\ Evaluated("expr", {"CALL"}) =>
    LET callee == CgKid(1)
    IN /\ ast[callee].name \in DOMAIN funcs
       /\ funcs[ast[callee].name] = bind[callee].decl

-----------------------------------------------------------------------------
(* Errors. *)

\* The target of an assignment or the operand of &.
Addressed(n) ==
  n # 1 /\ LET p == Parent(n) IN
    Kid(p, 1) = n /\ (Kind(p) = "ASSIGN" \/ (Kind(p) = "UNARY" /\ ast[p].op = "AMP"))
HasAddress(n) == Kind(n) \in {"IDENT", "INDEX"} \/ (Kind(n) = "UNARY" /\ ast[n].op = "STAR")

\* CodeGen finds a variable where Sema found a function, in one of the two orders above.
Hidden(n) ==
  \E d \in Nodes :
    /\ Kind(d) = "VAR_DECL" /\ ast[d].name = ast[n].name
    /\ InOwnInitialiser(n, d) \/ InPostBeforeBody(n, d)
FunctionAsValue(n) ==
  Kind(n) = "IDENT" /\ Visited(n) /\ bind[n].kind = "FUNC" /\ ~Hidden(n)
NotLvalue(n) == Addressed(n) /\ Visited(n) /\ ~HasAddress(n)
ComputedGlobal(n) ==
  /\ Kind(n) = "VAR_DECL" /\ Parent(n) = 1
  /\ Kind(Kid(n, 1)) \notin Literals \cup {"NULL"}

(* CodeGen fails on an accepted program exactly when the code it generates names a      *)
(* function as a value that no variable hides from it, assigns to or takes the address of *)
(* a non-lvalue, or a global has a computed initialiser: no other "internal" error of     *)
(* CodeGen.c is reachable.                                                              *)
ErrorsExplained ==
  phase \in {"verify", "failed"} =>
    (cg_errors > 0 <=>
       \E n \in Nodes : FunctionAsValue(n) \/ NotLvalue(n) \/ ComputedGlobal(n))

-----------------------------------------------------------------------------
(* Values. *)

PointerOperand(n, i) == ~Scalar(rtype[Kid(n, i)])
HasFault(n) == \E f \in faults : f[1] = n

\* What Sema lets through and CodeGen has no case for, by the fault it leads to.
Gap(n, fault) ==
  LET kind == Kind(n)
  IN CASE fault = "zero" ->
            \/ kind = "BINARY" /\ ast[n].op \in Logical /\ (PointerOperand(n, 1) \/ PointerOperand(n, 2))
            \/ kind = "RETURN" /\ IsNull(Kid(n, 1))
            \/ kind = "FUNC_DECL" /\ ~Scalar(ast[n].type)
       [] fault = "operand" ->
            /\ kind = "BINARY" /\ (PointerOperand(n, 1) # PointerOperand(n, 2))
            /\ PointerOperand(n, 1) => ast[n].op \notin {"PLUS", "MINUS"}
       [] fault = "argument" ->
            /\ kind = "CALL"
            /\ \E i \in 2..Arity(n) : LET par == bind[Kid(n, 1)].params[i - 1]
                                      IN Converts(rtype[Kid(n, i)], par)
       [] fault = "store" ->
            /\ kind = "FUNC_DECL"
            /\ \E i \in DOMAIN ast[n].params :
                 LlvmType(ast[n].params[i].type)
                   # LlvmType(ast[FirstDeclaration(n)].params[i].type)
       [] OTHER -> FALSE

\* A value may be wrong because one it was computed from, or its name's meaning, was.
Tainted(n) ==
  \E m \in Nodes \ {n} :
    /\ Under(m, n)
    /\ \/ HasFault(m)
       \/ Kind(m) = "IDENT" /\ Visited(m) /\ cgbind[m] # bind[m].decl

(* Types Sema accepts give LLVM values of the types its instructions require: the first *)
(* ill-typed use in an expression is one of the gaps, or NULL after a reported error.   *)
FaultsExplained ==
  Generated => \A f \in faults :
    Gap(f[1], f[2]) \/ Tainted(f[1]) \/ (<<f[1], "null">> \in faults /\ cg_errors > 0)

(* A variable is used where its allocation does not dominate only if it was declared as *)
(* the whole body of an if, while or for (parse_stmt allows it, no scope is pushed).    *)
DominanceExplained ==
  phase = "verify" => \A u \in uses :
    u.home # 0 /\ ~Dominates(u.home, u.block) =>
      Kind(u.decl) = "VAR_DECL" /\ Kind(Parent(u.decl)) \in {"IF", "WHILE", "FOR"}

-----------------------------------------------------------------------------
(* Control flow. *)

\* Whether control can reach the end of a statement; conditions may go either way.
Completes[n \in Nodes] ==
  CASE Kind(n) = "RETURN" -> FALSE
    [] Kind(n) = "BLOCK" -> \A i \in 1..Arity(n) : Completes[Kid(n, i)]
    [] Kind(n) = "IF" -> IsNull(Kid(n, 3)) \/ Completes[Kid(n, 2)] \/ Completes[Kid(n, 3)]
    [] Kind(n) = "FOR" -> ~IsNull(Kid(n, 2))
    [] OTHER -> TRUE

\* Whether control can reach the start of a statement.
Reaches[n \in Nodes] ==
  LET p == Parent(n)
  IN Kind(n) = "FUNC_DECL" \/
     (Reaches[p] /\ (Kind(p) = "BLOCK" => \A m \in 2..(n - 1) : Parent(m) = p => Completes[m]))

FirstBody(f) ==
  \A g \in 1..(f - 1) :
    Kind(g) = "FUNC_DECL" /\ ast[g].name = ast[f].name => IsNull(Kid(g, 1))

(* Before each statement of a list and at its end, the builder is in an open block that *)
(* the entry block leads to exactly when control can get there in the source: no live   *)
(* code is dropped with the dead, no path is lost or added.  Of two bodies of a function *)
(* the second is appended to the first, and nothing leads to it (define_func_body).      *)
ReachabilityAgrees ==
  InList("BLOCK") \/ InList("FUNC_DECL") =>
    LET list == StatementList
        before == {list[i] : i \in 1..(CgTop.next - 2)}
    IN Open /\ insert \in ReachedAvoiding(0)
         <=> FirstBody(EnclosingFunction(at)) /\ Reaches[at] /\ \A m \in before : Completes[m]
=============================================================================
