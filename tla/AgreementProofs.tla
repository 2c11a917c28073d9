---------------------------- MODULE AgreementProofs ----------------------------
(***************************************************************************)
(* Proofs that CodeGen resolves names as Sema does, which errors it        *)
(* reports of a program Sema accepts, and which of its LLVM instructions   *)
(* get an operand of the wrong type.  CodeGen walks the tree as Sema did,  *)
(* on a call stack that is Sema's but for expressions and dead code; so    *)
(* what its scopes hold at an identifier is what Sema had met there, and   *)
(* the innermost declaration of the name is the same.  As it comes to no   *)
(* node twice, what an expression gave is what the type Sema resolved says *)
(* when it is used, if nothing has gone wrong in it.                       *)
(***************************************************************************)
EXTENDS SemanticsProofs

-----------------------------------------------------------------------------
(* CodeGen's call stack: the statements it executes, and on top of them the *)
(* expressions the last of them evaluates.                                 *)

IsExpr(f) == f.fn \in {"expr", "lvalue"}

\* The child the walk of the statements is at; the post expression of a loop comes after its body.
WalkNext(f) ==
  IF Kind(f.node) \in {"BLOCK", "FUNC_DECL"} THEN f.next - 1
  ELSE IF Kind(f.node) = "FOR" /\ f.next = 1 THEN 0
  ELSE IF Kind(f.node) = "FOR" /\ f.next = 4 THEN 5
  ELSE f.next
Walked(f) == [node |-> f.node, next |-> WalkNext(f)]
Walk(cs, m) == [i \in 1..m |-> Walked(cs[i])]

NowAt(f) == IF Kind(f.node) = "FOR" /\ f.next = 5 THEN 3 ELSE f.next - 1
Evaluating(f) ==
  /\ f.fn = "stmt" /\ Kind(f.node) \in StmtKinds \ {"BLOCK"}
  /\ NowAt(f) \in 1..Arity(f.node) /\ Kind(Kid(f.node, NowAt(f))) \in ExprKinds

\* The frames of cs up to m are statements, the others evaluate an expression of the last.
Layered(cs, m) ==
  /\ m <= Len(cs) /\ \A i \in 1..m : ~IsExpr(cs[i])
  /\ \A i \in 1..Len(cs) : i > m =>
       IsExpr(cs[i]) /\ Evaluating(cs[m]) /\ Under(cs[i].node, Kid(cs[m].node, NowAt(cs[m])))
Mirrors(fs, cs) ==
  /\ CallStackOK(fs) /\ Layered(cs, Len(fs))
  /\ \A i \in 1..Len(fs) : fs[i] = Walked(cs[i])

CgFine == CgGood /\ Whole

LEMMA FineStack ==
  ASSUME CgFine
  PROVE  /\ Depth \in Nat /\ Depth >= 1 /\ CgTop = stack[Depth] /\ at \in Nodes /\ CgTop.next \in Nat /\ CgTop.next >= 1
         /\ \A i \in 1..Depth : /\ stack[i].node \in Nodes /\ stack[i].next \in Nat /\ stack[i].next >= 1
                                /\ stack[i] \in FrameRecords /\ FrameOK(stack[i])
<1>1. StackOK /\ stack # <<>>
  BY DEF CgFine, CgGood
<1>2. Depth \in Nat /\ Depth >= 1 /\ CgTop = stack[Depth] /\ at \in Nodes /\ CgTop.next \in Nat /\ CgTop.next >= 1
  BY <1>1, CgTopFacts DEF Depth
<1>3. \A i \in 1..Depth : stack[i] \in FrameRecords /\ FrameOK(stack[i])
  BY <1>1, DepthFacts
<1> QED
  BY <1>2, <1>3 DEF FrameRecords, FrameOK

\* Where the running function is.
LEMMA MirrorTop ==
  ASSUME CgFine, NEW fs, Mirrors(fs, stack)
  PROVE  /\ Len(fs) \in Nat /\ Len(fs) >= 1 /\ Len(fs) <= Depth /\ CallStackOK(fs)
         /\ \A i \in 1..Len(fs) : fs[i] = Walked(stack[i])
         /\ IsExpr(CgTop) =>
              /\ Len(fs) < Depth /\ Evaluating(stack[Len(fs)])
              /\ Under(at, Kid(stack[Len(fs)].node, NowAt(stack[Len(fs)])))
         /\ ~IsExpr(CgTop) => Len(fs) = Depth /\ fs[Depth] = Walked(CgTop) /\ fs[Depth].node = at
                              /\ fs[Depth].next = WalkNext(CgTop)
<1>0. Depth \in Nat /\ Depth >= 1 /\ CgTop = stack[Depth] /\ at = CgTop.node
  BY FineStack DEF at
<1>1. Len(fs) \in Nat /\ Len(fs) >= 1
  BY DEF Mirrors, CallStackOK
<1>2. Len(fs) <= Depth /\ (\A i \in 1..Len(fs) : ~IsExpr(stack[i]))
  BY DEF Mirrors, Layered, Depth
<1>3. \A i \in 1..Depth : i > Len(fs) =>
       /\ IsExpr(stack[i]) /\ Evaluating(stack[Len(fs)])
       /\ Under(stack[i].node, Kid(stack[Len(fs)].node, NowAt(stack[Len(fs)])))
  BY DEF Mirrors, Layered, Depth
<1>4. IsExpr(stack[Depth]) => Len(fs) # Depth
  BY <1>0, <1>2
<1>5. Len(fs) # Depth => Depth > Len(fs) /\ Depth \in 1..Depth
  BY <1>0, <1>1, <1>2
<1>6. Len(fs) = Depth => fs[Depth] = Walked(CgTop)
  BY <1>0 DEF Mirrors
<1> QED
  BY <1>0, <1>1, <1>2, <1>3, <1>4, <1>5, <1>6 DEF Mirrors, Walked

LEMMA WalkFacts ==
  ASSUME CgFine, NEW m \in Nat,
         \A i \in 1..m : stack'[i].node \in Nodes /\ stack'[i].next \in Nat /\ stack'[i].next >= 1
  PROVE  LET gs == Walk(stack', m)
         IN /\ gs \in Seq(FrameSet) /\ Len(gs) = m
            /\ \A i \in 1..m : gs[i] = Walked(stack'[i])
<1> DEFINE gs == Walk(stack', m)
<1>1. \A i \in 1..m : Walked(stack'[i]) \in FrameSet
  BY DEF Walked, WalkNext, FrameSet
<1>2. gs \in [1..m -> FrameSet]
  BY <1>1 DEF Walk
<1>3. gs \in Seq(FrameSet) /\ Len(gs) = m
  BY <1>2
<1> QED
  BY <1>3 DEF Walk

\* The statements after a step, and the scopes that go with them.
Goes == \E gs : Mirrors(gs, stack') /\ Holding(gs, env')

LEMMA MirrorNext ==
  ASSUME CgFine, NEW fs, Mirrors(fs, stack), ~IsExpr(CgTop), Below, Depth' \in Nat,
         NEW gs, CallStackOK(gs), Len(gs) <= Depth', \A i \in 1..Len(gs) : i < Depth => gs[i] = fs[i],
         \A i \in 1..Len(gs) : i >= Depth => ~IsExpr(stack'[i]) /\ gs[i] = Walked(stack'[i]),
         \A i \in 1..Depth' : i > Len(gs) =>
           /\ IsExpr(stack'[i]) /\ Evaluating(stack'[Len(gs)])
           /\ Under(stack'[i].node, Kid(stack'[Len(gs)].node, NowAt(stack'[Len(gs)])))
  PROVE  Mirrors(gs, stack')
<1>0. Depth \in Nat /\ Depth >= 1 /\ Len(gs) \in Nat
  BY FineStack DEF CallStackOK
<1>1. Len(fs) = Depth /\ (\A i \in 1..Len(fs) : fs[i] = Walked(stack[i]))
  BY MirrorTop
<1>2. \A i \in 1..Len(fs) : ~IsExpr(stack[i])
  BY DEF Mirrors, Layered
<1>3. \A i \in 1..Len(gs) : i < Depth => i \in 1..Len(fs) /\ stack'[i] = stack[i]
  BY <1>0, <1>1 DEF Below, Depth
<1>4. \A i \in 1..Len(gs) : ~IsExpr(stack'[i]) /\ gs[i] = Walked(stack'[i])
  BY <1>0, <1>1, <1>2, <1>3
<1>5. Depth' = Len(stack')
  BY DEF Depth
<1> QED
  BY <1>4, <1>5 DEF Mirrors, Layered

\* cg_expr and cg_lvalue call and return among themselves.
LEMMA ExprStays ==
  ASSUME CgFine, NEW fs, Mirrors(fs, stack), Holding(fs, env), UNCHANGED env, IsExpr(CgTop), Below,
         Depth' \in Nat, Depth' >= Depth - 1, Depth' <= Depth + 1,
         Depth' >= Depth => stack'[Depth].fn = CgTop.fn /\ stack'[Depth].node = at,
         Depth' = Depth + 1 =>
           /\ IsExpr(stack'[Depth + 1]) /\ stack'[Depth + 1].node \in Nodes
           /\ Under(stack'[Depth + 1].node, at)
  PROVE  Goes
<1> DEFINE m == Len(fs)
           n == Kid(stack[m].node, NowAt(stack[m]))
<1>0. Depth \in Nat /\ Depth >= 1 /\ CgTop = stack[Depth] /\ at \in Nodes
  BY FineStack
<1>1. m \in Nat /\ m >= 1 /\ m < Depth /\ Evaluating(stack[m]) /\ Under(at, n) /\ CallStackOK(fs)
  BY MirrorTop
<1>2. \A i \in 1..m : stack'[i] = stack[i]
  BY <1>0, <1>1 DEF Below, Depth
<1>3. /\ \A i \in 1..m : ~IsExpr(stack[i]) /\ fs[i] = Walked(stack[i])
      /\ \A i \in 1..Depth : i > m => IsExpr(stack[i]) /\ Under(stack[i].node, n)
  BY DEF Mirrors, Layered, Depth
<1>4. m <= Depth' /\ stack'[m] = stack[m]
  BY <1>0, <1>1, <1>2
<1>5. \A i \in 1..m : ~IsExpr(stack'[i]) /\ fs[i] = Walked(stack'[i])
  BY <1>2, <1>3
<1>6. ASSUME NEW i \in 1..Depth', i > m PROVE IsExpr(stack'[i]) /\ Under(stack'[i].node, n)
  <2>1. CASE i < Depth
    <3>1. stack'[i] = stack[i] /\ i \in 1..Depth
      BY <1>0, <2>1 DEF Below, Depth
    <3> QED
      BY <1>3, <1>6, <3>1
  <2>2. CASE i = Depth
    BY <1>0, <1>1, <2>2 DEF IsExpr
  <2>3. CASE i > Depth
    <3>1. i = Depth + 1 /\ Depth' = Depth + 1
      BY <1>0, <2>3
    <3>2. IsExpr(stack'[i]) /\ Under(stack'[i].node, at) /\ stack'[i].node \in Nodes
      BY <3>1
    <3> QED
      BY <1>0, <1>1, <3>2, UnderTransitive DEF CgFine, Whole
  <2> QED
    BY <1>0, <2>1, <2>2, <2>3
<1>7. Layered(stack', m)
  BY <1>1, <1>4, <1>5, <1>6 DEF Layered, Depth
<1>8. Mirrors(fs, stack')
  BY <1>1, <1>5, <1>7 DEF Mirrors
<1> QED
  BY <1>8 DEF Goes

\* The frames below the running function's are as they were.
Same(fs, gs) ==
  Len(gs) = Len(fs) /\ \A i \in 1..Len(fs) : gs[i].node = fs[i].node /\ (i # Len(fs) => gs[i] = fs[i])

LEMMA BackOne ==
  ASSUME CgFine, NEW fs, Mirrors(fs, stack), ~IsExpr(CgTop), Depth >= 2, CgReturn,
         NEW mid, CallStackOK(mid), Same(fs, mid), NEW gs, gs = Walk(stack', Depth - 1)
  PROVE  gs \in Seq(FrameSet) /\ Popped(mid, gs) /\ Mirrors(gs, stack')
<1>0. /\ Depth \in Nat /\ Depth >= 1 /\ StackOK /\ stack # <<>>
      /\ \A i \in 1..Depth : stack[i].node \in Nodes /\ stack[i].next \in Nat /\ stack[i].next >= 1
  BY FineStack DEF CgFine, CgGood
<1>1. Depth' = Depth - 1 /\ Below
  BY <1>0, Returned DEF Depth
<1>2. \A i \in 1..(Depth - 1) : stack'[i] = stack[i] /\ i \in 1..Depth
  BY <1>0, <1>1 DEF Below, Depth
<1>3. gs \in Seq(FrameSet) /\ Len(gs) = Depth - 1 /\ \A i \in 1..(Depth - 1) : gs[i] = Walked(stack'[i])
  <2>1. \A i \in 1..(Depth - 1) : stack'[i].node \in Nodes /\ stack'[i].next \in Nat /\ stack'[i].next >= 1
    BY <1>0, <1>2
  <2>2. Depth - 1 \in Nat
    BY <1>0
  <2> QED
    BY <2>1, <2>2, WalkFacts
<1>4. Len(fs) = Depth /\ (\A i \in 1..Len(fs) : fs[i] = Walked(stack[i]))
  BY MirrorTop
<1>5. \A i \in 1..(Depth - 1) : gs[i] = fs[i] /\ gs[i] = mid[i]
  BY <1>0, <1>2, <1>3, <1>4 DEF Same
<1>6. Popped(mid, gs)
  BY <1>3, <1>4, <1>5 DEF Popped, Same
<1>7. CallStackOK(gs)
  <2>1. Len(mid) >= 2
    BY <1>4 DEF Same
  <2> QED
    BY <1>3, <1>6, <2>1, PoppedStack DEF CgFine
<1>8. \A i \in 1..Len(gs) : i < Depth
  BY <1>0, <1>3
<1>9. Mirrors(gs, stack')
  <2>1. \A i \in 1..Len(gs) : i < Depth => gs[i] = fs[i]
    BY <1>3, <1>5
  <2>2. \A i \in 1..Len(gs) : i >= Depth => ~IsExpr(stack'[i]) /\ gs[i] = Walked(stack'[i])
    BY <1>0, <1>3
  <2>3. \A i \in 1..Depth' : i > Len(gs) =>
          /\ IsExpr(stack'[i]) /\ Evaluating(stack'[Len(gs)])
          /\ Under(stack'[i].node, Kid(stack'[Len(gs)].node, NowAt(stack'[Len(gs)])))
    BY <1>0, <1>1, <1>3
  <2>4. Depth' \in Nat /\ Len(gs) <= Depth'
    BY <1>0, <1>1, <1>3
  <2> QED
    BY <1>1, <1>7, <2>1, <2>2, <2>3, <2>4, MirrorNext
<1> QED
  BY <1>3, <1>6, <1>9

\* The node of a running statement or declaration.
LEMMA StatementNode ==
  ASSUME CgFine, ~IsExpr(CgTop)
  PROVE  Kind(at) \notin ExprKinds \cup Null
<1>1. CgTop.fn \in {"module", "define", "global", "stmt"} /\ Kind(at) \in KindsOf(CgTop.fn)
  <2>1. StackOK /\ stack # <<>>
    BY DEF CgFine, CgGood
  <2>2. CgTop.fn \in FnNames /\ FrameOK(CgTop)
    BY <2>1, CgTopFacts
  <2> QED
    BY <2>2 DEF FnNames, IsExpr, FrameOK, at
<1> QED
  BY <1>1 DEF KindsOf, StmtKinds, ExprKinds, Literals, Null

\* A statement or a declaration that has no scope is done.
LEMMA GoesBack ==
  ASSUME CgFine, NEW fs, Mirrors(fs, stack), ~IsExpr(CgTop), Depth >= 2, CgReturn,
         NEW mid, CallStackOK(mid), Same(fs, mid), Complete(mid), Len(mid) \notin OpenAt(mid),
         Holding(mid, env')
  PROVE  Goes
<1> DEFINE gs == Walk(stack', Depth - 1)
<1>1. gs \in Seq(FrameSet) /\ Popped(mid, gs) /\ Mirrors(gs, stack')
  BY BackOne
<1>2. Len(mid) = Depth /\ mid[Len(mid)].node = at
  BY MirrorTop, FineStack DEF Same
<1>3. Kind(mid[Len(mid)].node) \notin ExprKinds \cup Null /\ Len(mid) >= 2
  BY <1>2, StatementNode
<1>4. Holding(gs, env')
  BY <1>1, <1>3, HoldsPop DEF CgFine
<1> QED
  BY <1>1, <1>4 DEF Goes

LEMMA FrontFacts ==
  ASSUME NEW S, NEW q \in Seq(S), Len(q) >= 1, NEW r, r = SubSeq(q, 1, Len(q) - 1)
  PROVE  Len(q) \in Nat /\ Len(r) = Len(q) - 1 /\ \A j \in 1..(Len(q) - 1) : r[j] = q[j]
<1>1. Len(q) \in Nat
  OBVIOUS
<1>2. PICK k \in Nat : k = Len(q) - 1
  BY <1>1
<1>3. r = SubSeq(q, 1, k)
  BY <1>2
<1>4. Len(r) = k /\ \A j \in 1..k : r[j] = q[j]
  BY <1>1, <1>2, <1>3
<1> QED
  BY <1>1, <1>2, <1>4

\* One that has a scope is left.
LEMMA GoesOut ==
  ASSUME CgFine, NEW fs, Mirrors(fs, stack), ~IsExpr(CgTop), Depth >= 2, CgReturn, CgPopScope,
         Len(fs) \in OpenAt(fs), Holding(fs, env)
  PROVE  Goes
<1> DEFINE gs == Walk(stack', Depth - 1)
<1>1. CallStackOK(fs) /\ Len(fs) = Depth
  BY MirrorTop
<1>2. gs \in Seq(FrameSet) /\ Popped(fs, gs) /\ Mirrors(gs, stack')
  <2>1. Same(fs, fs)
    BY DEF Same
  <2> QED
    BY <1>1, <2>1, BackOne
<1>3. env \in Seq(VarScopes) /\ Len(env) >= 1
  <2>1. EnvOK /\ stack # <<>> /\ StackOK
    BY DEF CgFine, CgGood
  <2>2. Cardinality(CgActive) \in Nat
    BY <2>1, CgActiveIsFinite
  <2> QED
    BY <2>1, <2>2 DEF EnvOK
<1>4. Len(env) \in Nat /\ Len(env') = Len(env) - 1 /\ \A j \in 1..(Len(env) - 1) : env'[j] = env[j]
  BY <1>3, FrontFacts DEF CgPopScope
<1>5. Len(fs) >= 2
  BY <1>1
<1>6. Holding(gs, env')
  BY <1>1, <1>2, <1>4, <1>5, HoldsLeave DEF CgFine
<1> QED
  BY <1>2, <1>6 DEF Goes

\* What a call gives the walk.
LEMMA CallWalk ==
  ASSUME CgFine, NEW fs, Mirrors(fs, stack), ~IsExpr(CgTop), NEW mid, Same(fs, mid),
         NEW locals \in [Roles -> Nat], NEW fn \in FnNames, NEW c \in Nodes, CallWith(locals, fn, c),
         NEW m \in Depth..Depth', NEW gs, gs = Walk(stack', m)
  PROVE  /\ Below /\ Depth' = (IF IsNull(c) THEN Depth ELSE Depth + 1)
         /\ stack'[Depth] = Resumed(locals) /\ (~IsNull(c) => stack'[Depth + 1] = CgFrame(fn, c))
         /\ gs \in Seq(FrameSet) /\ Len(gs) = m /\ \A i \in 1..m : gs[i] = Walked(stack'[i])
         /\ \A i \in 1..Depth : i # Depth => gs[i] = fs[i] /\ gs[i] = mid[i]
         /\ gs[Depth].node = at /\ gs[Depth].next = WalkNext(Resumed(locals))
         /\ Resumed(locals).fn = CgTop.fn /\ Resumed(locals).node = at /\ Resumed(locals).next = CgTop.next + 1
<1>0. /\ Depth \in Nat /\ Depth >= 1 /\ StackOK /\ stack # <<>> /\ at \in Nodes
      /\ CgTop.next \in Nat /\ CgTop.next >= 1
      /\ \A i \in 1..Depth : stack[i].node \in Nodes /\ stack[i].next \in Nat /\ stack[i].next >= 1
  BY FineStack DEF CgFine, CgGood
<1>1. /\ Below /\ stack'[Depth] = Resumed(locals) /\ Depth' = IF IsNull(c) THEN Depth ELSE Depth + 1
      /\ ~IsNull(c) => stack'[Depth + 1] = CgFrame(fn, c)
  BY <1>0, Called DEF Depth
<1>2. /\ Resumed(locals).fn = CgTop.fn /\ Resumed(locals).node = at /\ Resumed(locals).next = CgTop.next + 1
  BY <1>0, ResumedFields
<1>3. CgFrame(fn, c).node = c /\ CgFrame(fn, c).next = 1
  BY FrameOfCall
<1>4. \A i \in 1..Depth : i # Depth => stack'[i] = stack[i]
  BY <1>0, <1>1 DEF Below, Depth
<1>5. m \in Nat /\ m >= Depth /\ m <= Depth + 1
  BY <1>0, <1>1
<1>6. \A i \in 1..m : stack'[i].node \in Nodes /\ stack'[i].next \in Nat /\ stack'[i].next >= 1
  <2> TAKE i \in 1..m
  <2>1. CASE i < Depth
    BY <1>0, <1>4, <2>1
  <2>2. CASE i = Depth
    BY <1>0, <1>1, <1>2, <2>2
  <2>3. CASE i > Depth
    <3>1. i = Depth + 1 /\ ~IsNull(c)
      BY <1>0, <1>1, <1>5, <2>3
    <3> QED
      BY <1>1, <1>3, <3>1
  <2> QED
    BY <1>0, <2>1, <2>2, <2>3
<1>7. gs \in Seq(FrameSet) /\ Len(gs) = m /\ \A i \in 1..m : gs[i] = Walked(stack'[i])
  BY <1>5, <1>6, WalkFacts
<1>8. Len(fs) = Depth /\ (\A i \in 1..Len(fs) : fs[i] = Walked(stack[i]))
  BY MirrorTop
<1>9. \A i \in 1..Depth : i # Depth => gs[i] = fs[i] /\ gs[i] = mid[i]
  BY <1>0, <1>4, <1>5, <1>7, <1>8 DEF Same
<1>10. gs[Depth] = Walked(Resumed(locals))
  BY <1>0, <1>1, <1>5, <1>7
<1>11. gs[Depth].node = at /\ gs[Depth].next = WalkNext(Resumed(locals))
  BY <1>2, <1>10 DEF Walked
<1> QED
  BY <1>1, <1>2, <1>7, <1>9, <1>11

\* A statement or a declaration goes on to the next statement of it.
LEMMA GoesInto ==
  ASSUME CgFine, NEW fs, Mirrors(fs, stack), ~IsExpr(CgTop),
         NEW mid, CallStackOK(mid), Same(fs, mid), Holding(mid, env'),
         NEW locals \in [Roles -> Nat], NEW fn \in FnNames \ {"expr", "lvalue"}, NEW c \in Nodes,
         CallWith(locals, fn, c), Kind(at) # "VAR_DECL",
         mid[Depth].next \in 1..VisitCount(at), c = VisitKid(at, mid[Depth].next),
         WalkNext(Resumed(locals)) = mid[Depth].next + 1
  PROVE  Goes
<1> DEFINE gs == Walk(stack', Depth')
<1>0. Depth \in Nat /\ Depth >= 1 /\ at \in Nodes
  BY FineStack
<1>1. Len(fs) = Depth /\ Len(mid) = Depth /\ mid[Depth].node = at
  <2>1. Len(fs) = Depth /\ fs[Depth].node = at
    BY MirrorTop
  <2> QED
    BY <1>0, <2>1 DEF Same
<1>2. Depth' \in Nat /\ Depth' >= Depth /\ Depth' <= Depth + 1 /\ Depth' \in Depth..Depth'
  <2>1. StackOK /\ stack # <<>>
    BY DEF CgFine, CgGood
  <2>2. Depth' = IF IsNull(c) THEN Depth ELSE Depth + 1
    BY <2>1, Called DEF Depth
  <2> QED
    BY <1>0, <2>2
<1>3. /\ Below /\ Depth' = (IF IsNull(c) THEN Depth ELSE Depth + 1)
      /\ stack'[Depth] = Resumed(locals) /\ (~IsNull(c) => stack'[Depth + 1] = CgFrame(fn, c))
      /\ gs \in Seq(FrameSet) /\ Len(gs) = Depth' /\ \A i \in 1..Depth' : gs[i] = Walked(stack'[i])
      /\ \A i \in 1..Depth : i # Depth => gs[i] = fs[i] /\ gs[i] = mid[i]
      /\ gs[Depth].node = at /\ gs[Depth].next = WalkNext(Resumed(locals))
      /\ Resumed(locals).fn = CgTop.fn
  <2>1. fn \in FnNames
    OBVIOUS
  <2> QED
    BY <1>2, <2>1, CallWalk
<1>4. ~IsNull(c) => gs[Depth + 1] = Frame(c) /\ ~IsExpr(stack'[Depth + 1])
  <2> SUFFICES ASSUME ~IsNull(c) PROVE gs[Depth + 1] = Frame(c) /\ ~IsExpr(stack'[Depth + 1])
    OBVIOUS
  <2>1. gs[Depth + 1] = Walked(CgFrame(fn, c))
    BY <1>0, <1>3
  <2>2. CgFrame(fn, c).fn = fn /\ CgFrame(fn, c).node = c /\ CgFrame(fn, c).next = 1
    BY FrameOfCall
  <2>3. WalkNext(CgFrame(fn, c)) = IF Kind(c) \in ScopedKinds THEN 0 ELSE 1
    BY <2>2 DEF WalkNext, ScopedKinds
  <2>4. Walked(CgFrame(fn, c)) = Frame(c)
    BY <2>2, <2>3 DEF Walked, Frame
  <2> QED
    BY <1>3, <2>1, <2>2, <2>4 DEF IsExpr
<1>5. ChildCalled(mid, gs)
  <2>1. \A i \in 1..Len(mid) : gs[i].node = mid[i].node /\ (i # Len(mid) => gs[i] = mid[i])
    BY <1>0, <1>1, <1>3
  <2>2. gs[Len(mid)].next = mid[Len(mid)].next + 1
    BY <1>1, <1>3
  <2> QED
    BY <1>1, <1>3, <1>4, <2>1, <2>2 DEF ChildCalled
<1>6. CallStackOK(gs)
  BY <1>3, <1>5, CalledStack DEF CgFine
<1>7. Holding(gs, env')
  <2>1. Kind(mid[Len(mid)].node) # "VAR_DECL"
    BY <1>1
  <2> QED
    BY <1>5, <2>1, HoldsCall DEF CgFine
<1>8. Mirrors(gs, stack')
  <2>1. \A i \in 1..Len(gs) : i < Depth => gs[i] = fs[i]
    BY <1>0, <1>3
  <2>2. \A i \in 1..Len(gs) : i >= Depth => ~IsExpr(stack'[i]) /\ gs[i] = Walked(stack'[i])
    <3> TAKE i \in 1..Len(gs)
    <3> HAVE i >= Depth
    <3>1. gs[i] = Walked(stack'[i]) /\ (i = Depth \/ (i = Depth + 1 /\ ~IsNull(c)))
      BY <1>0, <1>2, <1>3
    <3>2. ~IsExpr(stack'[Depth])
      BY <1>3 DEF IsExpr
    <3> QED
      BY <1>4, <3>1, <3>2
  <2>3. \A i \in 1..Depth' : i > Len(gs) =>
          /\ IsExpr(stack'[i]) /\ Evaluating(stack'[Len(gs)])
          /\ Under(stack'[i].node, Kid(stack'[Len(gs)].node, NowAt(stack'[Len(gs)])))
    BY <1>2, <1>3
  <2>4. Len(gs) <= Depth'
    BY <1>2, <1>3
  <2> HIDE DEF gs
  <2> QED
    BY <1>2, <1>3, <1>6, <2>1, <2>2, <2>3, <2>4, MirrorNext
<1> QED
  BY <1>7, <1>8 DEF Goes

\* A statement evaluates an expression of it.
LEMMA GoesAcross ==
  ASSUME CgFine, NEW fs, Mirrors(fs, stack), CgTop.fn = "stmt", Kind(at) \in StmtKinds \ {"BLOCK"},
         NEW mid, CallStackOK(mid), Same(fs, mid), Holding(mid, env'),
         NEW locals \in [Roles -> Nat], NEW fn \in {"expr", "lvalue"}, NEW c \in Nodes,
         CallWith(locals, fn, c), WalkNext(Resumed(locals)) = mid[Depth].next,
         NEW l \in 1..Arity(at), l = NowAt(Resumed(locals)), c = CgKid(l), Kind(c) \in ExprKinds \cup Null
  PROVE  Goes
<1> DEFINE gs == Walk(stack', Depth)
<1>0. Depth \in Nat /\ Depth >= 1 /\ at \in Nodes /\ ~IsExpr(CgTop)
  BY FineStack DEF IsExpr
<1>1. Len(fs) = Depth /\ Len(mid) = Depth /\ mid[Depth].node = at
  <2>1. Len(fs) = Depth /\ fs[Depth].node = at
    BY <1>0, MirrorTop
  <2> QED
    BY <1>0, <2>1 DEF Same
<1>2. fn \in FnNames
  BY DEF FnNames
<1>3. Depth' \in Nat /\ Depth \in Depth..Depth'
  <2>1. StackOK /\ stack # <<>>
    BY DEF CgFine, CgGood
  <2>2. Depth' = IF IsNull(c) THEN Depth ELSE Depth + 1
    BY <1>2, <2>1, Called DEF Depth
  <2> QED
    BY <1>0, <2>2
<1>4. /\ Below /\ Depth' = (IF IsNull(c) THEN Depth ELSE Depth + 1)
      /\ stack'[Depth] = Resumed(locals) /\ (~IsNull(c) => stack'[Depth + 1] = CgFrame(fn, c))
      /\ gs \in Seq(FrameSet) /\ Len(gs) = Depth /\ \A i \in 1..Depth : gs[i] = Walked(stack'[i])
      /\ \A i \in 1..Depth : i # Depth => gs[i] = fs[i] /\ gs[i] = mid[i]
      /\ gs[Depth].node = at /\ gs[Depth].next = WalkNext(Resumed(locals))
      /\ Resumed(locals).fn = CgTop.fn /\ Resumed(locals).node = at
  BY <1>0, <1>2, <1>3, CallWalk
<1>5. gs = mid
  <2>1. gs \in Seq(FrameSet) /\ mid \in Seq(FrameSet) /\ Len(gs) = Len(mid)
    BY <1>1, <1>4 DEF CallStackOK
  <2>2. \A i \in 1..Depth : gs[i] = mid[i]
    <3> TAKE i \in 1..Depth
    <3>1. gs[Depth] \in FrameSet /\ mid[Depth] \in FrameSet
      BY <1>0, <1>1, <2>1
    <3>2. gs[Depth] = mid[Depth]
      BY <1>1, <1>4, <3>1 DEF FrameSet
    <3> QED
      BY <1>4, <3>2
  <2> HIDE DEF gs
  <2> QED
    BY <1>1, <2>1, <2>2
<1>6. Mirrors(gs, stack')
  <2>1. \A i \in 1..Len(gs) : i < Depth => gs[i] = fs[i]
    BY <1>0, <1>4
  <2>2. \A i \in 1..Len(gs) : i >= Depth => ~IsExpr(stack'[i]) /\ gs[i] = Walked(stack'[i])
    BY <1>0, <1>4 DEF IsExpr
  <2>3. ASSUME NEW i \in 1..Depth', i > Len(gs)
        PROVE  /\ IsExpr(stack'[i]) /\ Evaluating(stack'[Len(gs)])
               /\ Under(stack'[i].node, Kid(stack'[Len(gs)].node, NowAt(stack'[Len(gs)])))
    <3>1. i = Depth + 1 /\ ~IsNull(c) /\ stack'[i] = CgFrame(fn, c)
      BY <1>0, <1>4, <2>3
    <3>2. CgFrame(fn, c).fn = fn /\ CgFrame(fn, c).node = c
      BY <1>2, FrameOfCall
    <3>3. stack'[Len(gs)] = Resumed(locals) /\ Kid(Resumed(locals).node, NowAt(Resumed(locals))) = c
      BY <1>4 DEF CgKid
    <3>4. Kind(c) \in ExprKinds
      BY <3>1 DEF Null, IsNull
    <3>5. Evaluating(Resumed(locals))
      BY <1>4, <3>3, <3>4 DEF Evaluating
    <3>6. Under(c, c)
      BY UnderSelf DEF CgFine, Whole
    <3> QED
      BY <3>1, <3>2, <3>3, <3>5, <3>6 DEF IsExpr
  <2>4. Len(gs) <= Depth' /\ CallStackOK(gs)
    BY <1>0, <1>4, <1>5
  <2> HIDE DEF gs
  <2> QED
    BY <1>0, <1>3, <1>4, <2>1, <2>2, <2>3, <2>4, MirrorNext
<1> QED
  BY <1>5, <1>6 DEF Goes

\* Nothing is called.
LEMMA GoesOn ==
  ASSUME CgFine, NEW fs, Mirrors(fs, stack), ~IsExpr(CgTop), Below, Depth' = Depth,
         stack'[Depth].fn = CgTop.fn,
         NEW mid, CallStackOK(mid), Same(fs, mid), Holding(mid, env'), mid[Depth] = Walked(stack'[Depth])
  PROVE  Goes
<1>0. Depth \in Nat /\ Depth >= 1 /\ Len(fs) = Depth /\ Len(mid) = Depth
  BY FineStack, MirrorTop DEF Same
<1>1. \A i \in 1..Len(mid) : i < Depth => mid[i] = fs[i]
  BY <1>0 DEF Same
<1>2. \A i \in 1..Len(mid) : i >= Depth => ~IsExpr(stack'[i]) /\ mid[i] = Walked(stack'[i])
  BY <1>0 DEF IsExpr
<1>3. \A i \in 1..Depth' : i > Len(mid) =>
        /\ IsExpr(stack'[i]) /\ Evaluating(stack'[Len(mid)])
        /\ Under(stack'[i].node, Kid(stack'[Len(mid)].node, NowAt(stack'[Len(mid)])))
  BY <1>0
<1>4. Mirrors(mid, stack')
  BY <1>0, <1>1, <1>2, <1>3, MirrorNext
<1> QED
  BY <1>4 DEF Goes

-----------------------------------------------------------------------------
(* Each step of CodeGen, as a step of the statements. *)

Retop(fs, w) ==
  [i \in 1..Len(fs) |-> IF i = Len(fs) THEN [node |-> fs[i].node, next |-> w] ELSE fs[i]]

LEMMA RetopFacts ==
  ASSUME Whole, NEW fs, CallStackOK(fs), NEW w \in Nat, NEW gs, gs = Retop(fs, w)
  PROVE  /\ gs \in Seq(FrameSet) /\ Len(gs) = Len(fs) /\ Same(fs, gs)
         /\ gs[Len(fs)].next = w /\ gs[Len(fs)].node = fs[Len(fs)].node
<1>1. Len(fs) \in Nat /\ Len(fs) >= 1 /\ \A i \in 1..Len(fs) : fs[i].node \in Nodes /\ fs[i] \in FrameSet
  BY StackFacts
<1>2. \A i \in 1..Len(fs) : [node |-> fs[i].node, next |-> w] \in FrameSet
  BY <1>1 DEF FrameSet
<1>3. gs \in [1..Len(fs) -> FrameSet]
  BY <1>1, <1>2 DEF Retop
<1>4. gs \in Seq(FrameSet) /\ Len(gs) = Len(fs)
  BY <1>1, <1>3
<1>5. Len(fs) \in 1..Len(fs)
  BY <1>1
<1>6. gs[Len(fs)] = [node |-> fs[Len(fs)].node, next |-> w]
  BY <1>5 DEF Retop
<1>7. \A i \in 1..Len(fs) : i # Len(fs) => gs[i] = fs[i]
  BY DEF Retop
<1>8. \A i \in 1..Len(fs) : gs[i].node = fs[i].node
  BY <1>6, <1>7
<1> QED
  BY <1>4, <1>6, <1>7, <1>8 DEF Same

\* The running function passes over children that declare nothing.
LEMMA Advances ==
  ASSUME CgFine, NEW fs, Mirrors(fs, stack), ~IsExpr(CgTop), WalkNext(CgTop) >= 1,
         NEW w \in Nat, w >= WalkNext(CgTop), w <= VisitCount(at) + 1,
         \A k \in 1..VisitCount(at) : k >= WalkNext(CgTop) /\ k < w => Kind(VisitKid(at, k)) \in ExprKinds \cup Null,
         NEW mid, mid = Retop(fs, w)
  PROVE  /\ Advanced(fs, mid) /\ CallStackOK(mid) /\ Same(fs, mid) /\ mid[Depth].next = w /\ mid[Depth].node = at
         /\ Len(mid) = Depth /\ OpenAt(mid) = OpenAt(fs)
<1>1. Len(fs) = Depth /\ fs[Depth].node = at /\ fs[Depth].next = WalkNext(CgTop) /\ CallStackOK(fs)
  BY MirrorTop
<1>2. /\ mid \in Seq(FrameSet) /\ Len(mid) = Len(fs) /\ Same(fs, mid)
      /\ mid[Len(fs)].next = w /\ mid[Len(fs)].node = fs[Len(fs)].node
  BY <1>1, RetopFacts DEF CgFine
<1>3. Advanced(fs, mid)
  BY <1>1, <1>2 DEF Advanced, Same
<1> QED
  BY <1>1, <1>2, <1>3, AdvancedStack DEF CgFine

\* The children of statements, as the walk sees them.
LEMMA VisitAsKid ==
  ASSUME NEW n, Kind(n) \notin {"FUNC_DECL", "CALL"}
  PROVE  VisitCount(n) = Arity(n) /\ \A k : VisitKid(n, k) = Kid(n, k)
BY DEF VisitCount, VisitKid

LEMMA ExpressionReturns ==
  ASSUME CgFine, NEW fs, Mirrors(fs, stack), Holding(fs, env),
         \/ CgLiteral \/ CgIdent \/ CgIndexAddress \/ CgDerefAddress \/ CgUnhandled
         \/ CgAssign \/ CgArith \/ CgAddress \/ CgLoad \/ CgNegate \/ CgNot \/ CgCall
         \/ CgLogicalMerge
  PROVE  Goes
<1>1. CgReturn /\ UNCHANGED env /\ CgTop.fn \in {"expr", "lvalue"}
  BY DEF CgLiteral, CgIdent, CgIndexAddress, CgDerefAddress, CgUnhandled, CgAssign, CgArith, CgAddress, CgLoad,
         CgNegate, CgNot, CgCall, CgLogicalMerge, Evaluated, EvaluatedOp, Step, Compute, Pass, CgError, Give
<1>2. Depth \in Nat /\ Depth >= 1 /\ Depth' = Depth - 1 /\ Below
  BY <1>1, FineStack, Returned DEF Depth, CgFine, CgGood
<1>3. IsExpr(CgTop)
  BY <1>1 DEF IsExpr
<1>4. Depth' \in Nat /\ Depth' >= Depth - 1 /\ Depth' <= Depth + 1 /\ ~(Depth' >= Depth) /\ ~(Depth' = Depth + 1)
  BY <1>2
<1> QED
  BY <1>1, <1>2, <1>3, <1>4, ExprStays

\* An expression calls one of its own.
LEMMA ExpressionCalls ==
  ASSUME CgFine, NEW fs, Mirrors(fs, stack), Holding(fs, env), UNCHANGED env, IsExpr(CgTop),
         NEW locals \in [Roles -> Nat], NEW fn \in {"expr", "lvalue"}, NEW c \in Nodes, Under(c, at),
         CallWith(locals, fn, c)
  PROVE  Goes
<1>0. StackOK /\ stack # <<>> /\ fn \in FnNames
  BY DEF CgFine, CgGood, FnNames
<1>1. /\ Below /\ stack'[Depth] = Resumed(locals) /\ Depth' = IF IsNull(c) THEN Depth ELSE Depth + 1
      /\ ~IsNull(c) => stack'[Depth + 1] = CgFrame(fn, c)
  BY <1>0, Called DEF Depth
<1>2. Resumed(locals).fn = CgTop.fn /\ Resumed(locals).node = at
  BY <1>0, ResumedFields
<1>3. CgFrame(fn, c).fn = fn /\ CgFrame(fn, c).node = c
  BY <1>0, FrameOfCall
<1>4. Depth \in Nat /\ Depth >= 1 /\ Depth' \in Nat /\ Depth' >= Depth - 1 /\ Depth' <= Depth + 1
  BY <1>1, FineStack
<1>5. Depth' >= Depth => stack'[Depth].fn = CgTop.fn /\ stack'[Depth].node = at
  BY <1>1, <1>2
<1>6. Depth' = Depth + 1 => IsExpr(stack'[Depth + 1]) /\ stack'[Depth + 1].node \in Nodes /\ Under(stack'[Depth + 1].node, at)
  <2>1. Depth' = Depth + 1 => ~IsNull(c)
    BY <1>1, <1>4
  <2> QED
    BY <1>1, <1>3, <2>1 DEF IsExpr
<1> QED
  BY <1>1, <1>4, <1>5, <1>6, ExprStays

\* The target of an assignment or the operand of & is evaluated as an lvalue, [] as an lvalue too.
Addresses(n) == Kind(n) = "ASSIGN" \/ (Kind(n) = "UNARY" /\ ast[n].op = "AMP")

LEMMA OperandShape ==
  ASSUME CgGood, CgTop.next \in DOMAIN Operands, NEW c, c = Operands[CgTop.next]
  PROVE  \/ c = Call("lvalue", at) /\ CgTop.fn = "expr" /\ Kind(at) = "INDEX"
         \/ c = Call("lvalue", CgKid(1)) /\ CgTop.fn = "expr" /\ Addresses(at) /\ 1 \in 1..Arity(at)
         \/ \E i \in 1..Arity(at) : c = Call("expr", CgKid(i)) /\ (i = 1 => ~Addresses(at) /\ Kind(at) # "CALL")
<1> DEFINE k == CgTop.next
           op == ast[at].op
           expr(i) == Call("expr", CgKid(i))
           Child(i) == i \in 1..Arity(at) /\ (i = 1 => ~Addresses(at) /\ Kind(at) # "CALL")
           Fits1(d) == \/ d = Call("lvalue", at) /\ CgTop.fn = "expr" /\ Kind(at) = "INDEX"
                       \/ d = Call("lvalue", CgKid(1)) /\ CgTop.fn = "expr" /\ Addresses(at) /\ 1 \in 1..Arity(at)
                       \/ \E i \in 1..Arity(at) : d = expr(i) /\ Child(i)
<1>1. Arity(at) \in Nat /\ HasArity(Kind(at), Arity(at)) /\ k \in Nat
  BY CgTopFacts, KidKinds DEF CgGood
<1>2. /\ Kind(at) \in {"ASSIGN", "BINARY", "INDEX"} => 1 \in 1..Arity(at) /\ 2 \in 1..Arity(at)
      /\ Kind(at) \in {"UNARY", "EXPR_STMT", "RETURN"} => 1 \in 1..Arity(at)
      /\ Kind(at) = "IF" => 1 \in 1..Arity(at)
  BY <1>1 DEF HasArity
<1>3. \A i : Child(i) => Fits1(expr(i))
  OBVIOUS
<1>4. Addresses(at) /\ CgTop.fn = "expr" => Fits1(Call("lvalue", CgKid(1)))
  BY <1>2 DEF Addresses
<1>5. CgTop.fn = "expr" /\ Kind(at) = "INDEX" => Fits1(Call("lvalue", at))
  OBVIOUS
<1>6. /\ Kind(at) \in {"INDEX", "BINARY"} => Child(1) /\ Child(2)
      /\ Kind(at) = "ASSIGN" => Child(2)
      /\ Kind(at) \in {"EXPR_STMT", "RETURN", "IF"} => Child(1)
      /\ Kind(at) = "UNARY" /\ op # "AMP" => Child(1)
  BY <1>2 DEF Addresses
<1>7. Kind(at) = "CALL" => \A i \in 1..(Arity(at) - 1) : Child(i + 1)
  BY <1>1
<1> HIDE DEF Fits1, Child, expr, op
<1>8. CASE CgTop.fn = "lvalue"
  <2>1. Kind(at) = "INDEX" => Operands = <<expr(1), expr(2)>>
    BY <1>8 DEF Operands, expr
  <2>2. Kind(at) = "UNARY" /\ op = "STAR" => Operands = <<expr(1)>>
    BY <1>8 DEF Operands, expr, op
  <2>3. Kind(at) # "INDEX" /\ ~(Kind(at) = "UNARY" /\ op = "STAR") => Operands = <<>>
    BY <1>8 DEF Operands, op
  <2> QED
    BY <1>3, <1>6, <2>1, <2>2, <2>3 DEF Fits1, Child, expr
<1>9. CASE CgTop.fn = "stmt"
  <2>1. Kind(at) \in {"EXPR_STMT", "RETURN", "IF"} => Operands = <<expr(1)>>
    BY <1>9 DEF Operands, expr
  <2>2. Kind(at) \notin {"EXPR_STMT", "RETURN", "IF"} => Operands = <<>>
    BY <1>9 DEF Operands
  <2> QED
    BY <1>3, <1>6, <2>1, <2>2 DEF Fits1, Child, expr
<1>10. CASE CgTop.fn = "expr"
  <2>1. Kind(at) = "ASSIGN" => Operands = <<Call("lvalue", CgKid(1)), expr(2)>>
    BY <1>10 DEF Operands, expr
  <2>2. Kind(at) = "BINARY" => Operands = <<expr(1)>> \/ Operands = <<expr(1), expr(2)>>
    BY <1>10 DEF Operands, expr
  <2>3. Kind(at) = "UNARY" /\ op = "AMP" => Operands = <<Call("lvalue", CgKid(1))>>
    BY <1>10 DEF Operands, op
  <2>4. Kind(at) = "UNARY" /\ op # "AMP" => Operands = <<expr(1)>>
    BY <1>10 DEF Operands, op, expr
  <2>5. Kind(at) = "INDEX" => Operands = <<Call("lvalue", at)>>
    BY <1>10 DEF Operands
  <2>6. Kind(at) = "CALL" => Operands = <<>> \/ Operands = [i \in 1..(Arity(at) - 1) |-> expr(i + 1)]
    BY <1>10 DEF Operands, expr
  <2>7. Kind(at) \notin {"ASSIGN", "BINARY", "UNARY", "CALL", "INDEX"} => Operands = <<>>
    BY <1>10 DEF Operands
  <2>8. Kind(at) = "ASSIGN" \/ (Kind(at) = "UNARY" /\ op = "AMP") => Addresses(at)
    BY DEF Addresses, op
  <2>9. CASE Kind(at) = "CALL"
    <3>1. Operands # <<>>
      OBVIOUS
    <3>2. Operands = [i \in 1..(Arity(at) - 1) |-> expr(i + 1)]
      BY <2>6, <2>9, <3>1
    <3>3. k \in 1..(Arity(at) - 1) /\ c = expr(k + 1)
      BY <3>2
    <3>4. Fits1(c)
      BY <1>3, <1>7, <2>9, <3>3
    <3> QED
      BY <3>4 DEF Fits1, Child, expr
  <2>10. CASE Kind(at) # "CALL"
    <3>1. Fits1(c)
      BY <1>3, <1>4, <1>5, <1>6, <1>10, <2>1, <2>2, <2>3, <2>4, <2>5, <2>7, <2>8, <2>10
    <3> QED
      BY <3>1 DEF Fits1, Child, expr
  <2> QED
    BY <2>9, <2>10
<1>11. CASE CgTop.fn \notin {"lvalue", "stmt", "expr"}
  BY <1>11 DEF Operands
<1> QED
  BY <1>8, <1>9, <1>10, <1>11

LEMMA OperandWithin ==
  ASSUME CgFine, CgTop.next \in DOMAIN Operands
  PROVE  Under(Operands[CgTop.next].node, at)
<1>1. AstTypeOK /\ TreeOK /\ at \in Nodes /\ CgGood
  BY FineStack DEF CgFine, CgGood, Whole
<1>2. Under(at, at) /\ \A i \in 1..Arity(at) : Under(CgKid(i), at)
  <2>1. Under(at, at)
    BY <1>1, UnderSelf
  <2>2. \A i \in 1..Arity(at) : Under(Kid(at, i), at)
    BY <1>1, <2>1, UnderKid
  <2> QED
    BY <2>1, <2>2 DEF CgKid
<1>3. Operands[CgTop.next].node = at \/ \E i \in 1..Arity(at) : Operands[CgTop.next].node = CgKid(i)
  BY <1>1, OperandShape DEF Call
<1> QED
  BY <1>2, <1>3

\* Expressions within expressions.
LEMMA ExpressionGoes ==
  ASSUME CgFine, NEW fs, Mirrors(fs, stack), Holding(fs, env), IsExpr(CgTop), CgOperand \/ CgLogicalTest
  PROVE  Goes
<1>0. StackOK /\ stack # <<>> /\ CgGood /\ at \in Nodes /\ bb \in [Roles -> Nat]
  BY CgTopFacts DEF CgFine, CgGood
<1>1. CASE CgOperand
  <2> DEFINE c == Operands[CgTop.next]
  <2>1. CgTop.next \in DOMAIN Operands /\ CallWith(bb, c.fn, c.node) /\ UNCHANGED env
    BY <1>1 DEF CgOperand, CallFn, OnlyCalls
  <2>2. c.fn \in {"expr", "lvalue"} /\ c.node \in Nodes
    BY <1>0, <2>1, OperandFacts
  <2>3. Under(c.node, at)
    BY <2>1, OperandWithin
  <2> HIDE DEF c
  <2> QED
    BY <1>0, <2>1, <2>2, <2>3, ExpressionCalls
<1>2. CASE CgLogicalTest
  <2> DEFINE l == LogicalBlocksOf(New(1), New(2), insert)
  <2>1. Kind(at) = "BINARY" /\ CallWith(l, "expr", CgKid(2)) /\ UNCHANGED env
    BY <1>2 DEF CgLogicalTest, Step, LogicalBlocksOf
  <2>2. blocks \in Nat /\ insert \in 0..blocks
    BY <1>0 DEF CgGood, BlocksOK
  <2>3. New(1) \in Nat /\ New(2) \in Nat /\ insert \in Nat
    BY <2>2 DEF New
  <2>4. l \in [Roles -> Nat]
    BY <2>3, LogicalLocals
  <2>5. AstTypeOK /\ TreeOK /\ phase = "codegen" /\ Arity(at) = 2
    BY <1>0, <2>1, ControlKids DEF CgFine, CgGood, Whole
  <2>6. CgKid(2) \in Nodes /\ Under(CgKid(2), at)
    <3>1. Kid(at, 2) \in Nodes
      BY <1>0, <2>5, KidKinds
    <3>2. Under(Kid(at, 2), at)
      BY <1>0, <2>5, UnderSelf, UnderKid
    <3> QED
      BY <3>1, <3>2 DEF CgKid
  <2> HIDE DEF l
  <2> QED
    BY <2>1, <2>4, <2>6, ExpressionCalls
<1> QED
  BY <1>1, <1>2

\* A statement goes on past its condition or operand.
LEMMA ConditionGoes ==
  ASSUME CgFine, NEW fs, Mirrors(fs, stack), Holding(fs, env), UNCHANGED env, CgTop.fn = "stmt",
         Kind(at) \in {"EXPR_STMT", "RETURN", "IF", "WHILE", "FOR"}, WalkNext(CgTop) = CgTop.next,
         NEW locals \in [Roles -> Nat], NEW i \in 1..Arity(at), i = CgTop.next, Kind(CgKid(i)) \in ExprKinds \cup Null,
         Kind(at) = "FOR" => i = 2, CallWith(locals, "expr", CgKid(i))
  PROVE  Goes
<1> DEFINE mid == Retop(fs, i + 1)
<1>0. StackOK /\ stack # <<>> /\ CgGood /\ at \in Nodes /\ AstTypeOK /\ phase = "codegen"
  BY CgTopFacts DEF CgFine, CgGood
<1>1. Arity(at) \in Nat /\ i \in Nat /\ i >= 1 /\ i <= Arity(at) /\ CgKid(i) \in Nodes
  BY <1>0, KidKinds DEF CgKid
<1>2. VisitCount(at) = Arity(at) /\ \A k : VisitKid(at, k) = Kid(at, k)
  <2>1. Kind(at) \notin {"FUNC_DECL", "CALL"}
    OBVIOUS
  <2> QED
    BY <2>1, VisitAsKid
<1>3. /\ Advanced(fs, mid) /\ CallStackOK(mid) /\ Same(fs, mid) /\ mid[Depth].next = i + 1 /\ mid[Depth].node = at
  <2>1. ~IsExpr(CgTop) /\ WalkNext(CgTop) >= 1 /\ i + 1 \in Nat /\ i + 1 >= WalkNext(CgTop) /\ i + 1 <= VisitCount(at) + 1
    BY <1>1, <1>2 DEF IsExpr
  <2>2. \A k \in 1..VisitCount(at) : k >= WalkNext(CgTop) /\ k < i + 1 => Kind(VisitKid(at, k)) \in ExprKinds \cup Null
    <3> TAKE k \in 1..VisitCount(at)
    <3> HAVE k >= WalkNext(CgTop) /\ k < i + 1
    <3>1. k = i
      BY <1>1, <1>2
    <3> QED
      BY <1>2, <3>1 DEF CgKid
  <2> HIDE DEF mid
  <2>3. mid = Retop(fs, i + 1)
    BY DEF mid
  <2> QED
    BY <2>1, <2>2, <2>3, Advances
<1>4. CallStackOK(fs) /\ Len(fs) = Depth /\ fs[Depth].node = at /\ ~IsExpr(CgTop)
  BY MirrorTop DEF IsExpr
<1>5. Holding(mid, env')
  <2>1. Kind(fs[Len(fs)].node) # "VAR_DECL"
    BY <1>4
  <2> HIDE DEF mid
  <2> QED
    BY <1>3, <1>4, <2>1, HoldsAdvance DEF CgFine
<1>6. Resumed(locals).node = at /\ Resumed(locals).next = i + 1
  BY <1>0, ResumedFields
<1>7. WalkNext(Resumed(locals)) = mid[Depth].next
  <2>1. WalkNext(Resumed(locals)) = i + 1
    BY <1>1, <1>6 DEF WalkNext
  <2> QED
    BY <1>3, <2>1
<1>8. i = NowAt(Resumed(locals))
  BY <1>1, <1>6 DEF NowAt
<1>9. Kind(at) \in StmtKinds \ {"BLOCK"}
  BY DEF StmtKinds
<1> HIDE DEF mid
<1> QED
  BY <1>1, <1>3, <1>5, <1>7, <1>8, <1>9, GoesAcross

\* Conditions and operands of statements, and the post expression of a loop.
LEMMA StatementEvaluates ==
  ASSUME CgFine, NEW fs, Mirrors(fs, stack), Holding(fs, env), CgTop.fn = "stmt",
         CgOperand \/ CgWhile \/ CgForCond \/ CgForPost
  PROVE  Goes
<1>0. /\ StackOK /\ stack # <<>> /\ CgGood /\ at \in Nodes /\ AstTypeOK /\ phase = "codegen"
      /\ bb \in [Roles -> Nat] /\ blocks \in Nat
  BY CgTopFacts DEF CgFine, CgGood, BlocksOK
<1>1. CASE CgOperand
  <2>1. CgTop.next \in DOMAIN Operands /\ UNCHANGED env
        /\ CallWith(bb, Operands[CgTop.next].fn, Operands[CgTop.next].node)
    BY <1>1 DEF CgOperand, CallFn, OnlyCalls
  <2>2. CgTop.next = 1 /\ Kind(at) \in {"EXPR_STMT", "RETURN", "IF"} /\ Operands[CgTop.next].node \in Nodes
        /\ (~IsNull(Operands[CgTop.next].node) => Kind(Operands[CgTop.next].node) \in ExprKinds)
    BY <1>0, <2>1, OperandFacts
  <2>3. Operands = <<Call("expr", CgKid(1))>>
    BY <2>2 DEF Operands
  <2>4. Operands[CgTop.next].fn = "expr" /\ Operands[CgTop.next].node = CgKid(1)
    BY <2>2, <2>3 DEF Call
  <2>5. 1 \in 1..Arity(at) /\ Kind(CgKid(1)) \in ExprKinds \cup Null
    <3>1. Arity(at) \in Nat /\ HasArity(Kind(at), Arity(at))
      BY <1>0, KidKinds
    <3>2. 1 \in 1..Arity(at)
      BY <2>2, <3>1 DEF HasArity
    <3> QED
      BY <2>2, <2>4, <3>2 DEF Null, IsNull
  <2>6. WalkNext(CgTop) = CgTop.next
    BY <2>2 DEF WalkNext, at
  <2> QED
    BY <1>0, <2>1, <2>2, <2>4, <2>5, <2>6, ConditionGoes
<1>2. CASE CgWhile
  <2> DEFINE l == WhileBlocksOf(New(1), New(2), New(3))
  <2>1. Kind(at) = "WHILE" /\ CgTop.next = 1 /\ CallWith(l, "expr", CgKid(1)) /\ UNCHANGED env
    BY <1>2 DEF CgWhile, Step, WhileBlocksOf
  <2>2. New(1) \in Nat /\ New(2) \in Nat /\ New(3) \in Nat
    BY <1>0 DEF New
  <2>3. l \in [Roles -> Nat]
    BY <2>2, WhileLocals
  <2>4. 1 \in 1..Arity(at) /\ Kind(CgKid(1)) \in ExprKinds \cup Null
    BY <1>0, <2>1, ControlKids
  <2>5. WalkNext(CgTop) = CgTop.next
    BY <2>1 DEF WalkNext, at
  <2> HIDE DEF l
  <2> QED
    BY <2>1, <2>3, <2>4, <2>5, ConditionGoes
<1>3. CASE CgForCond
  <2>1. Kind(at) = "FOR" /\ CgTop.next = 2 /\ CallWith(bb, "expr", CgKid(2)) /\ UNCHANGED env
    BY <1>3 DEF CgForCond, Step, CallFn
  <2>2. 2 \in 1..Arity(at) /\ Kind(CgKid(2)) \in ExprKinds \cup Null
    BY <1>0, <2>1, ControlKids
  <2>3. WalkNext(CgTop) = CgTop.next
    BY <2>1 DEF WalkNext, at
  <2> QED
    BY <1>0, <2>1, <2>2, <2>3, ConditionGoes
<1>4. CASE CgForPost
  <2>1. Kind(at) = "FOR" /\ CgTop.next = 4 /\ CallWith(bb, "expr", CgKid(3)) /\ UNCHANGED env
    BY <1>4 DEF CgForPost, Step, CallFn, rest
  <2>2. 3 \in 1..Arity(at) /\ Kind(CgKid(3)) \in ExprKinds \cup Null
    BY <1>0, <2>1, ControlKids
  <2>3. CgKid(3) \in Nodes
    BY <1>0, <2>2, KidKinds DEF CgKid
  <2>4. CallStackOK(fs) /\ fs[Depth].next = WalkNext(CgTop) /\ Same(fs, fs)
    BY MirrorTop DEF IsExpr, Same
  <2>5. WalkNext(CgTop) = 5
    BY <2>1 DEF WalkNext, at
  <2>6. Resumed(bb).node = at /\ Resumed(bb).next = 5
    BY <1>0, <2>1, ResumedFields
  <2>7. WalkNext(Resumed(bb)) = fs[Depth].next /\ 3 = NowAt(Resumed(bb))
    BY <2>1, <2>4, <2>5, <2>6 DEF WalkNext, NowAt
  <2>8. Kind(at) \in StmtKinds \ {"BLOCK"} /\ Holding(fs, env')
    BY <2>1 DEF StmtKinds
  <2> QED
    BY <1>0, <2>1, <2>2, <2>3, <2>4, <2>7, <2>8, GoesAcross
<1> QED
  BY <1>1, <1>2, <1>3, <1>4

-----------------------------------------------------------------------------
(* Declarations, and statements that go on to a statement. *)

\* A variable is defined before its initialiser is evaluated.
LEMMA Defines ==
  ASSUME CgFine, NEW fs, Mirrors(fs, stack), Holding(fs, env), CgTop.fn \in {"stmt", "global"},
         Kind(at) = "VAR_DECL", CgTop.next = 1, NEW home \in 0..blocks,
         env' = Define(env, ast[at].name, Var(at, ast[at].type, home)),
         NEW mid, mid = Retop(fs, 2)
  PROVE  /\ CallStackOK(mid) /\ Same(fs, mid) /\ mid[Depth].next = 2 /\ mid[Depth].node = at
         /\ Len(mid) = Depth /\ OpenAt(mid) = OpenAt(fs) /\ Holding(mid, env')
         /\ Arity(at) = 1 /\ Kind(CgKid(1)) \in ExprKinds \cup Null /\ CgKid(1) \in Nodes
<1> DEFINE var == Var(at, ast[at].type, home)
           N == Len(env)
<1>0. /\ StackOK /\ stack # <<>> /\ at \in Nodes /\ AstTypeOK /\ phase = "codegen"
      /\ env \in Seq(VarScopes) /\ env # <<>> /\ blocks \in Nat
  <2>1. CgGood /\ StackOK /\ stack # <<>> /\ AstTypeOK /\ phase = "codegen" /\ blocks \in Nat
    BY DEF CgFine, CgGood, BlocksOK
  <2>2. env \in Seq(VarScopes) /\ Len(env) = 1 + Cardinality(CgActive)
    BY <2>1 DEF CgGood, EnvOK
  <2>3. Cardinality(CgActive) \in Nat
    BY <2>1, CgActiveIsFinite, FS_CardinalityType
  <2>4. env # <<>>
    BY <2>2, <2>3
  <2> QED
    BY <2>1, <2>2, <2>4, CgTopFacts
<1>1. Arity(at) = 1 /\ Kind(CgKid(1)) \in ExprKinds \cup Null /\ CgKid(1) \in Nodes
  <2>1. HasArity(Kind(at), Arity(at)) /\ \A i \in 1..Arity(at) : Kid(at, i) \in Nodes
    BY <1>0, KidKinds
  <2>2. Arity(at) = 1
    BY <2>1 DEF HasArity
  <2>3. Kind(Kid(at, 1)) \in ExprKinds \cup Null
    BY <1>0, <2>2, KindsOfKids
  <2> QED
    BY <2>1, <2>2, <2>3 DEF CgKid
<1>2. ~IsExpr(CgTop) /\ WalkNext(CgTop) = 1 /\ VisitCount(at) = 1 /\ VisitKid(at, 1) = CgKid(1)
  BY <1>1, VisitAsKid DEF IsExpr, WalkNext, at, CgKid
<1>3. /\ Advanced(fs, mid) /\ CallStackOK(mid) /\ Same(fs, mid) /\ mid[Depth].next = 2 /\ mid[Depth].node = at
      /\ Len(mid) = Depth /\ OpenAt(mid) = OpenAt(fs)
  <2>1. \A k \in 1..VisitCount(at) : k >= WalkNext(CgTop) /\ k < 2 => Kind(VisitKid(at, k)) \in ExprKinds \cup Null
    <3>1. \A k \in 1..VisitCount(at) : k = 1
      BY <1>2
    <3> QED
      BY <1>1, <1>2, <3>1
  <2>2. WalkNext(CgTop) >= 1 /\ 2 >= WalkNext(CgTop) /\ 2 <= VisitCount(at) + 1 /\ 2 \in Nat
    BY <1>2
  <2> QED
    BY <1>2, <2>1, <2>2, Advances
<1>4. Len(fs) = Depth /\ fs[Depth].node = at /\ fs[Depth].next = 1 /\ CallStackOK(fs)
  BY <1>2, MirrorTop
<1>5. ast[at].name \in Names /\ ast[at].type \in TypeInfos
  BY <1>0, NodeFacts, AstAssumption DEF Labelled, Kind, AstAssumption
<1>6. var.decl = at /\ var.type = ast[at].type /\ var \in Vars
  BY <1>0, <1>5 DEF Var, Vars
<1> HIDE DEF var
<1>7. env' = Define(env, ast[at].name, var)
  BY DEF var
<1>8. Len(env') = N /\ N \in Nat /\ N >= 1
  BY <1>0, <1>5, <1>6, <1>7, DefineTyped
<1>9. \A j \in 1..N : j # N => env'[j] = env[j]
  BY <1>0, <1>7, <1>8 DEF Define
<1>10. env'[N] = [y \in DOMAIN env[N] \cup {ast[at].name} |-> IF y = ast[at].name THEN var ELSE env[N][y]]
  BY <1>0, <1>7, <1>8 DEF Define
<1>11. Holding(mid, env')
  <2>1. Whole
    BY DEF CgFine
  <2>2. at = fs[Len(fs)].node /\ fs[Len(fs)].next = 1 /\ mid[Len(fs)].next = 2
    BY <1>3, <1>4
  <2> QED
    BY <1>3, <1>4, <1>6, <1>8, <1>9, <1>10, <2>1, <2>2, HoldsDefine
<1> QED
  BY <1>1, <1>3, <1>11

LEMMA VarDeclGoes ==
  ASSUME CgFine, NEW fs, Mirrors(fs, stack), Holding(fs, env), CgVarDecl
  PROVE  Goes
<1> DEFINE mid == Retop(fs, 2)
<1>0. StackOK /\ stack # <<>> /\ CgGood /\ insert \in 0..blocks
  BY DEF CgFine, CgGood, BlocksOK
<1>1. /\ CgTop.fn = "stmt" /\ Kind(at) = "VAR_DECL" /\ CgTop.next = 1 /\ CallWith(bb, "expr", CgKid(1))
      /\ env' = Define(env, ast[at].name, Var(at, ast[at].type, insert))
  BY DEF CgVarDecl, Step, CallFn
<1>2. /\ CallStackOK(mid) /\ Same(fs, mid) /\ mid[Depth].next = 2 /\ Holding(mid, env')
      /\ Arity(at) = 1 /\ Kind(CgKid(1)) \in ExprKinds \cup Null /\ CgKid(1) \in Nodes
  BY <1>0, <1>1, Defines
<1>3. bb \in [Roles -> Nat] /\ Resumed(bb).node = at /\ Resumed(bb).next = 2
  BY <1>0, <1>1, CgTopFacts, ResumedFields
<1>4. WalkNext(Resumed(bb)) = mid[Depth].next /\ 1 = NowAt(Resumed(bb)) /\ 1 \in 1..Arity(at)
  BY <1>1, <1>2, <1>3 DEF WalkNext, NowAt
<1>5. Kind(at) \in StmtKinds \ {"BLOCK"}
  BY <1>1 DEF StmtKinds
<1> HIDE DEF mid
<1> QED
  BY <1>1, <1>2, <1>3, <1>4, <1>5, GoesAcross

LEMMA GlobalGoes ==
  ASSUME CgFine, NEW fs, Mirrors(fs, stack), Holding(fs, env), CgGlobal
  PROVE  Goes
<1> DEFINE mid == Retop(fs, 2)
<1>0. StackOK /\ stack # <<>> /\ CgGood /\ 0 \in 0..blocks /\ AstTypeOK /\ at \in Nodes
  BY CgTopFacts DEF CgFine, CgGood, BlocksOK
<1>1. /\ CgTop.fn = "global" /\ Kind(at) = "VAR_DECL" /\ CgTop.next = 1 /\ CgReturn
      /\ env' = Define(env, ast[at].name, Var(at, ast[at].type, 0))
  BY DEF CgGlobal, Step
<1>2. /\ CallStackOK(mid) /\ Same(fs, mid) /\ mid[Depth].next = 2 /\ Holding(mid, env')
      /\ mid[Depth].node = at /\ Len(mid) = Depth /\ OpenAt(mid) = OpenAt(fs) /\ Arity(at) = 1
  BY <1>0, <1>1, Defines
<1>3. ~IsExpr(CgTop) /\ Depth = 2
  BY <1>0, <1>1, Outside DEF IsExpr
<1> HIDE DEF mid
<1>4. Complete(mid)
  BY <1>1, <1>2, VisitAsKid DEF Complete
<1>5. Len(mid) \notin OpenAt(mid)
  BY <1>1, <1>2, <1>3 DEF OpenAt, HasScope, ScopedKinds
<1>6. Depth >= 2
  BY <1>3
<1> QED
  BY <1>1, <1>2, <1>3, <1>4, <1>5, <1>6, GoesBack

\* A statement or a declaration calls the next statement of it.
LEMMA NextGoes ==
  ASSUME CgFine, NEW fs, Mirrors(fs, stack), Holding(fs, env), CgDeclaration \/ CgNextStatement
  PROVE  Goes
<1>0. /\ StackOK /\ stack # <<>> /\ CgGood /\ AstTypeOK /\ phase = "codegen" /\ at \in Nodes /\ CgTop.next \in Nat
      /\ Kind(at) \in KindsOf(CgTop.fn) /\ bb \in [Roles -> Nat]
  BY CgTopFacts DEF CgFine, CgGood
<1>1. ~IsExpr(CgTop) => CallStackOK(fs) /\ fs[Depth].next = WalkNext(CgTop) /\ Same(fs, fs)
  BY MirrorTop DEF Same
<1>2. UNCHANGED env
  BY DEF CgDeclaration, CgNextStatement, OnlyCalls
<1>3. Resumed(bb).node = at /\ Resumed(bb).next = CgTop.next + 1
  BY <1>0, ResumedFields
<1>4. CASE CgDeclaration
  <2> DEFINE c == CgKid(CgTop.next)
             fn == IF Kind(c) = "FUNC_DECL" THEN "define" ELSE "global"
  <2>1. CgTop.fn = "module" /\ CgTop.next \in 1..Arity(at) /\ CallWith(bb, fn, c)
    BY <1>4 DEF CgDeclaration, CallFn
  <2>2. Kind(at) = "PROGRAM" /\ c \in Nodes /\ fn \in FnNames \ {"expr", "lvalue"} /\ ~IsExpr(CgTop)
    BY <1>0, <2>1, KidKinds DEF KindsOf, FnNames, IsExpr, CgKid
  <2>3. WalkNext(CgTop) = CgTop.next /\ VisitCount(at) = Arity(at) /\ VisitKid(at, CgTop.next) = c
    BY <2>2, VisitAsKid DEF WalkNext, at, CgKid
  <2>4. WalkNext(Resumed(bb)) = CgTop.next + 1
    BY <1>3, <2>2 DEF WalkNext
  <2> HIDE DEF c, fn
  <2> QED
    BY <1>0, <1>1, <1>2, <2>1, <2>2, <2>3, <2>4, GoesInto
<1>5. CASE CgNextStatement
  <2> DEFINE k == CgTop.next - 1
             c == StatementList[k]
  <2>1. /\ CgTop.fn \in {"stmt", "define"} /\ Kind(at) \in {"BLOCK", "FUNC_DECL"} /\ CgTop.next >= 2
        /\ k \in DOMAIN StatementList /\ CallWith(bb, "stmt", c)
    BY <1>5 DEF CgNextStatement, InList, More, CallFn
  <2>2. /\ VisitCount(at) \in Nat /\ DOMAIN StatementList = 1..VisitCount(at)
        /\ \A j \in 1..VisitCount(at) : StatementList[j] = VisitKid(at, j) /\ VisitKid(at, j) \in Nodes
    <3>1. CASE Kind(at) = "BLOCK"
      <4>1. VisitCount(at) = Arity(at) /\ \A j : VisitKid(at, j) = Kid(at, j)
        BY <3>1, VisitAsKid
      <4>2. StatementList = ast[at].kids
        BY <3>1 DEF StatementList
      <4> QED
        BY <1>0, <4>1, <4>2, KidKinds DEF Kid
    <3>2. CASE Kind(at) = "FUNC_DECL"
      <4> DEFINE body == Kid(at, 1)
      <4>1. body \in Nodes
        <5>1. HasArity(Kind(at), Arity(at)) /\ \A i \in 1..Arity(at) : Kid(at, i) \in Nodes
          BY <1>0, KidKinds
        <5> QED
          BY <3>2, <5>1 DEF HasArity
      <4>2. VisitCount(at) = Arity(body) /\ \A j : VisitKid(at, j) = Kid(body, j)
        BY <3>2 DEF VisitCount, VisitKid
      <4>3. StatementList = ast[body].kids
        BY <3>2 DEF StatementList, CgKid
      <4> HIDE DEF body
      <4> QED
        BY <1>0, <4>1, <4>2, <4>3, KidKinds DEF Kid
    <3> QED
      BY <2>1, <3>1, <3>2
  <2>3. ~IsExpr(CgTop) /\ "stmt" \in FnNames \ {"expr", "lvalue"} /\ Kind(at) # "VAR_DECL"
    BY <2>1 DEF IsExpr, FnNames
  <2>4. k \in 1..VisitCount(at) /\ c = VisitKid(at, k) /\ c \in Nodes
    BY <2>1, <2>2
  <2>5. WalkNext(CgTop) = k
    BY <2>1 DEF WalkNext, at
  <2>6. WalkNext(Resumed(bb)) = k + 1
    BY <1>0, <1>3, <2>1 DEF WalkNext
  <2> HIDE DEF k, c
  <2> QED
    BY <1>0, <1>1, <1>2, <2>1, <2>3, <2>4, <2>5, <2>6, GoesInto
<1> QED
  BY <1>4, <1>5

\* The branches of an if and the body of a while.
LEMMA BranchGoes ==
  ASSUME CgFine, NEW fs, Mirrors(fs, stack), Holding(fs, env), CgIfThen \/ CgIfElse \/ CgWhileBody
  PROVE  Goes
<1>0. /\ StackOK /\ stack # <<>> /\ CgGood /\ AstTypeOK /\ phase = "codegen" /\ at \in Nodes /\ CgTop.next \in Nat
      /\ bb \in [Roles -> Nat] /\ blocks \in Nat
  BY CgTopFacts DEF CgFine, CgGood, BlocksOK
<1>1. /\ UNCHANGED env /\ CgTop.fn = "stmt" /\ Kind(at) \in {"IF", "WHILE"} /\ CgTop.next \in {2, 3}
      /\ Kind(at) = "WHILE" => CgTop.next = 2
      /\ \E locals \in [Roles -> Nat] : CallWith(locals, "stmt", CgKid(CgTop.next))
  <2>1. CASE CgIfThen
    <3>1. New(1) \in Nat /\ New(2) \in Nat /\ New(3) \in Nat
      BY <1>0 DEF New
    <3>2. IfElseBlocksOf(New(1), New(2), New(3)) \in [Roles -> Nat] /\ IfBlocksOf(New(1), New(2)) \in [Roles -> Nat]
      BY <3>1, IfElseLocals, IfLocals
    <3>3. \/ CallWith(IfElseBlocksOf(New(1), New(2), New(3)), "stmt", CgKid(2))
          \/ CallWith(IfBlocksOf(New(1), New(2)), "stmt", CgKid(2))
      BY <2>1 DEF CgIfThen, IfElseBlocksOf, IfBlocksOf
    <3>4. UNCHANGED env /\ CgTop.fn = "stmt" /\ Kind(at) = "IF" /\ CgTop.next = 2
      BY <2>1 DEF CgIfThen, Step
    <3> QED
      BY <3>2, <3>3, <3>4
  <2>2. CASE CgIfElse
    BY <1>0, <2>2 DEF CgIfElse, Step, CallFn
  <2>3. CASE CgWhileBody
    BY <1>0, <2>3 DEF CgWhileBody, Step, CallFn
  <2> QED
    BY <2>1, <2>2, <2>3
<1>2. PICK locals \in [Roles -> Nat] : CallWith(locals, "stmt", CgKid(CgTop.next))
  BY <1>1
<1>3. Resumed(locals).node = at /\ Resumed(locals).next = CgTop.next + 1
  BY <1>0, <1>2, ResumedFields
<1>4. VisitCount(at) = Arity(at) /\ VisitKid(at, CgTop.next) = CgKid(CgTop.next)
  <2>1. Kind(at) \notin {"FUNC_DECL", "CALL"}
    BY <1>1
  <2> QED
    BY <2>1, VisitAsKid DEF CgKid
<1>5. CgTop.next \in 1..Arity(at) /\ CgKid(CgTop.next) \in Nodes
  <2>1. CgTop.next \in 1..Arity(at)
    BY <1>0, <1>1, ControlKids
  <2> QED
    BY <1>0, <2>1, KidKinds DEF CgKid
<1>6. ~IsExpr(CgTop) /\ "stmt" \in FnNames \ {"expr", "lvalue"} /\ Kind(at) # "VAR_DECL"
  BY <1>1 DEF IsExpr, FnNames
<1>7. CallStackOK(fs) /\ fs[Depth].next = WalkNext(CgTop) /\ Same(fs, fs)
  BY <1>6, MirrorTop DEF Same
<1>8. WalkNext(CgTop) = CgTop.next /\ WalkNext(Resumed(locals)) = CgTop.next + 1
  BY <1>1, <1>3 DEF WalkNext, at
<1> QED
  BY <1>1, <1>2, <1>4, <1>5, <1>6, <1>7, <1>8, GoesInto

LEMMA ForBodyGoes ==
  ASSUME CgFine, NEW fs, Mirrors(fs, stack), Holding(fs, env), CgForBody
  PROVE  Goes
<1> DEFINE mid == Retop(fs, 4)
<1>0. /\ StackOK /\ stack # <<>> /\ CgGood /\ AstTypeOK /\ phase = "codegen" /\ at \in Nodes /\ bb \in [Roles -> Nat]
  BY CgTopFacts DEF CgFine, CgGood
<1>1. UNCHANGED env /\ CgTop.fn = "stmt" /\ Kind(at) = "FOR" /\ CgTop.next = 3 /\ CallWith(bb, "stmt", CgKid(4))
  BY DEF CgForBody, Step, CallFn
<1>2. VisitCount(at) = 4 /\ (\A k : VisitKid(at, k) = CgKid(k)) /\ Kind(CgKid(3)) \in ExprKinds \cup Null /\ CgKid(4) \in Nodes
  <2>1. Arity(at) = 4 /\ Kind(CgKid(3)) \in ExprKinds \cup Null
    BY <1>0, <1>1, ControlKids
  <2>2. Kid(at, 4) \in Nodes
    BY <1>0, <2>1, KidKinds
  <2> QED
    BY <1>1, <2>1, <2>2, VisitAsKid DEF CgKid
<1>3. ~IsExpr(CgTop) /\ WalkNext(CgTop) = 3 /\ "stmt" \in FnNames \ {"expr", "lvalue"} /\ Kind(at) # "VAR_DECL"
  BY <1>1 DEF IsExpr, WalkNext, at, FnNames
<1>4. /\ Advanced(fs, mid) /\ CallStackOK(mid) /\ Same(fs, mid) /\ mid[Depth].next = 4
  <2>1. \A k \in 1..VisitCount(at) : k >= WalkNext(CgTop) /\ k < 4 => Kind(VisitKid(at, k)) \in ExprKinds \cup Null
    <3>1. \A k \in 1..VisitCount(at) : k >= WalkNext(CgTop) /\ k < 4 => k = 3
      BY <1>2, <1>3
    <3> QED
      BY <1>2, <3>1
  <2>2. WalkNext(CgTop) >= 1 /\ 4 >= WalkNext(CgTop) /\ 4 <= VisitCount(at) + 1 /\ 4 \in Nat
    BY <1>2, <1>3
  <2> QED
    BY <1>3, <2>1, <2>2, Advances
<1>5. Holding(mid, env')
  <2>1. CallStackOK(fs) /\ Kind(fs[Len(fs)].node) # "VAR_DECL" /\ Whole
    BY <1>3, MirrorTop DEF CgFine
  <2> HIDE DEF mid
  <2> QED
    BY <1>1, <1>4, <2>1, HoldsAdvance
<1>6. WalkNext(Resumed(bb)) = 5
  <2>1. Resumed(bb).node = at /\ Resumed(bb).next = 4
    BY <1>0, <1>1, ResumedFields
  <2> QED
    BY <1>1, <2>1 DEF WalkNext
<1>7. mid[Depth].next \in 1..VisitCount(at) /\ CgKid(4) = VisitKid(at, mid[Depth].next)
      /\ WalkNext(Resumed(bb)) = mid[Depth].next + 1
  BY <1>2, <1>4, <1>6
<1> HIDE DEF mid
<1> QED
  BY <1>0, <1>1, <1>2, <1>3, <1>4, <1>5, <1>7, GoesInto

-----------------------------------------------------------------------------
(* Scopes are pushed. *)

\* The running function pushes a scope.
LEMMA Pushes ==
  ASSUME CgFine, NEW fs, Mirrors(fs, stack), Holding(fs, env), ~IsExpr(CgTop), WalkNext(CgTop) = 0,
         Kind(at) \in ScopedKinds, NEW mid, mid = Retop(fs, 1), NEW new, env' = Append(env, new),
         CgHolds(new, at, Met(mid))
  PROVE  CallStackOK(mid) /\ Same(fs, mid) /\ mid[Depth].next = 1 /\ mid[Depth].node = at /\ Holding(mid, env')
<1>1. Len(fs) = Depth /\ fs[Depth].node = at /\ fs[Depth].next = 0 /\ CallStackOK(fs) /\ Whole /\ Len(fs) \in Nat
  BY MirrorTop DEF CgFine
<1>2. /\ mid \in Seq(FrameSet) /\ Len(mid) = Len(fs) /\ Same(fs, mid)
      /\ mid[Len(fs)].next = 1 /\ mid[Len(fs)].node = fs[Len(fs)].node
  BY <1>1, RetopFacts
<1>3. Opened(fs, mid)
  BY <1>1, <1>2 DEF Opened, Same
<1>4. CallStackOK(mid)
  BY <1>1, <1>2, <1>3, OpenedStack
<1>5. env \in Seq(VarScopes)
  BY DEF CgFine, CgGood, EnvOK
<1>6. /\ Len(env) \in Nat /\ Len(env') = Len(env) + 1 /\ (\A j \in 1..Len(env) : env'[j] = env[j])
      /\ env'[Len(env) + 1] = new
  BY <1>5
<1>7. Holding(mid, env')
  <2>1. CgHolds(env'[Len(env) + 1], fs[Len(fs)].node, Met(mid)) /\ Kind(fs[Len(fs)].node) \in ScopedKinds
    BY <1>1, <1>6
  <2> QED
    BY <1>1, <1>3, <1>6, <2>1, HoldsOpen
<1> QED
  BY <1>1, <1>2, <1>4, <1>7

\* What was met before a scope is pushed is declared outside it.
LEMMA MetOutside ==
  ASSUME CgFine, NEW fs, Mirrors(fs, stack), ~IsExpr(CgTop), WalkNext(CgTop) = 0,
         Kind(at) \in ScopedKinds, NEW mid, mid = Retop(fs, 1), NEW s \in Met(mid), SiteScope(s) = at
  PROVE  Kind(at) = "FUNC_DECL" /\ s \in ParamSites(at)
<1>1. Len(fs) = Depth /\ fs[Depth].node = at /\ fs[Depth].next = 0 /\ CallStackOK(fs) /\ Whole /\ Len(fs) \in Nat
  BY MirrorTop DEF CgFine
<1>2. /\ mid \in Seq(FrameSet) /\ Len(mid) = Len(fs) /\ Same(fs, mid)
      /\ mid[Len(fs)].next = 1 /\ mid[Len(fs)].node = fs[Len(fs)].node
  BY <1>1, RetopFacts
<1>3. Opened(fs, mid)
  BY <1>1, <1>2 DEF Opened, Same
<1>4. s \in Seen(mid) /\ ~IsFunction(s) /\ s \in Sites
  <2>1. Kind(mid[Len(mid)].node) # "VAR_DECL"
    BY <1>1, <1>2 DEF ScopedKinds
  <2>2. s \in Seen(mid)
    BY <2>1 DEF Met
  <2> QED
    BY <2>2, MetFacts
<1>5. Len(fs) >= 2
  BY <1>1, <1>3, OpenAtSteps
<1>6. s \notin Seen(fs)
  BY <1>1, <1>5, NothingInside
<1>7. Kind(at) = "FUNC_DECL" /\ s \in Sited(at)
  BY <1>1, <1>3, <1>4, <1>6, SeenOpen
<1>8. at \in Nodes
  BY FineStack
<1>9. s \in {Site(at, 0)} \cup ParamSites(at) /\ IsFunction(Site(at, 0))
  BY <1>1, <1>7, <1>8, FunctionSites
<1> QED
  BY <1>4, <1>7, <1>9

LEMMA NothingHeld ==
  ASSUME CgFine, NEW fs, Mirrors(fs, stack), ~IsExpr(CgTop), WalkNext(CgTop) = 0,
         Kind(at) \in {"BLOCK", "FOR"}, NEW mid, mid = Retop(fs, 1)
  PROVE  CgHolds(NoVars, at, Met(mid))
<1>1. Kind(at) \in ScopedKinds /\ Kind(at) # "FUNC_DECL"
  BY DEF ScopedKinds
<1>2. \A s \in Met(mid) : SiteScope(s) # at
  BY <1>1, MetOutside
<1>3. \A x \in DOMAIN NoVars : FALSE
  BY DEF NoVars
<1> QED
  BY <1>2, <1>3 DEF CgHolds

\* A block or a function goes on to its list.
LEMMA Advanced2 ==
  ASSUME CgFine, stack' = [stack EXCEPT ![Len(stack)].next = 2]
  PROVE  Below /\ Depth' = Depth /\ stack'[Depth].fn = CgTop.fn /\ stack'[Depth].node = at /\ stack'[Depth].next = 2
<1>0. /\ stack # <<>> /\ stack \in Seq(FrameRecords) /\ Depth \in Nat /\ Depth >= 1
      /\ Depth = Len(stack) /\ CgTop = stack[Depth] /\ DOMAIN stack = 1..Depth /\ CgTop \in FrameRecords
  BY CgTopFacts, FineStack DEF CgFine, CgGood, StackOK, Depth
<1>1. stack' = [stack EXCEPT ![Depth] = [stack[Depth] EXCEPT !.next = 2]]
  BY <1>0
<1>2. stack'[Depth] = [CgTop EXCEPT !.next = 2]
  BY <1>0, <1>1
<1>3. stack'[Depth].fn = CgTop.fn /\ stack'[Depth].node = at /\ stack'[Depth].next = 2
  BY <1>0, <1>2 DEF FrameRecords, at
<1>4. \A i \in 1..Depth : i # Depth => stack'[i] = stack[i]
  BY <1>0, <1>1
<1>5. Depth' = Depth
  BY <1>0, <1>1 DEF Depth
<1> QED
  BY <1>0, <1>3, <1>4, <1>5 DEF Below

LEMMA Walked2 ==
  ASSUME CgFine, Kind(at) \in {"BLOCK", "FUNC_DECL"}, stack'[Depth].node = at, stack'[Depth].next = 2,
         NEW mid, CallStackOK(mid), NEW fs, Mirrors(fs, stack), ~IsExpr(CgTop), Same(fs, mid),
         mid[Depth].node = at, mid[Depth].next = 1
  PROVE  mid[Depth] = Walked(stack'[Depth])
<1>1. Depth \in Nat /\ Depth >= 1 /\ Len(mid) = Depth
  BY FineStack, MirrorTop DEF Same
<1>2. mid[Depth] \in FrameSet
  BY <1>1, StackFacts DEF CgFine
<1>3. mid[Depth] = [node |-> at, next |-> 1]
  BY <1>2 DEF FrameSet
<1>4. WalkNext(stack'[Depth]) = 1
  BY DEF WalkNext
<1> QED
  BY <1>3, <1>4 DEF Walked

LEMMA BlockGoes ==
  ASSUME CgFine, NEW fs, Mirrors(fs, stack), Holding(fs, env), CgBlockEnter
  PROVE  Goes
<1> DEFINE mid == Retop(fs, 1)
<1>1. /\ CgTop.fn = "stmt" /\ Kind(at) = "BLOCK" /\ CgTop.next = 1 /\ env' = Append(env, NoVars)
      /\ stack' = [stack EXCEPT ![Len(stack)].next = 2]
  BY DEF CgBlockEnter, Step
<1>2. ~IsExpr(CgTop) /\ WalkNext(CgTop) = 0 /\ Kind(at) \in ScopedKinds
  BY <1>1 DEF IsExpr, WalkNext, at, ScopedKinds
<1>3. CgHolds(NoVars, at, Met(mid))
  BY <1>1, <1>2, NothingHeld
<1> HIDE DEF mid
<1>4. mid = Retop(fs, 1)
  BY DEF mid
<1>5. CallStackOK(mid) /\ Same(fs, mid) /\ mid[Depth].next = 1 /\ mid[Depth].node = at /\ Holding(mid, env')
  BY <1>1, <1>2, <1>3, <1>4, Pushes
<1>6. Below /\ Depth' = Depth /\ stack'[Depth].fn = CgTop.fn /\ stack'[Depth].node = at /\ stack'[Depth].next = 2
  BY <1>1, Advanced2
<1>7. mid[Depth] = Walked(stack'[Depth])
  BY <1>1, <1>2, <1>5, <1>6, Walked2
<1> QED
  BY <1>2, <1>5, <1>6, <1>7, GoesOn

LEMMA ForGoes ==
  ASSUME CgFine, NEW fs, Mirrors(fs, stack), Holding(fs, env), CgFor
  PROVE  Goes
<1> DEFINE mid == Retop(fs, 1)
           locals == ForBlocksOf(New(1), New(2), New(3), New(4))
<1>0. StackOK /\ stack # <<>> /\ CgGood /\ at \in Nodes /\ AstTypeOK /\ phase = "codegen" /\ blocks \in Nat
  BY CgTopFacts DEF CgFine, CgGood, BlocksOK
<1>1. /\ CgTop.fn = "stmt" /\ Kind(at) = "FOR" /\ CgTop.next = 1 /\ env' = Append(env, NoVars)
      /\ CallWith(locals, "stmt", CgKid(1))
  BY DEF CgFor, Step, ForBlocksOf
<1>2. ~IsExpr(CgTop) /\ WalkNext(CgTop) = 0 /\ Kind(at) \in ScopedKinds
  BY <1>1 DEF IsExpr, WalkNext, at, ScopedKinds
<1>3. CgHolds(NoVars, at, Met(mid))
  BY <1>1, <1>2, NothingHeld
<1>4. CallStackOK(mid) /\ Same(fs, mid) /\ mid[Depth].next = 1 /\ Holding(mid, env')
  BY <1>1, <1>2, <1>3, Pushes
<1>5. locals \in [Roles -> Nat]
  <2>1. New(1) \in Nat /\ New(2) \in Nat /\ New(3) \in Nat /\ New(4) \in Nat
    BY <1>0 DEF New
  <2> QED
    BY <2>1, ForLocals
<1> HIDE DEF locals, mid
<1>6. VisitCount(at) = 4 /\ VisitKid(at, 1) = CgKid(1) /\ CgKid(1) \in Nodes
  <2>1. Arity(at) = 4
    BY <1>0, <1>1, ControlKids
  <2>2. Kid(at, 1) \in Nodes
    BY <1>0, <2>1, KidKinds
  <2> QED
    BY <1>1, <2>1, <2>2, VisitAsKid DEF CgKid
<1>7. WalkNext(Resumed(locals)) = 2
  <2>1. Resumed(locals).node = at /\ Resumed(locals).next = 2
    BY <1>0, <1>1, <1>5, ResumedFields
  <2> QED
    BY <1>1, <2>1 DEF WalkNext
<1>8. mid[Depth].next \in 1..VisitCount(at) /\ CgKid(1) = VisitKid(at, mid[Depth].next)
      /\ WalkNext(Resumed(locals)) = mid[Depth].next + 1
  BY <1>4, <1>6, <1>7
<1>9. "stmt" \in FnNames \ {"expr", "lvalue"} /\ Kind(at) # "VAR_DECL"
  BY <1>1 DEF FnNames
<1> QED
  BY <1>1, <1>2, <1>4, <1>5, <1>6, <1>8, <1>9, GoesInto

\* A function's scope holds its parameters, of those with one name the last.
LEMMA ParametersHeld ==
  ASSUME CgFine, NEW n \in Nodes, Kind(n) = "FUNC_DECL", ~IsNull(Kid(n, 1)), NEW home, NEW met,
         ParamSites(n) \subseteq met, \A s \in met : SiteScope(s) = n => s \in ParamSites(n)
  PROVE  LET params == ast[n].params
             last(x) == CHOOSE i \in DOMAIN params :
                          params[i].name = x /\ \A j \in DOMAIN params : params[j].name = x => j <= i
         IN CgHolds([x \in {params[i].name : i \in DOMAIN params} |-> Var(n, params[last(x)].type, home)], n, met)
<1> DEFINE params == ast[n].params
           Last(x, i) == params[i].name = x /\ \A j \in DOMAIN params : params[j].name = x => j <= i
           last(x) == CHOOSE i \in DOMAIN params : Last(x, i)
           names == {params[i].name : i \in DOMAIN params}
           scope == [x \in names |-> Var(n, params[last(x)].type, home)]
<1>0. Whole /\ AstTypeOK
  BY DEF CgFine, Whole
<1>1. params \in Seq(Parameters)
  BY <1>0, NodeFacts
<1>2. /\ \A s \in ParamSites(n) : /\ s.decl = n /\ SiteScope(s) = n /\ s.param \in DOMAIN params
                                  /\ SiteName(s) = params[s.param].name
      /\ \A i \in DOMAIN params : Site(n, i) \in ParamSites(n)
  BY <1>0, FunctionSites
<1>3. \A s \in ParamSites(n) : SiteType(s) = params[s.param].type
  BY <1>2 DEF ParamSites, SiteType
<1> HIDE DEF params
<1>4. Len(params) \in Nat /\ DOMAIN params = 1..Len(params)
  BY <1>1
<1>5. ASSUME NEW x \in names PROVE last(x) \in DOMAIN params /\ params[last(x)].name = x
  <2> DEFINE S == {i \in 1..Len(params) : params[i].name = x}
  <2>1. S \in SUBSET (1..Len(params)) /\ S # {}
    BY <1>4
  <2>2. PICK i \in S : \A j \in S : j <= i
    BY <1>4, <2>1, Extremes
  <2>3. \E i1 \in DOMAIN params : Last(x, i1)
    BY <1>4, <2>2
  <2> QED
    BY <2>3
<1>6. \A i : Site(n, i).decl = n /\ Site(n, i).param = i
  BY DEF Site
<1>7. ASSUME NEW x \in DOMAIN scope
      PROVE  \E s \in met : /\ SiteScope(s) = n /\ SiteName(s) = x
                            /\ scope[x].decl = s.decl /\ scope[x].type = SiteType(s)
  <2> DEFINE k == last(x)
  <2>1. x \in names /\ scope[x] = Var(n, params[k].type, home) /\ k \in DOMAIN params /\ params[k].name = x
    BY <1>5
  <2> HIDE DEF k, scope, last, names
  <2>2. Site(n, k) \in ParamSites(n) /\ Site(n, k).decl = n /\ Site(n, k).param = k
    BY <1>2, <1>6, <2>1
  <2>3. SiteScope(Site(n, k)) = n /\ SiteName(Site(n, k)) = x /\ SiteType(Site(n, k)) = params[k].type
    BY <1>2, <1>3, <2>1, <2>2
  <2>4. scope[x].decl = n /\ scope[x].type = params[k].type
    BY <2>1 DEF Var
  <2> QED
    BY <2>2, <2>3, <2>4
<1>8. ASSUME NEW s \in met, SiteScope(s) = n
      PROVE  SiteName(s) \in DOMAIN scope
  <2>1. s.param \in DOMAIN params /\ SiteName(s) = params[s.param].name
    BY <1>2, <1>8
  <2> QED
    BY <2>1
<1>9. CgHolds(scope, n, met)
  <2> HIDE DEF scope
  <2> QED
    BY <1>7, <1>8 DEF CgHolds
<1> QED
  BY <1>9 DEF scope, last, names, Last, params

LEMMA DefineGoes ==
  ASSUME CgFine, NEW fs, Mirrors(fs, stack), Holding(fs, env), CgDefine
  PROVE  Goes
<1> DEFINE mid == Retop(fs, 1)
           params == ast[at].params
           last(x) == CHOOSE i \in DOMAIN params :
                        params[i].name = x /\ \A j \in DOMAIN params : params[j].name = x => j <= i
           new == [x \in {params[i].name : i \in DOMAIN params} |-> Var(at, params[last(x)].type, New(1))]
<1>0. /\ StackOK /\ stack # <<>> /\ CgGood /\ at \in Nodes /\ stack \in Seq(FrameRecords) /\ Depth \in Nat /\ Depth >= 1
  BY CgTopFacts, FineStack DEF CgFine, CgGood, StackOK
<1>1. /\ CgTop.fn = "define" /\ Kind(at) = "FUNC_DECL" /\ CgTop.next = 1 /\ ~IsNull(Kid(at, 1))
      /\ stack' = [stack EXCEPT ![Len(stack)].next = 2] /\ env' = Append(env, new)
  BY DEF CgDefine, Step, CgKid
<1>2. ~IsExpr(CgTop) /\ WalkNext(CgTop) = 0 /\ Kind(at) \in ScopedKinds
  BY <1>1 DEF IsExpr, WalkNext, at, ScopedKinds
<1>3. Len(fs) = Depth /\ fs[Depth].node = at /\ fs[Depth].next = 0 /\ CallStackOK(fs) /\ Whole
  BY <1>2, MirrorTop DEF CgFine
<1> HIDE DEF mid, new, last
<1>4. mid = Retop(fs, 1)
  BY DEF mid
<1>5. ParamSites(at) \subseteq Met(mid)
  <2>1. /\ Len(mid) = Len(fs) /\ Same(fs, mid) /\ mid[Len(fs)].next = 1
    BY <1>3, <1>4, RetopFacts
  <2>2. Opened(fs, mid)
    BY <1>3, <2>1 DEF Opened, Same
  <2>3. Sited(at) \subseteq Seen(mid)
    BY <1>1, <1>3, <2>2, SeenOpen
  <2>4. \A s \in ParamSites(at) : ~IsFunction(s) /\ s \in Sited(at)
    BY <1>0, <1>1, <1>3, FunctionSites DEF ParamSites
  <2> QED
    BY <2>3, <2>4 DEF Met
<1>6. \A s \in Met(mid) : SiteScope(s) = at => s \in ParamSites(at)
  BY <1>2, <1>4, MetOutside
<1>7. CgHolds(new, at, Met(mid))
  BY <1>0, <1>1, <1>5, <1>6, ParametersHeld DEF new, last
<1>8. CallStackOK(mid) /\ Same(fs, mid) /\ mid[Depth].next = 1 /\ mid[Depth].node = at /\ Holding(mid, env')
  BY <1>1, <1>2, <1>4, <1>7, Pushes
<1>9. Below /\ Depth' = Depth /\ stack'[Depth].fn = CgTop.fn /\ stack'[Depth].node = at /\ stack'[Depth].next = 2
  BY <1>1, Advanced2
<1>10. mid[Depth] = Walked(stack'[Depth])
  BY <1>1, <1>2, <1>8, <1>9, Walked2
<1> QED
  BY <1>2, <1>8, <1>9, <1>10, GoesOn

-----------------------------------------------------------------------------
(* Statements and declarations that are done. *)

\* A statement that has no scope.
LEMMA StatementEnds ==
  ASSUME CgFine, NEW fs, Mirrors(fs, stack), Holding(fs, env), UNCHANGED env, CgTop.fn = "stmt", CgReturn,
         Kind(at) \in {"VAR_DECL", "EXPR_STMT", "RETURN", "IF", "WHILE"},
         CgTop.next > Arity(at) \/ (Kind(at) = "IF" /\ CgTop.next = 3 /\ IsNull(CgKid(3)))
  PROVE  Goes
<1>0. /\ StackOK /\ stack # <<>> /\ CgGood /\ AstTypeOK /\ phase = "codegen" /\ at \in Nodes /\ CgTop.next \in Nat
      /\ Depth \in Nat /\ CgTop.next >= 1
  BY CgTopFacts, FineStack DEF CgFine, CgGood
<1>1. ~IsExpr(CgTop) /\ WalkNext(CgTop) = CgTop.next /\ Kind(at) \notin ScopedKinds
  BY DEF IsExpr, WalkNext, at, ScopedKinds
<1>2. Depth >= 2
  <2>1. ~(CgTop.fn = "module")
    OBVIOUS
  <2> QED
    BY <1>0, <2>1, Outside
<1>3. VisitCount(at) = Arity(at) /\ Arity(at) \in Nat /\ \A k : VisitKid(at, k) = CgKid(k)
  <2>1. Kind(at) \notin {"FUNC_DECL", "CALL"}
    OBVIOUS
  <2> QED
    BY <1>0, <2>1, VisitAsKid, KidKinds DEF CgKid
<1>4. CallStackOK(fs) /\ Len(fs) = Depth /\ fs[Depth].node = at /\ fs[Depth].next = CgTop.next /\ Same(fs, fs)
  BY <1>1, MirrorTop DEF Same
<1>5. CASE CgTop.next > Arity(at)
  <2>1. Complete(fs)
    BY <1>3, <1>4, <1>5 DEF Complete
  <2>2. Len(fs) \notin OpenAt(fs)
    BY <1>1, <1>2, <1>4 DEF OpenAt, HasScope
  <2>3. Holding(fs, env')
    OBVIOUS
  <2> QED
    BY <1>1, <1>2, <1>4, <2>1, <2>2, <2>3, GoesBack
<1>6. CASE Kind(at) = "IF" /\ CgTop.next = 3 /\ IsNull(CgKid(3))
  <2> DEFINE mid == Retop(fs, 4)
  <2>1. Arity(at) = 3 /\ Kind(CgKid(3)) \in ExprKinds \cup Null
    BY <1>0, <1>6, ControlKids DEF IsNull, Null
  <2>2. /\ Advanced(fs, mid) /\ CallStackOK(mid) /\ Same(fs, mid) /\ mid[Depth].next = 4
        /\ mid[Depth].node = at /\ Len(mid) = Depth /\ OpenAt(mid) = OpenAt(fs)
    <3>1. \A k \in 1..VisitCount(at) : k >= WalkNext(CgTop) /\ k < 4 => Kind(VisitKid(at, k)) \in ExprKinds \cup Null
      <4>1. \A k \in 1..VisitCount(at) : k >= WalkNext(CgTop) /\ k < 4 => k = 3
        BY <1>1, <1>3, <1>6, <2>1
      <4> QED
        BY <1>3, <2>1, <4>1
    <3>2. WalkNext(CgTop) >= 1 /\ 4 >= WalkNext(CgTop) /\ 4 <= VisitCount(at) + 1 /\ 4 \in Nat
      BY <1>1, <1>3, <1>6, <2>1
    <3> QED
      BY <1>1, <3>1, <3>2, Advances
  <2> HIDE DEF mid
  <2>3. Holding(mid, env')
    <3>1. Kind(fs[Len(fs)].node) # "VAR_DECL" /\ Whole
      BY <1>4, <1>6 DEF CgFine
    <3> QED
      BY <1>4, <2>2, <3>1, HoldsAdvance
  <2>4. Complete(mid)
    BY <1>3, <2>1, <2>2 DEF Complete
  <2>5. Len(mid) \notin OpenAt(mid)
    BY <1>1, <1>2, <2>2 DEF OpenAt, HasScope
  <2> QED
    BY <1>1, <1>2, <2>2, <2>3, <2>4, <2>5, GoesBack
<1> QED
  BY <1>5, <1>6

LEMMA EndsGo ==
  ASSUME CgFine, NEW fs, Mirrors(fs, stack), Holding(fs, env),
         CgVarInit \/ CgExprStmt \/ CgReturnStmt \/ CgIfEnd \/ CgWhileEnd
  PROVE  Goes
<1>0. /\ CgGood /\ AstTypeOK /\ phase = "codegen" /\ at \in Nodes /\ CgTop.next \in Nat
  BY CgTopFacts DEF CgFine, CgGood
<1>1. Arity(at) \in Nat /\ HasArity(Kind(at), Arity(at))
  BY <1>0, KidKinds
<1>2. /\ Kind(at) \in {"VAR_DECL", "EXPR_STMT", "RETURN"} => Arity(at) = 1
      /\ Kind(at) = "IF" => Arity(at) = 3
      /\ Kind(at) = "WHILE" => Arity(at) = 2
  BY <1>1 DEF HasArity
<1>3. UNCHANGED env /\ CgTop.fn = "stmt" /\ CgReturn
  BY DEF CgVarInit, CgExprStmt, CgReturnStmt, CgIfEnd, CgWhileEnd, Step, Evaluated, OnlyCalls
<1>4. /\ Kind(at) \in {"VAR_DECL", "EXPR_STMT", "RETURN", "IF", "WHILE"}
      /\ CgTop.next > Arity(at) \/ (Kind(at) = "IF" /\ CgTop.next = 3 /\ IsNull(CgKid(3)))
  <2>1. CASE CgVarInit
    BY <1>2, <2>1 DEF CgVarInit, Step
  <2>2. CASE CgExprStmt
    <3>1. CgTop.fn = "stmt" /\ Kind(at) = "EXPR_STMT" /\ CgTop.next = Len(Operands) + 1
      BY <2>2 DEF CgExprStmt, Evaluated
    <3>2. Operands = <<Call("expr", CgKid(1))>>
      BY <3>1 DEF Operands
    <3> QED
      BY <1>2, <3>1, <3>2
  <2>3. CASE CgReturnStmt
    BY <1>2, <2>3 DEF CgReturnStmt, Step
  <2>4. CASE CgIfEnd
    BY <1>2, <2>4 DEF CgIfEnd, Step, HasElse
  <2>5. CASE CgWhileEnd
    BY <1>2, <2>5 DEF CgWhileEnd, Step
  <2> QED
    BY <2>1, <2>2, <2>3, <2>4, <2>5
<1> QED
  BY <1>3, <1>4, StatementEnds

LEMMA PrototypeGoes ==
  ASSUME CgFine, NEW fs, Mirrors(fs, stack), Holding(fs, env), CgPrototype
  PROVE  Goes
<1>0. CgGood /\ Depth \in Nat
  BY FineStack DEF CgFine
<1>1. /\ CgTop.fn = "define" /\ Kind(at) = "FUNC_DECL" /\ CgTop.next = 1 /\ IsNull(Kid(at, 1)) /\ CgReturn
      /\ UNCHANGED env
  BY DEF CgPrototype, Step, CgKid, OnlyCalls
<1>2. ~IsExpr(CgTop) /\ WalkNext(CgTop) = 0 /\ Depth >= 2
  <2>1. Depth = 2
    BY <1>0, <1>1, Outside
  <2> QED
    BY <1>1, <2>1 DEF IsExpr, WalkNext, at
<1>3. CallStackOK(fs) /\ Len(fs) = Depth /\ fs[Depth].node = at /\ fs[Depth].next = 0 /\ Same(fs, fs)
  BY <1>2, MirrorTop DEF Same
<1>4. Complete(fs)
  BY <1>1, <1>3 DEF Complete
<1>5. Len(fs) \notin OpenAt(fs)
  BY <1>2, <1>3 DEF OpenAt, HasScope
<1>6. Holding(fs, env')
  BY <1>1
<1> QED
  BY <1>1, <1>2, <1>3, <1>4, <1>5, <1>6, GoesBack

\* Those that have a scope.
LEMMA LeavesGo ==
  ASSUME CgFine, NEW fs, Mirrors(fs, stack), Holding(fs, env), CgBlockLeave \/ CgForEnd \/ CgDefineEnd
  PROVE  Goes
<1>0. CgGood /\ Depth \in Nat /\ CgTop.next \in Nat /\ Kind(at) \in KindsOf(CgTop.fn) /\ Depth >= 1
  BY CgTopFacts, FineStack DEF CgFine, CgGood
<1>1. /\ CgTop.fn \in {"stmt", "define"} /\ CgReturn /\ CgPopScope
      /\ \/ Kind(at) \in {"BLOCK", "FUNC_DECL"} /\ CgTop.next >= 2
         \/ Kind(at) = "FOR" /\ CgTop.next = 5
  BY DEF CgBlockLeave, CgForEnd, CgDefineEnd, InList, Step
<1>2. ~IsExpr(CgTop) /\ WalkNext(CgTop) > 0 /\ Kind(at) \in ScopedKinds /\ WalkNext(CgTop) \in Nat
  BY <1>0, <1>1 DEF IsExpr, WalkNext, at, ScopedKinds
<1>3. Depth >= 2
  BY <1>0, <1>1, Outside
<1>4. Len(fs) = Depth /\ fs[Depth].node = at /\ fs[Depth].next = WalkNext(CgTop)
  BY <1>2, MirrorTop
<1>5. Len(fs) \in OpenAt(fs)
  BY <1>0, <1>2, <1>4 DEF OpenAt, HasScope
<1> QED
  BY <1>1, <1>2, <1>3, <1>5, GoesOut

-----------------------------------------------------------------------------
(* Every step. *)

\* At the start and at the end.
LEMMA StartMirrors ==
  ASSUME Whole, CgStart
  PROVE  Goes
<1> DEFINE fs == <<[node |-> 1, next |-> 1]>>
           own == [j \in 1..1 |-> 1]
<1>0. AstTypeOK /\ TreeOK /\ Kind(1) = "PROGRAM" /\ 1 \in Nodes
  BY KindsOfKids, ParentFacts DEF Whole
<1>1. stack' = <<CgFrame("module", 1)>> /\ env' = <<NoVars>>
  BY DEF CgStart
<1>2. CgFrame("module", 1).fn = "module" /\ CgFrame("module", 1).node = 1 /\ CgFrame("module", 1).next = 1
  BY DEF CgFrame
<1>3. Len(stack') = 1 /\ stack'[1] = CgFrame("module", 1)
  BY <1>1
<1>4. Walked(stack'[1]) = [node |-> 1, next |-> 1]
  BY <1>0, <1>2, <1>3 DEF Walked, WalkNext
<1>5. fs \in Seq(FrameSet) /\ Len(fs) = 1 /\ fs[1] = [node |-> 1, next |-> 1]
  BY <1>0 DEF FrameSet
<1> HIDE DEF fs
<1>6. fs[1].node = 1 /\ fs[1].next = 1 /\ 1..Len(fs) = {1}
  BY <1>5
<1>7. CallStackOK(fs)
  <2>1. VisitCount(1) \in Nat
    <3>1. VisitCount(1) = Arity(1)
      BY <1>0, VisitAsKid
    <3>2. Arity(1) \in Nat
      BY <1>0, NodeFacts DEF Arity
    <3> QED
      BY <3>1, <3>2
  <2>2. VisitOK(fs, 1)
    BY <1>0, <1>6, <2>1 DEF VisitOK, KindsAt, ScopedKinds, StmtKinds
  <2> QED
    BY <1>5, <1>6, <2>2 DEF CallStackOK
<1>8. Mirrors(fs, stack')
  <2>1. Layered(stack', Len(fs))
    BY <1>2, <1>3, <1>5 DEF Layered, IsExpr
  <2> QED
    BY <1>3, <1>4, <1>5, <1>6, <1>7, <2>1 DEF Mirrors
<1>9. Met(fs) = {}
  <2>1. \A d : ~Entered(fs, d)
    BY <1>0, <1>6 DEF Entered
  <2>2. \A d : ~Finished(fs, d)
    <3>1. Past(fs, 1) = 1
      BY <1>5, <1>6 DEF Past
    <3> QED
      BY <1>6, <3>1 DEF Finished
  <2>3. Kind(fs[Len(fs)].node) # "VAR_DECL"
    BY <1>0, <1>5, <1>6
  <2> QED
    BY <2>1, <2>2, <2>3 DEF Met, Seen
<1>10. OpenAt(fs) = {1}
  BY <1>6 DEF OpenAt
<1>11. Len(env') = 1 /\ env'[1] = NoVars
  BY <1>1
<1>12. CgOwns(own, fs, env')
  <2>1. Pushed(own, fs, 1)
    BY <1>10 DEF Pushed
  <2>2. CgHolds(NoVars, fs[own[1]].node, Met(fs))
    BY <1>9 DEF CgHolds, NoVars
  <2> HIDE DEF own
  <2>3. \A j \in 1..Len(env') : CgHolds(env'[j], fs[own[j]].node, Met(fs))
    <3>1. \A j \in 1..Len(env') : j = 1
      BY <1>11
    <3> QED
      BY <1>11, <2>2, <3>1
  <2> QED
    BY <1>11, <2>1, <2>3 DEF CgOwns
<1> QED
  BY <1>8, <1>12 DEF Goes, Holding

LEMMA WalkGoes ==
  ASSUME CgFine, NEW fs, Mirrors(fs, stack), Holding(fs, env), CgNext
  PROVE  Goes \/ stack' = <<>>
<1>0. CgGood
  BY DEF CgFine
<1>1. CASE CgOperand \/ CgLogicalTest
  <2>1. CASE IsExpr(CgTop)
    BY <1>1, <2>1, ExpressionGoes
  <2>2. CASE ~IsExpr(CgTop)
    <3>1. CgOperand
      BY <1>1, <2>2 DEF CgLogicalTest, Step, IsExpr
    <3>2. CgTop.fn = "stmt"
      <4>1. CgTop.next \in DOMAIN Operands
        BY <3>1 DEF CgOperand
      <4> QED
        BY <1>0, <2>2, <4>1, OperandFacts DEF IsExpr, Running3
    <3> QED
      BY <3>1, <3>2, StatementEvaluates
  <2> QED
    BY <2>1, <2>2
<1>2. CASE CgEnd
  <2>1. CgReturn /\ CgTop.fn = "module"
    BY <1>2 DEF CgEnd, Step
  <2>2. Len(stack) = 1 /\ stack' = SubSeq(stack, 1, 0)
    <3>1. Depth = 1
      BY <1>0, <2>1, Outside
    <3>2. Len(stack) - 1 = 0
      BY <3>1 DEF Depth
    <3> QED
      BY <2>1, <3>1, <3>2 DEF Depth, CgReturn
  <2> QED
    BY <2>2
<1>3. CASE CgWhile \/ CgForCond \/ CgForPost
  <2>1. CgTop.fn = "stmt"
    BY <1>3 DEF CgWhile, CgForCond, CgForPost, Step
  <2> QED
    BY <1>3, <2>1, StatementEvaluates
<1>4. CASE ~CgStart
  BY <1>1, <1>2, <1>3, <1>4, ExpressionReturns, VarDeclGoes, GlobalGoes, NextGoes, BranchGoes, ForBodyGoes, BlockGoes,
     ForGoes, DefineGoes, EndsGo, PrototypeGoes, LeavesGo DEF CgNext
<1>5. ~CgStart
  BY <1>0 DEF CgStart, CgGood
<1> QED
  BY <1>4, <1>5

-----------------------------------------------------------------------------
(* The invariant: CodeGen's statements, and the scopes they have pushed. *)

WalkInv == phase = "codegen" /\ stack # <<>> => \E fs : Mirrors(fs, stack) /\ Holding(fs, env)

LEMMA WalkStable ==
  ASSUME UNCHANGED ast, NEW fs, Mirrors(fs, stack'), Holding(fs, env')
  PROVE  (Mirrors(fs, stack) /\ Holding(fs, env))'
<1>1. Nodes' = Nodes /\ Path' = Path /\ Owner' = Owner /\ Sites' = Sites
  BY RulesStable
<1>2. \A n : /\ Kind(n)' = Kind(n) /\ Arity(n)' = Arity(n) /\ (IsNull(n)' <=> IsNull(n))
             /\ \A i : Kid(n, i)' = Kid(n, i)
  BY DEF Kind, Arity, Kid, IsNull
<1>3. \A n : VisitCount(n)' = VisitCount(n) /\ \A k : VisitKid(n, k)' = VisitKid(n, k)
  BY <1>2 DEF VisitCount, VisitKid
<1>4. \A s : /\ SiteName(s)' = SiteName(s) /\ SiteScope(s)' = SiteScope(s) /\ SiteType(s)' = SiteType(s)
             /\ (IsFunction(s)' <=> IsFunction(s))
  BY <1>1 DEF SiteName, SiteType, SiteScope, IsFunction, IsParam, Kind
<1>5. \A m, n : Under(m, n)' <=> Under(m, n)
  BY <1>1 DEF Under
<1>6. CallStackOK(fs)'
  <2>1. CallStackOK(fs)
    BY DEF Mirrors
  <2>2. FrameSet' = FrameSet
    BY <1>1 DEF FrameSet
  <2>3. \A i : VisitOK(fs, i)' <=> VisitOK(fs, i)
    BY <1>2, <1>3 DEF VisitOK, ChildOf
  <2> QED
    BY <2>1, <2>2, <2>3 DEF CallStackOK
<1>7. \A f : /\ Walked(f)' = Walked(f) /\ NowAt(f)' = NowAt(f) /\ (Evaluating(f)' <=> Evaluating(f))
  BY <1>2 DEF Walked, WalkNext, NowAt, Evaluating
<1>8. Layered(stack, Len(fs))'
  <2>1. Layered(stack', Len(fs))
    BY DEF Mirrors
  <2>2. /\ Len(fs) <= Len(stack') /\ \A i \in 1..Len(fs) : ~IsExpr(stack'[i])
        /\ \A i \in 1..Len(stack') : i > Len(fs) =>
             /\ IsExpr(stack'[i]) /\ Evaluating(stack'[Len(fs)])
             /\ Under(stack'[i].node, Kid(stack'[Len(fs)].node, NowAt(stack'[Len(fs)])))
    BY <2>1 DEF Layered
  <2>3. \A i : IsExpr(stack[i])' <=> IsExpr(stack'[i])
    BY DEF IsExpr
  <2>4. \A i : Evaluating(stack[i])' <=> Evaluating(stack'[i])
    BY <1>2 DEF Evaluating, NowAt
  <2>5. \A i : NowAt(stack[i])' = NowAt(stack'[i])
    BY <1>2 DEF NowAt
  <2>6. \A i : Under(stack[i].node, Kid(stack[Len(fs)].node, NowAt(stack[Len(fs)])))'
                 <=> Under(stack'[i].node, Kid(stack'[Len(fs)].node, NowAt(stack'[Len(fs)])))
    BY <1>1, <1>2, <2>5 DEF Under
  <2> QED
    BY <2>2, <2>3, <2>4, <2>6 DEF Layered
<1>9. Mirrors(fs, stack)'
  <2>1. \A i \in 1..Len(fs) : fs[i] = Walked(stack'[i])
    BY DEF Mirrors
  <2>2. \A i : Walked(stack[i])' = Walked(stack'[i])
    BY <1>2 DEF Walked, WalkNext
  <2> QED
    BY <1>6, <1>8, <2>1, <2>2 DEF Mirrors
<1>10. Met(fs)' = Met(fs)
  <2>1. \A m : (Finished(fs, m)' <=> Finished(fs, m)) /\ (Entered(fs, m)' <=> Entered(fs, m))
    BY <1>2, <1>3, <1>5 DEF Finished, Entered, Past
  <2>2. Seen(fs)' = Seen(fs)
    BY <1>1, <2>1 DEF Seen
  <2> QED
    BY <1>1, <1>2, <1>4, <2>2 DEF Met
<1>11. PICK own : CgOwns(own, fs, env')
  BY DEF Holding
<1>12. CgOwns(own, fs, env)'
  <2>1. OpenAt(fs)' = OpenAt(fs)
    BY <1>2 DEF OpenAt, HasScope
  <2>2. Pushed(own, fs, Len(env))'
    BY <1>11, <2>1 DEF CgOwns, Pushed
  <2>3. \A j \in 1..Len(env') : CgHolds(env[j], fs[own[j]].node, Met(fs))'
    BY <1>4, <1>10, <1>11 DEF CgOwns, CgHolds
  <2> QED
    BY <2>2, <2>3 DEF CgOwns
<1>13. Holding(fs, env)'
  BY <1>12 DEF Holding
<1> QED
  BY <1>9, <1>13

LEMMA OnlyStarts ==
  ASSUME CgNext, stack = <<>>
  PROVE  CgStart
<1> USE DEF Step, Evaluated, EvaluatedOp, InList
<1>1. ~CgDeclaration /\ ~CgEnd /\ ~CgPrototype /\ ~CgDefine /\ ~CgDefineEnd /\ ~CgGlobal
  BY DEF CgDeclaration, CgEnd, CgPrototype, CgDefine, CgDefineEnd, CgGlobal
<1>2. /\ ~CgVarDecl /\ ~CgVarInit /\ ~CgExprStmt /\ ~CgReturnStmt /\ ~CgBlockEnter
      /\ ~CgNextStatement /\ ~CgBlockLeave /\ ~CgIfThen /\ ~CgIfElse /\ ~CgIfEnd
  BY DEF CgVarDecl, CgVarInit, CgExprStmt, CgReturnStmt, CgBlockEnter, CgNextStatement,
         CgBlockLeave, CgIfThen, CgIfElse, CgIfEnd
<1>3. /\ ~CgWhile /\ ~CgWhileBody /\ ~CgWhileEnd /\ ~CgFor /\ ~CgForCond /\ ~CgForBody
      /\ ~CgForPost /\ ~CgForEnd
  BY DEF CgWhile, CgWhileBody, CgWhileEnd, CgFor, CgForCond, CgForBody, CgForPost, CgForEnd
<1>4. /\ ~CgOperand /\ ~CgLiteral /\ ~CgIdent /\ ~CgIndexAddress /\ ~CgDerefAddress
      /\ ~CgAssign /\ ~CgArith /\ ~CgAddress /\ ~CgLoad /\ ~CgNegate /\ ~CgNot /\ ~CgCall
      /\ ~CgUnhandled /\ ~CgLogicalTest /\ ~CgLogicalMerge
  BY DEF CgOperand, CgLiteral, CgIdent, CgIndexAddress, CgDerefAddress, CgAssign, CgArith,
         CgAddress, CgLoad, CgNegate, CgNot, CgCall, CgUnhandled, CgLogicalTest, CgLogicalMerge
<1> QED
  BY Zenon, <1>1, <1>2, <1>3, <1>4 DEF CgNext

LEMMA WalkKept == MainInv /\ SemaInv /\ VisitInv /\ CgInv /\ WalkInv /\ [Next]_vars => WalkInv'
<1> SUFFICES ASSUME MainInv, SemaInv, VisitInv, CgInv, WalkInv, [Next]_vars PROVE WalkInv'
  OBVIOUS
<1>1. CASE SemaNext /\ UNCHANGED <<cgVars, mainVars>>
  <2>1. stack = <<>>
    <3>1. CgInit
      BY <1>1, SemaPhases DEF CgInv, Idle
    <3> QED
      BY <3>1 DEF CgInit
  <2> QED
    BY <1>1, <2>1 DEF WalkInv, cgVars
<1>2. CASE CgNext
  <2>1. phase = "codegen" /\ UNCHANGED ast /\ Whole
    BY <1>2, CgKeepsSema DEF SemaInv, VisitInv, Whole
  <2>2. CASE stack = <<>>
    <3>1. CgStart
      BY <1>2, <2>2, OnlyStarts
    <3>2. Goes
      BY <2>1, <3>1, StartMirrors
    <3> QED
      BY <2>1, <3>2, WalkStable DEF Goes, WalkInv
  <2>3. CASE stack # <<>>
    <3>1. CgFine
      BY <2>1, <2>3 DEF CgFine, CgGood, CgInv, Whole
    <3>2. PICK fs : Mirrors(fs, stack) /\ Holding(fs, env)
      BY <2>1, <2>3 DEF WalkInv
    <3>3. Goes \/ stack' = <<>>
      BY <1>2, <3>1, <3>2, WalkGoes
    <3> QED
      BY <2>1, <3>3, WalkStable DEF Goes, WalkInv
  <2> QED
    BY <2>2, <2>3
<1>3. CASE Main
  <2>1. phase' # "codegen"
    BY <1>3 DEF Main, MainNoParse, MainRejected, MainVerify, MainWriteIr, MainWriteObject, Exit
  <2> QED
    BY <2>1 DEF WalkInv
<1>4. CASE UNCHANGED vars
  <2>1. UNCHANGED <<ast, phase, stack, env>>
    BY <1>4 DEF vars, cgVars
  <2>2. ASSUME phase = "codegen", stack # <<>>
        PROVE  (\E fs : Mirrors(fs, stack) /\ Holding(fs, env))'
    <3>1. PICK fs : Mirrors(fs, stack) /\ Holding(fs, env)
      BY <2>2 DEF WalkInv
    <3>2. Mirrors(fs, stack') /\ Holding(fs, env')
      BY <2>1, <3>1
    <3> QED
      BY <2>1, <3>2, WalkStable
  <2> QED
    BY <2>1, <2>2 DEF WalkInv
<1> QED
  BY <1>1, <1>2, <1>3, <1>4 DEF Next, Ended

LEMMA WalkAlways == Spec => []WalkInv
<1>1. Init => WalkInv
  BY DEF Init, SemaInit, AstInit, WalkInv
<1> QED
  BY <1>1, WalkKept, MainHolds, SemaInvAlways, VisitInvAlways, CgInvAlways, PTL DEF Spec

-----------------------------------------------------------------------------
(* What each identifier was resolved to. *)

Resolved(n, d) ==
  IF d = 0 THEN bind[n].kind = "FUNC"
  ELSE d = bind[n].decl \/ InOwnInitialiser(n, d) \/ InPostBeforeBody(n, d)

\* The running identifier is in an expression of the last of the statements.
LEMMA IdentEvaluates ==
  ASSUME CgFine, NEW fs, Mirrors(fs, stack), Holding(fs, env), Kind(at) = "IDENT"
  PROVE  /\ CallStackOK(fs) /\ Len(env) \in Nat /\ DOMAIN env = 1..Len(env)
         /\ \E l : Evaluates(fs, at, l) /\ (Kind(fs[Len(fs)].node) = "FOR" /\ l = 3 => fs[Len(fs)].next = 5)
         /\ \E own : CgOwns(own, fs, env)
<1>1. CgTop.fn \in {"expr", "lvalue"} /\ at \in Nodes
  <2>1. /\ CgTop.fn \in FnNames /\ Kind(at) \in KindsOf(CgTop.fn) /\ at \in Nodes
    BY CgTopFacts DEF CgFine, CgGood
  <2> QED
    BY <2>1 DEF FnNames, KindsOf, StmtKinds
<1> DEFINE L == Len(fs)
           l == NowAt(stack[L])
           top == fs[L]
<1>2. /\ L \in Nat /\ L >= 1 /\ L < Depth /\ Evaluating(stack[L]) /\ Under(at, Kid(stack[L].node, l)) /\ top = Walked(stack[L])
      /\ CallStackOK(fs)
  <2>1. IsExpr(CgTop)
    BY <1>1 DEF IsExpr
  <2> QED
    BY <2>1, MirrorTop
<1> HIDE DEF L, l
<1>3. top.node = stack[L].node /\ top.next = WalkNext(stack[L])
  BY <1>2 DEF Walked
<1>4. /\ Kind(top.node) \in StmtKinds \ {"BLOCK"} /\ l \in 1..Arity(top.node) /\ Kind(Kid(top.node, l)) \in ExprKinds
  BY <1>2, <1>3 DEF Evaluating, l
<1>5. VisitCount(top.node) = Arity(top.node) /\ VisitKid(top.node, l) = Kid(top.node, l)
  BY <1>4, VisitAsKid DEF StmtKinds
<1>6. l = top.next - 1 \/ (Kind(top.node) = "FOR" /\ l = 3 /\ top.next = 5)
  <2>1. stack[L].next \in Nat /\ stack[L].next >= 1
    BY <1>2, FineStack
  <2>2. Kind(stack[L].node) \notin {"BLOCK", "FUNC_DECL"}
    BY <1>3, <1>4 DEF StmtKinds
  <2>3. l >= 1
    BY <1>4
  <2> QED
    BY <1>3, <2>1, <2>2, <2>3 DEF l, NowAt, WalkNext
<1>7. Evaluates(fs, at, l)
  BY <1>1, <1>2, <1>3, <1>4, <1>5, <1>6 DEF Evaluates, L
<1>8. env \in Seq(VarScopes)
  BY DEF CgFine, CgGood, EnvOK
<1>9. Len(env) \in Nat /\ DOMAIN env = 1..Len(env)
  BY <1>8
<1>10. Kind(top.node) = "FOR" /\ l = 3 => top.next = 5
  <2>1. stack[L].next \in Nat /\ stack[L].next >= 1
    BY <1>2, FineStack
  <2> QED
    BY <1>3, <2>1 DEF l, NowAt, WalkNext
<1> QED
  BY <1>2, <1>7, <1>9, <1>10 DEF Holding, L

\* What the running identifier is resolved to.
LEMMA IdentResolved ==
  ASSUME CgFine, NEW fs, Mirrors(fs, stack), Holding(fs, env), Accepted, AllRight(rtype, bind),
         Kind(at) = "IDENT", NEW var, var = CgLookup(ast[at].name)
  PROVE  Resolved(at, var.decl)
<1>1. at \in Nodes
  BY FineStack
<1>2. CallStackOK(fs) /\ Len(env) \in Nat /\ DOMAIN env = 1..Len(env)
  BY IdentEvaluates
<1>3. PICK l : Evaluates(fs, at, l)
  BY IdentEvaluates
<1>4. PICK own : CgOwns(own, fs, env)
  BY IdentEvaluates
<1>5. NodeRight(at, rtype, bind)
  BY <1>1 DEF AllRight
<1>6. Declared(at) /\ bind[at] = SymbolOf(Meaning(at))
  BY <1>5 DEF NodeRight
<1>7. /\ Meaning(at) \in Sites
      /\ var = NoVar => IsFunction(Meaning(at))
      /\ var # NoVar => /\ var.decl \in Nodes
                        /\ \/ var.decl = Meaning(at).decl
                           \/ InOwnInitialiser(at, var.decl)
                           \/ InPostBeforeBody(at, var.decl)
  BY <1>2, <1>3, <1>4, <1>6, LookupAgrees DEF CgFine, Accepted
<1>8. bind[at].decl = Meaning(at).decl /\ (IsFunction(Meaning(at)) => bind[at].kind = "FUNC")
  BY <1>6 DEF SymbolOf, FuncSymbol, VarSymbol, Symbol
<1>9. CASE var = NoVar
  BY <1>7, <1>8, <1>9 DEF NoVar, Var, Resolved
<1>10. CASE var # NoVar
  <2>1. var.decl # 0
    BY <1>7, <1>10, ParentFacts DEF CgFine, Whole
  <2> QED
    BY <1>7, <1>8, <1>10, <2>1 DEF Resolved
<1> QED
  BY <1>9, <1>10

\* The steps of cg_expr and cg_lvalue that return.
Answers ==
  \/ CgLiteral \/ CgIdent \/ CgUnhandled \/ CgIndexAddress \/ CgDerefAddress \/ CgAssign \/ CgArith
  \/ CgAddress \/ CgLoad \/ CgNegate \/ CgNot \/ CgCall \/ CgLogicalMerge

LEMMA QuietSteps ==
  ASSUME CgNext, ~CgStart, ~Answers
  PROVE  UNCHANGED <<val, cgbind>> /\ (UNCHANGED cg_errors \/ CgGlobal)
<1> USE DEF rest, kept, OnlyCalls
<1>1. CgEnd \/ CgDeclaration \/ CgPrototype \/ CgNextStatement \/ CgExprStmt \/ CgOperand
        => UNCHANGED <<val, cgbind, cg_errors>>
  BY DEF CgEnd, CgDeclaration, CgPrototype, CgNextStatement, CgExprStmt, CgOperand
<1>2. CgVarDecl \/ CgBlockEnter \/ CgBlockLeave \/ CgIfElse \/ CgIfEnd \/ CgWhile \/ CgWhileEnd
        => UNCHANGED <<val, cgbind, cg_errors>>
  BY DEF CgVarDecl, CgBlockEnter, CgBlockLeave, CgIfElse, CgIfEnd, CgWhile, CgWhileEnd
<1>3. CgFor \/ CgForCond \/ CgForPost \/ CgForEnd \/ CgForBody \/ CgWhileBody \/ CgIfThen
        => UNCHANGED <<val, cgbind, cg_errors>>
  BY DEF CgFor, CgForCond, CgForPost, CgForEnd, CgForBody, CgWhileBody, CgIfThen
<1>4. CgVarInit \/ CgReturnStmt \/ CgLogicalTest \/ CgDefine \/ CgDefineEnd
        => UNCHANGED <<val, cgbind, cg_errors>>
  BY DEF CgVarInit, CgReturnStmt, CgLogicalTest, CgDefine, CgDefineEnd
<1>5. CgGlobal => UNCHANGED <<val, cgbind>>
  BY DEF CgGlobal
<1> QED
  BY Zenon, <1>1, <1>2, <1>3, <1>4, <1>5 DEF CgNext, Answers

\* Only cg_expr and cg_lvalue on an identifier say what it means.
LEMMA OnlyIdent ==
  ASSUME CgGood, CgNext, ~CgStart, ~CgIdent, NEW n \in Nodes, Kind(n) = "IDENT"
  PROVE  val'[n] = val[n] /\ cgbind'[n] = cgbind[n]
<1>1. CASE UNCHANGED <<val, cgbind>>
  BY <1>1
<1>2. CASE ~UNCHANGED <<val, cgbind>>
  <2>1. Kind(at) # "IDENT" /\ UNCHANGED cgbind /\ \E v : val' = [val EXCEPT ![at] = v]
    <3> USE DEF Evaluated, EvaluatedOp, Compute, Pass, CgError, Give, Unhandled
    <3>1. CASE CgLiteral \/ CgUnhandled
      BY <3>1 DEF CgLiteral, CgUnhandled, Literals
    <3>2. CASE CgIndexAddress \/ CgDerefAddress \/ CgAssign \/ CgArith \/ CgAddress \/ CgNegate \/ CgNot
      BY <3>2 DEF CgIndexAddress, CgDerefAddress, CgAssign, CgArith, CgAddress, CgNegate, CgNot
    <3>3. CASE CgLoad
      BY <3>3 DEF CgLoad
    <3>4. CASE CgCall
      BY <3>4 DEF CgCall
    <3>5. CASE CgLogicalMerge
      BY <3>5 DEF CgLogicalMerge, Step
    <3>6. \/ CgLiteral \/ CgUnhandled \/ CgIndexAddress \/ CgDerefAddress \/ CgAssign \/ CgArith \/ CgAddress \/ CgNegate
          \/ CgNot \/ CgLoad \/ CgCall \/ CgLogicalMerge
      BY <1>2, QuietSteps DEF Answers
    <3> QED
      BY <3>1, <3>2, <3>3, <3>4, <3>5, <3>6
  <2>2. n # at
    BY <2>1
  <2> QED
    BY <2>1, <2>2 DEF DataOK, CgGood
<1> QED
  BY <1>1, <1>2

ResolvedInv ==
  (phase = "codegen" /\ stack # <<>>) \/ Generated =>
    /\ DOMAIN val = Nodes
    /\ \A n \in Nodes : Kind(n) = "IDENT" /\ Visited(n) => Resolved(n, cgbind[n])

LEMMA ResolvedNext ==
  ASSUME UNCHANGED <<ast, bind>>, NEW n, Resolved(n, cgbind'[n])
  PROVE  Resolved(n, cgbind[n])'
<1>1. Nodes' = Nodes /\ Path' = Path
  BY RulesStable
<1>2. \A m : Kind(m)' = Kind(m) /\ \A i : Kid(m, i)' = Kid(m, i)
  BY DEF Kind, Kid
<1>3. \A m, k : Under(m, k)' <=> Under(m, k)
  BY <1>1 DEF Under
<1>4. \A d : (InOwnInitialiser(n, d)' <=> InOwnInitialiser(n, d)) /\ (InPostBeforeBody(n, d)' <=> InPostBeforeBody(n, d))
  BY <1>1, <1>2, <1>3 DEF InOwnInitialiser, InPostBeforeBody
<1>5. \A d : Resolved(n, d)' <=> Resolved(n, d)
  BY <1>4 DEF Resolved
<1>6. Resolved(n, cgbind[n])' <=> Resolved(n, cgbind'[n])
  BY <1>1, <1>2, <1>3 DEF Resolved, InOwnInitialiser, InPostBeforeBody
<1> QED
  BY <1>6
LEMMA ResolvedKept ==
  MainInv /\ SemaInv /\ VisitInv /\ CgInv /\ MeaningInv /\ WalkInv /\ ResolvedInv /\ [Next]_vars => ResolvedInv'
<1> SUFFICES ASSUME MainInv, SemaInv, VisitInv, CgInv, MeaningInv, WalkInv, ResolvedInv, [Next]_vars PROVE ResolvedInv'
  OBVIOUS
<1>1. CASE SemaNext /\ UNCHANGED <<cgVars, mainVars>>
  <2>1. stack = <<>> /\ stack' = <<>>
    <3>1. CgInit
      BY <1>1, SemaPhases DEF CgInv, Idle
    <3> QED
      BY <1>1, <3>1 DEF CgInit, cgVars
  <2>2. ~Generated'
    BY <1>1, SemaPhases DEF Generated
  <2> QED
    BY <2>1, <2>2 DEF ResolvedInv
<1>2. CASE CgNext
  <2>1. phase = "codegen" /\ UNCHANGED <<ast, bind>> /\ Whole
    BY <1>2, CgKeepsSema DEF SemaInv, VisitInv, Whole, semaVars
  <2>2. Nodes' = Nodes /\ \A n : Kind(n)' = Kind(n)
    BY <2>1 DEF Nodes, Kind
  <2>3. CASE stack = <<>>
    <3>1. val' = [n \in Nodes |-> "none"]
      BY <1>2, <2>3, OnlyStarts DEF CgStart
    <3> QED
      BY <2>2, <3>1 DEF ResolvedInv, Visited
  <2>4. CASE stack # <<>>
    <3>1. CgFine
      BY <2>1, <2>4 DEF CgFine, CgGood, CgInv, Whole
    <3>2. PICK fs : Mirrors(fs, stack) /\ Holding(fs, env)
      BY <2>1, <2>4 DEF WalkInv
    <3>3. Accepted /\ AllRight(rtype, bind)
      BY <2>1 DEF MeaningInv
    <3>4. DOMAIN val' = Nodes /\ DOMAIN val = Nodes /\ DOMAIN cgbind = Nodes
      <4>1. DataMove /\ DOMAIN val = Nodes /\ DOMAIN cgbind = Nodes
        <5>1. CgGood /\ ~CgStart
          BY <2>4, <3>1 DEF CgFine, CgStart
        <5>2. UNCHANGED ast /\ blocks \in Nat /\ blocks' \in Nat /\ blocks' >= blocks
          BY <1>2, <5>1, GraphKept
        <5>3. DataMove
          BY <1>2, <5>1, <5>2, CallingData, TestingData, IdentData, ExpressionData, DeclaringData DEF CgNext
        <5> QED
          BY <2>4, <5>1, <5>3 DEF CgGood, DataOK
      <4> QED
        BY <4>1 DEF DataMove
    <3>5. ASSUME NEW n \in Nodes, Kind(n) = "IDENT", val'[n] # "none"
          PROVE  Resolved(n, cgbind'[n])
      <4>1. val[n] # "none" => Resolved(n, cgbind[n])
        BY <2>1, <2>4, <3>5 DEF ResolvedInv, Visited
      <4>2. CASE ~CgIdent \/ n # at
        <5>1. val'[n] = val[n] /\ cgbind'[n] = cgbind[n]
          <6>1. CASE ~CgIdent
            <7>1. ~CgStart /\ CgGood
              BY <2>4, <3>1 DEF CgStart, CgFine
            <7> QED
              BY <1>2, <3>5, <6>1, <7>1, OnlyIdent
          <6>2. CASE CgIdent /\ n # at
            <7>1. /\ \E d : cgbind' = [cgbind EXCEPT ![at] = d]
                  /\ \E v : val' = [val EXCEPT ![at] = v]
              BY <6>2 DEF CgIdent, CgError, Give
            <7> QED
              BY <3>4, <6>2, <7>1
          <6> QED
            BY <4>2, <6>1, <6>2
        <5> QED
          BY <3>5, <4>1, <5>1
      <4>3. CASE CgIdent /\ n = at
        <5> DEFINE var == CgLookup(ast[at].name)
        <5>1. cgbind' = [cgbind EXCEPT ![at] = var.decl]
          BY <4>3 DEF CgIdent
        <5> HIDE DEF var
        <5>2. cgbind'[n] = var.decl
          BY <3>4, <4>3, <5>1
        <5>3. Resolved(at, var.decl)
          BY <3>1, <3>2, <3>3, <3>5, <4>3, IdentResolved DEF var
        <5> QED
          BY <4>3, <5>2, <5>3
      <4> QED
        BY <4>2, <4>3
    <3>6. ASSUME NEW n \in Nodes, Kind(n)' = "IDENT", Visited(n)'
          PROVE  Resolved(n, cgbind[n])'
      <4>1. Resolved(n, cgbind'[n])
        BY <2>2, <3>5, <3>6 DEF Visited
      <4> QED
        BY <2>1, <4>1, ResolvedNext
    <3> QED
      BY <2>2, <3>4, <3>6 DEF ResolvedInv
  <2> QED
    BY <2>3, <2>4
<1>3. CASE Main
  <2>1. phase' \in {"done", "write_ir", "write_object"}
    BY <1>3 DEF Main, MainNoParse, MainRejected, MainVerify, MainWriteIr, MainWriteObject, Exit
  <2> QED
    BY <2>1 DEF ResolvedInv, Generated
<1>4. CASE UNCHANGED vars
  <2>1. UNCHANGED <<ast, phase, stack, val, cgbind, bind>>
    BY <1>4 DEF vars, cgVars, kept, semaVars
  <2>2. Nodes' = Nodes /\ \A n : Kind(n)' = Kind(n) /\ (Visited(n)' <=> Visited(n))
    BY <2>1 DEF Nodes, Kind, Visited
  <2>3. Generated' <=> Generated
    BY <2>1 DEF Generated
  <2>4. \A n : Resolved(n, cgbind[n]) => Resolved(n, cgbind[n])'
    <3> TAKE n
    <3> HAVE Resolved(n, cgbind[n])
    <3>1. Resolved(n, cgbind'[n])
      BY <2>1
    <3> QED
      BY <2>1, <3>1, ResolvedNext
  <2> QED
    BY <2>1, <2>2, <2>3, <2>4 DEF ResolvedInv
<1> QED
  BY <1>1, <1>2, <1>3, <1>4 DEF Next, Ended

LEMMA ResolvedAlways == Spec => []ResolvedInv
<1>1. Init => ResolvedInv
  BY DEF Init, SemaInit, AstInit, ResolvedInv, Generated
<1> QED
  BY <1>1, ResolvedKept, MainHolds, SemaInvAlways, VisitInvAlways, CgInvAlways, MeaningAlways, WalkAlways, PTL DEF Spec

(* CodeGen resolves every identifier it comes to as Sema did, whatever the program: its    *)
(* scopes are pushed and filled at other steps, and skip dead code, but the exceptions are *)
(* the two orders of evaluation in which the two passes differ, and names of functions.    *)
THEOREM NamesResolveAlike == Spec => []ResolutionAgrees
<1>1. ResolvedInv => ResolutionAgrees
  BY DEF ResolvedInv, ResolutionAgrees, Resolved
<1> QED
  BY <1>1, ResolvedAlways, PTL

-----------------------------------------------------------------------------
(* What is evaluated as an lvalue: the target of an assignment, the operand of &, and [] itself; *)
(* the name of a call's function is not evaluated at all.                                        *)

RoleOK(f) ==
  /\ f.fn = "expr" => ~Addressed(f.node) /\ ~IsCallee(f.node)
  /\ f.fn = "lvalue" => Addressed(f.node) \/ Kind(f.node) = "INDEX"

LEMMA AppendLast ==
  ASSUME NEW s, NEW n \in Nat, DOMAIN s = 1..n, NEW e
  PROVE  Append(s, e)[n + 1] = e
<1>1. Len(s) = n
  OBVIOUS
<1> QED
  BY <1>1

\* Whatever the caller keeps, the callee is what was called.
LEMMA CalledFrame ==
  ASSUME StackOK, StackOK', stack # <<>>, NEW locals, NEW fn, NEW n, CallWith(locals, fn, n), Depth' = Depth + 1
  PROVE  stack'[Depth + 1] = CgFrame(fn, n)
<1> DEFINE L == Len(stack)
           resumed == [stack EXCEPT ![L].next = @ + 1, ![L].bb = locals]
           F == CgFrame(fn, n)
<1>1. L \in Nat /\ DOMAIN stack = 1..L /\ DOMAIN stack' = 1..(L + 1)
  <2>1. stack \in Seq(FrameRecords) /\ stack' \in Seq(FrameRecords') /\ Len(stack') = Len(stack) + 1
    BY DEF StackOK, Depth
  <2> QED
    BY <2>1
<1>2. DOMAIN resumed = 1..L
  BY <1>1
<1>3. stack' = IF IsNull(n) THEN resumed ELSE Append(resumed, F)
  BY DEF CallWith
<1> HIDE DEF resumed, F, L
<1>4. stack' = Append(resumed, F)
  <2>1. L + 1 \in DOMAIN stack' /\ L + 1 \notin DOMAIN resumed
    BY <1>1, <1>2
  <2> QED
    BY <1>3, <2>1
<1>6. Append(resumed, F)[L + 1] = F
  BY <1>1, <1>2, AppendLast
<1> QED
  BY <1>4, <1>6 DEF Depth, F, L

LEMMA KidRole ==
  ASSUME Whole, NEW n \in Nodes, NEW i \in 1..Arity(n), i = 1 => ~Addresses(n) /\ Kind(n) # "CALL"
  PROVE  ~Addressed(Kid(n, i)) /\ ~IsCallee(Kid(n, i))
<1> DEFINE c == Kid(n, i)
<1>0. AstTypeOK /\ TreeOK /\ i \in Nat /\ i >= 1
  BY DEF Whole
<1>1. c # 1 /\ Parent(c) = n
  BY <1>0, ParentFacts
<1>2. Arity(n) \in Nat
  BY <1>0, NodeFacts
<1>3. Kid(n, 1) = c => i = 1
  <2>1. 1 \in 1..Arity(n)
    BY <1>0, <1>2
  <2> QED
    BY <1>0, <2>1 DEF TreeOK, OneParent
<1> HIDE DEF c
<1>4. ~Addressed(c) /\ ~IsCallee(c)
  BY <1>1, <1>3 DEF Addressed, Addresses, IsCallee
<1> QED
  BY <1>4 DEF c

LEMMA KidFrame ==
  ASSUME Whole, NEW n \in Nodes, NEW i \in 1..Arity(n), i = 1 => ~Addresses(n) /\ Kind(n) # "CALL"
  PROVE  RoleOK(CgFrame("expr", Kid(n, i)))
BY KidRole DEF RoleOK, CgFrame

\* What each function calls, as expression or as lvalue.
LEMMA NewRole ==
  ASSUME CgFine, CgNext, ~CgStart, Depth' = Depth + 1
  PROVE  RoleOK(stack'[Depth + 1])
<1>0. /\ CgGood /\ Whole /\ StackOK /\ StackOK' /\ stack # <<>> /\ at \in Nodes /\ Depth \in Nat
      /\ DOMAIN stack = 1..Depth /\ DOMAIN stack' = 1..(Depth + 1) /\ AstTypeOK /\ Kind(at) \in KindsOf(CgTop.fn)
      /\ CgTop.fn \in FnNames
  <2>1. CgGood /\ Whole /\ StackOK /\ stack # <<>>
    BY DEF CgFine, CgGood
  <2>2. StackOK' /\ at \in Nodes /\ Depth \in Nat /\ Kind(at) \in KindsOf(CgTop.fn) /\ CgTop.fn \in FnNames
    BY <2>1, GraphKept, CgTopFacts, DepthFacts
  <2>3. stack \in Seq(FrameRecords) /\ stack' \in Seq(FrameRecords') /\ Len(stack') = Len(stack) + 1
    BY <2>1, <2>2 DEF StackOK, Depth
  <2> QED
    BY <2>1, <2>2, <2>3 DEF Depth, Whole
<1>1. ~CgReturn
  BY <1>0, ReturnMoves
<1>2. ~(CgBlockEnter \/ CgDefine)
  <2>1. CgBlockEnter \/ CgDefine => stack' = [stack EXCEPT ![Len(stack)].next = 2]
    BY DEF CgBlockEnter, CgDefine
  <2>2. Depth + 1 \notin 1..Depth /\ Depth + 1 \in 1..(Depth + 1)
    BY <1>0
  <2> QED
    BY <1>0, <2>1, <2>2
<1>3. ASSUME NEW locals, NEW fn \in {"stmt", "define", "global"}, NEW n, CallWith(locals, fn, n)
      PROVE  RoleOK(stack'[Depth + 1])
  <2>1. stack'[Depth + 1] = CgFrame(fn, n)
    BY <1>0, <1>3, CalledFrame
  <2> QED
    BY <2>1 DEF RoleOK, CgFrame
<1>4. ASSUME NEW locals, NEW i \in 1..Arity(at), i = 1 => ~Addresses(at) /\ Kind(at) # "CALL", CallWith(locals, "expr", Kid(at, i))
      PROVE  RoleOK(stack'[Depth + 1])
  <2>1. stack'[Depth + 1] = CgFrame("expr", Kid(at, i))
    BY <1>0, <1>4, CalledFrame
  <2>2. RoleOK(CgFrame("expr", Kid(at, i)))
    BY <1>0, <1>4, KidFrame
  <2> QED
    BY <2>1, <2>2
<1>5. CASE CgDeclaration \/ CgNextStatement \/ CgIfThen \/ CgIfElse \/ CgWhileBody \/ CgFor \/ CgForBody
  <2>1. \E locals : \E fn \in {"stmt", "define", "global"} : \E n : CallWith(locals, fn, n)
    BY <1>5 DEF CgDeclaration, CgNextStatement, CgIfThen, CgIfElse, CgWhileBody, CgFor, CgForBody, CallFn
  <2> QED
    BY <1>3, <2>1
<1>6. CASE CgVarDecl \/ CgWhile \/ CgForCond \/ CgForPost \/ CgLogicalTest
  <2>1. HasArity(Kind(at), Arity(at))
    BY <1>0, NodeFacts
  <2>2. \E locals : \E i \in 1..Arity(at) : (i = 1 => ~Addresses(at) /\ Kind(at) # "CALL") /\ CallWith(locals, "expr", Kid(at, i))
    <3>1. CgVarDecl => Arity(at) = 1 /\ ~Addresses(at) /\ Kind(at) # "CALL" /\ CallWith(bb, "expr", Kid(at, 1))
      BY <2>1 DEF CgVarDecl, Step, CallFn, CgKid, Addresses, HasArity
    <3>2. CgWhile => Arity(at) = 2 /\ ~Addresses(at) /\ Kind(at) # "CALL" /\ \E locals : CallWith(locals, "expr", Kid(at, 1))
      BY <2>1 DEF CgWhile, Step, CgKid, Addresses, HasArity
    <3>3. CgForCond => Arity(at) = 4 /\ CallWith(bb, "expr", Kid(at, 2))
      BY <2>1 DEF CgForCond, Step, CallFn, CgKid, HasArity
    <3>4. CgForPost => Arity(at) = 4 /\ CallWith(bb, "expr", Kid(at, 3))
      BY <2>1 DEF CgForPost, Step, CallFn, CgKid, HasArity
    <3>5. CgLogicalTest => Arity(at) = 2 /\ \E locals : CallWith(locals, "expr", Kid(at, 2))
      BY <2>1 DEF CgLogicalTest, Step, CgKid, HasArity
    <3>6. Arity(at) = 1 => 1 \in 1..Arity(at)
      OBVIOUS
    <3>7. Arity(at) = 2 => 1 \in 1..Arity(at) /\ 2 \in 1..Arity(at)
      OBVIOUS
    <3>8. Arity(at) = 4 => 2 \in 1..Arity(at) /\ 3 \in 1..Arity(at)
      OBVIOUS
    <3> QED
      BY <1>6, <3>1, <3>2, <3>3, <3>4, <3>5, <3>6, <3>7, <3>8
  <2> QED
    BY <1>4, <2>2
<1>7. CASE CgOperand
  <2> DEFINE c == Operands[CgTop.next]
  <2>1. CgTop.next \in DOMAIN Operands /\ CallWith(bb, c.fn, c.node)
    BY <1>7 DEF CgOperand, CallFn
  <2>2. \/ c = Call("lvalue", at) /\ CgTop.fn = "expr" /\ Kind(at) = "INDEX"
        \/ c = Call("lvalue", CgKid(1)) /\ CgTop.fn = "expr" /\ Addresses(at) /\ 1 \in 1..Arity(at)
        \/ \E i \in 1..Arity(at) : c = Call("expr", CgKid(i)) /\ (i = 1 => ~Addresses(at) /\ Kind(at) # "CALL")
    BY <1>0, <2>1, OperandShape
  <2>3. stack'[Depth + 1] = CgFrame(c.fn, c.node)
    BY <1>0, <2>1, CalledFrame
  <2> HIDE DEF c
  <2>4. CASE c = Call("lvalue", at) /\ Kind(at) = "INDEX"
    BY <2>3, <2>4 DEF RoleOK, CgFrame, Call
  <2>5. CASE c = Call("lvalue", CgKid(1)) /\ Addresses(at) /\ 1 \in 1..Arity(at)
    <3>1. Kid(at, 1) # 1 /\ Parent(Kid(at, 1)) = at
      BY <1>0, <2>5, ParentFacts DEF Whole
    <3>2. Addressed(Kid(at, 1))
      BY <2>5, <3>1 DEF Addressed, Addresses
    <3> QED
      BY <2>3, <2>5, <3>2 DEF RoleOK, CgFrame, Call, CgKid
  <2>6. CASE \E i \in 1..Arity(at) : c = Call("expr", CgKid(i)) /\ (i = 1 => ~Addresses(at) /\ Kind(at) # "CALL")
    <3>1. PICK i \in 1..Arity(at) : c = Call("expr", CgKid(i)) /\ (i = 1 => ~Addresses(at) /\ Kind(at) # "CALL")
      BY <2>6
    <3>2. RoleOK(CgFrame("expr", Kid(at, i)))
      BY <1>0, <3>1, KidFrame
    <3> QED
      BY <2>3, <3>1, <3>2 DEF Call, CgKid
  <2> QED
    BY <2>2, <2>4, <2>5, <2>6
<1>8. CgEnd \/ CgPrototype \/ CgDefineEnd \/ CgGlobal \/ CgVarInit \/ CgExprStmt \/ CgReturnStmt \/ CgBlockLeave
        \/ CgIfEnd \/ CgWhileEnd \/ CgForEnd => CgReturn
  BY DEF CgEnd, CgPrototype, CgDefineEnd, CgGlobal, CgVarInit, CgExprStmt, CgReturnStmt, CgBlockLeave,
         CgIfEnd, CgWhileEnd, CgForEnd
<1>9. Answers => CgReturn
  <2> USE DEF Compute, Pass, CgError, Give
  <2>1. CgLiteral \/ CgUnhandled \/ CgIdent \/ CgIndexAddress \/ CgDerefAddress \/ CgAssign => CgReturn
    BY DEF CgLiteral, CgUnhandled, CgIdent, CgIndexAddress, CgDerefAddress, CgAssign
  <2>2. CgArith \/ CgAddress \/ CgLoad \/ CgNegate \/ CgNot \/ CgLogicalMerge => CgReturn
    BY DEF CgArith, CgAddress, CgLoad, CgNegate, CgNot, CgLogicalMerge
  <2>3. CgCall => CgReturn
    BY DEF CgCall
  <2> QED
    BY <2>1, <2>2, <2>3 DEF Answers
<1> QED
  BY Zenon, <1>1, <1>2, <1>5, <1>6, <1>7, <1>8, <1>9 DEF CgNext, Answers

RolesInv == phase = "codegen" /\ stack # <<>> => \A i \in 1..Depth : RoleOK(stack[i])

LEMMA RolesKept ==
  MainInv /\ SemaInv /\ VisitInv /\ CgInv /\ RolesInv /\ [Next]_vars => RolesInv'
<1> SUFFICES ASSUME MainInv, SemaInv, VisitInv, CgInv, RolesInv, [Next]_vars PROVE RolesInv'
  OBVIOUS
<1>1. CASE SemaNext /\ UNCHANGED <<cgVars, mainVars>>
  <2>1. stack = <<>> /\ stack' = <<>>
    <3>1. CgInit
      BY <1>1, SemaPhases DEF CgInv, Idle
    <3> QED
      BY <1>1, <3>1 DEF CgInit, cgVars
  <2> QED
    BY <2>1 DEF RolesInv
<1>2. CASE CgNext
  <2>1. phase = "codegen" /\ UNCHANGED <<ast, bind>> /\ Whole
    BY <1>2, CgKeepsSema DEF SemaInv, VisitInv, Whole, semaVars
  <2>3. CASE stack = <<>>
    <3>1. stack' = <<CgFrame("module", 1)>>
      BY <1>2, <2>3, OnlyStarts DEF CgStart
    <3>2. Depth' = 1 /\ stack'[1] = CgFrame("module", 1)
      BY <3>1 DEF Depth
    <3>3. \A i \in 1..Depth' : RoleOK(stack[i])'
      BY <3>2 DEF RoleOK, CgFrame
    <3> QED
      BY <3>3 DEF RolesInv
  <2>4. CASE stack # <<>>
    <3>1. CgFine
      BY <2>1, <2>4 DEF CgFine, CgGood, CgInv, Whole
    <3>2. ~CgStart /\ CgGood
      BY <2>4, <3>1 DEF CgStart, CgFine
    <3>3. StackMoves /\ Depth \in Nat /\ Depth >= 1 /\ Depth' \in Nat /\ CgTop = stack[Depth]
      <4>1. StackMoves /\ StackOK'
        BY <1>2, <3>2, GraphKept DEF Moves
      <4>2. Depth' \in Nat
        BY <4>1 DEF StackOK, Depth
      <4> QED
        BY <3>1, <4>1, <4>2, FineStack
    <3>4. \A i \in 1..Depth : RoleOK(stack[i])
      BY <2>1, <2>4 DEF RolesInv
    <3>5. ASSUME NEW i \in 1..Depth' PROVE RoleOK(stack'[i])
      <4>1. CASE i < Depth
        <5>1. stack'[i] = stack[i] /\ i \in 1..Depth
          BY <3>3, <4>1 DEF StackMoves, Below, Depth
        <5> QED
          BY <3>4, <5>1
      <4>2. CASE i = Depth
        <5>1. stack'[i].fn = CgTop.fn /\ stack'[i].node = at
          BY <3>3, <4>2 DEF StackMoves
        <5>2. RoleOK(CgTop)
          BY <3>3, <3>4
        <5> QED
          BY <5>1, <5>2 DEF RoleOK, at
      <4>3. CASE i > Depth
        <5>1. i = Depth + 1 /\ Depth' = Depth + 1
          BY <3>3, <4>3 DEF StackMoves
        <5> QED
          BY <1>2, <3>1, <3>2, <5>1, NewRole
      <4> QED
        BY <3>3, <4>1, <4>2, <4>3
    <3>6. \A i \in 1..Depth' : RoleOK(stack[i])'
      BY <2>1, <3>5 DEF RoleOK, Addressed, IsCallee, Kind, Kid, Parent, Arity
    <3> QED
      BY <3>6 DEF RolesInv
  <2> QED
    BY <2>3, <2>4
<1>3. CASE Main
  <2>1. phase' \in {"done", "write_ir", "write_object"}
    BY <1>3 DEF Main, MainNoParse, MainRejected, MainVerify, MainWriteIr, MainWriteObject, Exit
  <2> QED
    BY <2>1 DEF RolesInv
<1>4. CASE UNCHANGED vars
  <2>1. UNCHANGED <<ast, phase, stack>>
    BY <1>4 DEF vars, cgVars, kept, semaVars
  <2> QED
    BY <2>1 DEF RolesInv, Depth, RoleOK, Addressed, IsCallee, Kind, Kid, Parent, Arity
<1> QED
  BY <1>1, <1>2, <1>3, <1>4 DEF Next, Ended

LEMMA RolesAlways == Spec => []RolesInv
<1>1. Init => RolesInv
  BY DEF Init, SemaInit, AstInit, RolesInv
<1> QED
  BY <1>1, RolesKept, MainHolds, SemaInvAlways, VisitInvAlways, CgInvAlways, PTL DEF Spec

-----------------------------------------------------------------------------
(* Which names of functions CodeGen finds a variable for. *)

LEMMA ForKids ==
  ASSUME Whole, NEW f \in Nodes, Kind(f) = "FOR"
  PROVE  Arity(f) = 4 /\ VisitCount(f) = 4 /\ (\A k : VisitKid(f, k) = Kid(f, k)) /\ Kind(Kid(f, 3)) \in ExprKinds \cup Null
<1>0. AstTypeOK /\ phase \in {"sema", "codegen"}
  BY DEF Whole
<1>1. Arity(f) = 4
  BY <1>0, NodeFacts DEF HasArity
<1>2. \A n \in Nodes : Kind(n) \notin HoleKinds
  BY <1>0 DEF AstTypeOK, Holes
<1>3. Kind(Kid(f, 3)) \in Slot("FOR", 3) \ HoleKinds
  BY <1>0, <1>1, <1>2 DEF AstTypeOK
<1>4. Slot("FOR", 3) \ HoleKinds \subseteq ExprKinds \cup Null
  BY DEF Slot, IsStmtSlot, MayBeNull, StmtSlot, ExprSlot, Null, ExprKinds, Literals, HoleKinds
<1>5. VisitCount(f) = Arity(f) /\ \A k : VisitKid(f, k) = Kid(f, k)
  BY VisitAsKid
<1> QED
  BY <1>1, <1>3, <1>4, <1>5

\* The statements being executed are none of them expressions.
LEMMA FramesAreStatements ==
  ASSUME Whole, NEW fs, CallStackOK(fs), NEW e, NEW l, Evaluates(fs, e, l), NEW i \in 1..Len(fs)
  PROVE  Kind(fs[i].node) \notin ExprKinds \cup Null /\ Under(e, fs[i].node)
<1> DEFINE L == Len(fs)
<1>1. L \in Nat /\ L >= 1 /\ fs[L].node \in Nodes /\ fs[i].node \in Nodes
  BY StackFacts
<1>2. OnPath(fs, L, fs[i].node)
  BY DEF OnPath
<1>3. Under(fs[L].node, fs[i].node)
  BY <1>1, <1>2, PathIsStack
<1>4. Kind(fs[L].node) \notin ExprKinds \cup Null
  BY DEF Evaluates, StmtKinds, ExprKinds, Literals, Null
<1>5. Kind(fs[i].node) \notin ExprKinds \cup Null
  BY <1>1, <1>3, <1>4, ExpressionsDeclareNothing
<1>6. Under(e, fs[i].node)
  BY <1>2, EvaluatedIn
<1> QED
  BY <1>5, <1>6

\* What is around the name and is neither an expression nor a body is one of the statements.
LEMMA AroundIsFrame ==
  ASSUME Whole, NEW fs, CallStackOK(fs), NEW e, NEW l, Evaluates(fs, e, l),
         NEW m \in Nodes, Under(e, m), Kind(m) \in {"VAR_DECL", "FOR"}
  PROVE  \E i \in 1..Len(fs) : fs[i].node = m
<1> DEFINE c == VisitKid(fs[Len(fs)].node, l)
<1>0. AstTypeOK /\ TreeOK /\ phase \in {"sema", "codegen"}
  BY DEF Whole
<1>1. e \in Nodes /\ Kind(c) \in ExprKinds /\ Under(e, c)
  BY DEF Evaluates
<1>2. c \in Nodes
  BY <1>0, <1>1, UnderFacts
<1>3. ~Under(m, c)
  BY <1>1, <1>2, ExpressionsDeclareNothing DEF ExprKinds, Literals, Null
<1>4. OnPath(fs, Len(fs), m)
  BY <1>3, EvaluatedIn
<1>5. CASE \E j \in 1..(Len(fs) - 1) : Kind(fs[j].node) = "FUNC_DECL" /\ m = Kid(fs[j].node, 1)
  <2>1. PICK j \in 1..(Len(fs) - 1) : Kind(fs[j].node) = "FUNC_DECL" /\ m = Kid(fs[j].node, 1)
    BY <1>5
  <2>2. Len(fs) \in Nat /\ fs[j].node \in Nodes
    BY StackFacts
  <2>3. Arity(fs[j].node) = 1
    BY <1>0, <2>1, <2>2, NodeFacts DEF HasArity
  <2>4. Kind(m) \in {"BLOCK", "NULL"}
    BY <1>0, <2>1, <2>2, <2>3, KindsOfKids
  <2> QED
    BY <2>4
<1> QED
  BY <1>4, <1>5 DEF OnPath

\* A variable is met when its own initialiser is evaluated.
LEMMA OwnIsMet ==
  ASSUME Whole, NEW fs, CallStackOK(fs), NEW e, NEW l, Evaluates(fs, e, l),
         NEW d \in Nodes, InOwnInitialiser(e, d)
  PROVE  Site(d, 0) \in Met(fs)
<1> DEFINE L == Len(fs)
<1>0. AstTypeOK /\ TreeOK /\ phase \in {"sema", "codegen"} /\ Kind(d) = "VAR_DECL" /\ Under(e, d)
  BY DEF Whole, InOwnInitialiser
<1>1. PICK i \in 1..L : fs[i].node = d
  BY <1>0, AroundIsFrame
<1>2. L \in Nat /\ L >= 1
  BY StackFacts
<1>3. Arity(d) = 1 /\ VisitCount(d) = 1 /\ \A k : VisitKid(d, k) = Kid(d, k)
  <2>1. Arity(d) = 1
    BY <1>0, NodeFacts DEF HasArity
  <2> QED
    BY <1>0, <2>1, VisitAsKid
<1>4. i = L
  <2> SUFFICES ASSUME i # L PROVE FALSE
    OBVIOUS
  <2> DEFINE j == i + 1
  <2>1. j \in 2..L /\ j \in 1..L /\ j - 1 = i
    BY <1>2
  <2> HIDE DEF j
  <2>2. fs[j].node = VisitKid(d, fs[i].next - 1) /\ fs[i].next - 1 \in 1..VisitCount(d)
    BY <1>1, <2>1, StackFacts
  <2>3. \E k \in 1..Arity(d) : fs[j].node = Kid(d, k)
    BY <1>3, <2>2
  <2>4. Kind(fs[j].node) \in ExprKinds \cup Null
    BY <1>0, <2>3, KindsOfKids
  <2> QED
    BY <2>1, <2>4, FramesAreStatements
<1>5. fs[L].next = 2
  <2>1. l \in 1..1 /\ l = fs[L].next - 1 /\ fs[L].next \in Nat
    BY <1>0, <1>1, <1>2, <1>3, <1>4, StackFacts DEF Evaluates
  <2> QED
    BY <2>1
<1>6. Site(d, 0) \in Sites /\ Site(d, 0).decl = d
  BY <1>0 DEF Sites, Site
<1> QED
  BY <1>0, <1>1, <1>4, <1>5, <1>6 DEF Met

\* What the body of a loop declares is met when the loop's post expression is evaluated.
LEMMA PostIsMet ==
  ASSUME Whole, NEW fs, CallStackOK(fs), NEW e, NEW l, Evaluates(fs, e, l),
         Kind(fs[Len(fs)].node) = "FOR" /\ l = 3 => fs[Len(fs)].next = 5,
         NEW d \in Nodes, Kind(d) = "VAR_DECL", InPostBeforeBody(e, d)
  PROVE  Site(d, 0) \in Met(fs)
<1> DEFINE L == Len(fs)
<1>0. AstTypeOK /\ TreeOK /\ phase \in {"sema", "codegen"}
  BY DEF Whole
<1>1. L \in Nat /\ L >= 1 /\ DOMAIN fs = 1..L /\ \A i \in 1..L : fs[i].node \in Nodes /\ fs[i].next \in Nat
  BY StackFacts
<1>2. PICK f \in Nodes : Kind(f) = "FOR" /\ Under(e, Kid(f, 3)) /\ Under(d, Kid(f, 4))
  BY DEF InPostBeforeBody
<1>3. Arity(f) = 4 /\ VisitCount(f) = 4 /\ (\A k : VisitKid(f, k) = Kid(f, k)) /\ Kind(Kid(f, 3)) \in ExprKinds \cup Null
  BY <1>2, ForKids
<1>4. /\ 3 \in 1..Arity(f) /\ 4 \in 1..Arity(f) /\ e \in Nodes
  BY <1>3 DEF Evaluates
<1>5. \A k \in 1..4 : Kid(f, k) \in Nodes /\ Kid(f, k) # 1 /\ Parent(Kid(f, k)) = f
  BY <1>0, <1>3, ParentFacts
<1>6. Under(Kid(f, 3), f)
  BY <1>0, <1>4, UnderKid, UnderSelf
<1>7. Under(e, f)
  BY <1>0, <1>2, <1>4, <1>6, UnderTransitive
<1>8. PICK i \in 1..L : fs[i].node = f
  BY <1>2, <1>7, AroundIsFrame
<1>9. ASSUME NEW k \in 1..4, Under(e, Kid(f, k)) PROVE k = 3
  <2> SUFFICES ASSUME k # 3 PROVE FALSE
    OBVIOUS
  <2>1. Kid(f, k) # Kid(f, 3)
    BY <1>0, <1>3, <1>4, <1>9 DEF TreeOK, OneParent
  <2>2. Siblings(Kid(f, 3), Kid(f, k))
    BY <1>4, <1>3, <1>5, <2>1 DEF Siblings
  <2> QED
    BY <1>2, <1>4, <1>9, <2>2, Apart
<1>10. i = L
  <2> SUFFICES ASSUME i # L PROVE FALSE
    OBVIOUS
  <2> DEFINE j == i + 1
  <2>1. j \in 2..L /\ j \in 1..L /\ j - 1 = i
    BY <1>1
  <2> HIDE DEF j
  <2>2. fs[j].node = VisitKid(f, fs[i].next - 1) /\ fs[i].next - 1 \in 1..VisitCount(f)
    BY <1>8, <2>1, StackFacts
  <2>3. PICK k \in 1..4 : fs[j].node = Kid(f, k)
    BY <1>3, <2>2
  <2>4. Kind(fs[j].node) \notin ExprKinds \cup Null /\ Under(e, fs[j].node)
    BY <2>1, FramesAreStatements
  <2>5. k = 3
    BY <1>9, <2>3, <2>4
  <2> QED
    BY <1>3, <2>3, <2>4, <2>5
<1>11. l = 3
  <2>1. l \in 1..4 /\ Under(e, Kid(f, l))
    BY <1>3, <1>8, <1>10 DEF Evaluates
  <2> QED
    BY <1>9, <2>1
<1>12. fs[L].next = 5
  BY <1>2, <1>8, <1>10, <1>11
<1>13. Finished(fs, d)
  <2>1. Past(fs, L) = 5
    BY <1>1, <1>12 DEF Past
  <2>2. 4 \in 1..VisitCount(fs[L].node) /\ 4 < Past(fs, L) /\ Under(d, VisitKid(fs[L].node, 4)) /\ L \in 1..L
    BY <1>1, <1>2, <1>3, <1>8, <1>10, <2>1
  <2> QED
    BY <2>2 DEF Finished
<1>14. Site(d, 0) \in Sites /\ Site(d, 0).decl = d /\ ~IsFunction(Site(d, 0))
  BY DEF Sites, Site, IsFunction
<1> QED
  BY <1>13, <1>14 DEF Met, Seen

\* The scope of what a name is in the initialiser of, or before the body of a loop, is open.
LEMMA PostOwner ==
  ASSUME Whole, NEW e \in Nodes, NEW d \in Nodes, Kind(d) = "VAR_DECL", InPostBeforeBody(e, d)
  PROVE  Under(e, Owner[d])
<1> DEFINE o == Owner[d]
<1>0. AstTypeOK /\ TreeOK /\ phase \in {"sema", "codegen"}
  BY DEF Whole
<1>1. PICK f \in Nodes : /\ Kind(f) = "FOR" /\ Under(e, Kid(f, 3)) /\ Under(d, Kid(f, 4))
                         /\ \A m \in Nodes : Under(d, m) /\ Under(m, Kid(f, 4)) => Kind(m) \notin {"BLOCK", "FOR"}
  BY DEF InPostBeforeBody
<1> DEFINE b == Kid(f, 4)
<1>2. Arity(f) = 4 /\ 3 \in 1..Arity(f) /\ 4 \in 1..Arity(f)
  BY <1>1, ForKids
<1>3. b \in Nodes /\ Kid(f, 3) \in Nodes
  BY <1>0, <1>2, ParentFacts
<1>4. Under(b, f) /\ Under(Kid(f, 3), f)
  BY <1>0, <1>2, UnderKid, UnderSelf
<1>5. Under(d, f) /\ Under(e, f)
  BY <1>0, <1>1, <1>4, UnderTransitive
<1>6. d # 1 /\ d # f /\ OpensScope(f)
  BY <1>0, <1>1, KindsOfKids DEF OpensScope
<1>7. o \in Nodes /\ Under(d, o) /\ OpensScope(o) /\ o < d
  BY <1>6, OwnerFacts
<1>8. Under(o, f)
  BY <1>5, <1>6, OwnerInside
<1> HIDE DEF o
<1>9. ~Under(o, b)
  <2> SUFFICES ASSUME Under(o, b) PROVE FALSE
    OBVIOUS
  <2>1. Kind(o) \in {"PROGRAM", "FUNC_DECL"}
    BY <1>1, <1>7 DEF OpensScope
  <2>2. f # 1 /\ b # 1 /\ Kind(b) # "FUNC_DECL"
    <3>1. Kind(b) # "PROGRAM" /\ Kind(b) # "FUNC_DECL"
      BY <1>0, <1>1, <1>2, KindsOfKids
    <3> QED
      BY <1>0, <1>1, <3>1, KindsOfKids
  <2>3. CASE Kind(o) = "FUNC_DECL"
    BY <1>3, <1>7, <2>2, <2>3, FunctionAbove
  <2>4. CASE Kind(o) = "PROGRAM"
    <3>1. o # 1 => Kind(o) # "PROGRAM"
      <4> SUFFICES ASSUME o # 1 PROVE Kind(o) # "PROGRAM"
        OBVIOUS
      <4>1. PICK k \in 1..Arity(Parent(o)) : Kid(Parent(o), k) = o
        BY <1>0, <1>7, ParentFacts
      <4>2. Parent(o) \in Nodes
        BY <1>0, <1>7, ParentFacts
      <4> QED
        BY <1>0, <4>1, <4>2, KindsOfKids
    <3>2. b <= 1 /\ b \in Nat /\ b >= 1
      BY <1>0, <1>3, <1>7, <2>4, <3>1, UnderFacts, ParentFacts
    <3> QED
      BY <2>2, <3>2
  <2> QED
    BY <2>1, <2>3, <2>4
<1>10. Under(b, o)
  BY <1>1, <1>7, <1>9, AncestorsOrdered
<1>11. Under(f, o)
  <2>1. b # o
    BY <1>0, <1>3, <1>9, UnderSelf
  <2> QED
    BY <1>0, <1>2, <1>10, <2>1, UnderKid
<1> QED
  BY <1>0, <1>5, <1>11, UnderTransitive DEF o

\* A variable that hides a function from CodeGen is met, and its scope is open.
LEMMA HiddenIsMet ==
  ASSUME Whole, NEW fs, CallStackOK(fs), NEW e, NEW l, Evaluates(fs, e, l),
         Kind(fs[Len(fs)].node) = "FOR" /\ l = 3 => fs[Len(fs)].next = 5,
         NEW d \in Nodes, Kind(d) = "VAR_DECL", InOwnInitialiser(e, d) \/ InPostBeforeBody(e, d)
  PROVE  Site(d, 0) \in Met(fs) /\ IsOpen(fs, SiteScope(Site(d, 0)))
<1>0. AstTypeOK /\ TreeOK /\ phase \in {"sema", "codegen"} /\ e \in Nodes
  BY DEF Whole, Evaluates
<1>1. Site(d, 0) \in Met(fs)
  BY OwnIsMet, PostIsMet
<1>2. SiteScope(Site(d, 0)) = Owner[d]
  BY DEF SiteScope, IsParam, Site
<1>3. d # 1
  BY <1>0, KindsOfKids
<1>4. Owner[d] \in Nodes /\ Under(d, Owner[d]) /\ OpensScope(Owner[d])
  BY <1>3, OwnerFacts
<1>5. Under(e, Owner[d])
  <2>1. CASE InOwnInitialiser(e, d)
    BY <1>0, <1>4, <2>1, UnderTransitive DEF InOwnInitialiser
  <2> QED
    BY <1>0, <2>1, PostOwner
<1>6. IsOpen(fs, Owner[d])
  BY <1>4, <1>5, ScopesAround DEF IsOpen
<1> QED
  BY <1>1, <1>2, <1>6

\* CodeGen finds no variable for a name exactly if it means a function that none hides.
LEMMA HidingDecides ==
  ASSUME Whole, NEW fs, CallStackOK(fs), NEW e, NEW l, Evaluates(fs, e, l),
         Kind(fs[Len(fs)].node) = "FOR" /\ l = 3 => fs[Len(fs)].next = 5,
         Len(env) \in Nat, DOMAIN env = 1..Len(env), NEW own, CgOwns(own, fs, env),
         NamesAccepted, Declared(e), NEW var, var = CgLookup(ast[e].name)
  PROVE  var = NoVar <=> IsFunction(Meaning(e)) /\ ~Hidden(e)
<1> DEFINE x == ast[e].name
           M == Meaning(e)
<1>0. AstTypeOK /\ TreeOK /\ Nodes \in SUBSET Nat /\ 0 \notin Nodes /\ 1 \in Nodes /\ e \in Nodes
  BY ParentFacts DEF Whole, Evaluates
<1>1. /\ M \in Candidates(e)
      /\ \A t \in Candidates(e) \ {M} :
           \/ SiteScope(M) # SiteScope(t) /\ Under(SiteScope(M), SiteScope(t))
           \/ SiteScope(M) = SiteScope(t) /\ Earlier(M, t)
  BY <1>0, MeaningIsBest
<1>2. M \in Sites /\ SiteName(M) = x /\ Visible(M, e)
  BY <1>1 DEF Candidates
<1>3. var = NoVar => IsFunction(M)
  BY LookupAgrees
<1> HIDE DEF M
\* A variable that hides the name is looked up.
<1>4. ASSUME NEW d \in Nodes, Kind(d) = "VAR_DECL", ast[d].name = x, InOwnInitialiser(e, d) \/ InPostBeforeBody(e, d)
      PROVE  \E i \in 1..Len(env) : x \in DOMAIN env[i]
  <2> DEFINE s == Site(d, 0)
  <2>1. s \in Met(fs) /\ IsOpen(fs, SiteScope(s))
    BY <1>4, HiddenIsMet
  <2>2. SiteName(s) = x
    BY <1>4 DEF SiteName, IsParam, Site
  <2> HIDE DEF s
  <2>3. PICK i \in OpenAt(fs) : fs[i].node = SiteScope(s)
    BY <2>1 DEF IsOpen
  <2>4. PICK j \in 1..Len(env) : own[j] = i
    BY <2>3 DEF CgOwns, Pushed
  <2>5. CgHolds(env[j], SiteScope(s), Met(fs))
    BY <2>3, <2>4 DEF CgOwns, Pushed
  <2> QED
    BY <2>1, <2>2, <2>4, <2>5 DEF CgHolds
<1>5. CASE var = NoVar /\ \A i \in 1..Len(env) : x \notin DOMAIN env[i]
  <2>1. ~Hidden(e)
    BY <1>4, <1>5 DEF Hidden
  <2> QED
    BY <1>3, <1>5, <2>1 DEF M
<1>6. CASE \E i \in 1..Len(env) : /\ x \in DOMAIN env[i] /\ var = env[i][x]
                                  /\ \A j \in 1..Len(env) : j > i => x \notin DOMAIN env[j]
  <2>1. PICK i \in 1..Len(env) : x \in DOMAIN env[i] /\ var = env[i][x]
    BY <1>6
  <2>2. own[i] \in OpenAt(fs) /\ CgHolds(env[i], fs[own[i]].node, Met(fs))
    BY DEF CgOwns, Pushed
  <2>3. PICK s \in Met(fs) : SiteScope(s) = fs[own[i]].node /\ SiteName(s) = x /\ var.decl = s.decl
    BY <2>1, <2>2 DEF CgHolds
  <2>4. /\ s \in Sites /\ ~IsFunction(s) /\ s.decl \in Nodes /\ SiteScope(s) \in Nodes
        /\ Kind(s.decl) \in {"VAR_DECL", "FUNC_DECL"} /\ (IsParam(s) => Kind(s.decl) = "FUNC_DECL")
    BY MetFacts, SiteFacts
  <2>5. Visible(s, e) \/ InOwnInitialiser(e, s.decl) \/ InPostBeforeBody(e, s.decl)
    BY <2>2, <2>3, MetIsVisible DEF IsOpen
  <2>6. var # NoVar
    BY <1>0, <2>3, <2>4 DEF NoVar, Var
  <2>7. ASSUME IsFunction(M), Visible(s, e) PROVE FALSE
    <3>1. s \in Candidates(e) /\ s # M
      BY <2>3, <2>4, <2>7 DEF Candidates
    <3>2. SiteScope(M) # SiteScope(s)
      BY <1>2, <2>3, <2>4, <3>1 DEF NamesAccepted
    <3>3. Under(SiteScope(M), SiteScope(s))
      BY <1>1, <3>1, <3>2
    <3>4. SiteScope(M) = 1
      BY <1>2, <2>7, SiteFacts
    <3>5. SiteScope(s) <= 1 /\ SiteScope(s) \in Nat /\ SiteScope(s) # 0
      BY <1>0, <2>4, <3>3, <3>4, UnderFacts
    <3> QED
      BY <3>2, <3>4, <3>5
  <2>8. ASSUME InOwnInitialiser(e, s.decl) \/ InPostBeforeBody(e, s.decl) PROVE Hidden(e)
    <3>1. Kind(s.decl) = "VAR_DECL"
      <4> SUFFICES ASSUME Kind(s.decl) = "FUNC_DECL" PROVE FALSE
        BY <2>4
      <4>1. PICK f \in Nodes : Kind(f) = "FOR" /\ Under(s.decl, Kid(f, 4))
        BY <2>8 DEF InOwnInitialiser, InPostBeforeBody
      <4>2. 4 \in 1..Arity(f) /\ phase \in {"sema", "codegen"}
        BY <4>1, ForKids DEF Whole
      <4>3. Kid(f, 4) # 1 /\ Kind(Kid(f, 4)) # "FUNC_DECL"
        BY <1>0, <4>1, <4>2, KindsOfKids, ParentFacts
      <4> QED
        BY <2>4, <4>1, <4>3, FunctionAbove
    <3>2. ast[s.decl].name = x
      BY <2>3, <2>4, <3>1 DEF SiteName
    <3> QED
      BY <2>4, <2>8, <3>1, <3>2 DEF Hidden
  <2> QED
    BY <2>5, <2>6, <2>7, <2>8 DEF M
<1> QED
  BY <1>5, <1>6, CgLookupInner

-----------------------------------------------------------------------------
(* The errors CodeGen reports of an accepted program. *)

\* What CodeGen reports when it comes to it.
CgReported(n) ==
  \/ Kind(n) = "IDENT" /\ bind[n].kind = "FUNC" /\ ~Hidden(n)
  \/ Addressed(n) /\ ~HasAddress(n)

LEMMA IdentReports ==
  ASSUME CgFine, NEW fs, Mirrors(fs, stack), Holding(fs, env), Accepted, AllRight(rtype, bind), CgIdent
  PROVE  /\ Kind(at) = "IDENT" /\ \E v : v # "none" /\ val' = [val EXCEPT ![at] = v]
         /\ cg_errors' = IF CgReported(at) THEN cg_errors + 1 ELSE cg_errors
<1> DEFINE var == CgLookup(ast[at].name)
<1>1. at \in Nodes /\ Kind(at) = "IDENT"
  BY FineStack DEF CgIdent, Evaluated
<1>2. CallStackOK(fs) /\ Len(env) \in Nat /\ DOMAIN env = 1..Len(env)
  BY <1>1, IdentEvaluates
<1>3. PICK l : Evaluates(fs, at, l) /\ (Kind(fs[Len(fs)].node) = "FOR" /\ l = 3 => fs[Len(fs)].next = 5)
  BY <1>1, IdentEvaluates
<1>4. PICK own : CgOwns(own, fs, env)
  BY <1>1, IdentEvaluates
<1>5. NodeRight(at, rtype, bind)
  BY <1>1 DEF AllRight
<1>6. Declared(at) /\ bind[at] = SymbolOf(Meaning(at))
  BY <1>1, <1>5 DEF NodeRight
<1> HIDE DEF var
<1>7. var = NoVar <=> IsFunction(Meaning(at)) /\ ~Hidden(at)
  BY <1>2, <1>3, <1>4, <1>6, HidingDecides DEF CgFine, Accepted, var
<1>8. IsFunction(Meaning(at)) <=> bind[at].kind = "FUNC"
  BY <1>6 DEF SymbolOf, FuncSymbol, VarSymbol, Symbol
<1>9. CgReported(at) <=> var = NoVar
  BY <1>1, <1>7, <1>8 DEF CgReported, HasAddress
<1>10. PICK fn \in {"expr", "lvalue"} :
         IF var = NoVar THEN CgError(IF fn = "expr" THEN "i32" ELSE "NULL")
         ELSE Give(IF fn = "expr" THEN LlvmType(var.type) ELSE "ptr", {}) /\ UNCHANGED cg_errors
  BY DEF CgIdent, var
<1>11. CASE var = NoVar
  <2>1. CgError(IF fn = "expr" THEN "i32" ELSE "NULL")
    BY <1>10, <1>11
  <2>2. val' = [val EXCEPT ![at] = IF fn = "expr" THEN "i32" ELSE "NULL"] /\ cg_errors' = cg_errors + 1
    BY <2>1 DEF CgError, Give
  <2>3. (IF fn = "expr" THEN "i32" ELSE "NULL") # "none"
    OBVIOUS
  <2> QED
    BY <1>1, <1>9, <1>11, <2>2, <2>3
<1>12. CASE var # NoVar
  <2>1. val' = [val EXCEPT ![at] = IF fn = "expr" THEN LlvmType(var.type) ELSE "ptr"] /\ cg_errors' = cg_errors
    BY <1>10, <1>12 DEF Give
  <2>2. (IF fn = "expr" THEN LlvmType(var.type) ELSE "ptr") # "none"
    BY DEF LlvmType
  <2> QED
    BY <1>1, <1>9, <1>12, <2>1, <2>2
<1> QED
  BY <1>11, <1>12

\* Sema accepts no member access, so that the default case is that of cg_lvalue.
LEMMA LvalueReports ==
  ASSUME CgFine, Accepted, RoleOK(CgTop), CgUnhandled
  PROVE  CgReported(at) /\ val' = [val EXCEPT ![at] = "NULL"] /\ cg_errors' = cg_errors + 1
<1>1. at \in Nodes /\ at = CgTop.node
  BY FineStack DEF at
<1>2. PICK fn \in {"expr", "lvalue"} :
        CgTop.fn = fn /\ Unhandled(fn) /\ CgError(IF fn = "expr" THEN "i32" ELSE "NULL")
  BY DEF CgUnhandled, Evaluated
<1>3. CASE fn = "expr"
  <2>1. Kind(at) = "MEMBER" /\ ~IsCallee(at)
    BY <1>1, <1>2, <1>3 DEF Unhandled, RoleOK
  <2>2. TypeOf[at] # none
    BY <1>1, <2>1 DEF Accepted, NodeAccepted, ExprKinds
  <2>3. TypeOf[at] = TypeFrom(at, KidTypesOf(TypeOf, at))
    BY <1>1, TypeOfUnfolds DEF CgFine, Whole
  <2> QED
    BY <2>1, <2>2, <2>3 DEF TypeFrom
<1>4. CASE fn = "lvalue"
  <2>1. Kind(at) \notin {"IDENT", "INDEX"} /\ ~(Kind(at) = "UNARY" /\ ast[at].op = "STAR")
    BY <1>2, <1>4 DEF Unhandled
  <2>2. Addressed(at) /\ ~HasAddress(at)
    BY <1>1, <1>2, <1>4, <2>1 DEF RoleOK, HasAddress
  <2>3. CgError("NULL")
    BY <1>2, <1>4
  <2> QED
    BY <2>2, <2>3 DEF CgReported, CgError, Give
<1> QED
  BY <1>3, <1>4

LEMMA OthersReportNothing ==
  ASSUME CgFine, RoleOK(CgTop), CallsAgree, Answers, ~CgIdent, ~CgUnhandled
  PROVE  ~CgReported(at) /\ UNCHANGED cg_errors /\ \E v : val' = [val EXCEPT ![at] = v]
<1>1. at = CgTop.node
  BY DEF at
<1>2. CASE CgIndexAddress \/ CgDerefAddress
  <2>1. Kind(at) = "INDEX" \/ (Kind(at) = "UNARY" /\ ast[at].op = "STAR")
    BY <1>2 DEF CgIndexAddress, CgDerefAddress, Evaluated, EvaluatedOp
  <2>2. UNCHANGED cg_errors /\ \E v : val' = [val EXCEPT ![at] = v]
    BY <1>2 DEF CgIndexAddress, CgDerefAddress, Compute, Pass, Give
  <2> QED
    BY <2>1, <2>2 DEF CgReported, HasAddress
<1>3. ASSUME CgTop.fn = "expr", Kind(at) # "IDENT" PROVE ~CgReported(at)
  BY <1>1, <1>3 DEF CgReported, RoleOK
<1>4. CASE CgLiteral \/ CgAssign \/ CgArith \/ CgAddress
  <2> USE DEF Evaluated, EvaluatedOp, Compute, Pass, Give
  <2>1. CgTop.fn = "expr" /\ Kind(at) # "IDENT"
    BY <1>4 DEF CgLiteral, CgAssign, CgArith, CgAddress, Literals
  <2>2. UNCHANGED cg_errors /\ \E v : val' = [val EXCEPT ![at] = v]
    BY <1>4 DEF CgLiteral, CgAssign, CgArith, CgAddress
  <2> QED
    BY <1>3, <2>1, <2>2
<1>5. CASE CgLoad \/ CgNegate \/ CgNot
  <2> USE DEF Evaluated, EvaluatedOp, Compute, Pass, Give
  <2>1. CgTop.fn = "expr" /\ Kind(at) # "IDENT"
    BY <1>5 DEF CgLoad, CgNegate, CgNot
  <2>2. UNCHANGED cg_errors /\ \E v : val' = [val EXCEPT ![at] = v]
    BY <1>5 DEF CgLoad, CgNegate, CgNot
  <2> QED
    BY <1>3, <2>1, <2>2
<1>6. CASE CgLogicalMerge
  <2>1. CgTop.fn = "expr" /\ Kind(at) # "IDENT"
    BY <1>6 DEF CgLogicalMerge, Step
  <2>2. UNCHANGED cg_errors /\ \E v : val' = [val EXCEPT ![at] = v]
    BY <1>6 DEF CgLogicalMerge, Give
  <2> QED
    BY <1>3, <2>1, <2>2
<1>7. CASE CgCall
  <2>1. Evaluated("expr", {"CALL"}) /\ phase = "codegen" /\ stack # <<>>
    BY <1>7 DEF CgCall, Evaluated
  <2>2. ast[CgKid(1)].name \in DOMAIN funcs
    BY <2>1 DEF CallsAgree
  <2>3. \E v, kinds : Compute(v, kinds)
    BY <1>7, <2>2 DEF CgCall
  <2>4. UNCHANGED cg_errors /\ \E v : val' = [val EXCEPT ![at] = v]
    BY <2>3 DEF Compute, Give
  <2> QED
    BY <1>3, <2>1, <2>4 DEF Evaluated
<1> QED
  BY Zenon, <1>2, <1>4, <1>5, <1>6, <1>7 DEF Answers

\* A step but the one on a global variable reports what is CgReported, and nothing else.
LEMMA StepReports ==
  ASSUME CgFine, NEW fs, Mirrors(fs, stack), Holding(fs, env), Accepted, AllRight(rtype, bind),
         RoleOK(CgTop), CallsAgree, CgNext, ~CgStart, ~CgGlobal
  PROVE  /\ cg_errors \in Nat /\ cg_errors' \in Nat /\ cg_errors' >= cg_errors
         /\ \A n \in Nodes : CgReported(n) => val'[n] = val[n] \/ (val'[n] # "none" /\ cg_errors' > 0)
         /\ cg_errors' # cg_errors => \E n \in Nodes : CgReported(n) /\ val'[n] # "none"
<1>1. cg_errors \in Nat /\ DOMAIN val = Nodes /\ at \in Nodes
  BY FineStack DEF CgFine, CgGood, DataOK
<1>2. CASE ~Answers
  <2>1. UNCHANGED <<val, cg_errors>>
    BY <1>2, QuietSteps
  <2> QED
    BY <1>1, <2>1
<1>3. ASSUME CgReported(at), NEW v, v # "none", val' = [val EXCEPT ![at] = v], cg_errors' = cg_errors + 1
      PROVE  /\ cg_errors' \in Nat /\ cg_errors' >= cg_errors
             /\ \A n \in Nodes : CgReported(n) => val'[n] = val[n] \/ (val'[n] # "none" /\ cg_errors' > 0)
             /\ \E n \in Nodes : CgReported(n) /\ val'[n] # "none"
  <2>1. cg_errors' \in Nat /\ cg_errors' >= cg_errors /\ cg_errors' > 0
    BY <1>1, <1>3
  <2>2. val'[at] # "none" /\ \A n \in Nodes : n # at => val'[n] = val[n]
    BY <1>1, <1>3
  <2> QED
    BY <1>1, <1>3, <2>1, <2>2
<1>4. ASSUME ~CgReported(at), NEW v, val' = [val EXCEPT ![at] = v], cg_errors' = cg_errors
      PROVE  \A n \in Nodes : CgReported(n) => val'[n] = val[n]
  BY <1>1, <1>4
<1>5. CASE CgIdent
  <2>1. PICK v : v # "none" /\ val' = [val EXCEPT ![at] = v]
    BY <1>5, IdentReports
  <2>2. cg_errors' = IF CgReported(at) THEN cg_errors + 1 ELSE cg_errors
    BY <1>5, IdentReports
  <2>3. CASE CgReported(at)
    <3>1. cg_errors' = cg_errors + 1
      BY <2>2, <2>3
    <3> QED
      BY <1>1, <1>3, <2>1, <2>3, <3>1
  <2>4. CASE ~CgReported(at)
    <3>1. cg_errors' = cg_errors
      BY <2>2, <2>4
    <3> QED
      BY <1>1, <1>4, <2>1, <2>4, <3>1
  <2> QED
    BY <2>3, <2>4
<1>6. CASE CgUnhandled
  <2>1. CgReported(at) /\ val' = [val EXCEPT ![at] = "NULL"] /\ cg_errors' = cg_errors + 1 /\ "NULL" # "none"
    BY <1>6, LvalueReports
  <2> QED
    BY <1>1, <1>3, <2>1
<1>7. CASE Answers /\ ~CgIdent /\ ~CgUnhandled
  <2>1. ~CgReported(at) /\ cg_errors' = cg_errors /\ \E v : val' = [val EXCEPT ![at] = v]
    BY <1>7, OthersReportNothing
  <2> QED
    BY <1>1, <1>4, <2>1
<1> QED
  BY <1>2, <1>5, <1>6, <1>7

\* Only literals initialise global variables.
LEMMA GlobalReports ==
  ASSUME CgFine, NEW fs, Mirrors(fs, stack), CgGlobal
  PROVE  UNCHANGED val /\ cg_errors' = IF ComputedGlobal(at) THEN cg_errors + 1 ELSE cg_errors
<1>1. CgTop.fn = "global" /\ Kind(at) = "VAR_DECL"
  BY DEF CgGlobal, Step
<1>2. Len(fs) = Depth /\ CallStackOK(fs) /\ Depth \in Nat /\ Depth >= 1 /\ CgTop = stack[Depth] /\ DOMAIN stack = 1..Depth
  <2>1. ~IsExpr(CgTop)
    BY <1>1 DEF IsExpr
  <2>2. DOMAIN stack = 1..Depth
    BY CgTopFacts DEF CgFine, CgGood, Depth
  <2> QED
    BY <2>1, <2>2, MirrorTop, FineStack
<1>3. Depth = 2
  <2>1. Depth \in DOMAIN stack /\ StackShape
    BY <1>2 DEF CgFine, CgGood, StackOK
  <2> QED
    BY <1>1, <1>2, <2>1 DEF StackShape
<1>4. fs[2].node = at
  BY <1>2, <1>3 DEF Mirrors, Walked, at
<1>5. 2 \in 2..Len(fs) /\ 2 - 1 = 1
  BY <1>2, <1>3
<1>6. fs[1].node = 1 /\ at = VisitKid(1, fs[1].next - 1) /\ fs[1].next - 1 \in 1..VisitCount(1)
  BY <1>2, <1>4, <1>5, StackFacts DEF CgFine
<1>7. Kind(1) = "PROGRAM" /\ 1 \in Nodes
  BY KindsOfKids, ParentFacts DEF CgFine, Whole
<1>8. \E k \in 1..Arity(1) : at = Kid(1, k)
  BY <1>6, <1>7, VisitAsKid
<1>9. Parent(at) = 1
  BY <1>7, <1>8, ParentFacts DEF CgFine, Whole
<1>10. ComputedGlobal(at) <=> Kind(CgKid(1)) \notin Literals \cup {"NULL"}
  BY <1>1, <1>9 DEF ComputedGlobal, CgKid
<1>11. UNCHANGED val /\ cg_errors' = cg_errors + (IF Kind(CgKid(1)) \in Literals \cup {"NULL"} THEN 0 ELSE 1)
  BY DEF CgGlobal
<1>12. cg_errors \in Nat
  BY DEF CgFine, CgGood, DataOK
<1> QED
  BY <1>10, <1>11, <1>12

LEMMA OnlyGlobal ==
  ASSUME CgNext, ~CgStart, CgTop.fn = "global"
  PROVE  CgGlobal
<1> USE DEF Step, Evaluated, EvaluatedOp, InList
<1>1. ~CgDeclaration /\ ~CgEnd /\ ~CgPrototype /\ ~CgDefine /\ ~CgDefineEnd
  BY DEF CgDeclaration, CgEnd, CgPrototype, CgDefine, CgDefineEnd
<1>2. ~CgVarDecl /\ ~CgVarInit /\ ~CgExprStmt /\ ~CgReturnStmt /\ ~CgBlockEnter /\ ~CgNextStatement /\ ~CgBlockLeave
  BY DEF CgVarDecl, CgVarInit, CgExprStmt, CgReturnStmt, CgBlockEnter, CgNextStatement, CgBlockLeave
<1>3. ~CgIfThen /\ ~CgIfElse /\ ~CgIfEnd /\ ~CgWhile /\ ~CgWhileBody /\ ~CgWhileEnd
  BY DEF CgIfThen, CgIfElse, CgIfEnd, CgWhile, CgWhileBody, CgWhileEnd
<1>4. ~CgFor /\ ~CgForCond /\ ~CgForBody /\ ~CgForPost /\ ~CgForEnd
  BY DEF CgFor, CgForCond, CgForBody, CgForPost, CgForEnd
<1>5. ~CgOperand
  <2>1. Operands = <<>>
    BY DEF Operands
  <2> QED
    BY <2>1 DEF CgOperand
<1>6. ~CgLiteral /\ ~CgIdent /\ ~CgIndexAddress /\ ~CgDerefAddress /\ ~CgAssign /\ ~CgArith /\ ~CgAddress
  BY DEF CgLiteral, CgIdent, CgIndexAddress, CgDerefAddress, CgAssign, CgArith, CgAddress
<1>7. ~CgLoad /\ ~CgNegate /\ ~CgNot /\ ~CgCall /\ ~CgUnhandled /\ ~CgLogicalTest /\ ~CgLogicalMerge
  BY DEF CgLoad, CgNegate, CgNot, CgCall, CgUnhandled, CgLogicalTest, CgLogicalMerge
<1> QED
  BY Zenon, <1>1, <1>2, <1>3, <1>4, <1>5, <1>6, <1>7 DEF CgNext

\* In the program only declarations are called, until none is left.
LEMMA OnlyDeclaration ==
  ASSUME CgNext, ~CgStart, CgTop.fn = "module"
  PROVE  CgDeclaration \/ CgEnd
<1> USE DEF Step, Evaluated, EvaluatedOp, InList
<1>1. ~CgGlobal /\ ~CgPrototype /\ ~CgDefine /\ ~CgDefineEnd
  BY DEF CgGlobal, CgPrototype, CgDefine, CgDefineEnd
<1>2. ~CgVarDecl /\ ~CgVarInit /\ ~CgExprStmt /\ ~CgReturnStmt /\ ~CgBlockEnter /\ ~CgNextStatement /\ ~CgBlockLeave
  BY DEF CgVarDecl, CgVarInit, CgExprStmt, CgReturnStmt, CgBlockEnter, CgNextStatement, CgBlockLeave
<1>3. ~CgIfThen /\ ~CgIfElse /\ ~CgIfEnd /\ ~CgWhile /\ ~CgWhileBody /\ ~CgWhileEnd
  BY DEF CgIfThen, CgIfElse, CgIfEnd, CgWhile, CgWhileBody, CgWhileEnd
<1>4. ~CgFor /\ ~CgForCond /\ ~CgForBody /\ ~CgForPost /\ ~CgForEnd
  BY DEF CgFor, CgForCond, CgForBody, CgForPost, CgForEnd
<1>5. ~CgOperand
  <2>1. Operands = <<>>
    BY DEF Operands
  <2> QED
    BY <2>1 DEF CgOperand
<1>6. ~CgLiteral /\ ~CgIdent /\ ~CgIndexAddress /\ ~CgDerefAddress /\ ~CgAssign /\ ~CgArith /\ ~CgAddress
  BY DEF CgLiteral, CgIdent, CgIndexAddress, CgDerefAddress, CgAssign, CgArith, CgAddress
<1>7. ~CgLoad /\ ~CgNegate /\ ~CgNot /\ ~CgCall /\ ~CgUnhandled /\ ~CgLogicalTest /\ ~CgLogicalMerge
  BY DEF CgLoad, CgNegate, CgNot, CgCall, CgUnhandled, CgLogicalTest, CgLogicalMerge
<1> QED
  BY Zenon, <1>1, <1>2, <1>3, <1>4, <1>5, <1>6, <1>7 DEF CgNext

-----------------------------------------------------------------------------
(* The invariant: what has been reported, and what there is to report. *)

Causes == \E n \in Nodes : (CgReported(n) /\ Visited(n)) \/ ComputedGlobal(n)

ErrorsOK ==
  /\ \A n \in Nodes : CgReported(n) /\ Visited(n) => cg_errors > 0
  /\ \A k \in 1..Arity(1) : k < stack[1].next /\ ComputedGlobal(Kid(1, k)) =>
       cg_errors > 0 \/ (CgTop.fn = "global" /\ at = Kid(1, k))
  /\ cg_errors > 0 => Causes

ErrorsInv == (phase = "codegen" /\ stack # <<>> => ErrorsOK) /\ ErrorsExplained

LEMMA CausesStable ==
  ASSUME UNCHANGED <<ast, bind>>
  PROVE  /\ Nodes' = Nodes /\ Arity(1)' = Arity(1) /\ \A k : Kid(1, k)' = Kid(1, k)
         /\ \A n : (CgReported(n)' <=> CgReported(n)) /\ (ComputedGlobal(n)' <=> ComputedGlobal(n))
<1>1. Nodes' = Nodes /\ Path' = Path
  BY RulesStable
<1>2. \A m : Kind(m)' = Kind(m) /\ \A i : Kid(m, i)' = Kid(m, i)
  BY DEF Kind, Kid
<1>3. \A m : Arity(m)' = Arity(m) /\ Parent(m)' = Parent(m)
  BY DEF Arity, Parent, Kid
<1>4. \A m, k : Under(m, k)' <=> Under(m, k)
  BY <1>1 DEF Under
<1>5. \A n, d : (InOwnInitialiser(n, d)' <=> InOwnInitialiser(n, d)) /\ (InPostBeforeBody(n, d)' <=> InPostBeforeBody(n, d))
  BY <1>1, <1>2, <1>4 DEF InOwnInitialiser, InPostBeforeBody
<1>6. \A n : Hidden(n)' <=> Hidden(n)
  BY <1>1, <1>2, <1>5 DEF Hidden
<1>7. \A n : (Addressed(n)' <=> Addressed(n)) /\ (HasAddress(n)' <=> HasAddress(n))
  BY <1>2, <1>3 DEF Addressed, HasAddress
<1>8. \A n : CgReported(n)' <=> CgReported(n)
  BY <1>2, <1>6, <1>7 DEF CgReported
<1>9. \A n : ComputedGlobal(n)' <=> ComputedGlobal(n)
  BY <1>2, <1>3 DEF ComputedGlobal
<1> QED
  BY <1>1, <1>2, <1>3, <1>8, <1>9

\* At the end every global variable is done.
LEMMA ExplainedAtEnd ==
  ASSUME CgFine, ErrorsOK, NEW fs, Mirrors(fs, stack), CgEnd
  PROVE  cg_errors > 0 <=> Causes
<1>1. CgTop.fn = "module" /\ CgTop.next = Arity(at) + 1
  BY DEF CgEnd, Step
<1>2. Depth = 1 /\ at = 1 /\ CgTop = stack[1]
  <2>1. Depth \in DOMAIN stack /\ StackShape /\ CgTop = stack[Depth] /\ Depth \in Nat
    BY CgTopFacts DEF CgFine, CgGood, StackOK, Depth
  <2>2. Depth = 1
    BY <1>1, <2>1 DEF StackShape
  <2>3. ~IsExpr(CgTop)
    BY <1>1 DEF IsExpr
  <2>4. Len(fs) = 1 /\ CallStackOK(fs)
    BY <2>2, <2>3, MirrorTop
  <2>5. fs[1].node = 1 /\ fs[1] = Walked(stack[1])
    BY <2>4, StackFacts DEF CgFine, Mirrors
  <2> QED
    BY <2>1, <2>2, <2>5 DEF Walked, at
<1>3. ASSUME NEW n \in Nodes, ComputedGlobal(n) PROVE cg_errors > 0
  <2>1. n # 1 /\ Parent(n) = 1
    BY <1>3, KindsOfKids DEF ComputedGlobal, CgFine, Whole
  <2>2. PICK k \in 1..Arity(1) : Kid(1, k) = n
    BY <2>1, ParentFacts DEF CgFine, Whole
  <2>3. Arity(1) \in Nat
    BY NodeFacts, ParentFacts DEF CgFine, Whole
  <2>4. k < stack[1].next
    BY <1>1, <1>2, <2>2, <2>3
  <2> QED
    BY <1>1, <1>3, <2>2, <2>4 DEF ErrorsOK
<1> QED
  BY <1>3 DEF ErrorsOK, Causes

\* What the other invariants say of an accepted program.
CausesHold == Accepted /\ AllRight(rtype, bind) /\ RoleOK(CgTop) /\ CallsAgree

LEMMA ErrorsCount ==
  ASSUME CgFine, CausesHold, CgNext, ~CgStart, NEW fs, Mirrors(fs, stack), Holding(fs, env), ErrorsOK
  PROVE  /\ cg_errors \in Nat /\ cg_errors' \in Nat /\ cg_errors' >= cg_errors
         /\ \A n \in Nodes : CgReported(n) /\ val'[n] # "none" => cg_errors' > 0
         /\ cg_errors' > 0 => \E n \in Nodes : (CgReported(n) /\ val'[n] # "none") \/ ComputedGlobal(n)
<1>1. Accepted /\ AllRight(rtype, bind) /\ RoleOK(CgTop) /\ CallsAgree
  BY DEF CausesHold
<1>2. CASE CgGlobal
  <2>1. UNCHANGED val /\ cg_errors' = IF ComputedGlobal(at) THEN cg_errors + 1 ELSE cg_errors
    BY <1>2, GlobalReports
  <2>2. cg_errors \in Nat /\ at \in Nodes
    BY FineStack DEF CgFine, CgGood, DataOK
  <2> QED
    BY <2>1, <2>2 DEF ErrorsOK, Causes, Visited
<1>3. CASE ~CgGlobal
  <2>1. /\ cg_errors \in Nat /\ cg_errors' \in Nat /\ cg_errors' >= cg_errors
        /\ \A n \in Nodes : CgReported(n) => val'[n] = val[n] \/ (val'[n] # "none" /\ cg_errors' > 0)
        /\ cg_errors' # cg_errors => \E n \in Nodes : CgReported(n) /\ val'[n] # "none"
    BY <1>1, <1>3, StepReports
  <2>2. \A n \in Nodes : CgReported(n) /\ val'[n] # "none" => cg_errors' > 0
    BY <2>1 DEF ErrorsOK, Visited
  <2>3. ASSUME cg_errors' > 0, cg_errors' = cg_errors
        PROVE  \E n \in Nodes : (CgReported(n) /\ val'[n] # "none") \/ ComputedGlobal(n)
    <3>1. PICK n \in Nodes : (CgReported(n) /\ Visited(n)) \/ ComputedGlobal(n)
      BY <2>3 DEF ErrorsOK, Causes
    <3>2. CgReported(n) /\ Visited(n) => val'[n] # "none"
      BY <2>1, <3>1 DEF Visited
    <3> QED
      BY <3>1, <3>2
  <2> QED
    BY <2>1, <2>2, <2>3
<1> QED
  BY <1>2, <1>3

\* A global variable is done once it has been called on.
LEMMA GlobalsCount ==
  ASSUME CgFine, CausesHold, CgNext, ~CgStart, ~CgEnd, NEW fs, Mirrors(fs, stack), Holding(fs, env), ErrorsOK,
         stack' # <<>>, cg_errors' = 0,
         NEW k \in 1..Arity(1), k < stack'[1].next, ComputedGlobal(Kid(1, k))
  PROVE  CgTop'.fn = "global" /\ CgTop'.node = Kid(1, k)
<1> DEFINE c == Kid(1, k)
<1>1. cg_errors = 0
  BY ErrorsCount
<1>2. /\ Depth \in Nat /\ Depth >= 1 /\ CgTop = stack[Depth] /\ DOMAIN stack = 1..Depth /\ at = CgTop.node
      /\ StackShape /\ StackOK /\ StackOK' /\ StackMoves /\ Depth' \in Nat
  <2>1. CgGood
    BY DEF CgFine
  <2>2. StackMoves /\ StackOK'
    BY <2>1, GraphKept DEF Moves
  <2>3. Depth' \in Nat
    BY <2>2 DEF StackOK, Depth
  <2> QED
    BY <2>1, <2>2, <2>3, CgTopFacts, FineStack DEF CgGood, StackOK, Depth, at
<1>3. CASE Depth = 1
  <2>1. CgTop.fn = "module"
    BY <1>2, <1>3 DEF StackShape
  <2>2. CgDeclaration
    BY <2>1, OnlyDeclaration
  <2>3. ~IsExpr(CgTop)
    BY <2>1 DEF IsExpr
  <2>4. Len(fs) = 1 /\ CallStackOK(fs)
    BY <1>3, <2>3, MirrorTop
  <2>5. at = 1
    <3>1. fs[1].node = 1 /\ fs[1] = Walked(stack[1])
      BY <2>4, StackFacts DEF CgFine, Mirrors
    <3> QED
      BY <1>2, <1>3, <3>1 DEF Walked
  <2> DEFINE i == CgTop.next
             fn == IF Kind(Kid(1, i)) = "FUNC_DECL" THEN "define" ELSE "global"
  <2>6. i \in 1..Arity(1) /\ CallWith(bb, fn, Kid(1, i))
    BY <2>2, <2>5 DEF CgDeclaration, CallFn, CgKid
  <2>7. Kind(1) = "PROGRAM" /\ 1 \in Nodes
    BY KindsOfKids, ParentFacts DEF CgFine, Whole
  <2>8. Kind(Kid(1, i)) \in {"FUNC_DECL", "VAR_DECL"}
    BY <2>6, <2>7, KindsOfKids DEF CgFine, Whole
  <2>9. ~IsNull(Kid(1, i))
    BY <2>8 DEF IsNull
  <2> HIDE DEF fn
  <2>10. Depth' = Depth + 1 /\ stack'[1].next = i + 1 /\ stack'[Depth + 1] = CgFrame(fn, Kid(1, i))
    <3>1. stack # <<>> /\ bb \in [Roles -> Nat] /\ CgTop \in FrameRecords
      BY CgTopFacts DEF CgFine, CgGood
    <3>2. fn \in FnNames /\ Kid(1, i) \in Nodes
      BY <2>6, <2>7, ParentFacts DEF fn, FnNames, CgFine, Whole
    <3>3. /\ stack'[Len(stack)] = Resumed(bb)
          /\ Len(stack') = IF IsNull(Kid(1, i)) THEN Len(stack) ELSE Len(stack) + 1
          /\ ~IsNull(Kid(1, i)) => stack'[Len(stack) + 1] = CgFrame(fn, Kid(1, i))
      BY <1>2, <2>6, <3>1, <3>2, Called
    <3>4. Resumed(bb).next = CgTop.next + 1
      BY <3>1 DEF Resumed, FrameRecords
    <3> QED
      BY <1>3, <2>9, <3>3, <3>4 DEF Depth
  <2>11. CgTop' = stack'[Depth + 1]
    BY <2>10 DEF CgTop, Depth
  <2>12. i = k
    <3>1. ~(k < i)
      BY <1>1, <1>2, <1>3, <2>1 DEF ErrorsOK
    <3>2. i \in Nat /\ k \in Nat
      BY <2>6
    <3> HIDE DEF i
    <3> QED
      BY <2>10, <3>1, <3>2
  <2>13. fn = "global"
    BY <2>12 DEF fn, ComputedGlobal
  <2> QED
    BY <2>10, <2>11, <2>12, <2>13 DEF CgFrame
<1>4. CASE Depth # 1
  <2>1. stack'[1] = stack[1]
    <3>1. Below
      BY <1>2 DEF StackMoves
    <3>2. 1 \in 1..(Depth - 1)
      BY <1>2, <1>4
    <3> QED
      BY <3>1, <3>2 DEF Below, Depth
  <2>2. CgTop.fn = "global" /\ at = c
    BY <1>1, <2>1 DEF ErrorsOK
  <2>3. CgGlobal
    BY <2>2, OnlyGlobal
  <2>4. cg_errors' = cg_errors + 1
    BY <2>2, <2>3, GlobalReports
  <2> QED
    BY <1>1, <2>4
<1> QED
  BY <1>3, <1>4

\* Code generation ends in the program's own activation, unless it crashes before.
LEMMA OtherPhases ==
  ASSUME CgNext, phase = "codegen", CgFine, ~CgStart, ~CgEnd
  PROVE  phase' \notin {"verify", "failed"}
<1> USE DEF OnlyCalls, Wrong, Compute, Pass, CgError, Give
<1>1. CgDeclaration \/ CgPrototype \/ CgNextStatement \/ CgExprStmt \/ CgOperand => phase' = phase
  BY DEF CgDeclaration, CgPrototype, CgNextStatement, CgExprStmt, CgOperand
<1>2. CgVarDecl \/ CgBlockEnter \/ CgBlockLeave \/ CgIfElse \/ CgIfEnd \/ CgWhile \/ CgWhileEnd => phase' = phase
  BY DEF CgVarDecl, CgBlockEnter, CgBlockLeave, CgIfElse, CgIfEnd, CgWhile, CgWhileEnd
<1>3. CgFor \/ CgForCond \/ CgForPost \/ CgForEnd => phase' = phase
  BY DEF CgFor, CgForCond, CgForPost, CgForEnd
<1>4. CgForBody \/ CgWhileBody \/ CgIfThen \/ CgVarInit \/ CgReturnStmt \/ CgLogicalTest => phase' \in {phase, "crashed"}
  BY DEF CgForBody, CgWhileBody, CgIfThen, CgVarInit, CgReturnStmt, CgLogicalTest
<1>5. CgDefine \/ CgDefineEnd \/ CgGlobal \/ CgLiteral \/ CgIdent \/ CgUnhandled => phase' \in {phase, "crashed"}
  BY DEF CgDefine, CgDefineEnd, CgGlobal, CgLiteral, CgIdent, CgUnhandled
<1>6. CgIndexAddress \/ CgDerefAddress \/ CgAssign \/ CgArith \/ CgAddress => phase' \in {phase, "crashed"}
  BY DEF CgIndexAddress, CgDerefAddress, CgAssign, CgArith, CgAddress
<1>7. CgLoad \/ CgNegate \/ CgNot \/ CgCall \/ CgLogicalMerge => phase' \in {phase, "crashed"}
  BY DEF CgLoad, CgNegate, CgNot, CgCall, CgLogicalMerge
<1>8. phase' \in {phase, "crashed"}
  BY Zenon, <1>1, <1>2, <1>3, <1>4, <1>5, <1>6, <1>7 DEF CgNext
<1> QED
  BY <1>8

LEMMA ErrorsKept ==
  MainInv /\ SemaInv /\ VisitInv /\ CgInv /\ MeaningInv /\ WalkInv /\ RolesInv /\ CallsAgree /\ ErrorsInv /\ [Next]_vars
    => ErrorsInv'
<1> SUFFICES ASSUME MainInv, SemaInv, VisitInv, CgInv, MeaningInv, WalkInv, RolesInv, CallsAgree, ErrorsInv, [Next]_vars
             PROVE  ErrorsInv'
  OBVIOUS
<1>1. CASE SemaNext /\ UNCHANGED <<cgVars, mainVars>>
  <2>1. stack = <<>> /\ stack' = <<>>
    <3>1. CgInit
      BY <1>1, SemaPhases DEF CgInv, Idle
    <3> QED
      BY <1>1, <3>1 DEF CgInit, cgVars
  <2>2. phase' \notin {"verify", "failed"}
    BY <1>1, SemaPhases
  <2> QED
    BY <2>1, <2>2 DEF ErrorsInv, ErrorsExplained
<1>2. CASE CgNext
  <2>1. phase = "codegen" /\ UNCHANGED <<ast, bind>> /\ Whole
    BY <1>2, CgKeepsSema DEF SemaInv, VisitInv, Whole, semaVars
  <2>2. /\ Nodes' = Nodes /\ Arity(1)' = Arity(1) /\ \A k : Kid(1, k)' = Kid(1, k)
        /\ \A n : (CgReported(n)' <=> CgReported(n)) /\ (ComputedGlobal(n)' <=> ComputedGlobal(n))
    BY <2>1, CausesStable
  <2>3. \A n : (FunctionAsValue(n) \/ NotLvalue(n))' <=> CgReported(n)' /\ Visited(n)'
    BY DEF FunctionAsValue, NotLvalue, CgReported
  <2>4. CASE stack = <<>>
    <3>1. /\ stack' = <<CgFrame("module", 1)>> /\ val' = [n \in Nodes |-> "none"] /\ UNCHANGED <<phase, cg_errors>>
      BY <1>2, <2>4, OnlyStarts DEF CgStart
    <3>2. cg_errors = 0
      BY <2>1, <2>4 DEF CgInv, Idle, CgInit
    <3>3. stack'[1].next = 1
      BY <3>1 DEF CgFrame
    <3>4. \A k \in 1..Arity(1) : ~(k < 1)
      BY NodeFacts, ParentFacts, <2>1 DEF Whole
    <3>5. ErrorsOK'
      BY <2>2, <3>1, <3>2, <3>3, <3>4 DEF ErrorsOK, Visited
    <3> QED
      BY <2>1, <3>1, <3>5 DEF ErrorsInv, ErrorsExplained
  <2>5. CASE stack # <<>>
    <3>1. CgFine /\ ~CgStart
      BY <2>1, <2>5 DEF CgFine, CgGood, CgInv, Whole, CgStart
    <3>2. PICK fs : Mirrors(fs, stack) /\ Holding(fs, env)
      BY <2>1, <2>5 DEF WalkInv
    <3>3. CausesHold
      <4>1. Accepted /\ AllRight(rtype, bind)
        BY <2>1 DEF MeaningInv
      <4>2. RoleOK(CgTop)
        <5>1. \A i \in 1..Depth : RoleOK(stack[i])
          BY <2>1, <2>5 DEF RolesInv
        <5>2. Depth \in Nat /\ Depth >= 1 /\ CgTop = stack[Depth]
          BY <3>1, FineStack
        <5> QED
          BY <5>1, <5>2
      <4> QED
        BY <4>1, <4>2 DEF CausesHold
    <3>4. ErrorsOK
      BY <2>1, <2>5 DEF ErrorsInv
    <3>5. /\ cg_errors \in Nat /\ cg_errors' \in Nat
          /\ \A n \in Nodes : CgReported(n) /\ val'[n] # "none" => cg_errors' > 0
          /\ cg_errors' > 0 => \E n \in Nodes : (CgReported(n) /\ val'[n] # "none") \/ ComputedGlobal(n)
      BY <1>2, <3>1, <3>2, <3>3, <3>4, ErrorsCount
    <3>6. CASE CgEnd
      <4>1. UNCHANGED <<cg_errors, val>> /\ phase' \in {"verify", "failed"}
        BY <3>6 DEF CgEnd, kept
      <4>2. cg_errors > 0 <=> Causes
        BY <3>1, <3>2, <3>4, <3>6, ExplainedAtEnd
      <4>3. Causes' <=> Causes
        BY <2>2, <4>1 DEF Causes, Visited
      <4>4. ErrorsExplained'
        BY <2>3, <4>1, <4>2, <4>3 DEF ErrorsExplained, Causes
      <4> QED
        BY <4>1, <4>4 DEF ErrorsInv
    <3>7. CASE ~CgEnd
      <4>1. phase' \notin {"verify", "failed"}
        BY <1>2, <2>1, <3>1, <3>7, OtherPhases
      <4>2. ASSUME stack' # <<>> PROVE ErrorsOK'
        <5>1. \A n \in Nodes : CgReported(n) /\ val'[n] # "none" => cg_errors' > 0
          BY <3>5
        <5>2. \A k \in 1..Arity(1) : k < stack'[1].next /\ ComputedGlobal(Kid(1, k)) =>
                cg_errors' > 0 \/ (CgTop'.fn = "global" /\ CgTop'.node = Kid(1, k))
          BY <1>2, <3>1, <3>2, <3>3, <3>4, <3>5, <3>7, <4>2, GlobalsCount
        <5> QED
          BY <2>2, <3>5, <5>1, <5>2 DEF ErrorsOK, Causes, Visited, at
      <4> QED
        BY <4>1, <4>2 DEF ErrorsInv, ErrorsExplained
    <3> QED
      BY <3>6, <3>7
  <2> QED
    BY <2>4, <2>5
<1>3. CASE Main
  <2>1. phase' \in {"done", "write_ir", "write_object"}
    BY <1>3 DEF Main, MainNoParse, MainRejected, MainVerify, MainWriteIr, MainWriteObject, Exit
  <2> QED
    BY <2>1 DEF ErrorsInv, ErrorsExplained
<1>4. CASE UNCHANGED vars
  <2>1. UNCHANGED <<ast, bind, phase, stack, val, cg_errors>>
    BY <1>4 DEF vars, cgVars, kept, semaVars
  <2>2. /\ Nodes' = Nodes /\ Arity(1)' = Arity(1) /\ \A k : Kid(1, k)' = Kid(1, k)
        /\ \A n : (CgReported(n)' <=> CgReported(n)) /\ (ComputedGlobal(n)' <=> ComputedGlobal(n))
    BY <2>1, CausesStable
  <2>3. \A n : Visited(n)' <=> Visited(n)
    BY <2>1 DEF Visited
  <2>4. CgTop' = CgTop /\ at' = at
    BY <2>1 DEF CgTop, at
  <2>5. Causes' <=> Causes
    BY <2>2, <2>3 DEF Causes
  <2>6. ErrorsOK => ErrorsOK'
    BY <2>1, <2>2, <2>3, <2>4, <2>5 DEF ErrorsOK
  <2>7. \A n : /\ (FunctionAsValue(n) \/ NotLvalue(n)) <=> CgReported(n) /\ Visited(n)
               /\ (FunctionAsValue(n) \/ NotLvalue(n))' <=> CgReported(n)' /\ Visited(n)'
    BY DEF FunctionAsValue, NotLvalue, CgReported
  <2>8. ErrorsExplained => ErrorsExplained'
    BY <2>1, <2>2, <2>3, <2>7 DEF ErrorsExplained
  <2> QED
    BY <2>1, <2>6, <2>8 DEF ErrorsInv
<1> QED
  BY <1>1, <1>2, <1>3, <1>4 DEF Next, Ended

LEMMA ErrorsAlways == Spec => []ErrorsInv
<1>1. Init => ErrorsInv
  BY DEF Init, SemaInit, AstInit, ErrorsInv, ErrorsExplained
<1> QED
  BY <1>1, ErrorsKept, MainHolds, SemaInvAlways, VisitInvAlways, CgInvAlways, MeaningAlways, WalkAlways, RolesAlways,
     CallsReachTheirFunction, PTL DEF Spec

(* CodeGen fails on a program Sema accepts exactly if the code it generates names as a value a *)
(* function that no variable hides from it, or assigns to or takes the address of what has no  *)
(* address, or a global's initialiser is not a literal: of the error paths of CodeGen.c no     *)
(* other can be reached, whatever the program.                                                 *)
THEOREM ErrorsAreExplained == Spec => []ErrorsExplained
<1>1. ErrorsInv => ErrorsExplained
  BY DEF ErrorsInv
<1> QED
  BY <1>1, ErrorsAlways, PTL

-----------------------------------------------------------------------------
(* The order in which an activation goes through its children. *)

\* cg_expr on [] calls cg_lvalue on the same node.
SelfCall(f) == f.fn = "expr" /\ Kind(f.node) = "INDEX"

\* Step k goes to child Index(f, k) of Giver(f).
Giver(f) == IF Kind(f.node) = "FUNC_DECL" THEN Kid(f.node, 1) ELSE f.node
Index(f, k) ==
  IF Kind(f.node) \in {"BLOCK", "FUNC_DECL"} THEN k - 1
  ELSE IF Kind(f.node) = "CALL" THEN k + 1
  ELSE IF Kind(f.node) = "FOR" /\ k = 3 THEN 4
  ELSE IF Kind(f.node) = "FOR" /\ k = 4 THEN 3
  ELSE k
Steps(f) == {k \in Nat : k >= 1 /\ IF SelfCall(f) THEN k = 1 ELSE Index(f, k) \in 1..Arity(Giver(f))}
StepKid(f, k) == IF SelfCall(f) THEN f.node ELSE Kid(Giver(f), Index(f, k))

LEMMA StepFacts ==
  ASSUME Whole, NEW f, f.node \in Nodes, NEW k \in Steps(f)
  PROVE  /\ StepKid(f, k) \in Nodes /\ Under(StepKid(f, k), f.node)
         /\ ~SelfCall(f) => StepKid(f, k) > f.node /\ Giver(f) \in Nodes /\ Index(f, k) \in 1..Arity(Giver(f))
<1>0. AstTypeOK /\ TreeOK /\ Nodes = 1..Len(ast) /\ Len(ast) \in Nat
  BY ParentFacts DEF Whole
<1>1. CASE SelfCall(f)
  BY <1>0, <1>1, UnderParent DEF StepKid
<1>2. CASE ~SelfCall(f)
  <2> DEFINE p == Giver(f)
             i == Index(f, k)
  <2>1. i \in 1..Arity(p) /\ StepKid(f, k) = Kid(p, i)
    BY <1>2 DEF Steps, StepKid
  <2>2. p \in Nodes /\ Under(p, f.node) /\ p >= f.node
    <3>1. CASE Kind(f.node) = "FUNC_DECL"
      <4>1. 1 \in 1..Arity(f.node)
        BY <1>0, <3>1, NodeFacts DEF HasArity
      <4>2. Kid(f.node, 1) \in Nodes /\ Kid(f.node, 1) > f.node /\ Kid(f.node, 1) # 1 /\ Parent(Kid(f.node, 1)) = f.node
        BY <1>0, <4>1, ParentFacts
      <4>3. Under(f.node, f.node)
        BY <1>0, UnderParent
      <4> QED
        BY <1>0, <3>1, <4>2, <4>3, UnderParent DEF Giver
    <3>2. CASE Kind(f.node) # "FUNC_DECL"
      BY <1>0, <3>2, UnderParent DEF Giver
    <3> QED
      BY <3>1, <3>2
  <2> HIDE DEF p, i
  <2>3. Kid(p, i) \in Nodes /\ Kid(p, i) > p /\ Kid(p, i) # 1 /\ Parent(Kid(p, i)) = p
    BY <1>0, <2>1, <2>2, ParentFacts
  <2>4. Under(Kid(p, i), f.node)
    BY <1>0, <2>2, <2>3, UnderParent
  <2>5. Kid(p, i) > f.node
    BY <1>0, <2>2, <2>3
  <2> QED
    BY <2>1, <2>2, <2>3, <2>4, <2>5 DEF p, i
<1> QED
  BY <1>1, <1>2

\* Two steps go to two siblings.
LEMMA StepsApart ==
  ASSUME Whole, NEW f, f.node \in Nodes, NEW k \in Steps(f), NEW l \in Steps(f), k # l,
         NEW n \in Nodes, Under(n, StepKid(f, k))
  PROVE  ~Under(n, StepKid(f, l))
<1>0. AstTypeOK /\ TreeOK
  BY DEF Whole
<1>1. ~SelfCall(f) /\ k \in Nat /\ l \in Nat
  BY DEF Steps
<1> DEFINE p == Giver(f)
           i == Index(f, k)
           j == Index(f, l)
<1>2. p \in Nodes /\ i \in 1..Arity(p) /\ j \in 1..Arity(p) /\ StepKid(f, k) = Kid(p, i) /\ StepKid(f, l) = Kid(p, j)
  BY <1>1, StepFacts DEF StepKid
<1>3. i # j
  BY <1>1 DEF Index
<1> HIDE DEF p, i, j
<1>4. Kid(p, i) # Kid(p, j)
  BY <1>0, <1>2, <1>3 DEF TreeOK, OneParent
<1>5. /\ Kid(p, i) \in Nodes /\ Kid(p, i) # 1 /\ Parent(Kid(p, i)) = p
      /\ Kid(p, j) \in Nodes /\ Kid(p, j) # 1 /\ Parent(Kid(p, j)) = p
  BY <1>0, <1>2, ParentFacts
<1>6. Siblings(Kid(p, i), Kid(p, j))
  BY <1>4, <1>5 DEF Siblings
<1> QED
  BY <1>2, <1>6, Apart

-----------------------------------------------------------------------------
(* What each step calls. *)

\* What the running function calls next: the node, as expression or as lvalue.
NextCall(fn, c) ==
  /\ CgTop.next \in Steps(CgTop) /\ c = StepKid(CgTop, CgTop.next)
  /\ fn = "lvalue" => SelfCall(CgTop) \/ Addressed(c)
  /\ SelfCall(CgTop) => fn = "lvalue"

LEMMA OperandIsNext ==
  ASSUME CgFine, CgTop.next \in DOMAIN Operands, NEW c, c = Operands[CgTop.next]
  PROVE  NextCall(c.fn, c.node)
<1> DEFINE k == CgTop.next
           op == ast[at].op
           expr(i) == Call("expr", CgKid(i))
           Child(i) == i \in 1..Arity(at)
<1>0. CgGood /\ Whole /\ at = CgTop.node /\ at \in Nodes /\ AstTypeOK /\ TreeOK /\ k \in Nat /\ k >= 1
  BY FineStack DEF CgFine, Whole, at
<1>1. Arity(at) \in Nat /\ HasArity(Kind(at), Arity(at))
  BY <1>0, NodeFacts
<1>2. c = Call("lvalue", CgKid(1)) => Addresses(at) \/ SelfCall(CgTop)
  <2>1. \/ c = Call("lvalue", at) /\ CgTop.fn = "expr" /\ Kind(at) = "INDEX"
        \/ c = Call("lvalue", CgKid(1)) /\ CgTop.fn = "expr" /\ Addresses(at) /\ 1 \in 1..Arity(at)
        \/ \E i \in 1..Arity(at) : c = Call("expr", CgKid(i)) /\ (i = 1 => ~Addresses(at) /\ Kind(at) # "CALL")
    BY <1>0, OperandShape
  <2>2. c = Call("lvalue", CgKid(1)) => c.fn = "lvalue"
    BY DEF Call
  <2>3. \A i : c = Call("expr", CgKid(i)) => c.fn = "expr"
    BY DEF Call
  <2> QED
    BY <1>0, <2>1, <2>2, <2>3 DEF SelfCall
<1>3. ASSUME c = Call("lvalue", at), SelfCall(CgTop), k = 1 PROVE NextCall(c.fn, c.node)
  BY <1>0, <1>3 DEF NextCall, Steps, StepKid, Call
<1>4. ASSUME ~SelfCall(CgTop), k \in 1..Arity(at), Kind(at) \notin {"BLOCK", "FUNC_DECL", "CALL", "FOR"},
             c = expr(k) \/ (k = 1 /\ c = Call("lvalue", CgKid(1)))
      PROVE  NextCall(c.fn, c.node)
  <2>1. Giver(CgTop) = at /\ Index(CgTop, k) = k
    BY <1>0, <1>4 DEF Giver, Index
  <2>2. k \in Steps(CgTop) /\ StepKid(CgTop, k) = CgKid(k)
    BY <1>0, <1>4, <2>1 DEF Steps, StepKid, CgKid
  <2>3. c.node = CgKid(k) /\ (c.fn = "lvalue" => Addresses(at) /\ k = 1)
    BY <1>2, <1>4 DEF Call
  <2>4. k = 1 => Kid(at, 1) # 1 /\ Parent(Kid(at, 1)) = at
    BY <1>0, <1>4, ParentFacts
  <2>5. Addresses(at) /\ k = 1 => Addressed(CgKid(k))
    BY <2>4 DEF Addressed, Addresses, CgKid
  <2> QED
    BY <1>4, <2>2, <2>3, <2>5 DEF NextCall
<1>5. ASSUME Kind(at) = "CALL", k \in 1..(Arity(at) - 1), c = expr(k + 1) PROVE NextCall(c.fn, c.node)
  <2>1. Giver(CgTop) = at /\ Index(CgTop, k) = k + 1 /\ ~SelfCall(CgTop)
    BY <1>0, <1>5 DEF Giver, Index, SelfCall
  <2>2. k + 1 \in 1..Arity(at)
    BY <1>1, <1>5
  <2>3. k \in Steps(CgTop) /\ StepKid(CgTop, k) = CgKid(k + 1)
    BY <1>0, <2>1, <2>2 DEF Steps, StepKid, CgKid
  <2> QED
    BY <1>5, <2>1, <2>3 DEF NextCall, Call
<1> HIDE DEF expr, op
<1>6. /\ Kind(at) \in {"ASSIGN", "BINARY", "INDEX"} => 1 \in 1..Arity(at) /\ 2 \in 1..Arity(at)
      /\ Kind(at) \in {"UNARY", "EXPR_STMT", "RETURN"} => 1 \in 1..Arity(at)
      /\ Kind(at) = "IF" => 1 \in 1..Arity(at)
  BY <1>1 DEF HasArity
<1>7. Kind(at) = "INDEX" /\ CgTop.fn = "lvalue" => ~SelfCall(CgTop)
  BY DEF SelfCall
<1>8. Kind(at) # "INDEX" => ~SelfCall(CgTop)
  BY <1>0 DEF SelfCall
<1>9. CASE CgTop.fn = "lvalue"
  <2>1. Kind(at) = "INDEX" => Operands = <<expr(1), expr(2)>>
    BY <1>9 DEF Operands, expr
  <2>2. Kind(at) = "UNARY" /\ op = "STAR" => Operands = <<expr(1)>>
    BY <1>9 DEF Operands, expr, op
  <2>3. Kind(at) # "INDEX" /\ ~(Kind(at) = "UNARY" /\ op = "STAR") => Operands = <<>>
    BY <1>9 DEF Operands, op
  <2>4. Kind(at) \in {"INDEX", "UNARY"} /\ k \in 1..Arity(at) /\ c = expr(k)
    BY <1>6, <2>1, <2>2, <2>3
  <2> QED
    BY <1>4, <1>7, <1>8, <1>9, <2>4
<1>10. CASE CgTop.fn = "stmt"
  <2>1. Kind(at) \in {"EXPR_STMT", "RETURN", "IF"} => Operands = <<expr(1)>>
    BY <1>10 DEF Operands, expr
  <2>2. Kind(at) \notin {"EXPR_STMT", "RETURN", "IF"} => Operands = <<>>
    BY <1>10 DEF Operands
  <2>3. Kind(at) \in {"EXPR_STMT", "RETURN", "IF"} /\ k \in 1..Arity(at) /\ c = expr(k)
    BY <1>6, <2>1, <2>2
  <2> QED
    BY <1>4, <1>8, <2>3
<1>11. CASE CgTop.fn = "expr"
  <2>1. Kind(at) = "ASSIGN" => Operands = <<Call("lvalue", CgKid(1)), expr(2)>>
    BY <1>11 DEF Operands, expr
  <2>2. Kind(at) = "BINARY" => Operands = <<expr(1)>> \/ Operands = <<expr(1), expr(2)>>
    BY <1>11 DEF Operands, expr
  <2>3. Kind(at) = "UNARY" => Operands = <<Call("lvalue", CgKid(1))>> \/ Operands = <<expr(1)>>
    BY <1>11 DEF Operands, expr
  <2>4. Kind(at) = "INDEX" => Operands = <<Call("lvalue", at)>>
    BY <1>11 DEF Operands
  <2>5. Kind(at) = "CALL" => Operands = <<>> \/ Operands = [i \in 1..(Arity(at) - 1) |-> expr(i + 1)]
    BY <1>11 DEF Operands, expr
  <2>6. Kind(at) \notin {"ASSIGN", "BINARY", "UNARY", "CALL", "INDEX"} => Operands = <<>>
    BY <1>11 DEF Operands
  <2>7. CASE Kind(at) = "CALL"
    <3>1. Operands # <<>>
      OBVIOUS
    <3>2. Operands = [i \in 1..(Arity(at) - 1) |-> expr(i + 1)]
      BY <2>5, <2>7, <3>1
    <3>3. k \in 1..(Arity(at) - 1) /\ c = expr(k + 1)
      BY <3>2
    <3> QED
      BY <1>5, <2>7, <3>3
  <2>8. CASE Kind(at) = "INDEX"
    <3>1. SelfCall(CgTop) /\ k = 1 /\ c = Call("lvalue", at)
      BY <1>0, <1>11, <2>4, <2>8 DEF SelfCall
    <3> QED
      BY <1>3, <3>1
  <2>9. CASE Kind(at) \in {"ASSIGN", "BINARY", "UNARY"}
    <3>1. k \in 1..Arity(at) /\ (c = expr(k) \/ (k = 1 /\ c = Call("lvalue", CgKid(1))))
      BY <1>6, <2>1, <2>2, <2>3, <2>9
    <3> QED
      BY <1>4, <1>8, <2>9, <3>1
  <2> QED
    BY <2>6, <2>7, <2>8, <2>9
<1>12. CASE CgTop.fn \notin {"lvalue", "stmt", "expr"}
  BY <1>12 DEF Operands
<1> QED
  BY <1>9, <1>10, <1>11, <1>12

LEMMA AnswersReturn == Answers => CgReturn
<1> USE DEF Compute, Pass, CgError, Give
<1>1. CgLiteral \/ CgUnhandled \/ CgIdent \/ CgIndexAddress \/ CgDerefAddress \/ CgAssign => CgReturn
  BY DEF CgLiteral, CgUnhandled, CgIdent, CgIndexAddress, CgDerefAddress, CgAssign
<1>2. CgArith \/ CgAddress \/ CgLoad \/ CgNegate \/ CgNot \/ CgLogicalMerge => CgReturn
  BY DEF CgArith, CgAddress, CgLoad, CgNegate, CgNot, CgLogicalMerge
<1>3. CgCall => CgReturn
  BY DEF CgCall
<1> QED
  BY <1>1, <1>2, <1>3 DEF Answers

LEMMA NextKid ==
  ASSUME CgFine, ~SelfCall(CgTop), CgTop.next \in Nat, CgTop.next >= 1, NEW i, i = Index(CgTop, CgTop.next), NEW p, p = Giver(CgTop),
         i \in 1..Arity(p), NEW c, c = Kid(p, i), NEW fn, fn # "lvalue"
  PROVE  NextCall(fn, c)
BY DEF NextCall, Steps, StepKid

\* A step that does not return calls the next child, or opens a list.
LEMMA GoesOrReturns ==
  ASSUME CgFine, CgNext, ~CgStart
  PROVE  \/ CgReturn
         \/ \E locals, fn, c : NextCall(fn, c) /\ CallWith(locals, fn, c)
         \/ stack' = [stack EXCEPT ![Len(stack)].next = 2] /\ CgTop.next = 1 /\ 1 \notin Steps(CgTop)
<1>0. /\ CgGood /\ Whole /\ at = CgTop.node /\ at \in Nodes /\ AstTypeOK /\ CgTop.next \in Nat /\ CgTop.next >= 1
      /\ Kind(at) \in KindsOf(CgTop.fn) /\ Arity(at) \in Nat /\ HasArity(Kind(at), Arity(at))
  <2>1. CgGood /\ Whole /\ at = CgTop.node /\ at \in Nodes /\ AstTypeOK /\ CgTop.next \in Nat /\ CgTop.next >= 1
    BY FineStack DEF CgFine, Whole, at
  <2>2. Kind(at) \in KindsOf(CgTop.fn)
    BY <2>1, CgTopFacts DEF CgGood
  <2> QED
    BY <2>1, <2>2, NodeFacts
<1> DEFINE Calls1 == \E locals, fn, c : NextCall(fn, c) /\ CallWith(locals, fn, c)
<1>1. ASSUME NEW locals, NEW fn, fn # "lvalue", ~SelfCall(CgTop), Kind(at) # "FUNC_DECL",
             Index(CgTop, CgTop.next) \in 1..Arity(at), CallWith(locals, fn, CgKid(Index(CgTop, CgTop.next)))
      PROVE  Calls1
  <2>1. Giver(CgTop) = at
    BY <1>0, <1>1 DEF Giver
  <2>2. NextCall(fn, CgKid(Index(CgTop, CgTop.next)))
    BY <1>0, <1>1, <2>1, NextKid DEF CgKid
  <2> QED
    BY <1>1, <2>2
<1>2. ASSUME NEW locals, NEW fn \in {"expr", "stmt"}, CgTop.fn = "stmt", NEW i \in 1..Arity(at),
             Kind(at) \in {"VAR_DECL", "IF", "WHILE"} /\ i = CgTop.next, CallWith(locals, fn, CgKid(i))
      PROVE  Calls1
  <2>1. ~SelfCall(CgTop) /\ Index(CgTop, CgTop.next) = i
    BY <1>0, <1>2 DEF SelfCall, Index
  <2> QED
    BY <1>1, <1>2, <2>1
<1>3. ASSUME NEW locals, NEW fn \in {"expr", "stmt"}, CgTop.fn = "stmt", Kind(at) = "FOR",
             NEW i \in 1..4, CgTop.next = (IF i = 3 THEN 4 ELSE IF i = 4 THEN 3 ELSE i), CallWith(locals, fn, CgKid(i))
      PROVE  Calls1
  <2>1. ~SelfCall(CgTop) /\ Index(CgTop, CgTop.next) = i
    BY <1>0, <1>3 DEF SelfCall, Index
  <2>2. Arity(at) = 4
    BY <1>0, <1>3 DEF HasArity
  <2> QED
    BY <1>1, <1>3, <2>1, <2>2
<1>4. CASE CgDeclaration
  <2>1. CgTop.fn = "module" /\ CgTop.next \in 1..Arity(at)
        /\ CallWith(bb, IF Kind(CgKid(CgTop.next)) = "FUNC_DECL" THEN "define" ELSE "global", CgKid(CgTop.next))
    BY <1>4 DEF CgDeclaration, CallFn
  <2>2. Kind(at) = "PROGRAM"
    BY <1>0, <2>1 DEF KindsOf
  <2>3. ~SelfCall(CgTop) /\ Index(CgTop, CgTop.next) = CgTop.next
    BY <1>0, <2>1, <2>2 DEF SelfCall, Index
  <2> QED
    BY <1>1, <2>1, <2>2, <2>3
<1>5. CASE CgNextStatement
  <2>1. CgTop.fn \in {"stmt", "define"} /\ CgTop.next - 1 \in DOMAIN StatementList /\ Kind(at) \in {"BLOCK", "FUNC_DECL"}
        /\ CallWith(bb, "stmt", StatementList[CgTop.next - 1])
    BY <1>5 DEF CgNextStatement, InList, More, CallFn
  <2>2. ~SelfCall(CgTop) /\ Index(CgTop, CgTop.next) = CgTop.next - 1
    BY <1>0, <2>1 DEF SelfCall, Index
  <2>3. CASE Kind(at) = "BLOCK"
    <3>1. StatementList = ast[at].kids /\ DOMAIN ast[at].kids = 1..Arity(at)
      BY <1>0, <2>3, KidKinds DEF StatementList, CgGood
    <3>2. CgTop.next - 1 \in 1..Arity(at) /\ CallWith(bb, "stmt", CgKid(CgTop.next - 1))
      BY <2>1, <3>1 DEF CgKid, Kid
    <3> QED
      BY <1>1, <2>2, <2>3, <3>2
  <2>4. CASE Kind(at) = "FUNC_DECL"
    <3>1. 1 \in 1..Arity(at)
      BY <1>0, <2>4 DEF HasArity
    <3>2. CgKid(1) \in Nodes
      BY <1>0, <3>1, NodeFacts DEF CgKid
    <3>3. StatementList = ast[CgKid(1)].kids /\ DOMAIN ast[CgKid(1)].kids = 1..Arity(CgKid(1))
      BY <1>0, <2>4, <3>2, KidKinds DEF StatementList, CgGood
    <3>4. CgTop.next - 1 \in 1..Arity(CgKid(1)) /\ CallWith(bb, "stmt", Kid(CgKid(1), CgTop.next - 1))
      BY <2>1, <3>3 DEF Kid
    <3>5. Giver(CgTop) = CgKid(1)
      BY <1>0, <2>4 DEF Giver, CgKid
    <3>6. NextCall("stmt", Kid(CgKid(1), CgTop.next - 1))
      BY <1>0, <2>2, <3>4, <3>5, NextKid
    <3> QED
      BY <3>4, <3>6
  <2> QED
    BY <2>1, <2>3, <2>4
<1>6. CASE CgVarDecl \/ CgWhile \/ CgIfThen \/ CgIfElse \/ CgWhileBody
  <2>1. CgTop.fn = "stmt" /\ Kind(at) \in {"VAR_DECL", "IF", "WHILE"} /\ \E locals : \E fn \in {"expr", "stmt"} :
          CallWith(locals, fn, CgKid(CgTop.next)) /\ CgTop.next \in 1..Arity(at)
    <3>1. CgVarDecl => CallWith(bb, "expr", CgKid(1)) /\ CgTop.next = 1 /\ CgTop.fn = "stmt" /\ Kind(at) = "VAR_DECL" /\ 1 \in 1..Arity(at)
      BY <1>0 DEF CgVarDecl, Step, CallFn, HasArity
    <3>2. CgWhile => (\E locals : CallWith(locals, "expr", CgKid(1))) /\ CgTop.next = 1 /\ CgTop.fn = "stmt" /\ Kind(at) = "WHILE" /\ 1 \in 1..Arity(at)
      BY <1>0 DEF CgWhile, Step, HasArity
    <3>3. CgIfThen => (\E locals : CallWith(locals, "stmt", CgKid(2))) /\ CgTop.next = 2 /\ CgTop.fn = "stmt" /\ Kind(at) = "IF" /\ 2 \in 1..Arity(at)
      BY <1>0 DEF CgIfThen, Step, HasArity
    <3>4. CgIfElse => CallWith(bb, "stmt", CgKid(3)) /\ CgTop.next = 3 /\ CgTop.fn = "stmt" /\ Kind(at) = "IF" /\ 3 \in 1..Arity(at)
      BY <1>0 DEF CgIfElse, Step, CallFn, HasArity
    <3>5. CgWhileBody => CallWith(bb, "stmt", CgKid(2)) /\ CgTop.next = 2 /\ CgTop.fn = "stmt" /\ Kind(at) = "WHILE" /\ 2 \in 1..Arity(at)
      BY <1>0 DEF CgWhileBody, Step, CallFn, HasArity
    <3> QED
      BY <1>6, <3>1, <3>2, <3>3, <3>4, <3>5
  <2> QED
    BY <1>2, <2>1
<1>7. CASE CgFor \/ CgForCond \/ CgForBody \/ CgForPost
  <2>1. CgTop.fn = "stmt" /\ Kind(at) = "FOR" /\ \E i \in 1..4 : \E locals : \E fn \in {"expr", "stmt"} :
          CallWith(locals, fn, CgKid(i)) /\ CgTop.next = (IF i = 3 THEN 4 ELSE IF i = 4 THEN 3 ELSE i)
    <3>1. CgFor => (\E locals : CallWith(locals, "stmt", CgKid(1))) /\ CgTop.next = 1 /\ CgTop.fn = "stmt" /\ Kind(at) = "FOR"
      BY DEF CgFor, Step
    <3>2. CgForCond => CallWith(bb, "expr", CgKid(2)) /\ CgTop.next = 2 /\ CgTop.fn = "stmt" /\ Kind(at) = "FOR"
      BY DEF CgForCond, Step, CallFn
    <3>3. CgForBody => CallWith(bb, "stmt", CgKid(4)) /\ CgTop.next = 3 /\ CgTop.fn = "stmt" /\ Kind(at) = "FOR"
      BY DEF CgForBody, Step, CallFn
    <3>4. CgForPost => CallWith(bb, "expr", CgKid(3)) /\ CgTop.next = 4 /\ CgTop.fn = "stmt" /\ Kind(at) = "FOR"
      BY DEF CgForPost, Step, CallFn
    <3> QED
      BY <1>7, <3>1, <3>2, <3>3, <3>4
  <2> QED
    BY <1>3, <2>1
<1>8. CASE CgLogicalTest
  <2>1. Kind(at) = "BINARY" /\ CgTop.next = 2 /\ \E locals : CallWith(locals, "expr", CgKid(2))
    BY <1>8 DEF CgLogicalTest, Step
  <2>2. ~SelfCall(CgTop) /\ Index(CgTop, CgTop.next) = 2 /\ 2 \in 1..Arity(at)
    BY <1>0, <2>1 DEF SelfCall, Index, HasArity
  <2> QED
    BY <1>1, <2>1, <2>2
<1>9. CASE CgOperand
  <2>1. CgTop.next \in DOMAIN Operands /\ CallWith(bb, Operands[CgTop.next].fn, Operands[CgTop.next].node)
    BY <1>9 DEF CgOperand, CallFn
  <2> QED
    BY <2>1, OperandIsNext
<1>10. CASE CgBlockEnter \/ CgDefine
  <2>1. CgTop.next = 1 /\ Kind(at) \in {"BLOCK", "FUNC_DECL"} /\ CgTop.fn # "expr"
        /\ stack' = [stack EXCEPT ![Len(stack)].next = 2]
    BY <1>10 DEF CgBlockEnter, CgDefine, Step
  <2>2. 1 \notin Steps(CgTop)
    <3>1. Index(CgTop, 1) = 0 /\ ~SelfCall(CgTop)
      BY <1>0, <2>1 DEF Index, SelfCall
    <3> QED
      BY <3>1 DEF Steps
  <2> QED
    BY <2>1, <2>2
<1>11. CgEnd \/ CgPrototype \/ CgDefineEnd \/ CgGlobal \/ CgVarInit \/ CgExprStmt \/ CgReturnStmt \/ CgBlockLeave
        \/ CgIfEnd \/ CgWhileEnd \/ CgForEnd => CgReturn
  BY DEF CgEnd, CgPrototype, CgDefineEnd, CgGlobal, CgVarInit, CgExprStmt, CgReturnStmt, CgBlockLeave,
         CgIfEnd, CgWhileEnd, CgForEnd
<1>12. Answers => CgReturn
  BY AnswersReturn
<1> QED
  BY Zenon, <1>4, <1>5, <1>6, <1>7, <1>8, <1>9, <1>10, <1>11, <1>12 DEF CgNext, Answers

-----------------------------------------------------------------------------
(* CodeGen walks the tree: no node is come to twice. *)

\* cs is the path down to the running function's node, what is ahead of it has no value yet, and
\* lvalues are what the caller needs the address of.
NestIn(cs, values) ==
  /\ \A i \in 1..Len(cs) : Kind(cs[i].node) = "IDENT" => values[cs[i].node] = "none"
  /\ \A i \in 1..Len(cs) : \A k \in Steps(cs[i]) :
       k >= cs[i].next => \A n \in Nodes : Under(n, StepKid(cs[i], k)) => values[n] = "none"
  /\ \A i, j \in 1..Len(cs) : i < j =>
       cs[i].next - 1 \in Steps(cs[i]) /\ Under(cs[j].node, StepKid(cs[i], cs[i].next - 1))
  /\ \A i, j \in 1..Len(cs) : j = i + 1 =>
       /\ cs[j].node = StepKid(cs[i], cs[i].next - 1)
       /\ cs[j].fn = "lvalue" => SelfCall(cs[i]) \/ Addressed(cs[j].node)
       /\ SelfCall(cs[i]) => cs[j].fn = "lvalue"

LEMMA AppendBefore ==
  ASSUME NEW s, NEW n \in Nat, DOMAIN s = 1..n, NEW e, NEW i \in 1..n
  PROVE  Append(s, e)[i] = s[i]
<1>1. Len(s) = n
  OBVIOUS
<1> QED
  BY <1>1

\* The caller goes on to its next step.
LEMMA CallerNext ==
  ASSUME StackOK, stack # <<>>, NEW locals, NEW fn, NEW n, CallWith(locals, fn, n)
  PROVE  stack'[Depth].next = CgTop.next + 1
<1> DEFINE L == Len(stack)
           resumed == [stack EXCEPT ![L].next = @ + 1, ![L].bb = locals]
           F == CgFrame(fn, n)
<1>1. L \in Nat /\ L >= 1 /\ DOMAIN stack = 1..L /\ stack[L] \in FrameRecords
  BY CgTopFacts
<1>2. DOMAIN resumed = 1..L
  BY <1>1
<1>3. resumed[L].next = stack[L].next + 1
  <2>1. "next" \in DOMAIN stack[L] /\ L \in DOMAIN stack
    BY <1>1 DEF FrameRecords
  <2> QED
    BY <2>1
<1>4. stack' = IF IsNull(n) THEN resumed ELSE Append(resumed, F)
  BY DEF CallWith
<1> HIDE DEF resumed, F, L
<1>5. Append(resumed, F)[L] = resumed[L]
  BY <1>1, <1>2, AppendBefore
<1>6. stack'[L].next = stack[L].next + 1
  BY <1>3, <1>4, <1>5
<1> QED
  BY <1>6 DEF L, Depth, CgTop

LEMMA SameSteps ==
  ASSUME NEW f, NEW g, f.fn = g.fn, f.node = g.node
  PROVE  Steps(f) = Steps(g) /\ (SelfCall(f) <=> SelfCall(g)) /\ \A k : StepKid(f, k) = StepKid(g, k)
<1>1. (SelfCall(f) <=> SelfCall(g)) /\ Giver(f) = Giver(g) /\ \A k : Index(f, k) = Index(g, k)
  BY DEF SelfCall, Giver, Index
<1> QED
  BY <1>1 DEF Steps, StepKid

\* What a step leaves of the frames and the values.
LEMMA StepLeaves ==
  ASSUME CgFine, CgNext, ~CgStart
  PROVE  /\ Depth \in Nat /\ Depth >= 1 /\ Depth' \in Nat /\ Depth' \in {Depth - 1, Depth, Depth + 1}
         /\ \A i \in 1..Depth : i < Depth => stack'[i] = stack[i]
         /\ Depth' >= Depth => stack'[Depth].fn = CgTop.fn /\ stack'[Depth].node = at
         /\ CgTop = stack[Depth] /\ at \in Nodes /\ \A i \in 1..Depth' : stack'[i].node \in Nodes /\ stack'[i].next \in Nat
         /\ DOMAIN val = Nodes /\ DOMAIN cgbind = Nodes
         /\ \A n \in Nodes : n # at => val'[n] = val[n] /\ cgbind'[n] = cgbind[n]
         /\ CgReturn => Depth' = Depth - 1
         /\ StackOK' /\ Nodes' = Nodes
<1>1. CgGood /\ StackOK /\ stack # <<>> /\ Depth \in Nat /\ Depth >= 1 /\ CgTop = stack[Depth] /\ at \in Nodes
  BY FineStack DEF CgFine, CgGood
<1>2. StackMoves /\ StackOK' /\ UNCHANGED ast /\ blocks \in Nat /\ blocks' \in Nat /\ blocks' >= blocks
  BY <1>1, GraphKept DEF Moves
<1>3. Nodes' = Nodes
  BY <1>2 DEF Nodes
<1>4. DataMove
  BY <1>1, <1>2, CallingData, TestingData, IdentData, ExpressionData, DeclaringData DEF CgNext
<1>5. DOMAIN val = Nodes /\ DOMAIN cgbind = Nodes
  BY <1>1 DEF CgGood, DataOK
<1>6. \A n \in Nodes : n # at => val'[n] = val[n] /\ cgbind'[n] = cgbind[n]
  BY <1>4, <1>5 DEF DataMove
<1>7. CgReturn => Depth' = Depth - 1
  BY <1>1, Returned DEF Depth
<1>8. stack' \in Seq(FrameRecords)
  BY <1>2 DEF StackMoves
<1>9. Depth' \in Nat /\ \A i \in 1..Depth' : stack'[i].node \in Nodes /\ stack'[i].next \in Nat
  <2>1. Len(stack') \in Nat /\ \A i \in 1..Len(stack') : stack'[i] \in FrameRecords
    BY <1>8
  <2>2. \A i \in 1..Len(stack') : stack'[i].node \in Nodes /\ stack'[i].next \in Nat
    BY <2>1 DEF FrameRecords
  <2> QED
    BY <2>1, <2>2 DEF Depth
<1> QED
  BY <1>1, <1>2, <1>3, <1>5, <1>6, <1>7, <1>9 DEF StackMoves, Below, Depth

\* Facts about the path down to the running function.
LEMMA PathFacts ==
  ASSUME CgFine, NestIn(stack, val)
  PROVE  /\ \A i \in 1..Depth : i < Depth =>
              stack[i].next - 1 \in Steps(stack[i]) /\ Under(at, StepKid(stack[i], stack[i].next - 1))
         /\ \A i \in 1..Depth : i < Depth /\ Kind(stack[i].node) = "IDENT" => stack[i].node # at
<1>1. CgTop = stack[Depth] /\ at = CgTop.node /\ Depth \in Nat /\ Depth >= 1 /\ \A i \in 1..Depth : stack[i].node \in Nodes
  BY FineStack DEF at
<1>2. \A i \in 1..Depth : i < Depth =>
        stack[i].next - 1 \in Steps(stack[i]) /\ Under(at, StepKid(stack[i], stack[i].next - 1))
  BY <1>1 DEF NestIn, Depth
<1>3. ASSUME NEW i \in 1..Depth, i < Depth, Kind(stack[i].node) = "IDENT", stack[i].node = at PROVE FALSE
  <2>1. ~SelfCall(stack[i])
    BY <1>3 DEF SelfCall
  <2> DEFINE k == stack[i].next - 1
  <2>2. k \in Steps(stack[i]) /\ Under(at, StepKid(stack[i], k)) /\ stack[i].node \in Nodes
    BY <1>1, <1>2, <1>3
  <2> HIDE DEF k
  <2>3. StepKid(stack[i], k) \in Nodes /\ StepKid(stack[i], k) > at /\ Whole
    BY <1>3, <2>1, <2>2, StepFacts DEF CgFine
  <2>4. at \in Nodes /\ AstTypeOK /\ TreeOK /\ Nodes = 1..Len(ast) /\ Len(ast) \in Nat
    BY <2>3, FineStack, ParentFacts DEF Whole
  <2> QED
    BY <2>2, <2>3, <2>4, UnderFacts
<1> QED
  BY <1>2, <1>3

\* The running function returns.
LEMMA NestReturns ==
  ASSUME CgFine, CgNext, ~CgStart, NestIn(stack, val), CgReturn
  PROVE  NestIn(stack', val')
<1> DEFINE D == Depth
<1>1. /\ D \in Nat /\ D >= 1 /\ Len(stack') = D - 1 /\ \A i \in 1..D : i < D => stack'[i] = stack[i]
      /\ \A n \in Nodes : n # at => val'[n] = val[n]
      /\ at \in Nodes /\ \A i \in 1..D : stack[i].node \in Nodes
  BY FineStack, StepLeaves DEF Depth
<1>2. /\ \A i \in 1..D : i < D =>
              stack[i].next - 1 \in Steps(stack[i]) /\ Under(at, StepKid(stack[i], stack[i].next - 1))
      /\ \A i \in 1..D : i < D /\ Kind(stack[i].node) = "IDENT" => stack[i].node # at
  BY PathFacts
<1>3. /\ \A i \in 1..D : Kind(stack[i].node) = "IDENT" => val[stack[i].node] = "none"
      /\ \A i \in 1..D : \A k \in Steps(stack[i]) :
           k >= stack[i].next => \A n \in Nodes : Under(n, StepKid(stack[i], k)) => val[n] = "none"
      /\ \A i, j \in 1..D : i < j =>
           stack[i].next - 1 \in Steps(stack[i]) /\ Under(stack[j].node, StepKid(stack[i], stack[i].next - 1))
      /\ \A i, j \in 1..D : j = i + 1 =>
           /\ stack[j].node = StepKid(stack[i], stack[i].next - 1)
           /\ stack[j].fn = "lvalue" => SelfCall(stack[i]) \/ Addressed(stack[j].node)
           /\ SelfCall(stack[i]) => stack[j].fn = "lvalue"
  BY DEF NestIn, Depth
<1>w. Whole
  BY DEF CgFine
<1> HIDE DEF D
<1>4. \A i \in 1..(D - 1) : i \in 1..D /\ i < D /\ stack'[i] = stack[i]
  BY <1>1
<1>5. \A i \in 1..(D - 1) : Kind(stack'[i].node) = "IDENT" => val'[stack'[i].node] = "none"
  BY <1>1, <1>2, <1>3, <1>4
<1>6. ASSUME NEW i \in 1..(D - 1), NEW k \in Steps(stack'[i]), k >= stack'[i].next,
             NEW n \in Nodes, Under(n, StepKid(stack'[i], k))
      PROVE  val'[n] = "none"
  <2> DEFINE f == stack[i]
             l == f.next - 1
  <2>1. stack'[i] = f /\ i \in 1..D /\ i < D /\ f.node \in Nodes /\ f.next \in Nat
    BY <1>1, <1>4, <1>6, FineStack DEF D
  <2>2. l \in Steps(f) /\ Under(at, StepKid(f, l)) /\ k # l
    BY <1>2, <1>6, <2>1
  <2>3. Under(n, StepKid(f, k)) /\ k \in Steps(f)
    BY <1>6, <2>1
  <2>4. val[n] = "none"
    BY <1>3, <1>6, <2>1, <2>3
  <2> HIDE DEF f, l
  <2>5. n # at
    BY <1>1, <1>w, <2>1, <2>2, <2>3, StepsApart
  <2> QED
    BY <1>1, <2>4, <2>5
<1>7. \A i, j \in 1..(D - 1) : i < j =>
           stack'[i].next - 1 \in Steps(stack'[i]) /\ Under(stack'[j].node, StepKid(stack'[i], stack'[i].next - 1))
  BY <1>3, <1>4
<1>8. \A i, j \in 1..(D - 1) : j = i + 1 =>
           /\ stack'[j].node = StepKid(stack'[i], stack'[i].next - 1)
           /\ stack'[j].fn = "lvalue" => SelfCall(stack'[i]) \/ Addressed(stack'[j].node)
           /\ SelfCall(stack'[i]) => stack'[j].fn = "lvalue"
  BY <1>3, <1>4
<1> QED
  BY <1>1, <1>5, <1>6, <1>7, <1>8 DEF NestIn

\* The running function goes on; it calls the child that is next, or opens a list.
LEMMA NestGoesOn ==
  ASSUME CgFine, CgNext, ~CgStart, NestIn(stack, val), UNCHANGED val, Depth' >= Depth,
         NEW c \in Nodes, NEW fn,
         \/ NextCall(fn, c) /\ stack'[Depth].next = CgTop.next + 1
         \/ Depth' = Depth /\ CgTop.next = 1 /\ 1 \notin Steps(CgTop) /\ stack'[Depth].next = 2,
         Depth' = Depth + 1 => stack'[Depth + 1] = CgFrame(fn, c)
  PROVE  NestIn(stack', val')
<1> DEFINE D == Depth
           E == Depth'
           top == stack'[D]
           new == stack'[D + 1]
<1>1. /\ D \in Nat /\ D >= 1 /\ E \in Nat /\ Len(stack') = E /\ E \in {D, D + 1}
      /\ \A i \in 1..D : i < D => stack'[i] = stack[i]
      /\ top.fn = CgTop.fn /\ top.node = CgTop.node /\ CgTop = stack[D] /\ CgTop.node \in Nodes
      /\ CgTop.next \in Nat /\ \A i \in 1..D : stack[i].node \in Nodes /\ stack[i].next \in Nat
  BY FineStack, StepLeaves DEF Depth, at
<1>2. Steps(top) = Steps(CgTop) /\ (SelfCall(top) <=> SelfCall(CgTop)) /\ \A k : StepKid(top, k) = StepKid(CgTop, k)
  BY <1>1, SameSteps
<1>3. /\ \A i \in 1..D : Kind(stack[i].node) = "IDENT" => val[stack[i].node] = "none"
      /\ \A i \in 1..D : \A k \in Steps(stack[i]) :
           k >= stack[i].next => \A n \in Nodes : Under(n, StepKid(stack[i], k)) => val[n] = "none"
      /\ \A i, j \in 1..D : i < j =>
           stack[i].next - 1 \in Steps(stack[i]) /\ Under(stack[j].node, StepKid(stack[i], stack[i].next - 1))
      /\ \A i, j \in 1..D : j = i + 1 =>
           /\ stack[j].node = StepKid(stack[i], stack[i].next - 1)
           /\ stack[j].fn = "lvalue" => SelfCall(stack[i]) \/ Addressed(stack[j].node)
           /\ SelfCall(stack[i]) => stack[j].fn = "lvalue"
  BY DEF NestIn, Depth
<1>4. E = D + 1 => /\ new.fn = fn /\ new.node = c /\ new.next = 1 /\ NextCall(fn, c)
                   /\ top.next = CgTop.next + 1
  BY <1>1 DEF CgFrame
<1>5. top.next >= CgTop.next /\ \A k \in Steps(CgTop) : k >= top.next => k >= CgTop.next
  <2>1. \A k \in Steps(CgTop) : k \in Nat
    BY DEF Steps
  <2> QED
    BY <1>1, <2>1
<1>6. E = D + 1 => /\ CgTop.next \in Steps(CgTop) /\ c = StepKid(CgTop, CgTop.next) /\ top.next - 1 = CgTop.next
                   /\ fn = "lvalue" => SelfCall(CgTop) \/ Addressed(c)
                   /\ SelfCall(CgTop) => fn = "lvalue"
  BY <1>1, <1>4 DEF NextCall
<1>w. Whole /\ AstTypeOK /\ TreeOK
  BY DEF CgFine, Whole
<1> HIDE DEF D, E, top, new
<1>7. \A i \in 1..E : i < D \/ i = D \/ (i = D + 1 /\ E = D + 1)
  BY <1>1
<1>8. E = D + 1 => \A n \in Nodes : Under(n, c) => val[n] = "none"
  <2>1. CgTop.next >= stack[D].next /\ D \in 1..D
    BY <1>1
  <2> QED
    BY <1>1, <1>3, <1>6, <2>1
<1>9. E = D + 1 => Under(c, CgTop.node) /\ Under(c, c)
  BY <1>1, <1>6, <1>w, StepFacts, UnderSelf
<1>10. \A i \in 1..E : Kind(stack'[i].node) = "IDENT" => val[stack'[i].node] = "none"
  <2> SUFFICES ASSUME NEW i \in 1..E, Kind(stack'[i].node) = "IDENT" PROVE val[stack'[i].node] = "none"
    OBVIOUS
  <2>1. CASE i < D
    BY <1>1, <1>3, <2>1
  <2>2. CASE i = D
    BY <1>1, <1>3, <2>2 DEF top
  <2>3. CASE i = D + 1 /\ E = D + 1
    BY <1>4, <1>8, <1>9, <2>3 DEF new
  <2> QED
    BY <1>7, <2>1, <2>2, <2>3
<1>11. ASSUME NEW i \in 1..E, NEW k \in Steps(stack'[i]), k >= stack'[i].next,
              NEW n \in Nodes, Under(n, StepKid(stack'[i], k))
       PROVE  val[n] = "none"
  <2>1. CASE i < D
    BY <1>1, <1>3, <1>11, <2>1
  <2>2. CASE i = D
    <3>1. k \in Steps(CgTop) /\ k >= CgTop.next /\ Under(n, StepKid(CgTop, k)) /\ D \in 1..D
      BY <1>1, <1>2, <1>5, <1>11, <2>2 DEF top
    <3> QED
      BY <1>1, <1>3, <3>1
  <2>3. CASE i = D + 1 /\ E = D + 1
    <3>1. k \in Steps(new) /\ new.node = c /\ Under(n, StepKid(new, k))
      BY <1>4, <1>11, <2>3 DEF new
    <3>2. Under(StepKid(new, k), c)
      BY <1>w, <3>1, StepFacts
    <3>3. Under(n, c)
      BY <1>w, <1>11, <3>1, <3>2, UnderTransitive
    <3> QED
      BY <1>8, <1>11, <2>3, <3>3
  <2> QED
    BY <1>7, <2>1, <2>2, <2>3
<1>12. ASSUME NEW i \in 1..E, NEW j \in 1..E, i < j
       PROVE  stack'[i].next - 1 \in Steps(stack'[i]) /\ Under(stack'[j].node, StepKid(stack'[i], stack'[i].next - 1))
  <2>1. i <= D
    BY <1>1, <1>12
  <2>2. CASE i < D /\ j < D
    <3>1. i \in 1..D /\ j \in 1..D /\ stack'[i] = stack[i] /\ stack'[j] = stack[j]
      BY <1>1, <2>2
    <3> QED
      BY <1>3, <1>12, <3>1
  <2>3. CASE i < D /\ j = D
    BY <1>1, <1>3, <1>12, <2>3 DEF top
  <2>4. CASE i < D /\ j = D + 1 /\ E = D + 1
    <3>1. stack'[i] = stack[i] /\ stack[i].next - 1 \in Steps(stack[i]) /\ Under(stack[D].node, StepKid(stack[i], stack[i].next - 1))
      BY <1>1, <1>3, <2>4
    <3>2. stack'[j].node = c /\ Under(c, stack[D].node)
      BY <1>1, <1>4, <1>9, <2>4 DEF new
    <3>3. Under(c, StepKid(stack[i], stack[i].next - 1))
      BY <1>w, <3>1, <3>2, UnderTransitive
    <3> QED
      BY <3>1, <3>2, <3>3
  <2>5. CASE i = D
    <3>1. j = D + 1 /\ E = D + 1
      BY <1>1, <1>12, <2>5
    <3>2. Under(new.node, StepKid(top, top.next - 1)) /\ top.next - 1 \in Steps(top)
      BY <1>2, <1>4, <1>6, <1>9, <3>1
    <3> QED
      BY <2>5, <3>1, <3>2 DEF top, new
  <2> QED
    BY <1>1, <1>12, <2>1, <2>2, <2>3, <2>4, <2>5
<1>13. ASSUME NEW i \in 1..E, NEW j \in 1..E, j = i + 1
       PROVE  /\ stack'[j].node = StepKid(stack'[i], stack'[i].next - 1)
              /\ stack'[j].fn = "lvalue" => SelfCall(stack'[i]) \/ Addressed(stack'[j].node)
              /\ SelfCall(stack'[i]) => stack'[j].fn = "lvalue"
  <2>1. CASE j < D
    <3>1. i \in 1..D /\ j \in 1..D /\ stack'[i] = stack[i] /\ stack'[j] = stack[j]
      BY <1>1, <1>13, <2>1
    <3> QED
      BY <1>3, <1>13, <3>1
  <2>2. CASE j = D
    <3>1. stack'[i] = stack[i] /\ i \in 1..D /\ j \in 1..D /\ stack'[j].fn = stack[j].fn /\ stack'[j].node = stack[j].node
      BY <1>1, <1>13, <2>2 DEF top
    <3> QED
      BY <1>3, <1>13, <3>1
  <2>3. CASE j = D + 1 /\ E = D + 1
    <3>1. i = D
      BY <1>1, <1>13, <2>3
    <3>2. /\ new.node = StepKid(top, top.next - 1)
          /\ new.fn = "lvalue" => SelfCall(top) \/ Addressed(new.node)
          /\ SelfCall(top) => new.fn = "lvalue"
      BY <1>2, <1>4, <1>6, <2>3
    <3> QED
      BY <2>3, <3>1, <3>2 DEF top, new
  <2> QED
    BY <1>7, <2>1, <2>2, <2>3
<1>14. Len(stack') = E /\ val' = val
  BY <1>1
<1> QED
  BY <1>10, <1>11, <1>12, <1>13, <1>14 DEF NestIn

NestInv == phase = "codegen" /\ stack # <<>> => NestIn(stack, val)

LEMMA NestStable ==
  ASSUME UNCHANGED ast, NestIn(stack', val')
  PROVE  NestIn(stack, val)'
<1>1. Nodes' = Nodes /\ Path' = Path
  BY RulesStable
<1>2. \A n : Kind(n)' = Kind(n) /\ Arity(n)' = Arity(n) /\ \A i : Kid(n, i)' = Kid(n, i)
  BY DEF Kind, Arity, Kid
<1>3. \A n, m : Under(n, m)' <=> Under(n, m)
  BY <1>1 DEF Under
<1>4. \A n : Addressed(n)' <=> Addressed(n)
  BY <1>2 DEF Addressed, Parent, Kind, Kid, Arity
<1>5. \A f : (SelfCall(f)' <=> SelfCall(f)) /\ Giver(f)' = Giver(f) /\ \A k : Index(f, k)' = Index(f, k)
  BY <1>2 DEF SelfCall, Giver, Index
<1>6. \A f : Steps(f)' = Steps(f) /\ \A k : StepKid(f, k)' = StepKid(f, k)
  BY <1>2, <1>5 DEF Steps, StepKid
<1> QED
  BY <1>1, <1>2, <1>3, <1>4, <1>5, <1>6 DEF NestIn

LEMMA NestMoves ==
  ASSUME CgFine, CgNext, ~CgStart, NestIn(stack, val)
  PROVE  NestIn(stack', val')
<1>1. CASE CgReturn
  BY <1>1, NestReturns
<1>2. CASE ~CgReturn
  <2>1. ~Answers
    BY <1>2, AnswersReturn
  <2>2. UNCHANGED val
    BY <2>1, QuietSteps
  <2>3. /\ Depth \in Nat /\ Depth >= 1 /\ StackOK /\ StackOK' /\ stack # <<>> /\ at \in Nodes /\ Whole
        /\ Depth' \in {Depth - 1, Depth, Depth + 1} /\ stack \in Seq(FrameRecords)
    BY StepLeaves DEF CgFine, CgGood, StackOK
  <2>4. CASE \E locals, fn, c : NextCall(fn, c) /\ CallWith(locals, fn, c)
    <3>1. PICK locals, fn, c : NextCall(fn, c) /\ CallWith(locals, fn, c)
      BY <2>4
    <3>2. c \in Nodes
      BY <2>3, <3>1, StepFacts DEF NextCall, at
    <3>3. stack'[Depth].next = CgTop.next + 1
      BY <2>3, <3>1, CallerNext
    <3>4. Depth' >= Depth
      <4> DEFINE L == Len(stack)
                 r == [stack EXCEPT ![L].next = @ + 1, ![L].bb = locals]
                 F == CgFrame(fn, c)
      <4>1. L \in Nat /\ DOMAIN stack = 1..L
        BY <2>3
      <4>2. DOMAIN r = 1..L
        BY <4>1
      <4>3. stack' = r \/ stack' = Append(r, F)
        BY <3>1 DEF CallWith
      <4> HIDE DEF r, L, F
      <4>4. Len(r) = L
        BY <4>1, <4>2
      <4>5. Len(stack') >= L
        <5>1. DOMAIN stack' = 1..Depth' /\ Len(stack') = Depth'
          BY <2>3 DEF StackOK, Depth
        <5>2. CASE stack' = r
          BY <4>1, <4>4, <5>2
        <5>3. CASE stack' = Append(r, F)
          <6>1. Append(r, F)[L + 1] = F /\ L + 1 \in DOMAIN Append(r, F)
            BY <4>1, <4>2, <4>4, AppendLast
          <6> QED
            BY <2>3, <4>1, <5>1, <5>3, <6>1
        <5> QED
          BY <4>3, <5>2, <5>3
      <4> QED
        BY <4>5 DEF L, Depth
    <3>5. Depth' = Depth + 1 => stack'[Depth + 1] = CgFrame(fn, c)
      BY <2>3, <3>1, CalledFrame
    <3> QED
      BY <2>2, <3>1, <3>2, <3>3, <3>4, <3>5, NestGoesOn
  <2>5. CASE stack' = [stack EXCEPT ![Len(stack)].next = 2] /\ CgTop.next = 1 /\ 1 \notin Steps(CgTop)
    <3>1. Depth' = Depth /\ stack'[Depth].next = 2
      BY <2>3, <2>5, Advanced2
    <3>2. \E c : c \in Nodes
      BY <2>3
    <3>3. PICK c : c \in Nodes
      BY <3>2
    <3>4. Depth' >= Depth /\ (Depth' = Depth + 1 => stack'[Depth + 1] = CgFrame("stmt", c))
      BY <2>3, <3>1
    <3> QED
      BY <2>2, <2>3, <2>5, <3>1, <3>3, <3>4, NestGoesOn
  <2> QED
    BY <1>2, <2>4, <2>5, GoesOrReturns
<1> QED
  BY <1>1, <1>2

LEMMA NestStarts ==
  ASSUME Whole, CgStart
  PROVE  NestIn(stack', val')
<1>1. stack' = <<CgFrame("module", 1)>> /\ val' = [n \in Nodes |-> "none"]
  BY DEF CgStart
<1>2. Len(stack') = 1 /\ stack'[1] = CgFrame("module", 1) /\ stack'[1].node = 1
  BY <1>1 DEF CgFrame
<1>3. 1 \in Nodes
  BY ParentFacts DEF Whole
<1>4. \A n \in Nodes : val'[n] = "none"
  BY <1>1
<1>5. \A i \in 1..Len(stack') : i = 1
  BY <1>2
<1> QED
  BY <1>2, <1>3, <1>4, <1>5 DEF NestIn

LEMMA NestKept == MainInv /\ SemaInv /\ VisitInv /\ CgInv /\ NestInv /\ [Next]_vars => NestInv'
<1> SUFFICES ASSUME MainInv, SemaInv, VisitInv, CgInv, NestInv, [Next]_vars PROVE NestInv'
  OBVIOUS
<1>1. CASE SemaNext /\ UNCHANGED <<cgVars, mainVars>>
  <2>1. stack = <<>> /\ stack' = <<>>
    <3>1. CgInit
      BY <1>1, SemaPhases DEF CgInv, Idle
    <3> QED
      BY <1>1, <3>1 DEF CgInit, cgVars
  <2> QED
    BY <2>1 DEF NestInv
<1>2. CASE CgNext
  <2>1. phase = "codegen" /\ UNCHANGED ast /\ Whole
    BY <1>2, CgKeepsSema DEF SemaInv, VisitInv, Whole
  <2>2. NestIn(stack', val')
    <3>1. CASE stack = <<>>
      BY <1>2, <2>1, <3>1, OnlyStarts, NestStarts
    <3>2. CASE stack # <<>>
      <4>1. CgFine
        BY <2>1, <3>2 DEF CgFine, CgGood, CgInv, Whole
      <4>2. ~CgStart /\ NestIn(stack, val)
        BY <2>1, <3>2 DEF NestInv, CgStart
      <4> QED
        BY <1>2, <4>1, <4>2, NestMoves
    <3> QED
      BY <3>1, <3>2
  <2> QED
    BY <2>1, <2>2, NestStable DEF NestInv
<1>3. CASE Main
  <2>1. phase' \in {"done", "write_ir", "write_object"}
    BY <1>3 DEF Main, MainNoParse, MainRejected, MainVerify, MainWriteIr, MainWriteObject, Exit
  <2> QED
    BY <2>1 DEF NestInv
<1>4. CASE UNCHANGED vars
  <2>1. UNCHANGED <<ast, phase, stack, val>>
    BY <1>4 DEF vars, cgVars, kept, semaVars
  <2>2. NestIn(stack, val) => NestIn(stack', val')
    BY <2>1
  <2> QED
    BY <2>1, <2>2, NestStable DEF NestInv
<1> QED
  BY <1>1, <1>2, <1>3, <1>4 DEF Next, Ended

LEMMA NestAlways == Spec => []NestInv
<1>1. Init => NestInv
  BY DEF Init, SemaInit, AstInit, NestInv
<1> QED
  BY <1>1, NestKept, MainHolds, SemaInvAlways, VisitInvAlways, CgInvAlways, PTL DEF Spec

-----------------------------------------------------------------------------
(* The values of expressions. *)

\* Where something has gone wrong: a use LLVM does not allow, a name with another meaning.
wrong == {m \in Nodes : HasFault(m) \/ (Kind(m) = "IDENT" /\ Visited(m) /\ cgbind[m] # bind[m].decl)}

\* v is a value c may have: an address, or a value of the type Sema resolved; NULL stands for an
\* address or a pointer after an error.
TypedAs(c, v, failed) ==
  IF Addressed(c) THEN v = "ptr" \/ (v = "NULL" /\ failed)
  ELSE v = LlvmType(rtype[c]) \/ (v = "NULL" /\ ~Scalar(rtype[c]) /\ failed)

CleanIn(n, bad) == \A m \in Nodes : Under(m, n) => m \notin bad
DoneIn(c, values, bad, failed) == CleanIn(c, bad) => TypedAs(c, values[c], failed)

\* What the children that are done have given.
ValuesIn(cs, values, bad, failed) ==
  \A i \in 1..Len(cs) : \A k \in Steps(cs[i]) :
    k < cs[i].next /\ (i < Len(cs) => k < cs[i].next - 1) =>
      IF SelfCall(cs[i]) THEN values[cs[i].node] = "ptr"
      ELSE Kind(StepKid(cs[i], k)) \in ExprKinds => DoneIn(StepKid(cs[i], k), values, bad, failed)

LEMMA DoneStays ==
  ASSUME NEW c, NEW v, NEW w, v[c] = w[c], NEW bad, NEW more, bad \subseteq more,
         NEW failed, NEW later, failed => later, DoneIn(c, v, bad, failed)
  PROVE  DoneIn(c, w, more, later)
<1> SUFFICES ASSUME CleanIn(c, more) PROVE TypedAs(c, w[c], later)
  BY DEF DoneIn
<1>1. CleanIn(c, bad)
  BY DEF CleanIn
<1>2. TypedAs(c, v[c], failed)
  BY <1>1 DEF DoneIn
<1> QED
  BY <1>2, Zenon DEF TypedAs

LEMMA ValuesReturn ==
  ASSUME CgFine, CgNext, ~CgStart, CgReturn, NestIn(stack, val),
         NEW bad, NEW more, bad \subseteq more, NEW failed, NEW later, failed => later,
         ValuesIn(stack, val, bad, failed),
         CgTop.fn = "lvalue" /\ Kind(at) = "INDEX" => val'[at] = "ptr",
         Depth >= 2 /\ ~SelfCall(stack[Depth - 1]) /\ Kind(at) \in ExprKinds => DoneIn(at, val', more, later)
  PROVE  ValuesIn(stack', val', more, later)
<1> DEFINE D == Depth
<1>1. /\ D \in Nat /\ D >= 1 /\ Len(stack') = D - 1 /\ \A i \in 1..D : i < D => stack'[i] = stack[i]
      /\ \A n \in Nodes : n # at => val'[n] = val[n]
      /\ at \in Nodes /\ \A i \in 1..D : stack[i].node \in Nodes /\ stack[i].next \in Nat
      /\ CgTop = stack[D] /\ at = CgTop.node
  BY FineStack, StepLeaves DEF Depth, at
<1>2. \A i \in 1..D : i < D =>
        stack[i].next - 1 \in Steps(stack[i]) /\ Under(at, StepKid(stack[i], stack[i].next - 1))
  BY PathFacts
<1>3. \A i \in 1..D : \A k \in Steps(stack[i]) :
        k < stack[i].next /\ (i < D => k < stack[i].next - 1) =>
          IF SelfCall(stack[i]) THEN val[stack[i].node] = "ptr"
          ELSE Kind(StepKid(stack[i], k)) \in ExprKinds => DoneIn(StepKid(stack[i], k), val, bad, failed)
  BY DEF ValuesIn, Depth
<1>4. \A i, j \in 1..D : j = i + 1 =>
        /\ stack[j].node = StepKid(stack[i], stack[i].next - 1)
        /\ SelfCall(stack[i]) => stack[j].fn = "lvalue"
  BY DEF NestIn, Depth
<1>w. Whole
  BY DEF CgFine
<1> HIDE DEF D
<1>5. ASSUME NEW i \in 1..(D - 1), NEW k \in Steps(stack'[i]), k < stack'[i].next,
             i < D - 1 => k < stack'[i].next - 1
      PROVE  IF SelfCall(stack'[i]) THEN val'[stack'[i].node] = "ptr"
             ELSE Kind(StepKid(stack'[i], k)) \in ExprKinds => DoneIn(StepKid(stack'[i], k), val', more, later)
  <2> DEFINE f == stack[i]
             l == f.next - 1
             c == StepKid(f, k)
  <2>1. stack'[i] = f /\ i \in 1..D /\ i < D /\ f.node \in Nodes /\ f.next \in Nat /\ k \in Steps(f) /\ k \in Nat
    BY <1>1, <1>5 DEF Steps
  <2>2. l \in Steps(f) /\ Under(at, StepKid(f, l)) /\ l = f.next - 1
    BY <1>2, <2>1
  <2>3. k < l \/ (k = l /\ i = D - 1)
    BY <1>1, <1>5, <2>1
  <2>4. i = D - 1 => at = StepKid(f, l) /\ (SelfCall(f) => CgTop.fn = "lvalue")
    <3>1. i = D - 1 => i + 1 \in 1..D /\ i + 1 = D
      BY <1>1, <2>1
    <3> QED
      BY <1>1, <1>4, <2>1, <3>1
  <2> HIDE DEF f, l
  <2>5. CASE SelfCall(f)
    <3>1. k = 1 /\ l = 1
      BY <2>1, <2>2, <2>5 DEF Steps
    <3>2. i = D - 1 /\ at = f.node /\ CgTop.fn = "lvalue" /\ Kind(at) = "INDEX"
      BY <2>3, <2>4, <2>5, <3>1 DEF StepKid, SelfCall
    <3> QED
      BY <2>1, <2>5, <3>2
  <2>6. CASE ~SelfCall(f) /\ k < l
    <3>1. k < f.next /\ k < f.next - 1
      BY <2>1, <2>2, <2>6
    <3>2. Kind(c) \in ExprKinds => DoneIn(c, val, bad, failed)
      BY <1>3, <2>1, <2>6, <3>1 DEF f
    <3>3. c \in Nodes /\ Under(c, c)
      BY <1>w, <2>1, StepFacts, UnderSelf DEF Whole
    <3> HIDE DEF c
    <3>4. c # at
      <4>1. k # l
        BY <2>1, <2>2, <2>6
      <4>2. ~Under(at, StepKid(f, k))
        BY <1>1, <1>w, <2>1, <2>2, <4>1, StepsApart
      <4> QED
        BY <3>3, <4>2 DEF c
    <3>5. val[c] = val'[c]
      BY <1>1, <3>3, <3>4
    <3>6. Kind(c) \in ExprKinds => DoneIn(c, val', more, later)
      BY <3>2, <3>5, DoneStays
    <3> QED
      BY <2>1, <2>6, <3>6 DEF c
  <2>7. CASE ~SelfCall(f) /\ k = l /\ i = D - 1
    <3>1. at = c /\ D >= 2 /\ f = stack[D - 1]
      BY <1>1, <2>4, <2>7 DEF f
    <3> QED
      BY <2>1, <2>7, <3>1 DEF D
  <2> QED
    BY <2>3, <2>5, <2>6, <2>7
<1> QED
  BY <1>1, <1>5 DEF ValuesIn

LEMMA ValuesGoOn ==
  ASSUME CgFine, CgNext, ~CgStart, UNCHANGED val, Depth' >= Depth,
         NEW bad, NEW more, bad \subseteq more, NEW failed, NEW later, failed => later,
         ValuesIn(stack, val, bad, failed), NEW c \in Nodes, NEW fn,
         \/ NextCall(fn, c) /\ stack'[Depth].next = CgTop.next + 1 /\ (Depth' = Depth => IsNull(c))
         \/ Depth' = Depth /\ CgTop.next = 1 /\ 1 \notin Steps(CgTop) /\ stack'[Depth].next = 2,
         Depth' = Depth + 1 => stack'[Depth + 1] = CgFrame(fn, c)
  PROVE  ValuesIn(stack', val', more, later)
<1> DEFINE D == Depth
           E == Depth'
           top == stack'[D]
           new == stack'[D + 1]
<1>1. /\ D \in Nat /\ D >= 1 /\ E \in Nat /\ Len(stack') = E /\ E \in {D, D + 1}
      /\ \A i \in 1..D : i < D => stack'[i] = stack[i]
      /\ top.fn = CgTop.fn /\ top.node = CgTop.node /\ CgTop = stack[D] /\ CgTop.node \in Nodes
      /\ CgTop.next \in Nat /\ \A i \in 1..D : stack[i].node \in Nodes /\ stack[i].next \in Nat
  BY FineStack, StepLeaves DEF Depth, at
<1>2. Steps(top) = Steps(CgTop) /\ (SelfCall(top) <=> SelfCall(CgTop)) /\ \A k : StepKid(top, k) = StepKid(CgTop, k)
  BY <1>1, SameSteps
<1>3. \A i \in 1..D : \A k \in Steps(stack[i]) :
        k < stack[i].next /\ (i < D => k < stack[i].next - 1) =>
          IF SelfCall(stack[i]) THEN val[stack[i].node] = "ptr"
          ELSE Kind(StepKid(stack[i], k)) \in ExprKinds => DoneIn(StepKid(stack[i], k), val, bad, failed)
  BY DEF ValuesIn, Depth
<1>4. E = D + 1 => new.next = 1 /\ top.next = CgTop.next + 1
  BY <1>1 DEF CgFrame
<1>5. E = D => \/ /\ CgTop.next \in Steps(CgTop) /\ top.next = CgTop.next + 1
                  /\ ~SelfCall(CgTop) /\ Kind(StepKid(CgTop, CgTop.next)) \notin ExprKinds
               \/ CgTop.next = 1 /\ 1 \notin Steps(CgTop) /\ top.next = 2
  <2> SUFFICES ASSUME E = D, NextCall(fn, c), top.next = CgTop.next + 1, IsNull(c)
               PROVE  CgTop.next \in Steps(CgTop) /\ ~SelfCall(CgTop) /\ Kind(StepKid(CgTop, CgTop.next)) \notin ExprKinds
    BY <1>1
  <2>1. c = StepKid(CgTop, CgTop.next) /\ CgTop.next \in Steps(CgTop) /\ Kind(c) = "NULL"
    BY DEF NextCall, IsNull
  <2>2. ~SelfCall(CgTop)
    BY <2>1 DEF SelfCall, StepKid
  <2> QED
    BY <2>1, <2>2 DEF ExprKinds, Literals
<1> HIDE DEF D, E, top, new
<1>6. ASSUME NEW i \in 1..E, NEW k \in Steps(stack'[i]), k < stack'[i].next, i < E => k < stack'[i].next - 1
      PROVE  IF SelfCall(stack'[i]) THEN val[stack'[i].node] = "ptr"
             ELSE Kind(StepKid(stack'[i], k)) \in ExprKinds => DoneIn(StepKid(stack'[i], k), val, more, later)
  <2>k. k \in Nat /\ k >= 1
    BY <1>6 DEF Steps
  <2>0. i < D \/ i = D \/ (i = D + 1 /\ E = D + 1)
    BY <1>1
  <2>1. ASSUME NEW f, f = stack[i], i \in 1..D, k \in Steps(f), k < f.next, i < D => k < f.next - 1
        PROVE  IF SelfCall(f) THEN val[f.node] = "ptr"
               ELSE Kind(StepKid(f, k)) \in ExprKinds => DoneIn(StepKid(f, k), val, more, later)
    <3>1. IF SelfCall(f) THEN val[f.node] = "ptr"
          ELSE Kind(StepKid(f, k)) \in ExprKinds => DoneIn(StepKid(f, k), val, bad, failed)
      BY <1>3, <2>1
    <3>2. DoneIn(StepKid(f, k), val, bad, failed) => DoneIn(StepKid(f, k), val, more, later)
      BY DoneStays
    <3> QED
      BY <3>1, <3>2
  <2>2. CASE i < D
    <3>1. stack'[i] = stack[i] /\ i \in 1..D /\ k < stack[i].next - 1
      BY <1>1, <1>6, <2>2
    <3> QED
      BY <1>6, <2>1, <3>1
  <2>3. CASE i = D
    <3>0. stack'[i] = top /\ stack[i] = CgTop /\ i \in 1..D /\ k \in Steps(CgTop)
      BY <1>1, <1>2, <1>6, <2>3 DEF top
    <3>1. CASE k < CgTop.next
      <4>1. IF SelfCall(CgTop) THEN val[CgTop.node] = "ptr"
            ELSE Kind(StepKid(CgTop, k)) \in ExprKinds => DoneIn(StepKid(CgTop, k), val, more, later)
        BY <2>1, <2>3, <3>0, <3>1
      <4> QED
        BY <1>1, <1>2, <3>0, <4>1
    <3>2. CASE ~(k < CgTop.next)
      <4>1. E = D
        BY <1>1, <1>4, <1>6, <2>3, <2>k, <3>0, <3>2
      <4>2. k = CgTop.next /\ ~SelfCall(CgTop) /\ Kind(StepKid(CgTop, CgTop.next)) \notin ExprKinds
        BY <1>1, <1>5, <1>6, <2>k, <3>0, <3>2, <4>1
      <4> QED
        BY <1>2, <3>0, <4>2
    <3> QED
      BY <3>1, <3>2
  <2>4. CASE i = D + 1 /\ E = D + 1
    BY <1>4, <1>6, <2>k, <2>4 DEF new
  <2> QED
    BY <2>0, <2>2, <2>3, <2>4
<1>7. Len(stack') = E /\ val' = val
  BY <1>1
<1> QED
  BY <1>6, <1>7 DEF ValuesIn

-----------------------------------------------------------------------------
(* The typing rules of Sema, and the values CodeGen computes by them. *)

\* A value of a type; NULL stands for a pointer after an error.
Given(t, v, failed) == v = LlvmType(t) \/ (v = "NULL" /\ ~Scalar(t) /\ failed)

\* Every use is one LLVM allows, but where a NULL that was reported is used too.
Excused(kinds, failed) == kinds = {} \/ ("null" \in kinds /\ failed)

LEMMA LlvmTypes ==
  ASSUME NEW t \in TypeInfos
  PROVE  /\ t.base \in {"INT", "CHAR"} /\ t.ptr_depth \in Nat /\ (Scalar(t) <=> t.ptr_depth = 0)
         /\ LlvmType(t) = IF ~Scalar(t) THEN "ptr" ELSE IF t.base = "CHAR" THEN "i8" ELSE "i32"
         /\ LlvmType(IntType) = "i32" /\ LlvmType(CharType) = "i8" /\ Scalar(IntType) /\ Scalar(CharType)
         /\ t # none
BY DEF TypeInfos, BaseTypes, LlvmType, IntType, CharType, TypeInfo, Scalar, none, Unknown

\* A value converts to a type of the same pointer depth.
LEMMA CoerceFine ==
  ASSUME NEW s \in TypeInfos, NEW t \in TypeInfos, SameDepth(s, t), NEW v, NEW failed \in BOOLEAN, Given(s, v, failed)
  PROVE  /\ CoerceFaults(v, s, t) = {}
         /\ Coerce(v, s, t) = LlvmType(t) \/ (Coerce(v, s, t) = "NULL" /\ failed /\ ~Scalar(t))
<1>1. Scalar(s) <=> Scalar(t)
  BY DEF SameDepth, Scalar
<1>2. CASE Scalar(s)
  <2>1. v = LlvmType(s) /\ v # "ptr"
    BY <1>2, LlvmTypes DEF Given
  <2> QED
    BY <1>1, <1>2, <2>1 DEF CoerceFaults, Coerce, Converts, If
<1>3. CASE ~Scalar(s)
  <2>1. LlvmType(s) = "ptr" /\ LlvmType(t) = "ptr" /\ ~Converts(s, t)
    BY <1>1, <1>3 DEF LlvmType, Converts
  <2> QED
    BY <1>1, <1>3, <2>1 DEF CoerceFaults, Coerce, If, Given
<1> QED
  BY <1>2, <1>3

LEMMA StoreFine ==
  ASSUME NEW s \in TypeInfos, NEW t \in TypeInfos, SameDepth(s, t), NEW v, NEW failed \in BOOLEAN, Given(s, v, failed),
         NEW addr, addr = "ptr" \/ (addr = "NULL" /\ failed)
  PROVE  LET kinds == CoerceFaults(v, s, t) \cup StoreFaults(Coerce(v, s, t), addr, t)
         IN Excused(kinds, failed) /\ (kinds = {} => Coerce(v, s, t) = LlvmType(t))
<1> DEFINE w == Coerce(v, s, t)
           kinds == StoreFaults(w, addr, t)
<1>1. CoerceFaults(v, s, t) = {} /\ (w = LlvmType(t) \/ (w = "NULL" /\ failed /\ ~Scalar(t)))
  BY CoerceFine
<1>2. LlvmType(t) # "NULL"
  BY LlvmTypes
<1> HIDE DEF w
<1>3. CASE w = "NULL" \/ addr = "NULL"
  <2>1. "null" \in kinds /\ failed
    BY <1>1, <1>2, <1>3 DEF StoreFaults, If
  <2> QED
    BY <1>1, <2>1 DEF Excused, w
<1>4. CASE w # "NULL" /\ addr # "NULL"
  <2>1. kinds = {} /\ w = LlvmType(t)
    BY <1>1, <1>4 DEF StoreFaults, If, Ints
  <2> QED
    BY <1>1, <2>1 DEF Excused, w
<1> QED
  BY <1>3, <1>4

LEMMA TestFine ==
  ASSUME NEW t \in TypeInfos, NEW v, NEW failed \in BOOLEAN, Given(t, v, failed)
  PROVE  /\ Scalar(t) => TestFaults(v) = {}
         /\ \A k \in TestFaults(v) : ("null" \in TestFaults(v) /\ failed) \/ (k = "zero" /\ ~Scalar(t))
<1>1. LlvmType(t) \in {"ptr", "i8", "i32"} /\ (Scalar(t) => LlvmType(t) # "ptr")
  BY LlvmTypes
<1> QED
  BY <1>1 DEF Given, TestFaults, If

\* Arithmetic and comparisons.
MixedOperands(op, s, t) == (Scalar(s) # Scalar(t)) /\ (~Scalar(s) => op \notin {"PLUS", "MINUS"})

LEMMA ArithFine ==
  ASSUME NEW s \in TypeInfos, NEW t \in TypeInfos, NEW op \in BinaryOps \ Logical, BinaryType(op, s, t) # none,
         NEW failed \in BOOLEAN, NEW l, Given(s, l, failed), NEW r, Given(t, r, failed)
  PROVE  LET kinds == ArithFaults(op, s, t, l, r)
         IN /\ \A k \in kinds : ("null" \in kinds /\ failed) \/ (k = "operand" /\ MixedOperands(op, s, t))
            /\ kinds = {} => ArithValue(op, s, t, l, r) = LlvmType(BinaryType(op, s, t))
<1> DEFINE kinds == ArithFaults(op, s, t, l, r)
           both == Scalar(s) /\ Scalar(t)
           common == Common(s, t)
<1>0. /\ s.ptr_depth \in Nat /\ t.ptr_depth \in Nat /\ (Scalar(s) <=> s.ptr_depth = 0) /\ (Scalar(t) <=> t.ptr_depth = 0)
      /\ op \notin Logical /\ s.base \in {"INT", "CHAR"} /\ t.base \in {"INT", "CHAR"}
      /\ LlvmType(IntType) = "i32" /\ LlvmType(CharType) = "i8"
      /\ Scalar(s) => LlvmType(s) = IF s.base = "CHAR" THEN "i8" ELSE "i32"
      /\ Scalar(t) => LlvmType(t) = IF t.base = "CHAR" THEN "i8" ELSE "i32"
      /\ ~Scalar(s) => LlvmType(s) = "ptr"
      /\ ~Scalar(t) => LlvmType(t) = "ptr"
  BY LlvmTypes
<1>c. \A o \in Comparisons : o \notin {"PLUS", "MINUS"} /\ o \notin Logical
  BY DEF Comparisons, Logical
<1>1. CASE l = "NULL" \/ r = "NULL"
  <2>1. "null" \in kinds /\ failed
    BY <1>0, <1>1 DEF ArithFaults, If, Given
  <2> QED
    BY <2>1
<1>2. CASE l = LlvmType(s) /\ r = LlvmType(t) /\ both
  <2>1. LlvmType(common) = IF s.base = "CHAR" /\ t.base = "CHAR" THEN "i8" ELSE "i32"
    BY <1>0, <1>2 DEF Common
  <2>2. Coerce(l, s, common) = LlvmType(common) /\ Coerce(r, t, common) = LlvmType(common) /\ Scalar(common)
    BY <1>0, <1>2 DEF Coerce, Converts, Common
  <2>7. CoerceFaults(l, s, common) = {} /\ CoerceFaults(r, t, common) = {}
    BY <1>0, <1>2 DEF CoerceFaults, If
  <2>3. kinds = {}
    BY <1>0, <1>2, <2>1, <2>2, <2>7 DEF ArithFaults, If, PointerOffset, PointerDifference
  <2>4. ArithValue(op, s, t, l, r) = IF op \in Comparisons THEN "i32" ELSE LlvmType(common)
    BY <1>2, <2>2 DEF ArithValue, PointerOffset, PointerDifference
  <2>5. BinaryType(op, s, t) = IF op \in Comparisons THEN IntType
                               ELSE IF s = CharType /\ t = CharType THEN CharType ELSE IntType
    BY <1>0, <1>2 DEF BinaryType, BothScalar
  <2>6. (s = CharType <=> s.base = "CHAR") /\ (t = CharType <=> t.base = "CHAR")
    BY <1>0, <1>2 DEF CharType, TypeInfo, TypeInfos
  <2> QED
    BY <1>0, <2>1, <2>3, <2>4, <2>5, <2>6
<1>3. CASE l = LlvmType(s) /\ r = LlvmType(t) /\ ~Scalar(s) /\ Scalar(t)
  <2>1. l = "ptr" /\ r \in {"i8", "i32"}
    BY <1>0, <1>3
  <2>2. CASE op \in {"PLUS", "MINUS"}
    <3>1. kinds = {} /\ ArithValue(op, s, t, l, r) = "ptr"
      BY <1>3, <2>1, <2>2 DEF ArithFaults, ArithValue, If, PointerOffset, Ints
    <3>2. BinaryType(op, s, t) = s
      BY <1>0, <1>3, <2>2, <1>c DEF BinaryType, BothScalar
    <3> QED
      BY <1>0, <1>3, <3>1, <3>2
  <2>3. CASE op \notin {"PLUS", "MINUS"}
    <3>1. kinds = {"operand"}
      BY <1>3, <2>1, <2>3 DEF ArithFaults, If, PointerOffset, PointerDifference
    <3> QED
      BY <1>3, <2>3, <3>1 DEF MixedOperands
  <2> QED
    BY <2>2, <2>3
<1>4. CASE l = LlvmType(s) /\ r = LlvmType(t) /\ Scalar(s) /\ ~Scalar(t)
  <2>1. r = "ptr" /\ l \in {"i8", "i32"}
    BY <1>0, <1>4
  <2>2. kinds = {"operand"}
    BY <1>4, <2>1 DEF ArithFaults, If, PointerOffset, PointerDifference
  <2> QED
    BY <1>4, <2>2 DEF MixedOperands
<1>5. CASE l = LlvmType(s) /\ r = LlvmType(t) /\ ~Scalar(s) /\ ~Scalar(t)
  <2>1. r = "ptr" /\ l = "ptr"
    BY <1>0, <1>5
  <2>2. op \in Comparisons \/ op = "MINUS"
    BY <1>0, <1>5 DEF BinaryType, BothScalar
  <2>3. BinaryType(op, s, t) = IntType
    BY <1>0, <1>5, <2>2, <1>c DEF BinaryType, BothScalar
  <2>4. kinds = {} /\ ArithValue(op, s, t, l, r) = "i32"
    BY <1>5, <2>1, <2>2 DEF ArithFaults, ArithValue, If, PointerOffset, PointerDifference, Ints
  <2> QED
    BY <1>0, <2>3, <2>4
<1> QED
  BY <1>1, <1>2, <1>3, <1>4, <1>5 DEF Given

-----------------------------------------------------------------------------
(* The type of the variable a name is resolved to. *)

LEMMA FoundType ==
  ASSUME Whole, NEW fs, CallStackOK(fs), NEW e, NEW l, Evaluates(fs, e, l),
         Len(env) \in Nat, DOMAIN env = 1..Len(env), NEW own, CgOwns(own, fs, env),
         NamesAccepted, Declared(e), NEW var, var = CgLookup(ast[e].name), var # NoVar,
         var.decl = Meaning(e).decl
  PROVE  var.type = SiteType(Meaning(e))
<1> DEFINE x == ast[e].name
           M == Meaning(e)
<1>0. AstTypeOK /\ TreeOK /\ Nodes \in SUBSET Nat /\ 0 \notin Nodes /\ e \in Nodes
  BY ParentFacts DEF Whole, Evaluates
<1>1. /\ M \in Candidates(e)
      /\ \A t \in Candidates(e) \ {M} :
           \/ SiteScope(M) # SiteScope(t) /\ Under(SiteScope(M), SiteScope(t))
           \/ SiteScope(M) = SiteScope(t) /\ Earlier(M, t)
  BY <1>0, MeaningIsBest
<1>2. M \in Sites /\ SiteName(M) = x
  BY <1>1 DEF Candidates
<1>3. PICK i \in 1..Len(env) : x \in DOMAIN env[i] /\ var = env[i][x]
  BY CgLookupInner
<1>4. own[i] \in OpenAt(fs) /\ CgHolds(env[i], fs[own[i]].node, Met(fs))
  BY DEF CgOwns, Pushed
<1>5. PICK s \in Met(fs) : /\ SiteScope(s) = fs[own[i]].node /\ SiteName(s) = x
                           /\ var.decl = s.decl /\ var.type = SiteType(s)
  BY <1>3, <1>4 DEF CgHolds
<1>6. s \in Sites /\ ~IsFunction(s)
  BY MetFacts
<1>7. s.decl = M.decl /\ s.decl \in Nodes /\ s = Site(s.decl, s.param) /\ M = Site(M.decl, M.param)
  BY <1>2, <1>5, <1>6, SiteFacts DEF M
<1> HIDE DEF M
<1>8. CASE Kind(s.decl) # "FUNC_DECL"
  <2>1. s.param = 0 /\ M.param = 0
    BY <1>2, <1>6, <1>7, <1>8, SiteFacts DEF IsParam
  <2>2. s = M
    BY <1>7, <2>1
  <2> QED
    BY <1>5, <2>2 DEF M
<1>9. CASE Kind(s.decl) = "FUNC_DECL"
  <2> DEFINE f == s.decl
  <2>1. IsParam(s) /\ SiteScope(s) = f
    BY <1>6, <1>9 DEF IsFunction, SiteScope
  <2>2. IsOpen(fs, SiteScope(s))
    BY <1>4, <1>5 DEF IsOpen
  <2>3. Visible(s, e) \/ InOwnInitialiser(e, f) \/ InPostBeforeBody(e, f)
    BY <2>2, MetIsVisible
  <2>4. ~InOwnInitialiser(e, f)
    BY <1>9 DEF InOwnInitialiser
  <2>5. ~InPostBeforeBody(e, f)
    <3>1. SUFFICES ASSUME NEW g \in Nodes, Kind(g) = "FOR", Under(f, Kid(g, 4)) PROVE FALSE
      BY DEF InPostBeforeBody
    <3>2. Arity(g) = 4
      BY <3>1, ForKids
    <3>3. Kid(g, 4) \in Nodes /\ Parent(Kid(g, 4)) = g /\ Kid(g, 4) # 1
      BY <1>0, <3>1, <3>2, ParentFacts
    <3>4. Kid(g, 4) = f
      BY <1>7, <1>9, <3>1, <3>3, FunctionAbove
    <3>5. Parent(f) = 1
      BY <1>7, <1>9, FunctionsAtTop
    <3>6. g = 1
      BY <3>3, <3>4, <3>5
    <3> QED
      BY <1>0, <3>1, <3>6 DEF AstTypeOK
  <2>6. s \in Candidates(e)
    BY <1>5, <1>6, <2>3, <2>4, <2>5 DEF Candidates
  <2>7. s = M
    <3>1. SUFFICES ASSUME s # M PROVE FALSE
      OBVIOUS
    <3>2. SiteScope(M) # SiteScope(s)
      BY <1>2, <1>5, <1>6, <3>1 DEF NamesAccepted
    <3>3. Under(SiteScope(M), f)
      BY <1>1, <2>1, <2>6, <3>1, <3>2
    <3>4. ~IsParam(M)
      BY <1>7, <2>1, <3>2 DEF SiteScope
    <3>5. SiteScope(M) = 1
      BY <1>2, <1>7, <1>9, <3>4, SiteFacts DEF IsFunction
    <3>6. f <= 1 /\ f \in Nat /\ f # 0 /\ f # 1
      <4>1. f # 1 /\ f \in Nodes
        BY <1>6, SiteFacts
      <4>2. 1 \in Nodes
        BY <1>0, UnderProgram
      <4>3. f <= 1
        BY <1>0, <3>3, <3>5, <4>2, UnderFacts
      <4> QED
        BY <1>0, <4>1, <4>3
    <3> QED
      BY <3>6
  <2> QED
    BY <1>5, <2>7 DEF M
<1> QED
  BY <1>8, <1>9

-----------------------------------------------------------------------------
(* The types of expressions, and the values of operands. *)

Failed == cg_errors > 0

\* What the invariants say of a step.
CgSound ==
  /\ CgFine /\ Accepted /\ AllRight(rtype, bind) /\ CallsAgree
  /\ \A i \in 1..Depth : RoleOK(stack[i])
  /\ NestIn(stack, val) /\ ValuesIn(stack, val, wrong, Failed)

LEMMA TypedNode ==
  ASSUME Whole, AllRight(rtype, bind), NEW n \in Nodes, Kind(n) \in ExprKinds, ~IsCallee(n)
  PROVE  /\ rtype[n] = TypeOf[n] /\ TypeOf[n] \in TypeInfos /\ TypeOf[n] # none
         /\ TypeOf[n] = TypeFrom(n, KidTypesOf(TypeOf, n))
<1>1. NodeRight(n, rtype, bind)
  BY DEF AllRight
<1>2. AstTypeOK /\ TreeOK
  BY DEF Whole
<1> QED BY <1>1, <1>2, TypeOfUnfolds DEF NodeRight, NodeAccepted

LEMMA TypedKid ==
  ASSUME Whole, AllRight(rtype, bind), NEW n \in Nodes, NEW i \in 1..Arity(n), Kind(Kid(n, i)) \in ExprKinds,
         i = 1 => Kind(n) # "CALL"
  PROVE  /\ rtype[Kid(n, i)] = TypeOf[Kid(n, i)] /\ TypeOf[Kid(n, i)] \in TypeInfos
         /\ Kid(n, i) \in Nodes /\ KidTypesOf(TypeOf, n)[i] = TypeOf[Kid(n, i)]
         /\ Addressed(Kid(n, i)) <=> i = 1 /\ Addresses(n)
<1>1. AstTypeOK /\ TreeOK
  BY DEF Whole
<1>2. Kid(n, i) \in Nodes /\ Kid(n, i) # 1 /\ Parent(Kid(n, i)) = n
  BY <1>1, ParentFacts
<1>3. ~IsCallee(Kid(n, i))
  <2>1. CASE i = 1
    BY <1>2, <2>1 DEF IsCallee
  <2>2. CASE i # 1
    <3>1. i = 1 => ~Addresses(n) /\ Kind(n) # "CALL"
      BY <2>2
    <3> QED BY <3>1, KidRole
  <2> QED BY <2>1, <2>2
<1>4. rtype[Kid(n, i)] = TypeOf[Kid(n, i)] /\ TypeOf[Kid(n, i)] \in TypeInfos
  BY <1>2, <1>3, TypedNode
<1>5. Addressed(Kid(n, i)) <=> i = 1 /\ Addresses(n)
  <2>1. CASE i = 1
    BY <1>2, <2>1 DEF Addressed, Addresses
  <2>2. CASE i # 1
    <3>1. i = 1 => ~Addresses(n) /\ Kind(n) # "CALL"
      BY <2>2
    <3> QED BY <2>2, <3>1, KidRole
  <2> QED BY <2>1, <2>2
<1>6. KidTypesOf(TypeOf, n)[i] = TypeOf[Kid(n, i)]
  BY DEF KidTypesOf
<1> QED BY <1>2, <1>4, <1>5, <1>6

\* What the steps that are done have given.
LEMMA StepGiven ==
  ASSUME CgSound, ~Tainted(at), ~SelfCall(CgTop), NEW k \in Steps(CgTop), k < CgTop.next,
         NEW c, c = StepKid(CgTop, k), Kind(c) \in ExprKinds
  PROVE  TypedAs(c, val[c], Failed)
<1>1. CgFine /\ Whole /\ ValuesIn(stack, val, wrong, Failed) /\ AstTypeOK /\ TreeOK
  BY DEF CgSound, CgFine, Whole
<1>2. Depth \in Nat /\ Depth >= 1 /\ CgTop = stack[Depth] /\ at \in Nodes
  BY <1>1, FineStack
<1>3. c \in Nodes /\ c > at /\ Under(c, at)
  <2>1. CgTop.node \in Nodes /\ CgTop.node = at
    BY <1>2 DEF at
  <2> QED BY <1>1, <2>1, StepFacts
<1>4. DoneIn(c, val, wrong, Failed)
  <2>1. Depth \in 1..Len(stack) /\ ~(Depth < Len(stack)) /\ k \in Steps(stack[Depth]) /\ k < stack[Depth].next
    BY <1>2 DEF Depth
  <2>2. ~SelfCall(stack[Depth]) /\ c = StepKid(stack[Depth], k)
    BY <1>2
  <2> QED BY <1>1, <2>1, <2>2 DEF ValuesIn
<1>5. CleanIn(c, wrong)
  <2> SUFFICES ASSUME NEW m \in Nodes, Under(m, c), m \in wrong PROVE FALSE
    BY DEF CleanIn
  <2>1. c <= m /\ Under(m, at)
    BY <1>1, <1>3, UnderFacts, UnderTransitive
  <2>2. m # at
    <3>1. m \in Nat /\ c \in Nat /\ at \in Nat
      BY <1>1, <1>2, <1>3, ParentFacts
    <3> QED BY <1>3, <2>1, <3>1
  <2> QED BY <2>1, <2>2 DEF Tainted, wrong
<1> QED BY <1>4, <1>5 DEF DoneIn

LEMMA StepIndex ==
  ASSUME NEW f, ~SelfCall(f), Kind(f.node) \notin {"BLOCK", "FUNC_DECL", "CALL", "FOR"}, NEW i \in 1..Arity(f.node), Arity(f.node) \in Nat
  PROVE  i \in Steps(f) /\ StepKid(f, i) = Kid(f.node, i)
BY DEF Steps, StepKid, Giver, Index

LEMMA KidGiven ==
  ASSUME CgSound, ~SelfCall(CgTop), Kind(at) \notin {"BLOCK", "FUNC_DECL", "CALL", "FOR"},
         NEW i \in 1..Arity(at), i < CgTop.next, Kind(CgKid(i)) \in ExprKinds
  PROVE  /\ rtype[CgKid(i)] = TypeOf[CgKid(i)] /\ TypeOf[CgKid(i)] \in TypeInfos
         /\ KidTypesOf(TypeOf, at)[i] = TypeOf[CgKid(i)]
         /\ ~Tainted(at) => IF i = 1 /\ Addresses(at) THEN Value(i) = "ptr" \/ (Value(i) = "NULL" /\ Failed)
                            ELSE Given(rtype[CgKid(i)], Value(i), Failed)
<1>1. CgFine /\ Whole /\ AllRight(rtype, bind) /\ AstTypeOK
  BY DEF CgSound, CgFine, Whole
<1>2. at \in Nodes /\ at = CgTop.node
  BY <1>1, FineStack DEF at
<1>3. /\ rtype[CgKid(i)] = TypeOf[CgKid(i)] /\ TypeOf[CgKid(i)] \in TypeInfos
      /\ KidTypesOf(TypeOf, at)[i] = TypeOf[CgKid(i)]
      /\ Addressed(CgKid(i)) <=> i = 1 /\ Addresses(at)
  BY <1>1, <1>2, TypedKid DEF CgKid
<1>4. ASSUME ~Tainted(at)
      PROVE  IF i = 1 /\ Addresses(at) THEN Value(i) = "ptr" \/ (Value(i) = "NULL" /\ Failed)
             ELSE Given(rtype[CgKid(i)], Value(i), Failed)
  <2>0. Arity(at) \in Nat
    BY <1>1, <1>2, NodeFacts
  <2>1. i \in Steps(CgTop) /\ StepKid(CgTop, i) = CgKid(i)
    BY <1>2, <2>0, StepIndex DEF CgKid
  <2>2. TypedAs(CgKid(i), val[CgKid(i)], Failed)
    BY <1>4, <2>1, StepGiven
  <2> QED BY <1>3, <2>2 DEF TypedAs, Given, Value
<1> QED BY <1>3, <1>4

\* The running expression.
LEMMA AtTyped ==
  ASSUME CgSound, IsExpr(CgTop)
  PROVE  /\ at \in Nodes /\ Kind(at) \in ExprKinds /\ ~IsCallee(at)
         /\ rtype[at] = TypeOf[at] /\ TypeOf[at] \in TypeInfos /\ TypeOf[at] # none
         /\ TypeOf[at] = TypeFrom(at, KidTypesOf(TypeOf, at))
         /\ CgTop.fn = "expr" => ~Addressed(at)
         /\ CgTop.fn = "lvalue" => SelfCall(stack[Depth - 1]) \/ Addressed(at)
         /\ CgTop.fn = "lvalue" /\ Kind(at) # "INDEX" => Addressed(at)
<1>1. CgFine /\ CgGood /\ Whole /\ AllRight(rtype, bind) /\ AstTypeOK /\ NestIn(stack, val)
  BY DEF CgSound, CgFine, Whole
<1>2. Depth \in Nat /\ Depth >= 3
  BY <1>1, Within DEF IsExpr, Running3
<1>3. at \in Nodes /\ CgTop = stack[Depth] /\ FrameOK(CgTop) /\ CgTop.node = at
  BY <1>1, <1>2, FineStack DEF at
<1>4. Kind(at) \in ExprKinds
  BY <1>3 DEF FrameOK, KindsOf, IsExpr
<1>5. RoleOK(CgTop)
  BY <1>2, <1>3 DEF CgSound
<1>6. /\ CgTop.node = StepKid(stack[Depth - 1], stack[Depth - 1].next - 1)
      /\ CgTop.fn = "lvalue" => SelfCall(stack[Depth - 1]) \/ Addressed(at)
  <2>1. Depth - 1 \in 1..Len(stack) /\ Depth \in 1..Len(stack) /\ Depth = (Depth - 1) + 1
    BY <1>2 DEF Depth
  <2> QED BY <1>1, <1>3, <2>1 DEF NestIn
<1>7. ~IsCallee(at)
  <2>1. CASE CgTop.fn = "expr"
    BY <1>3, <1>5, <2>1 DEF RoleOK
  <2>2. CASE Addressed(at)
    BY <2>2 DEF IsCallee, Addressed
  <2>3. CASE SelfCall(stack[Depth - 1])
    <3>1. stack[Depth - 1].node = at /\ stack[Depth - 1].fn = "expr"
      BY <1>3, <1>6, <2>3 DEF StepKid, SelfCall
    <3>2. RoleOK(stack[Depth - 1])
      BY <1>2 DEF CgSound
    <3> QED BY <3>1, <3>2 DEF RoleOK
  <2> QED BY <1>6, <2>1, <2>2, <2>3 DEF IsExpr
<1>8. CgTop.fn = "expr" => ~Addressed(at)
  BY <1>3, <1>5 DEF RoleOK
<1>9. CgTop.fn = "lvalue" /\ Kind(at) # "INDEX" => Addressed(at)
  BY <1>3, <1>5 DEF RoleOK
<1> QED BY <1>1, <1>3, <1>4, <1>6, <1>7, <1>8, <1>9, TypedNode

-----------------------------------------------------------------------------
(* What cg_expr and cg_lvalue return. *)

\* A use that LLVM does not allow is one of the gaps, or of NULL after a reported error.
Fair(kinds) == \A k \in kinds : Gap(at, k) \/ ("null" \in kinds /\ Failed)

Answered(v, kinds) ==
  /\ val' = [val EXCEPT ![at] = v] /\ faults' = faults \cup {<<at, k>> : k \in kinds}
  /\ ~Tainted(at) =>
       /\ Fair(kinds)
       /\ kinds = {} /\ (Kind(at) = "IDENT" => cgbind'[at] = bind[at].decl) /\ ~SelfCall(stack[Depth - 1]) =>
            TypedAs(at, v, cg_errors' > 0)
  /\ CgTop.fn = "lvalue" /\ Kind(at) = "INDEX" => v = "ptr"

LEMMA Gives ==
  ASSUME NEW v, NEW kinds, Compute(v, kinds) \/ (Pass(v) /\ kinds = {})
  PROVE  /\ val' = [val EXCEPT ![at] = v] /\ faults' = faults \cup {<<at, k>> : k \in kinds} /\ cg_errors' = cg_errors
<1>1. CASE Compute(v, kinds)
  BY <1>1 DEF Compute, Give, Wrong
<1>2. CASE Pass(v) /\ kinds = {}
  BY <1>2 DEF Pass, Give, Wrong
<1> QED BY <1>1, <1>2

LEMMA ValueAnswers ==
  ASSUME CgSound, CgTop.fn = "expr", NEW v, NEW kinds, Compute(v, kinds) \/ (Pass(v) /\ kinds = {}),
         ~Tainted(at) => Fair(kinds), ~Tainted(at) /\ kinds = {} => Given(TypeOf[at], v, Failed)
  PROVE  Answered(v, kinds)
<1>1. ~Addressed(at) /\ rtype[at] = TypeOf[at]
  BY AtTyped DEF IsExpr
<1>2. val' = [val EXCEPT ![at] = v] /\ faults' = faults \cup {<<at, k>> : k \in kinds} /\ cg_errors' = cg_errors
  BY Gives
<1> QED BY <1>1, <1>2 DEF Answered, TypedAs, Given, Failed

LEMMA AddressAnswers ==
  ASSUME CgSound, CgTop.fn = "lvalue", NEW v, NEW kinds, Compute(v, kinds) \/ (Pass(v) /\ kinds = {}),
         ~Tainted(at) => Fair(kinds), ~Tainted(at) /\ kinds = {} => v = "ptr" \/ (v = "NULL" /\ Failed),
         Kind(at) = "INDEX" => v = "ptr"
  PROVE  Answered(v, kinds)
<1>1. SelfCall(stack[Depth - 1]) \/ Addressed(at)
  BY AtTyped DEF IsExpr
<1>2. val' = [val EXCEPT ![at] = v] /\ faults' = faults \cup {<<at, k>> : k \in kinds} /\ cg_errors' = cg_errors
  BY Gives
<1> QED BY <1>1, <1>2 DEF Answered, TypedAs, Failed

LEMMA OperandCount ==
  /\ CgTop.fn = "lvalue" /\ Kind(at) = "INDEX" => Len(Operands) = 2
  /\ CgTop.fn = "lvalue" /\ Kind(at) = "UNARY" /\ ast[at].op = "STAR" => Len(Operands) = 1
  /\ CgTop.fn = "expr" /\ Kind(at) = "ASSIGN" => Len(Operands) = 2
  /\ CgTop.fn = "expr" /\ Kind(at) = "BINARY" /\ ast[at].op \notin Logical => Len(Operands) = 2
  /\ CgTop.fn = "expr" /\ Kind(at) = "UNARY" => Len(Operands) = 1
  /\ CgTop.fn = "expr" /\ Kind(at) = "INDEX" => Len(Operands) = 1
<1>1. CgTop.fn = "lvalue" /\ Kind(at) = "INDEX" => Len(Operands) = 2
  BY DEF Operands
<1>2. CgTop.fn = "lvalue" /\ Kind(at) = "UNARY" /\ ast[at].op = "STAR" => Len(Operands) = 1
  BY DEF Operands
<1>3. CgTop.fn = "expr" /\ Kind(at) = "ASSIGN" => Len(Operands) = 2
  BY DEF Operands
<1>4. CgTop.fn = "expr" /\ Kind(at) = "BINARY" /\ ast[at].op \notin Logical => Len(Operands) = 2
  BY DEF Operands
<1>5. CgTop.fn = "expr" /\ Kind(at) = "UNARY" => Len(Operands) = 1
  BY DEF Operands
<1>6. CgTop.fn = "expr" /\ Kind(at) = "INDEX" => Len(Operands) = 1
  BY DEF Operands
<1> QED BY <1>1, <1>2, <1>3, <1>4, <1>5, <1>6

\* The operands are expressions.
LEMMA OperandKinds ==
  ASSUME CgFine, Kind(at) \in {"ASSIGN", "BINARY", "UNARY", "INDEX"}
  PROVE  /\ 1 \in 1..Arity(at) /\ Kind(CgKid(1)) \in ExprKinds
         /\ Kind(at) = "UNARY" => Arity(at) = 1
         /\ Kind(at) # "UNARY" => Arity(at) = 2 /\ 2 \in 1..Arity(at) /\ Kind(CgKid(2)) \in ExprKinds
<1>1. AstTypeOK /\ phase = "codegen" /\ at \in Nodes
  BY FineStack DEF CgFine, CgGood
<1>2. HasArity(Kind(at), Arity(at)) /\ \A i \in 1..Arity(at) : Kind(CgKid(i)) \in Slot(Kind(at), i) \ HoleKinds
  BY <1>1, KidKinds DEF CgKid
<1>3. Kind(at) = "UNARY" => Arity(at) = 1
  BY <1>2 DEF HasArity
<1>4. Kind(at) # "UNARY" => Arity(at) = 2
  BY <1>2 DEF HasArity
<1>5. \A i \in {1, 2} : Slot(Kind(at), i) \ HoleKinds \subseteq ExprKinds
  BY DEF Slot, IsStmtSlot, MayBeNull, StmtSlot, ExprSlot, Null, ExprKinds, Literals, HoleKinds
<1> QED BY <1>2, <1>3, <1>4, <1>5

\* Their types, and the values they gave.
LEMMA OperandsGiven ==
  ASSUME CgSound, ~SelfCall(CgTop), IsExpr(CgTop), Kind(at) \in {"ASSIGN", "BINARY", "UNARY", "INDEX"}
  PROVE  \A i \in 1..Arity(at) :
           /\ rtype[CgKid(i)] = TypeOf[CgKid(i)] /\ TypeOf[CgKid(i)] \in TypeInfos
           /\ KidTypesOf(TypeOf, at)[i] = TypeOf[CgKid(i)]
           /\ ~Tainted(at) /\ i < CgTop.next =>
                IF i = 1 /\ Addresses(at) THEN Value(i) = "ptr" \/ (Value(i) = "NULL" /\ Failed)
                ELSE Given(TypeOf[CgKid(i)], Value(i), Failed)
<1> SUFFICES ASSUME NEW i \in 1..Arity(at)
             PROVE  /\ rtype[CgKid(i)] = TypeOf[CgKid(i)] /\ TypeOf[CgKid(i)] \in TypeInfos
                    /\ KidTypesOf(TypeOf, at)[i] = TypeOf[CgKid(i)]
                    /\ ~Tainted(at) /\ i < CgTop.next =>
                         IF i = 1 /\ Addresses(at) THEN Value(i) = "ptr" \/ (Value(i) = "NULL" /\ Failed)
                         ELSE Given(TypeOf[CgKid(i)], Value(i), Failed)
  OBVIOUS
<1>1. CgFine /\ Whole /\ AllRight(rtype, bind) /\ at \in Nodes
  BY FineStack DEF CgSound, CgFine
<1>2. Kind(CgKid(i)) \in ExprKinds
  <2>1. i = 1 \/ (Kind(at) # "UNARY" /\ i = 2)
    BY <1>1, OperandKinds
  <2> QED BY <1>1, <2>1, OperandKinds
<1>3. i = 1 => Kind(at) # "CALL"
  OBVIOUS
<1>4. /\ rtype[CgKid(i)] = TypeOf[CgKid(i)] /\ TypeOf[CgKid(i)] \in TypeInfos
      /\ KidTypesOf(TypeOf, at)[i] = TypeOf[CgKid(i)]
  BY <1>1, <1>2, <1>3, TypedKid DEF CgKid
<1>5. ASSUME ~Tainted(at), i < CgTop.next
      PROVE  IF i = 1 /\ Addresses(at) THEN Value(i) = "ptr" \/ (Value(i) = "NULL" /\ Failed)
             ELSE Given(TypeOf[CgKid(i)], Value(i), Failed)
  <2>1. Kind(at) \notin {"BLOCK", "FUNC_DECL", "CALL", "FOR"}
    OBVIOUS
  <2> QED BY <1>2, <1>4, <1>5, <2>1, KidGiven
<1> QED BY <1>4, <1>5

\* The running expression has one type, computed from those of its operands.
LEMMA RunningType ==
  ASSUME CgSound, IsExpr(CgTop), Kind(at) \in {"ASSIGN", "BINARY", "UNARY", "INDEX"}
  PROVE  LET s == TypeOf[CgKid(1)]
             t == TypeOf[CgKid(2)]
         IN /\ Kind(at) = "ASSIGN" => SameDepth(s, t) /\ TypeOf[at] = s
            /\ Kind(at) = "BINARY" => TypeOf[at] = BinaryType(ast[at].op, s, t)
            /\ Kind(at) = "UNARY" => TypeOf[at] = UnaryType(ast[at].op, s)
            /\ Kind(at) = "INDEX" => s.ptr_depth > 0 /\ t.ptr_depth = 0 /\ TypeOf[at] = TypeInfo(s.base, s.ptr_depth - 1)
            /\ TypeOf[at] # none /\ TypeOf[at] \in TypeInfos /\ rtype[at] = TypeOf[at]
<1> DEFINE kids == KidTypesOf(TypeOf, at)
<1>1. TypeOf[at] = TypeFrom(at, kids) /\ TypeOf[at] # none /\ TypeOf[at] \in TypeInfos /\ rtype[at] = TypeOf[at]
  BY AtTyped
<1>2. CgFine
  BY DEF CgSound
<1>3. /\ 1 \in 1..Arity(at) /\ kids[1] = TypeOf[CgKid(1)]
      /\ Kind(at) # "UNARY" => Arity(at) = 2 /\ kids[2] = TypeOf[CgKid(2)]
  <2>1. 1 \in 1..Arity(at) /\ (Kind(at) # "UNARY" => Arity(at) = 2)
    BY <1>2, OperandKinds
  <2>2. CgKid(1) = Kid(at, 1) /\ CgKid(2) = Kid(at, 2)
    BY DEF CgKid
  <2> QED BY <2>1, <2>2 DEF KidTypesOf
<1> HIDE DEF kids
<1>4. CASE Kind(at) = "ASSIGN"
  BY <1>1, <1>3, <1>4 DEF TypeFrom
<1>5. CASE Kind(at) = "BINARY"
  BY <1>1, <1>3, <1>5 DEF TypeFrom
<1>6. CASE Kind(at) = "UNARY"
  BY <1>1, <1>3, <1>6 DEF TypeFrom
<1>7. CASE Kind(at) = "INDEX"
  BY <1>1, <1>3, <1>7 DEF TypeFrom
<1> QED BY <1>1, <1>4, <1>5, <1>6, <1>7

LEMMA FailedIs == CgFine => Failed \in BOOLEAN /\ cg_errors \in Nat
  BY DEF Failed, CgFine, CgGood, DataOK

LEMMA LiteralAnswers ==
  ASSUME CgSound, CgLiteral
  PROVE  \E v, kinds : Answered(v, kinds)
<1> DEFINE v == LiteralValue[Kind(at)]
<1>1. CgTop.fn = "expr" /\ Kind(at) \in Literals /\ Pass(v)
  BY DEF CgLiteral, Evaluated
<1>2. TypeOf[at] = TypeFrom(at, KidTypesOf(TypeOf, at)) /\ TypeOf[at] \in TypeInfos
  BY <1>1, AtTyped DEF IsExpr
<1>3. Given(TypeOf[at], v, Failed)
  <2>1. CASE Kind(at) = "INT_LIT"
    BY <1>2, <2>1, LlvmTypes DEF TypeFrom, LiteralValue, Given
  <2>2. CASE Kind(at) = "CHAR_LIT"
    BY <1>2, <2>2, LlvmTypes DEF TypeFrom, LiteralValue, Given
  <2>3. CASE Kind(at) = "STR_LIT"
    <3>1. TypeOf[at] = TypeInfo("CHAR", 1)
      BY <1>2, <2>3 DEF TypeFrom
    <3>2. ~Scalar(TypeOf[at])
      BY <3>1 DEF TypeInfo, Scalar
    <3> QED BY <2>3, <3>2 DEF LlvmType, Given, LiteralValue
  <2> QED BY <1>1, <2>1, <2>2, <2>3 DEF Literals
<1> HIDE DEF v
<1>4. Answered(v, {})
  BY <1>1, <1>3, ValueAnswers DEF Fair
<1> QED BY <1>4

LEMMA IndexAnswers ==
  ASSUME CgSound, CgIndexAddress
  PROVE  \E v, kinds : Answered(v, kinds)
<1> DEFINE kinds == If("NULL" \in {Value(1), Value(2)}, "null") \cup If(Value(1) \in Ints \/ Value(2) = "ptr", "operand")
           s == TypeOf[CgKid(1)]
           t == TypeOf[CgKid(2)]
<1>0. CgFine
  BY DEF CgSound
<1>1. CgTop.fn = "lvalue" /\ Kind(at) = "INDEX" /\ Compute("ptr", kinds) /\ CgTop.next = 3
  <2>1. CgTop.fn = "lvalue" /\ Kind(at) = "INDEX" /\ CgTop.next = Len(Operands) + 1 /\ Compute("ptr", kinds)
    BY DEF CgIndexAddress, Evaluated
  <2>2. Len(Operands) = 2
    BY <2>1, OperandCount
  <2> QED BY <2>1, <2>2
<1>2. 1 \in 1..Arity(at) /\ 2 \in 1..Arity(at)
  BY <1>0, <1>1, OperandKinds
<1>3. ~Addresses(at) /\ ~SelfCall(CgTop) /\ IsExpr(CgTop)
  BY <1>1 DEF Addresses, SelfCall, IsExpr
<1>4. s.ptr_depth > 0 /\ t.ptr_depth = 0
  BY <1>1, <1>3, RunningType
<1>5. s \in TypeInfos /\ t \in TypeInfos /\ (~Tainted(at) => Given(s, Value(1), Failed) /\ Given(t, Value(2), Failed))
  BY <1>1, <1>2, <1>3, OperandsGiven
<1>6. ~Scalar(s) /\ Scalar(t)
  BY <1>4 DEF Scalar
<1> HIDE DEF s, t
<1>7. ASSUME ~Tainted(at) PROVE Fair(kinds)
  <2>1. Value(1) = "ptr" \/ (Value(1) = "NULL" /\ Failed)
    BY <1>5, <1>6, <1>7 DEF Given, LlvmType
  <2>2. Value(2) \in {"i8", "i32"}
    BY <1>5, <1>6, <1>7 DEF Given, LlvmType
  <2> QED BY <2>1, <2>2 DEF Fair, If, Ints
<1> HIDE DEF kinds
<1>8. Answered("ptr", kinds)
  BY <1>1, <1>7, AddressAnswers
<1> QED BY <1>8

LEMMA DerefAnswers ==
  ASSUME CgSound, CgDerefAddress
  PROVE  \E v, kinds : Answered(v, kinds)
<1> DEFINE s == TypeOf[CgKid(1)]
           v == Value(1)
<1>0. CgFine
  BY DEF CgSound
<1>1. CgTop.fn = "lvalue" /\ Kind(at) = "UNARY" /\ ast[at].op = "STAR" /\ Pass(v) /\ CgTop.next = 2
  BY OperandCount DEF CgDerefAddress, EvaluatedOp, Evaluated
<1>2. 1 \in 1..Arity(at)
  BY <1>0, <1>1, OperandKinds
<1>3. ~Addresses(at) /\ ~SelfCall(CgTop) /\ IsExpr(CgTop)
  BY <1>1 DEF Addresses, SelfCall, IsExpr
<1>4. UnaryType("STAR", s) # none
  BY <1>1, <1>3, RunningType
<1>5. s \in TypeInfos /\ (~Tainted(at) => Given(s, v, Failed))
  BY <1>1, <1>2, <1>3, OperandsGiven
<1>6. ~Scalar(s)
  BY <1>4 DEF Scalar, UnaryType
<1> HIDE DEF s, v
<1>7. ~Tainted(at) => v = "ptr" \/ (v = "NULL" /\ Failed)
  BY <1>5, <1>6 DEF Given, LlvmType
<1>8. Answered(v, {})
  BY <1>1, <1>7, AddressAnswers DEF Fair
<1> QED BY <1>8

LEMMA UnhandledAnswers ==
  ASSUME CgSound, CgUnhandled
  PROVE  \E v, kinds : Answered(v, kinds)
<1>0. CgFine /\ Accepted /\ Depth \in Nat /\ Depth >= 1 /\ CgTop = stack[Depth]
  BY FineStack DEF CgSound
<1>1. RoleOK(CgTop)
  BY <1>0 DEF CgSound
<1>2. val' = [val EXCEPT ![at] = "NULL"] /\ cg_errors' = cg_errors + 1
  BY <1>0, <1>1, LvalueReports
<1>3. PICK fn \in {"expr", "lvalue"} :
        CgTop.fn = fn /\ Unhandled(fn) /\ CgError(IF fn = "expr" THEN "i32" ELSE "NULL")
  BY DEF CgUnhandled, Evaluated
<1>4. faults' = faults \cup {<<at, k>> : k \in {}}
  BY <1>3 DEF CgError, Give, Wrong
<1>5. IsExpr(CgTop)
  BY <1>3 DEF IsExpr
<1>6. fn = "lvalue"
  <2>1. TypeOf[at] = TypeFrom(at, KidTypesOf(TypeOf, at)) /\ TypeOf[at] # none
    BY <1>5, AtTyped
  <2>2. Kind(at) # "MEMBER"
    BY <2>1 DEF TypeFrom
  <2> QED BY <1>3, <2>2 DEF Unhandled
<1>7. Kind(at) \notin {"INDEX", "IDENT"} /\ Addressed(at)
  BY <1>3, <1>5, <1>6, AtTyped DEF Unhandled
<1>8. cg_errors' > 0
  BY <1>0, <1>2, FailedIs
<1>9. Answered("NULL", {})
  BY <1>2, <1>4, <1>7, <1>8 DEF Answered, Fair, TypedAs
<1> QED BY <1>9

LEMMA AssignAnswers ==
  ASSUME CgSound, CgAssign
  PROVE  \E v, kinds : Answered(v, kinds)
<1> DEFINE s == TypeOf[CgKid(2)]
           t == TypeOf[CgKid(1)]
           v == Coerce(Value(2), s, t)
           kinds == CoerceFaults(Value(2), s, t) \cup StoreFaults(v, Value(1), t)
<1>0. CgFine /\ Failed \in BOOLEAN
  BY FailedIs DEF CgSound
<1>1. CgTop.fn = "expr" /\ Kind(at) = "ASSIGN" /\ CgTop.next = 3
  <2>1. CgTop.fn = "expr" /\ Kind(at) = "ASSIGN" /\ CgTop.next = Len(Operands) + 1
    BY DEF CgAssign, Evaluated
  <2>2. Len(Operands) = 2
    BY <2>1, OperandCount
  <2> QED BY <2>1, <2>2
<1>2. 1 \in 1..Arity(at) /\ 2 \in 1..Arity(at)
  BY <1>0, <1>1, OperandKinds
<1>3. Addresses(at) /\ ~SelfCall(CgTop) /\ IsExpr(CgTop)
  BY <1>1 DEF Addresses, SelfCall, IsExpr, at
<1>4. SameDepth(t, s) /\ TypeOf[at] = t
  BY <1>1, <1>3, RunningType
<1>5. /\ s \in TypeInfos /\ t \in TypeInfos /\ rtype[CgKid(2)] = s /\ rtype[CgKid(1)] = t
      /\ ~Tainted(at) => Given(s, Value(2), Failed) /\ (Value(1) = "ptr" \/ (Value(1) = "NULL" /\ Failed))
  <2>1. 2 # 1 /\ 1 < CgTop.next /\ 2 < CgTop.next
    BY <1>1
  <2> QED BY <1>1, <1>2, <1>3, <2>1, OperandsGiven
<1>6. Compute(v, kinds)
  BY <1>5 DEF CgAssign
<1>7. SameDepth(s, t)
  BY <1>4 DEF SameDepth
<1> HIDE DEF s, t
<1>8. ~Tainted(at) => Excused(kinds, Failed) /\ (kinds = {} => v = LlvmType(t))
  BY <1>0, <1>5, <1>7, StoreFine
<1> HIDE DEF v, kinds
<1>9. /\ ~Tainted(at) => Fair(kinds)
      /\ ~Tainted(at) /\ kinds = {} => Given(TypeOf[at], v, Failed)
  BY <1>4, <1>8 DEF Fair, Excused, Given
<1>10. Answered(v, kinds)
  BY <1>1, <1>6, <1>9, ValueAnswers
<1> QED BY <1>10

LEMMA ArithAnswers ==
  ASSUME CgSound, CgArith
  PROVE  \E v, kinds : Answered(v, kinds)
<1> DEFINE s == TypeOf[CgKid(1)]
           t == TypeOf[CgKid(2)]
           op == ast[at].op
           v == ArithValue(op, s, t, Value(1), Value(2))
           kinds == ArithFaults(op, s, t, Value(1), Value(2))
<1>0. CgFine /\ Failed \in BOOLEAN
  BY FailedIs DEF CgSound
<1>1. CgTop.fn = "expr" /\ Kind(at) = "BINARY" /\ op \in BinaryOps \ Logical /\ CgTop.next = 3
  <2>1. CgTop.fn = "expr" /\ Kind(at) = "BINARY" /\ op \in BinaryOps \ Logical /\ CgTop.next = Len(Operands) + 1
    BY DEF CgArith, EvaluatedOp, Evaluated
  <2>2. Len(Operands) = 2
    BY <2>1, OperandCount
  <2> QED BY <2>1, <2>2
<1>2. 1 \in 1..Arity(at) /\ 2 \in 1..Arity(at)
  BY <1>0, <1>1, OperandKinds
<1>3. ~Addresses(at) /\ ~SelfCall(CgTop) /\ IsExpr(CgTop)
  BY <1>1 DEF Addresses, SelfCall, IsExpr, at
<1>4. TypeOf[at] = BinaryType(op, s, t) /\ TypeOf[at] # none
  BY <1>1, <1>3, RunningType
<1>5. /\ s \in TypeInfos /\ t \in TypeInfos /\ rtype[CgKid(1)] = s /\ rtype[CgKid(2)] = t
      /\ ~Tainted(at) => Given(s, Value(1), Failed) /\ Given(t, Value(2), Failed)
  <2>1. 1 < CgTop.next /\ 2 < CgTop.next
    BY <1>1
  <2> QED BY <1>1, <1>2, <1>3, <2>1, OperandsGiven
<1>6. Compute(v, kinds)
  BY <1>5 DEF CgArith
<1>7. MixedOperands(op, s, t) => Gap(at, "operand")
  <2>1. (PointerOperand(at, 1) <=> ~Scalar(s)) /\ (PointerOperand(at, 2) <=> ~Scalar(t))
    BY <1>5 DEF PointerOperand, CgKid
  <2> HIDE DEF s, t
  <2>2. Kind(at) = "BINARY" /\ PointerOperand(at, 1) # PointerOperand(at, 2)
          /\ (PointerOperand(at, 1) => op \notin {"PLUS", "MINUS"}) => Gap(at, "operand")
    BY DEF Gap
  <2>3. CASE Scalar(s)
    <3>1. MixedOperands(op, s, t) => ~Scalar(t)
      BY <2>3 DEF MixedOperands, Scalar
    <3>2. MixedOperands(op, s, t) => ~PointerOperand(at, 1) /\ PointerOperand(at, 2)
      BY <2>1, <2>3, <3>1
    <3>3. MixedOperands(op, s, t) => PointerOperand(at, 1) # PointerOperand(at, 2)
      BY <3>2, Zenon
    <3> QED BY <1>1, <2>2, <3>2, <3>3
  <2>4. CASE ~Scalar(s)
    <3>1. MixedOperands(op, s, t) => Scalar(t) /\ op \notin {"PLUS", "MINUS"}
      BY <2>4 DEF MixedOperands, Scalar
    <3>2. MixedOperands(op, s, t) => PointerOperand(at, 1) /\ ~PointerOperand(at, 2)
      BY <2>1, <2>4, <3>1
    <3>3. MixedOperands(op, s, t) => PointerOperand(at, 1) # PointerOperand(at, 2)
      BY <3>2, Zenon
    <3> QED BY <1>1, <2>2, <3>1, <3>3
  <2> QED BY <2>3, <2>4
<1> HIDE DEF s, t, op
<1>8. ~Tainted(at) => /\ \A k \in kinds : ("null" \in kinds /\ Failed) \/ (k = "operand" /\ MixedOperands(op, s, t))
                      /\ kinds = {} => v = LlvmType(BinaryType(op, s, t))
  <2>1. BinaryType(op, s, t) # none
    BY <1>4
  <2> QED BY <1>0, <1>1, <1>5, <2>1, ArithFine
<1> HIDE DEF v, kinds
<1>9. /\ ~Tainted(at) => Fair(kinds)
      /\ ~Tainted(at) /\ kinds = {} => Given(TypeOf[at], v, Failed)
  BY <1>4, <1>7, <1>8 DEF Fair, Given
<1>10. Answered(v, kinds)
  BY <1>1, <1>6, <1>9, ValueAnswers
<1> QED BY <1>10

\* The operators of one operand.
LEMMA UnaryOperand ==
  ASSUME CgSound, CgTop.fn = "expr", Kind(at) = "UNARY", CgTop.next = Len(Operands) + 1
  PROVE  LET s == TypeOf[CgKid(1)]
         IN /\ s \in TypeInfos /\ rtype[CgKid(1)] = s /\ TypeOf[at] = UnaryType(ast[at].op, s) /\ TypeOf[at] # none
            /\ ~Tainted(at) => IF ast[at].op = "AMP" THEN Value(1) = "ptr" \/ (Value(1) = "NULL" /\ Failed)
                               ELSE Given(s, Value(1), Failed)
<1>1. CgTop.next = 2
  <2>1. Len(Operands) = 1
    BY OperandCount
  <2> QED BY <2>1
<1>2. 1 \in 1..Arity(at)
  BY OperandKinds DEF CgSound
<1>3. ~SelfCall(CgTop) /\ IsExpr(CgTop) /\ (Addresses(at) <=> ast[at].op = "AMP")
  BY DEF Addresses, SelfCall, IsExpr, at
<1>4. TypeOf[at] = UnaryType(ast[at].op, TypeOf[CgKid(1)]) /\ TypeOf[at] # none
  BY <1>3, RunningType
<1> QED BY <1>1, <1>2, <1>3, <1>4, OperandsGiven

LEMMA AddressOfAnswers ==
  ASSUME CgSound, CgAddress
  PROVE  \E v, kinds : Answered(v, kinds)
<1> DEFINE v == Value(1)
<1>1. CgTop.fn = "expr" /\ Kind(at) = "UNARY" /\ ast[at].op = "AMP" /\ CgTop.next = Len(Operands) + 1 /\ Pass(v)
  BY DEF CgAddress, EvaluatedOp, Evaluated
<1> DEFINE s == TypeOf[CgKid(1)]
<1>2. /\ s \in TypeInfos /\ TypeOf[at] = UnaryType("AMP", s)
      /\ ~Tainted(at) => v = "ptr" \/ (v = "NULL" /\ Failed)
  BY <1>1, UnaryOperand
<1>3. ~Scalar(TypeOf[at])
  BY <1>2, LlvmTypes DEF UnaryType, TypeInfo, Scalar
<1> HIDE DEF v
<1>4. ~Tainted(at) => Given(TypeOf[at], v, Failed)
  BY <1>2, <1>3 DEF Given, LlvmType
<1>5. Answered(v, {})
  BY <1>1, <1>4, ValueAnswers DEF Fair
<1> QED BY <1>5

LEMMA LoadAnswers ==
  ASSUME CgSound, CgLoad
  PROVE  \E v, kinds : Answered(v, kinds)
<1> DEFINE addr == IF Kind(at) = "INDEX" THEN val[at] ELSE Value(1)
           v == LlvmType(rtype[at])
           kinds == If(addr = "NULL", "null") \cup If(addr \in Ints, "operand")
<1>0. CgFine /\ ValuesIn(stack, val, wrong, Failed)
  BY DEF CgSound
<1>1. CgTop.fn = "expr" /\ CgTop.next = Len(Operands) + 1 /\ Compute(v, kinds)
  BY DEF CgLoad, EvaluatedOp, Evaluated
<1>2. Kind(at) = "INDEX" \/ (Kind(at) = "UNARY" /\ ast[at].op = "STAR")
  BY DEF CgLoad, EvaluatedOp, Evaluated
<1>3. ~Tainted(at) => addr = "ptr" \/ (addr = "NULL" /\ Failed)
  <2>1. CASE Kind(at) = "INDEX"
    <3>1. SelfCall(CgTop)
      BY <1>1, <2>1 DEF SelfCall, at
    <3>2. CgTop.next = 2
      <4>1. Len(Operands) = 1
        BY <1>1, <2>1, OperandCount
      <4> QED BY <1>1, <4>1
    <3>3. Depth \in Nat /\ Depth >= 1 /\ CgTop = stack[Depth] /\ CgTop.node = at
      BY <1>0, FineStack DEF at
    <3>4. 1 \in Steps(CgTop)
      BY <3>1 DEF Steps
    <3>5. Depth \in 1..Len(stack) /\ ~(Depth < Len(stack)) /\ 1 \in Steps(stack[Depth]) /\ 1 < stack[Depth].next
      BY <3>2, <3>3, <3>4 DEF Depth
    <3>6. val[stack[Depth].node] = "ptr"
      BY <1>0, <3>1, <3>3, <3>5 DEF ValuesIn
    <3> QED BY <2>1, <3>3, <3>6
  <2>2. CASE Kind(at) = "UNARY" /\ ast[at].op = "STAR"
    <3> DEFINE s == TypeOf[CgKid(1)]
    <3>1. UnaryType("STAR", s) # none /\ (~Tainted(at) => Given(s, Value(1), Failed))
      BY <1>1, <2>2, UnaryOperand
    <3>2. ~Scalar(s)
      BY <3>1 DEF UnaryType, Scalar
    <3> HIDE DEF s
    <3>3. ~Tainted(at) => Value(1) = "ptr" \/ (Value(1) = "NULL" /\ Failed)
      BY <3>1, <3>2 DEF Given, LlvmType
    <3> QED BY <2>2, <3>3
  <2> QED BY <1>2, <2>1, <2>2
<1> HIDE DEF addr
<1>4. ~Tainted(at) => Fair(kinds)
  BY <1>3 DEF Fair, If, Ints
<1>5. Given(TypeOf[at], v, Failed)
  <2>1. rtype[at] = TypeOf[at]
    BY <1>1, AtTyped DEF IsExpr
  <2> QED BY <2>1 DEF Given
<1> HIDE DEF v, kinds
<1>6. Answered(v, kinds)
  BY <1>1, <1>4, <1>5, ValueAnswers
<1> QED BY <1>6

LEMMA NegateAnswers ==
  ASSUME CgSound, CgNegate
  PROVE  \E v, kinds : Answered(v, kinds)
<1> DEFINE s == TypeOf[CgKid(1)]
           v == Coerce(Value(1), s, IntType)
           kinds == If(v = "NULL", "null") \cup If(v = "ptr", "operand") \cup CoerceFaults(Value(1), s, IntType)
<1>0. CgFine /\ Failed \in BOOLEAN
  BY FailedIs DEF CgSound
<1>1. CgTop.fn = "expr" /\ Kind(at) = "UNARY" /\ ast[at].op = "MINUS" /\ CgTop.next = Len(Operands) + 1
  BY DEF CgNegate, EvaluatedOp, Evaluated
<1>2. s \in TypeInfos /\ rtype[CgKid(1)] = s /\ TypeOf[at] = UnaryType("MINUS", s) /\ TypeOf[at] # none
      /\ (~Tainted(at) => Given(s, Value(1), Failed))
  BY <1>1, UnaryOperand
<1>3. s.ptr_depth = 0 /\ TypeOf[at] = IntType
  BY <1>2 DEF UnaryType
<1>4. rtype[at] = IntType
  BY <1>1, <1>3, AtTyped DEF IsExpr
<1>5. Compute(v, kinds)
  BY <1>2, <1>4 DEF CgNegate
<1>6. IntType \in TypeInfos /\ SameDepth(s, IntType) /\ LlvmType(IntType) = "i32" /\ Scalar(IntType)
  BY <1>2, <1>3, TypesInfos, LlvmTypes DEF SameDepth, Scalar
<1> HIDE DEF s
<1>7. ~Tainted(at) => CoerceFaults(Value(1), s, IntType) = {} /\ v = "i32"
  BY <1>0, <1>2, <1>6, CoerceFine
<1> HIDE DEF v
<1>8. ~Tainted(at) => kinds = {}
  BY <1>7 DEF If
<1> HIDE DEF kinds
<1>9. ~Tainted(at) => Fair(kinds) /\ Given(TypeOf[at], v, Failed)
  BY <1>3, <1>6, <1>7, <1>8 DEF Fair, Given
<1>10. Answered(v, kinds)
  BY <1>1, <1>5, <1>9, ValueAnswers
<1> QED BY <1>10

LEMMA NotAnswers ==
  ASSUME CgSound, CgNot
  PROVE  \E v, kinds : Answered(v, kinds)
<1> DEFINE s == TypeOf[CgKid(1)]
           kinds == TestFaults(Value(1))
<1>0. CgFine /\ Failed \in BOOLEAN
  BY FailedIs DEF CgSound
<1>1. CgTop.fn = "expr" /\ Kind(at) = "UNARY" /\ ast[at].op = "BANG" /\ CgTop.next = Len(Operands) + 1 /\ Compute("i32", kinds)
  BY DEF CgNot, EvaluatedOp, Evaluated
<1>2. s \in TypeInfos /\ TypeOf[at] = UnaryType("BANG", s) /\ TypeOf[at] # none
      /\ (~Tainted(at) => Given(s, Value(1), Failed))
  BY <1>1, UnaryOperand
<1>3. s.ptr_depth = 0 /\ TypeOf[at] = IntType /\ LlvmType(IntType) = "i32"
  BY <1>2, LlvmTypes DEF UnaryType
<1>4. Scalar(s)
  BY <1>3 DEF Scalar
<1> HIDE DEF s
<1>5. ~Tainted(at) => kinds = {}
  BY <1>0, <1>2, <1>4, TestFine
<1> HIDE DEF kinds
<1>6. ~Tainted(at) => Fair(kinds) /\ Given(TypeOf[at], "i32", Failed)
  BY <1>3, <1>5 DEF Fair, Given
<1>7. Answered("i32", kinds)
  BY <1>1, <1>6, ValueAnswers
<1> QED BY <1>7

\* The operands of && and || are tested as conditions.
LEMMA TestedOperand ==
  ASSUME CgSound, CgTop.fn = "expr", Kind(at) = "BINARY", IsLogical, NEW i \in {1, 2}, i < CgTop.next
  PROVE  ~Tainted(at) => Fair(TestFaults(Value(i)))
<1> DEFINE t == TypeOf[CgKid(i)]
           kinds == TestFaults(Value(i))
<1>0. CgFine /\ Failed \in BOOLEAN
  BY FailedIs DEF CgSound
<1>1. 1 \in 1..Arity(at) /\ 2 \in 1..Arity(at)
  BY <1>0, OperandKinds
<1>2. ~Addresses(at) /\ ~SelfCall(CgTop) /\ IsExpr(CgTop)
  BY DEF Addresses, SelfCall, IsExpr, at
<1>3. t \in TypeInfos /\ rtype[CgKid(i)] = t /\ (~Tainted(at) => Given(t, Value(i), Failed))
  BY <1>1, <1>2, OperandsGiven
<1>4. ~Scalar(t) => Gap(at, "zero")
  <2>1. ast[at].op \in Logical
    BY DEF IsLogical
  <2>2. ~Scalar(t) => PointerOperand(at, 1) \/ PointerOperand(at, 2)
    BY <1>3 DEF PointerOperand, CgKid
  <2> HIDE DEF t
  <2> QED BY <2>1, <2>2 DEF Gap
<1> HIDE DEF t
<1>5. ASSUME ~Tainted(at) PROVE \A k \in kinds : ("null" \in kinds /\ Failed) \/ (k = "zero" /\ ~Scalar(t))
  BY <1>0, <1>3, <1>5, TestFine
<1> HIDE DEF kinds
<1>6. ~Tainted(at) => Fair(kinds)
  BY <1>4, <1>5 DEF Fair
<1> QED BY <1>6 DEF kinds

LEMMA MergeAnswers ==
  ASSUME CgSound, CgLogicalMerge
  PROVE  \E v, kinds : Answered(v, kinds)
<1> DEFINE kinds == TestFaults(Value(2))
<1>1. CgTop.fn = "expr" /\ Kind(at) = "BINARY" /\ CgTop.next = 3 /\ IsLogical
  BY DEF CgLogicalMerge, Step
<1>2. val' = [val EXCEPT ![at] = "i32"] /\ faults' = faults \cup {<<at, k>> : k \in kinds} /\ cg_errors' = cg_errors
  BY DEF CgLogicalMerge, Give, Wrong
<1>3. ~Tainted(at) => Fair(kinds)
  BY <1>1, TestedOperand
<1>4. ~Addressed(at) /\ rtype[at] = TypeOf[at]
  BY <1>1, AtTyped DEF IsExpr
<1>5. TypeOf[at] = IntType
  <2>1. TypeOf[at] = BinaryType(ast[at].op, TypeOf[CgKid(1)], TypeOf[CgKid(2)]) /\ TypeOf[at] # none
    BY <1>1, RunningType DEF IsExpr
  <2> QED BY <1>1, <2>1 DEF BinaryType, IsLogical
<1>6. LlvmType(IntType) = "i32"
  BY LlvmTypes, TypesInfos
<1> HIDE DEF kinds
<1>7. Answered("i32", kinds)
  BY <1>1, <1>2, <1>3, <1>4, <1>5, <1>6 DEF Answered, TypedAs
<1> QED BY <1>7

LEMMA IdentAnswers ==
  ASSUME CgSound, NEW fs, Mirrors(fs, stack), Holding(fs, env), CgIdent
  PROVE  \E v, kinds : Answered(v, kinds)
<1> DEFINE var == CgLookup(ast[at].name)
<1>0. CgFine /\ Whole /\ Accepted /\ AllRight(rtype, bind)
  BY DEF CgSound, CgFine
<1>1. at \in Nodes /\ Kind(at) = "IDENT" /\ IsExpr(CgTop)
  BY <1>0, FineStack DEF CgIdent, Evaluated, IsExpr
<1>2. CallStackOK(fs) /\ Len(env) \in Nat /\ DOMAIN env = 1..Len(env)
  BY <1>0, <1>1, IdentEvaluates
<1>3. PICK l : Evaluates(fs, at, l)
  BY <1>0, <1>1, IdentEvaluates
<1>4. PICK own : CgOwns(own, fs, env)
  BY <1>0, <1>1, IdentEvaluates
<1>5. Declared(at) /\ bind[at] = SymbolOf(Meaning(at))
  BY <1>0, <1>1 DEF AllRight, NodeRight
<1>6. bind[at].decl = Meaning(at).decl /\ Meaning(at).decl \in Nodes
  <2>1. Meaning(at) \in Sites
    BY <1>0, <1>1, <1>5, MeaningIsBest DEF Accepted, Candidates
  <2>2. Meaning(at).decl \in Nodes
    BY <1>0, <2>1, SiteFacts
  <2> QED BY <1>5, <2>2 DEF SymbolOf, FuncSymbol, VarSymbol, Symbol
<1>7. PICK fn \in {"expr", "lvalue"} :
        /\ CgTop.fn = fn /\ cgbind' = [cgbind EXCEPT ![at] = var.decl]
        /\ IF var = NoVar THEN CgError(IF fn = "expr" THEN "i32" ELSE "NULL")
           ELSE Give(IF fn = "expr" THEN LlvmType(var.type) ELSE "ptr", {}) /\ UNCHANGED cg_errors
  BY DEF CgIdent, Evaluated
<1>8. DOMAIN cgbind = Nodes /\ 0 \notin Nodes
  BY <1>0, ParentFacts DEF CgFine, CgGood, DataOK, Whole
<1>9. cgbind'[at] = var.decl
  BY <1>1, <1>7, <1>8
<1>10. NoVar.decl = 0
  BY DEF NoVar, Var
<1> HIDE DEF var
<1>11. PICK v : val' = [val EXCEPT ![at] = v] /\ faults' = faults \cup {<<at, k>> : k \in {}}
         /\ (var # NoVar => v = IF fn = "expr" THEN LlvmType(var.type) ELSE "ptr")
  <2>1. CASE var = NoVar
    <3>1. CgError(IF fn = "expr" THEN "i32" ELSE "NULL")
      BY <1>7, <2>1
    <3>2. val' = [val EXCEPT ![at] = IF fn = "expr" THEN "i32" ELSE "NULL"] /\ faults' = faults \cup {<<at, k>> : k \in {}}
      BY <3>1 DEF CgError, Give, Wrong
    <3> QED BY <2>1, <3>2
  <2>2. CASE var # NoVar
    <3>1. Give(IF fn = "expr" THEN LlvmType(var.type) ELSE "ptr", {})
      BY <1>7, <2>2
    <3>2. val' = [val EXCEPT ![at] = IF fn = "expr" THEN LlvmType(var.type) ELSE "ptr"] /\ faults' = faults \cup {<<at, k>> : k \in {}}
      BY <3>1 DEF Give, Wrong
    <3> QED BY <2>2, <3>2
  <2> QED BY <2>1, <2>2
<1>12. ASSUME cgbind'[at] = bind[at].decl PROVE TypedAs(at, v, cg_errors' > 0)
  <2>1. var # NoVar /\ var.decl = Meaning(at).decl
    BY <1>6, <1>8, <1>9, <1>10, <1>12
  <2>2. CASE fn = "expr"
    <3>1. var.type = SiteType(Meaning(at))
      BY <1>0, <1>2, <1>3, <1>4, <1>5, <2>1, FoundType DEF Accepted, var
    <3>2. TypeOf[at] = SiteType(Meaning(at)) /\ rtype[at] = TypeOf[at] /\ ~Addressed(at)
      BY <1>1, <1>5, <1>7, <2>2, AtTyped DEF TypeFrom
    <3> QED BY <1>11, <2>1, <2>2, <3>1, <3>2 DEF TypedAs
  <2>3. CASE fn = "lvalue"
    <3>1. Addressed(at)
      BY <1>1, <1>7, <2>3, AtTyped
    <3> QED BY <1>11, <2>1, <2>3, <3>1 DEF TypedAs
  <2> QED BY <1>7, <2>2, <2>3
<1>13. Answered(v, {})
  BY <1>1, <1>11, <1>12 DEF Answered, Fair
<1> QED BY <1>13

\* The arguments of a call.
LEMMA ArgumentsGiven ==
  ASSUME CgSound, CgTop.fn = "expr", Kind(at) = "CALL", NEW i \in 2..Arity(at), i <= CgTop.next
  PROVE  /\ rtype[CgKid(i)] = TypeOf[CgKid(i)] /\ TypeOf[CgKid(i)] \in TypeInfos
         /\ KidTypesOf(TypeOf, at)[i] = TypeOf[CgKid(i)]
         /\ ~Tainted(at) => Given(TypeOf[CgKid(i)], Value(i), Failed)
<1>1. CgFine /\ Whole /\ AllRight(rtype, bind) /\ AstTypeOK /\ phase = "codegen"
  BY DEF CgSound, CgFine, CgGood, Whole
<1>2. at \in Nodes /\ at = CgTop.node /\ Arity(at) \in Nat /\ CgTop.next \in Nat
  BY <1>1, FineStack, NodeFacts DEF at
<1>3. i \in 1..Arity(at) /\ i # 1 /\ i \in Nat
  BY <1>2
<1>4. Kind(CgKid(i)) \in ExprKinds
  <2>1. Kind(CgKid(i)) \in Slot("CALL", i) \ HoleKinds
    BY <1>1, <1>2, <1>3, KidKinds DEF CgKid
  <2> QED BY <2>1 DEF Slot, IsStmtSlot, MayBeNull, StmtSlot, ExprSlot, Null, ExprKinds, Literals, HoleKinds
<1>5. /\ rtype[CgKid(i)] = TypeOf[CgKid(i)] /\ TypeOf[CgKid(i)] \in TypeInfos
      /\ KidTypesOf(TypeOf, at)[i] = TypeOf[CgKid(i)] /\ ~Addressed(CgKid(i))
  BY <1>1, <1>2, <1>3, <1>4, TypedKid DEF CgKid
<1>6. ASSUME ~Tainted(at) PROVE Given(TypeOf[CgKid(i)], Value(i), Failed)
  <2>1. ~SelfCall(CgTop)
    BY <1>2 DEF SelfCall
  <2>2. i - 1 \in Steps(CgTop) /\ StepKid(CgTop, i - 1) = CgKid(i)
    BY <1>2, <1>3, <2>1 DEF Steps, StepKid, Index, Giver, CgKid
  <2>3. i - 1 < CgTop.next
    BY <1>2, <1>3
  <2>4. TypedAs(CgKid(i), val[CgKid(i)], Failed)
    BY <1>4, <1>6, <2>1, <2>2, <2>3, StepGiven
  <2> QED BY <1>5, <2>4 DEF TypedAs, Given, Value
<1> QED BY <1>5, <1>6

\* What Sema checked of a call, and against which function.
LEMMA CheckedCall ==
  ASSUME CgSound, Evaluated("expr", {"CALL"})
  PROVE  LET f == funcs[ast[CgKid(1)].name]
             params == ast[f].params
         IN /\ ast[CgKid(1)].name \in DOMAIN funcs /\ f \in Nodes /\ params \in Seq(Parameters)
            /\ TypeOf[at] = ast[f].type /\ Arity(at) = Len(params) + 1
            /\ \A i \in DOMAIN params : /\ SameDepth(TypeOf[CgKid(i + 1)], params[i].type)
                                        /\ bind[CgKid(1)].params[i] = params[i].type
<1> DEFINE callee == CgKid(1)
           s == Meaning(callee)
           f == funcs[ast[callee].name]
           params == ast[f].params
           kids == KidTypesOf(TypeOf, at)
<1>1. CgFine /\ Whole /\ AllRight(rtype, bind) /\ AstTypeOK /\ TreeOK /\ phase = "codegen" /\ stack # <<>> /\ Accepted
  BY DEF CgSound, CgFine, CgGood, Whole
<1>2. CgTop.fn = "expr" /\ Kind(at) = "CALL" /\ IsExpr(CgTop)
  BY DEF Evaluated, IsExpr
<1>3. ast[callee].name \in DOMAIN funcs /\ f = bind[callee].decl
  BY <1>1 DEF CgSound, CallsAgree
<1>4. at \in Nodes /\ Arity(at) \in Nat /\ Arity(at) >= 1
  <2>1. at \in Nodes
    BY <1>1, FineStack
  <2>2. Arity(at) \in Nat /\ HasArity(Kind(at), Arity(at))
    BY <1>1, <2>1, NodeFacts
  <2> QED BY <1>2, <2>1, <2>2 DEF HasArity
<1>5. callee \in Nodes
  <2>1. 1 \in 1..Arity(at)
    BY <1>4
  <2> QED BY <1>1, <1>4, <2>1, NodeFacts DEF CgKid
<1>6. TypeOf[at] = TypeFrom(at, kids) /\ TypeOf[at] # none
  BY <1>2, AtTyped
<1> HIDE DEF kids
<1>7. /\ Kind(callee) = "IDENT" /\ Declared(callee) /\ IsFunction(s)
      /\ Arity(at) = Len(ast[s.decl].params) + 1 /\ TypeOf[at] = ast[s.decl].type
      /\ \A i \in DOMAIN ast[s.decl].params : SameDepth(kids[i + 1], ast[s.decl].params[i].type)
  BY <1>2, <1>6 DEF TypeFrom, CgKid
<1>8. bind[callee] = SymbolOf(s)
  BY <1>1, <1>5, <1>7 DEF AllRight, NodeRight
<1>9. s.decl \in Nodes
  <2>1. s \in Sites
    BY <1>1, <1>5, <1>7, MeaningIsBest DEF Accepted, Candidates
  <2> QED BY <1>1, <2>1, SiteFacts
<1> HIDE DEF s, callee
<1>10. f = s.decl /\ \A i \in DOMAIN ast[s.decl].params : bind[callee].params[i] = ast[s.decl].params[i].type
  BY <1>3, <1>7, <1>8 DEF SymbolOf, FuncSymbol, Symbol
<1> HIDE DEF f
<1>11. params \in Seq(Parameters)
  BY <1>1, <1>9, <1>10, NodeFacts
<1>12. \A i \in DOMAIN params : kids[i + 1] = TypeOf[CgKid(i + 1)]
  <2> SUFFICES ASSUME NEW i \in DOMAIN params PROVE kids[i + 1] = TypeOf[CgKid(i + 1)]
    OBVIOUS
  <2>1. i \in 1..Len(params) /\ Len(params) \in Nat
    BY <1>11
  <2>2. i + 1 \in 1..Arity(at)
    BY <1>7, <1>10, <2>1
  <2> QED BY <2>2 DEF kids, KidTypesOf, CgKid
<1> QED BY <1>3, <1>7, <1>9, <1>10, <1>11, <1>12 DEF f, callee

LEMMA CallAnswers ==
  ASSUME CgSound, CgCall
  PROVE  \E v, kinds : Answered(v, kinds)
<1> DEFINE f == funcs[ast[CgKid(1)].name]
           params == ast[f].params
           args == [i \in 1..(Arity(at) - 1) |-> Value(i + 1)]
           taken == [i \in DOMAIN params |-> LlvmType(params[i].type)]
           v == LlvmType(ast[f].type)
           kinds == If(\E i \in DOMAIN args : args[i] = "NULL", "null") \cup If(args # taken, "argument")
<1>1. CgTop.fn = "expr" /\ Kind(at) = "CALL" /\ Evaluated("expr", {"CALL"}) /\ CgTop.next = Len(Operands) + 1
  BY DEF CgCall, Evaluated
<1>2. /\ ast[CgKid(1)].name \in DOMAIN funcs /\ f \in Nodes /\ params \in Seq(Parameters)
      /\ TypeOf[at] = ast[f].type /\ Arity(at) = Len(params) + 1
      /\ \A i \in DOMAIN params : /\ SameDepth(TypeOf[CgKid(i + 1)], params[i].type)
                                  /\ bind[CgKid(1)].params[i] = params[i].type
  BY <1>1, CheckedCall
<1>3. Compute(v, kinds)
  BY <1>2 DEF CgCall
<1> HIDE DEF f
<1>4. DOMAIN params = 1..Len(params) /\ Len(params) \in Nat /\ Arity(at) = Len(params) + 1 /\ Arity(at) - 1 = Len(params)
  BY <1>2
<1>5. CgTop.next = Arity(at)
  <2>1. Operands = [i \in 1..(Arity(at) - 1) |-> Call("expr", CgKid(i + 1))]
    BY <1>1, <1>2 DEF Operands
  <2>2. Len(Operands) = Arity(at) - 1
    BY <1>4, <2>1
  <2> QED BY <1>1, <1>4, <2>2
<1>6. \A i \in 1..Len(params) :
        /\ rtype[CgKid(i + 1)] = TypeOf[CgKid(i + 1)] /\ TypeOf[CgKid(i + 1)] \in TypeInfos
        /\ ~Tainted(at) => Given(TypeOf[CgKid(i + 1)], Value(i + 1), Failed)
        /\ params[i].type \in TypeInfos
  <2> SUFFICES ASSUME NEW i \in 1..Len(params)
               PROVE  /\ rtype[CgKid(i + 1)] = TypeOf[CgKid(i + 1)] /\ TypeOf[CgKid(i + 1)] \in TypeInfos
                      /\ ~Tainted(at) => Given(TypeOf[CgKid(i + 1)], Value(i + 1), Failed)
                      /\ params[i].type \in TypeInfos
    OBVIOUS
  <2>1. i + 1 \in 2..Arity(at) /\ i + 1 <= CgTop.next
    BY <1>4, <1>5
  <2>2. params[i] \in Parameters
    BY <1>2, <1>4
  <2>3. params[i].type \in TypeInfos
    BY <2>2 DEF Parameters
  <2> HIDE DEF params
  <2> QED BY <1>1, <2>1, <2>3, ArgumentsGiven
<1>7. ASSUME ~Tainted(at) PROVE Fair(kinds)
  <2>1. ASSUME NEW i \in DOMAIN args, args[i] = "NULL" PROVE Failed
    <3>1. i \in 1..Len(params) /\ Value(i + 1) = "NULL"
      BY <1>4, <2>1
    <3>2. Given(TypeOf[CgKid(i + 1)], "NULL", Failed)
      BY <1>6, <1>7, <3>1
    <3> QED BY <3>2 DEF Given, LlvmType
  <2>2. ASSUME \A i \in DOMAIN args : args[i] # "NULL", args # taken PROVE Gap(at, "argument")
    <3>1. DOMAIN args = 1..Len(params) /\ DOMAIN taken = 1..Len(params)
      BY <1>4
    <3>2. PICK i \in 1..Len(params) : args[i] # taken[i]
      BY <2>2, <3>1
    <3>3. args[i] = Value(i + 1) /\ taken[i] = LlvmType(params[i].type) /\ Value(i + 1) # "NULL"
      BY <1>4, <2>2, <3>1
    <3> DEFINE s == TypeOf[CgKid(i + 1)]
               t == params[i].type
    <3>4. s \in TypeInfos /\ t \in TypeInfos /\ SameDepth(s, t) /\ Value(i + 1) = LlvmType(s) /\ rtype[CgKid(i + 1)] = s
      BY <1>2, <1>4, <1>6, <1>7, <3>3 DEF Given
    <3>5. LlvmType(s) # LlvmType(t) /\ bind[CgKid(1)].params[i] = t
      BY <1>2, <1>4, <3>2, <3>3, <3>4
    <3> HIDE DEF s, t
    <3>6. Converts(s, t)
      BY <3>4, <3>5, LlvmTypes DEF SameDepth, Converts
    <3>7. i + 1 \in 2..Arity(at) /\ (i + 1) - 1 = i
      BY <1>4
    <3>8. Converts(rtype[Kid(at, i + 1)], bind[Kid(at, 1)].params[(i + 1) - 1])
      BY <3>4, <3>5, <3>6, <3>7 DEF CgKid
    <3> QED BY <1>1, <3>7, <3>8 DEF Gap
  <2> HIDE DEF args, taken, params
  <2>3. CASE \E i \in DOMAIN args : args[i] = "NULL"
    <3>1. "null" \in kinds /\ Failed
      BY <2>1, <2>3 DEF If
    <3> HIDE DEF kinds
    <3> QED BY <3>1 DEF Fair
  <2>4. CASE \A i \in DOMAIN args : args[i] # "NULL"
    <3>1. \A k \in kinds : k = "argument" /\ args # taken
      BY <2>4 DEF If
    <3> HIDE DEF kinds
    <3> QED BY <2>2, <2>4, <3>1 DEF Fair
  <2> QED BY <2>3, <2>4
<1>8. Given(TypeOf[at], v, Failed)
  BY <1>2 DEF Given
<1> HIDE DEF v, kinds
<1>9. Answered(v, kinds)
  BY <1>1, <1>3, <1>7, <1>8, ValueAnswers
<1> QED BY <1>9

LEMMA EveryAnswer ==
  ASSUME CgSound, NEW fs, Mirrors(fs, stack), Holding(fs, env), Answers
  PROVE  \E v, kinds : Answered(v, kinds)
<1>1. CASE CgLiteral
  BY <1>1, LiteralAnswers
<1>2. CASE CgIdent
  BY <1>2, IdentAnswers
<1>3. CASE CgUnhandled
  BY <1>3, UnhandledAnswers
<1>4. CASE CgIndexAddress
  BY <1>4, IndexAnswers
<1>5. CASE CgDerefAddress
  BY <1>5, DerefAnswers
<1>6. CASE CgAssign
  BY <1>6, AssignAnswers
<1>7. CASE CgArith
  BY <1>7, ArithAnswers
<1>8. CASE CgAddress
  BY <1>8, AddressOfAnswers
<1>9. CASE CgLoad
  BY <1>9, LoadAnswers
<1>10. CASE CgNegate
  BY <1>10, NegateAnswers
<1>11. CASE CgNot
  BY <1>11, NotAnswers
<1>12. CASE CgCall
  BY <1>12, CallAnswers
<1>13. CASE CgLogicalMerge
  BY <1>13, MergeAnswers
<1> QED
  BY Zenon, <1>1, <1>2, <1>3, <1>4, <1>5, <1>6, <1>7, <1>8, <1>9, <1>10, <1>11, <1>12, <1>13 DEF Answers

-----------------------------------------------------------------------------
(* The function being defined. *)

\* cur_fn is the first declaration of it.
CurOK(cs, f) == Len(cs) >= 2 /\ cs[2].fn = "define" /\ cs[2].next >= 2 => f = FirstDeclaration(cs[2].node)

LEMMA CurStays ==
  ASSUME CgNext, ~CgStart, ~CgDefine, ~CgDefineEnd
  PROVE  UNCHANGED cur_fn
<1> USE DEF rest, kept, OnlyCalls
<1>1. CgEnd \/ CgDeclaration \/ CgPrototype \/ CgNextStatement \/ CgExprStmt \/ CgOperand => UNCHANGED cur_fn
  BY DEF CgEnd, CgDeclaration, CgPrototype, CgNextStatement, CgExprStmt, CgOperand
<1>2. CgVarDecl \/ CgBlockEnter \/ CgBlockLeave \/ CgIfElse \/ CgIfEnd \/ CgWhile \/ CgWhileEnd => UNCHANGED cur_fn
  BY DEF CgVarDecl, CgBlockEnter, CgBlockLeave, CgIfElse, CgIfEnd, CgWhile, CgWhileEnd
<1>3. CgFor \/ CgForCond \/ CgForPost \/ CgForEnd \/ CgForBody \/ CgWhileBody \/ CgIfThen => UNCHANGED cur_fn
  BY DEF CgFor, CgForCond, CgForPost, CgForEnd, CgForBody, CgWhileBody, CgIfThen
<1>4. CgVarInit \/ CgReturnStmt \/ CgLogicalTest \/ CgGlobal => UNCHANGED cur_fn
  BY DEF CgVarInit, CgReturnStmt, CgLogicalTest, CgGlobal
<1>5. CgLiteral \/ CgIndexAddress \/ CgDerefAddress \/ CgAssign \/ CgArith \/ CgAddress \/ CgLoad \/ CgNegate \/ CgNot
        => UNCHANGED cur_fn
  BY DEF CgLiteral, CgIndexAddress, CgDerefAddress, CgAssign, CgArith, CgAddress, CgLoad, CgNegate, CgNot,
         Compute, Pass, Give
<1>6. CgIdent => UNCHANGED cur_fn
  BY DEF CgIdent, CgError, Give
<1>7. CgUnhandled \/ CgCall \/ CgLogicalMerge => UNCHANGED cur_fn
  BY DEF CgUnhandled, CgCall, CgLogicalMerge, CgError, Compute, Give
<1> QED
  BY Zenon, <1>1, <1>2, <1>3, <1>4, <1>5, <1>6, <1>7 DEF CgNext

\* Of a function either nothing is generated, or the statements of its body.
LEMMA OnlyDefines ==
  ASSUME CgGood, CgNext, ~CgStart, CgTop.fn = "define"
  PROVE  CgPrototype \/ CgDefine \/ CgDefineEnd \/ CgNextStatement
<1> USE DEF Step, Evaluated, EvaluatedOp, InList
<1>1. ~CgGlobal /\ ~CgDeclaration /\ ~CgEnd
  BY DEF CgGlobal, CgDeclaration, CgEnd
<1>2. Kind(at) = "FUNC_DECL"
  BY DefiningFacts
<1>3. ~CgVarDecl /\ ~CgVarInit /\ ~CgExprStmt /\ ~CgReturnStmt /\ ~CgBlockEnter /\ ~CgBlockLeave
  BY <1>2 DEF CgVarDecl, CgVarInit, CgExprStmt, CgReturnStmt, CgBlockEnter, CgBlockLeave
<1>4. ~CgIfThen /\ ~CgIfElse /\ ~CgIfEnd /\ ~CgWhile /\ ~CgWhileBody /\ ~CgWhileEnd
  BY DEF CgIfThen, CgIfElse, CgIfEnd, CgWhile, CgWhileBody, CgWhileEnd
<1>5. ~CgFor /\ ~CgForCond /\ ~CgForBody /\ ~CgForPost /\ ~CgForEnd
  BY DEF CgFor, CgForCond, CgForBody, CgForPost, CgForEnd
<1>6. ~CgOperand
  <2>1. Operands = <<>>
    BY DEF Operands
  <2> QED
    BY <2>1 DEF CgOperand
<1>7. ~CgLiteral /\ ~CgIdent /\ ~CgIndexAddress /\ ~CgDerefAddress /\ ~CgAssign /\ ~CgArith /\ ~CgAddress
  BY DEF CgLiteral, CgIdent, CgIndexAddress, CgDerefAddress, CgAssign, CgArith, CgAddress
<1>8. ~CgLoad /\ ~CgNegate /\ ~CgNot /\ ~CgCall /\ ~CgUnhandled /\ ~CgLogicalTest /\ ~CgLogicalMerge
  BY DEF CgLoad, CgNegate, CgNot, CgCall, CgUnhandled, CgLogicalTest, CgLogicalMerge
<1> QED
  BY Zenon, <1>1, <1>3, <1>4, <1>5, <1>6, <1>7, <1>8 DEF CgNext

\* func_lookup finds the first declaration.
LEMMA FuncIsFirst ==
  ASSUME CgFine, Kind(at) = "FUNC_DECL"
  PROVE  funcs[ast[at].name] = FirstDeclaration(at)
<1>1. funcs = DeclaredFuncs /\ at \in Nodes
  BY FineStack DEF CgFine, CgGood, DataOK
<1>2. ast[at].name \in {ast[n].name : n \in {m \in Nodes : Kind(m) = "FUNC_DECL"}}
  BY <1>1
<1>3. DeclaredFuncs[ast[at].name] = FirstOf(DeclarationsOf(ast[at].name))
  BY <1>2 DEF DeclaredFuncs
<1>4. FirstOf(DeclarationsOf(ast[at].name)) = FirstDeclaration(at)
  BY DEF FirstOf, FirstDeclaration
<1> QED BY <1>1, <1>3, <1>4

LEMMA CurMoves ==
  ASSUME CgFine, CgNext, ~CgStart, CurOK(stack, cur_fn)
  PROVE  CurOK(stack', cur_fn')
<1>1. /\ Depth \in Nat /\ Depth >= 1 /\ Depth' \in Nat /\ Depth' \in {Depth - 1, Depth, Depth + 1}
      /\ \A i \in 1..Depth : i < Depth => stack'[i] = stack[i]
      /\ Depth' >= Depth => stack'[Depth].fn = CgTop.fn /\ stack'[Depth].node = at
      /\ CgTop = stack[Depth] /\ CgReturn => Depth' = Depth - 1
  BY StepLeaves
<1>2. CgTop = stack[Depth] /\ Len(stack) = Depth /\ Len(stack') = Depth' /\ CgGood
  BY StepLeaves DEF Depth, CgFine
<1> SUFFICES ASSUME Depth' >= 2, stack'[2].fn = "define", stack'[2].next >= 2
             PROVE  cur_fn' = FirstDeclaration(stack'[2].node)
  BY <1>2 DEF CurOK
<1>3. CASE Depth >= 3
  <2>1. stack'[2] = stack[2]
    BY <1>1, <1>3
  <2>2. CgTop.fn # "define"
    BY <1>2, <1>3, Outside
  <2>3. ~CgDefine /\ ~CgDefineEnd
    <3>1. ~CgDefine
      BY <2>2 DEF CgDefine, Step
    <3>2. ~CgDefineEnd
      <4>1. CgDefineEnd => Kind(at) = "FUNC_DECL" /\ CgTop.fn \in {"stmt", "define"}
        BY DEF CgDefineEnd, InList
      <4>2. CgTop.fn = "stmt" => Kind(at) \in StmtKinds
        BY FineStack DEF FrameOK, KindsOf, at
      <4> QED BY <2>2, <4>1, <4>2 DEF StmtKinds
    <3> QED BY <3>1, <3>2
  <2>4. cur_fn' = cur_fn
    BY <2>3, CurStays
  <2> QED BY <1>2, <1>3, <2>1, <2>4 DEF CurOK
<1>4. CASE Depth = 2
  <2>1. Depth' >= Depth /\ ~CgReturn
    BY <1>1, <1>2, <1>4
  <2>2. CgTop.fn = "define" /\ stack'[2].node = at
    BY <1>1, <1>4, <2>1
  <2>3. CgDefine \/ CgNextStatement
    <3>1. ~CgPrototype /\ ~CgDefineEnd
      BY <2>1 DEF CgPrototype, CgDefineEnd
    <3> QED BY <1>2, <2>2, <3>1, OnlyDefines
  <2>4. CASE CgDefine
    <3>1. cur_fn' = funcs[ast[at].name] /\ Kind(at) = "FUNC_DECL"
      BY <2>4 DEF CgDefine, Step
    <3> QED BY <2>2, <3>1, FuncIsFirst
  <2>5. CASE CgNextStatement
    <3>1. CgTop.next >= 2
      BY <2>5 DEF CgNextStatement, InList
    <3>2. cur_fn' = cur_fn
      BY <2>5 DEF CgNextStatement, OnlyCalls, kept
    <3> QED BY <1>2, <1>4, <2>2, <3>1, <3>2 DEF CurOK, at
  <2> QED BY <2>3, <2>4, <2>5
<1>5. CASE Depth = 1
  <2>1. Depth' = Depth + 1 /\ ~CgReturn
    BY <1>1, <1>2, <1>5
  <2>2. CgTop.fn = "module"
    BY <1>2, <1>5, Outside
  <2>3. CgDeclaration
    <3>1. ~CgEnd
      BY <2>1 DEF CgEnd
    <3> QED BY <2>2, <3>1, OnlyDeclaration
  <2>4. PICK fn, c : CallWith(bb, fn, c)
    BY <2>3 DEF CgDeclaration, CallFn
  <2>5. stack'[Depth + 1] = CgFrame(fn, c)
    <3>1. StackOK /\ StackOK' /\ stack # <<>>
      BY StepLeaves DEF CgFine, CgGood
    <3> QED BY <2>1, <2>4, <3>1, CalledFrame
  <2>6. stack'[2].next = 1
    BY <1>5, <2>5 DEF CgFrame
  <2> QED BY <2>6
<1> QED BY <1>1, <1>3, <1>4, <1>5

CurInv == phase = "codegen" /\ stack # <<>> => CurOK(stack, cur_fn)

\* Statements and expressions are inside the function being defined.
LEMMA InFunction ==
  ASSUME CgFine, NestIn(stack, val), Depth >= 3
  PROVE  /\ stack[2].fn = "define" /\ stack[2].next >= 2 /\ Len(stack) >= 2
         /\ EnclosingFunction(at) = stack[2].node
<1> DEFINE f == stack[2].node
<1>1. CgGood /\ Whole /\ AstTypeOK /\ TreeOK
  BY DEF CgFine, Whole
<1>2. Depth \in Nat /\ at \in Nodes /\ \A i \in 1..Depth : stack[i].node \in Nodes /\ stack[i].next \in Nat /\ FrameOK(stack[i])
  BY FineStack
<1>3. Inside
  <2>1. CgTop.fn \in Running3
    <3>1. CgTop.fn \notin {"module", "define", "global"}
      BY <1>1, Outside
    <3>2. CgTop.fn \in FnNames
      BY <1>1, CgTopFacts DEF CgGood
    <3> QED BY <3>1, <3>2 DEF FnNames, Running3
  <2> QED BY <1>1, <2>1, Within
<1>4. 2 \in 1..Depth /\ 2 < Depth /\ stack[2].fn = "define" /\ stack[2].next >= 2 /\ Len(stack) >= 2
  BY <1>2, <1>3 DEF Inside
<1>5. f \in Nodes /\ Kind(f) = "FUNC_DECL"
  BY <1>2, <1>4 DEF FrameOK, KindsOf
<1>6. Under(at, f)
  <2>1. stack[2].next - 1 \in Steps(stack[2]) /\ Under(at, StepKid(stack[2], stack[2].next - 1))
    BY <1>4, PathFacts
  <2>2. Under(StepKid(stack[2], stack[2].next - 1), f)
    BY <1>1, <1>5, <2>1, StepFacts
  <2> QED BY <1>1, <1>2, <2>1, <2>2, UnderTransitive
<1>7. Kind(1) # "FUNC_DECL"
  BY <1>1 DEF AstTypeOK
<1> HIDE DEF f
<1>8. \A g \in Nodes : Kind(g) = "FUNC_DECL" /\ Under(at, g) => g = f
  <2> SUFFICES ASSUME NEW g \in Nodes, Kind(g) = "FUNC_DECL", Under(at, g) PROVE g = f
    OBVIOUS
  <2>1. Under(g, f) \/ Under(f, g)
    BY <1>1, <1>2, <1>6, AncestorsOrdered
  <2> QED BY <1>1, <1>5, <1>7, <2>1, FunctionAbove
<1>9. EnclosingFunction(at) = f
  BY <1>5, <1>6, <1>8 DEF EnclosingFunction
<1> QED BY <1>4, <1>9 DEF f

-----------------------------------------------------------------------------
(* What statements and declarations use. *)

FairUses == \E kinds : faults' = faults \cup {<<at, k>> : k \in kinds} /\ (~Tainted(at) => Fair(kinds))

LEMMA WrongUses ==
  ASSUME NEW kinds, Wrong(kinds), ~Tainted(at) => Fair(kinds)
  PROVE  FairUses
BY DEF Wrong, FairUses

LEMMA NothingUsed ==
  ASSUME faults' = faults
  PROVE  FairUses
<1> DEFINE kinds == {}
<1>1. faults' = faults \cup {<<at, k>> : k \in kinds}
  OBVIOUS
<1>2. Fair(kinds)
  BY DEF Fair
<1> HIDE DEF kinds
<1> QED BY <1>1, <1>2 DEF FairUses

\* Sema accepts scalar conditions only.
LEMMA ConditionGiven ==
  ASSUME CgSound, CgTop.fn = "stmt", Kind(at) \in {"IF", "WHILE", "FOR"}, NEW i \in Nat,
         i = IF Kind(at) = "FOR" THEN 2 ELSE 1, i < CgTop.next, ~IsNull(CgKid(i))
  PROVE  ~Tainted(at) => TestFaults(Value(i)) = {}
<1>1. CgFine /\ Whole /\ AllRight(rtype, bind) /\ AstTypeOK /\ phase = "codegen" /\ Accepted /\ Failed \in BOOLEAN
  BY FailedIs DEF CgSound, CgFine, CgGood, Whole
<1>2. at \in Nodes /\ at = CgTop.node /\ Arity(at) \in Nat /\ HasArity(Kind(at), Arity(at))
  BY <1>1, FineStack, NodeFacts DEF at
<1>3. i \in 1..Arity(at)
  BY <1>2 DEF HasArity
<1>4. Kind(CgKid(i)) \in ExprKinds
  BY <1>1, <1>2, ConditionKinds DEF CgKid
<1>5. ~SelfCall(CgTop)
  BY DEF SelfCall
<1> DEFINE t == TypeOf[CgKid(i)]
<1>6. rtype[CgKid(i)] = t /\ t \in TypeInfos /\ ~Addressed(CgKid(i))
  <2>1. i = 1 => Kind(at) # "CALL"
    OBVIOUS
  <2>2. ~Addresses(at)
    BY DEF Addresses
  <2> QED BY <1>1, <1>2, <1>3, <1>4, <2>1, <2>2, TypedKid DEF CgKid
<1>7. i \in Steps(CgTop) /\ StepKid(CgTop, i) = CgKid(i)
  BY <1>2, <1>3, <1>5 DEF Steps, StepKid, Index, Giver, CgKid
<1>8. Scalar(t)
  <2>1. NodeAccepted(at)
    BY <1>1, <1>2 DEF Accepted
  <2>2. t.ptr_depth = 0
    BY <2>1 DEF NodeAccepted, CgKid
  <2> QED BY <2>2 DEF Scalar
<1> HIDE DEF t
<1>9. ASSUME ~Tainted(at) PROVE Given(t, Value(i), Failed)
  <2>1. TypedAs(CgKid(i), val[CgKid(i)], Failed)
    BY <1>4, <1>5, <1>7, <1>9, StepGiven
  <2> QED BY <1>6, <2>1 DEF TypedAs, Given, Value
<1> QED BY <1>1, <1>6, <1>8, <1>9, TestFine

LEMMA ConditionUses ==
  ASSUME CgSound, CgIfThen \/ CgWhileBody \/ CgForBody \/ CgLogicalTest
  PROVE  FairUses
<1>1. CASE CgIfThen \/ CgWhileBody
  <2>1. /\ Wrong(TestFaults(Value(1))) /\ CgTop.fn = "stmt" /\ Kind(at) \in {"IF", "WHILE"} /\ CgTop.next = 2
    BY <1>1 DEF CgIfThen, CgWhileBody, Step
  <2>2. ~IsNull(CgKid(1))
    <3>1. Kind(CgKid(1)) \in ExprKinds
      BY <2>1, FineStack, ConditionKinds DEF CgSound, CgFine, CgKid
    <3> QED BY <3>1 DEF IsNull, ExprKinds, Literals
  <2>3. ~Tainted(at) => TestFaults(Value(1)) = {}
    <3>1. Kind(at) \in {"IF", "WHILE", "FOR"} /\ 1 = (IF Kind(at) = "FOR" THEN 2 ELSE 1) /\ 1 < CgTop.next
      BY <2>1
    <3> QED BY <2>1, <2>2, <3>1, ConditionGiven
  <2>4. ~Tainted(at) => Fair(TestFaults(Value(1)))
    BY <2>3 DEF Fair
  <2> QED BY <2>1, <2>4, WrongUses
<1>2. CASE CgForBody
  <2> DEFINE kinds == IF ~IsNull(CgKid(2)) THEN TestFaults(Value(2)) ELSE {}
  <2>1. Wrong(kinds) /\ CgTop.fn = "stmt" /\ Kind(at) = "FOR" /\ CgTop.next = 3
    BY <1>2 DEF CgForBody, Step
  <2>2. ~IsNull(CgKid(2)) /\ ~Tainted(at) => TestFaults(Value(2)) = {}
    <3>1. Kind(at) \in {"IF", "WHILE", "FOR"} /\ 2 = (IF Kind(at) = "FOR" THEN 2 ELSE 1) /\ 2 < CgTop.next
      BY <2>1
    <3> QED BY <2>1, <3>1, ConditionGiven
  <2>3. ~Tainted(at) => kinds = {}
    BY <2>2
  <2> HIDE DEF kinds
  <2>4. ~Tainted(at) => Fair(kinds)
    BY <2>3 DEF Fair
  <2> QED BY <2>1, <2>4, WrongUses
<1>3. CASE CgLogicalTest
  <2>1. Wrong(TestFaults(Value(1))) /\ CgTop.fn = "expr" /\ Kind(at) = "BINARY" /\ IsLogical /\ CgTop.next = 2
    BY <1>3 DEF CgLogicalTest, Step
  <2>2. ~Tainted(at) => Fair(TestFaults(Value(1)))
    BY <2>1, TestedOperand
  <2> QED BY <2>1, <2>2, WrongUses
<1> QED BY <1>1, <1>2, <1>3

\* The value an initialiser or a return statement gives, if it has one.
LEMMA OperandGiven ==
  ASSUME CgSound, Kind(at) \in {"VAR_DECL", "RETURN"}, ~IsNull(CgKid(1))
  PROVE  LET s == TypeOf[CgKid(1)]
         IN /\ s \in TypeInfos /\ rtype[CgKid(1)] = s
            /\ ~Tainted(at) /\ 1 < CgTop.next => Given(s, Value(1), Failed)
<1>1. CgFine /\ Whole /\ AllRight(rtype, bind) /\ AstTypeOK /\ phase = "codegen"
  BY DEF CgSound, CgFine, CgGood, Whole
<1>2. at \in Nodes /\ at = CgTop.node
  BY <1>1, FineStack DEF at
<1>3. Arity(at) = 1 /\ Kind(CgKid(1)) \in Slot(Kind(at), 1) \ HoleKinds
  <2>1. HasArity(Kind(at), Arity(at)) /\ \A i \in 1..Arity(at) : Kind(Kid(at, i)) \in Slot(Kind(at), i) \ HoleKinds
    BY <1>1, <1>2, KidKinds
  <2>2. Arity(at) = 1
    BY <2>1 DEF HasArity
  <2> QED BY <2>1, <2>2 DEF CgKid
<1>4. Kind(CgKid(1)) \in ExprKinds
  BY <1>3 DEF Slot, IsStmtSlot, MayBeNull, StmtSlot, ExprSlot, Null, IsNull, ExprKinds, Literals, HoleKinds
<1>5. 1 \in 1..Arity(at) /\ ~Addresses(at) /\ ~SelfCall(CgTop)
  BY <1>2, <1>3 DEF Addresses, SelfCall
<1>6. rtype[CgKid(1)] = TypeOf[CgKid(1)] /\ TypeOf[CgKid(1)] \in TypeInfos
  <2>1. Kind(at) # "CALL"
    OBVIOUS
  <2> QED BY <1>1, <1>2, <1>4, <1>5, <2>1, TypedKid DEF CgKid
<1>7. ASSUME ~Tainted(at), 1 < CgTop.next PROVE Given(TypeOf[CgKid(1)], Value(1), Failed)
  <2>1. Kind(at) \notin {"BLOCK", "FUNC_DECL", "CALL", "FOR"}
    OBVIOUS
  <2> QED BY <1>4, <1>5, <1>6, <1>7, <2>1, KidGiven
<1> QED BY <1>6, <1>7

LEMMA VarInitUses ==
  ASSUME CgSound, CgVarInit
  PROVE  FairUses
<1>0. CgFine /\ Accepted /\ AstTypeOK /\ Failed \in BOOLEAN /\ at \in Nodes
  BY FailedIs, FineStack DEF CgSound, CgFine, Whole
<1>1. Kind(at) = "VAR_DECL" /\ CgTop.next = 2
  BY DEF CgVarInit, Step
<1>2. CASE IsNull(CgKid(1))
  BY <1>2, NothingUsed DEF CgVarInit
<1>3. CASE ~IsNull(CgKid(1))
  <2> DEFINE s == TypeOf[CgKid(1)]
             t == ast[at].type
             v == Coerce(Value(1), s, t)
             kinds == CoerceFaults(Value(1), s, t) \cup StoreFaults(v, "ptr", t)
  <2>1. s \in TypeInfos /\ rtype[CgKid(1)] = s /\ (~Tainted(at) => Given(s, Value(1), Failed))
    BY <1>1, <1>3, OperandGiven
  <2>2. t \in TypeInfos
    BY <1>0, <1>1, NodeFacts DEF Labelled, Kind
  <2>3. SameDepth(s, t)
    BY <1>0, <1>1, <1>3 DEF Accepted, NodeAccepted, Initialised, CgKid
  <2>4. Wrong(kinds)
    BY <1>3, <2>1 DEF CgVarInit
  <2> HIDE DEF s, t
  <2>5. ~Tainted(at) => Excused(kinds, Failed)
    BY <1>0, <2>1, <2>2, <2>3, StoreFine
  <2> HIDE DEF kinds
  <2>6. ~Tainted(at) => Fair(kinds)
    BY <2>5 DEF Fair, Excused
  <2> QED BY <2>4, <2>6, WrongUses
<1> QED BY <1>2, <1>3

\* The type of the function is that of its first declaration.
LEMMA FirstFacts ==
  ASSUME AstTypeOK, NEW f \in Nodes, Kind(f) = "FUNC_DECL"
  PROVE  FirstDeclaration(f) \in Nodes /\ ast[FirstDeclaration(f)].type \in TypeInfos
<1> DEFINE d == DeclarationsOf(ast[f].name)
<1>1. f \in d /\ d \subseteq Nodes /\ d # {} /\ Nodes = 1..Len(ast) /\ Len(ast) \in Nat /\ \A n \in d : Kind(n) = "FUNC_DECL"
  BY DEF DeclarationsOf, AstTypeOK, Nodes
<1> HIDE DEF d
<1>2. \E g \in d : \A h \in d : g <= h
  BY <1>1, Extremes
<1>3. FirstDeclaration(f) \in d
  BY <1>2 DEF FirstDeclaration, d
<1>4. FirstDeclaration(f) \in Nodes /\ Kind(FirstDeclaration(f)) = "FUNC_DECL"
  BY <1>1, <1>3
<1> QED BY <1>4, NodeFacts DEF Labelled, Kind

LEMMA ReturnUses ==
  ASSUME CgSound, CurOK(stack, cur_fn), CgReturnStmt
  PROVE  FairUses
<1>0. /\ CgFine /\ Accepted /\ AstTypeOK /\ Failed \in BOOLEAN /\ at \in Nodes /\ NestIn(stack, val) /\ CgGood
      /\ Depth \in Nat /\ \A i \in 1..Depth : stack[i].node \in Nodes /\ FrameOK(stack[i])
  BY FailedIs, FineStack DEF CgSound, CgFine, Whole
<1>1. Kind(at) = "RETURN" /\ CgTop.next = 2 /\ CgTop.fn = "stmt" /\ Wrong(ReturnFaults)
  BY DEF CgReturnStmt, Step
<1>2. Depth >= 3
  BY <1>0, <1>1, Within DEF Running3
<1> DEFINE f == EnclosingFunction(at)
           s == TypeOf[CgKid(1)]
           t == ast[cur_fn].type
           v == Coerce(Value(1), s, t)
<1>3. cur_fn = FirstDeclaration(f) /\ f \in Nodes /\ Kind(f) = "FUNC_DECL"
  <2>1. stack[2].fn = "define" /\ stack[2].next >= 2 /\ Len(stack) >= 2 /\ f = stack[2].node
    BY <1>0, <1>2, InFunction
  <2>2. 2 \in 1..Depth
    BY <1>0, <1>2
  <2>3. f \in Nodes /\ Kind(f) = "FUNC_DECL"
    BY <1>0, <2>1, <2>2 DEF FrameOK, KindsOf
  <2> QED BY <2>1, <2>3 DEF CurOK
<1>4. t \in TypeInfos
  BY <1>0, <1>3, FirstFacts
<1>5. Initialised(at, t)
  BY <1>0, <1>1, <1>3 DEF Accepted, NodeAccepted
<1> HIDE DEF f
<1>6. CASE IsNull(CgKid(1))
  <2>1. ReturnFaults = If(~Scalar(t), "zero")
    BY <1>1, <1>6 DEF ReturnFaults
  <2>2. Gap(at, "zero")
    BY <1>1, <1>6 DEF Gap, CgKid
  <2>3. Fair(ReturnFaults)
    BY <2>1, <2>2 DEF Fair, If
  <2> QED BY <1>1, <2>3, WrongUses
<1>7. CASE ~IsNull(CgKid(1))
  <2>1. s \in TypeInfos /\ rtype[CgKid(1)] = s /\ (~Tainted(at) => Given(s, Value(1), Failed))
    BY <1>1, <1>7, OperandGiven
  <2>2. SameDepth(s, t)
    BY <1>5, <1>7 DEF Initialised, CgKid
  <2>3. ReturnFaults = If(v = "NULL", "null") \cup If(v # LlvmType(t), "operand") \cup CoerceFaults(Value(1), s, t)
    BY <1>1, <1>7, <2>1 DEF ReturnFaults
  <2> HIDE DEF s, t
  <2>4. ~Tainted(at) => CoerceFaults(Value(1), s, t) = {} /\ (v = LlvmType(t) \/ (v = "NULL" /\ Failed))
    BY <1>0, <1>4, <2>1, <2>2, CoerceFine
  <2>5. LlvmType(t) # "NULL"
    BY DEF LlvmType
  <2> HIDE DEF v
  <2>6. ~Tainted(at) => ReturnFaults = {} \/ ("null" \in ReturnFaults /\ Failed)
    BY <2>3, <2>4, <2>5 DEF If
  <2>7. ~Tainted(at) => Fair(ReturnFaults)
    BY <2>6 DEF Fair
  <2> QED BY <1>1, <2>7, WrongUses
<1> QED BY <1>6, <1>7

LEMMA DefineUses ==
  ASSUME CgSound, CgDefine
  PROVE  FairUses
<1> DEFINE f == funcs[ast[at].name]
           params == ast[at].params
           P == \E i \in DOMAIN params : LlvmType(params[i].type) # LlvmType(ast[f].params[i].type)
<1>1. Kind(at) = "FUNC_DECL" /\ Wrong(If(P, "store"))
  BY DEF CgDefine, Step
<1>2. f = FirstDeclaration(at)
  BY <1>1, FuncIsFirst DEF CgSound
<1>3. P => Gap(at, "store")
  BY <1>1, <1>2 DEF Gap
<1> HIDE DEF P
<1>4. Fair(If(P, "store"))
  BY <1>3 DEF Fair, If
<1> QED BY <1>1, <1>4, WrongUses

LEMMA DefineEndUses ==
  ASSUME CgSound, CurOK(stack, cur_fn), CgDefineEnd
  PROVE  FairUses
<1>0. CgFine /\ CgGood /\ Accepted /\ AstTypeOK /\ at \in Nodes /\ CgTop = stack[Depth] /\ CgTop.node = at /\ Depth \in Nat
  BY FineStack DEF CgSound, CgFine, Whole, at
<1>1. Kind(at) = "FUNC_DECL" /\ CgTop.fn \in {"stmt", "define"} /\ CgTop.next >= 2
  BY DEF CgDefineEnd, InList
<1>2. CgTop.fn = "define"
  <2>1. CgTop.fn = "stmt" => Kind(at) \in StmtKinds
    BY <1>0, CgTopFacts DEF CgGood, KindsOf
  <2> QED BY <1>1, <2>1 DEF StmtKinds
<1>3. cur_fn = FirstDeclaration(at)
  <2>1. Depth = 2
    BY <1>0, <1>2, DefiningFacts
  <2> QED BY <1>0, <1>1, <1>2, <2>1 DEF CurOK, Depth
<1>4. ast[cur_fn].type = ast[at].type
  BY <1>0, <1>1, <1>3 DEF Accepted, NodeAccepted
<1>5. CASE Open
  <2>1. Wrong(ReturnFaults)
    BY <1>5 DEF CgDefineEnd
  <2>2. ReturnFaults = If(~Scalar(ast[at].type), "zero")
    BY <1>1, <1>4 DEF ReturnFaults
  <2>3. ~Scalar(ast[at].type) => Gap(at, "zero")
    BY <1>1 DEF Gap
  <2>4. Fair(ReturnFaults)
    BY <2>2, <2>3 DEF Fair, If
  <2> QED BY <2>1, <2>4, WrongUses
<1>6. CASE ~Open
  BY <1>6, NothingUsed DEF CgDefineEnd
<1> QED BY <1>5, <1>6

LEMMA GlobalUses ==
  ASSUME CgSound, CgGlobal
  PROVE  FairUses
<1> DEFINE kind == Kind(CgKid(1))
           slot == LlvmType(ast[at].type)
           kinds == If(kind \in {"INT_LIT", "CHAR_LIT"} /\ slot = "ptr", "zero") \cup If(kind = "STR_LIT" /\ slot # "ptr", "operand")
<1>0. CgFine /\ Accepted /\ Whole /\ AstTypeOK /\ TreeOK /\ at \in Nodes
  BY FineStack DEF CgSound, CgFine, Whole
<1>1. Kind(at) = "VAR_DECL" /\ Wrong(kinds)
  BY DEF CgGlobal, Step
<1>2. ASSUME kind \in {"INT_LIT", "CHAR_LIT", "STR_LIT"} PROVE kinds = {}
  <2> DEFINE s == TypeOf[CgKid(1)]
             t == ast[at].type
  <2>1. ~IsNull(CgKid(1))
    BY <1>2 DEF IsNull
  <2>2. CgKid(1) \in Nodes
    <3>1. HasArity(Kind(at), Arity(at)) /\ Arity(at) \in Nat /\ \A i \in 1..Arity(at) : Kid(at, i) \in Nodes
      BY <1>0, NodeFacts
    <3>2. 1 \in 1..Arity(at)
      BY <1>1, <3>1 DEF HasArity
    <3> QED BY <3>1, <3>2 DEF CgKid
  <2>3. s = TypeFrom(CgKid(1), KidTypesOf(TypeOf, CgKid(1)))
    BY <1>0, <2>2, TypeOfUnfolds
  <2>4. SameDepth(s, t)
    BY <1>0, <1>1, <2>1 DEF Accepted, NodeAccepted, Initialised, CgKid
  <2>5. kind \in {"INT_LIT", "CHAR_LIT"} => s.ptr_depth = 0
    <3>1. kind = "INT_LIT" => s = IntType
      BY <2>3 DEF TypeFrom
    <3>2. kind = "CHAR_LIT" => s = CharType
      BY <2>3 DEF TypeFrom
    <3> QED BY <3>1, <3>2 DEF IntType, CharType, TypeInfo
  <2>6. kind = "STR_LIT" => s.ptr_depth = 1
    BY <2>3 DEF TypeFrom, TypeInfo
  <2> HIDE DEF s
  <2>7. kind \in {"INT_LIT", "CHAR_LIT"} => slot # "ptr"
    BY <2>4, <2>5 DEF SameDepth, LlvmType, Scalar
  <2>8. kind = "STR_LIT" => slot = "ptr"
    BY <2>4, <2>6 DEF SameDepth, LlvmType, Scalar
  <2> HIDE DEF slot
  <2> QED BY <2>7, <2>8 DEF If
<1>3. ASSUME kind \notin {"INT_LIT", "CHAR_LIT", "STR_LIT"} PROVE kinds = {}
  BY <1>3 DEF If
<1>4. kinds = {}
  BY <1>2, <1>3
<1> HIDE DEF kinds
<1>5. Fair(kinds)
  BY <1>4 DEF Fair
<1> QED BY <1>1, <1>5, WrongUses

\* No step but those of cg_expr, cg_lvalue and of what a value is used in finds a wrong use.
LEMMA EveryUse ==
  ASSUME CgSound, CurOK(stack, cur_fn), CgNext, ~CgStart, ~Answers
  PROVE  FairUses
<1>1. CASE CgVarInit
  BY <1>1, VarInitUses
<1>2. CASE CgReturnStmt
  BY <1>2, ReturnUses
<1>3. CASE CgDefine
  BY <1>3, DefineUses
<1>4. CASE CgDefineEnd
  BY <1>4, DefineEndUses
<1>5. CASE CgGlobal
  BY <1>5, GlobalUses
<1>6. CASE CgIfThen \/ CgWhileBody \/ CgForBody \/ CgLogicalTest
  BY <1>6, ConditionUses
<1>7. CASE CgEnd \/ CgDeclaration \/ CgPrototype \/ CgNextStatement \/ CgExprStmt \/ CgOperand
  <2>1. faults' = faults
    BY <1>7 DEF rest, kept, OnlyCalls, CgEnd, CgDeclaration, CgPrototype, CgNextStatement, CgExprStmt, CgOperand
  <2> QED BY <2>1, NothingUsed
<1>8. CASE CgVarDecl \/ CgBlockEnter \/ CgBlockLeave \/ CgIfElse \/ CgIfEnd \/ CgWhile \/ CgWhileEnd
  <2>1. faults' = faults
    BY <1>8 DEF rest, kept, OnlyCalls, CgVarDecl, CgBlockEnter, CgBlockLeave, CgIfElse, CgIfEnd, CgWhile, CgWhileEnd
  <2> QED BY <2>1, NothingUsed
<1>9. CASE CgFor \/ CgForCond \/ CgForPost \/ CgForEnd
  <2>1. faults' = faults
    BY <1>9 DEF rest, kept, OnlyCalls, CgFor, CgForCond, CgForPost, CgForEnd
  <2> QED BY <2>1, NothingUsed
<1> QED
  BY Zenon, <1>1, <1>2, <1>3, <1>4, <1>5, <1>6, <1>7, <1>8, <1>9 DEF CgNext, Answers

-----------------------------------------------------------------------------
(* What a step adds to the uses and to the errors. *)

\* The nodes where something is wrong, given the uses, the values and the meanings of names.
WrongBy(uses1, values, means) ==
  {m \in Nodes : (\E f \in uses1 : f[1] = m) \/ (Kind(m) = "IDENT" /\ values[m] # "none" /\ means[m] # bind[m].decl)}

WrongNext == WrongBy(faults', val', cgbind')

LEMMA WrongIs == wrong = WrongBy(faults, val, cgbind)
  BY DEF wrong, WrongBy, HasFault, Visited

\* What is wrong stays wrong.
LEMMA WrongGrows ==
  ASSUME CgSound, CgNext, ~CgStart, faults \subseteq faults'
  PROVE  wrong \subseteq WrongNext
<1>1. CgFine /\ NestIn(stack, val)
  BY DEF CgSound
<1>2. \A n \in Nodes : n # at => val'[n] = val[n] /\ cgbind'[n] = cgbind[n]
  BY <1>1, StepLeaves
<1>3. Kind(at) = "IDENT" => val[at] = "none"
  <2>1. Depth \in 1..Len(stack) /\ stack[Depth].node = at
    BY <1>1, FineStack DEF at, Depth
  <2> QED BY <1>1, <2>1 DEF NestIn
<1> SUFFICES ASSUME NEW m \in Nodes, m \in wrong PROVE m \in WrongNext
  BY DEF wrong
<1>4. CASE \E f \in faults : f[1] = m
  BY <1>4 DEF WrongNext, WrongBy
<1>5. CASE Kind(m) = "IDENT" /\ val[m] # "none" /\ cgbind[m] # bind[m].decl
  <2>1. m # at
    BY <1>3, <1>5
  <2> QED BY <1>2, <1>5, <2>1 DEF WrongNext, WrongBy
<1> QED BY <1>4, <1>5, WrongIs DEF WrongBy

LEMMA TaintedIs ==
  ASSUME NEW n \in Nodes
  PROVE  Tainted(n) <=> \E m \in Nodes \ {n} : Under(m, n) /\ m \in wrong
  BY DEF Tainted, wrong

\* Errors are not taken back.
LEMMA FailedStays ==
  ASSUME CgSound, NEW fs, Mirrors(fs, stack), Holding(fs, env), CgNext, ~CgStart, Failed
  PROVE  cg_errors' > 0
<1>1. CgFine /\ Accepted /\ AllRight(rtype, bind) /\ CallsAgree /\ \A i \in 1..Depth : RoleOK(stack[i])
  BY DEF CgSound
<1>2. Depth \in Nat /\ Depth >= 1 /\ CgTop = stack[Depth]
  BY <1>1, FineStack
<1>3. RoleOK(CgTop)
  BY <1>1, <1>2
<1>4. cg_errors \in Nat
  BY <1>1 DEF CgFine, CgGood, DataOK
<1>5. CASE CgGlobal
  <2>1. cg_errors' = IF ComputedGlobal(at) THEN cg_errors + 1 ELSE cg_errors
    BY <1>1, <1>5, GlobalReports
  <2> QED BY <1>4, <2>1 DEF Failed
<1>6. CASE ~CgGlobal
  <2>1. cg_errors' \in Nat /\ cg_errors' >= cg_errors
    BY <1>1, <1>3, <1>6, StepReports
  <2> QED BY <1>4, <2>1 DEF Failed
<1> QED BY <1>5, <1>6

\* Only CgIdent answers for a name, and with a value.
LEMMA NamesAnswered ==
  ASSUME CgSound, NEW fs, Mirrors(fs, stack), Holding(fs, env), Answers, Kind(at) = "IDENT"
  PROVE  val'[at] # "none"
<1> USE DEF Evaluated, EvaluatedOp, Step
<1>1. ~CgLiteral /\ ~CgUnhandled /\ ~CgIndexAddress /\ ~CgDerefAddress /\ ~CgAssign
  BY DEF CgLiteral, CgUnhandled, Unhandled, CgIndexAddress, CgDerefAddress, CgAssign, Literals
<1>2. ~CgArith /\ ~CgAddress /\ ~CgLoad /\ ~CgNegate /\ ~CgNot /\ ~CgCall /\ ~CgLogicalMerge
  BY DEF CgArith, CgAddress, CgLoad, CgNegate, CgNot, CgCall, CgLogicalMerge
<1>3. CgIdent
  BY Zenon, <1>1, <1>2 DEF Answers
<1>4. CgFine /\ Accepted /\ AllRight(rtype, bind)
  BY DEF CgSound
<1>5. PICK v : v # "none" /\ val' = [val EXCEPT ![at] = v]
  BY <1>3, <1>4, IdentReports
<1>6. DOMAIN val = Nodes /\ at \in Nodes
  BY <1>4, FineStack DEF CgFine, CgGood, DataOK
<1> QED BY <1>5, <1>6

\* A node is done: its value is right, or something is wrong at it or under it.
LEMMA AnswerDone ==
  ASSUME CgSound, NEW fs, Mirrors(fs, stack), Holding(fs, env), CgNext, ~CgStart, Answers,
         NEW v, NEW kinds, Answered(v, kinds), ~SelfCall(stack[Depth - 1])
  PROVE  DoneIn(at, val', WrongNext, cg_errors' > 0)
<1> SUFFICES ASSUME CleanIn(at, WrongNext) PROVE TypedAs(at, val'[at], cg_errors' > 0)
  BY DEF DoneIn
<1>1. faults' = faults \cup {<<at, k>> : k \in kinds} /\ val' = [val EXCEPT ![at] = v]
  BY DEF Answered
<1>2. CgFine /\ Whole /\ at \in Nodes /\ DOMAIN val = Nodes
  BY StepLeaves DEF CgSound, CgFine
<1>3. wrong \subseteq WrongNext
  BY <1>1, WrongGrows
<1>4. ~Tainted(at)
  BY <1>2, <1>3, TaintedIs DEF CleanIn
<1>5. at \notin WrongNext
  BY <1>2, UnderSelf DEF CleanIn, Whole
<1>6. kinds = {}
  <2> SUFFICES ASSUME NEW k \in kinds PROVE FALSE
    OBVIOUS
  <2>1. <<at, k>> \in faults' /\ <<at, k>>[1] = at
    BY <1>1
  <2> QED BY <1>2, <1>5, <2>1 DEF WrongNext, WrongBy
<1>7. Kind(at) = "IDENT" => cgbind'[at] = bind[at].decl
  <2> SUFFICES ASSUME Kind(at) = "IDENT" PROVE cgbind'[at] = bind[at].decl
    OBVIOUS
  <2>1. val'[at] # "none"
    BY NamesAnswered
  <2> QED BY <1>2, <1>5, <2>1 DEF WrongNext, WrongBy
<1>8. val'[at] = v
  BY <1>1, <1>2
<1> QED BY <1>4, <1>6, <1>7, <1>8 DEF Answered

-----------------------------------------------------------------------------
(* A step keeps the values of operands right. *)

LEMMA CallDepth ==
  ASSUME StackOK, StackOK', stack # <<>>, NEW locals, NEW fn, NEW n, CallWith(locals, fn, n)
  PROVE  Depth' >= Depth /\ (Depth' = Depth => IsNull(n))
<1> DEFINE L == Len(stack)
           r == [stack EXCEPT ![L].next = @ + 1, ![L].bb = locals]
           F == CgFrame(fn, n)
<1>0. stack \in Seq(FrameRecords) /\ stack' \in Seq(FrameRecords')
  BY DEF StackOK
<1>1. L \in Nat /\ DOMAIN stack = 1..L
  BY <1>0
<1>2. DOMAIN r = 1..L
  BY <1>1
<1>3. stack' = IF IsNull(n) THEN r ELSE Append(r, F)
  BY DEF CallWith
<1> HIDE DEF r, L, F
<1>4. Len(r) = L
  BY <1>1, <1>2
<1>5. DOMAIN stack' = 1..Len(stack') /\ Len(stack') \in Nat
  BY <1>0
<1>6. CASE IsNull(n)
  BY <1>1, <1>3, <1>4, <1>6 DEF Depth, L
<1>7. CASE ~IsNull(n)
  <2>1. L + 1 \in DOMAIN stack'
    BY <1>1, <1>2, <1>3, <1>4, <1>7, AppendLast
  <2>2. Len(stack') >= L + 1
    BY <1>1, <1>5, <2>1
  <2>3. Len(stack) = L
    BY DEF L
  <2>4. Len(stack') >= Len(stack) /\ Len(stack') # Len(stack)
    <3> DEFINE M == Len(stack')
    <3>1. M \in Nat /\ L \in Nat /\ M >= L + 1
      BY <1>1, <1>5, <2>2
    <3> HIDE DEF M
    <3>2. M >= L /\ M # L
      BY <3>1
    <3> QED BY <2>3, <3>2 DEF M
  <2> QED BY <2>4 DEF Depth
<1> QED BY <1>6, <1>7

\* Every wrong use is fair.
LEMMA StepUses ==
  ASSUME CgSound, NEW fs, Mirrors(fs, stack), Holding(fs, env), CurOK(stack, cur_fn), CgNext, ~CgStart
  PROVE  FairUses
<1>1. CASE Answers
  <2>1. PICK v, kinds : Answered(v, kinds)
    BY <1>1, EveryAnswer
  <2> QED BY <2>1 DEF Answered, FairUses
<1>2. CASE ~Answers
  BY <1>2, EveryUse
<1> QED BY <1>1, <1>2

\* Only answers end what cg_expr and cg_lvalue do.
LEMMA ExpressionSteps ==
  ASSUME CgFine, CgNext, ~CgStart, CgReturn, IsExpr(CgTop)
  PROVE  Answers
<1> SUFFICES ASSUME ~Answers PROVE FALSE
  OBVIOUS
<1>0. StackOK /\ StackOK' /\ stack # <<>> /\ Depth \in Nat /\ Depth' = Depth - 1 /\ Kind(at) \in ExprKinds \cup Null
      /\ CgTop.fn \in {"expr", "lvalue"}
  <2>1. CgTop = stack[Depth] /\ FrameOK(CgTop) /\ CgTop.fn \in {"expr", "lvalue"}
    BY FineStack DEF IsExpr
  <2> QED BY <2>1, StepLeaves DEF CgFine, CgGood, FrameOK, KindsOf, at
<1>1. ~CgOperand /\ ~CgLogicalTest
  <2>1. ASSUME NEW locals, NEW fn, NEW n, CallWith(locals, fn, n) PROVE FALSE
    <3>1. Depth' >= Depth
      BY <1>0, <2>1, CallDepth
    <3> QED BY <1>0, <3>1
  <2> QED BY <2>1 DEF CgOperand, CgLogicalTest, CallFn
<1> USE DEF Step, Evaluated, EvaluatedOp, InList
<1>2. ~CgGlobal /\ ~CgDeclaration /\ ~CgEnd /\ ~CgPrototype /\ ~CgDefine
  BY <1>0 DEF CgGlobal, CgDeclaration, CgEnd, CgPrototype, CgDefine
<1>3. ~CgVarDecl /\ ~CgVarInit /\ ~CgExprStmt /\ ~CgReturnStmt /\ ~CgBlockEnter /\ ~CgBlockLeave
  BY <1>0 DEF CgVarDecl, CgVarInit, CgExprStmt, CgReturnStmt, CgBlockEnter, CgBlockLeave
<1>4. ~CgIfThen /\ ~CgIfElse /\ ~CgIfEnd /\ ~CgWhile /\ ~CgWhileBody /\ ~CgWhileEnd
  BY <1>0 DEF CgIfThen, CgIfElse, CgIfEnd, CgWhile, CgWhileBody, CgWhileEnd
<1>5. ~CgFor /\ ~CgForCond /\ ~CgForBody /\ ~CgForPost /\ ~CgForEnd
  BY <1>0 DEF CgFor, CgForCond, CgForBody, CgForPost, CgForEnd
<1>6. ~CgDefineEnd /\ ~CgNextStatement
  BY <1>0 DEF CgDefineEnd, CgNextStatement
<1> QED
  BY Zenon, <1>1, <1>2, <1>3, <1>4, <1>5, <1>6 DEF CgNext, Answers

LEMMA ValuesMove ==
  ASSUME CgSound, NEW fs, Mirrors(fs, stack), Holding(fs, env), CurOK(stack, cur_fn), CgNext, ~CgStart
  PROVE  ValuesIn(stack', val', WrongNext, cg_errors' > 0)
<1>1. /\ CgFine /\ CgGood /\ NestIn(stack, val) /\ ValuesIn(stack, val, wrong, Failed) /\ Whole
      /\ StackOK /\ StackOK' /\ stack # <<>> /\ Depth \in Nat /\ Depth >= 1 /\ at \in Nodes /\ DOMAIN val = Nodes
  BY StepLeaves DEF CgSound, CgFine, CgGood
<1>2. faults \subseteq faults'
  BY StepUses DEF FairUses
<1>3. wrong \subseteq WrongNext
  BY <1>2, WrongGrows
<1> DEFINE more == WrongNext
           later == cg_errors' > 0
           bad == wrong
           failed == Failed
<1>4. bad \subseteq more /\ (failed => later) /\ ValuesIn(stack, val, bad, failed)
  BY <1>1, <1>3, FailedStays
<1>5. CASE CgReturn
  <2>1. CASE Answers
    <3>1. PICK v, kinds : Answered(v, kinds)
      BY <2>1, EveryAnswer
    <3>2. CgTop.fn = "lvalue" /\ Kind(at) = "INDEX" => val'[at] = "ptr"
      BY <1>1, <3>1 DEF Answered
    <3>3. Depth >= 2 /\ ~SelfCall(stack[Depth - 1]) /\ Kind(at) \in ExprKinds => DoneIn(at, val', more, later)
      BY <2>1, <3>1, AnswerDone
    <3> HIDE DEF more, later, bad, failed
    <3> QED BY <1>1, <1>4, <1>5, <3>2, <3>3, ValuesReturn DEF more, later
  <2>2. CASE ~Answers
    <3>1. ~IsExpr(CgTop)
      BY <1>1, <1>5, <2>2, ExpressionSteps
    <3>2. CgTop.fn # "lvalue" /\ Kind(at) \notin ExprKinds
      BY <1>1, <3>1, StatementNode DEF IsExpr
    <3>3. CgTop.fn = "lvalue" /\ Kind(at) = "INDEX" => val'[at] = "ptr"
      BY <3>2
    <3>4. Depth >= 2 /\ ~SelfCall(stack[Depth - 1]) /\ Kind(at) \in ExprKinds => DoneIn(at, val', more, later)
      BY <3>2
    <3> HIDE DEF more, later, bad, failed
    <3> QED BY <1>1, <1>4, <1>5, <3>3, <3>4, ValuesReturn DEF more, later
  <2> QED BY <2>1, <2>2
<1>6. CASE ~CgReturn
  <2>1. ~Answers
    BY <1>6, AnswersReturn
  <2>2. UNCHANGED val
    BY <2>1, QuietSteps
  <2>3. CASE \E locals, fn, c : NextCall(fn, c) /\ CallWith(locals, fn, c)
    <3>1. PICK locals, fn, c : NextCall(fn, c) /\ CallWith(locals, fn, c)
      BY <2>3
    <3>2. c \in Nodes
      <4>1. at = CgTop.node
        BY DEF at
      <4> QED BY <1>1, <3>1, <4>1, StepFacts DEF NextCall
    <3>3. stack'[Depth].next = CgTop.next + 1
      BY <1>1, <3>1, CallerNext
    <3>4. Depth' >= Depth /\ (Depth' = Depth => IsNull(c))
      BY <1>1, <3>1, CallDepth
    <3>5. Depth' = Depth + 1 => stack'[Depth + 1] = CgFrame(fn, c)
      BY <1>1, <3>1, CalledFrame
    <3> HIDE DEF more, later, bad, failed
    <3> QED BY <1>1, <1>4, <2>2, <3>1, <3>2, <3>3, <3>4, <3>5, ValuesGoOn DEF more, later
  <2>4. CASE stack' = [stack EXCEPT ![Len(stack)].next = 2] /\ CgTop.next = 1 /\ 1 \notin Steps(CgTop)
    <3>1. Depth' = Depth /\ stack'[Depth].next = 2
      BY <1>1, <2>4, Advanced2
    <3>2. Depth' >= Depth /\ (Depth' = Depth + 1 => stack'[Depth + 1] = CgFrame("stmt", at))
      BY <1>1, <3>1
    <3> HIDE DEF more, later, bad, failed
    <3> QED BY <1>1, <1>4, <2>2, <2>4, <3>1, <3>2, ValuesGoOn DEF more, later
  <2> QED BY <1>1, <1>6, <2>3, <2>4, GoesOrReturns
<1> QED BY <1>5, <1>6

-----------------------------------------------------------------------------
(* Wrong uses, from one state to the next. *)

ValuesInv == phase = "codegen" /\ stack # <<>> => ValuesIn(stack, val, wrong, Failed)

\* Every wrong use is one of the gaps, follows another, or is of NULL after an error.
FaultsFair ==
  \A f \in faults : Gap(f[1], f[2]) \/ Tainted(f[1]) \/ (<<f[1], "null">> \in faults /\ Failed)

FaultsInv == (phase = "codegen" /\ stack # <<>>) \/ Generated => FaultsFair

UsesInv == CurInv /\ ValuesInv /\ FaultsInv

LEMMA FirstStable ==
  ASSUME UNCHANGED ast
  PROVE  \A n : FirstDeclaration(n)' = FirstDeclaration(n)
<1>1. Nodes' = Nodes /\ \A n : Kind(n)' = Kind(n)
  BY DEF Nodes, Kind
<1> QED BY <1>1 DEF FirstDeclaration, DeclarationsOf

LEMMA CurStable ==
  ASSUME UNCHANGED ast, CurOK(stack', cur_fn')
  PROVE  CurOK(stack, cur_fn)'
BY FirstStable DEF CurOK

LEMMA WrongStable ==
  ASSUME UNCHANGED <<ast, bind>>
  PROVE  wrong' = WrongNext
<1>1. Nodes' = Nodes /\ \A n : Kind(n)' = Kind(n)
  BY DEF Nodes, Kind
<1> QED BY <1>1 DEF wrong, WrongNext, WrongBy, HasFault, Visited

LEMMA TaintStable ==
  ASSUME UNCHANGED <<ast, bind>>, NEW n \in Nodes, Tainted(n), wrong \subseteq WrongNext
  PROVE  Tainted(n)'
<1>1. Nodes' = Nodes /\ Path' = Path
  BY RulesStable
<1>2. wrong' = WrongNext
  BY WrongStable
<1>3. \A m : Kind(m)' = Kind(m) /\ (Under(m, n)' <=> Under(m, n))
  BY <1>1 DEF Kind, Under
<1>4. PICK m \in Nodes \ {n} : Under(m, n) /\ m \in wrong
  BY TaintedIs
<1>5. m \in Nodes' \ {n} /\ Under(m, n)' /\ m \in wrong'
  BY <1>1, <1>2, <1>3, <1>4
<1>6. HasFault(m)' \/ (Kind(m) = "IDENT" /\ Visited(m) /\ cgbind[m] # bind[m].decl)'
  BY <1>5 DEF wrong
<1> QED BY <1>5, <1>6 DEF Tainted

LEMMA GapStable ==
  ASSUME UNCHANGED <<ast, rtype, bind>>
  PROVE  \A n, k : Gap(n, k)' <=> Gap(n, k)
<1>1. \A n : Kind(n)' = Kind(n) /\ Arity(n)' = Arity(n) /\ (IsNull(n)' <=> IsNull(n)) /\ \A i : Kid(n, i)' = Kid(n, i)
  BY DEF Kind, Arity, Kid, IsNull
<1>2. \A n, i : PointerOperand(n, i)' <=> PointerOperand(n, i)
  BY <1>1 DEF PointerOperand
<1>3. \A n : FirstDeclaration(n)' = FirstDeclaration(n)
  BY FirstStable
<1> QED BY <1>1, <1>2, <1>3 DEF Gap

LEMMA ValuesStable ==
  ASSUME UNCHANGED <<ast, rtype, bind>>, ValuesIn(stack', val', WrongNext, cg_errors' > 0)
  PROVE  ValuesIn(stack, val, wrong, Failed)'
<1>1. Nodes' = Nodes /\ Path' = Path
  BY RulesStable
<1>2. \A n : Kind(n)' = Kind(n) /\ Arity(n)' = Arity(n) /\ \A i : Kid(n, i)' = Kid(n, i)
  BY DEF Kind, Arity, Kid
<1>3. \A n, m : Under(n, m)' <=> Under(n, m)
  BY <1>1 DEF Under
<1>4. \A n : Addressed(n)' <=> Addressed(n)
  BY <1>2 DEF Addressed, Parent, Kind, Kid, Arity
<1>5. \A f : (SelfCall(f)' <=> SelfCall(f)) /\ Giver(f)' = Giver(f) /\ \A k : Index(f, k)' = Index(f, k)
  BY <1>2 DEF SelfCall, Giver, Index
<1>6. \A f : Steps(f)' = Steps(f) /\ \A k : StepKid(f, k)' = StepKid(f, k)
  BY <1>2, <1>5 DEF Steps, StepKid
<1>7. wrong' = WrongNext
  BY WrongStable
<1>8. \A c, v : TypedAs(c, v, Failed)' <=> TypedAs(c, v, cg_errors' > 0)
  BY <1>4 DEF TypedAs, Failed
<1>9. \A c : DoneIn(c, val, wrong, Failed)' <=> DoneIn(c, val', WrongNext, cg_errors' > 0)
  <2>1. \A c : CleanIn(c, wrong)' <=> CleanIn(c, WrongNext)
    BY <1>1, <1>3, <1>7 DEF CleanIn
  <2> QED BY <1>8, <2>1 DEF DoneIn
<1> QED
  BY <1>2, <1>5, <1>6, <1>9 DEF ValuesIn

\* What the invariants say while CodeGen runs.
LEMMA SoundNow ==
  ASSUME SemaInv, VisitInv, CgInv, MeaningInv, RolesInv, CallsAgree, NestInv, UsesInv,
         phase = "codegen", stack # <<>>
  PROVE  CgSound /\ CurOK(stack, cur_fn) /\ FaultsFair
<1>1. CgFine
  BY DEF CgFine, CgGood, CgInv, Whole, SemaInv, VisitInv
<1>2. Accepted /\ AllRight(rtype, bind)
  BY DEF MeaningInv
<1>3. \A i \in 1..Depth : RoleOK(stack[i])
  BY DEF RolesInv
<1>4. NestIn(stack, val) /\ ValuesIn(stack, val, wrong, Failed)
  BY DEF NestInv, UsesInv, ValuesInv
<1>5. CurOK(stack, cur_fn) /\ FaultsFair
  BY DEF UsesInv, CurInv, FaultsInv
<1> QED
  BY <1>1, <1>2, <1>3, <1>4, <1>5 DEF CgSound

\* A step adds fair uses only.
LEMMA FairMoves ==
  ASSUME CgSound, NEW fs, Mirrors(fs, stack), Holding(fs, env), CurOK(stack, cur_fn), CgNext, ~CgStart, FaultsFair
  PROVE  FaultsFair'
<1>1. CgFine /\ Whole /\ at \in Nodes /\ UNCHANGED <<ast, rtype, bind>> /\ CgGood
  BY StepLeaves, CgKeepsSema DEF CgSound, CgFine, semaVars
<1>2. PICK kinds : faults' = faults \cup {<<at, k>> : k \in kinds} /\ (~Tainted(at) => Fair(kinds))
  BY StepUses DEF FairUses
<1>3. wrong \subseteq WrongNext
  BY <1>2, WrongGrows
<1>4. Failed => cg_errors' > 0
  BY FailedStays
<1>5. \A n, k : Gap(n, k)' <=> Gap(n, k)
  BY <1>1, GapStable
<1>6. \A n \in Nodes : Tainted(n) => Tainted(n)'
  BY <1>1, <1>3, TaintStable
<1>7. ASSUME NEW f \in faults
      PROVE  Gap(f[1], f[2])' \/ Tainted(f[1])' \/ (<<f[1], "null">> \in faults' /\ cg_errors' > 0)
  <2>1. f[1] \in Nodes
    BY <1>1, <1>7 DEF CgGood, DataOK
  <2>2. Gap(f[1], f[2]) \/ Tainted(f[1]) \/ (<<f[1], "null">> \in faults /\ Failed)
    BY <1>7 DEF FaultsFair
  <2>3. CASE Gap(f[1], f[2])
    BY <1>5, <2>3
  <2>4. CASE Tainted(f[1])
    BY <1>6, <2>1, <2>4
  <2>5. CASE <<f[1], "null">> \in faults /\ Failed
    BY <1>2, <1>4, <2>5
  <2> QED BY <2>2, <2>3, <2>4, <2>5
<1>8. ASSUME NEW k \in kinds, NEW n \in Nodes, n = at
      PROVE  Gap(n, k)' \/ Tainted(n)' \/ (<<n, "null">> \in faults' /\ cg_errors' > 0)
  <2>1. CASE Tainted(n)
    BY <1>6, <2>1
  <2>2. CASE ~Tainted(n)
    <3>1. Gap(n, k) \/ ("null" \in kinds /\ Failed)
      BY <1>2, <1>8, <2>2 DEF Fair
    <3>2. "null" \in kinds => <<n, "null">> \in faults'
      BY <1>2, <1>8
    <3> QED BY <1>4, <1>5, <3>1, <3>2
  <2> QED BY <2>1, <2>2
<1>9. ASSUME NEW f \in faults', NEW n, n = f[1], NEW k, k = f[2]
      PROVE  Gap(n, k)' \/ Tainted(n)' \/ (<<n, "null">> \in faults' /\ cg_errors' > 0)
  <2>1. CASE f \in faults
    BY <1>7, <1>9, <2>1
  <2>2. CASE f \notin faults
    <3>1. PICK j \in kinds : f = <<at, j>>
      BY <1>2, <2>2
    <3>2. n = at /\ k = j /\ n \in Nodes
      BY <1>1, <1>9, <3>1
    <3> QED BY <1>8, <3>1, <3>2
  <2> QED BY <2>1, <2>2
<1> QED BY <1>9 DEF FaultsFair, Failed

LEMMA UsesKept ==
  MainInv /\ SemaInv /\ VisitInv /\ CgInv /\ MeaningInv /\ WalkInv /\ RolesInv /\ CallsAgree /\ NestInv /\ UsesInv
    /\ [Next]_vars => UsesInv'
<1> SUFFICES ASSUME MainInv, SemaInv, VisitInv, CgInv, MeaningInv, WalkInv, RolesInv, CallsAgree, NestInv, UsesInv,
                    [Next]_vars
             PROVE  UsesInv'
  OBVIOUS
<1>1. CASE SemaNext /\ UNCHANGED <<cgVars, mainVars>>
  <2>1. CgInit
    BY <1>1, SemaPhases DEF CgInv, Idle
  <2>2. stack' = <<>> /\ faults' = {}
    BY <1>1, <2>1 DEF CgInit, cgVars
  <2> QED
    BY <2>2 DEF UsesInv, CurInv, ValuesInv, FaultsInv, FaultsFair
<1>2. CASE CgNext
  <2>1. phase = "codegen" /\ UNCHANGED <<ast, rtype, bind>> /\ Whole
    BY <1>2, CgKeepsSema DEF SemaInv, VisitInv, Whole, semaVars
  <2>2. CASE stack = <<>>
    <3>1. CgStart
      BY <1>2, <2>2, OnlyStarts
    <3>2. stack' = <<CgFrame("module", 1)>> /\ faults' = faults
      BY <3>1 DEF CgStart
    <3>3. faults = {}
      BY <2>1, <2>2 DEF CgInv, Idle, CgInit
    <3>4. Len(stack') = 1 /\ stack'[1].next = 1
      BY <3>2 DEF CgFrame
    <3>5. CurInv'
      BY <3>4 DEF CurInv, CurOK
    <3>6. ValuesIn(stack', val', WrongNext, cg_errors' > 0)
      <4>1. \A i \in 1..Len(stack') : \A k \in Steps(stack'[i]) : ~(k < stack'[i].next)
        BY <3>4 DEF Steps
      <4> QED BY <4>1 DEF ValuesIn
    <3>7. ValuesInv'
      BY <2>1, <3>6, ValuesStable DEF ValuesInv
    <3>8. FaultsInv'
      BY <3>2, <3>3 DEF FaultsInv, FaultsFair
    <3> QED BY <3>5, <3>7, <3>8 DEF UsesInv
  <2>3. CASE stack # <<>>
    <3>1. CgSound /\ CurOK(stack, cur_fn) /\ FaultsFair
      BY <2>1, <2>3, SoundNow
    <3>2. ~CgStart /\ CgFine
      BY <2>3, <3>1 DEF CgStart, CgSound
    <3>3. PICK fs : Mirrors(fs, stack) /\ Holding(fs, env)
      BY <2>1, <2>3 DEF WalkInv
    <3>4. CurOK(stack', cur_fn')
      BY <1>2, <3>1, <3>2, CurMoves
    <3>5. CurInv'
      BY <2>1, <3>4, CurStable DEF CurInv
    <3>6. ValuesIn(stack', val', WrongNext, cg_errors' > 0)
      BY <1>2, <3>1, <3>2, <3>3, ValuesMove
    <3>7. ValuesInv'
      BY <2>1, <3>6, ValuesStable DEF ValuesInv
    <3>8. FaultsFair'
      BY <1>2, <3>1, <3>2, <3>3, FairMoves
    <3> QED BY <3>5, <3>7, <3>8 DEF UsesInv, FaultsInv
  <2> QED BY <2>2, <2>3
<1>3. CASE Main
  <2>1. phase' \in {"done", "write_ir", "write_object"}
    BY <1>3 DEF Main, MainNoParse, MainRejected, MainVerify, MainWriteIr, MainWriteObject, Exit
  <2> QED
    BY <2>1 DEF UsesInv, CurInv, ValuesInv, FaultsInv, Generated
<1>4. CASE UNCHANGED vars
  <2>1. UNCHANGED <<ast, rtype, bind, phase, stack, val, cgbind, faults, cg_errors, cur_fn>>
    BY <1>4 DEF vars, cgVars, kept, semaVars
  <2>2. WrongNext = wrong /\ (cg_errors' > 0) = Failed
    BY <2>1, WrongIs DEF WrongNext, Failed
  <2>3. CurInv'
    BY <2>1, CurStable DEF UsesInv, CurInv
  <2>4. ValuesInv'
    <3>1. ValuesIn(stack, val, wrong, Failed) => ValuesIn(stack', val', WrongNext, cg_errors' > 0)
      BY <2>1, <2>2
    <3> QED BY <2>1, <3>1, ValuesStable DEF UsesInv, ValuesInv
  <2>5. FaultsInv'
    <3>1. Generated' <=> Generated
      BY <2>1 DEF Generated
    <3> SUFFICES ASSUME (phase = "codegen" /\ stack # <<>>) \/ Generated PROVE FaultsFair'
      BY <2>1, <3>1 DEF FaultsInv
    <3>2. FaultsFair
      BY DEF UsesInv, FaultsInv
    <3>3. \A n, k : Gap(n, k)' <=> Gap(n, k)
      BY <2>1, GapStable
    <3>4. \A n : Tainted(n)' <=> Tainted(n)
      <4>1. Nodes' = Nodes /\ Path' = Path /\ \A m : Kind(m)' = Kind(m)
        BY <2>1, RulesStable DEF Kind
      <4>2. \A m, n : Under(m, n)' <=> Under(m, n)
        BY <4>1 DEF Under
      <4>3. \A m : (HasFault(m)' <=> HasFault(m)) /\ (Visited(m)' <=> Visited(m))
        BY <2>1 DEF HasFault, Visited
      <4> QED BY <2>1, <4>1, <4>2, <4>3 DEF Tainted
    <3> QED BY <2>1, <3>2, <3>3, <3>4 DEF FaultsFair, Failed
  <2> QED BY <2>3, <2>4, <2>5 DEF UsesInv
<1> QED
  BY <1>1, <1>2, <1>3, <1>4 DEF Next, Ended

LEMMA UsesAlways == Spec => []UsesInv
<1>1. Init => UsesInv
  BY DEF Init, SemaInit, AstInit, CgInit, UsesInv, CurInv, ValuesInv, FaultsInv, FaultsFair
<1> QED
  BY <1>1, UsesKept, MainHolds, SemaInvAlways, VisitInvAlways, CgInvAlways, MeaningAlways, WalkAlways, RolesAlways,
     CallsReachTheirFunction, NestAlways, PTL DEF Spec

(* The types Sema accepts give LLVM values of the types its instructions require: every use    *)
(* LLVM does not allow is one that Sema has no rule for and CodeGen no conversion (Gap), or of *)
(* a value computed from such a use or through a name with another meaning than Sema's, or of  *)
(* a NULL CodeGen returned after reporting an error.                                           *)
THEOREM FaultsAreExplained == Spec => []FaultsExplained
<1>1. UsesInv => FaultsExplained
  BY DEF UsesInv, FaultsInv, FaultsFair, FaultsExplained, Failed
<1> QED
  BY <1>1, UsesAlways, PTL
=============================================================================
