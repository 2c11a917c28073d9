---------------------------- MODULE CodeGenProofs ----------------------------
(***************************************************************************)
(* The theorems about main() and about CodeGen.  First the files main()    *)
(* writes, its exit status, and that it implements Outcome, whatever the   *)
(* phases before find.  Then the control-flow graph CodeGen builds.  At    *)
(* the centre is what an activation still has to do with the blocks it     *)
(* appended: the builder will be moved to those it owes (owed), and it may *)
(* branch to those it holds (held).  No block is held twice, no owed one   *)
(* is terminated, and every block without a terminator is the insert block *)
(* or owed.  Then the scopes, the values and the history CodeGen keeps     *)
(* beside the graph, the inductive invariant, and what follows; last, that *)
(* a call reaches the function Sema checked it against.                    *)
(***************************************************************************)
EXTENDS Agreement, SemaProofs

-----------------------------------------------------------------------------
(* main(): what it knows in each of its phases. *)

Phases ==
  {"parse", "sema", "rejected", "codegen", "failed", "verify", "write_ir", "write_object", "done", "crashed"}

Faultless == error_count = 0 /\ cg_errors = 0 /\ Verified

\* What main() knows when it is in a phase.
MainInv ==
  /\ phase \in Phases
  /\ phase \in {"codegen", "failed", "verify", "write_ir", "write_object"} => error_count = 0
  /\ phase = "verify" => cg_errors = 0
  /\ phase \in {"write_ir", "write_object"} => Faultless
  /\ files \in {{}, {"ir"}, {"object"}, {"ir", "object"}}
  /\ files # {} => Faultless /\ phase \in {"write_object", "done"}
  /\ phase # "done" => exit = -1 /\ "object" \notin files
  /\ phase = "done" => exit = IF "object" \in files THEN 0 ELSE 1

LEMMA InitIsMain == Init => MainInv
  BY DEF Init, SemaInit, AstInit, CgInit, MainInv, Phases

-----------------------------------------------------------------------------
(* The phases before leave the files alone, and go on only without errors. *)

LEMMA SemaPhases ==
  ASSUME MainInv, SemaNext
  PROVE  /\ phase' = phase \/ phase' \in {"parse", "sema", "codegen", "rejected"}
         /\ phase \in {"parse", "sema"} /\ phase' \in Phases \ {"done", "crashed"}
         /\ phase' = "codegen" => error_count' = 0
<1> USE DEF MainInv, Phases
<1>1. CASE AstNext /\ UNCHANGED semaVars
  BY <1>1, ZenonT(30) DEF AstNext, Parse, ParseFuncDecl, ParseVarDecl, ParseBlock, ParseReturn, ParseIf, ParseWhile,
     ParseFor, ParseExprStmt, ParsePrimary, ParsePostfix, ParseUnary, ParseBinary, ParseAssignment, Fill
<1>2. CASE SemaEnd
  BY <1>2 DEF SemaEnd, Leaving, Running
<1>3. CASE SemaNext /\ ~(AstNext /\ UNCHANGED semaVars) /\ ~SemaEnd
  BY <1>3 DEF SemaNext, SemaStart, AnalyseChild, EnterScope, LeaveScope, EnterFunction,
     LeaveFunction, DeclareVariable, AnalyseReturn, LeaveStatement, AnalyseLiteral, AnalyseIdent,
     AnalyseAssign, AnalyseBinary, AnalyseUnary, AnalyseCall, AnalyseIndex, AnalyseMember,
     Leaving, Running, Entering, Resolve
<1> QED
  BY <1>1, <1>2, <1>3

LEMMA CgPhases ==
  ASSUME CgNext
  PROVE  /\ phase = "codegen" /\ phase' \in {"codegen", "crashed", "verify", "failed"}
         /\ phase' = "verify" => cg_errors' = 0
<1> USE DEF Step, OnlyCalls, Wrong
<1>1. CASE CgEnd
  BY <1>1 DEF CgEnd, kept
<1>2. CASE CgStart \/ CgDeclaration \/ CgPrototype \/ CgDefine \/ CgDefineEnd \/ CgGlobal
  BY <1>2 DEF CgStart, CgDeclaration, CgPrototype, CgDefine, CgDefineEnd, CgGlobal, InList
<1>3. CASE CgVarDecl \/ CgVarInit \/ CgExprStmt \/ CgReturnStmt \/ CgBlockEnter \/ CgNextStatement \/ CgBlockLeave
  BY <1>3 DEF CgVarDecl, CgVarInit, CgExprStmt, CgReturnStmt, CgBlockEnter, CgNextStatement, CgBlockLeave,
     InList, Evaluated
<1>4. CASE CgIfThen \/ CgIfElse \/ CgIfEnd \/ CgWhile \/ CgWhileBody \/ CgWhileEnd
  BY <1>4 DEF CgIfThen, CgIfElse, CgIfEnd, CgWhile, CgWhileBody, CgWhileEnd
<1>5. CASE CgFor \/ CgForCond \/ CgForBody \/ CgForPost \/ CgForEnd
  BY <1>5 DEF CgFor, CgForCond, CgForBody, CgForPost, CgForEnd
<1>6. CASE CgOperand \/ CgLiteral \/ CgIdent \/ CgIndexAddress \/ CgDerefAddress \/ CgUnhandled
  BY <1>6 DEF CgOperand, CgLiteral, CgIdent, CgIndexAddress, CgDerefAddress, CgUnhandled, Evaluated,
     EvaluatedOp, Compute, Pass, CgError, Give
<1>7. CASE CgAssign \/ CgArith \/ CgAddress \/ CgLoad \/ CgNegate \/ CgNot \/ CgCall
  BY <1>7 DEF CgAssign, CgArith, CgAddress, CgLoad, CgNegate, CgNot, CgCall, Evaluated,
     EvaluatedOp, Compute, Pass, CgError, Give
<1>8. CASE CgLogicalTest \/ CgLogicalMerge
  BY <1>8 DEF CgLogicalTest, CgLogicalMerge, Give
<1> QED
  BY <1>1, <1>2, <1>3, <1>4, <1>5, <1>6, <1>7, <1>8 DEF CgNext

\* The verifier's verdict depends on what CodeGen built alone.
LEMMA VerdictKept ==
  ASSUME UNCHANGED cgVars
  PROVE  Verified' = Verified
<1>1. UNCHANGED <<blocks, insert, terminated, edges, phis, malformed, entry, faults, uses>>
  BY DEF cgVars, irVars, kept
<1>2. WellFormedBlocks' = WellFormedBlocks
  BY <1>1 DEF WellFormedBlocks, Preds
<1>3. WellTyped' = WellTyped
  BY <1>1 DEF WellTyped
<1>4. Dominated' = Dominated
  BY <1>1 DEF Dominated, Dominates, ReachedAvoiding
<1> QED
  BY <1>2, <1>3, <1>4 DEF Verified

LEMMA MainStep ==
  ASSUME MainInv, [Next]_vars
  PROVE  MainInv'
<1>1. CASE SemaNext /\ UNCHANGED <<cgVars, mainVars>>
  BY <1>1, SemaPhases DEF MainInv, mainVars
<1>2. CASE CgNext /\ UNCHANGED mainVars
  <2>1. error_count' = error_count
    BY <1>2 DEF CgNext, semaVars
  <2> QED
    BY <1>2, <2>1, CgPhases DEF MainInv, mainVars, Phases
<1>3. CASE Main
  <2> USE DEF Exit, MainInv, Phases, Faultless
  <2>0. Verified' = Verified /\ error_count' = error_count /\ cg_errors' = cg_errors
    BY <1>3, VerdictKept DEF Main, semaVars, cgVars, kept
  <2>1. CASE MainNoParse \/ MainRejected
    BY <2>0, <2>1 DEF MainNoParse, MainRejected
  <2>2. CASE MainVerify
    BY <2>0, <2>2 DEF MainVerify
  <2>3. CASE MainWriteIr
    BY <2>0, <2>3 DEF MainWriteIr
  <2>4. CASE MainWriteObject
    BY <2>0, <2>4 DEF MainWriteObject
  <2> QED
    BY <1>3, <2>1, <2>2, <2>3, <2>4 DEF Main
<1>4. CASE UNCHANGED vars
  <2>1. Verified' = Verified /\ error_count' = error_count /\ cg_errors' = cg_errors
    BY <1>4, VerdictKept DEF vars, semaVars, cgVars, kept
  <2> QED
    BY <1>4, <2>1 DEF MainInv, Faultless, vars, mainVars
<1> QED
  BY <1>1, <1>2, <1>3, <1>4 DEF Next

LEMMA MainHolds == Spec => []MainInv
  BY InitIsMain, MainStep, PTL DEF Spec

(* The files and the exit status tell the truth for every program and every outcome of the *)
(* phases: no return code that decides about the object file is lost (main.c:52-76).       *)
THEOREM OutputIsSound == Spec => []OutputSound
<1>1. MainInv => OutputSound
  BY DEF MainInv, Faultless, OutputSound
<1> QED
  BY <1>1, MainHolds, PTL

(* main() implements Outcome: each step of a phase is one of Outcome's or leaves the verdict, *)
(* the files and the exit status alone (main.c:37-78).                                         *)
THEOREM ImplementsOutcome == Spec => CompilesOrReports
<1>1. Init => Promise!Init
  BY DEF Init, SemaInit, AstInit, Promise!Init, Verdict
<1>2. MainInv /\ [Next]_vars => [Promise!Next]_<<Verdict, files, exit>>
  <2> SUFFICES ASSUME MainInv, [Next]_vars
               PROVE  [Promise!Next]_<<Verdict, files, exit>>
    OBVIOUS
  <2>1. CASE SemaNext /\ UNCHANGED <<cgVars, mainVars>>
    BY <2>1, SemaPhases DEF Verdict, mainVars
  <2>2. CASE CgNext /\ UNCHANGED mainVars
    BY <2>2, CgPhases DEF Verdict, mainVars, Promise!Next, Promise!Crash
  <2>3. CASE Main
    <3>0. Verified' = Verified /\ error_count' = error_count /\ cg_errors' = cg_errors
      BY <2>3, VerdictKept DEF Main, semaVars, cgVars, kept
    <3> USE DEF Exit, Verdict, Promise!Next, Promise!Running
    <3>1. CASE MainNoParse \/ MainRejected
      BY <3>0, <3>1 DEF MainInv, MainNoParse, MainRejected, Promise!Fail
    <3>2. CASE MainVerify
      BY <3>0, <3>2 DEF MainInv, MainVerify, Promise!Fail, Promise!Accept
    <3>3. CASE MainWriteIr
      BY <3>0, <3>3 DEF MainInv, Faultless, MainWriteIr, Promise!WriteIr
    <3>4. CASE MainWriteObject
      BY <3>0, <3>4 DEF MainInv, Faultless, MainWriteObject, Promise!Fail, Promise!Succeed
    <3> QED
      BY <2>3, <3>1, <3>2, <3>3, <3>4 DEF Main
  <2>4. CASE UNCHANGED vars
    <3>1. Verified' = Verified /\ error_count' = error_count /\ cg_errors' = cg_errors
      BY <2>4, VerdictKept DEF vars, semaVars, cgVars, kept
    <3> QED
      BY <2>4, <3>1 DEF Verdict, vars, mainVars
  <2> QED
    BY <2>1, <2>2, <2>3, <2>4 DEF Next
<1> QED
  BY <1>1, <1>2, MainHolds, PTL DEF Spec, CompilesOrReports, Promise!Spec

-----------------------------------------------------------------------------
(* The graph's invariant: the call stack. *)

KindsOf(fn) ==
  CASE fn = "module" -> {"PROGRAM"}
    [] fn = "define" -> {"FUNC_DECL"}
    [] fn = "global" -> {"VAR_DECL"}
    [] fn = "stmt" -> StmtKinds
    [] OTHER -> ExprKinds

FnNames == {"module", "define", "global", "stmt", "expr", "lvalue"}
FrameRecords == [fn : FnNames, node : Nodes, next : Nat, bb : [Roles -> Nat]]

FrameOK(f) == f.next >= 1 /\ Kind(f.node) \in KindsOf(f.fn) /\ \A r \in Roles : f.bb[r] <= blocks

\* Frames that their callee may return to with the insert block terminated.
Tolerant(f) ==
  \/ f.fn = "define" /\ f.next >= 2
  \/ f.fn = "stmt" /\ \/ Kind(f.node) = "BLOCK" /\ f.next >= 2
                      \/ Kind(f.node) = "IF" /\ f.next \in {3, 4}
                      \/ Kind(f.node) = "WHILE" /\ f.next = 3
                      \/ Kind(f.node) = "FOR" /\ f.next = 4

\* Statements that leave the insert block open.
Simple(f) == f.fn = "stmt" => Kind(f.node) \in {"VAR_DECL", "EXPR_STMT"}

Inside == Len(stack) >= 2 /\ stack[2].fn = "define" /\ stack[2].next >= 2

StackShape ==
  \A i \in DOMAIN stack :
    /\ stack[i].fn = "module" <=> i = 1
    /\ stack[i].fn \in {"define", "global"} <=> i = 2
    /\ i >= 3 => Inside /\ (Simple(stack[i]) \/ Tolerant(stack[i - 1]))

StackOK ==
  /\ stack \in Seq(FrameRecords)
  /\ \A i \in DOMAIN stack : FrameOK(stack[i])
  /\ StackShape

IsMerging(f) ==
  f.fn = "expr" /\ Kind(f.node) = "BINARY" /\ ast[f.node].op \in Logical /\ f.next = 3

Waits(f, r) ==
  \/ IsMerging(f) /\ r = "end"
  \/ f.fn = "stmt" /\ Kind(f.node) = "IF" /\
       \/ f.next \in {3, 4} /\ r = "end"
       \/ f.next = 3 /\ ~IsNull(Kid(f.node, 3)) /\ r = "else"
  \/ f.fn = "stmt" /\ Kind(f.node) = "WHILE" /\
       \/ f.next \in {2, 3} /\ r = "end"
       \/ f.next = 2 /\ r = "body"
  \/ f.fn = "stmt" /\ Kind(f.node) = "FOR" /\
       \/ f.next \in 2..5 /\ r = "end"
       \/ f.next \in 2..4 /\ r = "post"
       \/ f.next \in 2..3 /\ r = "body"
       \/ f.next = 2 /\ r = "cond"

\* The head of a loop, that it still branches back to.
Loops(f, r) ==
  /\ f.fn = "stmt" /\ r = "cond"
  /\ \/ Kind(f.node) = "WHILE" /\ f.next \in {2, 3}
     \/ Kind(f.node) = "FOR" /\ f.next \in 3..5

Holds(f, r) == Waits(f, r) \/ Loops(f, r)

held == [h \in {g \in (DOMAIN stack) \X Roles : Holds(stack[g[1]], g[2])} |-> stack[h[1]].bb[h[2]]]
owed == {h \in DOMAIN held : Waits(stack[h[1]], h[2])}

BlocksOK ==
  /\ blocks \in Nat /\ insert \in 0..blocks /\ terminated \subseteq 1..blocks
  /\ ~malformed
  /\ \A h \in DOMAIN held : held[h] \in 1..blocks
  /\ \A g, h \in DOMAIN held : held[g] = held[h] => g = h
  /\ \A h \in owed : held[h] \notin terminated /\ held[h] # insert
  /\ Inside => insert \in 1..blocks
  /\ \A b \in 1..blocks : b \in terminated \/ (Inside /\ (b = insert \/ \E h \in owed : held[h] = b))
  /\ Len(stack) >= 3 /\ ~Tolerant(CgTop) => Open

PredsOf(b) == {e[1] : e \in {d \in edges : d[2] = b}}

PhisOK ==
  /\ edges \subseteq (1..blocks) \X (1..blocks)
  /\ \A p \in phis :
       /\ p.at \in 1..blocks /\ p.from = PredsOf(p.at)
       /\ \A h \in DOMAIN held : held[h] # p.at
  /\ \A i \in DOMAIN stack : IsMerging(stack[i]) => PredsOf(stack[i].bb.end) = {stack[i].bb.lhs}

Vars == [decl : Nodes, type : TypeInfos, home : 0..blocks]
VarScopes == UNION {[D -> Vars] : D \in SUBSET Names}
CgHasScope(f) ==
  f.fn \in {"define", "stmt"} /\ Kind(f.node) \in ScopedKinds /\ f.next > 1
CgActive == {i \in DOMAIN stack : CgHasScope(stack[i])}

EnvOK ==
  /\ env \in Seq(VarScopes)
  /\ stack # <<>> => Len(env) = 1 + Cardinality(CgActive)

DataOK ==
  /\ stack # <<>> => DOMAIN val = Nodes /\ DOMAIN cgbind = Nodes /\ funcs = DeclaredFuncs
  /\ DOMAIN funcs \subseteq FuncNames /\ \A f \in DOMAIN funcs : funcs[f] \in Nodes
  /\ cur_fn \in {0} \cup Nodes /\ cg_errors \in Nat
  /\ DOMAIN entry \subseteq Nodes /\ \A f \in DOMAIN entry : entry[f] \in 1..blocks
  /\ DOMAIN val \subseteq Nodes /\ \A n \in DOMAIN val : val[n] \in MachineTypes
  /\ faults \subseteq Nodes \X FaultKinds
  /\ uses \subseteq [decl : Nodes, home : 0..blocks, block : 1..blocks]
  /\ DOMAIN cgbind \subseteq Nodes /\ \A n \in DOMAIN cgbind : cgbind[n] \in {0} \cup Nodes

Idle == phase \in {"parse", "sema", "rejected"} \/ (phase = "codegen" /\ stack = <<>>)

CgInv == (Idle => CgInit) /\ StackOK /\ BlocksOK /\ PhisOK /\ EnvOK /\ DataOK

-----------------------------------------------------------------------------
(* The running function. *)

LEMMA CgTopFacts ==
  ASSUME StackOK, stack # <<>>
  PROVE  /\ Len(stack) \in Nat /\ Len(stack) >= 1 /\ DOMAIN stack = 1..Len(stack)
         /\ CgTop = stack[Len(stack)] /\ CgTop \in FrameRecords /\ FrameOK(CgTop)
         /\ CgTop.fn \in FnNames /\ at \in Nodes /\ CgTop.next \in Nat /\ CgTop.next >= 1
         /\ bb \in [Roles -> Nat] /\ Kind(at) \in KindsOf(CgTop.fn)
<1>1. Len(stack) \in Nat /\ Len(stack) >= 1 /\ DOMAIN stack = 1..Len(stack)
  BY DEF StackOK
<1>2. CgTop \in FrameRecords /\ FrameOK(CgTop)
  BY <1>1 DEF StackOK, CgTop
<1> QED
  BY <1>1, <1>2 DEF CgTop, FrameRecords, FrameOK, at, bb

\* The frames below the running function's stay.
Below == \A i \in 1..(Len(stack) - 1) : stack'[i] = stack[i]
Resumed(locals) == [CgTop EXCEPT !.next = @ + 1, !.bb = locals]

LEMMA FrameOfCall ==
  ASSUME NEW fn \in FnNames, NEW n \in Nodes
  PROVE  /\ CgFrame(fn, n) \in FrameRecords
         /\ CgFrame(fn, n).fn = fn /\ CgFrame(fn, n).node = n /\ CgFrame(fn, n).next = 1
         /\ \A r \in Roles : CgFrame(fn, n).bb[r] = 0
  BY DEF CgFrame, FrameRecords, NoBlocks

LEMMA Returned ==
  ASSUME StackOK, stack # <<>>, CgReturn
  PROVE  stack' \in Seq(FrameRecords) /\ Len(stack') = Len(stack) - 1 /\ Below
<1>1. /\ stack \in Seq(FrameRecords) /\ Len(stack) >= 1
      /\ Len(stack) - 1 \in Nat
  BY CgTopFacts DEF StackOK
<1>2. PICK k \in Nat : k = Len(stack) - 1
  BY <1>1
<1>3. stack' = SubSeq(stack, 1, k)
  BY <1>2 DEF CgReturn
<1>4. stack' \in Seq(FrameRecords) /\ Len(stack') = k /\ \A i \in 1..k : stack'[i] = stack[i]
  BY <1>1, <1>2, <1>3
<1> QED
  BY <1>2, <1>4 DEF Below

LEMMA ResumedFields ==
  ASSUME StackOK, stack # <<>>, NEW locals \in [Roles -> Nat]
  PROVE  /\ Resumed(locals) \in FrameRecords
         /\ Resumed(locals).fn = CgTop.fn /\ Resumed(locals).node = at
         /\ Resumed(locals).next = CgTop.next + 1 /\ Resumed(locals).bb = locals
<1>1. CgTop \in FrameRecords /\ CgTop.fn \in FnNames /\ at \in Nodes /\ CgTop.next \in Nat
  BY CgTopFacts
<1> DEFINE stepped == [CgTop EXCEPT !.next = CgTop.next + 1]
<1>2. Resumed(locals) = [stepped EXCEPT !.bb = locals]
  BY DEF Resumed
<1>3. /\ stepped \in FrameRecords
      /\ stepped.fn = CgTop.fn /\ stepped.node = at /\ stepped.next = CgTop.next + 1
  BY <1>1, SMTT(30) DEF FrameRecords, at
<1> HIDE DEF stepped
<1> QED
  BY <1>2, <1>3 DEF FrameRecords

LEMMA Called ==
  ASSUME StackOK, stack # <<>>, NEW locals \in [Roles -> Nat], NEW fn \in FnNames, NEW n \in Nodes,
         CallWith(locals, fn, n)
  PROVE  /\ stack' \in Seq(FrameRecords) /\ Below /\ stack'[Len(stack)] = Resumed(locals)
         /\ Len(stack') = IF IsNull(n) THEN Len(stack) ELSE Len(stack) + 1
         /\ ~IsNull(n) => stack'[Len(stack) + 1] = CgFrame(fn, n)
<1> DEFINE L == Len(stack)
           frame == Resumed(locals)
           resumed == [stack EXCEPT ![L] = frame]
           callee == CgFrame(fn, n)
<1>1. L \in Nat /\ L >= 1 /\ stack \in Seq(FrameRecords) /\ DOMAIN stack = 1..L
  BY CgTopFacts DEF StackOK
<1>2. frame \in FrameRecords /\ callee \in FrameRecords
  BY ResumedFields, FrameOfCall
<1>3. stack' = IF IsNull(n) THEN resumed ELSE Append(resumed, callee)
  <2>1. resumed = [stack EXCEPT ![Len(stack)].next = @ + 1, ![Len(stack)].bb = locals]
    <3>1. CgTop \in FrameRecords /\ CgTop = stack[L]
      BY CgTopFacts
    <3> QED
      BY <1>1, <3>1 DEF Resumed, FrameRecords
  <2> QED
    BY <2>1 DEF CallWith
<1> HIDE DEF frame, callee
<1>4. /\ resumed \in Seq(FrameRecords) /\ Len(resumed) = L
      /\ \A i \in 1..L : resumed[i] = IF i = L THEN frame ELSE stack[i]
  BY <1>1, <1>2
<1> HIDE DEF resumed
<1>5. \A i \in 1..L : stack'[i] = resumed[i]
  BY <1>2, <1>3, <1>4, AppendProperties
<1>6. /\ stack' \in Seq(FrameRecords) /\ Len(stack') = IF IsNull(n) THEN L ELSE L + 1
      /\ ~IsNull(n) => stack'[L + 1] = callee
  BY <1>2, <1>3, <1>4, AppendProperties
<1>7. \A i \in 1..L : stack'[i] = IF i = L THEN frame ELSE stack[i]
  BY <1>4, <1>5
<1>8. L \in Nat /\ L >= 1
  BY <1>1
<1> HIDE DEF L
<1>9. stack'[L] = frame /\ \A i \in 1..(L - 1) : stack'[i] = stack[i]
  BY <1>7, <1>8
<1> QED
  BY <1>6, <1>9 DEF Below, L, frame, callee

\* How deep the call stack is.
Depth == Len(stack)

LEMMA DepthFacts ==
  ASSUME StackOK
  PROVE  /\ Depth \in Nat /\ DOMAIN stack = 1..Depth /\ (stack = <<>> <=> Depth = 0)
         /\ \A i \in 1..Depth : stack[i] \in FrameRecords /\ FrameOK(stack[i])
         /\ stack # <<>> => CgTop = stack[Depth]
<1>1. stack \in Seq(FrameRecords) /\ \A i \in DOMAIN stack : FrameOK(stack[i])
  BY DEF StackOK
<1> QED
  BY <1>1 DEF Depth, CgTop

\* What a step does to the call stack: the top frame returns, or goes on and may call another.
StackMoves ==
  /\ stack' \in Seq(FrameRecords) /\ Below
  /\ Depth' \in {Depth - 1, Depth, Depth + 1}
  /\ Depth' >= Depth =>
       LET resumed == stack'[Depth]
       IN /\ resumed.fn = CgTop.fn /\ resumed.node = at /\ resumed.next >= CgTop.next
          /\ resumed.fn = "define" => resumed.next >= 2
          /\ \A r \in Roles : resumed.bb[r] <= blocks'
  /\ Depth' = Depth + 1 =>
       LET callee == stack'[Depth + 1]
       IN /\ callee.next = 1 /\ callee.fn # "module" /\ Kind(callee.node) \in KindsOf(callee.fn)
          /\ \A r \in Roles : callee.bb[r] = 0
          /\ callee.fn \in {"define", "global"} <=> Depth = 1
          /\ Depth >= 2 => Simple(callee) \/ Tolerant(stack'[Depth])
          /\ Depth = 2 => CgTop.fn = "define"

LEMMA StackKept ==
  ASSUME StackOK, stack # <<>>, UNCHANGED ast, blocks \in Nat, blocks' \in Nat, blocks' >= blocks,
         StackMoves
  PROVE  StackOK'
<1>1. /\ Depth \in Nat /\ Depth >= 1 /\ DOMAIN stack = 1..Depth
      /\ CgTop = stack[Depth] /\ CgTop.next \in Nat
  BY DepthFacts, CgTopFacts DEF Depth
<1>2. stack' \in Seq(FrameRecords) /\ FrameRecords' = FrameRecords
  BY DEF StackMoves, FrameRecords, Nodes
<1>3. Depth' \in Nat /\ DOMAIN stack' = 1..Depth'
  BY <1>2 DEF Depth
<1>4. \A i \in 1..Depth' : stack'[i] \in FrameRecords
  BY <1>2, <1>3
<1>5. \A i \in 1..(Depth - 1) : stack'[i] = stack[i]
  BY DEF StackMoves, Below, Depth
<1>6. \A f \in FrameRecords : f.next \in Nat /\ f.bb \in [Roles -> Nat]
  BY DEF FrameRecords
<1>7. ASSUME NEW i \in 1..Depth' PROVE FrameOK(stack[i])'
  <2>1. CASE i < Depth
    <3>1. stack'[i] = stack[i] /\ FrameOK(stack[i]) /\ i \in 1..Depth
      BY <1>1, <1>3, <1>5, <2>1, DepthFacts
    <3>2. \A r \in Roles : stack[i].bb[r] \in Nat
      BY <1>6, <3>1, DepthFacts
    <3> QED
      BY <3>1, <3>2 DEF FrameOK, Kind
  <2>2. CASE i = Depth
    <3>1. Depth' >= Depth
      BY <1>1, <1>3, <2>2
    <3>2. /\ stack'[i].fn = CgTop.fn /\ stack'[i].node = at /\ stack'[i].next >= CgTop.next
          /\ \A r \in Roles : stack'[i].bb[r] <= blocks'
      BY <2>2, <3>1 DEF StackMoves
    <3>3. Kind(at) \in KindsOf(CgTop.fn) /\ CgTop.next >= 1 /\ CgTop.next \in Nat
      BY CgTopFacts
    <3>4. stack'[i].next \in Nat
      BY <1>4, <1>6
    <3> QED
      BY <3>2, <3>3, <3>4 DEF FrameOK, Kind
  <2>3. CASE i > Depth
    <3>1. i = Depth + 1 /\ Depth' = Depth + 1
      BY <1>1, <1>3, <2>3 DEF StackMoves
    <3> QED
      BY <3>1 DEF StackMoves, FrameOK, Kind
  <2> QED
    BY <1>1, <1>3, <2>1, <2>2, <2>3
<1>8. StackShape'
  <2>1. /\ CgTop.fn = "module" <=> Depth = 1
        /\ CgTop.fn \in {"define", "global"} <=> Depth = 2
        /\ Depth >= 3 => Inside /\ (Simple(CgTop) \/ Tolerant(stack[Depth - 1]))
    BY <1>1 DEF StackOK, StackShape
  <2>2. Depth' >= 3 => Inside'
    <3>1. CASE Depth >= 3
      BY <1>1, <1>3, <1>5, <2>1, <3>1 DEF Inside, Depth
    <3>2. CASE Depth = 2 /\ Depth' = 3
      <4>1. stack'[2].fn = "define" /\ stack'[2].next >= 2
        BY <3>2 DEF StackMoves
      <4> QED
        BY <3>2, <4>1 DEF Inside, Depth
    <3> QED
      BY <1>1, <1>3, <3>1, <3>2 DEF StackMoves
  <2>3. \A f : (Simple(f)' <=> Simple(f)) /\ (Tolerant(f)' <=> Tolerant(f))
    BY DEF Simple, Tolerant, Kind
  <2>4. ASSUME NEW i \in 1..Depth'
        PROVE  /\ stack'[i].fn = "module" <=> i = 1
               /\ stack'[i].fn \in {"define", "global"} <=> i = 2
               /\ i >= 3 => Simple(stack'[i]) \/ Tolerant(stack'[i - 1])
    <3>1. CASE i < Depth
      <4>1. /\ stack[i].fn = "module" <=> i = 1
            /\ stack[i].fn \in {"define", "global"} <=> i = 2
            /\ i >= 3 => Simple(stack[i]) \/ Tolerant(stack[i - 1])
        BY <1>1, <1>3, <3>1 DEF StackOK, StackShape
      <4>2. stack'[i] = stack[i] /\ (i >= 3 => stack'[i - 1] = stack[i - 1])
        BY <1>1, <1>3, <1>5, <3>1
      <4> QED
        BY <4>1, <4>2
    <3>2. CASE i = Depth
      <4>1. stack'[i].fn = CgTop.fn /\ stack'[i].node = at
        BY <1>1, <1>3, <3>2 DEF StackMoves
      <4>2. Depth >= 3 => stack'[i - 1] = stack[i - 1]
        BY <1>1, <1>5, <3>2
      <4>3. Simple(stack'[i]) <=> Simple(CgTop)
        BY <4>1 DEF Simple, at
      <4> QED
        BY <2>1, <3>2, <4>1, <4>2, <4>3
    <3>3. CASE i > Depth
      <4>1. i = Depth + 1 /\ Depth' = Depth + 1
        BY <1>1, <1>3, <3>3 DEF StackMoves
      <4>2. Depth = (Depth + 1) - 1
        BY <1>1
      <4> QED
        BY <1>1, <4>1, <4>2 DEF StackMoves
    <3> QED
      BY <1>1, <1>3, <3>1, <3>2, <3>3
  <2> QED
    BY <1>3, <2>2, <2>3, <2>4 DEF StackShape
<1> QED
  BY <1>2, <1>3, <1>7, <1>8 DEF StackOK

-----------------------------------------------------------------------------
(* Held and owed blocks. *)

HeldKnown ==
  /\ \A h \in DOMAIN held : h[1] \in 1..Depth /\ h[2] \in Roles /\ h = <<h[1], h[2]>>
  /\ \A i, r : <<i, r>> \in DOMAIN held <=> i \in 1..Depth /\ r \in Roles /\ Holds(stack[i], r)
  /\ \A i, r : <<i, r>> \in owed <=> i \in 1..Depth /\ r \in Roles /\ Waits(stack[i], r)
  /\ \A i, r : <<i, r>> \in DOMAIN held => held[<<i, r>>] = stack[i].bb[r]
  /\ owed \subseteq DOMAIN held

LEMMA HeldFacts == StackOK => HeldKnown
<1> SUFFICES ASSUME StackOK PROVE HeldKnown
  OBVIOUS
<1>1. DOMAIN stack = 1..Depth
  BY DepthFacts
<1>2. DOMAIN held = {g \in (1..Depth) \X Roles : Holds(stack[g[1]], g[2])}
  BY <1>1 DEF held
<1>3. \A i, r : <<i, r>> \in DOMAIN held <=> i \in 1..Depth /\ r \in Roles /\ Holds(stack[i], r)
  BY <1>2
<1>4. \A i, r : <<i, r>> \in DOMAIN held => held[<<i, r>>] = stack[i].bb[r]
  BY <1>2 DEF held
<1>5. \A h \in DOMAIN held : h[1] \in 1..Depth /\ h[2] \in Roles /\ h = <<h[1], h[2]>>
  BY <1>2
<1>6. \A i, r : <<i, r>> \in owed <=> i \in 1..Depth /\ r \in Roles /\ Waits(stack[i], r)
  <2>1. \A i, r : Waits(stack[i], r) => Holds(stack[i], r)
    BY DEF Holds
  <2>2. owed = {h \in DOMAIN held : Waits(stack[h[1]], h[2])}
    BY DEF owed
  <2> QED
    BY <1>3, <2>1, <2>2
<1>7. owed \subseteq DOMAIN held
  BY DEF owed
<1> QED
  BY <1>3, <1>4, <1>5, <1>6, <1>7 DEF HeldKnown

\* The frames below hold what they held; of a new frame nothing is held yet.
LEMMA HeldMoves ==
  ASSUME StackOK, StackOK', stack # <<>>, UNCHANGED ast, StackMoves
  PROVE  /\ \A i \in 1..(Depth - 1), r \in Roles :
              /\ <<i, r>> \in DOMAIN held' <=> <<i, r>> \in DOMAIN held
              /\ <<i, r>> \in owed' <=> <<i, r>> \in owed
              /\ <<i, r>> \in DOMAIN held => held'[<<i, r>>] = held[<<i, r>>]
         /\ \A r : <<Depth, r>> \in DOMAIN held' <=>
                     Depth' >= Depth /\ r \in Roles /\ Holds(stack'[Depth], r)
         /\ \A r : <<Depth, r>> \in owed' <=>
                     Depth' >= Depth /\ r \in Roles /\ Waits(stack'[Depth], r)
         /\ \A r : <<Depth, r>> \in DOMAIN held' => held'[<<Depth, r>>] = stack'[Depth].bb[r]
         /\ \A h \in DOMAIN held' :
              h[1] \in 1..Depth /\ h[2] \in Roles /\ h = <<h[1], h[2]>>
<1>1. /\ Depth \in Nat /\ Depth >= 1 /\ Depth' \in Nat
      /\ Depth' \in {Depth - 1, Depth, Depth + 1}
  <2>1. stack' \in Seq(FrameRecords) /\ Depth' \in {Depth - 1, Depth, Depth + 1}
    BY DEF StackMoves
  <2>2. Depth' \in Nat
    BY <2>1 DEF Depth
  <2> QED
    BY <2>1, <2>2, CgTopFacts DEF Depth
<1>2. \A f, r : (Holds(f, r)' <=> Holds(f, r)) /\ (Waits(f, r)' <=> Waits(f, r))
  BY DEF Holds, Waits, Loops, IsMerging, Kind, IsNull, Kid
<1>3. HeldKnown /\ HeldKnown'
  BY HeldFacts, PTL
<1>4. /\ \A h \in DOMAIN held' : h[1] \in 1..Depth' /\ h[2] \in Roles /\ h = <<h[1], h[2]>>
      /\ \A i, r : <<i, r>> \in DOMAIN held' <=> i \in 1..Depth' /\ r \in Roles /\ Holds(stack'[i], r)
      /\ \A i, r : <<i, r>> \in owed' <=> i \in 1..Depth' /\ r \in Roles /\ Waits(stack'[i], r)
      /\ \A i, r : <<i, r>> \in DOMAIN held' => held'[<<i, r>>] = stack'[i].bb[r]
  <2>1. /\ \A i, r : Holds(stack[i], r)' <=> Holds(stack'[i], r)
        /\ \A i, r : Waits(stack[i], r)' <=> Waits(stack'[i], r)
    BY DEF Holds, Waits, Loops, IsMerging, Kind, IsNull, Kid
  <2> QED
    BY <1>3, <2>1 DEF HeldKnown
<1>5. \A i \in 1..(Depth - 1) : stack'[i] = stack[i]
  BY DEF StackMoves, Below, Depth
<1>6. \A r : Depth' = Depth + 1 => ~Holds(stack'[Depth + 1], r)
  <2>1. Depth' = Depth + 1 => stack'[Depth + 1].next = 1
    BY DEF StackMoves
  <2> QED
    BY <2>1 DEF Holds, Waits, Loops, IsMerging
<1>7. \A h \in DOMAIN held' : h[1] \in 1..Depth
  <2> SUFFICES ASSUME NEW h \in DOMAIN held', h[1] \notin 1..Depth
               PROVE  FALSE
    OBVIOUS
  <2>1. h[1] = Depth + 1 /\ Depth' = Depth + 1
    BY <1>1, <1>4
  <2> QED
    BY <1>4, <1>6, <2>1
<1>8. ASSUME NEW i \in 1..(Depth - 1), NEW r \in Roles
      PROVE  /\ <<i, r>> \in DOMAIN held' <=> <<i, r>> \in DOMAIN held
             /\ <<i, r>> \in owed' <=> <<i, r>> \in owed
             /\ <<i, r>> \in DOMAIN held => held'[<<i, r>>] = held[<<i, r>>]
  <2>1. i \in 1..Depth /\ i \in 1..Depth' /\ stack'[i] = stack[i]
    BY <1>1, <1>5
  <2> QED
    BY <1>3, <1>4, <2>1 DEF HeldKnown
<1>9. Depth \in 1..Depth' <=> Depth' >= Depth
  BY <1>1
<1> QED
  BY <1>4, <1>7, <1>8, <1>9

NewBlocks == (blocks + 1)..blocks'

\* The roles the running function has blocks for after the step, and those it still owes.
Keeps(r) == Depth' >= Depth /\ r \in Roles /\ Holds(stack'[Depth], r)
Owes(r) == Depth' >= Depth /\ r \in Roles /\ Waits(stack'[Depth], r)
Had(r) == r \in Roles /\ Holds(CgTop, r)
Owed(r) == r \in Roles /\ Waits(CgTop, r)
Kept(r) == stack'[Depth].bb[r]

\* What a step does to the blocks: it appends some, terminates the insert block, moves on to a new
\* block or one the running function owed, and that function goes on to hold old or new blocks.
BlocksMove ==
  /\ blocks' \in Nat /\ blocks' >= blocks
  /\ \A r : Keeps(r) => (Had(r) /\ Kept(r) = bb[r]) \/ Kept(r) \in NewBlocks
  /\ \A r, s : Keeps(r) /\ Keeps(s) /\ Kept(r) = Kept(s) => r = s
  /\ \A r : Owes(r) => ((Owed(r) /\ Kept(r) = bb[r]) \/ Kept(r) \in NewBlocks) /\ Kept(r) # insert'
  /\ insert' = insert \/ insert' \in NewBlocks \/ \E r : Owed(r) /\ bb[r] = insert'
  /\ terminated' = terminated \/ (Inside /\ terminated' = terminated \cup {insert})
  /\ insert' # insert /\ Inside => insert \in terminated'
  /\ \A b \in NewBlocks : b = insert' \/ \E r : Owes(r) /\ Kept(r) = b
  /\ \A r : Owed(r) => bb[r] = insert' \/ (Owes(r) /\ Kept(r) = bb[r])
  /\ Inside \/ blocks' # blocks => Inside' \/ 1..blocks' \subseteq terminated'
  /\ Inside' => Inside \/ insert' \in NewBlocks
  /\ ~malformed'
  /\ Len(stack)' >= 3 /\ ~Tolerant(CgTop)' => Open'

LEMMA BlocksKept ==
  ASSUME StackOK, StackOK', stack # <<>>, UNCHANGED ast, BlocksOK, StackMoves, BlocksMove
  PROVE  BlocksOK'
<1>1. Depth \in Nat /\ Depth >= 1
  BY CgTopFacts DEF Depth
<1>2. /\ \A h \in DOMAIN held : h[1] \in 1..Depth /\ h[2] \in Roles /\ h = <<h[1], h[2]>>
      /\ owed \subseteq DOMAIN held
      /\ \A r : <<Depth, r>> \in DOMAIN held <=> Had(r)
      /\ \A r : <<Depth, r>> \in owed <=> Owed(r)
      /\ \A r : Had(r) => held[<<Depth, r>>] = bb[r]
      /\ \A r : Owed(r) => Had(r)
  <2>1. HeldKnown
    BY HeldFacts
  <2>2. CgTop = stack[Depth] /\ bb = stack[Depth].bb /\ Depth \in 1..Depth
    BY <1>1, DepthFacts DEF bb
  <2>3. \A r : Owed(r) => Had(r)
    BY DEF Owed, Had, Holds
  <2> QED
    BY <2>1, <2>2, <2>3 DEF HeldKnown, Had, Owed
<1>3. /\ \A h \in DOMAIN held' : h[1] \in 1..Depth /\ h[2] \in Roles /\ h = <<h[1], h[2]>>
      /\ \A r : <<Depth, r>> \in DOMAIN held' <=> Keeps(r)
      /\ \A r : <<Depth, r>> \in owed' <=> Owes(r)
      /\ \A r : Keeps(r) => held'[<<Depth, r>>] = Kept(r)
  BY HeldMoves DEF Keeps, Owes, Kept
<1>4. \A h : h[1] # Depth =>
        /\ h \in DOMAIN held' <=> h \in DOMAIN held
        /\ h \in owed' <=> h \in owed
        /\ h \in DOMAIN held => held'[h] = held[h]
  <2> SUFFICES ASSUME NEW h, h[1] # Depth
               PROVE  /\ h \in DOMAIN held' <=> h \in DOMAIN held
                      /\ h \in owed' <=> h \in owed
                      /\ h \in DOMAIN held => held'[h] = held[h]
    OBVIOUS
  <2>1. owed' \subseteq DOMAIN held'
    BY DEF owed
  <2>2. CASE h \in DOMAIN held \/ h \in DOMAIN held'
    <3>1. h[1] \in 1..Depth /\ h[2] \in Roles /\ h = <<h[1], h[2]>>
      BY <1>2, <1>3, <2>2
    <3>2. h[1] \in 1..(Depth - 1)
      BY <1>1, <3>1
    <3> QED
      BY <3>1, <3>2, HeldMoves
  <2> QED
    BY <1>2, <2>1, <2>2
<1>5. /\ blocks \in Nat /\ insert \in 0..blocks /\ terminated \subseteq 1..blocks
      /\ \A h \in DOMAIN held : held[h] \in 1..blocks
      /\ \A g, h \in DOMAIN held : held[g] = held[h] => g = h
      /\ \A h \in owed : held[h] \notin terminated /\ held[h] # insert
      /\ Inside => insert \in 1..blocks
      /\ \A b \in 1..blocks : b \in terminated \/ (Inside /\ (b = insert \/ \E h \in owed : held[h] = b))
  BY DEF BlocksOK
<1>6. /\ blocks' \in Nat /\ blocks' >= blocks
      /\ \A b \in NewBlocks : b \in 1..blocks' /\ b \notin 1..blocks
      /\ \A b \in 1..blocks' : b \in 1..blocks \/ b \in NewBlocks
      /\ \A b \in 1..blocks : b \in 1..blocks'
  BY <1>5 DEF BlocksMove, NewBlocks
<1> USE DEF BlocksMove
<1> HIDE DEF held, owed, NewBlocks
<1>7. \A h \in DOMAIN held' : (h \in DOMAIN held /\ held'[h] = held[h]) \/ (h[1] = Depth /\ held'[h] \in NewBlocks)
  <2> SUFFICES ASSUME NEW h \in DOMAIN held'
               PROVE  (h \in DOMAIN held /\ held'[h] = held[h]) \/ (h[1] = Depth /\ held'[h] \in NewBlocks)
    OBVIOUS
  <2>1. CASE h[1] # Depth
    BY <1>4, <2>1
  <2>2. CASE h[1] = Depth
    <3>1. h = <<Depth, h[2]>> /\ Keeps(h[2]) /\ held'[h] = Kept(h[2])
      BY <1>3, <2>2
    <3>2. (Had(h[2]) /\ Kept(h[2]) = bb[h[2]]) \/ Kept(h[2]) \in NewBlocks
      BY <3>1
    <3> QED
      BY <1>2, <2>2, <3>1, <3>2
  <2> QED
    BY <2>1, <2>2
<1>8. \A g, h \in DOMAIN held' : held'[g] = held'[h] => g = h
  <2> SUFFICES ASSUME NEW g \in DOMAIN held', NEW h \in DOMAIN held', held'[g] = held'[h]
               PROVE  g = h
    OBVIOUS
  <2>1. CASE g[1] = Depth /\ h[1] = Depth
    <3>1. /\ g = <<Depth, g[2]>> /\ Keeps(g[2]) /\ held'[g] = Kept(g[2])
          /\ h = <<Depth, h[2]>> /\ Keeps(h[2]) /\ held'[h] = Kept(h[2])
      BY <1>3, <2>1
    <3>2. g[2] = h[2]
      BY <3>1
    <3> QED
      BY <3>1, <3>2
  <2>2. CASE ~(g[1] = Depth /\ h[1] = Depth)
    BY <1>5, <1>6, <1>7, <2>2
  <2> QED
    BY <2>1, <2>2
<1>9. terminated' \subseteq 1..blocks /\ terminated \subseteq terminated'
  BY <1>5
<1>10. ASSUME NEW h \in owed' PROVE held'[h] \notin terminated' /\ held'[h] # insert'
  <2>0. h \in DOMAIN held'
    BY DEF owed
  <2>1. CASE h[1] # Depth
    <3>1. h \in owed /\ h \in DOMAIN held /\ held'[h] = held[h]
      BY <1>2, <1>4, <2>1
    <3>2. held[h] \in 1..blocks /\ held[h] \notin terminated /\ held[h] # insert
      BY <1>5, <3>1
    <3>3. ASSUME NEW r, Owed(r), bb[r] = held[h] PROVE FALSE
      <4>1. <<Depth, r>> \in DOMAIN held /\ held[<<Depth, r>>] = held[h]
        BY <1>2, <3>3
      <4>2. <<Depth, r>> = h
        BY <1>5, <3>1, <4>1
      <4> QED
        BY <2>1, <4>2
    <3> QED
      BY <1>6, <3>1, <3>2, <3>3
  <2>2. CASE h[1] = Depth
    <3>1. h = <<Depth, h[2]>> /\ Owes(h[2]) /\ held'[h] = Kept(h[2])
      <4>1. h = <<Depth, h[2]>> /\ Owes(h[2])
        BY <1>3, <2>0, <2>2
      <4>2. Keeps(h[2])
        BY <4>1 DEF Owes, Keeps, Holds
      <4> QED
        BY <1>3, <4>1, <4>2
    <3>2. CASE Kept(h[2]) \in NewBlocks
      BY <1>6, <1>9, <3>1, <3>2
    <3>3. CASE Owed(h[2]) /\ Kept(h[2]) = bb[h[2]]
      <4>1. h \in owed /\ held[h] = held'[h]
        BY <1>2, <3>1, <3>3
      <4> QED
        BY <1>5, <3>1, <4>1
    <3> QED
      BY <3>1, <3>2, <3>3
  <2> QED
    BY <2>1, <2>2
<1>11. ASSUME NEW b \in 1..blocks', b \notin terminated', Inside'
       PROVE  b = insert' \/ \E h \in owed' : held'[h] = b
  <2>1. ASSUME NEW r, Owes(r), Kept(r) = b PROVE \E h \in owed' : held'[h] = b
    <3>1. Keeps(r)
      BY <2>1 DEF Owes, Keeps, Holds
    <3>2. <<Depth, r>> \in owed' /\ held'[<<Depth, r>>] = b
      BY <1>3, <2>1, <3>1
    <3> QED
      BY <3>2
  <2>2. CASE b \in NewBlocks
    BY <2>1, <2>2
  <2>3. CASE b \in 1..blocks
    <3>1. b \notin terminated /\ Inside
      BY <1>5, <1>9, <1>11, <2>3
    <3>2. CASE b = insert
      BY <1>11, <3>1, <3>2
    <3>3. ASSUME NEW h \in owed, held[h] = b PROVE b = insert' \/ \E g \in owed' : held'[g] = b
      <4>1. CASE h[1] # Depth
        BY <1>2, <1>4, <3>3, <4>1
      <4>2. CASE h[1] = Depth
        <5>1. Owed(h[2]) /\ bb[h[2]] = b
          BY <1>2, <3>3, <4>2
        <5> QED
          BY <2>1, <5>1
      <4> QED
        BY <4>1, <4>2
    <3> QED
      BY <1>5, <2>3, <3>1, <3>2, <3>3
  <2> QED
    BY <1>6, <2>2, <2>3
<1>12. \A b \in 1..blocks' : b \in terminated' \/ Inside'
  <2> SUFFICES ASSUME NEW b \in 1..blocks', b \notin terminated' PROVE Inside'
    OBVIOUS
  <2>1. b \in 1..blocks => Inside
    BY <1>5, <1>9
  <2>2. b \in NewBlocks => blocks' # blocks
    BY <1>6
  <2> QED
    BY <1>6, <2>1, <2>2
<1>13. \A h \in DOMAIN held' : held'[h] \in 1..blocks'
  BY <1>5, <1>6, <1>7
<1>14. insert' \in 0..blocks' /\ (Inside' => insert' \in 1..blocks')
  <2>1. \A r : Owed(r) => bb[r] \in 1..blocks
    BY <1>2, <1>5
  <2>2. \A b \in 0..blocks : b \in 0..blocks'
    BY <1>5, <1>6
  <2>3. \A b \in 1..blocks' : b \in 0..blocks'
    BY <1>6
  <2> QED
    BY <1>5, <1>6, <2>1, <2>2, <2>3
<1>15. terminated' \subseteq 1..blocks'
  BY <1>6, <1>9
<1> QED
  BY <1>6, <1>8, <1>10, <1>11, <1>12, <1>13, <1>14, <1>15 DEF BlocksOK

\* What a step does to the branches: it adds some from the insert block to blocks that are new or
\* held by the running function; one to the end of a logical operator comes with its phi.
PhisMove ==
  \E targets \in SUBSET (1..blocks') :
    /\ edges' = edges \cup {<<insert, t>> : t \in targets}
    /\ targets # {} => insert \in 1..blocks
    /\ \A t \in targets : t \in NewBlocks \/ \E r : Had(r) /\ bb[r] = t
    /\ Depth' >= Depth /\ IsMerging(stack'[Depth]) =>
         Kept("end") \in targets \cap NewBlocks /\ Kept("lhs") = insert
    /\ \/ phis' = phis
       \/ /\ IsMerging(CgTop) /\ targets = {bb["end"]} /\ Depth' < Depth
          /\ phis' = phis \cup {[at |-> bb["end"], from |-> {bb["lhs"], insert}]}

PredsAfter(b) == {e[1] : e \in {d \in edges' : d[2] = b}}

LEMMA Predecessors ==
  ASSUME NEW targets, edges' = edges \cup {<<insert, t>> : t \in targets}
  PROVE  \A b : PredsAfter(b) = PredsOf(b) \cup IF b \in targets THEN {insert} ELSE {}
<1> TAKE b
<1> DEFINE Old(a) == \E d \in edges : d[2] = b /\ a = d[1]
           New1(a) == \E t \in targets : t = b /\ a = insert
<1>1. \A a : a \in PredsOf(b) <=> Old(a)
  BY DEF PredsOf
<1>2. \A a : a \in PredsAfter(b) <=> \E d \in edges' : d[2] = b /\ a = d[1]
  BY DEF PredsAfter
<1>3. \A d : d \in edges' <=> d \in edges \/ \E t \in targets : d = <<insert, t>>
  OBVIOUS
<1>4. \A a : a \in PredsAfter(b) <=> Old(a) \/ New1(a)
  <2> SUFFICES ASSUME NEW a PROVE a \in PredsAfter(b) <=> Old(a) \/ New1(a)
    OBVIOUS
  <2>1. ASSUME a \in PredsAfter(b) PROVE Old(a) \/ New1(a)
    BY <1>2, <1>3, <2>1
  <2>2. ASSUME Old(a) PROVE a \in PredsAfter(b)
    BY <1>2, <1>3, <2>2
  <2>3. ASSUME New1(a) PROVE a \in PredsAfter(b)
    <3>1. <<insert, b>> \in edges' /\ a = insert
      BY <1>3, <2>3
    <3>2. <<insert, b>>[2] = b /\ <<insert, b>>[1] = a
      BY <3>1
    <3> QED
      BY <1>2, <3>1, <3>2
  <2> QED
    BY <2>1, <2>2, <2>3
<1>5. \A a : New1(a) <=> b \in targets /\ a = insert
  OBVIOUS
<1> HIDE DEF Old, New1
<1> QED
  BY <1>1, <1>4, <1>5

LEMMA PhisKept ==
  ASSUME StackOK, StackOK', stack # <<>>, UNCHANGED ast, BlocksOK, StackMoves, BlocksMove,
         PhisOK, PhisMove
  PROVE  PhisOK'
<1>1. PICK targets \in SUBSET (1..blocks') :
        /\ edges' = edges \cup {<<insert, t>> : t \in targets}
        /\ targets # {} => insert \in 1..blocks
        /\ \A t \in targets : t \in NewBlocks \/ \E r : Had(r) /\ bb[r] = t
        /\ Depth' >= Depth /\ IsMerging(stack'[Depth]) =>
             Kept("end") \in targets \cap NewBlocks /\ Kept("lhs") = insert
        /\ \/ phis' = phis
           \/ /\ IsMerging(CgTop) /\ targets = {bb["end"]} /\ Depth' < Depth
              /\ phis' = phis \cup {[at |-> bb["end"], from |-> {bb["lhs"], insert}]}
  BY DEF PhisMove
<1>2. \A b : PredsAfter(b) = PredsOf(b) \cup IF b \in targets THEN {insert} ELSE {}
  BY <1>1, Predecessors
<1>3. /\ Depth \in Nat /\ Depth >= 1 /\ Depth' \in Nat
      /\ Depth' \in {Depth - 1, Depth, Depth + 1}
      /\ CgTop = stack[Depth] /\ DOMAIN stack = 1..Depth /\ DOMAIN stack' = 1..Depth'
  <2>1. stack' \in Seq(FrameRecords) /\ Depth' \in {Depth - 1, Depth, Depth + 1}
    BY DEF StackMoves
  <2>2. Depth' \in Nat /\ DOMAIN stack' = 1..Depth'
    BY <2>1 DEF Depth
  <2> QED
    BY <2>1, <2>2, CgTopFacts DEF Depth
<1>4. /\ \A i, r : <<i, r>> \in DOMAIN held <=> i \in 1..Depth /\ r \in Roles /\ Holds(stack[i], r)
      /\ \A i, r : <<i, r>> \in DOMAIN held => held[<<i, r>>] = stack[i].bb[r]
      /\ \A r : Had(r) => <<Depth, r>> \in DOMAIN held /\ held[<<Depth, r>>] = bb[r]
  <2>1. HeldKnown /\ Depth \in 1..Depth /\ bb = stack[Depth].bb
    BY <1>3, HeldFacts DEF bb
  <2> QED
    BY <1>3, <2>1 DEF HeldKnown, Had
<1>5. \A h \in DOMAIN held' :
        \/ h \in DOMAIN held /\ held'[h] = held[h] /\ (h[1] = Depth => Depth' >= Depth)
        \/ held'[h] \in NewBlocks
  <2> SUFFICES ASSUME NEW h \in DOMAIN held', held'[h] \notin NewBlocks
               PROVE  h \in DOMAIN held /\ held'[h] = held[h] /\ (h[1] = Depth => Depth' >= Depth)
    OBVIOUS
  <2>1. h[1] \in 1..Depth /\ h[2] \in Roles /\ h = <<h[1], h[2]>>
    BY HeldMoves
  <2>2. CASE h[1] = Depth
    <3>1. Keeps(h[2]) /\ held'[h] = Kept(h[2]) /\ Depth' >= Depth
      BY <2>1, <2>2, HeldMoves DEF Keeps, Kept
    <3>2. Had(h[2]) /\ Kept(h[2]) = bb[h[2]]
      BY <3>1 DEF BlocksMove
    <3> QED
      BY <1>4, <2>1, <2>2, <3>1, <3>2
  <2>3. CASE h[1] # Depth
    <3>1. h[1] \in 1..(Depth - 1)
      BY <1>3, <2>1, <2>3
    <3> QED
      BY <2>1, <2>3, <3>1, HeldMoves
  <2> QED
    BY <2>2, <2>3
<1>6. /\ blocks \in Nat /\ blocks' \in Nat /\ blocks' >= blocks
      /\ \A h \in DOMAIN held : held[h] \in 1..blocks
      /\ \A g, h \in DOMAIN held : held[g] = held[h] => g = h
  BY DEF BlocksOK, BlocksMove
<1>7. \A b \in NewBlocks : b \notin 1..blocks
  BY <1>6 DEF NewBlocks
<1>8. /\ edges \subseteq (1..blocks) \X (1..blocks)
      /\ \A p \in phis : /\ p.at \in 1..blocks /\ p.from = PredsOf(p.at)
                         /\ \A h \in DOMAIN held : held[h] # p.at
      /\ \A i \in 1..Depth : IsMerging(stack[i]) => PredsOf(stack[i].bb["end"]) = {stack[i].bb["lhs"]}
  BY <1>3 DEF PhisOK
<1> HIDE DEF held, NewBlocks
<1>9. edges' \subseteq (1..blocks') \X (1..blocks')
  <2>1. \A b \in 1..blocks : b \in 1..blocks'
    BY <1>6
  <2> QED
    BY <1>1, <1>8, <2>1
\* A block that is neither new nor held by the running function has the predecessors it had.
<1>10. \A b \in 1..blocks : (\A r : Had(r) => bb[r] # b) => PredsAfter(b) = PredsOf(b)
  BY <1>1, <1>2, <1>7
<1>11. ASSUME NEW p \in phis'
       PROVE  /\ p.at \in 1..blocks' /\ p.from = PredsAfter(p.at)
              /\ \A h \in DOMAIN held' : held'[h] # p.at
  <2>0. \A b \in 1..blocks : b \in 1..blocks'
    BY <1>6
  <2>1. CASE p \in phis
    <3>1. p.at \in 1..blocks /\ p.from = PredsOf(p.at) /\ \A h \in DOMAIN held : held[h] # p.at
      BY <1>8, <2>1
    <3>2. PredsAfter(p.at) = PredsOf(p.at)
      BY <1>4, <1>10, <3>1
    <3> QED
      BY <1>5, <1>7, <2>0, <3>1, <3>2
  <2>2. CASE p \notin phis
    <3>1. /\ IsMerging(CgTop) /\ targets = {bb["end"]} /\ Depth' < Depth
          /\ p.at = bb["end"] /\ p.from = {bb["lhs"], insert}
      BY <1>1, <2>2
    <3>2. Had("end")
      BY <3>1 DEF Had, Holds, Waits, Roles
    <3>3. PredsOf(bb["end"]) = {bb["lhs"]}
      BY <1>3, <1>8, <3>1 DEF bb
    <3>4. PredsAfter(p.at) = {bb["lhs"], insert}
      BY <1>2, <3>1, <3>3
    <3>5. bb["end"] \in 1..blocks /\ <<Depth, "end">> \in DOMAIN held /\ held[<<Depth, "end">>] = bb["end"]
      BY <1>4, <1>6, <3>2
    <3>6. ASSUME NEW h \in DOMAIN held', held'[h] = bb["end"] PROVE FALSE
      <4>1. h \in DOMAIN held /\ held'[h] = held[h] /\ (h[1] = Depth => Depth' >= Depth)
        BY <1>5, <1>7, <3>5, <3>6
      <4>2. h = <<Depth, "end">>
        BY <1>6, <3>5, <3>6, <4>1
      <4>3. h[1] = Depth
        BY <4>2
      <4> QED
        BY <1>3, <3>1, <4>1, <4>3
    <3> QED
      BY <2>0, <3>1, <3>4, <3>5, <3>6
  <2> QED
    BY <2>1, <2>2
<1>12. ASSUME NEW i \in 1..Depth', IsMerging(stack'[i])
       PROVE  PredsAfter(stack'[i].bb["end"]) = {stack'[i].bb["lhs"]}
  <2>1. CASE i < Depth
    <3>1. i \in 1..Depth /\ i \in 1..(Depth - 1) /\ i # Depth
      BY <1>3, <2>1
    <3>2. stack'[i] = stack[i]
      BY <3>1 DEF StackMoves, Below, Depth
    <3>3. Holds(stack[i], "end") /\ "end" \in Roles
      BY <1>12, <3>2 DEF Holds, Waits, Roles
    <3>4. <<i, "end">> \in DOMAIN held /\ held[<<i, "end">>] = stack[i].bb["end"]
      BY <1>4, <3>1, <3>3
    <3>5. ASSUME NEW r, Had(r), bb[r] = stack[i].bb["end"] PROVE FALSE
      <4>1. <<Depth, r>> \in DOMAIN held /\ held[<<Depth, r>>] = held[<<i, "end">>]
        BY <1>4, <3>4, <3>5
      <4>2. <<Depth, r>> = <<i, "end">>
        BY <1>6, <3>4, <4>1
      <4> QED
        BY <3>1, <4>2
    <3>6. stack[i].bb["end"] \in 1..blocks
      BY <1>6, <3>4
    <3>7. PredsAfter(stack[i].bb["end"]) = PredsOf(stack[i].bb["end"])
      BY <1>10, <3>5, <3>6
    <3> QED
      BY <1>8, <1>12, <3>1, <3>2, <3>7
  <2>2. CASE i = Depth
    <3>1. Kept("end") \in targets \cap NewBlocks /\ Kept("lhs") = insert
      BY <1>1, <1>3, <1>12, <2>2
    <3>2. PredsOf(Kept("end")) = {}
      BY <1>7, <1>8, <3>1 DEF PredsOf
    <3>3. PredsAfter(Kept("end")) = {insert}
      BY <1>2, <3>1, <3>2
    <3>4. Kept("end") = stack'[i].bb["end"] /\ Kept("lhs") = stack'[i].bb["lhs"]
      BY <2>2 DEF Kept
    <3> QED
      BY <3>1, <3>3, <3>4
  <2>3. CASE i > Depth
    <3>1. i = Depth + 1 /\ Depth' = Depth + 1
      BY <1>3, <2>3
    <3>2. stack'[Depth + 1].next = 1
      BY <3>1 DEF StackMoves
    <3> QED
      BY <1>12, <3>1, <3>2 DEF IsMerging
  <2> QED
    BY <1>3, <2>1, <2>2, <2>3
<1>13. \A f : IsMerging(f)' <=> IsMerging(f)
  BY DEF IsMerging, Kind
<1>14. \A b : PredsOf(b)' = PredsAfter(b)
  BY DEF PredsOf, PredsAfter
<1> HIDE DEF PredsAfter
<1>15. ASSUME NEW i \in 1..Depth', IsMerging(stack[i])'
       PROVE  PredsOf(stack[i].bb["end"])' = {stack'[i].bb["lhs"]}
  <2>1. IsMerging(stack'[i])
    BY <1>13, <1>15
  <2>2. PredsOf(stack[i].bb["end"])' = PredsAfter(stack'[i].bb["end"])
    BY <1>14
  <2> QED
    BY <1>12, <2>1, <2>2
<1>16. \A p \in phis' : /\ p.at \in 1..blocks' /\ p.from = PredsOf(p.at)'
                         /\ \A h \in DOMAIN held' : held'[h] # p.at
  BY <1>11, <1>14
<1> QED
  BY <1>3, <1>9, <1>15, <1>16 DEF PhisOK

-----------------------------------------------------------------------------
(* The steps of the running function. *)

Running3 == {"stmt", "expr", "lvalue"}

CgGood ==
  /\ phase = "codegen" /\ stack # <<>> /\ AstTypeOK
  /\ StackOK /\ BlocksOK /\ PhisOK /\ EnvOK /\ DataOK

Moves == StackMoves /\ BlocksMove /\ PhisMove

\* The tree has no holes left: a child is what the grammar says, or null.
LEMMA KidKinds ==
  ASSUME AstTypeOK, phase = "codegen", NEW n \in Nodes
  PROVE  /\ Arity(n) \in Nat /\ HasArity(Kind(n), Arity(n)) /\ Labelled(ast[n])
         /\ DOMAIN ast[n].kids = 1..Arity(n)
         /\ \A i \in 1..Arity(n) :
              Kid(n, i) \in Nodes /\ Kind(Kid(n, i)) \in Slot(Kind(n), i) \ HoleKinds
<1>1. Holes = {}
  BY DEF AstTypeOK
<1>2. \A m \in Nodes : Kind(m) \notin HoleKinds
  BY <1>1 DEF Holes
<1>3. \A i \in 1..Arity(n) : Kid(n, i) \in Nodes /\ Kind(Kid(n, i)) \in Slot(Kind(n), i)
  BY DEF AstTypeOK
<1>4. ast[n].kids \in Seq(Nat) /\ Arity(n) \in Nat /\ HasArity(Kind(n), Arity(n)) /\ Labelled(ast[n])
  BY NodeFacts
<1>5. DOMAIN ast[n].kids = 1..Arity(n)
  BY <1>4 DEF Arity
<1> QED
  BY <1>2, <1>3, <1>4, <1>5

\* A statement or an expression runs inside a function, and the insert block is open unless it
\* is one of those that test it.
LEMMA Within ==
  ASSUME CgGood, CgTop.fn \in Running3
  PROVE  /\ Depth \in Nat /\ Depth >= 3 /\ Inside
         /\ insert \in 1..blocks /\ blocks \in Nat
         /\ ~Tolerant(CgTop) => Open
         /\ Simple(CgTop) \/ Tolerant(stack[Depth - 1])
<1>1. StackOK /\ stack # <<>>
  BY DEF CgGood
<1>2. /\ Depth \in Nat /\ Depth >= 1 /\ DOMAIN stack = 1..Depth /\ Depth \in DOMAIN stack
      /\ CgTop = stack[Depth]
  BY <1>1, CgTopFacts DEF Depth
<1>3. StackShape
  BY <1>1 DEF StackOK
<1>4. Depth # 1 /\ Depth # 2
  BY <1>2, <1>3 DEF StackShape, Running3
<1>5. Depth >= 3
  BY <1>2, <1>4
<1>6. Inside /\ (Simple(CgTop) \/ Tolerant(stack[Depth - 1]))
  BY <1>2, <1>3, <1>5 DEF StackShape
<1> QED
  BY <1>2, <1>5, <1>6 DEF CgGood, BlocksOK, Depth

\* The function goes on being defined while its statements run.
LEMMA StaysInside ==
  ASSUME CgGood, CgTop.fn \in Running3, StackMoves
  PROVE  Inside'
<1>1. Depth \in Nat /\ Depth >= 3 /\ Inside
  BY Within
<1>2. stack'[2] = stack[2] /\ Depth' >= 2
  BY <1>1 DEF StackMoves, Below, Depth
<1> QED
  BY <1>1, <1>2 DEF Inside, Depth

\* A call, as a move of the stack.
LEMMA CallMoves ==
  ASSUME CgGood, NEW locals \in [Roles -> Nat], NEW fn \in FnNames \ {"module"}, NEW n \in Nodes,
         CallWith(locals, fn, n),
         \A r \in Roles : locals[r] <= blocks',
         CgTop.fn # "define" \/ CgTop.next >= 2,
         ~IsNull(n) => /\ Kind(n) \in KindsOf(fn)
                       /\ fn \in {"define", "global"} <=> Depth = 1
                       /\ Depth >= 2 => \/ fn # "stmt" \/ Kind(n) \in {"VAR_DECL", "EXPR_STMT"}
                                        \/ Tolerant(Resumed(locals))
                       /\ Depth = 2 => CgTop.fn = "define"
  PROVE  /\ StackMoves /\ Depth' >= Depth /\ Depth' \in Nat
         /\ stack'[Depth] = Resumed(locals)
         /\ Depth' = IF IsNull(n) THEN Depth ELSE Depth + 1
         /\ stack'[Depth].fn = CgTop.fn /\ stack'[Depth].node = at
         /\ stack'[Depth].next = CgTop.next + 1
         /\ \A r : Kept(r) = locals[r]
<1>1. StackOK /\ stack # <<>>
  BY DEF CgGood
<1>2. Depth \in Nat /\ Depth >= 1 /\ CgTop.next \in Nat /\ CgTop.fn \in FnNames
  BY <1>1, CgTopFacts DEF Depth
<1>3. /\ stack' \in Seq(FrameRecords) /\ Below /\ stack'[Depth] = Resumed(locals)
      /\ Depth' = IF IsNull(n) THEN Depth ELSE Depth + 1
      /\ ~IsNull(n) => stack'[Depth + 1] = CgFrame(fn, n)
  BY <1>1, Called DEF Depth
<1>4. /\ Resumed(locals).fn = CgTop.fn /\ Resumed(locals).node = at
      /\ Resumed(locals).next = CgTop.next + 1 /\ Resumed(locals).bb = locals
  BY <1>1, ResumedFields
<1>5. /\ CgFrame(fn, n).fn = fn /\ CgFrame(fn, n).node = n /\ CgFrame(fn, n).next = 1
      /\ \A r \in Roles : CgFrame(fn, n).bb[r] = 0
  BY FrameOfCall
<1> HIDE DEF Resumed, CgFrame, Depth
<1>6. Depth' >= Depth =>
       LET resumed == stack'[Depth]
       IN /\ resumed.fn = CgTop.fn /\ resumed.node = at /\ resumed.next >= CgTop.next
          /\ resumed.fn = "define" => resumed.next >= 2
          /\ \A r \in Roles : resumed.bb[r] <= blocks'
  BY <1>2, <1>3, <1>4
<1>7. Depth' = Depth + 1 => ~IsNull(n)
  BY <1>2, <1>3
<1>8. ASSUME Depth' = Depth + 1
      PROVE  LET callee == stack'[Depth + 1]
             IN /\ callee.next = 1 /\ callee.fn # "module" /\ Kind(callee.node) \in KindsOf(callee.fn)
                /\ \A r \in Roles : callee.bb[r] = 0
                /\ callee.fn \in {"define", "global"} <=> Depth = 1
                /\ Depth >= 2 => Simple(callee) \/ Tolerant(stack'[Depth])
                /\ Depth = 2 => CgTop.fn = "define"
  <2>1. ~IsNull(n) /\ stack'[Depth + 1] = CgFrame(fn, n)
    BY <1>3, <1>7, <1>8
  <2> HIDE DEF Tolerant
  <2> QED
    BY <1>3, <1>5, <2>1 DEF Simple
<1>9. Depth' \in {Depth - 1, Depth, Depth + 1} /\ Depth' >= Depth /\ Depth' \in Nat
  BY <1>2, <1>3
<1>10. StackMoves
  BY <1>3, <1>6, <1>8, <1>9 DEF StackMoves
<1> QED
  BY <1>3, <1>4, <1>9, <1>10 DEF Kept

\* A return, as a move of the stack; statements that may leave the block terminated return to
\* frames that test it.
LEMMA ReturnMoves ==
  ASSUME CgGood, CgReturn
  PROVE  /\ StackMoves /\ Depth' = Depth - 1 /\ Depth' \in Nat /\ Depth' < Depth
         /\ UNCHANGED ast /\ CgTop.fn \in Running3 /\ ~Simple(CgTop) => Tolerant(CgTop)'
<1>1. StackOK /\ stack # <<>>
  BY DEF CgGood
<1>2. Depth \in Nat /\ Depth >= 1
  BY <1>1, CgTopFacts DEF Depth
<1>3. stack' \in Seq(FrameRecords) /\ Depth' = Depth - 1 /\ Below
  BY <1>1, Returned DEF Depth
<1>4. StackMoves
  BY <1>2, <1>3 DEF StackMoves
<1>5. ASSUME UNCHANGED ast, CgTop.fn \in Running3, ~Simple(CgTop) PROVE Tolerant(CgTop)'
  <2>1. Depth >= 3 /\ Tolerant(stack[Depth - 1])
    BY <1>5, Within
  <2>2. CgTop' = stack[Depth - 1]
    BY <1>2, <1>3, <2>1 DEF CgTop, Depth, Below
  <2>3. \A f : Tolerant(f)' <=> Tolerant(f)
    BY <1>5 DEF Tolerant, Kind
  <2> HIDE DEF Tolerant
  <2>4. \A f : f = CgTop' => (Tolerant(f)' <=> Tolerant(CgTop)')
    BY <1>5 DEF Tolerant, Kind
  <2> QED
    BY <2>1, <2>2, <2>3, <2>4
<1> QED
  BY <1>2, <1>3, <1>4, <1>5

\* A step that leaves the graph alone, but for an instruction in an open block.
LEMMA QuietMoves ==
  ASSUME CgGood, UNCHANGED ast, StackMoves, UNCHANGED irVars \/ (Emit /\ Open),
         \A r : ~Had(r), \A r : ~Keeps(r),
         Inside' <=> Inside,
         Open \/ Len(stack)' < 3 \/ Tolerant(CgTop)'
  PROVE  Moves
<1>1. /\ UNCHANGED <<blocks, insert, terminated, edges, phis>>
      /\ blocks \in Nat /\ ~malformed /\ ~malformed'
  <2>1. blocks \in Nat /\ ~malformed
    BY DEF CgGood, BlocksOK
  <2>2. CASE UNCHANGED irVars
    BY <2>1, <2>2 DEF irVars
  <2>3. CASE Emit /\ Open
    BY Zenon, <2>1, <2>3 DEF Emit
  <2> QED
    BY <2>1, <2>2, <2>3
<1>2. NewBlocks = {}
  BY <1>1 DEF NewBlocks
<1>3. \A r : ~Owed(r) /\ ~Owes(r)
  BY DEF Owed, Owes, Had, Keeps, Holds
<1>4. Open' <=> Open
  BY <1>1 DEF Open
<1>5. Len(stack)' \in Nat
  <2>1. stack' \in Seq(FrameRecords)
    BY DEF StackMoves
  <2> QED
    BY <2>1
<1>6. BlocksMove
  <2>1. Len(stack)' >= 3 /\ ~Tolerant(CgTop)' => Open'
    BY <1>4, <1>5
  <2>2. blocks' \in Nat /\ blocks' >= blocks /\ blocks' = blocks /\ insert' = insert
    BY <1>1
  <2>3. \A b \in NewBlocks : b = insert' \/ \E r : Owes(r) /\ Kept(r) = b
    BY <1>2
  <2>4. terminated' = terminated
    BY <1>1
  <2>5. /\ \A r : Keeps(r) => (Had(r) /\ Kept(r) = bb[r]) \/ Kept(r) \in NewBlocks
        /\ \A r, s : Keeps(r) /\ Keeps(s) /\ Kept(r) = Kept(s) => r = s
        /\ \A r : Owes(r) => ((Owed(r) /\ Kept(r) = bb[r]) \/ Kept(r) \in NewBlocks) /\ Kept(r) # insert'
        /\ \A r : Owed(r) => bb[r] = insert' \/ (Owes(r) /\ Kept(r) = bb[r])
    BY <1>3
  <2> QED
    BY <1>1, <2>1, <2>2, <2>3, <2>4, <2>5 DEF BlocksMove
<1>7. PhisMove
  <2>1. ~(Depth' >= Depth /\ IsMerging(stack'[Depth]))
    <3>1. "end" \in Roles
      BY DEF Roles
    <3> QED
      BY <3>1 DEF Keeps, Holds, Waits
  <2> DEFINE empty == {}
  <2>2. empty \in SUBSET (1..blocks')
    OBVIOUS
  <2>3. edges' = edges \cup {<<insert, t>> : t \in empty}
    BY <1>1
  <2> QED
    BY <1>1, <2>1, <2>2, <2>3 DEF PhisMove
<1> QED
  BY <1>6, <1>7 DEF Moves

\* cg_expr and cg_lvalue return; only && and || hold a block then.
LEMMA GiveMoves ==
  ASSUME CgGood, UNCHANGED ast, CgTop.fn \in {"expr", "lvalue"}, ~IsMerging(CgTop),
         CgReturn, UNCHANGED irVars \/ Emit
  PROVE  Moves
<1>1. StackMoves /\ Depth' < Depth
  BY ReturnMoves
<1>2. CgTop.fn \in Running3 /\ ~Tolerant(CgTop) /\ \A r : ~Had(r)
  BY DEF Running3, Tolerant, Had, Holds, Waits, Loops
<1>3. Inside /\ Inside' /\ Open
  BY <1>1, <1>2, Within, StaysInside
<1>4. \A r : ~Keeps(r)
  <2>1. Depth' \in Nat /\ Depth \in Nat
    BY <1>2, ReturnMoves, Within
  <2> QED
    BY <1>1, <2>1 DEF Keeps
<1> QED
  BY <1>1, <1>2, <1>3, <1>4, QuietMoves

\* A statement that holds no block returns.
LEMMA StatementReturns ==
  ASSUME CgGood, UNCHANGED ast, CgTop.fn = "stmt", \A r : ~Had(r), CgReturn,
         Open \/ Kind(at) \notin {"VAR_DECL", "EXPR_STMT"}, UNCHANGED irVars \/ (Emit /\ Open)
  PROVE  Moves
<1>1. StackMoves /\ Depth' < Depth /\ Depth' \in Nat
  BY ReturnMoves
<1>2. CgTop.fn \in Running3
  BY DEF Running3
<1>3. Inside /\ Inside' /\ Depth \in Nat
  BY <1>1, <1>2, Within, StaysInside
<1>4. \A r : ~Keeps(r)
  BY <1>1, <1>3 DEF Keeps
<1>5. ~Open => Tolerant(CgTop)'
  BY <1>2, ReturnMoves DEF Simple, at
<1> QED
  BY <1>1, <1>3, <1>4, <1>5, QuietMoves

\* A function that holds no block before or after a call, of an open block.
LEMMA QuietCall ==
  ASSUME CgGood, UNCHANGED ast, CgTop.fn \in Running3, StackMoves, \A r : ~Had(r), \A r : ~Keeps(r),
         Open, UNCHANGED irVars \/ Emit
  PROVE  Moves
<1>1. Inside /\ Inside'
  BY Within, StaysInside
<1> QED
  BY <1>1, QuietMoves

LEMMA ExpressionMoves ==
  ASSUME CgGood, UNCHANGED ast,
         \/ CgLiteral \/ CgIdent \/ CgIndexAddress \/ CgDerefAddress \/ CgUnhandled
         \/ CgAssign \/ CgArith \/ CgAddress \/ CgLoad \/ CgNegate \/ CgNot \/ CgCall
  PROVE  Moves
<1> USE DEF Evaluated, EvaluatedOp, Compute, Pass, CgError, Give
<1> DEFINE OK == /\ CgTop.fn \in {"expr", "lvalue"} /\ CgReturn /\ (UNCHANGED irVars \/ Emit)
                 /\ CgTop.fn = "lvalue" \/ Kind(at) # "BINARY" \/ ast[at].op \notin Logical
<1> HIDE DEF Emit, CgReturn, irVars
<1>1. CgLiteral \/ CgUnhandled \/ CgIndexAddress \/ CgDerefAddress \/ CgAssign => OK
  BY DEF CgLiteral, CgUnhandled, CgIndexAddress, CgDerefAddress, CgAssign, Literals, Unhandled
<1>2. CgIdent => OK
  BY DEF CgIdent
<1>3. CgArith \/ CgAddress \/ CgLoad \/ CgNegate \/ CgNot => OK
  BY DEF CgArith, CgAddress, CgLoad, CgNegate, CgNot
<1>4. CgCall => OK
  BY DEF CgCall
<1>5. OK
  BY <1>1, <1>2, <1>3, <1>4
<1>6. ~IsMerging(CgTop)
  BY <1>5 DEF IsMerging, at
<1> QED
  BY <1>5, <1>6, GiveMoves

\* The blocks of the running function, by its kind and step.
LEMMA HoldsNothing ==
  ASSUME NEW f, f.fn # "expr" \/ Kind(f.node) # "BINARY" \/ ast[f.node].op \notin Logical \/ f.next # 3,
         f.fn # "stmt" \/ Kind(f.node) \notin {"IF", "WHILE", "FOR"} \/ f.next = 1
           \/ (Kind(f.node) = "IF" /\ f.next = 2)
  PROVE  \A r : ~Holds(f, r)
  BY DEF Holds, Waits, Loops, IsMerging

LEMMA StatementMoves ==
  ASSUME CgGood, UNCHANGED ast,
         CgVarInit \/ CgExprStmt \/ (CgBlockLeave /\ CgTop.fn = "stmt")
  PROVE  Moves
<1> USE DEF Step, Evaluated, InList
<1>1. CgTop.fn = "stmt" /\ Kind(at) \in {"VAR_DECL", "EXPR_STMT", "BLOCK"} /\ CgReturn
  BY DEF CgVarInit, CgExprStmt, CgBlockLeave
<1>2. \A r : ~Had(r)
  BY <1>1, HoldsNothing DEF Had, at
<1>3. Kind(at) # "BLOCK" => Open
  <2>1. Kind(at) # "BLOCK" => ~Tolerant(CgTop)
    BY <1>1 DEF Tolerant, at
  <2> QED
    BY <1>1, <2>1, Within DEF Running3
<1>4. UNCHANGED irVars \/ (Emit /\ Open)
  BY <1>1, <1>3 DEF CgVarInit, CgExprStmt, CgBlockLeave, OnlyCalls
<1> QED
  BY <1>1, <1>2, <1>3, <1>4, StatementReturns

\* The operands are expressions, and calling them leaves the graph alone.
LEMMA OperandFacts ==
  ASSUME CgGood, CgTop.next \in DOMAIN Operands
  PROVE  LET callee == Operands[CgTop.next]
         IN /\ callee.fn \in {"expr", "lvalue"} /\ callee.node \in Nodes
            /\ ~IsNull(callee.node) => Kind(callee.node) \in ExprKinds
            /\ CgTop.fn \in Running3
            /\ CgTop.fn = "stmt" => CgTop.next = 1 /\ Kind(at) \in {"EXPR_STMT", "RETURN", "IF"}
            /\ CgTop.fn = "expr" /\ Kind(at) = "BINARY" /\ ast[at].op \in Logical => CgTop.next = 1
<1> DEFINE k == CgTop.next
           op == ast[at].op
           expr(i) == Call("expr", CgKid(i))
           addr(i) == Call("lvalue", CgKid(i))
           Good1(c) == /\ c.fn \in {"expr", "lvalue"} /\ c.node \in Nodes
                       /\ ~IsNull(c.node) => Kind(c.node) \in ExprKinds
<1>1. /\ at \in Nodes /\ k \in Nat /\ k >= 1 /\ AstTypeOK /\ phase = "codegen"
      /\ CgTop.fn \in FnNames /\ Kind(at) \in KindsOf(CgTop.fn)
  BY CgTopFacts DEF CgGood
<1>2. /\ Arity(at) \in Nat /\ HasArity(Kind(at), Arity(at))
      /\ \A i \in 1..Arity(at) : CgKid(i) \in Nodes /\ Kind(CgKid(i)) \in Slot(Kind(at), i) \ HoleKinds
  BY <1>1, KidKinds DEF CgKid
<1>3. ASSUME NEW i \in 1..Arity(at),
             Kind(at) \in {"EXPR_STMT", "RETURN", "ASSIGN", "BINARY", "UNARY", "CALL", "INDEX"}
               \/ (Kind(at) = "IF" /\ i = 1)
      PROVE  Good1(expr(i)) /\ Good1(addr(i))
  <2>1. Kind(CgKid(i)) \in ExprKinds \cup {"NULL"}
    BY <1>2, <1>3 DEF HoleKinds, Slot, IsStmtSlot, MayBeNull, ExprSlot, Null
  <2> QED
    BY <1>2, <2>1 DEF Call, IsNull
<1>4. Kind(at) \in ExprKinds => Good1(Call("lvalue", at))
  BY <1>1 DEF Call
<1> HIDE DEF Good1, expr, addr, op
<1>5. CASE CgTop.fn = "lvalue"
  <2>1. Kind(at) = "INDEX" => Operands = <<expr(1), expr(2)>>
    BY <1>5 DEF Operands, expr
  <2>2. Kind(at) = "UNARY" /\ op = "STAR" => Operands = <<expr(1)>>
    BY <1>5 DEF Operands, expr, op
  <2>3. Kind(at) # "INDEX" /\ ~(Kind(at) = "UNARY" /\ op = "STAR") => Operands = <<>>
    BY <1>5 DEF Operands, op
  <2>4. Kind(at) = "INDEX" => Good1(expr(1)) /\ Good1(expr(2))
    BY <1>2, <1>3 DEF HasArity
  <2>5. Kind(at) = "UNARY" => Good1(expr(1))
    BY <1>2, <1>3 DEF HasArity
  <2> QED
    BY <1>5, <2>1, <2>2, <2>3, <2>4, <2>5 DEF Good1, Running3
<1>6. CASE CgTop.fn = "stmt"
  <2>1. Kind(at) \in {"EXPR_STMT", "RETURN", "IF"} => Operands = <<expr(1)>>
    BY <1>6 DEF Operands, expr
  <2>2. Kind(at) \notin {"EXPR_STMT", "RETURN", "IF"} => Operands = <<>>
    BY <1>6 DEF Operands
  <2>3. Kind(at) \in {"EXPR_STMT", "RETURN", "IF"} => Good1(expr(1))
    BY <1>2, <1>3 DEF HasArity
  <2> QED
    BY <1>6, <2>1, <2>2, <2>3 DEF Good1, Running3
<1>7. CASE CgTop.fn = "expr"
  <2>1. Kind(at) = "ASSIGN" => Operands = <<addr(1), expr(2)>> /\ Good1(addr(1)) /\ Good1(expr(2))
    BY <1>2, <1>3, <1>7 DEF Operands, expr, addr, HasArity
  <2>2. Kind(at) = "BINARY" /\ op \in Logical => Operands = <<expr(1)>> /\ Good1(expr(1))
    BY <1>2, <1>3, <1>7 DEF Operands, expr, op, HasArity
  <2>3. Kind(at) = "BINARY" /\ op \notin Logical =>
          Operands = <<expr(1), expr(2)>> /\ Good1(expr(1)) /\ Good1(expr(2))
    BY <1>2, <1>3, <1>7 DEF Operands, expr, op, HasArity
  <2>4. Kind(at) = "UNARY" =>
          Operands = <<IF op = "AMP" THEN addr(1) ELSE expr(1)>> /\ Good1(addr(1)) /\ Good1(expr(1))
    BY <1>2, <1>3, <1>7 DEF Operands, expr, addr, op, HasArity
  <2>5. Kind(at) = "INDEX" => Operands = <<Call("lvalue", at)>> /\ Good1(Call("lvalue", at))
    BY <1>4, <1>7 DEF Operands, ExprKinds
  <2>6. Kind(at) = "CALL" =>
          \/ Operands = <<>>
          \/ Operands = [i \in 1..(Arity(at) - 1) |-> expr(i + 1)]
    BY <1>7 DEF Operands, expr
  <2>7. Kind(at) \notin {"ASSIGN", "BINARY", "UNARY", "CALL", "INDEX"} => Operands = <<>>
    BY <1>7 DEF Operands
  <2>8. Kind(at) = "CALL" => Good1(Operands[k])
    <3>1. ASSUME Kind(at) = "CALL", Operands = [i \in 1..(Arity(at) - 1) |-> expr(i + 1)]
          PROVE  Good1(Operands[k])
      <4>1. k \in 1..(Arity(at) - 1) /\ Operands[k] = expr(k + 1)
        BY <3>1
      <4>2. k + 1 \in 1..Arity(at)
        BY <1>2, <4>1
      <4> QED
        BY <1>3, <3>1, <4>1, <4>2
    <3> QED
      BY <2>6, <3>1
  <2>9. Good1(Operands[k])
    BY <2>1, <2>2, <2>3, <2>4, <2>5, <2>7, <2>8
  <2>10. Kind(at) = "BINARY" /\ op \in Logical => k = 1
    BY <2>2
  <2> QED
    BY <1>7, <2>9, <2>10 DEF Good1, Running3, op
<1>8. CASE CgTop.fn \notin {"lvalue", "stmt", "expr"}
  BY <1>8 DEF Operands
<1> QED
  BY <1>5, <1>6, <1>7, <1>8

\* The functions that call another one and hold no block then.
LEMMA QuietCallMoves ==
  ASSUME CgGood, UNCHANGED ast, CgOperand \/ CgVarDecl \/ (CgNextStatement /\ CgTop.fn = "stmt")
  PROVE  Moves
<1>0. /\ at \in Nodes /\ CgTop.next \in Nat /\ CgTop.fn \in FnNames /\ Kind(at) \in KindsOf(CgTop.fn)
      /\ bb \in [Roles -> Nat] /\ AstTypeOK /\ phase = "codegen" /\ FrameOK(CgTop)
  BY CgTopFacts DEF CgGood
<1>b. \A r \in Roles : bb[r] <= blocks
  BY <1>0 DEF FrameOK, bb
<1>1. CASE CgOperand
  <2> DEFINE callee == Operands[CgTop.next]
  <2>1. /\ CgTop.next \in DOMAIN Operands /\ CallFn(callee.fn, callee.node)
        /\ UNCHANGED irVars
    BY <1>1 DEF CgOperand, OnlyCalls
  <2>2. /\ callee.fn \in {"expr", "lvalue"} /\ callee.node \in Nodes
        /\ ~IsNull(callee.node) => Kind(callee.node) \in ExprKinds
        /\ CgTop.fn \in Running3
        /\ CgTop.fn = "stmt" => CgTop.next = 1 /\ Kind(at) \in {"EXPR_STMT", "RETURN", "IF"}
        /\ CgTop.fn = "expr" /\ Kind(at) = "BINARY" /\ ast[at].op \in Logical => CgTop.next = 1
    BY <2>1, OperandFacts
  <2> HIDE DEF callee
  <2>3. blocks' = blocks
    BY <2>1 DEF irVars
  <2>4. /\ Depth \in Nat /\ Depth >= 3 /\ Open
    <3>1. ~Tolerant(CgTop)
      BY <2>2 DEF Tolerant, at, Running3
    <3> QED
      BY <2>2, <3>1, Within
  <2>5. CgTop.fn # "define" /\ callee.fn \in FnNames \ {"module"}
    BY <2>2 DEF Running3, FnNames
  <2>6. ~IsNull(callee.node) => Kind(callee.node) \in KindsOf(callee.fn)
    BY <2>2 DEF KindsOf
  <2>7. /\ StackMoves /\ stack'[Depth].fn = CgTop.fn /\ stack'[Depth].node = at
        /\ stack'[Depth].next = CgTop.next + 1
    <3>1. CallWith(bb, callee.fn, callee.node)
      BY <2>1 DEF CallFn
    <3> QED
      BY <1>0, <1>b, <2>2, <2>3, <2>4, <2>5, <2>6, <3>1, CallMoves
  <2>8. \A r : ~Had(r)
    <3>1. \A r : ~Holds(CgTop, r)
      BY <1>0, <2>2, HoldsNothing DEF at, Running3
    <3> QED
      BY <3>1 DEF Had
  <2>9. \A r : ~Keeps(r)
    <3>1. \A r : ~Holds(stack'[Depth], r)
      BY <1>0, <2>2, <2>7, HoldsNothing DEF Running3
    <3> QED
      BY <3>1 DEF Keeps
  <2> QED
    BY <2>1, <2>2, <2>4, <2>7, <2>8, <2>9, QuietCall
<1>2. CASE CgVarDecl
  <2>1. /\ CgTop.fn = "stmt" /\ Kind(at) = "VAR_DECL" /\ CgTop.next = 1
        /\ Emit /\ CallWith(bb, "expr", CgKid(1))
    BY <1>2 DEF CgVarDecl, Step, CallFn
  <2>2. CgKid(1) \in Nodes /\ (~IsNull(CgKid(1)) => Kind(CgKid(1)) \in ExprKinds)
    <3>1. Arity(at) = 1 /\ 1 \in 1..1
      BY <1>0, <2>1, KidKinds DEF HasArity
    <3>2. Kid(at, 1) \in Nodes /\ Kind(Kid(at, 1)) \in Slot("VAR_DECL", 1) \ HoleKinds
      BY <1>0, <2>1, <3>1, KidKinds
    <3> QED
      BY <3>2 DEF HoleKinds, Slot, IsStmtSlot, MayBeNull, ExprSlot, Null, CgKid, IsNull
  <2>3. blocks' = blocks
    BY <2>1 DEF Emit
  <2>4. /\ Depth \in Nat /\ Depth >= 3 /\ Open /\ CgTop.fn \in Running3
    <3>1. ~Tolerant(CgTop) /\ CgTop.fn \in Running3
      BY <2>1 DEF Tolerant, at, Running3
    <3> QED
      BY <3>1, Within
  <2>5. CgTop.fn # "define" /\ "expr" \in FnNames \ {"module"}
    BY <2>1 DEF FnNames
  <2>6. ~IsNull(CgKid(1)) => Kind(CgKid(1)) \in KindsOf("expr")
    BY <2>2 DEF KindsOf
  <2>7. /\ StackMoves /\ stack'[Depth].fn = CgTop.fn /\ stack'[Depth].node = at
        /\ stack'[Depth].next = CgTop.next + 1
    BY <1>0, <1>b, <2>1, <2>2, <2>3, <2>4, <2>5, <2>6, CallMoves
  <2>8. \A r : ~Had(r)
    <3>1. \A r : ~Holds(CgTop, r)
      BY <2>1, HoldsNothing DEF at
    <3> QED
      BY <3>1 DEF Had
  <2>9. \A r : ~Keeps(r)
    <3>1. \A r : ~Holds(stack'[Depth], r)
      BY <2>1, <2>7, HoldsNothing
    <3> QED
      BY <3>1 DEF Keeps
  <2> QED
    BY <2>1, <2>4, <2>7, <2>8, <2>9, QuietCall
<1>3. CASE CgNextStatement /\ CgTop.fn = "stmt"
  <2> DEFINE k == CgTop.next - 1
             child == ast[at].kids[k]
  <2>1. /\ Kind(at) = "BLOCK" /\ CgTop.next >= 2
        /\ k \in DOMAIN ast[at].kids /\ Open
        /\ CallWith(bb, "stmt", child) /\ UNCHANGED irVars
    <3>1. /\ InList("BLOCK") \/ InList("FUNC_DECL")
          /\ More(StatementList) /\ CallFn("stmt", StatementList[CgTop.next - 1])
          /\ UNCHANGED irVars
      BY <1>3 DEF CgNextStatement, OnlyCalls
    <3>2. Kind(at) = "BLOCK" /\ CgTop.next >= 2
      BY <1>0, <1>3, <3>1 DEF InList, KindsOf, StmtKinds
    <3> QED
      BY <3>1, <3>2 DEF More, StatementList, CallFn
  <2>2. child \in Nodes /\ Kind(child) \in StmtKinds /\ ~IsNull(child)
    <3>1. DOMAIN ast[at].kids = 1..Arity(at) /\ k \in 1..Arity(at) /\ Kid(at, k) = child
      BY <1>0, <2>1, KidKinds DEF Kid
    <3>2. child \in Nodes /\ Kind(child) \in Slot("BLOCK", k) \ HoleKinds
      BY <1>0, <2>1, <3>1, KidKinds
    <3> QED
      BY <3>2 DEF HoleKinds, Slot, IsStmtSlot, MayBeNull, StmtSlot, StmtKinds, Null, IsNull
  <2>3. blocks' = blocks
    BY <2>1 DEF irVars
  <2>4. /\ Depth \in Nat /\ Depth >= 3 /\ CgTop.fn \in Running3
    BY <1>3, Within DEF Running3
  <2>5. Tolerant(Resumed(bb))
    <3>1. Resumed(bb).fn = "stmt" /\ Resumed(bb).node = at /\ Resumed(bb).next = CgTop.next + 1
      BY <1>0, <1>3, ResumedFields DEF CgGood
    <3> QED
      BY <1>0, <2>1, <3>1 DEF Tolerant
  <2> HIDE DEF child, k
  <2>6. Kind(child) \in KindsOf("stmt") /\ "stmt" \in FnNames \ {"module"} /\ CgTop.fn # "define"
    BY <1>3, <2>2 DEF KindsOf, FnNames
  <2>7. /\ StackMoves /\ stack'[Depth].fn = CgTop.fn /\ stack'[Depth].node = at
        /\ stack'[Depth].next = CgTop.next + 1
    BY <1>0, <1>b, <2>1, <2>2, <2>3, <2>4, <2>5, <2>6, CallMoves
  <2>8. \A r : ~Had(r)
    <3>1. \A r : ~Holds(CgTop, r)
      BY <1>3, <2>1, HoldsNothing DEF at
    <3> QED
      BY <3>1 DEF Had
  <2>9. \A r : ~Keeps(r)
    <3>1. \A r : ~Holds(stack'[Depth], r)
      BY <1>3, <2>1, <2>7, HoldsNothing
    <3> QED
      BY <3>1 DEF Keeps
  <2> QED
    BY <2>1, <2>4, <2>7, <2>8, <2>9, QuietCall
<1> QED
  BY <1>1, <1>2, <1>3

\* The running function takes its second step, without a call.
LEMMA NextMoves ==
  ASSUME CgGood, stack' = [stack EXCEPT ![Len(stack)].next = 2], CgTop.next = 1,
         blocks' \in Nat, blocks' >= blocks
  PROVE  /\ StackMoves /\ Depth' = Depth /\ Depth \in Nat /\ Depth >= 1
         /\ stack'[Depth].fn = CgTop.fn /\ stack'[Depth].node = at /\ stack'[Depth].next = 2
         /\ stack'[Depth].bb = bb
<1> DEFINE L == Len(stack)
           frame == [CgTop EXCEPT !.next = 2]
<1>1. /\ L \in Nat /\ L >= 1 /\ stack \in Seq(FrameRecords) /\ DOMAIN stack = 1..L
      /\ CgTop \in FrameRecords /\ CgTop = stack[L] /\ FrameOK(CgTop)
  BY CgTopFacts DEF StackOK, CgGood
<1>2. /\ frame \in FrameRecords /\ frame.fn = CgTop.fn /\ frame.node = at /\ frame.next = 2
      /\ frame.bb = bb
  BY <1>1 DEF FrameRecords, at, bb
<1>3. stack' = [stack EXCEPT ![L] = frame]
  BY <1>1
<1> HIDE DEF frame
<1>4. /\ stack' \in Seq(FrameRecords) /\ Len(stack') = L
      /\ \A i \in 1..L : stack'[i] = IF i = L THEN frame ELSE stack[i]
  BY <1>1, <1>2, <1>3
<1>5. L \in Nat /\ L >= 1
  BY <1>1
<1> HIDE DEF L
<1>6. stack'[L] = frame /\ \A i \in 1..(L - 1) : stack'[i] = stack[i]
  BY <1>4, <1>5
<1>7. Depth = L /\ Depth' = L
  BY <1>4 DEF Depth, L
<1>8. Below
  BY <1>6 DEF Below, L
<1>9. \A r \in Roles : bb[r] <= blocks'
  <2>1. \A r \in Roles : bb[r] <= blocks /\ bb[r] \in Nat /\ blocks \in Nat
    BY <1>1 DEF FrameOK, bb, FrameRecords, CgGood, BlocksOK
  <2> QED
    BY <2>1
<1>10. StackMoves
  <2>1. stack'[Depth] = frame /\ Depth' = Depth /\ Depth \in Nat
    BY <1>5, <1>6, <1>7
  <2>2. Depth' # Depth + 1 /\ Depth' \in {Depth - 1, Depth, Depth + 1}
    BY <2>1
  <2>3. /\ stack'[Depth].fn = CgTop.fn /\ stack'[Depth].node = at
        /\ stack'[Depth].next = 2 /\ stack'[Depth].bb = bb
    BY <1>2, <2>1
  <2>5. stack'[Depth].next >= CgTop.next /\ stack'[Depth].next >= 2
    <3>1. CgTop.next = 1
      OBVIOUS
    <3> QED
      BY <2>3, <3>1
  <2>4. \A r \in Roles : stack'[Depth].bb[r] <= blocks'
    BY <1>9, <2>3
  <2> QED
    BY <1>4, <1>8, <2>2, <2>3, <2>4, <2>5 DEF StackMoves
<1> QED
  BY <1>2, <1>5, <1>6, <1>7, <1>10

LEMMA BlockEnterMoves ==
  ASSUME CgGood, UNCHANGED ast, CgBlockEnter
  PROVE  Moves
<1>1. /\ CgTop.fn = "stmt" /\ Kind(at) = "BLOCK" /\ CgTop.next = 1
      /\ stack' = [stack EXCEPT ![Len(stack)].next = 2] /\ UNCHANGED irVars
  BY DEF CgBlockEnter, Step
<1>2. CgTop.fn \in Running3 /\ ~Tolerant(CgTop)
  BY <1>1 DEF Running3, Tolerant, at
<1>3. Open /\ blocks \in Nat /\ blocks' = blocks
  BY <1>1, <1>2, Within DEF irVars
<1>4. StackMoves /\ stack'[Depth].fn = CgTop.fn /\ stack'[Depth].node = at
  BY <1>1, <1>3, NextMoves
<1>5. \A r : ~Holds(CgTop, r) /\ ~Holds(stack'[Depth], r)
  BY <1>1, <1>4, HoldsNothing DEF at
<1> QED
  BY <1>1, <1>2, <1>3, <1>4, <1>5, QuietCall DEF Had, Keeps

\* Where the frames of the module and of a function are.
LEMMA Outside ==
  ASSUME CgGood
  PROVE  /\ CgTop.fn = "module" <=> Depth = 1
         /\ CgTop.fn \in {"define", "global"} <=> Depth = 2
         /\ Depth \in Nat /\ Depth >= 1 /\ CgTop = stack[Depth]
<1>1. /\ Depth \in Nat /\ Depth >= 1 /\ DOMAIN stack = 1..Depth /\ Depth \in DOMAIN stack
      /\ CgTop = stack[Depth] /\ StackShape
  BY CgTopFacts DEF Depth, CgGood, StackOK
<1> QED
  BY <1>1 DEF StackShape

LEMMA DeclarationMoves ==
  ASSUME CgGood, UNCHANGED ast, CgDeclaration \/ CgPrototype \/ CgGlobal \/ CgEnd
  PROVE  Moves
<1>0. /\ at \in Nodes /\ CgTop.next \in Nat /\ Kind(at) \in KindsOf(CgTop.fn)
      /\ bb \in [Roles -> Nat] /\ AstTypeOK /\ phase = "codegen" /\ FrameOK(CgTop)
  BY CgTopFacts DEF CgGood
<1>1. UNCHANGED irVars /\ CgTop.fn \in {"module", "define", "global"}
  BY DEF CgDeclaration, CgPrototype, CgGlobal, CgEnd, Step, OnlyCalls
<1>2. \A r : ~Had(r)
  BY <1>1, HoldsNothing DEF Had, at
<1>3. CASE CgDeclaration
  <2> DEFINE decl == CgKid(CgTop.next)
             fn == IF Kind(decl) = "FUNC_DECL" THEN "define" ELSE "global"
  <2>1. CgTop.fn = "module" /\ CgTop.next \in 1..Arity(at) /\ CallWith(bb, fn, decl)
    BY <1>3 DEF CgDeclaration, CallFn
  <2>2. decl \in Nodes /\ Kind(decl) \in {"FUNC_DECL", "VAR_DECL"}
    <3>1. Kind(at) = "PROGRAM"
      BY <1>0, <2>1 DEF KindsOf
    <3>2. decl \in Nodes /\ Kind(decl) \in Slot("PROGRAM", CgTop.next) \ HoleKinds
      BY <1>0, <2>1, <3>1, KidKinds DEF CgKid
    <3> QED
      BY <3>2 DEF Slot, MayBeNull, HoleKinds
  <2>3. fn \in FnNames \ {"module"} /\ fn \in {"define", "global"} /\ Kind(decl) \in KindsOf(fn)
    BY <2>2 DEF FnNames, KindsOf
  <2>4. Depth = 1 /\ blocks' = blocks /\ ~IsNull(decl)
    BY <1>1, <2>1, <2>2, Outside DEF irVars, IsNull
  <2>5. \A r \in Roles : bb[r] <= blocks'
    BY <1>0, <2>4 DEF FrameOK, bb
  <2> HIDE DEF decl, fn
  <2>6. /\ StackMoves /\ Depth' = 2 /\ stack'[Depth].fn = "module"
    BY <1>0, <2>1, <2>2, <2>3, <2>4, <2>5, CallMoves
  <2>7. \A r : ~Keeps(r)
    BY <2>6, HoldsNothing DEF Keeps
  <2>8. ~Inside
    BY <2>4 DEF Inside, Depth
  <2>9. ~Inside'
    <3>1. stack'[2].next = 1
      BY <2>4, <2>6 DEF StackMoves
    <3> QED
      BY <3>1 DEF Inside
  <2>10. Len(stack)' < 3
    BY <2>6 DEF Depth
  <2> QED
    BY <1>1, <1>2, <2>6, <2>7, <2>8, <2>9, <2>10, QuietMoves
<1>4. CASE CgPrototype \/ CgGlobal \/ CgEnd
  <2>1. CgReturn /\ (CgTop.fn = "define" => CgTop.next = 1)
    BY <1>4 DEF CgPrototype, CgGlobal, CgEnd, Step
  <2>2. /\ StackMoves /\ Depth' = Depth - 1 /\ Depth \in Nat /\ Depth' < Depth /\ Depth <= 2
    BY <1>1, <2>1, ReturnMoves, Outside
  <2>3. ~Inside
    BY <2>1, <2>2, Outside DEF Inside, Depth
  <2>4. ~Inside' /\ Len(stack)' < 3
    BY <2>2 DEF Inside, Depth
  <2>5. \A r : ~Keeps(r)
    BY <2>2 DEF Keeps
  <2> QED
    BY <1>1, <1>2, <2>2, <2>3, <2>4, <2>5, QuietMoves
<1> QED
  BY <1>3, <1>4

\* What is known of the blocks the running function holds.
LEMMA RunningHolds ==
  ASSUME CgGood
  PROVE  /\ \A r : Had(r) => bb[r] \in 1..blocks /\ r \in Roles
         /\ \A r, s : Had(r) /\ Had(s) /\ bb[r] = bb[s] => r = s
         /\ \A r : Owed(r) => Had(r) /\ bb[r] \notin terminated /\ bb[r] # insert
<1>1. StackOK /\ BlocksOK /\ HeldKnown /\ stack # <<>>
  BY HeldFacts DEF CgGood
<1>2. Depth \in 1..Depth /\ CgTop = stack[Depth] /\ bb = stack[Depth].bb
  BY <1>1, CgTopFacts DEF Depth, bb
<1>3. \A r : Had(r) => <<Depth, r>> \in DOMAIN held /\ held[<<Depth, r>>] = bb[r] /\ r \in Roles
  BY <1>1, <1>2 DEF Had, HeldKnown
<1>4. \A r : Owed(r) => <<Depth, r>> \in owed /\ Had(r)
  BY <1>1, <1>2 DEF Owed, Had, Holds, HeldKnown
<1>5. /\ \A h \in DOMAIN held : held[h] \in 1..blocks
      /\ \A g, h \in DOMAIN held : held[g] = held[h] => g = h
      /\ \A h \in owed : held[h] \notin terminated /\ held[h] # insert
  BY <1>1 DEF BlocksOK
<1> HIDE DEF held, owed
<1>6. ASSUME NEW r, NEW s, Had(r), Had(s), bb[r] = bb[s] PROVE r = s
  <2>1. <<Depth, r>> = <<Depth, s>>
    BY <1>3, <1>5, <1>6
  <2> QED
    BY <2>1
<1> QED
  BY <1>3, <1>4, <1>5, <1>6

\* Branches to new blocks and to blocks the running function holds, without a phi.
LEMMA PlainBranches ==
  ASSUME CgGood, blocks' \in Nat, blocks' >= blocks, NEW T,
         edges' = edges \cup {<<insert, t>> : t \in T},
         \A t \in T : t \in NewBlocks \/ \E r : Had(r) /\ bb[r] = t,
         T = {} \/ insert \in 1..blocks,
         Depth' >= Depth => ~IsMerging(stack'[Depth]),
         phis' = phis
  PROVE  PhisMove
<1>1. \A b \in NewBlocks \cup (1..blocks) : b \in 1..blocks'
  BY DEF NewBlocks, CgGood, BlocksOK
<1>2. T \in SUBSET (1..blocks')
  BY <1>1, RunningHolds
<1> QED
  BY <1>2 DEF PhisMove

\* The builder moves on to a block the running function owed, and appends none.
LEMMA MovesOn ==
  ASSUME CgGood, UNCHANGED ast, CgTop.fn \in Running3, StackMoves, blocks' = blocks,
         NEW role, Owed(role), insert' = bb[role],
         terminated' = terminated \/ terminated' = terminated \cup {insert},
         insert \in terminated', ~malformed',
         \A r : Keeps(r) => Had(r) /\ Kept(r) = bb[r],
         \A r : Owes(r) <=> Owed(r) /\ r # role
  PROVE  BlocksMove
<1>1. Inside /\ Inside' /\ blocks \in Nat
  BY Within, StaysInside
<1>2. NewBlocks = {}
  BY <1>1 DEF NewBlocks
<1>3. \A r : Owes(r) => Keeps(r)
  BY DEF Owes, Keeps, Holds
<1>4. insert' \notin terminated'
  BY RunningHolds
<1>5. Open'
  BY <1>4 DEF Open
<1>6. /\ \A r : Keeps(r) => (Had(r) /\ Kept(r) = bb[r]) \/ Kept(r) \in NewBlocks
      /\ \A r, s : Keeps(r) /\ Keeps(s) /\ Kept(r) = Kept(s) => r = s
  BY RunningHolds
<1>7. \A r : Owes(r) => ((Owed(r) /\ Kept(r) = bb[r]) \/ Kept(r) \in NewBlocks) /\ Kept(r) # insert'
  BY <1>3, RunningHolds
<1>8. \A r : Owed(r) => bb[r] = insert' \/ (Owes(r) /\ Kept(r) = bb[r])
  BY <1>3
<1>9. insert' = insert \/ insert' \in NewBlocks \/ \E r : Owed(r) /\ bb[r] = insert'
  OBVIOUS
<1>10. blocks' \in Nat /\ blocks' >= blocks /\ \A b \in NewBlocks : FALSE
  BY <1>1, <1>2
<1> QED
  BY <1>1, <1>5, <1>6, <1>7, <1>8, <1>9, <1>10 DEF BlocksMove

LEMMA BranchFacts ==
  ASSUME CgGood, Open, NEW targets, NEW new, NEW next, Branch(targets, new, next)
  PROVE  /\ blocks' = blocks + new /\ insert' = next
         /\ terminated' = terminated \cup {insert} /\ insert \in terminated'
         /\ edges' = edges \cup {<<insert, t>> : t \in targets}
         /\ ~malformed'
<1>1. ~malformed'
  <2>1. ~malformed
    BY DEF CgGood, BlocksOK
  <2> QED
    BY Zenon, <2>1 DEF Branch
<1> QED
  BY <1>1 DEF Branch

LEMMA BranchIfOpenFacts ==
  ASSUME CgGood, NEW emitted, NEW target, NEW next, BranchIfOpen(emitted, target, next),
         emitted = FALSE \/ Open
  PROVE  /\ blocks' = blocks /\ insert' = next
         /\ terminated' = terminated \/ terminated' = terminated \cup {insert}
         /\ insert \in terminated'
         /\ edges' = edges \cup {<<insert, t>> : t \in IF Open THEN {target} ELSE {}}
         /\ ~malformed'
<1>1. CASE Open
  <2>1. Branch({target}, 0, next)
    BY <1>1 DEF BranchIfOpen
  <2>2. blocks + 0 = blocks
    BY DEF CgGood, BlocksOK
  <2> QED
    BY <1>1, <2>1, <2>2, BranchFacts
<1>2. CASE ~Open
  <2>1. /\ insert' = next /\ malformed' = (malformed \/ emitted)
        /\ UNCHANGED <<blocks, terminated, edges>>
    BY <1>2 DEF BranchIfOpen
  <2>2. ~malformed
    BY DEF CgGood, BlocksOK
  <2>3. ~malformed'
    BY Zenon, <1>2, <2>1, <2>2
  <2> QED
    BY <1>2, <2>1, <2>3 DEF Open
<1> QED
  BY <1>1, <1>2

\* The children of the nodes whose code has blocks of its own.
LEMMA ControlKids ==
  ASSUME CgGood
  PROVE  /\ Kind(at) = "IF" => Arity(at) = 3 /\ Kind(CgKid(2)) \in StmtKinds
                               /\ Kind(CgKid(3)) \in StmtKinds \cup Null
         /\ Kind(at) = "WHILE" => Arity(at) = 2 /\ Kind(CgKid(1)) \in ExprKinds
                                  /\ Kind(CgKid(2)) \in StmtKinds
         /\ Kind(at) = "FOR" => Arity(at) = 4 /\ Kind(CgKid(1)) \in {"VAR_DECL", "EXPR_STMT"} \cup Null
                                /\ Kind(CgKid(2)) \in ExprKinds \cup Null
                                /\ Kind(CgKid(3)) \in ExprKinds \cup Null
                                /\ Kind(CgKid(4)) \in StmtKinds
         /\ Kind(at) = "BINARY" => Arity(at) = 2 /\ Kind(CgKid(2)) \in ExprKinds
<1>1. /\ HasArity(Kind(at), Arity(at))
      /\ \A i \in 1..Arity(at) : Kind(CgKid(i)) \in Slot(Kind(at), i) \ HoleKinds
  BY CgTopFacts, KidKinds DEF CgGood, CgKid
<1> USE DEF HasArity, Slot, IsStmtSlot, MayBeNull, ExprSlot, StmtSlot, HoleKinds
<1>2. CASE Kind(at) = "IF"
  <2>1. Arity(at) = 3 /\ 2 \in 1..3 /\ 3 \in 1..3
    BY <1>1, <1>2
  <2> QED
    BY <1>1, <1>2, <2>1
<1>3. CASE Kind(at) = "WHILE"
  <2>1. Arity(at) = 2 /\ 1 \in 1..2 /\ 2 \in 1..2
    BY <1>1, <1>3
  <2> QED
    BY <1>1, <1>3, <2>1
<1>4. CASE Kind(at) = "FOR"
  <2>1. Arity(at) = 4 /\ 1 \in 1..4 /\ 2 \in 1..4 /\ 3 \in 1..4 /\ 4 \in 1..4
    BY <1>1, <1>4
  <2> QED
    BY <1>1, <1>4, <2>1
<1>5. CASE Kind(at) = "BINARY"
  <2>1. Arity(at) = 2 /\ 1 \in 1..2 /\ 2 \in 1..2
    BY <1>1, <1>5
  <2> QED
    BY <1>1, <1>5, <2>1
<1> QED
  BY <1>2, <1>3, <1>4, <1>5

\* A call inside a function, as a move of the stack.
LEMMA InnerCall ==
  ASSUME CgGood, CgTop.fn \in Running3, NEW locals \in [Roles -> Nat], NEW fn \in {"stmt", "expr"},
         NEW i \in 1..Arity(at), CallWith(locals, fn, CgKid(i)), \A r \in Roles : locals[r] <= blocks',
         fn = "expr" => Kind(CgKid(i)) \in ExprKinds \cup Null,
         fn = "stmt" => \/ Kind(CgKid(i)) \in {"VAR_DECL", "EXPR_STMT"} \cup Null
                        \/ Kind(CgKid(i)) \in StmtKinds \cup Null /\ Tolerant(Resumed(locals))
  PROVE  /\ StackMoves /\ Depth' >= Depth
         /\ stack'[Depth].fn = CgTop.fn /\ stack'[Depth].node = at
         /\ stack'[Depth].next = CgTop.next + 1
         /\ \A r : Kept(r) = locals[r]
<1>1. at \in Nodes /\ AstTypeOK /\ phase = "codegen"
  BY CgTopFacts DEF CgGood
<1>2. CgKid(i) \in Nodes
  BY <1>1, KidKinds DEF CgKid
<1>3. Depth \in Nat /\ Depth >= 3 /\ CgTop.fn # "define"
  BY Within DEF Running3
<1>4. fn \in FnNames \ {"module"} /\ fn \notin {"define", "global"}
  BY DEF FnNames
<1>5. ~IsNull(CgKid(i)) =>
        /\ Kind(CgKid(i)) \in KindsOf(fn)
        /\ fn # "stmt" \/ Kind(CgKid(i)) \in {"VAR_DECL", "EXPR_STMT"} \/ Tolerant(Resumed(locals))
  BY DEF KindsOf, IsNull, Null, StmtKinds
<1> QED
  BY <1>2, <1>3, <1>4, <1>5, CallMoves

LEMMA OwnBlocks ==
  ASSUME CgGood, blocks' = blocks
  PROVE  bb \in [Roles -> Nat] /\ \A r \in Roles : bb[r] <= blocks'
<1>1. FrameOK(CgTop) /\ bb \in [Roles -> Nat]
  BY CgTopFacts DEF CgGood
<1> QED
  BY <1>1 DEF FrameOK, bb

LEMMA IfMoves ==
  ASSUME CgGood, UNCHANGED ast, CgIfElse \/ CgIfEnd
  PROVE  Moves
<1>1. CASE CgIfElse
  <2>1. /\ CgTop.fn = "stmt" /\ Kind(at) = "IF" /\ CgTop.next = 3 /\ ~IsNull(CgKid(3))
        /\ BranchIfOpen(FALSE, bb["end"], bb["else"]) /\ CallWith(bb, "stmt", CgKid(3)) /\ phis' = phis
    BY <1>1 DEF CgIfElse, Step, HasElse, CallFn, rest
  <2>2. CgTop.fn \in Running3
    BY <2>1 DEF Running3
  <2>3. /\ blocks' = blocks /\ insert' = bb["else"] /\ insert \in terminated' /\ ~malformed'
        /\ terminated' = terminated \/ terminated' = terminated \cup {insert}
        /\ edges' = edges \cup {<<insert, t>> : t \in IF Open THEN {bb["end"]} ELSE {}}
    BY <2>1, BranchIfOpenFacts
  <2>4. Tolerant(Resumed(bb))
    <3>1. Resumed(bb).fn = "stmt" /\ Resumed(bb).node = at /\ Resumed(bb).next = 4
      BY <2>1, <2>3, OwnBlocks, ResumedFields DEF CgGood
    <3> QED
      BY <2>1, <3>1 DEF Tolerant
  <2>5. /\ StackMoves /\ Depth' >= Depth
        /\ stack'[Depth].fn = "stmt" /\ stack'[Depth].node = at /\ stack'[Depth].next = 4
        /\ \A r : Kept(r) = bb[r]
    <3>1. 3 \in 1..Arity(at) /\ Kind(CgKid(3)) \in StmtKinds \cup Null
      BY <2>1, ControlKids
    <3> QED
      BY <2>1, <2>2, <2>3, <2>4, <3>1, OwnBlocks, InnerCall
  <2>6. \A r : (Had(r) <=> r \in {"end", "else"}) /\ (Owed(r) <=> r \in {"end", "else"})
    BY <2>1 DEF Had, Owed, Holds, Waits, Loops, IsMerging, at, CgKid, Roles
  <2>7. \A r : (Keeps(r) <=> r = "end") /\ (Owes(r) <=> r = "end")
    BY <2>1, <2>5 DEF Keeps, Owes, Holds, Waits, Loops, IsMerging, Roles
  <2>8. BlocksMove
    BY <2>2, <2>3, <2>5, <2>6, <2>7, MovesOn
  <2>9. PhisMove
    <3>1. ~IsMerging(stack'[Depth])
      BY <2>5 DEF IsMerging
    <3>2. blocks \in Nat /\ blocks' >= blocks /\ insert \in 1..blocks
      BY <2>2, <2>3, Within
    <3> DEFINE T == IF Open THEN {bb["end"]} ELSE {}
    <3>3. \A t \in T : \E r : Had(r) /\ bb[r] = t
      BY <2>6
    <3>4. edges' = edges \cup {<<insert, t>> : t \in T} /\ phis' = phis /\ blocks' \in Nat
      BY <2>1, <2>3, <3>2
    <3> HIDE DEF T
    <3> QED
      BY <2>3, <3>1, <3>2, <3>3, <3>4, PlainBranches
  <2> QED
    BY <2>5, <2>8, <2>9 DEF Moves
<1>2. CASE CgIfEnd
  <2>1. /\ CgTop.fn = "stmt" /\ Kind(at) = "IF" /\ CgTop.next = IF IsNull(CgKid(3)) THEN 3 ELSE 4
        /\ BranchIfOpen(FALSE, bb["end"], bb["end"]) /\ CgReturn /\ phis' = phis
    BY <1>2 DEF CgIfEnd, Step, HasElse, rest
  <2>2. CgTop.fn \in Running3
    BY <2>1 DEF Running3
  <2>3. /\ blocks' = blocks /\ insert' = bb["end"] /\ insert \in terminated' /\ ~malformed'
        /\ terminated' = terminated \/ terminated' = terminated \cup {insert}
        /\ edges' = edges \cup {<<insert, t>> : t \in IF Open THEN {bb["end"]} ELSE {}}
    BY <2>1, BranchIfOpenFacts
  <2>4. StackMoves /\ ~(Depth' >= Depth)
    <3>1. StackMoves /\ Depth' < Depth /\ Depth' \in Nat /\ Depth \in Nat
      BY <2>1, <2>2, ReturnMoves, Within
    <3> QED
      BY <3>1
  <2>5. \A r : (Had(r) <=> r = "end") /\ (Owed(r) <=> r = "end")
    BY <2>1 DEF Had, Owed, Holds, Waits, Loops, IsMerging, at, CgKid, Roles
  <2>6. \A r : ~Keeps(r) /\ ~Owes(r)
    BY <2>4 DEF Keeps, Owes
  <2>7. BlocksMove
    BY <2>2, <2>3, <2>4, <2>5, <2>6, MovesOn
  <2>8. PhisMove
    <3>1. blocks \in Nat /\ blocks' >= blocks /\ insert \in 1..blocks
      BY <2>2, <2>3, Within
    <3> QED
      BY <2>1, <2>3, <2>4, <2>5, <3>1, PlainBranches
  <2> QED
    BY <2>4, <2>7, <2>8 DEF Moves
<1> QED
  BY <1>1, <1>2

LEMMA WhileMoves ==
  ASSUME CgGood, UNCHANGED ast, CgWhileBody \/ CgWhileEnd
  PROVE  Moves
<1>1. CASE CgWhileBody
  <2>1. /\ CgTop.fn = "stmt" /\ Kind(at) = "WHILE" /\ CgTop.next = 2
        /\ Branch({bb["body"], bb["end"]}, 0, bb["body"]) /\ CallWith(bb, "stmt", CgKid(2)) /\ phis' = phis
    BY <1>1 DEF CgWhileBody, Step, CallFn, rest
  <2>2. CgTop.fn \in Running3 /\ Open
    BY <2>1, Within DEF Running3, Tolerant, at
  <2>3. /\ blocks' = blocks /\ insert' = bb["body"] /\ insert \in terminated' /\ ~malformed'
        /\ terminated' = terminated \cup {insert}
        /\ edges' = edges \cup {<<insert, t>> : t \in {bb["body"], bb["end"]}}
    <3>1. blocks + 0 = blocks
      BY DEF CgGood, BlocksOK
    <3> QED
      BY <2>1, <2>2, <3>1, BranchFacts
  <2>4. Tolerant(Resumed(bb))
    <3>1. Resumed(bb).fn = "stmt" /\ Resumed(bb).node = at /\ Resumed(bb).next = 3
      BY <2>1, <2>3, OwnBlocks, ResumedFields DEF CgGood
    <3> QED
      BY <2>1, <3>1 DEF Tolerant
  <2>5. /\ StackMoves /\ Depth' >= Depth
        /\ stack'[Depth].fn = "stmt" /\ stack'[Depth].node = at /\ stack'[Depth].next = 3
        /\ \A r : Kept(r) = bb[r]
    <3>1. 2 \in 1..Arity(at) /\ Kind(CgKid(2)) \in StmtKinds \cup Null
      BY <2>1, ControlKids
    <3> QED
      BY <2>1, <2>2, <2>3, <2>4, <3>1, OwnBlocks, InnerCall
  <2>6. \A r : (Had(r) <=> r \in {"end", "body", "cond"}) /\ (Owed(r) <=> r \in {"end", "body"})
    BY <2>1 DEF Had, Owed, Holds, Waits, Loops, IsMerging, at, Roles
  <2>7. \A r : (Keeps(r) <=> r \in {"end", "cond"}) /\ (Owes(r) <=> r = "end")
    BY <2>1, <2>5 DEF Keeps, Owes, Holds, Waits, Loops, IsMerging, Roles
  <2>8. BlocksMove
    BY <2>2, <2>3, <2>5, <2>6, <2>7, MovesOn
  <2>9. PhisMove
    <3>1. ~IsMerging(stack'[Depth])
      BY <2>5 DEF IsMerging
    <3>2. blocks \in Nat /\ blocks' >= blocks /\ insert \in 1..blocks
      BY <2>2, <2>3, Within
    <3> QED
      BY <2>1, <2>3, <2>6, <3>1, <3>2, PlainBranches
  <2> QED
    BY <2>5, <2>8, <2>9 DEF Moves
<1>2. CASE CgWhileEnd
  <2>1. /\ CgTop.fn = "stmt" /\ Kind(at) = "WHILE" /\ CgTop.next = 3
        /\ BranchIfOpen(FALSE, bb["cond"], bb["end"]) /\ CgReturn /\ phis' = phis
    BY <1>2 DEF CgWhileEnd, Step, rest
  <2>2. CgTop.fn \in Running3
    BY <2>1 DEF Running3
  <2>3. /\ blocks' = blocks /\ insert' = bb["end"] /\ insert \in terminated' /\ ~malformed'
        /\ terminated' = terminated \/ terminated' = terminated \cup {insert}
        /\ edges' = edges \cup {<<insert, t>> : t \in IF Open THEN {bb["cond"]} ELSE {}}
    BY <2>1, BranchIfOpenFacts
  <2>4. StackMoves /\ ~(Depth' >= Depth)
    <3>1. StackMoves /\ Depth' < Depth /\ Depth' \in Nat /\ Depth \in Nat
      BY <2>1, <2>2, ReturnMoves, Within
    <3> QED
      BY <3>1
  <2>5. \A r : (Had(r) <=> r \in {"end", "cond"}) /\ (Owed(r) <=> r = "end")
    BY <2>1 DEF Had, Owed, Holds, Waits, Loops, IsMerging, at, Roles
  <2>6. \A r : ~Keeps(r) /\ ~Owes(r)
    BY <2>4 DEF Keeps, Owes
  <2>7. BlocksMove
    BY <2>2, <2>3, <2>4, <2>5, <2>6, MovesOn
  <2>8. PhisMove
    <3>1. blocks \in Nat /\ blocks' >= blocks /\ insert \in 1..blocks
      BY <2>2, <2>3, Within
    <3> DEFINE T == IF Open THEN {bb["cond"]} ELSE {}
    <3>2. \A t \in T : \E r : Had(r) /\ bb[r] = t
      BY <2>5
    <3>3. edges' = edges \cup {<<insert, t>> : t \in T} /\ phis' = phis /\ blocks' \in Nat
      BY <2>1, <2>3, <3>1
    <3> HIDE DEF T
    <3> QED
      BY <2>3, <3>1, <3>2, <3>3, <2>4, PlainBranches
  <2> QED
    BY <2>4, <2>7, <2>8 DEF Moves
<1> QED
  BY <1>1, <1>2

LEMMA ForMoves ==
  ASSUME CgGood, UNCHANGED ast, CgForCond \/ CgForBody \/ CgForPost \/ CgForEnd
  PROVE  Moves
<1>1. CASE CgForCond
  <2>1. /\ CgTop.fn = "stmt" /\ Kind(at) = "FOR" /\ CgTop.next = 2
        /\ Branch({bb["cond"]}, 0, bb["cond"]) /\ CallWith(bb, "expr", CgKid(2)) /\ phis' = phis
    BY <1>1 DEF CgForCond, Step, CallFn, rest
  <2>2. CgTop.fn \in Running3 /\ Open
    BY <2>1, Within DEF Running3, Tolerant, at
  <2>3. /\ blocks' = blocks /\ insert' = bb["cond"] /\ insert \in terminated' /\ ~malformed'
        /\ terminated' = terminated \cup {insert}
        /\ edges' = edges \cup {<<insert, t>> : t \in {bb["cond"]}}
    <3>1. blocks + 0 = blocks
      BY DEF CgGood, BlocksOK
    <3> QED
      BY <2>1, <2>2, <3>1, BranchFacts
  <2>5. /\ StackMoves /\ Depth' >= Depth
        /\ stack'[Depth].fn = "stmt" /\ stack'[Depth].node = at /\ stack'[Depth].next = 3
        /\ \A r : Kept(r) = bb[r]
    <3>1. 2 \in 1..Arity(at) /\ Kind(CgKid(2)) \in ExprKinds \cup Null
      BY <2>1, ControlKids
    <3> QED
      BY <2>1, <2>2, <2>3, <3>1, OwnBlocks, InnerCall
  <2>6. \A r : /\ Had(r) <=> r \in {"end", "post", "body", "cond"}
               /\ Owed(r) <=> r \in {"end", "post", "body", "cond"}
    BY <2>1 DEF Had, Owed, Holds, Waits, Loops, IsMerging, at, Roles
  <2>7. \A r : /\ Keeps(r) <=> r \in {"end", "post", "body", "cond"}
               /\ Owes(r) <=> r \in {"end", "post", "body"}
    BY <2>1, <2>5 DEF Keeps, Owes, Holds, Waits, Loops, IsMerging, Roles
  <2>8. BlocksMove
    BY <2>2, <2>3, <2>5, <2>6, <2>7, MovesOn
  <2>9. PhisMove
    <3>1. ~IsMerging(stack'[Depth])
      BY <2>5 DEF IsMerging
    <3>2. blocks \in Nat /\ blocks' >= blocks /\ insert \in 1..blocks
      BY <2>2, <2>3, Within
    <3> QED
      BY <2>1, <2>3, <2>6, <3>1, <3>2, PlainBranches
  <2> QED
    BY <2>5, <2>8, <2>9 DEF Moves
<1>2. CASE CgForBody
  <2> DEFINE T == IF IsNull(CgKid(2)) THEN {bb["body"]} ELSE {bb["body"], bb["end"]}
  <2>1. /\ CgTop.fn = "stmt" /\ Kind(at) = "FOR" /\ CgTop.next = 3
        /\ Branch(T, 0, bb["body"]) /\ CallWith(bb, "stmt", CgKid(4)) /\ phis' = phis
    BY <1>2 DEF CgForBody, Step, CallFn, rest
  <2>2. CgTop.fn \in Running3 /\ Open
    BY <2>1, Within DEF Running3, Tolerant, at
  <2>3. /\ blocks' = blocks /\ insert' = bb["body"] /\ insert \in terminated' /\ ~malformed'
        /\ terminated' = terminated \cup {insert}
        /\ edges' = edges \cup {<<insert, t>> : t \in T}
    <3>1. blocks + 0 = blocks
      BY DEF CgGood, BlocksOK
    <3> QED
      BY <2>1, <2>2, <3>1, BranchFacts
  <2>4. Tolerant(Resumed(bb))
    <3>1. Resumed(bb).fn = "stmt" /\ Resumed(bb).node = at /\ Resumed(bb).next = 4
      BY <2>1, <2>3, OwnBlocks, ResumedFields DEF CgGood
    <3> QED
      BY <2>1, <3>1 DEF Tolerant
  <2>5. /\ StackMoves /\ Depth' >= Depth
        /\ stack'[Depth].fn = "stmt" /\ stack'[Depth].node = at /\ stack'[Depth].next = 4
        /\ \A r : Kept(r) = bb[r]
    <3>1. 4 \in 1..Arity(at) /\ Kind(CgKid(4)) \in StmtKinds \cup Null
      BY <2>1, ControlKids
    <3> QED
      BY <2>1, <2>2, <2>3, <2>4, <3>1, OwnBlocks, InnerCall
  <2>6. \A r : /\ Had(r) <=> r \in {"end", "post", "body", "cond"}
               /\ Owed(r) <=> r \in {"end", "post", "body"}
    BY <2>1 DEF Had, Owed, Holds, Waits, Loops, IsMerging, at, Roles
  <2>7. \A r : (Keeps(r) <=> r \in {"end", "post", "cond"}) /\ (Owes(r) <=> r \in {"end", "post"})
    BY <2>1, <2>5 DEF Keeps, Owes, Holds, Waits, Loops, IsMerging, Roles
  <2>8. BlocksMove
    BY <2>2, <2>3, <2>5, <2>6, <2>7, MovesOn
  <2>9. PhisMove
    <3>1. ~IsMerging(stack'[Depth])
      BY <2>5 DEF IsMerging
    <3>2. blocks \in Nat /\ blocks' >= blocks /\ insert \in 1..blocks
      BY <2>2, <2>3, Within
    <3>3. \A t \in T : \E r : Had(r) /\ bb[r] = t
      BY <2>6
    <3> QED
      <4>1. edges' = edges \cup {<<insert, t>> : t \in T}
        BY <2>3
      <4>2. phis' = phis /\ blocks' \in Nat
        BY <2>1, <2>3, <3>2
      <4> HIDE DEF T
      <4> QED
        BY <3>1, <3>2, <3>3, <4>1, <4>2, PlainBranches
  <2> QED
    BY <2>5, <2>8, <2>9 DEF Moves
<1>3. CASE CgForPost
  <2>1. /\ CgTop.fn = "stmt" /\ Kind(at) = "FOR" /\ CgTop.next = 4
        /\ BranchIfOpen(FALSE, bb["post"], bb["post"]) /\ CallWith(bb, "expr", CgKid(3)) /\ phis' = phis
    BY <1>3 DEF CgForPost, Step, CallFn, rest
  <2>2. CgTop.fn \in Running3
    BY <2>1 DEF Running3
  <2>3. /\ blocks' = blocks /\ insert' = bb["post"] /\ insert \in terminated' /\ ~malformed'
        /\ terminated' = terminated \/ terminated' = terminated \cup {insert}
        /\ edges' = edges \cup {<<insert, t>> : t \in IF Open THEN {bb["post"]} ELSE {}}
    BY <2>1, BranchIfOpenFacts
  <2>5. /\ StackMoves /\ Depth' >= Depth
        /\ stack'[Depth].fn = "stmt" /\ stack'[Depth].node = at /\ stack'[Depth].next = 5
        /\ \A r : Kept(r) = bb[r]
    <3>1. 3 \in 1..Arity(at) /\ Kind(CgKid(3)) \in ExprKinds \cup Null
      BY <2>1, ControlKids
    <3> QED
      BY <2>1, <2>2, <2>3, <3>1, OwnBlocks, InnerCall
  <2>6. \A r : (Had(r) <=> r \in {"end", "post", "cond"}) /\ (Owed(r) <=> r \in {"end", "post"})
    BY <2>1 DEF Had, Owed, Holds, Waits, Loops, IsMerging, at, Roles
  <2>7. \A r : (Keeps(r) <=> r \in {"end", "cond"}) /\ (Owes(r) <=> r = "end")
    BY <2>1, <2>5 DEF Keeps, Owes, Holds, Waits, Loops, IsMerging, Roles
  <2>8. BlocksMove
    BY <2>2, <2>3, <2>5, <2>6, <2>7, MovesOn
  <2>9. PhisMove
    <3>1. ~IsMerging(stack'[Depth])
      BY <2>5 DEF IsMerging
    <3>2. blocks \in Nat /\ blocks' >= blocks /\ insert \in 1..blocks
      BY <2>2, <2>3, Within
    <3>3. \A t \in IF Open THEN {bb["post"]} ELSE {} : \E r : Had(r) /\ bb[r] = t
      BY <2>6
    <3> QED
      BY <2>1, <2>3, <3>1, <3>2, <3>3, PlainBranches
  <2> QED
    BY <2>5, <2>8, <2>9 DEF Moves
<1>4. CASE CgForEnd
  <2>1. /\ CgTop.fn = "stmt" /\ Kind(at) = "FOR" /\ CgTop.next = 5
        /\ BranchIfOpen(FALSE, bb["cond"], bb["end"]) /\ CgReturn /\ phis' = phis
    BY <1>4 DEF CgForEnd, Step, rest
  <2>2. CgTop.fn \in Running3
    BY <2>1 DEF Running3
  <2>3. /\ blocks' = blocks /\ insert' = bb["end"] /\ insert \in terminated' /\ ~malformed'
        /\ terminated' = terminated \/ terminated' = terminated \cup {insert}
        /\ edges' = edges \cup {<<insert, t>> : t \in IF Open THEN {bb["cond"]} ELSE {}}
    BY <2>1, BranchIfOpenFacts
  <2>4. StackMoves /\ ~(Depth' >= Depth)
    <3>1. StackMoves /\ Depth' < Depth /\ Depth' \in Nat /\ Depth \in Nat
      BY <2>1, <2>2, ReturnMoves, Within
    <3> QED
      BY <3>1
  <2>5. \A r : (Had(r) <=> r \in {"end", "cond"}) /\ (Owed(r) <=> r = "end")
    BY <2>1 DEF Had, Owed, Holds, Waits, Loops, IsMerging, at, Roles
  <2>6. \A r : ~Keeps(r) /\ ~Owes(r)
    BY <2>4 DEF Keeps, Owes
  <2>7. BlocksMove
    BY <2>2, <2>3, <2>4, <2>5, <2>6, MovesOn
  <2>8. PhisMove
    <3>1. blocks \in Nat /\ blocks' >= blocks /\ insert \in 1..blocks
      BY <2>2, <2>3, Within
    <3> DEFINE T == IF Open THEN {bb["cond"]} ELSE {}
    <3>2. \A t \in T : \E r : Had(r) /\ bb[r] = t
      BY <2>5
    <3>3. edges' = edges \cup {<<insert, t>> : t \in T} /\ phis' = phis /\ blocks' \in Nat
      BY <2>1, <2>3, <3>1
    <3> HIDE DEF T
    <3> QED
      BY <2>3, <3>1, <3>2, <3>3, <2>4, PlainBranches
  <2> QED
    BY <2>4, <2>7, <2>8 DEF Moves
<1> QED
  BY <1>1, <1>2, <1>3, <1>4

\* && and || end: the phi is added to the block their two branches meet in.
LEMMA LogicalMergeMoves ==
  ASSUME CgGood, UNCHANGED ast, CgLogicalMerge
  PROVE  Moves
<1>1. /\ CgTop.fn = "expr" /\ Kind(at) = "BINARY" /\ CgTop.next = 3 /\ ast[at].op \in Logical
      /\ BranchIfOpen(TRUE, bb["end"], bb["end"]) /\ CgReturn
      /\ phis' = phis \cup {[at |-> bb["end"], from |-> {bb["lhs"], insert}]}
  BY DEF CgLogicalMerge, Step, IsLogical, Give, Incoming
<1>2. CgTop.fn \in Running3 /\ Open
  BY <1>1, Within DEF Running3, Tolerant
<1>3. /\ blocks' = blocks /\ insert' = bb["end"] /\ insert \in terminated' /\ ~malformed'
      /\ terminated' = terminated \/ terminated' = terminated \cup {insert}
      /\ edges' = edges \cup {<<insert, t>> : t \in {bb["end"]}}
  BY <1>1, <1>2, BranchIfOpenFacts
<1>4. StackMoves /\ Depth' < Depth /\ Depth' \in Nat /\ Depth \in Nat
  BY <1>1, <1>2, ReturnMoves, Within
<1>5. IsMerging(CgTop) /\ \A r : (Had(r) <=> r = "end") /\ (Owed(r) <=> r = "end")
  BY <1>1 DEF Had, Owed, Holds, Waits, Loops, IsMerging, at, Roles
<1>6. ~(Depth' >= Depth) /\ \A r : ~Keeps(r) /\ ~Owes(r)
  BY <1>4 DEF Keeps, Owes
<1>7. BlocksMove
  BY <1>2, <1>3, <1>4, <1>5, <1>6, MovesOn
<1>8. PhisMove
  <2> DEFINE T == {bb["end"]}
  <2>1. insert \in 1..blocks /\ T \in SUBSET (1..blocks')
    BY <1>2, <1>3, <1>5, Within, RunningHolds
  <2>2. \A t \in T : \E r : Had(r) /\ bb[r] = t
    BY <1>5
  <2> QED
    BY <1>1, <1>3, <1>4, <1>5, <1>6, <2>1, <2>2 DEF PhisMove
<1> QED
  BY <1>4, <1>7, <1>8 DEF Moves

\* The running function appends blocks of its own; it owed none.
LEMMA Appends ==
  ASSUME CgGood, UNCHANGED ast, CgTop.fn \in Running3, StackMoves, Open,
         NEW k \in Nat, blocks' = blocks + k, \A r : ~Owed(r), ~malformed',
         \/ insert' = insert /\ terminated' = terminated
         \/ insert' \in NewBlocks /\ terminated' = terminated \cup {insert},
         \A r : Keeps(r) => Kept(r) \in NewBlocks,
         \A r, s : Keeps(r) /\ Keeps(s) /\ Kept(r) = Kept(s) => r = s,
         \A r : Owes(r) => Kept(r) # insert',
         \A b \in NewBlocks : b = insert' \/ \E r : Owes(r) /\ Kept(r) = b
  PROVE  BlocksMove
<1>1. Inside /\ Inside' /\ blocks \in Nat /\ insert \in 1..blocks /\ terminated \subseteq 1..blocks
  BY Within, StaysInside DEF CgGood, BlocksOK
<1>2. \A b \in NewBlocks : b \notin 1..blocks
  BY <1>1 DEF NewBlocks
<1>3. Open'
  <2>1. CASE insert' = insert /\ terminated' = terminated
    BY <2>1 DEF Open
  <2>2. CASE insert' \in NewBlocks /\ terminated' = terminated \cup {insert}
    <3>1. insert' \notin terminated'
      BY <1>1, <1>2, <2>2
    <3> QED
      BY <3>1 DEF Open
  <2> QED
    BY <2>1, <2>2
<1>4. \A r : Owes(r) => Keeps(r)
  BY DEF Owes, Keeps, Holds
<1>5. blocks' \in Nat /\ blocks' >= blocks
  BY <1>1
<1>6. \A r : Owes(r) => ((Owed(r) /\ Kept(r) = bb[r]) \/ Kept(r) \in NewBlocks) /\ Kept(r) # insert'
  BY <1>4
<1> QED
  BY <1>1, <1>3, <1>5, <1>6 DEF BlocksMove

\* The blocks a function appends when it sets up its own.
LEMMA FreshBlocks ==
  ASSUME CgGood, NEW k \in 1..4, blocks' = blocks + k
  PROVE  /\ blocks \in Nat /\ blocks' \in Nat /\ blocks' >= blocks
         /\ \A i \in 1..k : New(i) \in NewBlocks /\ New(i) \in Nat /\ New(i) <= blocks'
         /\ \A b \in NewBlocks : \E i \in 1..k : b = New(i)
         /\ \A i, j \in 1..k : New(i) = New(j) => i = j
<1>1. blocks \in Nat
  BY DEF CgGood, BlocksOK
<1>2. ASSUME NEW b \in NewBlocks PROVE \E i \in 1..k : b = New(i)
  <2>1. b - blocks \in 1..k /\ b = New(b - blocks)
    BY <1>1 DEF NewBlocks, New
  <2> QED
    BY <2>1
<1> QED
  BY <1>1, <1>2 DEF NewBlocks, New

\* The local blocks of a function that has set up its own.
LogicalBlocksOf(a, b, c) == [NoBlocks EXCEPT !.body = a, !.end = b, !.lhs = c]
IfElseBlocksOf(a, b, c) == [NoBlocks EXCEPT !.then = a, !.else = b, !.end = c]
IfBlocksOf(a, b) == [NoBlocks EXCEPT !.then = a, !.end = b]
WhileBlocksOf(a, b, c) == [NoBlocks EXCEPT !.cond = a, !.body = b, !.end = c]
ForBlocksOf(a, b, c, d) == [NoBlocks EXCEPT !.cond = a, !.body = b, !.post = c, !.end = d]

LEMMA LogicalLocals ==
  ASSUME NEW f, f = LogicalBlocksOf(New(1), New(2), insert), New(1) \in Nat, New(2) \in Nat, insert \in Nat
  PROVE  /\ f \in [Roles -> Nat]
         /\ f["end"] = New(2) /\ f["lhs"] = insert
         /\ \A r \in Roles : f[r] \in {0, New(1), New(2), insert}
  BY DEF NoBlocks, Roles, LogicalBlocksOf

LEMMA IfElseLocals ==
  ASSUME NEW f, f = IfElseBlocksOf(New(1), New(2), New(3)), New(1) \in Nat, New(2) \in Nat, New(3) \in Nat
  PROVE  /\ f \in [Roles -> Nat]
         /\ f["else"] = New(2) /\ f["end"] = New(3)
         /\ \A r \in Roles : f[r] \in {0, New(1), New(2), New(3)}
  BY DEF NoBlocks, Roles, IfElseBlocksOf

LEMMA IfLocals ==
  ASSUME NEW f, f = IfBlocksOf(New(1), New(2)), New(1) \in Nat, New(2) \in Nat
  PROVE  /\ f \in [Roles -> Nat]
         /\ f["end"] = New(2)
         /\ \A r \in Roles : f[r] \in {0, New(1), New(2)}
  BY DEF NoBlocks, Roles, IfBlocksOf

LEMMA WhileLocals ==
  ASSUME NEW f, f = WhileBlocksOf(New(1), New(2), New(3)), New(1) \in Nat, New(2) \in Nat, New(3) \in Nat
  PROVE  /\ f \in [Roles -> Nat]
         /\ f["cond"] = New(1) /\ f["body"] = New(2) /\ f["end"] = New(3)
         /\ \A r \in Roles : f[r] \in {0, New(1), New(2), New(3)}
  BY DEF NoBlocks, Roles, WhileBlocksOf

LEMMA ForLocals ==
  ASSUME NEW f, f = ForBlocksOf(New(1), New(2), New(3), New(4)), New(1) \in Nat, New(2) \in Nat, New(3) \in Nat, New(4) \in Nat
  PROVE  /\ f \in [Roles -> Nat]
         /\ f["cond"] = New(1) /\ f["body"] = New(2) /\ f["post"] = New(3) /\ f["end"] = New(4)
         /\ \A r \in Roles : f[r] \in {0, New(1), New(2), New(3), New(4)}
  BY DEF NoBlocks, Roles, ForBlocksOf

LEMMA LogicalTestMoves ==
  ASSUME CgGood, UNCHANGED ast, CgLogicalTest
  PROVE  Moves
<1> DEFINE locals == [NoBlocks EXCEPT !.body = New(1), !.end = New(2), !.lhs = insert]
<1>1. /\ CgTop.fn = "expr" /\ Kind(at) = "BINARY" /\ CgTop.next = 2 /\ ast[at].op \in Logical
      /\ Branch({New(1), New(2)}, 2, New(1)) /\ CallWith(locals, "expr", CgKid(2)) /\ phis' = phis
  BY DEF CgLogicalTest, Step, IsLogical, rest
<1>2. CgTop.fn \in Running3 /\ Open /\ insert \in 1..blocks
  BY <1>1, Within DEF Running3, Tolerant
<1>3. /\ blocks' = blocks + 2 /\ insert' = New(1) /\ insert \in terminated' /\ ~malformed'
      /\ terminated' = terminated \cup {insert}
      /\ edges' = edges \cup {<<insert, t>> : t \in {New(1), New(2)}}
  BY <1>1, <1>2, BranchFacts
<1>4. /\ blocks \in Nat /\ blocks' \in Nat /\ blocks' >= blocks
      /\ New(1) \in NewBlocks /\ New(2) \in NewBlocks /\ New(1) # New(2)
      /\ \A b \in NewBlocks : b = New(1) \/ b = New(2)
  BY <1>3, FreshBlocks
<1>5. /\ locals \in [Roles -> Nat] /\ locals["end"] = New(2) /\ locals["lhs"] = insert
      /\ \A r \in Roles : locals[r] <= blocks'
  <2>1. insert \in Nat /\ insert <= blocks' /\ 0 <= blocks'
    BY <1>2, <1>4
  <2>2. New(1) \in Nat /\ New(2) \in Nat /\ New(1) <= blocks' /\ New(2) <= blocks'
    BY <1>3, FreshBlocks
  <2>3. locals = LogicalBlocksOf(New(1), New(2), insert)
    BY DEF LogicalBlocksOf
  <2> HIDE DEF locals
  <2>4. /\ locals \in [Roles -> Nat] /\ locals["end"] = New(2) /\ locals["lhs"] = insert
        /\ \A r \in Roles : locals[r] \in {0, New(1), New(2), insert}
    BY <2>1, <2>2, <2>3, LogicalLocals
  <2> QED
    BY <1>4, <2>1, <2>2, <2>4
<1> HIDE DEF locals
<1>6. /\ StackMoves /\ Depth' >= Depth
      /\ stack'[Depth].fn = "expr" /\ stack'[Depth].node = at /\ stack'[Depth].next = 3
      /\ \A r : Kept(r) = locals[r]
  <2>1. 2 \in 1..Arity(at) /\ Kind(CgKid(2)) \in ExprKinds \cup Null
    BY <1>1, ControlKids
  <2> QED
    BY <1>1, <1>2, <1>5, <2>1, InnerCall
<1>7. \A r : ~Owed(r)
  BY <1>1 DEF Owed, Waits, IsMerging
<1>8. \A r : (Keeps(r) <=> r = "end") /\ (Owes(r) <=> r = "end")
  BY <1>1, <1>6 DEF Keeps, Owes, Holds, Waits, Loops, IsMerging, Roles
<1>9. BlocksMove
  BY <1>2, <1>3, <1>4, <1>5, <1>6, <1>7, <1>8, Appends
<1>10. PhisMove
  <2> DEFINE T == {New(1), New(2)}
  <2>1. T \in SUBSET (1..blocks')
    BY <1>4 DEF NewBlocks
  <2>2. Kept("end") \in T \cap NewBlocks /\ Kept("lhs") = insert
    BY <1>4, <1>5, <1>6
  <2> QED
    BY <1>1, <1>2, <1>3, <1>4, <2>1, <2>2 DEF PhisMove
<1> QED
  BY <1>6, <1>9, <1>10 DEF Moves

LEMMA IfThenMoves ==
  ASSUME CgGood, UNCHANGED ast, CgIfThen
  PROVE  Moves
<1> DEFINE k == IF HasElse THEN 3 ELSE 2
           locals == IF HasElse
                     THEN [NoBlocks EXCEPT !.then = New(1), !.else = New(2), !.end = New(3)]
                     ELSE [NoBlocks EXCEPT !.then = New(1), !.end = New(2)]
<1>1. /\ CgTop.fn = "stmt" /\ Kind(at) = "IF" /\ CgTop.next = 2
      /\ Branch({New(1), New(2)}, k, New(1)) /\ CallWith(locals, "stmt", CgKid(2)) /\ phis' = phis
  BY DEF CgIfThen, Step, rest
<1>2. CgTop.fn \in Running3 /\ Open /\ insert \in 1..blocks
  BY <1>1, Within DEF Running3, Tolerant, at
<1>3. /\ blocks' = blocks + k /\ insert' = New(1) /\ insert \in terminated' /\ ~malformed'
      /\ terminated' = terminated \cup {insert}
      /\ edges' = edges \cup {<<insert, t>> : t \in {New(1), New(2)}}
  BY <1>1, <1>2, BranchFacts
<1>k. k \in 1..4 /\ k \in Nat /\ 1 \in 1..k /\ 2 \in 1..k /\ (HasElse => 3 \in 1..k)
  OBVIOUS
<1>4. /\ blocks \in Nat /\ blocks' \in Nat /\ blocks' >= blocks
      /\ New(1) \in NewBlocks /\ New(2) \in NewBlocks /\ New(1) # New(2)
      /\ HasElse => New(3) \in NewBlocks /\ New(3) # New(1) /\ New(3) # New(2)
      /\ \A b \in NewBlocks : b = New(1) \/ b = New(2) \/ (HasElse /\ b = New(3))
  <2>1. \A i \in 1..k : i = 1 \/ i = 2 \/ (HasElse /\ i = 3)
    OBVIOUS
  <2> HIDE DEF k
  <2> QED
    BY <1>3, <1>k, <2>1, FreshBlocks
<1>5. /\ locals \in [Roles -> Nat] /\ \A r \in Roles : locals[r] <= blocks'
      /\ HasElse => locals["end"] = New(3) /\ locals["else"] = New(2)
      /\ ~HasElse => locals["end"] = New(2)
  <2>1. /\ New(1) \in Nat /\ New(2) \in Nat /\ New(1) <= blocks' /\ New(2) <= blocks' /\ 0 <= blocks'
        /\ HasElse => New(3) \in Nat /\ New(3) <= blocks'
    <3> HIDE DEF k
    <3> QED
      BY <1>3, <1>4, <1>k, FreshBlocks
  <2>2. CASE HasElse
    <3> DEFINE f == [NoBlocks EXCEPT !.then = New(1), !.else = New(2), !.end = New(3)]
    <3>2. locals = f /\ f = IfElseBlocksOf(New(1), New(2), New(3))
      BY <2>2 DEF IfElseBlocksOf
    <3> HIDE DEF f, locals
    <3>1. /\ f \in [Roles -> Nat] /\ f["else"] = New(2) /\ f["end"] = New(3)
          /\ \A r \in Roles : f[r] \in {0, New(1), New(2), New(3)}
      BY <2>1, <2>2, <3>2, IfElseLocals
    <3> QED
      BY <1>4, <2>1, <2>2, <3>1, <3>2
  <2>3. CASE ~HasElse
    <3> DEFINE f == [NoBlocks EXCEPT !.then = New(1), !.end = New(2)]
    <3>2. locals = f /\ f = IfBlocksOf(New(1), New(2))
      BY <2>3 DEF IfBlocksOf
    <3> HIDE DEF f, locals
    <3>1. /\ f \in [Roles -> Nat] /\ f["end"] = New(2)
          /\ \A r \in Roles : f[r] \in {0, New(1), New(2)}
      BY <2>1, <3>2, IfLocals
    <3> QED
      BY <1>4, <2>1, <2>3, <3>1, <3>2
  <2> QED
    BY <2>2, <2>3
<1> HIDE DEF locals, k
<1>6. Tolerant(Resumed(locals))
  <2>1. Resumed(locals).fn = "stmt" /\ Resumed(locals).node = at /\ Resumed(locals).next = 3
    BY <1>1, <1>5, ResumedFields DEF CgGood
  <2> QED
    BY <1>1, <2>1 DEF Tolerant
<1>7. /\ StackMoves /\ Depth' >= Depth
      /\ stack'[Depth].fn = "stmt" /\ stack'[Depth].node = at /\ stack'[Depth].next = 3
      /\ \A r : Kept(r) = locals[r]
  <2>1. 2 \in 1..Arity(at) /\ Kind(CgKid(2)) \in StmtKinds \cup Null
    BY <1>1, ControlKids
  <2> QED
    BY <1>1, <1>2, <1>5, <1>6, <2>1, InnerCall
<1>8. \A r : ~Owed(r)
  BY <1>1 DEF Owed, Waits, IsMerging, at
<1>9. \A r : /\ Keeps(r) <=> r = "end" \/ (HasElse /\ r = "else")
             /\ Owes(r) <=> r = "end" \/ (HasElse /\ r = "else")
  BY <1>1, <1>7 DEF Keeps, Owes, Holds, Waits, Loops, IsMerging, Roles, HasElse, CgKid
<1>10. BlocksMove
  <2>1. /\ \A r : Keeps(r) => Kept(r) \in NewBlocks
        /\ \A r, s : Keeps(r) /\ Keeps(s) /\ Kept(r) = Kept(s) => r = s
        /\ \A r : Owes(r) => Kept(r) # insert'
    BY <1>3, <1>4, <1>5, <1>7, <1>9
  <2>2. \A b \in NewBlocks : b = insert' \/ \E r : Owes(r) /\ Kept(r) = b
    BY <1>3, <1>4, <1>5, <1>7, <1>9
  <2> QED
    BY <1>k, <1>2, <1>3, <1>4, <1>7, <1>8, <2>1, <2>2, Appends
<1>11. PhisMove
  <2>1. ~IsMerging(stack'[Depth])
    BY <1>7 DEF IsMerging
  <2> DEFINE T == {New(1), New(2)}
  <2>2. edges' = edges \cup {<<insert, t>> : t \in T} /\ phis' = phis /\ \A t \in T : t \in NewBlocks
    BY <1>1, <1>3, <1>4
  <2> HIDE DEF T
  <2> QED
    BY <1>2, <1>4, <2>1, <2>2, PlainBranches
<1> QED
  BY <1>7, <1>10, <1>11 DEF Moves

LEMMA WhileStartMoves ==
  ASSUME CgGood, UNCHANGED ast, CgWhile
  PROVE  Moves
<1> DEFINE locals == [NoBlocks EXCEPT !.cond = New(1), !.body = New(2), !.end = New(3)]
<1>1. /\ CgTop.fn = "stmt" /\ Kind(at) = "WHILE" /\ CgTop.next = 1
      /\ Branch({New(1)}, 3, New(1)) /\ CallWith(locals, "expr", CgKid(1)) /\ phis' = phis
  BY DEF CgWhile, Step, rest
<1>2. CgTop.fn \in Running3 /\ Open /\ insert \in 1..blocks
  BY <1>1, Within DEF Running3, Tolerant, at
<1>3. /\ blocks' = blocks + 3 /\ insert' = New(1) /\ insert \in terminated' /\ ~malformed'
      /\ terminated' = terminated \cup {insert}
      /\ edges' = edges \cup {<<insert, t>> : t \in {New(1)}}
  BY <1>1, <1>2, BranchFacts
<1>4. /\ blocks \in Nat /\ blocks' \in Nat /\ blocks' >= blocks
      /\ New(1) \in NewBlocks /\ New(2) \in NewBlocks /\ New(3) \in NewBlocks
      /\ New(1) # New(2) /\ New(1) # New(3) /\ New(2) # New(3)
      /\ \A b \in NewBlocks : b = New(1) \/ b = New(2) \/ b = New(3)
  BY <1>3, FreshBlocks
<1>5. /\ locals \in [Roles -> Nat] /\ \A r \in Roles : locals[r] <= blocks'
      /\ locals["cond"] = New(1) /\ locals["body"] = New(2) /\ locals["end"] = New(3)
  <2>1. 0 <= blocks' /\ \A i \in 1..3 : New(i) \in Nat /\ New(i) <= blocks'
    BY <1>3, <1>4, FreshBlocks
  <2>2. New(1) \in Nat /\ New(2) \in Nat /\ New(3) \in Nat
    BY <2>1
  <2>3. locals = WhileBlocksOf(New(1), New(2), New(3))
    BY DEF WhileBlocksOf
  <2> HIDE DEF locals
  <2>4. /\ locals \in [Roles -> Nat]
        /\ locals["cond"] = New(1) /\ locals["body"] = New(2) /\ locals["end"] = New(3)
        /\ \A r \in Roles : locals[r] \in {0, New(1), New(2), New(3)}
    BY <2>2, <2>3, WhileLocals
  <2> QED
    BY <1>4, <2>1, <2>2, <2>4
<1> HIDE DEF locals
<1>6. /\ StackMoves /\ Depth' >= Depth
      /\ stack'[Depth].fn = "stmt" /\ stack'[Depth].node = at /\ stack'[Depth].next = 2
      /\ \A r : Kept(r) = locals[r]
  <2>1. 1 \in 1..Arity(at) /\ Kind(CgKid(1)) \in ExprKinds \cup Null
    BY <1>1, ControlKids
  <2> QED
    BY <1>1, <1>2, <1>5, <2>1, InnerCall
<1>7. \A r : ~Owed(r)
  BY <1>1 DEF Owed, Waits, IsMerging, at
<1>8. \A r : (Keeps(r) <=> r \in {"cond", "body", "end"}) /\ (Owes(r) <=> r \in {"body", "end"})
  BY <1>1, <1>6 DEF Keeps, Owes, Holds, Waits, Loops, IsMerging, Roles
<1>9. BlocksMove
  <2>1. /\ \A r : Keeps(r) => Kept(r) \in NewBlocks
        /\ \A r, s : Keeps(r) /\ Keeps(s) /\ Kept(r) = Kept(s) => r = s
        /\ \A r : Owes(r) => Kept(r) # insert'
    BY <1>3, <1>4, <1>5, <1>6, <1>8
  <2>2. \A b \in NewBlocks : b = insert' \/ \E r : Owes(r) /\ Kept(r) = b
    BY <1>3, <1>4, <1>5, <1>6, <1>8
  <2> QED
    BY <1>2, <1>3, <1>4, <1>6, <1>7, <2>1, <2>2, Appends
<1>10. PhisMove
  <2>1. ~IsMerging(stack'[Depth])
    BY <1>6 DEF IsMerging
  <2> QED
    BY <1>1, <1>2, <1>3, <1>4, <2>1, PlainBranches
<1> QED
  BY <1>6, <1>9, <1>10 DEF Moves

LEMMA ForStartMoves ==
  ASSUME CgGood, UNCHANGED ast, CgFor
  PROVE  Moves
<1> DEFINE locals == [NoBlocks EXCEPT !.cond = New(1), !.body = New(2), !.post = New(3), !.end = New(4)]
<1>1. /\ CgTop.fn = "stmt" /\ Kind(at) = "FOR" /\ CgTop.next = 1
      /\ CallWith(locals, "stmt", CgKid(1)) /\ blocks' = blocks + 4
      /\ UNCHANGED <<insert, terminated, edges, malformed, phis>>
  BY DEF CgFor, Step, rest
<1>2. CgTop.fn \in Running3 /\ Open /\ insert \in 1..blocks
  BY <1>1, Within DEF Running3, Tolerant, at
<1>3. ~malformed'
  BY <1>1 DEF CgGood, BlocksOK
<1>4. /\ blocks \in Nat /\ blocks' \in Nat /\ blocks' >= blocks
      /\ New(1) \in NewBlocks /\ New(2) \in NewBlocks /\ New(3) \in NewBlocks /\ New(4) \in NewBlocks
      /\ New(1) # New(2) /\ New(1) # New(3) /\ New(2) # New(3)
      /\ New(1) # New(4) /\ New(2) # New(4) /\ New(3) # New(4)
      /\ \A b \in NewBlocks : b = New(1) \/ b = New(2) \/ b = New(3) \/ b = New(4)
  BY <1>1, FreshBlocks
<1>5. /\ locals \in [Roles -> Nat] /\ \A r \in Roles : locals[r] <= blocks'
      /\ locals["cond"] = New(1) /\ locals["body"] = New(2)
      /\ locals["post"] = New(3) /\ locals["end"] = New(4)
  <2>1. 0 <= blocks' /\ \A i \in 1..4 : New(i) \in Nat /\ New(i) <= blocks'
    BY <1>1, <1>4, FreshBlocks
  <2>2. New(1) \in Nat /\ New(2) \in Nat /\ New(3) \in Nat /\ New(4) \in Nat
    BY <2>1
  <2>3. locals = ForBlocksOf(New(1), New(2), New(3), New(4))
    BY DEF ForBlocksOf
  <2> HIDE DEF locals
  <2>4. /\ locals \in [Roles -> Nat]
        /\ locals["cond"] = New(1) /\ locals["body"] = New(2) /\ locals["post"] = New(3) /\ locals["end"] = New(4)
        /\ \A r \in Roles : locals[r] \in {0, New(1), New(2), New(3), New(4)}
    BY <2>2, <2>3, ForLocals
  <2> QED
    BY <1>4, <2>1, <2>2, <2>4
<1> HIDE DEF locals
<1>6. /\ StackMoves /\ Depth' >= Depth
      /\ stack'[Depth].fn = "stmt" /\ stack'[Depth].node = at /\ stack'[Depth].next = 2
      /\ \A r : Kept(r) = locals[r]
  <2>1. 1 \in 1..Arity(at) /\ Kind(CgKid(1)) \in {"VAR_DECL", "EXPR_STMT"} \cup Null
    BY <1>1, ControlKids
  <2> QED
    BY <1>1, <1>2, <1>5, <2>1, InnerCall
<1>7. \A r : ~Owed(r)
  BY <1>1 DEF Owed, Waits, IsMerging, at
<1>8. \A r : /\ Keeps(r) <=> r \in {"cond", "body", "post", "end"}
             /\ Owes(r) <=> r \in {"cond", "body", "post", "end"}
  BY <1>1, <1>6 DEF Keeps, Owes, Holds, Waits, Loops, IsMerging, Roles
<1>9. BlocksMove
  <2>0. insert \notin NewBlocks
    BY <1>2, <1>4 DEF NewBlocks
  <2>1. /\ \A r : Keeps(r) => Kept(r) \in NewBlocks
        /\ \A r, s : Keeps(r) /\ Keeps(s) /\ Kept(r) = Kept(s) => r = s
        /\ \A r : Owes(r) => Kept(r) # insert'
    BY <1>1, <1>4, <1>5, <1>6, <1>8, <2>0
  <2>2. \A b \in NewBlocks : b = insert' \/ \E r : Owes(r) /\ Kept(r) = b
    BY <1>4, <1>5, <1>6, <1>8
  <2> QED
    BY <1>1, <1>2, <1>3, <1>4, <1>6, <1>7, <2>1, <2>2, Appends
<1>10. PhisMove
  <2> DEFINE T == {}
  <2>1. ~IsMerging(stack'[Depth])
    BY <1>6 DEF IsMerging
  <2>2. edges' = edges \cup {<<insert, t>> : t \in T}
    BY <1>1
  <2> QED
    BY <1>1, <1>2, <1>4, <2>1, <2>2, PlainBranches
<1> QED
  BY <1>6, <1>9, <1>10 DEF Moves

\* A return statement ends its block and leaves the builder there.
LEMMA ReturnStmtMoves ==
  ASSUME CgGood, UNCHANGED ast, CgReturnStmt
  PROVE  Moves
<1>1. /\ CgTop.fn = "stmt" /\ Kind(at) = "RETURN" /\ CgTop.next = 2
      /\ Branch({}, 0, insert) /\ CgReturn /\ phis' = phis
  BY DEF CgReturnStmt, Step, rest
<1>2. /\ CgTop.fn \in Running3 /\ Open /\ Inside /\ insert \in 1..blocks /\ blocks \in Nat
      /\ Depth \in Nat
  BY <1>1, Within DEF Running3, Tolerant, at
<1>3. /\ blocks' = blocks + 0 /\ insert' = insert /\ insert \in terminated' /\ ~malformed'
      /\ terminated' = terminated \cup {insert}
      /\ edges' = edges \cup {<<insert, t>> : t \in {}}
  BY <1>1, <1>2, BranchFacts
<1>4. blocks' = blocks /\ NewBlocks = {}
  BY <1>2, <1>3 DEF NewBlocks
<1>5. StackMoves /\ Depth' < Depth /\ Depth' \in Nat /\ Inside'
  BY <1>1, <1>2, ReturnMoves, StaysInside
<1>6. Tolerant(CgTop)'
  BY <1>1, <1>2, ReturnMoves DEF Simple, at
<1>7. \A r : ~Owed(r) /\ ~Keeps(r) /\ ~Owes(r)
  BY <1>1, <1>2, <1>5 DEF Owed, Waits, IsMerging, Keeps, Owes, at
<1>8. BlocksMove
  BY <1>2, <1>3, <1>4, <1>5, <1>6, <1>7 DEF BlocksMove
<1>9. PhisMove
  BY <1>1, <1>2, <1>3, <1>4, <1>5, PlainBranches
<1> QED
  BY <1>5, <1>8, <1>9 DEF Moves

\* The running function has a function's frame.
LEMMA DefiningFacts ==
  ASSUME CgGood, CgTop.fn = "define"
  PROVE  /\ Depth = 2 /\ Kind(at) = "FUNC_DECL" /\ at \in Nodes /\ CgTop.next \in Nat
         /\ Inside <=> CgTop.next >= 2
         /\ \A r : ~Had(r) /\ ~Owed(r)
         /\ CgKid(1) \in Nodes /\ Kind(CgKid(1)) \in {"BLOCK", "NULL"}
<1>1. /\ at \in Nodes /\ CgTop.next \in Nat /\ Kind(at) \in KindsOf(CgTop.fn)
      /\ AstTypeOK /\ phase = "codegen" /\ CgTop.fn = "define"
  BY CgTopFacts DEF CgGood
<1>2. Kind(at) = "FUNC_DECL"
  BY <1>1 DEF KindsOf
<1>3. Depth = 2 /\ CgTop = stack[2]
  BY Outside
<1>4. Inside <=> CgTop.next >= 2
  BY <1>3 DEF Inside, Depth
<1>5. \A r : ~Had(r) /\ ~Owed(r)
  BY <1>1, HoldsNothing DEF Had, Owed, Holds
<1>6. CgKid(1) \in Nodes /\ Kind(CgKid(1)) \in {"BLOCK", "NULL"}
  <2>1. Arity(at) = 1
    BY <1>1, <1>2, KidKinds DEF HasArity
  <2>2. Kid(at, 1) \in Nodes /\ Kind(Kid(at, 1)) \in Slot("FUNC_DECL", 1) \ HoleKinds
    BY <1>1, <1>2, <2>1, KidKinds
  <2> QED
    BY <2>2 DEF CgKid, Slot, MayBeNull, HoleKinds, Null
<1> QED
  BY <1>1, <1>2, <1>3, <1>4, <1>5, <1>6

\* define_func_body generates the next statement.
LEMMA BodyMoves ==
  ASSUME CgGood, UNCHANGED ast, CgNextStatement, CgTop.fn = "define"
  PROVE  Moves
<1> DEFINE body == CgKid(1)
           k == CgTop.next - 1
           child == ast[body].kids[k]
<1>0. /\ Depth = 2 /\ Kind(at) = "FUNC_DECL" /\ (Inside <=> CgTop.next >= 2) /\ CgTop.next \in Nat
      /\ body \in Nodes /\ Kind(body) \in {"BLOCK", "NULL"} /\ AstTypeOK /\ phase = "codegen"
      /\ bb \in [Roles -> Nat] /\ FrameOK(CgTop)
  BY DefiningFacts, CgTopFacts DEF CgGood
<1>1. /\ CgTop.next >= 2 /\ k \in DOMAIN ast[body].kids /\ Open
      /\ CallWith(bb, "stmt", child) /\ UNCHANGED irVars
  BY <1>0 DEF CgNextStatement, InList, OnlyCalls, More, StatementList, CallFn
<1>2. child \in Nodes /\ Kind(child) \in StmtKinds /\ ~IsNull(child)
  <2>1. /\ DOMAIN ast[body].kids = 1..Arity(body) /\ Arity(body) \in Nat
        /\ HasArity(Kind(body), Arity(body))
    BY <1>0, KidKinds
  <2>2. k \in 1..Arity(body) /\ Kid(body, k) = child
    BY <1>1, <2>1 DEF Kid
  <2>3. Kind(body) = "BLOCK"
    <3>1. Kind(body) = "NULL" => Arity(body) = 0
      BY <2>1 DEF HasArity
    <3> QED
      BY <1>0, <2>1, <2>2, <3>1
  <2>4. child \in Nodes /\ Kind(child) \in Slot("BLOCK", k) \ HoleKinds
    BY <1>0, <2>2, <2>3, KidKinds
  <2> QED
    BY <2>4 DEF HoleKinds, Slot, IsStmtSlot, MayBeNull, StmtSlot, StmtKinds, Null, IsNull
<1>3. \A r \in Roles : bb[r] <= blocks'
  BY <1>0, <1>1 DEF FrameOK, bb, irVars
<1> HIDE DEF child, body, k
<1>4. Tolerant(Resumed(bb))
  <2>1. Resumed(bb).fn = "define" /\ Resumed(bb).next = CgTop.next + 1
    BY <1>0, ResumedFields DEF CgGood
  <2> QED
    BY <1>0, <1>1, <2>1 DEF Tolerant
<1>5. Kind(child) \in KindsOf("stmt") /\ "stmt" \in FnNames \ {"module"} /\ Depth >= 2 /\ Depth # 1
  BY <1>0, <1>2 DEF KindsOf, FnNames
<1>6. /\ StackMoves /\ Depth' = Depth + 1 /\ stack'[Depth].fn = "define"
      /\ stack'[Depth].next = CgTop.next + 1
  BY <1>0, <1>1, <1>2, <1>3, <1>4, <1>5, CallMoves
<1>7. \A r : ~Had(r) /\ ~Keeps(r)
  BY <1>6, DefiningFacts, HoldsNothing DEF Keeps
<1>8. Inside'
  BY <1>0, <1>1, <1>6 DEF Inside, Depth
<1> QED
  BY <1>0, <1>1, <1>6, <1>7, <1>8, QuietMoves

\* A function's entry block.
LEMMA DefineMoves ==
  ASSUME CgGood, UNCHANGED ast, CgDefine
  PROVE  Moves
<1>1. /\ CgTop.fn = "define" /\ CgTop.next = 1 /\ blocks' = blocks + 1 /\ insert' = New(1)
      /\ stack' = [stack EXCEPT ![Len(stack)].next = 2]
      /\ UNCHANGED <<terminated, edges, phis, malformed>>
  BY DEF CgDefine, Step
<1>2. Depth = 2 /\ ~Inside /\ \A r : ~Had(r) /\ ~Owed(r)
  BY <1>1, DefiningFacts
<1>3. blocks \in Nat /\ ~malformed
  BY DEF CgGood, BlocksOK
<1>4. blocks' \in Nat /\ blocks' >= blocks /\ NewBlocks = {insert'}
  BY <1>1, <1>3 DEF NewBlocks, New
<1>5. StackMoves /\ Depth' = Depth /\ stack'[Depth].fn = "define" /\ stack'[Depth].next = 2
  BY <1>1, <1>4, NextMoves
<1>6. Inside' /\ ~(Len(stack)' >= 3)
  BY <1>2, <1>5 DEF Inside, Depth
<1>7. \A r : ~Keeps(r) /\ ~Owes(r)
  BY <1>5, HoldsNothing DEF Keeps, Owes, Holds
<1>8. BlocksMove
  BY <1>1, <1>2, <1>3, <1>4, <1>6, <1>7 DEF BlocksMove
<1>9. PhisMove
  <2>1. edges' = edges \cup {<<insert, t>> : t \in {}} /\ phis' = phis
    BY <1>1
  <2>2. ~IsMerging(stack'[Depth])
    BY <1>5 DEF IsMerging
  <2> QED
    BY <1>4, <2>1, <2>2, PlainBranches
<1> QED
  BY <1>5, <1>8, <1>9 DEF Moves

\* The end of a function: no frame is left that could owe a block, and the implicit return
\* terminates the last one.
LEMMA DefineEndMoves ==
  ASSUME CgGood, UNCHANGED ast, CgDefineEnd \/ (CgBlockLeave /\ CgTop.fn # "stmt")
  PROVE  Moves
<1>0. Kind(at) \in KindsOf(CgTop.fn) /\ CgTop.next \in Nat /\ BlocksOK /\ StackOK
  BY CgTopFacts DEF CgGood
<1>1. /\ CgDefineEnd /\ CgTop.fn = "define" /\ CgTop.next >= 2
  <2>1. ~(CgBlockLeave /\ CgTop.fn # "stmt")
    BY <1>0 DEF CgBlockLeave, InList, KindsOf
  <2> QED
    BY <1>0, <2>1 DEF CgDefineEnd, InList, KindsOf, StmtKinds
<1>2. /\ CgReturn /\ phis' = phis
      /\ \/ Open /\ Branch({}, 0, insert)
         \/ ~Open /\ UNCHANGED <<blocks, insert, terminated, edges, malformed>>
  BY <1>1 DEF CgDefineEnd
<1>3. Depth = 2 /\ Inside /\ \A r : ~Had(r) /\ ~Owed(r)
  BY <1>1, DefiningFacts
<1>4. /\ blocks \in Nat /\ insert \in 1..blocks /\ ~malformed /\ terminated \subseteq 1..blocks
      /\ \A b \in 1..blocks : b \in terminated \/ b = insert \/ \E h \in owed : held[h] = b
  BY <1>0, <1>3 DEF BlocksOK
<1>5. /\ blocks' = blocks /\ insert' = insert /\ insert \in terminated' /\ ~malformed'
      /\ terminated' = terminated \/ terminated' = terminated \cup {insert}
      /\ edges' = edges \cup {<<insert, t>> : t \in {}}
  <2>1. CASE Open /\ Branch({}, 0, insert)
    <3>1. /\ blocks' = blocks + 0 /\ insert' = insert /\ insert \in terminated' /\ ~malformed'
          /\ terminated' = terminated \cup {insert}
          /\ edges' = edges \cup {<<insert, t>> : t \in {}}
      BY <2>1, BranchFacts
    <3> QED
      BY <1>4, <3>1
  <2>2. CASE ~Open /\ UNCHANGED <<blocks, insert, terminated, edges, malformed>>
    BY <1>4, <2>2 DEF Open
  <2> QED
    BY <1>2, <2>1, <2>2
<1>6. StackMoves /\ Depth' = 1 /\ Depth' < Depth
  BY <1>2, <1>3, ReturnMoves
<1>7. ~Inside' /\ ~(Len(stack)' >= 3)
  BY <1>6 DEF Inside, Depth
<1>8. \A r : ~Keeps(r) /\ ~Owes(r)
  BY <1>3, <1>6 DEF Keeps, Owes
<1>9. owed = {}
  <2>1. HeldKnown
    BY <1>0, HeldFacts
  <2>2. ASSUME NEW h \in owed PROVE FALSE
    <3>1. h[1] \in 1..2 /\ Waits(stack[h[1]], h[2])
      BY <1>3, <2>1, <2>2 DEF HeldKnown
    <3>2. stack[1].fn = "module" /\ stack[2].fn = "define"
      <4>1. 1 \in DOMAIN stack /\ stack[2] = CgTop
        BY <1>0, <1>3, DepthFacts DEF CgGood
      <4> QED
        BY <1>0, <1>1, <4>1 DEF StackOK, StackShape
    <3>3. \A r : ~Waits(stack[1], r) /\ ~Waits(stack[2], r)
      BY <3>2, HoldsNothing DEF Holds
    <3> QED
      BY <3>1, <3>3
  <2> QED
    BY <2>2
<1>10. 1..blocks' \subseteq terminated'
  BY <1>4, <1>5, <1>9
<1>11. NewBlocks = {} /\ blocks' \in Nat /\ blocks' >= blocks
  BY <1>4, <1>5 DEF NewBlocks
<1>12. BlocksMove
  BY <1>3, <1>5, <1>7, <1>8, <1>10, <1>11 DEF BlocksMove
<1>13. PhisMove
  BY <1>2, <1>3, <1>4, <1>5, <1>6, <1>11, PlainBranches
<1> QED
  BY <1>6, <1>12, <1>13 DEF Moves

\* A statement list is a block's or a function body's.
LEMMA FrameOfNextStatement ==
  ASSUME CgNextStatement
  PROVE  CgTop.fn = "stmt" \/ CgTop.fn = "define"
  BY DEF CgNextStatement, InList

-----------------------------------------------------------------------------
(* The graph along every step. *)

LEMMA StepMoves ==
  ASSUME CgGood, CgNext, ~CgStart
  PROVE  Moves /\ UNCHANGED ast
<1>1. UNCHANGED ast
  BY DEF CgNext
<1> QED
  BY <1>1, ExpressionMoves, StatementMoves, QuietCallMoves, BlockEnterMoves, DeclarationMoves,
     IfMoves, WhileMoves, ForMoves, LogicalMergeMoves, LogicalTestMoves, IfThenMoves,
     WhileStartMoves, ForStartMoves, ReturnStmtMoves, BodyMoves, DefineMoves, DefineEndMoves,
     FrameOfNextStatement
  DEF CgNext

LEMMA GraphKept ==
  ASSUME CgGood, CgNext, ~CgStart
  PROVE  /\ StackOK' /\ BlocksOK' /\ PhisOK' /\ Moves /\ UNCHANGED ast
         /\ blocks \in Nat /\ blocks' \in Nat /\ blocks' >= blocks
<1>1. Moves /\ UNCHANGED ast
  BY StepMoves
<1>2. StackOK /\ BlocksOK /\ PhisOK /\ stack # <<>> /\ blocks \in Nat
  BY DEF CgGood, BlocksOK
<1>3. StackMoves /\ BlocksMove /\ PhisMove /\ blocks' \in Nat /\ blocks' >= blocks
  BY <1>1 DEF Moves, BlocksMove
<1>4. StackOK'
  BY <1>1, <1>2, <1>3, StackKept
<1>5. BlocksOK'
  BY <1>1, <1>2, <1>3, <1>4, BlocksKept
<1>6. PhisOK'
  BY <1>1, <1>2, <1>3, <1>4, PhisKept
<1> QED
  BY <1>1, <1>2, <1>3, <1>4, <1>5, <1>6

-----------------------------------------------------------------------------
(* The scopes: how a step changes the number of activations that have one. *)

LEMMA CgActiveIsFinite ==
  ASSUME StackOK
  PROVE  IsFiniteSet(CgActive) /\ Cardinality(CgActive) \in Nat
<1>1. Depth \in Nat /\ DOMAIN stack = 1..Depth
  BY DepthFacts
<1>2. IsFiniteSet(1..Depth)
  BY <1>1, FS_Interval
<1>3. CgActive \in SUBSET (1..Depth)
  BY <1>1 DEF CgActive
<1>4. IsFiniteSet(CgActive)
  BY <1>2, <1>3, FS_Subset
<1> QED
  BY <1>4, FS_CardinalityType

One(p) == IF p THEN 1 ELSE 0

\* The running function has its scope after the step.
KeepsScope == Depth' >= Depth /\ CgHasScope(stack'[Depth])

LEMMA ActiveMoves ==
  ASSUME CgGood, StackOK', StackMoves, UNCHANGED ast
  PROVE  Cardinality(CgActive') = Cardinality(CgActive) - One(CgHasScope(CgTop)) + One(KeepsScope)
<1> DEFINE below == {i \in 1..(Depth - 1) : CgHasScope(stack[i])}
<1>1. /\ StackOK /\ Depth \in Nat /\ Depth >= 1 /\ DOMAIN stack = 1..Depth /\ CgTop = stack[Depth]
      /\ Depth' \in Nat /\ DOMAIN stack' = 1..Depth'
  <2>1. StackOK /\ stack # <<>>
    BY DEF CgGood
  <2>2. Depth' \in Nat /\ DOMAIN stack' = 1..Depth'
    <3>1. stack' \in Seq(FrameRecords)
      BY DEF StackMoves
    <3> QED
      BY <3>1 DEF Depth
  <2> QED
    BY <2>1, <2>2, DepthFacts
<1>2. /\ Depth' \in {Depth - 1, Depth, Depth + 1}
      /\ \A i \in 1..(Depth - 1) : stack'[i] = stack[i]
      /\ Depth' = Depth + 1 => stack'[Depth + 1].next = 1
  BY DEF StackMoves, Below, Depth
<1>3. \A f : CgHasScope(f)' <=> CgHasScope(f')
  BY DEF CgHasScope, Kind
<1>4. CgActive = below \cup IF CgHasScope(CgTop) THEN {Depth} ELSE {}
  BY <1>1 DEF CgActive
<1>5. CgActive' = below \cup IF KeepsScope THEN {Depth} ELSE {}
  <2>1. CgActive' = {i \in 1..Depth' : CgHasScope(stack'[i])}
    BY <1>1, <1>3 DEF CgActive, CgHasScope, Kind
  <2>2. Depth' = Depth + 1 => ~CgHasScope(stack'[Depth + 1])
    BY <1>2 DEF CgHasScope
  <2> HIDE DEF CgHasScope
  <2> QED
    BY <1>1, <1>2, <2>1, <2>2 DEF KeepsScope
<1>6. IsFiniteSet(below) /\ Cardinality(below) \in Nat
  <2>1. below \in SUBSET (1..(Depth - 1))
    OBVIOUS
  <2>0. 1 \in Int /\ Depth - 1 \in Int
    BY <1>1
  <2>3. IsFiniteSet(1..(Depth - 1))
    BY <2>0, FS_Interval
  <2>2. IsFiniteSet(below)
    BY <2>1, <2>3, FS_Subset
  <2> QED
    BY <2>2, FS_CardinalityType
<1>7. Depth \notin below /\ Cardinality(below \cup {Depth}) = Cardinality(below) + 1
  <2>1. Depth \notin below
    BY <1>1
  <2> QED
    BY <1>6, <2>1, FS_AddElement
<1> HIDE DEF below
<1>8. ASSUME NEW p, NEW S, S = below \cup IF p THEN {Depth} ELSE {}
      PROVE  Cardinality(S) = Cardinality(below) + One(p)
  <2>1. CASE p
    BY <1>7, <1>8, <2>1 DEF One
  <2>2. CASE ~p
    <3>1. S = below /\ One(p) = 0
      BY <1>8, <2>2 DEF One
    <3> QED
      BY <1>6, <3>1
  <2> QED
    BY <2>1, <2>2
<1>9. /\ Cardinality(CgActive) = Cardinality(below) + One(CgHasScope(CgTop))
      /\ Cardinality(CgActive') = Cardinality(below) + One(KeepsScope)
  BY <1>4, <1>5, <1>8
<1> QED
  BY <1>6, <1>9 DEF One

\* What a step does to the scopes.
ScopesMove ==
  /\ env' \in Seq(VarScopes')
  /\ stack' # <<>> => Len(env') = Len(env) - One(CgHasScope(CgTop)) + One(KeepsScope)

LEMMA EnvKept ==
  ASSUME CgGood, StackOK', StackMoves, UNCHANGED ast, ScopesMove
  PROVE  EnvOK'
<1>1. /\ Cardinality(CgActive) \in Nat /\ Cardinality(CgActive') \in Nat
      /\ Len(env) = 1 + Cardinality(CgActive)
  <2>1. Cardinality(CgActive) \in Nat
    BY CgActiveIsFinite DEF CgGood
  <2>2. Cardinality(CgActive') \in Nat
    <3>1. (StackOK => Cardinality(CgActive) \in Nat)'
      BY CgActiveIsFinite, PTL
    <3> QED
      BY <3>1
  <2> QED
    BY <2>1, <2>2 DEF CgGood, EnvOK
<1>2. Cardinality(CgActive') = Cardinality(CgActive) - One(CgHasScope(CgTop)) + One(KeepsScope)
  BY ActiveMoves
<1>3. One(CgHasScope(CgTop)) \in {0, 1} /\ One(KeepsScope) \in {0, 1}
  BY DEF One
<1>4. stack' # <<>> => Len(env') = 1 + Cardinality(CgActive')
  BY <1>1, <1>2, <1>3 DEF ScopesMove
<1> QED
  BY <1>4 DEF EnvOK, ScopesMove

LEMMA ScopesGrow ==
  ASSUME UNCHANGED ast, blocks \in Nat, blocks' \in Nat, blocks' >= blocks
  PROVE  /\ Vars \subseteq Vars' /\ VarScopes \subseteq VarScopes'
         /\ Seq(VarScopes) \subseteq Seq(VarScopes') /\ NoVars \in VarScopes'
<1>1. Vars \subseteq Vars'
  BY DEF Vars, Nodes
<1>2. VarScopes \subseteq VarScopes'
  <2>1. \A D \in SUBSET Names : [D -> Vars] \subseteq [D -> Vars']
    BY <1>1
  <2> QED
    BY <2>1 DEF VarScopes
<1>3. NoVars \in VarScopes'
  <2>1. NoVars \in [{} -> Vars']
    BY DEF NoVars
  <2> QED
    BY <2>1 DEF VarScopes
<1> QED
  BY <1>1, <1>2, <1>3

\* scope_define.
LEMMA DefineTyped ==
  ASSUME NEW chain \in Seq(VarScopes), chain # <<>>, NEW x \in Names, NEW var \in Vars
  PROVE  Define(chain, x, var) \in Seq(VarScopes) /\ Len(Define(chain, x, var)) = Len(chain)
<1> DEFINE L == Len(chain)
           inner == chain[L]
           scope == [y \in DOMAIN inner \cup {x} |-> IF y = x THEN var ELSE inner[y]]
<1>1. L \in Nat /\ L >= 1 /\ DOMAIN chain = 1..L /\ inner \in VarScopes
  OBVIOUS
<1>2. PICK D \in SUBSET Names : inner \in [D -> Vars]
  BY <1>1 DEF VarScopes
<1>3. scope \in [D \cup {x} -> Vars] /\ D \cup {x} \in SUBSET Names
  BY <1>2
<1>4. scope \in VarScopes
  BY <1>3 DEF VarScopes
<1>5. Define(chain, x, var) = [chain EXCEPT ![L] = scope]
  BY DEF Define
<1> HIDE DEF scope
<1> QED
  BY <1>1, <1>4, <1>5

-----------------------------------------------------------------------------
(* The scopes along every step. *)

Scoped == CgTop.fn \in {"define", "stmt"} /\ Kind(at) \in ScopedKinds
Calls == \E locals, fn, n : CallWith(locals, fn, n)
Returns == CgReturn /\ CgTop.fn # "module"

LEMMA DepthOfCall ==
  ASSUME CgGood, Calls
  PROVE  Depth' >= Depth
<1>1. PICK locals, fn, n : CallWith(locals, fn, n)
  BY DEF Calls
<1> DEFINE L == Len(stack)
           frame == [CgTop EXCEPT !.next = @ + 1, !.bb = locals]
           resumed == [stack EXCEPT ![L] = frame]
           called == CgFrame(fn, n)
           S == FrameRecords \cup {frame, called}
<1>2. L \in Nat /\ L >= 1 /\ stack \in Seq(S)
  BY DepthFacts, CgTopFacts DEF CgGood, StackOK
<1>3. stack' = resumed \/ stack' = Append(resumed, called)
  BY <1>1, <1>2 DEF CallWith, CgTop
<1> HIDE DEF frame, called
<1>4. Len(resumed) = L /\ resumed \in Seq(S) /\ called \in S
  BY <1>2
<1>5. Len(stack') = L \/ Len(stack') = L + 1
  BY <1>3, <1>4
<1> QED
  BY <1>2, <1>5 DEF Depth

\* How a step treats the scopes.
Shape ==
  \/ /\ UNCHANGED env
     /\ (Returns /\ ~CgHasScope(CgTop)) \/ (Calls /\ (~Scoped \/ CgTop.next > 1))
  \/ /\ \E x \in Names, var \in Vars : env' = Define(env, x, var)
     /\ ~Scoped /\ (Returns \/ Calls)
  \/ /\ \E scope \in VarScopes' : env' = Append(env, scope)
     /\ ~CgHasScope(CgTop) /\ KeepsScope
  \/ CgPopScope /\ Returns /\ CgHasScope(CgTop)
  \/ CgEnd

LEMMA ShapeMoves ==
  ASSUME CgGood, StackMoves, UNCHANGED ast, blocks' \in Nat, blocks' >= blocks, Shape
  PROVE  ScopesMove
<1>1. /\ blocks \in Nat /\ env \in Seq(VarScopes) /\ Len(env) = 1 + Cardinality(CgActive)
      /\ Cardinality(CgActive) \in Nat /\ Depth \in Nat /\ CgTop.next \in Nat
      /\ env # <<>> /\ Len(env) \in Nat
  <2>1. /\ blocks \in Nat /\ env \in Seq(VarScopes) /\ Len(env) = 1 + Cardinality(CgActive)
        /\ Cardinality(CgActive) \in Nat /\ Depth \in Nat /\ CgTop.next \in Nat
    BY CgActiveIsFinite, DepthFacts, CgTopFacts DEF CgGood, BlocksOK, EnvOK
  <2> QED
    BY <2>1
<1>2. /\ Vars \subseteq Vars' /\ VarScopes \subseteq VarScopes'
      /\ Seq(VarScopes) \subseteq Seq(VarScopes')
  BY <1>1, ScopesGrow
<1>3. CgHasScope(CgTop) <=> Scoped /\ CgTop.next > 1
  BY DEF CgHasScope, Scoped, at
<1>4. Returns => ~KeepsScope
  <2>1. Returns => Depth' = Depth - 1
    BY ReturnMoves DEF Returns
  <2> QED
    BY <1>1, <2>1 DEF KeepsScope
<1>5. Calls /\ (~Scoped \/ CgTop.next > 1) => (KeepsScope <=> CgHasScope(CgTop))
  <2> SUFFICES ASSUME Calls, ~Scoped \/ CgTop.next > 1 PROVE KeepsScope <=> CgHasScope(CgTop)
    OBVIOUS
  <2> DEFINE resumed == stack'[Depth]
  <2>1. Depth' >= Depth
    BY DepthOfCall
  <2>2. resumed.fn = CgTop.fn /\ resumed.node = at /\ resumed.next >= CgTop.next
    BY <2>1 DEF StackMoves
  <2>3. resumed.next \in Nat
    <3>1. Depth >= 1
      BY DepthFacts DEF CgGood
    <3>2. stack' \in Seq(FrameRecords)
      BY DEF StackMoves
    <3>3. Depth \in DOMAIN stack'
      <4>1. DOMAIN stack' = 1..Depth' /\ Depth' \in Nat
        BY <3>2 DEF Depth
      <4> QED
        BY <1>1, <2>1, <3>1, <4>1
    <3>4. resumed \in FrameRecords
      BY <3>2, <3>3
    <3> HIDE DEF resumed
    <3> QED
      BY <3>4 DEF FrameRecords
  <2> HIDE DEF resumed
  <2>4. CgHasScope(resumed) <=> Scoped /\ resumed.next > 1
    BY <2>2 DEF CgHasScope, Scoped
  <2>5. KeepsScope <=> CgHasScope(resumed)
    BY <2>1 DEF KeepsScope, resumed
  <2> QED
    BY <1>1, <1>3, <2>2, <2>3, <2>4, <2>5
<1>6. CASE /\ UNCHANGED env
           /\ (Returns /\ ~CgHasScope(CgTop)) \/ (Calls /\ (~Scoped \/ CgTop.next > 1))
  <2>1. KeepsScope <=> CgHasScope(CgTop)
    BY <1>4, <1>5, <1>6
  <2>2. Len(env') = Len(env) - One(CgHasScope(CgTop)) + One(KeepsScope)
    BY <1>1, <1>6, <2>1 DEF One
  <2> QED
    BY <1>1, <1>2, <1>6, <2>2 DEF ScopesMove
<1>7. CASE /\ \E x \in Names, var \in Vars : env' = Define(env, x, var)
           /\ ~Scoped /\ (Returns \/ Calls)
  <2>1. env' \in Seq(VarScopes) /\ Len(env') = Len(env)
    BY <1>1, <1>7, DefineTyped
  <2>2. ~KeepsScope /\ ~CgHasScope(CgTop)
    BY <1>3, <1>4, <1>5, <1>7
  <2> QED
    BY <1>1, <1>2, <2>1, <2>2 DEF ScopesMove, One
<1>8. CASE /\ \E scope \in VarScopes' : env' = Append(env, scope)
           /\ ~CgHasScope(CgTop) /\ KeepsScope
  <2>1. env' \in Seq(VarScopes') /\ Len(env') = Len(env) + 1
    BY <1>1, <1>2, <1>8
  <2> QED
    BY <1>1, <1>8, <2>1 DEF ScopesMove, One
<1>9. CgPopScope => env' \in Seq(VarScopes') /\ Len(env') = Len(env) - 1
  BY <1>1, <1>2 DEF CgPopScope
<1>10. CASE CgPopScope /\ Returns /\ CgHasScope(CgTop)
  BY <1>1, <1>4, <1>9, <1>10 DEF ScopesMove, One
<1>11. CASE CgEnd
  <2>1. CgPopScope /\ CgReturn /\ CgTop.fn = "module"
    BY <1>11 DEF CgEnd, Step
  <2>2. stack' = <<>>
    <3>1. Depth = 1 /\ Depth' = Depth - 1
      BY <2>1, Outside, ReturnMoves
    <3>2. stack' \in Seq(FrameRecords)
      BY DEF StackMoves
    <3> QED
      BY <3>1, <3>2 DEF Depth
  <2> QED
    BY <1>9, <2>1, <2>2 DEF ScopesMove
<1> QED
  BY <1>6, <1>7, <1>8, <1>10, <1>11 DEF Shape

LEMMA ExpressionShape ==
  ASSUME CgGood,
         \/ CgLiteral \/ CgIdent \/ CgIndexAddress \/ CgDerefAddress \/ CgUnhandled
         \/ CgAssign \/ CgArith \/ CgAddress \/ CgLoad \/ CgNegate \/ CgNot \/ CgCall
         \/ CgLogicalMerge
  PROVE  Shape
<1> USE DEF Evaluated, EvaluatedOp, Compute, Pass, CgError, Give, Step
<1> DEFINE OK == CgTop.fn \in {"expr", "lvalue"} /\ CgReturn /\ UNCHANGED env
<1> HIDE DEF CgReturn
<1>1. CgLiteral \/ CgUnhandled \/ CgIndexAddress \/ CgDerefAddress \/ CgAssign \/ CgLogicalMerge => OK
  BY DEF CgLiteral, CgUnhandled, CgIndexAddress, CgDerefAddress, CgAssign, CgLogicalMerge
<1>2. CgIdent => OK
  BY DEF CgIdent
<1>3. CgArith \/ CgAddress \/ CgLoad \/ CgNegate \/ CgNot \/ CgCall => OK
  BY DEF CgArith, CgAddress, CgLoad, CgNegate, CgNot, CgCall
<1>4. OK
  BY <1>1, <1>2, <1>3
<1> QED
  BY <1>4 DEF Shape, Returns, CgHasScope

\* Statements that return without a scope.
LEMMA LeavingShape ==
  ASSUME CgGood,
         CgVarInit \/ CgExprStmt \/ CgReturnStmt \/ CgIfEnd \/ CgWhileEnd \/ CgPrototype
  PROVE  Shape
<1>1. /\ CgReturn /\ UNCHANGED env /\ CgTop.fn \in {"stmt", "define"}
      /\ Kind(at) \notin ScopedKinds \/ CgTop.next = 1
  BY DEF CgVarInit, CgExprStmt, CgReturnStmt, CgIfEnd, CgWhileEnd, CgPrototype, Step, Evaluated,
         OnlyCalls, ScopedKinds
<1> QED
  BY <1>1 DEF Shape, Returns, CgHasScope, at

\* Steps that call, or go on past a null child, in the scopes there are.
LEMMA CallingShape ==
  ASSUME CgGood,
         \/ CgOperand \/ CgNextStatement \/ CgDeclaration \/ CgLogicalTest
         \/ CgIfThen \/ CgIfElse \/ CgWhile \/ CgWhileBody \/ CgForCond \/ CgForBody \/ CgForPost
  PROVE  Shape
<1> DEFINE OK == UNCHANGED env /\ Calls /\ (~Scoped \/ CgTop.next > 1)
<1> USE DEF CallFn
<1> HIDE DEF CallWith
<1>1. CgOperand => OK
  <2> SUFFICES ASSUME CgOperand PROVE OK
    OBVIOUS
  <2>1. CgTop.next \in DOMAIN Operands /\ UNCHANGED env
    BY DEF CgOperand, OnlyCalls
  <2>2. ~Scoped
    <3>1. /\ CgTop.fn \in Running3
          /\ CgTop.fn = "stmt" => Kind(at) \in {"EXPR_STMT", "RETURN", "IF"}
      BY <2>1, OperandFacts
    <3> QED
      BY <3>1 DEF Scoped, ScopedKinds, Running3
  <2>3. Calls
    BY DEF CgOperand, Calls
  <2> QED
    BY <2>1, <2>2, <2>3
<1>2. CgNextStatement => OK
  <2> SUFFICES ASSUME CgNextStatement PROVE OK
    OBVIOUS
  <2>1. CgTop.next > 1
    <3>1. CgTop.next \in Nat /\ CgTop.next >= 2
      BY CgTopFacts DEF CgNextStatement, InList, CgGood
    <3> QED
      BY <3>1
  <2> QED
    BY <2>1 DEF CgNextStatement, Calls, OnlyCalls
<1>3. CgDeclaration => OK
  BY DEF CgDeclaration, Calls, OnlyCalls, Scoped
<1>4. CgLogicalTest \/ CgIfThen \/ CgIfElse \/ CgWhile \/ CgWhileBody => OK
  BY DEF CgLogicalTest, CgIfThen, CgIfElse, CgWhile, CgWhileBody, Calls, Step, Scoped, ScopedKinds
<1>5. CgForCond \/ CgForBody \/ CgForPost => OK
  <2>1. CgForCond \/ CgForBody \/ CgForPost => UNCHANGED env /\ CgTop.next \in {2, 3, 4}
    BY DEF CgForCond, CgForBody, CgForPost, Step
  <2>2. CgForCond \/ CgForBody \/ CgForPost => Calls
    BY Zenon DEF CgForCond, CgForBody, CgForPost, Calls
  <2>3. CgTop.next \in {2, 3, 4} => CgTop.next > 1
    OBVIOUS
  <2> QED
    BY <2>1, <2>2, <2>3
<1> HIDE DEF OK
<1>6. OK
  BY <1>1, <1>2, <1>3, <1>4, <1>5
<1> QED
  BY <1>6 DEF OK, Shape

\* Blocks, for loops and functions leave their scope.
LEMMA PoppingShape ==
  ASSUME CgGood, CgBlockLeave \/ CgForEnd \/ CgDefineEnd
  PROVE  Shape
<1>0. CgTop.next \in Nat /\ Kind(at) \in KindsOf(CgTop.fn)
  BY CgTopFacts DEF CgGood
<1>1. /\ CgPopScope /\ CgReturn /\ Kind(at) \in ScopedKinds /\ CgTop.fn \in {"define", "stmt"}
      /\ CgTop.next >= 2
  <2>1. CgPopScope /\ CgReturn
    BY Zenon DEF CgBlockLeave, CgForEnd, CgDefineEnd
  <2>2. CgBlockLeave \/ CgDefineEnd => InList("BLOCK") \/ InList("FUNC_DECL")
    BY Zenon DEF CgBlockLeave, CgDefineEnd
  <2>3. CgForEnd => CgTop.fn = "stmt" /\ Kind(at) = "FOR" /\ CgTop.next = 5
    BY DEF CgForEnd, Step
  <2> QED
    BY <2>1, <2>2, <2>3 DEF InList, ScopedKinds
<1>2. CgTop.next > 1
  BY <1>0, <1>1
<1> QED
  BY <1>1, <1>2 DEF Shape, Returns, CgHasScope, at

LEMMA DeclaringShape ==
  ASSUME CgGood, CgVarDecl \/ CgGlobal
  PROVE  Shape
<1>0. at \in Nodes /\ AstTypeOK /\ blocks \in Nat /\ CgTop.fn \in FnNames /\ 0 \in 0..blocks
  BY CgTopFacts DEF CgGood, BlocksOK
<1>1. Kind(at) = "VAR_DECL" /\ CgTop.fn \in {"stmt", "global"} /\ (Returns \/ Calls)
  BY DEF CgVarDecl, CgGlobal, Step, Returns, Calls, CallFn
<1>2. ast[at].name \in Names /\ ast[at].type \in TypeInfos
  BY <1>0, <1>1, NodeFacts, AstAssumption DEF Labelled, Kind, AstAssumption
<1>3. \E home \in 0..blocks : env' = Define(env, ast[at].name, Var(at, ast[at].type, home))
  <2>1. CASE CgVarDecl
    <3>1. insert \in 0..blocks
      BY DEF CgGood, BlocksOK
    <3> QED
      BY <2>1, <3>1 DEF CgVarDecl
  <2>2. CASE CgGlobal
    BY <1>0, <2>2 DEF CgGlobal
  <2> QED
    BY <2>1, <2>2
<1>4. PICK home \in 0..blocks : env' = Define(env, ast[at].name, Var(at, ast[at].type, home))
  BY <1>3
<1>5. Var(at, ast[at].type, home) \in Vars
  BY <1>0, <1>2 DEF Var, Vars
<1>6. ~Scoped
  BY <1>1 DEF Scoped, ScopedKinds
<1> QED
  BY <1>1, <1>2, <1>4, <1>5, <1>6 DEF Shape

\* The parameters' scope: of those with one name, the last.
LEMMA ParameterScope ==
  ASSUME AstTypeOK, UNCHANGED ast, NEW n \in Nodes, NEW home, home \in 0..blocks'
  PROVE  LET params == ast[n].params
             last(x) == CHOOSE i \in DOMAIN params :
                          params[i].name = x /\ \A j \in DOMAIN params : params[j].name = x => j <= i
         IN [x \in {params[i].name : i \in DOMAIN params} |-> Var(n, params[last(x)].type, home)]
              \in VarScopes'
<1> DEFINE params == ast[n].params
           Last(x, i) == params[i].name = x /\ \A j \in DOMAIN params : params[j].name = x => j <= i
           last(x) == CHOOSE i \in DOMAIN params : Last(x, i)
           names == {params[i].name : i \in DOMAIN params}
<1>1. params \in Seq(Parameters)
  BY NodeFacts
<1> HIDE DEF params
<1>2. Len(params) \in Nat /\ DOMAIN params = 1..Len(params)
  BY <1>1
<1>3. \A i \in DOMAIN params : params[i].name \in Names /\ params[i].type \in TypeInfos
  BY <1>1, ParameterFields
<1>4. ASSUME NEW x \in names PROVE last(x) \in DOMAIN params
  <2> DEFINE S == {i \in 1..Len(params) : params[i].name = x}
  <2>1. S \in SUBSET (1..Len(params)) /\ S # {}
    BY <1>2
  <2>2. PICK i \in S : \A j \in S : j <= i
    BY <1>2, <2>1, Extremes
  <2>3. \E i1 \in DOMAIN params : Last(x, i1)
    BY <1>2, <2>2
  <2> QED
    BY <2>3
<1>5. \A x \in names : Var(n, params[last(x)].type, home) \in Vars'
  <2> HIDE DEF last, names
  <2> QED
    BY <1>3, <1>4 DEF Var, Vars, Nodes
<1>6. names \in SUBSET Names
  BY <1>3
<1> HIDE DEF last, names
<1>7. [x \in names |-> Var(n, params[last(x)].type, home)] \in [names -> Vars']
  BY <1>5
<1>8. [x \in names |-> Var(n, params[last(x)].type, home)] \in VarScopes'
  BY <1>6, <1>7 DEF VarScopes
<1> QED
  BY <1>8 DEF params, last, names

\* Blocks, for loops and functions enter their scope.
LEMMA PushingShape ==
  ASSUME CgGood, StackMoves, UNCHANGED ast, blocks' \in Nat, blocks' >= blocks,
         CgBlockEnter \/ CgFor \/ CgDefine
  PROVE  Shape
<1>0. at \in Nodes /\ AstTypeOK /\ blocks \in Nat
  BY CgTopFacts DEF CgGood, BlocksOK
<1>1. /\ CgTop.next = 1 /\ CgTop.fn \in {"stmt", "define"} /\ Kind(at) \in ScopedKinds
  BY DEF CgBlockEnter, CgFor, CgDefine, Step, ScopedKinds
<1>2. ~CgHasScope(CgTop)
  BY <1>1 DEF CgHasScope
<1>3. NoVars \in VarScopes'
  BY <1>0, ScopesGrow
<1>4. CASE CgBlockEnter \/ CgDefine
  <2>1. stack' = [stack EXCEPT ![Len(stack)].next = 2]
    BY <1>4 DEF CgBlockEnter, CgDefine
  <2>2. /\ Depth' = Depth /\ Depth \in Nat
        /\ stack'[Depth].fn = CgTop.fn /\ stack'[Depth].node = at /\ stack'[Depth].next = 2
    BY <1>1, <2>1, NextMoves
  <2>3. KeepsScope
    BY <1>1, <2>2 DEF KeepsScope, CgHasScope
  <2>4. \E scope \in VarScopes' : env' = Append(env, scope)
    <3>1. CASE CgBlockEnter
      BY <1>3, <3>1 DEF CgBlockEnter
    <3>2. CASE CgDefine
      <4> DEFINE params == ast[at].params
                 last(x) == CHOOSE i \in DOMAIN params :
                              params[i].name = x /\ \A j \in DOMAIN params : params[j].name = x => j <= i
                 scope == [x \in {params[i].name : i \in DOMAIN params} |->
                             Var(at, params[last(x)].type, New(1))]
      <4>1. blocks' = blocks + 1 /\ env' = Append(env, scope)
        BY <3>2 DEF CgDefine
      <4>2. New(1) \in 0..blocks'
        BY <1>0, <4>1 DEF New
      <4>3. scope \in VarScopes'
        BY <1>0, <4>2, ParameterScope
      <4> HIDE DEF scope
      <4> QED
        BY <4>1, <4>3
    <3> QED
      BY <1>4, <3>1, <3>2
  <2> QED
    BY <1>2, <2>3, <2>4 DEF Shape
<1>5. CASE CgFor
  <2>1. Calls /\ env' = Append(env, NoVars)
    BY <1>5 DEF CgFor, Calls
  <2>2. Depth' >= Depth
    BY <2>1, DepthOfCall
  <2>3. stack'[Depth].fn = CgTop.fn /\ stack'[Depth].node = at /\ stack'[Depth].next = 2
    <3> DEFINE locals == [NoBlocks EXCEPT !.cond = New(1), !.body = New(2), !.post = New(3), !.end = New(4)]
    <3>1. CallWith(locals, "stmt", CgKid(1)) /\ blocks' = blocks + 4
      BY <1>5 DEF CgFor
    <3>2. locals \in [Roles -> Nat]
      <4>1. New(1) \in Nat /\ New(2) \in Nat /\ New(3) \in Nat /\ New(4) \in Nat
        BY <1>0 DEF New
      <4>2. locals = ForBlocksOf(New(1), New(2), New(3), New(4))
        BY DEF ForBlocksOf
      <4> HIDE DEF locals
      <4> QED
        BY <4>1, <4>2, ForLocals
    <3> HIDE DEF locals
    <3>3. stack'[Depth] = Resumed(locals)
      <4>1. CgKid(1) \in Nodes
        <5>1. Kind(at) = "FOR"
          BY <1>5 DEF CgFor, Step
        <5>2. Arity(at) = 4 /\ phase = "codegen"
          BY <5>1, ControlKids DEF CgGood
        <5> QED
          BY <1>0, <5>2, KidKinds DEF CgKid
      <4> QED
        BY <3>1, <3>2, <4>1, Called DEF CgGood, Depth, FnNames
    <3> QED
      BY <1>1, <3>2, <3>3, ResumedFields DEF CgGood
  <2>4. KeepsScope
    BY <1>1, <2>2, <2>3 DEF KeepsScope, CgHasScope
  <2> QED
    BY <1>2, <1>3, <2>1, <2>4 DEF Shape
<1> QED
  BY <1>4, <1>5

LEMMA EnvStep ==
  ASSUME CgGood, CgNext, ~CgStart
  PROVE  EnvOK'
<1>1. /\ StackOK' /\ StackMoves /\ UNCHANGED ast
      /\ blocks' \in Nat /\ blocks' >= blocks
  BY GraphKept DEF Moves
<1>2. Shape
  BY <1>1, ExpressionShape, LeavingShape, CallingShape, PoppingShape, DeclaringShape, PushingShape
     DEF CgNext, Shape
<1> QED
  BY <1>1, <1>2, ShapeMoves, EnvKept

-----------------------------------------------------------------------------
(* Values, functions and the histories. *)

Uses == [decl : Nodes, home : 0..blocks, block : 1..blocks]

\* What a step does to them.
DataMove ==
  /\ funcs' = funcs /\ cur_fn' \in {0} \cup Nodes /\ cg_errors' \in Nat
  /\ DOMAIN entry' \subseteq Nodes /\ \A f \in DOMAIN entry' : entry'[f] \in 1..blocks'
  /\ val' = val \/ \E v \in MachineTypes : val' = [val EXCEPT ![at] = v]
  /\ \E kinds \in SUBSET FaultKinds : faults' = faults \cup {<<at, k>> : k \in kinds}
  /\ uses' = uses \/ \E use \in Uses : uses' = uses \cup {use}
  /\ cgbind' = cgbind \/ \E d \in {0} \cup Nodes : cgbind' = [cgbind EXCEPT ![at] = d]

LEMMA DataKept ==
  ASSUME CgGood, UNCHANGED ast, blocks \in Nat, blocks' \in Nat, blocks' >= blocks, DataMove
  PROVE  DataOK'
<1>0. /\ DataOK /\ at \in Nodes /\ Nodes' = Nodes
      /\ DOMAIN val = Nodes /\ DOMAIN cgbind = Nodes /\ funcs = DeclaredFuncs
  BY CgTopFacts DEF CgGood, DataOK, Nodes
<1>1. DeclaredFuncs' = DeclaredFuncs
  BY DEF DeclaredFuncs, DeclarationsOf, FirstOf, Nodes, Kind
<1>2. DOMAIN val' = Nodes /\ \A n \in Nodes : val'[n] \in MachineTypes
  <2>1. \A n \in Nodes : val[n] \in MachineTypes
    BY <1>0 DEF DataOK
  <2>2. CASE val' = val
    BY <1>0, <2>1, <2>2
  <2>3. CASE \E v \in MachineTypes : val' = [val EXCEPT ![at] = v]
    BY <1>0, <2>1, <2>3
  <2> QED
    BY <2>2, <2>3 DEF DataMove
<1>3. DOMAIN cgbind' = Nodes /\ \A n \in Nodes : cgbind'[n] \in {0} \cup Nodes
  <2>1. \A n \in Nodes : cgbind[n] \in {0} \cup Nodes
    BY <1>0 DEF DataOK
  <2>2. CASE cgbind' = cgbind
    BY <1>0, <2>1, <2>2
  <2>3. CASE \E d \in {0} \cup Nodes : cgbind' = [cgbind EXCEPT ![at] = d]
    BY <1>0, <2>1, <2>3
  <2> QED
    BY <2>2, <2>3 DEF DataMove
<1>4. faults' \subseteq Nodes \X FaultKinds
  BY <1>0 DEF DataMove, DataOK
<1>5. uses' \subseteq [decl : Nodes, home : 0..blocks', block : 1..blocks']
  <2>1. Uses \subseteq [decl : Nodes, home : 0..blocks', block : 1..blocks']
    <3>1. 0..blocks \subseteq 0..blocks' /\ 1..blocks \subseteq 1..blocks'
      OBVIOUS
    <3> QED
      BY <3>1 DEF Uses
  <2>2. uses' \subseteq Uses
    BY <1>0 DEF DataMove, DataOK, Uses
  <2> QED
    BY <2>1, <2>2
<1>6. DOMAIN funcs \subseteq FuncNames /\ \A f \in DOMAIN funcs : funcs[f] \in Nodes
  BY <1>0 DEF DataOK
<1> QED
  BY <1>0, <1>1, <1>2, <1>3, <1>4, <1>5, <1>6 DEF DataMove, DataOK

\* What is known before a step.
LEMMA DataFacts ==
  ASSUME CgGood, blocks' \in Nat, blocks' >= blocks
  PROVE  /\ cur_fn \in {0} \cup Nodes /\ cg_errors \in Nat /\ cg_errors + 1 \in Nat
         /\ DOMAIN entry \subseteq Nodes /\ \A f \in DOMAIN entry : entry[f] \in 1..blocks'
         /\ \A n \in Nodes : val[n] \in MachineTypes
         /\ DOMAIN funcs \subseteq FuncNames /\ \A f \in DOMAIN funcs : funcs[f] \in Nodes
<1>1. DataOK /\ blocks \in Nat /\ DOMAIN val = Nodes
  BY DEF CgGood, BlocksOK, DataOK
<1>2. 1..blocks \subseteq 1..blocks'
  BY <1>1
<1> QED
  BY <1>1, <1>2 DEF DataOK

\* No use, or a use, of a value of the wrong type.
LEMMA NoFault == faults' = faults => \E kinds \in SUBSET FaultKinds : faults' = faults \cup {<<at, k>> : k \in kinds}
<1> DEFINE empty == {}
<1>1. empty \in SUBSET FaultKinds /\ faults \cup {<<at, k>> : k \in empty} = faults
  OBVIOUS
<1> QED
  BY <1>1

LEMMA FaultSets ==
  /\ \A p, k : k \in FaultKinds => If(p, k) \in SUBSET FaultKinds
  /\ \A v : TestFaults(v) \in SUBSET FaultKinds
  /\ \A v, from, to : CoerceFaults(v, from, to) \in SUBSET FaultKinds
  /\ \A v, addr, slot : StoreFaults(v, addr, slot) \in SUBSET FaultKinds
  /\ \A op, lt, rt, l, r : ArithFaults(op, lt, rt, l, r) \in SUBSET FaultKinds
  /\ ReturnFaults \in SUBSET FaultKinds
<1>1. \A p, k : k \in FaultKinds => If(p, k) \in SUBSET FaultKinds
  BY DEF If
<1>2. {"operand", "argument", "zero", "null", "store"} = FaultKinds
  BY DEF FaultKinds
<1> HIDE DEF FaultKinds
<1>3. \A v : TestFaults(v) \in SUBSET FaultKinds
  BY <1>1, <1>2 DEF TestFaults
<1>4. \A v, from, to : CoerceFaults(v, from, to) \in SUBSET FaultKinds
  BY <1>1, <1>2 DEF CoerceFaults
<1>5. \A v, addr, slot : StoreFaults(v, addr, slot) \in SUBSET FaultKinds
  BY <1>1, <1>2 DEF StoreFaults
<1>6. \A op, lt, rt, l, r : ArithFaults(op, lt, rt, l, r) \in SUBSET FaultKinds
  BY <1>1, <1>2, <1>4 DEF ArithFaults
<1>7. ReturnFaults \in SUBSET FaultKinds
  BY <1>1, <1>2, <1>4 DEF ReturnFaults
<1> QED
  BY <1>1, <1>3, <1>4, <1>5, <1>6, <1>7

\* A step that keeps the data, but for a fault.
LEMMA QuietData ==
  ASSUME CgGood, blocks' \in Nat, blocks' >= blocks, UNCHANGED kept,
         faults' = faults \/ \E kinds \in SUBSET FaultKinds : Wrong(kinds)
  PROVE  DataMove
<1>1. \E kinds \in SUBSET FaultKinds : faults' = faults \cup {<<at, k>> : k \in kinds}
  BY NoFault DEF Wrong
<1> QED
  BY <1>1, DataFacts DEF DataMove, kept

LEMMA MachineValues ==
  /\ \A t : LlvmType(t) \in {"i8", "i32", "ptr"} /\ LlvmType(t) \in MachineTypes
  /\ {"i8", "i32", "ptr", "NULL"} \subseteq MachineTypes
  /\ \A v \in MachineTypes : \A from, to : Coerce(v, from, to) \in MachineTypes
  /\ \A l \in MachineTypes : \A op, lt, rt, r : ArithValue(op, lt, rt, l, r) \in MachineTypes
<1>1. \A t : LlvmType(t) \in {"i8", "i32", "ptr"}
  BY DEF LlvmType
<1>2. {"i8", "i32", "ptr", "NULL"} \subseteq MachineTypes
  BY DEF MachineTypes
<1>3. \A v \in MachineTypes : \A from, to : Coerce(v, from, to) \in MachineTypes
  BY <1>1, <1>2 DEF Coerce
<1>4. \A l \in MachineTypes : \A op, lt, rt, r : ArithValue(op, lt, rt, l, r) \in MachineTypes
  BY <1>2, <1>3 DEF ArithValue
<1> QED
  BY <1>1, <1>2, <1>3, <1>4

\* A function returns a value.
LEMMA GivenData ==
  ASSUME CgGood, blocks' \in Nat, blocks' >= blocks, NEW v \in MachineTypes, NEW kinds \in SUBSET FaultKinds,
         Give(v, kinds), cg_errors' = cg_errors \/ cg_errors' = cg_errors + 1,
         uses' = uses \/ \E use \in Uses : uses' = uses \cup {use},
         cgbind' = cgbind \/ \E d \in {0} \cup Nodes : cgbind' = [cgbind EXCEPT ![at] = d]
  PROVE  DataMove
<1>1. /\ val' = [val EXCEPT ![at] = v] /\ faults' = faults \cup {<<at, k>> : k \in kinds}
      /\ UNCHANGED <<env, funcs, cur_fn, entry>>
  BY DEF Give, Wrong
<1>2. cg_errors' \in Nat
  BY DataFacts
<1> QED
  BY <1>1, <1>2, DataFacts DEF DataMove

LEMMA CallingData ==
  ASSUME CgGood, blocks' \in Nat, blocks' >= blocks,
         \/ CgEnd \/ CgDeclaration \/ CgPrototype \/ CgNextStatement \/ CgExprStmt \/ CgOperand
         \/ CgVarDecl \/ CgBlockEnter \/ CgBlockLeave \/ CgIfElse \/ CgIfEnd \/ CgWhile \/ CgWhileEnd
         \/ CgFor \/ CgForCond \/ CgForPost \/ CgForEnd
  PROVE  DataMove
<1> USE DEF rest, OnlyCalls
<1> HIDE DEF kept
<1>1. CgEnd \/ CgDeclaration \/ CgPrototype \/ CgNextStatement \/ CgExprStmt \/ CgOperand
        => UNCHANGED <<faults, kept>>
  BY DEF CgEnd, CgDeclaration, CgPrototype, CgNextStatement, CgExprStmt, CgOperand
<1>2. CgVarDecl \/ CgBlockEnter \/ CgBlockLeave \/ CgIfElse \/ CgIfEnd \/ CgWhile \/ CgWhileEnd
        => UNCHANGED <<faults, kept>>
  BY DEF CgVarDecl, CgBlockEnter, CgBlockLeave, CgIfElse, CgIfEnd, CgWhile, CgWhileEnd
<1>3. CgFor \/ CgForCond \/ CgForPost \/ CgForEnd => UNCHANGED <<faults, kept>>
  BY DEF CgFor, CgForCond, CgForPost, CgForEnd
<1>4. UNCHANGED <<faults, kept>>
  BY <1>1, <1>2, <1>3
<1> QED
  BY <1>4, QuietData

LEMMA TestingData ==
  ASSUME CgGood, blocks' \in Nat, blocks' >= blocks,
         CgVarInit \/ CgReturnStmt \/ CgIfThen \/ CgWhileBody \/ CgForBody \/ CgLogicalTest
  PROVE  DataMove
<1> USE DEF rest
<1> HIDE DEF kept, Wrong
<1> DEFINE OK == /\ UNCHANGED kept
                 /\ faults' = faults \/ \E kinds \in SUBSET FaultKinds : Wrong(kinds)
<1>1. CgVarInit => OK
  <2> SUFFICES ASSUME CgVarInit, ~IsNull(CgKid(1)) PROVE \E kinds \in SUBSET FaultKinds : Wrong(kinds)
    BY DEF CgVarInit
  <2> DEFINE from == rtype[CgKid(1)]
             to == ast[at].type
             v == Coerce(Value(1), from, to)
             kinds == CoerceFaults(Value(1), from, to) \cup StoreFaults(v, "ptr", to)
  <2>1. Wrong(kinds)
    BY DEF CgVarInit
  <2>2. kinds \in SUBSET FaultKinds
    <3>1. /\ CoerceFaults(Value(1), from, to) \in SUBSET FaultKinds
          /\ StoreFaults(v, "ptr", to) \in SUBSET FaultKinds
      BY FaultSets
    <3> QED
      BY <3>1
  <2> HIDE DEF kinds
  <2> QED
    BY <2>1, <2>2
<1>2. CgReturnStmt \/ CgIfThen \/ CgWhileBody \/ CgLogicalTest => OK
  BY FaultSets DEF CgReturnStmt, CgIfThen, CgWhileBody, CgLogicalTest
<1>3. CgForBody => OK
  <2> SUFFICES ASSUME CgForBody PROVE OK
    OBVIOUS
  <2>1. \E tested \in BOOLEAN : Wrong(IF tested THEN TestFaults(Value(2)) ELSE {})
    BY DEF CgForBody, IsNull
  <2>2. \A tested : (IF tested THEN TestFaults(Value(2)) ELSE {}) \in SUBSET FaultKinds
    BY FaultSets
  <2>3. UNCHANGED kept
    BY DEF CgForBody
  <2> QED
    BY <2>1, <2>2, <2>3
<1>4. OK
  BY <1>1, <1>2, <1>3
<1> QED
  BY <1>4, QuietData

\* The values of the running function's operands.
LEMMA OperandValues ==
  ASSUME CgGood
  PROVE  /\ Kind(at) \in {"ASSIGN", "BINARY", "INDEX"} => Value(1) \in MachineTypes /\ Value(2) \in MachineTypes
         /\ Kind(at) = "UNARY" => Value(1) \in MachineTypes
<1>1. /\ at \in Nodes /\ AstTypeOK /\ phase = "codegen"
  BY CgTopFacts DEF CgGood
<1>2. \A n \in Nodes : val[n] \in MachineTypes
  BY DEF CgGood, DataOK
<1>3. Arity(at) \in Nat /\ HasArity(Kind(at), Arity(at)) /\ \A i \in 1..Arity(at) : CgKid(i) \in Nodes
  BY <1>1, KidKinds DEF CgKid
<1>4. /\ Kind(at) \in {"ASSIGN", "BINARY", "INDEX"} => Arity(at) = 2
      /\ Kind(at) = "UNARY" => Arity(at) = 1
  BY <1>3 DEF HasArity
<1>5. /\ Arity(at) = 2 => CgKid(1) \in Nodes /\ CgKid(2) \in Nodes
      /\ Arity(at) = 1 => CgKid(1) \in Nodes
  BY <1>3
<1> QED
  BY <1>2, <1>4, <1>5 DEF Value

\* scope_lookup.
LEMMA CgLookupTyped ==
  ASSUME CgGood, NEW x
  PROVE  CgLookup(x) = NoVar \/ CgLookup(x) \in Vars
<1> DEFINE holders == {i \in DOMAIN env : x \in DOMAIN env[i]}
           inner == CHOOSE i \in holders : \A j \in holders : j <= i
<1>1. env \in Seq(VarScopes) /\ Len(env) \in Nat /\ DOMAIN env = 1..Len(env)
  <2>1. env \in Seq(VarScopes)
    BY DEF CgGood, EnvOK
  <2> QED
    BY <2>1
<1>2. CASE holders = {}
  BY <1>2 DEF CgLookup
<1>3. CASE holders # {}
  <2>1. holders \in SUBSET (1..Len(env))
    BY <1>1
  <2>2. \E i \in holders : \A j \in holders : j <= i
    <3> HIDE DEF holders
    <3> QED
      BY <1>1, <1>3, <2>1, Extremes
  <2>3. inner \in holders
    BY <2>2
  <2>4. inner \in DOMAIN env /\ x \in DOMAIN env[inner]
    BY <2>3
  <2>5. env[inner] \in VarScopes
    BY <1>1, <2>4
  <2>6. PICK D \in SUBSET Names : env[inner] \in [D -> Vars]
    BY <2>5 DEF VarScopes
  <2>7. CgLookup(x) = env[inner][x]
    BY <1>3 DEF CgLookup
  <2> HIDE DEF inner
  <2>8. env[inner][x] \in Vars
    BY <2>4, <2>6
  <2> QED
    BY <2>7, <2>8
<1> QED
  BY <1>2, <1>3

LEMMA IdentData ==
  ASSUME CgGood, blocks' \in Nat, blocks' >= blocks, CgIdent
  PROVE  DataMove
<1> DEFINE var == CgLookup(ast[at].name)
<1>1. PICK fn \in {"expr", "lvalue"} :
        /\ CgTop.fn = fn
        /\ cgbind' = [cgbind EXCEPT ![at] = var.decl]
        /\ IF var = NoVar
           THEN CgError(IF fn = "expr" THEN "i32" ELSE "NULL")
           ELSE /\ Give(IF fn = "expr" THEN LlvmType(var.type) ELSE "ptr", {})
                /\ uses' = uses \cup {[decl |-> var.decl, home |-> var.home, block |-> insert]}
                /\ UNCHANGED cg_errors
  BY DEF CgIdent, Evaluated
<1>2. var = NoVar \/ var \in Vars
  BY CgLookupTyped
<1>3. insert \in 1..blocks
  BY <1>1, Within DEF Running3
<1> HIDE DEF var
<1>4. CASE var = NoVar
  <2>1. var.decl = 0
    BY <1>4 DEF NoVar, Var
  <2>2. \A v : CgError(v) => Give(v, {}) /\ cg_errors' = cg_errors + 1 /\ uses' = uses
    BY DEF CgError
  <2>3. \E v \in MachineTypes : Give(v, {}) /\ cg_errors' = cg_errors + 1 /\ uses' = uses
    BY <1>1, <1>4, <2>2, MachineValues
  <2> QED
    BY <1>1, <2>1, <2>3, GivenData
<1>5. CASE var # NoVar
  <2>1. var.decl \in Nodes /\ var.home \in 0..blocks
    BY <1>2, <1>5 DEF Vars
  <2>2. [decl |-> var.decl, home |-> var.home, block |-> insert] \in Uses
    BY <1>3, <2>1 DEF Uses
  <2>3. \E v \in MachineTypes : Give(v, {}) /\ cg_errors' = cg_errors
    BY <1>1, <1>5, MachineValues
  <2> QED
    BY <1>1, <1>5, <2>1, <2>2, <2>3, GivenData
<1> QED
  BY <1>4, <1>5

LEMMA ExpressionData ==
  ASSUME CgGood, blocks' \in Nat, blocks' >= blocks,
         \/ CgLiteral \/ CgIndexAddress \/ CgDerefAddress \/ CgUnhandled
         \/ CgAssign \/ CgArith \/ CgAddress \/ CgLoad \/ CgNegate \/ CgNot \/ CgCall \/ CgLogicalMerge
  PROVE  DataMove
<1> DEFINE OK == \E v \in MachineTypes, kinds \in SUBSET FaultKinds :
                   /\ Give(v, kinds) /\ UNCHANGED <<uses, cgbind>>
                   /\ cg_errors' = cg_errors \/ cg_errors' = cg_errors + 1
           K == SUBSET FaultKinds
<1> USE DEF Evaluated, EvaluatedOp
<1>c. /\ \A v \in MachineTypes, kinds \in K : Compute(v, kinds) => OK
      /\ \A v \in MachineTypes : Pass(v) => OK
      /\ \A v \in MachineTypes : CgError(v) /\ UNCHANGED cgbind => OK
  BY DEF Compute, Pass, CgError
<1>f. \A p, q \in K : p \cup q \in K
  OBVIOUS
<1>k. /\ \A p : If(p, "null") \in K /\ If(p, "operand") \in K /\ If(p, "argument") \in K
      /\ {} \in K
  BY FaultSets DEF FaultKinds
<1> HIDE DEF OK, K, Give, Compute, Pass, CgError, If
<1>1. CgLiteral => OK
  <2>1. Kind(at) \in Literals => LiteralValue[Kind(at)] \in MachineTypes
    BY MachineValues DEF Literals, LiteralValue
  <2> QED
    BY <1>c, <2>1 DEF CgLiteral
<1>2. CgIndexAddress => OK
  <2>1. "ptr" \in MachineTypes
    BY MachineValues
  <2> QED
    BY <1>c, <1>f, <1>k, <2>1 DEF CgIndexAddress
<1>3. CgDerefAddress \/ CgAddress => OK
  BY <1>c, OperandValues DEF CgDerefAddress, CgAddress
<1>4. CgUnhandled => OK
  <2>1. "i32" \in MachineTypes /\ "NULL" \in MachineTypes
    BY MachineValues
  <2> QED
    BY <1>c, <2>1 DEF CgUnhandled
<1>5. CgAssign => OK
  <2> SUFFICES ASSUME CgAssign PROVE OK
    OBVIOUS
  <2> DEFINE from == rtype[CgKid(2)]
             to == rtype[CgKid(1)]
             v == Coerce(Value(2), from, to)
             kinds == CoerceFaults(Value(2), from, to) \cup StoreFaults(v, Value(1), to)
  <2>1. Compute(v, kinds) /\ Kind(at) = "ASSIGN"
    BY DEF CgAssign
  <2>2. v \in MachineTypes
    BY <2>1, OperandValues, MachineValues
  <2>3. kinds \in K
    <3>1. CoerceFaults(Value(2), from, to) \in K /\ StoreFaults(v, Value(1), to) \in K
      BY FaultSets DEF K
    <3> QED
      BY <1>f, <3>1
  <2> QED
    BY <1>c, <2>1, <2>2, <2>3
<1>6. CgArith => OK
  <2> SUFFICES ASSUME CgArith PROVE OK
    OBVIOUS
  <2> DEFINE v == ArithValue(ast[at].op, rtype[CgKid(1)], rtype[CgKid(2)], Value(1), Value(2))
             kinds == ArithFaults(ast[at].op, rtype[CgKid(1)], rtype[CgKid(2)], Value(1), Value(2))
  <2>1. Compute(v, kinds) /\ Kind(at) = "BINARY"
    BY DEF CgArith
  <2>2. v \in MachineTypes
    BY <2>1, OperandValues, MachineValues
  <2>3. kinds \in K
    BY FaultSets DEF K
  <2> QED
    BY <1>c, <2>1, <2>2, <2>3
<1>7. CgLoad => OK
  <2> SUFFICES ASSUME CgLoad PROVE OK
    OBVIOUS
  <2> DEFINE addr == IF Kind(at) = "INDEX" THEN val[at] ELSE Value(1)
  <2>1. Compute(LlvmType(rtype[at]), If(addr = "NULL", "null") \cup If(addr \in Ints, "operand"))
    BY DEF CgLoad
  <2>2. LlvmType(rtype[at]) \in MachineTypes
    BY MachineValues
  <2> QED
    BY <1>c, <1>f, <1>k, <2>1, <2>2
<1>8. CgNegate => OK
  <2> SUFFICES ASSUME CgNegate PROVE OK
    OBVIOUS
  <2> DEFINE v == Coerce(Value(1), rtype[CgKid(1)], rtype[at])
             kinds == If(v = "NULL", "null") \cup If(v = "ptr", "operand")
                        \cup CoerceFaults(Value(1), rtype[CgKid(1)], rtype[at])
  <2>1. Compute(v, kinds) /\ Kind(at) = "UNARY"
    BY DEF CgNegate
  <2>2. v \in MachineTypes
    BY <2>1, OperandValues, MachineValues
  <2>3. kinds \in K
    <3>1. CoerceFaults(Value(1), rtype[CgKid(1)], rtype[at]) \in K
      BY FaultSets DEF K
    <3> HIDE DEF v
    <3> QED
      BY <1>f, <1>k, <3>1
  <2> QED
    BY <1>c, <2>1, <2>2, <2>3
<1>9. CgNot => OK
  <2>1. "i32" \in MachineTypes /\ TestFaults(Value(1)) \in K
    BY MachineValues, FaultSets DEF K
  <2> QED
    BY <1>c, <2>1 DEF CgNot
<1>10. CgCall => OK
  <2> SUFFICES ASSUME CgCall PROVE OK
    OBVIOUS
  <2> DEFINE f == funcs[ast[CgKid(1)].name]
             params == ast[f].params
             args == [i \in 1..(Arity(at) - 1) |-> Value(i + 1)]
             kinds == If(\E i \in DOMAIN args : args[i] = "NULL", "null")
                        \cup If(args # [i \in DOMAIN params |-> LlvmType(params[i].type)], "argument")
  <2>1. Compute(LlvmType(ast[f].type), kinds) \/ (CgError("i32") /\ UNCHANGED cgbind)
    BY DEF CgCall
  <2>2. kinds \in K
    <3> HIDE DEF args, params
    <3> QED
      BY <1>f, <1>k
  <2>3. LlvmType(ast[f].type) \in MachineTypes /\ "i32" \in MachineTypes
    BY MachineValues
  <2> HIDE DEF kinds, f
  <2> QED
    BY <1>c, <2>1, <2>2, <2>3
<1>11. CgLogicalMerge => OK
  <2>1. "i32" \in MachineTypes /\ TestFaults(Value(2)) \in K
    BY MachineValues, FaultSets DEF K
  <2> QED
    BY <2>1 DEF CgLogicalMerge, OK, K
<1>12. OK
  BY <1>1, <1>2, <1>3, <1>4, <1>5, <1>6, <1>7, <1>8, <1>9, <1>10, <1>11
<1> QED
  BY <1>12, GivenData DEF OK

LEMMA DeclaringData ==
  ASSUME CgGood, blocks' \in Nat, blocks' >= blocks, CgDefine \/ CgDefineEnd \/ CgGlobal
  PROVE  DataMove
<1> HIDE DEF Wrong
<1>w. \A kinds \in SUBSET FaultKinds : Wrong(kinds) => faults' = faults \cup {<<at, k>> : k \in kinds}
  BY DEF Wrong
<1>0. at \in Nodes
  BY CgTopFacts DEF CgGood
<1>1. CASE CgDefine
  <2> DEFINE f == funcs[ast[at].name]
             params == ast[at].params
             p == \E i \in DOMAIN params : LlvmType(params[i].type) # LlvmType(ast[f].params[i].type)
  <2>1. /\ Kind(at) = "FUNC_DECL" /\ cur_fn' = f
        /\ entry' = IF f \in DOMAIN entry THEN entry
                    ELSE [g \in DOMAIN entry \cup {f} |-> IF g = f THEN New(1) ELSE entry[g]]
        /\ Wrong(If(p, "store")) /\ blocks' = blocks + 1
        /\ UNCHANGED <<funcs, cg_errors, val, uses, cgbind>>
    BY <1>1 DEF CgDefine, Step
  <2>2. f \in Nodes
    <3>1. funcs = DeclaredFuncs
      BY DEF CgGood, DataOK
    <3>2. ast[at].name \in DOMAIN funcs
      BY <1>0, <2>1, <3>1 DEF DeclaredFuncs
    <3> QED
      BY <3>2, DataFacts
  <2>3. If(p, "store") \in SUBSET FaultKinds
    BY FaultSets DEF FaultKinds
  <2> HIDE DEF f, p
  <2>4. DOMAIN entry' \subseteq Nodes /\ \A g \in DOMAIN entry' : entry'[g] \in 1..blocks'
    <3>1. New(1) \in 1..blocks'
      BY <2>1 DEF New, CgGood, BlocksOK
    <3> QED
      BY <2>1, <2>2, <3>1, DataFacts
  <2> QED
    BY <1>w, <2>1, <2>2, <2>3, <2>4, DataFacts DEF DataMove
<1>2. CASE CgDefineEnd
  <2>1. /\ cur_fn' = 0 /\ UNCHANGED <<funcs, cg_errors, entry, val, uses, cgbind>>
        /\ faults' = faults \/ Wrong(ReturnFaults)
    BY <1>2 DEF CgDefineEnd
  <2>2. \E kinds \in SUBSET FaultKinds : faults' = faults \cup {<<at, k>> : k \in kinds}
    BY <1>w, <2>1, FaultSets, NoFault
  <2> QED
    BY <2>1, <2>2, DataFacts DEF DataMove
<1>3. CASE CgGlobal
  <2> DEFINE init == Kind(CgKid(1))
             slot == LlvmType(ast[at].type)
             kinds == If(init \in {"INT_LIT", "CHAR_LIT"} /\ slot = "ptr", "zero")
                        \cup If(init = "STR_LIT" /\ slot # "ptr", "operand")
  <2>1. /\ cg_errors' = cg_errors + (IF init \in Literals \cup {"NULL"} THEN 0 ELSE 1)
        /\ Wrong(kinds) /\ UNCHANGED <<funcs, cur_fn, entry, val, uses, cgbind>>
    BY <1>3 DEF CgGlobal
  <2>2. kinds \in SUBSET FaultKinds
    <3>1. \A q : If(q, "zero") \in SUBSET FaultKinds /\ If(q, "operand") \in SUBSET FaultKinds
      BY FaultSets DEF FaultKinds
    <3> QED
      BY <3>1
  <2> HIDE DEF kinds, init
  <2>3. cg_errors' \in Nat
    BY <2>1, DataFacts
  <2>4. \E some \in SUBSET FaultKinds : faults' = faults \cup {<<at, k>> : k \in some}
    BY <1>w, <2>1, <2>2
  <2> QED
    BY <2>1, <2>3, <2>4, DataFacts DEF DataMove
<1> QED
  BY <1>1, <1>2, <1>3

LEMMA DataStep ==
  ASSUME CgGood, CgNext, ~CgStart
  PROVE  DataOK'
<1>1. UNCHANGED ast /\ blocks \in Nat /\ blocks' \in Nat /\ blocks' >= blocks
  BY GraphKept
<1>2. DataMove
  BY <1>1, CallingData, TestingData, IdentData, ExpressionData, DeclaringData DEF CgNext
<1> QED
  BY <1>1, <1>2, DataKept

-----------------------------------------------------------------------------
(* The invariant. *)

\* Before code generation there is nothing.
LEMMA NothingYet ==
  ASSUME CgInit
  PROVE  StackOK /\ BlocksOK /\ PhisOK /\ EnvOK /\ DataOK
<1>0. /\ stack = <<>> /\ env = <<>> /\ DOMAIN funcs = {} /\ cur_fn = 0 /\ cg_errors = 0
      /\ blocks = 0 /\ insert = 0 /\ terminated = {} /\ edges = {} /\ phis = {} /\ ~malformed
      /\ DOMAIN entry = {} /\ DOMAIN val = {} /\ faults = {} /\ uses = {} /\ DOMAIN cgbind = {}
  BY DEF CgInit
<1>1. StackOK
  <2>1. stack \in Seq(FrameRecords) /\ DOMAIN stack = {}
    BY <1>0
  <2> QED
    BY <2>1 DEF StackOK, StackShape
<1>2. BlocksOK /\ PhisOK
  <2>1. DOMAIN stack = {} /\ Len(stack) = 0
    BY <1>0
  <2>2. DOMAIN held = {} /\ owed = {}
    BY <2>1 DEF held, owed
  <2> HIDE DEF held, owed
  <2>3. 1..blocks = {} /\ ~Inside
    BY <1>0, <2>1 DEF Inside
  <2> QED
    BY <1>0, <2>1, <2>2, <2>3 DEF BlocksOK, PhisOK
<1>3. EnvOK
  BY <1>0 DEF EnvOK
<1>4. DataOK
  BY <1>0 DEF DataOK
<1> QED
  BY <1>1, <1>2, <1>3, <1>4

\* declare_func: the first declaration of each name.
LEMMA DeclaredTyped ==
  ASSUME AstTypeOK
  PROVE  DOMAIN DeclaredFuncs \subseteq FuncNames /\ \A x \in DOMAIN DeclaredFuncs : DeclaredFuncs[x] \in Nodes
<1>1. Nodes = 1..Len(ast) /\ Len(ast) \in Nat
  BY DEF AstTypeOK, Nodes
<1>2. DOMAIN DeclaredFuncs = {ast[n].name : n \in {m \in Nodes : Kind(m) = "FUNC_DECL"}}
  BY DEF DeclaredFuncs
<1>3. ASSUME NEW x \in DOMAIN DeclaredFuncs PROVE x \in FuncNames /\ DeclaredFuncs[x] \in Nodes
  <2>1. PICK n \in Nodes : Kind(n) = "FUNC_DECL" /\ x = ast[n].name
    BY <1>2
  <2>2. x \in FuncNames
    BY <2>1, NodeFacts DEF Labelled, Kind
  <2>3. DeclarationsOf(x) \in SUBSET (1..Len(ast)) /\ DeclarationsOf(x) # {}
    BY <1>1, <2>1 DEF DeclarationsOf
  <2>4. \E i \in DeclarationsOf(x) : \A j \in DeclarationsOf(x) : i <= j
    BY <1>1, <2>3, Extremes
  <2>5. FirstOf(DeclarationsOf(x)) \in DeclarationsOf(x)
    BY <2>4 DEF FirstOf
  <2>6. DeclaredFuncs[x] = FirstOf(DeclarationsOf(x))
    BY <1>2 DEF DeclaredFuncs
  <2> QED
    BY <1>1, <2>2, <2>3, <2>5, <2>6
<1> QED
  BY <1>3

LEMMA StartStep ==
  ASSUME AstTypeOK, CgInit, CgStart, UNCHANGED ast
  PROVE  StackOK' /\ BlocksOK' /\ PhisOK' /\ EnvOK' /\ DataOK' /\ stack' # <<>>
<1> DEFINE frame == CgFrame("module", 1)
<1>0. /\ phase = "codegen" /\ stack' = <<frame>> /\ env' = <<NoVars>> /\ funcs' = DeclaredFuncs
      /\ val' = [n \in Nodes |-> "none"] /\ cgbind' = [n \in Nodes |-> 0]
      /\ cur_fn' = 0 /\ cg_errors' = 0 /\ blocks' = 0 /\ insert' = 0 /\ terminated' = {} /\ edges' = {}
      /\ phis' = {} /\ ~malformed' /\ DOMAIN entry' = {} /\ faults' = {} /\ uses' = {}
  BY DEF CgStart, CgInit, irVars
<1>1. 1 \in Nodes /\ Kind(1) = "PROGRAM" /\ Nodes' = Nodes
  <2>1. 1 \in Nodes /\ Kind(1) \in {"?program", "PROGRAM"} /\ Holes = {}
    BY <1>0 DEF AstTypeOK, Nodes
  <2> QED
    BY <2>1 DEF Holes, HoleKinds, Nodes
<1>2. /\ frame \in FrameRecords /\ frame.fn = "module" /\ frame.node = 1 /\ frame.next = 1
      /\ \A r \in Roles : frame.bb[r] = 0
  BY <1>1, FrameOfCall DEF FnNames
<1> HIDE DEF frame
<1>3. /\ stack' \in Seq(FrameRecords) /\ Len(stack') = 1 /\ DOMAIN stack' = {1} /\ stack'[1] = frame
      /\ stack' # <<>>
  BY <1>0, <1>2
<1>4. Kind(1)' = "PROGRAM"
  BY <1>1 DEF Kind
<1>5. StackOK'
  <2>1. FrameRecords' = FrameRecords
    BY <1>1 DEF FrameRecords
  <2>2. FrameOK(stack[1])'
    <3>1. frame.next >= 1 /\ ast'[frame.node].kind \in KindsOf(frame.fn) /\ \A r \in Roles : frame.bb[r] <= blocks'
      BY <1>0, <1>2, <1>4 DEF KindsOf, Kind
    <3> QED
      BY <1>3, <3>1 DEF FrameOK, Kind, KindsOf
  <2>3. StackShape'
    BY <1>2, <1>3 DEF StackShape
  <2> QED
    BY <1>3, <2>1, <2>2, <2>3 DEF StackOK
<1>6. BlocksOK' /\ PhisOK'
  <2>1. \A r : ~(Holds(stack[1], r)') /\ ~(Waits(stack[1], r)') /\ ~(IsMerging(stack[1])')
    BY <1>2, <1>3 DEF Holds, Waits, Loops, IsMerging
  <2>2. DOMAIN held' = {} /\ owed' = {}
    <3>1. \A h \in (DOMAIN stack') \X Roles : ~(Holds(stack[h[1]], h[2])')
      BY <1>3, <2>1
    <3> QED
      BY <1>3, <2>1 DEF held, owed
  <2> HIDE DEF held, owed
  <2>3. 1..blocks' = {} /\ ~Inside'
    BY <1>0, <1>3 DEF Inside
  <2> QED
    BY <1>0, <1>3, <2>1, <2>2, <2>3 DEF BlocksOK, PhisOK
<1>7. EnvOK'
  <2>1. CgActive' = {}
    BY <1>2, <1>3 DEF CgActive, CgHasScope
  <2>2. NoVars \in VarScopes'
    <3>1. NoVars \in [{} -> Vars']
      BY DEF NoVars
    <3> QED
      BY <3>1 DEF VarScopes
  <2>3. env' \in Seq(VarScopes') /\ Len(env') = 1
    BY <1>0, <2>2
  <2> QED
    BY <2>1, <2>3, FS_EmptySet DEF EnvOK
<1>8. DataOK'
  <2>1. DeclaredFuncs' = DeclaredFuncs
    BY DEF DeclaredFuncs, DeclarationsOf, FirstOf, Nodes, Kind
  <2> QED
    BY <1>0, <1>1, <2>1, DeclaredTyped DEF DataOK, MachineTypes
<1> QED
  BY <1>3, <1>5, <1>6, <1>7, <1>8

\* Only the end of the module empties the call stack.
LEMMA OnlyTheEnd ==
  ASSUME CgGood, CgNext, ~CgStart, stack' = <<>>
  PROVE  phase' \in {"verify", "failed"}
<1>1. CASE CgEnd
  BY <1>1 DEF CgEnd
<1>2. CASE ~CgEnd
  <2>1. /\ StackMoves /\ UNCHANGED ast /\ blocks' \in Nat /\ blocks' >= blocks
    BY GraphKept DEF Moves
  <2>2. Shape
    BY <2>1, ExpressionShape, LeavingShape, CallingShape, PoppingShape, DeclaringShape, PushingShape
       DEF CgNext, Shape
  <2>3. Depth' = 0
    BY DEF Depth
  <2>4. Depth \in Nat /\ Depth >= 1
    BY Outside
  <2>5. Returns => FALSE
    <3>1. Returns => Depth' = Depth - 1 /\ Depth # 1
      BY ReturnMoves, Outside DEF Returns
    <3> QED
      BY <2>3, <2>4, <3>1
  <2>6. Calls \/ KeepsScope => FALSE
    BY <2>3, <2>4, DepthOfCall DEF KeepsScope
  <2> QED
    BY <1>2, <2>2, <2>5, <2>6 DEF Shape
<1> QED
  BY <1>1, <1>2

LEMMA CgInvInitially == Init => CgInv
  BY NothingYet DEF Init, CgInv

LEMMA CgStep ==
  ASSUME SemaInv, CgInv, CgNext
  PROVE  CgInv'
<1>1. AstTypeOK /\ phase = "codegen" /\ phase' \in {"codegen", "crashed", "verify", "failed"} /\ UNCHANGED ast
  BY CgPhases DEF SemaInv, CgNext
<1>2. CASE stack = <<>>
  <2>1. CgInit /\ CgStart
    <3>1. CgInit
      BY <1>1, <1>2 DEF CgInv, Idle
    <3>2. CgStart
      <4> USE <1>2 DEF Step, Evaluated, EvaluatedOp, InList
      <4>1. ~CgDeclaration /\ ~CgEnd /\ ~CgPrototype /\ ~CgDefine /\ ~CgDefineEnd /\ ~CgGlobal
        BY DEF CgDeclaration, CgEnd, CgPrototype, CgDefine, CgDefineEnd, CgGlobal
      <4>2. /\ ~CgVarDecl /\ ~CgVarInit /\ ~CgExprStmt /\ ~CgReturnStmt /\ ~CgBlockEnter
            /\ ~CgNextStatement /\ ~CgBlockLeave /\ ~CgIfThen /\ ~CgIfElse /\ ~CgIfEnd
        BY DEF CgVarDecl, CgVarInit, CgExprStmt, CgReturnStmt, CgBlockEnter, CgNextStatement,
               CgBlockLeave, CgIfThen, CgIfElse, CgIfEnd
      <4>3. /\ ~CgWhile /\ ~CgWhileBody /\ ~CgWhileEnd /\ ~CgFor /\ ~CgForCond /\ ~CgForBody
            /\ ~CgForPost /\ ~CgForEnd
        BY DEF CgWhile, CgWhileBody, CgWhileEnd, CgFor, CgForCond, CgForBody, CgForPost, CgForEnd
      <4>4. /\ ~CgOperand /\ ~CgLiteral /\ ~CgIdent /\ ~CgIndexAddress /\ ~CgDerefAddress
            /\ ~CgAssign /\ ~CgArith /\ ~CgAddress /\ ~CgLoad /\ ~CgNegate /\ ~CgNot /\ ~CgCall
            /\ ~CgUnhandled /\ ~CgLogicalTest /\ ~CgLogicalMerge
        BY DEF CgOperand, CgLiteral, CgIdent, CgIndexAddress, CgDerefAddress, CgAssign, CgArith,
               CgAddress, CgLoad, CgNegate, CgNot, CgCall, CgUnhandled, CgLogicalTest, CgLogicalMerge
      <4> QED
        BY Zenon, <4>1, <4>2, <4>3, <4>4 DEF CgNext
    <3> QED
      BY <3>1, <3>2
  <2>2. StackOK' /\ BlocksOK' /\ PhisOK' /\ EnvOK' /\ DataOK' /\ stack' # <<>>
    BY <1>1, <2>1, StartStep
  <2>3. ~Idle'
    BY <1>1, <2>2 DEF Idle
  <2> QED
    BY <2>2, <2>3 DEF CgInv
<1>3. CASE stack # <<>>
  <2>1. CgGood /\ ~CgStart
    BY <1>1, <1>3 DEF CgGood, CgInv, CgStart
  <2>2. StackOK' /\ BlocksOK' /\ PhisOK'
    BY <2>1, GraphKept
  <2>3. EnvOK' /\ DataOK'
    BY <2>1, EnvStep, DataStep
  <2>4. ~Idle'
    BY <1>1, <2>1, OnlyTheEnd DEF Idle
  <2> QED
    BY <2>2, <2>3, <2>4 DEF CgInv
<1> QED
  BY <1>2, <1>3

LEMMA CgInvKept == SemaInv /\ MainInv /\ CgInv /\ [Next]_vars => CgInv'
<1> SUFFICES ASSUME SemaInv, MainInv, CgInv, [Next]_vars PROVE CgInv'
  OBVIOUS
<1>1. CASE SemaNext /\ UNCHANGED <<cgVars, mainVars>>
  <2>1. CgInit
    BY <1>1, SemaPhases DEF CgInv, Idle
  <2>2. CgInit'
    BY <1>1, <2>1 DEF CgInit, cgVars, irVars, kept
  <2>3. (CgInit => StackOK /\ BlocksOK /\ PhisOK /\ EnvOK /\ DataOK)'
    BY NothingYet, PTL
  <2> QED
    BY <2>2, <2>3 DEF CgInv
<1>2. CASE CgNext
  BY <1>2, CgStep
<1>3. ASSUME UNCHANGED <<ast, cgVars>>, Idle' => Idle PROVE CgInv'
  <2>1. UNCHANGED <<ast, stack, env, faults, irVars, kept>>
    BY <1>3 DEF cgVars
  <2> USE <2>1
  <2>2. Nodes' = Nodes /\ FrameRecords' = FrameRecords
    BY DEF Nodes, FrameRecords
  <2>3. StackOK'
    BY <2>2 DEF CgInv, StackOK, FrameOK, StackShape, Inside, Tolerant, Simple, Kind, irVars
  <2>4. held' = held /\ owed' = owed /\ Inside' = Inside
    BY DEF held, owed, Holds, Waits, Loops, IsMerging, Kind, Kid, IsNull, Inside
  <2>5. BlocksOK' /\ PhisOK'
    BY <2>4 DEF CgInv, BlocksOK, PhisOK, PredsOf, IsMerging, Kind, Tolerant, CgTop, Open, irVars
  <2>6. EnvOK'
    BY <2>2 DEF CgInv, EnvOK, VarScopes, Vars, CgActive, CgHasScope, Kind, irVars
  <2>7. DataOK'
    <3>1. DeclaredFuncs' = DeclaredFuncs
      BY <2>2 DEF DeclaredFuncs, DeclarationsOf, FirstOf, Kind
    <3> QED
      BY <2>2, <3>1 DEF CgInv, DataOK, kept, irVars
  <2>8. Idle' => CgInit'
    BY <1>3 DEF CgInv, CgInit, irVars, kept
  <2> QED
    BY <2>3, <2>5, <2>6, <2>7, <2>8 DEF CgInv
<1>4. CASE Main
  <2>1. UNCHANGED <<ast, cgVars>> /\ ~Idle'
    BY <1>4 DEF Main, MainNoParse, MainRejected, MainVerify, MainWriteIr, MainWriteObject, Exit, Idle
  <2> QED
    BY <1>3, <2>1
<1>5. CASE UNCHANGED vars
  <2>1. UNCHANGED <<ast, cgVars>> /\ Idle' = Idle
    BY <1>5 DEF vars, cgVars, Idle
  <2> QED
    BY <1>3, <2>1
<1> QED
  BY <1>1, <1>2, <1>4, <1>5 DEF Next

LEMMA CgInvAlways == Spec => []CgInv
  BY CgInvInitially, CgInvKept, SemaInvAlways, MainHolds, PTL DEF Spec

\* The call stack is empty when codegen_emit has returned.
AtRest == malformed \in BOOLEAN /\ (phase = "verify" => stack = <<>>)

\* Only the end of the module goes to the verifier.
LEMMA MalformedStep ==
  ASSUME CgNext, malformed \in BOOLEAN
  PROVE  malformed' \in BOOLEAN /\ (phase' = "verify" => CgEnd)
<1> USE DEF Step, OnlyCalls, Wrong, irVars, rest, Emit, Branch, BranchIfOpen
<1>1. CASE CgEnd
  BY <1>1 DEF CgEnd
<1>2. CASE CgStart \/ CgDeclaration \/ CgPrototype \/ CgGlobal
  BY <1>2 DEF CgStart, CgDeclaration, CgPrototype, CgGlobal
<1>3. CASE CgDefine \/ CgDefineEnd
  BY <1>3 DEF CgDefine, CgDefineEnd, InList
<1>4. CASE CgVarDecl \/ CgVarInit \/ CgExprStmt \/ CgReturnStmt
  BY <1>4 DEF CgVarDecl, CgVarInit, CgExprStmt, CgReturnStmt, Evaluated
<1>5. CASE CgBlockEnter \/ CgNextStatement \/ CgBlockLeave
  BY <1>5 DEF CgBlockEnter, CgNextStatement, CgBlockLeave, InList
<1>6. CASE CgIfThen \/ CgIfElse \/ CgIfEnd
  BY <1>6 DEF CgIfThen, CgIfElse, CgIfEnd
<1>7. CASE CgWhile \/ CgWhileBody \/ CgWhileEnd
  BY <1>7 DEF CgWhile, CgWhileBody, CgWhileEnd
<1>8. CASE CgFor \/ CgForCond \/ CgForBody \/ CgForPost \/ CgForEnd
  BY <1>8 DEF CgFor, CgForCond, CgForBody, CgForPost, CgForEnd
<1>9. CASE CgOperand \/ CgLiteral \/ CgIdent \/ CgIndexAddress \/ CgDerefAddress \/ CgUnhandled
  BY <1>9 DEF CgOperand, CgLiteral, CgIdent, CgIndexAddress, CgDerefAddress, CgUnhandled, Evaluated,
     EvaluatedOp, Compute, Pass, CgError, Give
<1>10. CASE CgAssign \/ CgArith \/ CgAddress \/ CgLoad \/ CgNegate \/ CgNot \/ CgCall
  BY <1>10 DEF CgAssign, CgArith, CgAddress, CgLoad, CgNegate, CgNot, CgCall, Evaluated,
     EvaluatedOp, Compute, Pass, CgError, Give
<1>11. CASE CgLogicalTest \/ CgLogicalMerge
  BY <1>11 DEF CgLogicalTest, CgLogicalMerge, Give
<1> QED
  BY <1>1, <1>2, <1>3, <1>4, <1>5, <1>6, <1>7, <1>8, <1>9, <1>10, <1>11 DEF CgNext

LEMMA AtRestKept == MainInv /\ CgInv /\ AtRest /\ [Next]_vars => AtRest'
<1> SUFFICES ASSUME MainInv, CgInv, AtRest, [Next]_vars PROVE AtRest'
  OBVIOUS
<1>1. CASE SemaNext /\ UNCHANGED <<cgVars, mainVars>>
  BY <1>1, SemaPhases DEF AtRest, cgVars, irVars
<1>2. CASE CgNext
  <2>1. malformed' \in BOOLEAN /\ (phase' = "verify" => CgEnd)
    BY <1>2, MalformedStep DEF AtRest
  <2>2. ASSUME CgEnd PROVE stack' = <<>>
    <3>1. StackOK /\ stack # <<>> /\ CgTop.fn = "module"
      BY <2>2 DEF CgInv, CgEnd, Step
    <3>2. Len(stack) = 1
      <4>1. PICK k \in DOMAIN stack : k = Len(stack) /\ stack[k].fn = "module"
        BY <3>1, CgTopFacts
      <4>2. stack[k].fn = "module" <=> k = 1
        BY <3>1 DEF StackOK, StackShape
      <4> QED
        BY <4>1, <4>2
    <3>3. Len(stack') = 0 /\ stack' \in Seq(FrameRecords)
      BY <2>2, <3>1, <3>2, Returned DEF CgEnd
    <3> QED
      BY <3>3
  <2> QED
    BY <2>1, <2>2 DEF AtRest
<1>3. CASE Main
  BY <1>3 DEF AtRest, Main, MainNoParse, MainRejected, MainVerify, MainWriteIr, MainWriteObject, Exit,
     cgVars, irVars
<1>4. CASE UNCHANGED vars
  BY <1>4 DEF AtRest, vars, cgVars, irVars
<1> QED
  BY <1>1, <1>2, <1>3, <1>4 DEF Next

LEMMA AtRestAlways == Spec => []AtRest
<1>1. Init => AtRest
  BY DEF Init, CgInit, AtRest
<1> QED
  BY <1>1, AtRestKept, CgInvAlways, MainHolds, PTL DEF Spec

-----------------------------------------------------------------------------
(* The theorems. *)

(* No statement, condition or loop is generated into a block that has its terminator: the  *)
(* tests of cg_block and define_func_body and the block_terminated tests of cg_stmt leave  *)
(* no gap in a program of any shape or size (CodeGen.c).                                   *)
THEOREM NothingIsAppendedAfterATerminator == Spec => []NothingAfterTerminator
<1>1. CgInv => NothingAfterTerminator
  BY DEF CgInv, BlocksOK, NothingAfterTerminator
<1> QED
  BY <1>1, CgInvAlways, PTL

(* When define_func_body returns, every block the function appended has a terminator, the   *)
(* blocks left empty at the end of loops and ifs included (CodeGen.c).                     *)
THEOREM EveryBlockIsTerminated == Spec => []BlocksTerminated
<1>1. CgInv => BlocksTerminated
  <2> SUFFICES ASSUME CgInv, Len(stack) <= 1 PROVE terminated = 1..blocks
    BY DEF BlocksTerminated
  <2>1. Len(stack) \in Nat
    BY DEF CgInv, StackOK
  <2>2. ~Inside
    BY <2>1 DEF Inside
  <2> QED
    BY <2>2 DEF CgInv, BlocksOK
<1> QED
  BY <1>1, CgInvAlways, PTL

(* The phi of && and || lists the predecessors of its block, exactly, however the operands  *)
(* nest: lhs_bb and rhs_end_bb are read at the right moments (cg_binary, CodeGen.c).       *)
THEOREM PhisListTheirPredecessors == Spec => []PhisComplete
<1>1. CgInv => PhisComplete
  BY DEF CgInv, PhisOK, PhisComplete, PredsOf
<1> QED
  BY <1>1, CgInvAlways, PTL

(* scope_push and scope_pop match along every path through codegen_emit, the ones that a    *)
(* terminator cuts short included: the global scope is never popped (CodeGen.c).           *)
THEOREM CodeGenScopesAreBalanced == Spec => []CgScopesBalanced
<1>1. CgInv => CgScopesBalanced
  BY DEF CgInv, EnvOK, CgScopesBalanced, CgActive, CgHasScope
<1> QED
  BY <1>1, CgInvAlways, PTL

(* The state of struct CodeGen keeps its types: every branch and phi names a block that     *)
(* exists, every value has a machine type, every use a block it was allocated in.          *)
THEOREM CodeGenStateIsTyped == Spec => []CgTypeOK
<1>1. CgInv /\ AtRest => CgTypeOK
  <2> SUFFICES ASSUME CgInv, AtRest PROVE CgTypeOK
    OBVIOUS
  <2>0. StackOK /\ BlocksOK /\ PhisOK /\ EnvOK /\ DataOK /\ blocks \in Nat
    BY DEF CgInv, BlocksOK
  <2>1. stack \in Seq(CgFrames)
    <3>1. Len(stack) \in Nat /\ stack \in [1..Len(stack) -> FrameRecords]
      BY <2>0 DEF StackOK
    <3>2. \A f \in FrameRecords : FrameOK(f) => f \in CgFrames
      <4> SUFFICES ASSUME NEW f \in FrameRecords, FrameOK(f) PROVE f \in CgFrames
        OBVIOUS
      <4>1. f.bb \in [Roles -> Nat] /\ \A r \in Roles : f.bb[r] <= blocks
        BY DEF FrameRecords, FrameOK
      <4>2. f.bb \in [Roles -> 0..blocks]
        BY <2>0, <4>1
      <4> QED
        BY <4>2 DEF FrameRecords, CgFrames, FnNames
    <3>3. \A i \in 1..Len(stack) : stack[i] \in CgFrames
      BY <2>0, <3>1, <3>2 DEF StackOK
    <3>4. stack \in [1..Len(stack) -> CgFrames]
      BY <3>1, <3>3
    <3> QED
      BY <3>1, <3>4
  <2>2. \A i \in DOMAIN env : \A x \in DOMAIN env[i] : x \in Names /\ env[i][x] \in Vars
    <3> SUFFICES ASSUME NEW i \in DOMAIN env, NEW x \in DOMAIN env[i]
                 PROVE  x \in Names /\ env[i][x] \in Vars
      OBVIOUS
    <3>1. env[i] \in VarScopes
      BY <2>0 DEF EnvOK
    <3>2. PICK D \in SUBSET Names : env[i] \in [D -> Vars]
      BY <3>1 DEF VarScopes
    <3> QED
      BY <3>2
  <2>3. /\ insert \in 0..blocks /\ terminated \subseteq 1..blocks /\ malformed \in BOOLEAN
        /\ edges \subseteq (1..blocks) \X (1..blocks)
    BY <2>0 DEF BlocksOK, PhisOK, AtRest
  <2>4. \A p \in phis : p.at \in 1..blocks /\ p.from \subseteq 1..blocks
    BY <2>0 DEF PhisOK, PredsOf
  <2> QED
    BY <2>0, <2>1, <2>2, <2>3, <2>4 DEF CgTypeOK, DataOK, Vars
<1> QED
  BY <1>1, CgInvAlways, AtRestAlways, PTL

(* LLVM's verifier never finds fault with the blocks, the terminators and the phis of a     *)
(* module codegen_emit returns: what it can still reject are types and dominance.          *)
THEOREM TheGraphPassesTheVerifier == Spec => [](phase = "verify" => WellFormedBlocks)
<1>1. CgInv /\ AtRest => (phase = "verify" => WellFormedBlocks)
  <2> SUFFICES ASSUME CgInv, AtRest, phase = "verify" PROVE WellFormedBlocks
    OBVIOUS
  <2>1. Len(stack) = 0
    BY DEF AtRest
  <2>2. ~Inside
    BY <2>1 DEF Inside
  <2>3. ~malformed /\ terminated = 1..blocks
    BY <2>2 DEF CgInv, BlocksOK
  <2>4. \A b : PredsOf(b) = Preds(b)
    BY DEF CgInv, PhisOK, PredsOf, Preds
  <2> QED
    BY <2>3, <2>4 DEF CgInv, PhisOK, WellFormedBlocks
<1> QED
  BY <1>1, CgInvAlways, AtRestAlways, PTL

-----------------------------------------------------------------------------
(* Calls.  Sema resolves a callee in the scopes of one pass, CodeGen in the table of all *)
(* functions; both come to the first declaration of the name.                            *)

-----------------------------------------------------------------------------
(* Errors are counted, never taken back. *)

LEMMA RuleDiags ==
  /\ \A s, t : AssignRule(s, t).diag \in Diags
  /\ \A op, s, t : BinaryRule(op, s, t).diag \in Diags
  /\ \A op, s : UnaryRule(op, s).diag \in Diags
  /\ \A s, t : IndexRule(s, t).diag \in Diags
<1>1. \A s, t : AssignRule(s, t).diag \in Diags
  BY ResultFields, ConversionIsDiag DEF AssignRule
<1>2. \A op, s, t : BinaryRule(op, s, t).diag \in Diags
  BY ResultFields, SilentIsDiag DEF BinaryRule, Diag, Diags
<1>3. \A op, s : UnaryRule(op, s).diag \in Diags
  BY ResultFields, DiagIsDiag, SilentIsDiag DEF UnaryRule
<1>4. \A s, t : IndexRule(s, t).diag \in Diags
  BY ResultFields, SilentIsDiag DEF IndexRule, Diag, Diags
<1> QED
  BY <1>1, <1>2, <1>3, <1>4

\* A function that returns reports some diagnostics; for a call, one error unless it is callable.
LEMMA ExpressionErrors ==
  ASSUME Good,
         \/ AnalyseLiteral \/ AnalyseIdent \/ AnalyseAssign \/ AnalyseBinary
         \/ AnalyseUnary \/ AnalyseCall \/ AnalyseIndex \/ AnalyseMember
  PROVE  /\ error_count' \in Nat /\ error_count' >= error_count
         /\ AnalyseCall /\ error_count' = 0 => Callable
<1>1. ASSUME NEW result, result.diag \in Diags, Resolve(result)
      PROVE  error_count' \in Nat /\ error_count' >= error_count
             /\ (result.diag.err = 1 => error_count' > 0)
  BY <1>1, Reported DEF Resolve, Good
<1>2. CASE AnalyseLiteral \/ AnalyseMember \/ AnalyseIdent
  <2>1. \E result : result.diag \in Diags /\ Resolve(result)
    BY <1>2, ResultFields, SilentIsDiag DEF AnalyseLiteral, AnalyseMember, AnalyseIdent, Diag, Diags
  <2>2. ~AnalyseCall
    BY <1>2 DEF AnalyseLiteral, AnalyseMember, AnalyseIdent, AnalyseCall, Leaving, Running, Literals
  <2> QED
    BY <1>1, <2>1, <2>2
<1>3. CASE AnalyseAssign \/ AnalyseBinary \/ AnalyseUnary \/ AnalyseIndex
  <2>1. \E result : result.diag \in Diags /\ Resolve(result)
    BY <1>3, RuleDiags DEF AnalyseAssign, AnalyseBinary, AnalyseUnary, AnalyseIndex
  <2>2. ~AnalyseCall
    BY <1>3 DEF AnalyseAssign, AnalyseBinary, AnalyseUnary, AnalyseIndex, AnalyseCall, Leaving, Running
  <2> QED
    BY <1>1, <2>1, <2>2
<1>4. CASE AnalyseCall
  <2> DEFINE result == IF Callable
                       THEN Result(CalleeSymbol.type,
                                   Diag(Len(CalleeSymbol.params) # Arity(node) - 1, FALSE))
                       ELSE Result(Unknown, Error)
  <2>1. Resolve(result)
    BY <1>4 DEF AnalyseCall
  <2>2. result.diag \in Diags /\ (~Callable => result.diag.err = 1)
    BY ResultFields, SilentIsDiag DEF Diag, Diags
  <2> HIDE DEF result
  <2>3. error_count' \in Nat /\ error_count' >= error_count /\ (~Callable => error_count' > 0)
    BY <1>1, <2>1, <2>2
  <2> QED
    BY <2>3
<1> QED
  BY <1>2, <1>3, <1>4

LEMMA StatementErrors ==
  ASSUME Good,
         \/ AnalyseChild \/ EnterScope \/ LeaveScope \/ LeaveFunction
         \/ DeclareVariable \/ AnalyseReturn \/ LeaveStatement
  PROVE  error_count' \in Nat /\ error_count' >= error_count
<1>0. error_count \in Nat /\ warning_count \in Nat
  BY DEF Good
<1>1. ASSUME NEW diag \in Diags, Report(diag)
      PROVE  error_count' \in Nat /\ error_count' >= error_count
  BY <1>0, <1>1, Reported
<1>2. CASE AnalyseChild \/ LeaveScope \/ LeaveStatement
  BY <1>1, <1>2, SilentIsDiag DEF AnalyseChild, LeaveScope, LeaveStatement
<1>3. CASE EnterScope
  BY <1>0, <1>3 DEF EnterScope
<1>4. CASE LeaveFunction
  BY <1>1, <1>4, DiagIsDiag DEF LeaveFunction
<1>5. CASE AnalyseReturn
  BY <1>1, <1>5, DiagIsDiag, SilentIsDiag, ConversionIsDiag DEF AnalyseReturn
<1>6. CASE DeclareVariable
  <2> DEFINE conversion == IF Fresh(Name) /\ ~IsNull(Kid(node, 1))
                           THEN Conversion(ast[node].type, rtype[Kid(node, 1)]) ELSE Silent
  <2>1. conversion \in Diags
    BY ConversionIsDiag, SilentIsDiag
  <2>2. error_count' = error_count + conversion.err + (IF Fresh(Name) THEN 0 ELSE 1)
    BY <1>6 DEF DeclareVariable
  <2> HIDE DEF conversion
  <2>3. conversion.err \in {0, 1}
    BY <2>1 DEF Diags
  <2> QED
    BY <1>0, <2>2, <2>3
<1> QED
  BY <1>2, <1>3, <1>4, <1>5, <1>6

LEMMA FunctionErrors ==
  ASSUME Good, frames # <<>>, EnterFunction
  PROVE  error_count' \in Nat /\ error_count' >= error_count
<1>0. error_count \in Nat /\ AstTypeOK /\ node \in Nodes
  BY TopFacts DEF Good
<1>1. \A s : Redeclaration(s) \in Nat
  BY DEF Redeclaration
<1>2. /\ Len(Params) \in Nat /\ Cardinality(ParamNames) \in Nat
      /\ Len(Params) - Cardinality(ParamNames) \in Nat
  BY <1>0, ParamFacts
<1>3. \E s : \/ error_count' = error_count + 1
             \/ error_count' = error_count + Redeclaration(s)
             \/ error_count' = error_count + Redeclaration(s) + Len(Params) - Cardinality(ParamNames)
  BY DEF EnterFunction
<1> QED
  BY <1>0, <1>1, <1>2, <1>3

-----------------------------------------------------------------------------
(* The global scope has the first declaration of each function that the analysis has come to,   *)
(* and no other scope has a function.                                                            *)

IsFirst(s, x) == s.decl \in DeclarationsOf(x) /\ \A d \in DeclarationsOf(x) : s.decl <= d
ScopeFirst(scope, i) == \A x \in DOMAIN scope : scope[x].kind = "FUNC" => i = 1 /\ IsFirst(scope[x], x)
FuncsFirst(chain) == \A i \in DOMAIN chain : ScopeFirst(chain[i], i)
NamedUpTo(scope, d) ==
  \A j \in 1..Arity(1) : j < d /\ Kind(Kid(1, j)) = "FUNC_DECL" => ast[Kid(1, j)].name \in DOMAIN scope

GlobalsOK == FuncsFirst(scopes) /\ NamedUpTo(scopes[1], Done)

LEMMA GlobalsNext ==
  ASSUME UNCHANGED ast, FuncsFirst(scopes'), NamedUpTo(scopes'[1], DoneNext)
  PROVE  GlobalsOK'
<1>1. Done' = DoneNext
  BY DEF Done, DoneNext
<1> QED
  BY <1>1 DEF GlobalsOK, FuncsFirst, ScopeFirst, IsFirst, NamedUpTo, DeclarationsOf, Nodes, Kind, Kid, Arity

LEMMA LookupFinds ==
  ASSUME NEW chain \in Seq(ScopeSet), NEW x
  PROVE  LookupIn(chain, x) = NoSymbol
           \/ \E i \in DOMAIN chain : x \in DOMAIN chain[i] /\ LookupIn(chain, x) = chain[i][x]
<1>1. CASE \A i \in DOMAIN chain : x \notin DOMAIN chain[i]
  BY <1>1 DEF LookupIn
<1>2. CASE \E i \in DOMAIN chain : x \in DOMAIN chain[i]
  <2> DEFINE Inner(i) == /\ x \in DOMAIN chain[i]
                         /\ \A j \in DOMAIN chain : j > i => x \notin DOMAIN chain[j]
             inner == CHOOSE i \in DOMAIN chain : Inner(i)
             holders == {i \in 1..Len(chain) : x \in DOMAIN chain[i]}
  <2>1. \E i \in DOMAIN chain : Inner(i)
    <3>1. DOMAIN chain = 1..Len(chain) /\ Len(chain) \in Nat
      OBVIOUS
    <3>2. holders # {} /\ holders \in SUBSET (1..Len(chain))
      BY <1>2, <3>1
    <3>3. PICK i \in holders : \A j \in holders : j <= i
      BY <3>1, <3>2, Extremes, ZenonT(30)
    <3> QED
      BY <3>1, <3>3
  <2>2. inner \in DOMAIN chain /\ Inner(inner)
    BY <2>1
  <2>3. LookupIn(chain, x) = chain[inner][x]
    BY <1>2 DEF LookupIn
  <2> QED
    BY <2>2, <2>3
<1> QED
  BY <1>1, <1>2

\* A name is looked up to a function only if that is the first of the name.
LEMMA LookupFirst ==
  ASSUME Good, FuncsFirst(scopes), NEW x, Lookup(x).kind = "FUNC"
  PROVE  IsFirst(Lookup(x), x)
<1>1. NoSymbol.kind # "FUNC"
  BY DEF NoSymbol, Symbol
<1>2. PICK i \in DOMAIN scopes : x \in DOMAIN scopes[i] /\ Lookup(x) = scopes[i][x]
  BY <1>1, LookupFinds DEF Lookup, Good
<1> QED
  BY <1>2 DEF FuncsFirst, ScopeFirst

\* A function declaration is a declaration of the program.
LEMMA DeclarationsAreGlobal ==
  ASSUME AstTypeOK, TreeOK, phase = "sema", NEW d \in Nodes, Kind(d) = "FUNC_DECL"
  PROVE  \E j \in 1..Arity(1) : d = Kid(1, j)
<1>1. d # 1
  BY KindsOfKids
<1>2. Parent(d) \in Nodes /\ \E i \in 1..Arity(Parent(d)) : Kid(Parent(d), i) = d
  BY <1>1, ParentFacts
<1>3. Kind(Parent(d)) = "PROGRAM"
  BY <1>2, KindsOfKids
<1>4. ASSUME NEW n \in Nodes, n # 1 PROVE Kind(n) # "PROGRAM"
  <2>1. Parent(n) \in Nodes /\ \E i \in 1..Arity(Parent(n)) : Kid(Parent(n), i) = n
    BY <1>4, ParentFacts
  <2> QED
    BY <2>1, KindsOfKids
<1> QED
  BY <1>2, <1>3, <1>4

LEMMA FirstDeclared ==
  ASSUME AstTypeOK, TreeOK, phase = "sema", NEW i \in 1..Arity(1), NEW scope, NamedUpTo(scope, i),
         Kind(Kid(1, i)) = "FUNC_DECL", ast[Kid(1, i)].name \notin DOMAIN scope
  PROVE  IsFirst(FuncSymbol(Kid(1, i)), ast[Kid(1, i)].name)
<1> DEFINE n == Kid(1, i)
           x == ast[n].name
<1>0. n \in Nodes /\ Arity(1) \in Nat /\ 1 \in Nodes /\ \A j \in 1..Arity(1) : Kid(1, j) \in Nodes
  BY ParentFacts, NodeFacts
<1>1. FuncSymbol(n).decl = n
  BY DEF FuncSymbol, Symbol
<1>2. n \in DeclarationsOf(x)
  BY <1>0 DEF DeclarationsOf
<1>3. ASSUME NEW d \in DeclarationsOf(x) PROVE n <= d
  <2>1. d \in Nodes /\ Kind(d) = "FUNC_DECL" /\ ast[d].name = x
    BY <1>3 DEF DeclarationsOf
  <2>2. PICK j \in 1..Arity(1) : d = Kid(1, j)
    BY <2>1, DeclarationsAreGlobal
  <2>3. ~(j < i)
    BY <2>1, <2>2 DEF NamedUpTo
  <2>4. i < j => n < d
    BY <1>0, <2>2 DEF TreeOK, Ascending
  <2>5. n \in Int /\ d \in Int
    BY <1>0, <2>1, ParentFacts
  <2> QED
    BY <1>0, <2>2, <2>3, <2>4, <2>5
<1> QED
  BY <1>1, <1>2, <1>3 DEF IsFirst

LEMMA NamedGrows ==
  ASSUME NEW scope, NEW wider, DOMAIN scope \subseteq DOMAIN wider, NEW d, NamedUpTo(scope, d)
  PROVE  NamedUpTo(wider, d)
  BY DEF NamedUpTo

LEMMA NamedOneMore ==
  ASSUME NEW scope, NEW d \in Int, NamedUpTo(scope, d),
         Kind(Kid(1, d)) = "FUNC_DECL" => ast[Kid(1, d)].name \in DOMAIN scope
  PROVE  NamedUpTo(scope, d + 1)
<1>1. \A j \in Nat : j < d + 1 => j < d \/ j = d
  OBVIOUS
<1>2. \A j \in 1..Arity(1) : j \in Nat
  OBVIOUS
<1> QED
  BY <1>1, <1>2 DEF NamedUpTo

\* How far the program has been declared, by how a step moves the call stack.
LEMMA DoneCall ==
  ASSUME Good, frames # <<>>, FramesOK, TreeOK, phase = "sema", AnalyseChild
  PROVE  DoneNext = Done
<1> DEFINE child == VisitKid(node, Top.next)
<1>1. /\ Height' \in Height..(Height + 1) /\ Top.next \in 1..VisitCount(node)
      /\ \A i \in 1..(Height - 1) : frames'[i] = frames[i]
      /\ frames'[Height].next = Top.next + 1
      /\ IsNull(child) \/ Height' = Height + 1
  BY CallFacts
<1>2. node = frames[Height].node /\ Top = frames[Height] /\ node \in Nodes
  BY VisitFacts DEF node, Top, Height
<1>s. Height \in Nat /\ Height >= 1 /\ AstTypeOK /\ Kind(1) = "PROGRAM" /\ frames[1].next \in Nat
  BY SecondFacts
<1>3. CASE Height = 1
  <2>1. Kind(child) # "NULL"
    BY <1>1, <1>2, <1>s, <1>3, VisitKinds DEF FramesOK, VisitOK, KindsAt
  <2>2. Height' = 2 /\ frames'[1].next = frames[1].next + 1
    BY <1>1, <1>2, <1>3, <2>1 DEF IsNull
  <2> QED
    BY <1>s, <1>3, <2>2 DEF Done, DoneNext
<1>4. CASE Height >= 2
  <2>1. frames'[1] = frames[1] /\ Height' >= 2
    BY <1>1, <1>s, <1>4
  <2> QED
    BY <1>s, <1>4, <2>1 DEF Done, DoneNext
<1> QED
  BY <1>s, <1>3, <1>4

LEMMA DoneEnter ==
  ASSUME Good, frames # <<>>, FramesOK, TreeOK, Height >= 2,
         frames' = [frames EXCEPT ![Len(frames)].next = 1]
  PROVE  DoneNext = Done
<1>1. Height' = Height /\ \A i \in 1..(Height - 1) : frames'[i] = frames[i]
  BY EnterFacts DEF Good
<1>2. Height \in Nat
  BY SecondFacts
<1>3. frames'[1] = frames[1]
  BY <1>1, <1>2
<1> QED
  BY <1>1, <1>3 DEF Done, DoneNext

LEMMA DoneReturn ==
  ASSUME Good, frames # <<>>, FramesOK, TreeOK, Height >= 2, Return
  PROVE  IF Height = 2 THEN /\ DoneNext = Done + 1 /\ Done \in 1..Arity(1)
                            /\ node = Kid(1, Done) /\ Done \in Int
                       ELSE DoneNext = Done
<1>1. Height' = Height - 1 /\ \A i \in 1..(Height - 1) : frames'[i] = frames[i]
  BY ReturnFacts DEF Good
<1>2. /\ Height \in Nat /\ Arity(1) \in Nat /\ frames[1].next \in Nat
      /\ frames[1].next - 1 \in 1..Arity(1) /\ frames[2].node = Kid(1, frames[1].next - 1)
  BY SecondFacts
<1>3. frames'[1] = frames[1]
  BY <1>1, <1>2
<1>4. CASE Height = 2
  <2>1. node = frames[2].node
    BY <1>4 DEF node, Top, Height
  <2> QED
    BY <1>1, <1>2, <1>3, <1>4, <2>1 DEF Done, DoneNext
<1>5. CASE Height # 2
  BY <1>1, <1>2, <1>3, <1>5 DEF Done, DoneNext
<1> QED
  BY <1>4, <1>5

\* The scopes a step leaves.
LEMMA PrefixFirst ==
  ASSUME Good, frames # <<>>, FuncsFirst(scopes)
  PROVE  /\ Len(scopes) \in Nat /\ Len(scopes) >= 1 /\ DOMAIN scopes = 1..Len(scopes)
         /\ DOMAIN Enclosing = 1..(Len(scopes) - 1)
         /\ \A i \in 1..(Len(scopes) - 1) : Enclosing[i] = scopes[i]
         /\ FuncsFirst(Enclosing)
<1>1. /\ Len(scopes) \in Nat /\ Len(scopes) >= 1 /\ scopes \in Seq(ScopeSet)
      /\ Enclosing \in Seq(ScopeSet) /\ Len(Enclosing) = Len(scopes) - 1
  BY ScopeSteps DEF Good
<1>2. \A i \in 1..(Len(scopes) - 1) : Enclosing[i] = scopes[i]
  BY <1>1 DEF Enclosing
<1>3. DOMAIN scopes = 1..Len(scopes) /\ DOMAIN Enclosing = 1..(Len(scopes) - 1)
  BY <1>1
<1>4. \A i \in 1..(Len(scopes) - 1) : i \in 1..Len(scopes)
  BY <1>1
<1> QED
  BY <1>1, <1>2, <1>3, <1>4 DEF FuncsFirst

LEMMA AppendFirst ==
  ASSUME NEW chain \in Seq(ScopeSet), FuncsFirst(chain), NEW scope \in ScopeSet,
         ScopeFirst(scope, Len(chain) + 1)
  PROVE  FuncsFirst(Append(chain, scope))
<1> DEFINE longer == Append(chain, scope)
<1>1. /\ DOMAIN longer = 1..(Len(chain) + 1) /\ Len(chain) \in Nat /\ DOMAIN chain = 1..Len(chain)
      /\ longer[Len(chain) + 1] = scope /\ \A i \in 1..Len(chain) : longer[i] = chain[i]
  BY AppendProperties
<1> HIDE DEF longer
<1>2. \A i \in 1..(Len(chain) + 1) : i \in 1..Len(chain) \/ i = Len(chain) + 1
  BY <1>1
<1>3. FuncsFirst(longer)
  BY <1>1, <1>2 DEF FuncsFirst
<1> QED
  BY <1>3 DEF longer

LEMMA CallGlobals ==
  ASSUME Good, frames # <<>>, FramesOK, TreeOK, phase = "sema", GlobalsOK, AnalyseChild,
         UNCHANGED <<ast, scopes>>
  PROVE  GlobalsOK'
  BY DoneCall, GlobalsNext DEF GlobalsOK

LEMMA EnterScopeGlobals ==
  ASSUME Good, frames # <<>>, FramesOK, TreeOK, phase = "sema", GlobalsOK, EnterScope, UNCHANGED ast
  PROVE  GlobalsOK'
<1>1. /\ frames' = [frames EXCEPT ![Len(frames)].next = 1] /\ scopes' = Append(scopes, EmptyScope)
      /\ Kind(node) \in {"BLOCK", "FOR"}
  BY DEF EnterScope, Enter, Entering, Running
<1>2. Height >= 3 /\ Height \in Nat
  BY <1>1, ReturnsInBody, SecondFacts DEF StmtKinds
<1>3. DoneNext = Done
  BY <1>1, <1>2, DoneEnter
<1>4. scopes \in Seq(ScopeSet) /\ Len(scopes) >= 1 /\ Len(scopes) \in Nat
  BY ScopeSteps DEF Good
<1>5. ScopeFirst(EmptyScope, Len(scopes) + 1) /\ EmptyScope \in ScopeSet
  BY ScopeFacts DEF ScopeFirst, EmptyScope
<1>6. FuncsFirst(scopes')
  BY <1>1, <1>4, <1>5, AppendFirst DEF GlobalsOK
<1>7. scopes'[1] = scopes[1]
  BY <1>1, <1>4, <1>5, AppendProperties
<1> QED
  BY <1>3, <1>6, <1>7, GlobalsNext DEF GlobalsOK

\* A parameter is never a function.
LEMMA ParamsFirst == ScopeFirst(ParamScope, 2)
  BY DEF ScopeFirst, ParamScope, VarSymbol, Symbol

LEMMA InsertedFirst ==
  ASSUME NEW scope, NEW x, NEW s, ScopeFirst(scope, 1), Insert(scope, x, s)[x] = s,
         s.kind = "FUNC" => IsFirst(s, x)
  PROVE  DOMAIN scope \subseteq DOMAIN Insert(scope, x, s) /\ ScopeFirst(Insert(scope, x, s), 1)
<1> DEFINE wider == Insert(scope, x, s)
<1>1. DOMAIN wider = DOMAIN scope \cup {x} /\ \A y \in DOMAIN scope : wider[y] = scope[y]
  BY DEF Insert
<1> HIDE DEF wider
<1>2. wider[x] = s
  BY DEF wider
<1>3. ScopeFirst(wider, 1)
  BY <1>1, <1>2 DEF ScopeFirst
<1> QED
  BY <1>1, <1>3 DEF wider

LEMMA FunctionGlobals ==
  ASSUME Good, frames # <<>>, FramesOK, TreeOK, phase = "sema", GlobalsOK, EnterFunction, UNCHANGED ast
  PROVE  GlobalsOK'
<1>1. Entering("FUNC_DECL") /\ Kind(node) = "FUNC_DECL" /\ node = frames[Height].node
  BY DEF EnterFunction, Entering, Running, node, Top, Height
<1>2. Height = 2 /\ Len(scopes) = 1
  BY <1>1, GlobalAlone
<1>s. /\ AstTypeOK /\ frames[1].next \in Nat /\ frames[1].next - 1 \in 1..Arity(1)
      /\ frames[2].node = Kid(1, frames[1].next - 1)
  BY <1>2, SecondFacts
<1> DEFINE here == frames[1].next - 1
<1>3. Done = here /\ here \in 1..Arity(1) /\ node = Kid(1, here) /\ here \in Int
  BY <1>1, <1>2, <1>s DEF Done
<1>4. PICK symbol :
        /\ IF Name \in DOMAIN scopes[1] THEN symbol = scopes[1][Name] ELSE symbol = FuncSymbol(node)
        /\ Name \in DOMAIN scopes'[1] /\ scopes'[1][Name] = symbol
        /\ scopes'[1] \in {scopes[1], Insert(scopes[1], Name, symbol)}
        /\ \/ Return /\ Len(scopes') = 1
           \/ /\ frames' = [frames EXCEPT ![Len(frames)].next = 1]
              /\ Len(scopes') = 2 /\ scopes'[2] = ParamScope
  BY EnterFunctionFacts
<1>5. 1 \in DOMAIN scopes /\ ScopeFirst(scopes[1], 1) /\ NamedUpTo(scopes[1], here)
  <2>1. scopes \in Seq(ScopeSet)
    BY DEF Good
  <2>2. 1 \in DOMAIN scopes
    BY <1>2, <2>1
  <2> QED
    BY <1>3, <2>2 DEF GlobalsOK, FuncsFirst
<1>6. symbol.kind = "FUNC" => IsFirst(symbol, Name)
  <2>1. CASE Name \in DOMAIN scopes[1]
    BY <1>4, <1>5, <2>1 DEF ScopeFirst
  <2>2. CASE Name \notin DOMAIN scopes[1]
    BY <1>1, <1>3, <1>4, <1>5, <1>s, <2>2, FirstDeclared DEF Name
  <2> QED
    BY <2>1, <2>2
<1>7. DOMAIN scopes[1] \subseteq DOMAIN scopes'[1] /\ ScopeFirst(scopes'[1], 1)
  <2>1. CASE scopes'[1] = scopes[1]
    BY <1>5, <2>1
  <2>2. CASE scopes'[1] = Insert(scopes[1], Name, symbol)
    <3>1. symbol.kind = "FUNC" => IsFirst(symbol, Name)
      BY <1>6
    <3>2. Insert(scopes[1], Name, symbol)[Name] = symbol
      BY <1>4, <2>2
    <3>3. /\ DOMAIN scopes[1] \subseteq DOMAIN Insert(scopes[1], Name, symbol)
          /\ ScopeFirst(Insert(scopes[1], Name, symbol), 1)
      BY <1>5, <3>1, <3>2, InsertedFirst
    <3> QED
      BY <2>2, <3>3
  <2> QED
    BY <1>4, <2>1, <2>2
<1>8. NamedUpTo(scopes'[1], here)
  BY <1>5, <1>7, NamedGrows
<1>9. NamedUpTo(scopes'[1], DoneNext)
  <2>1. CASE Return
    <3>1. DoneNext = here + 1
      BY <1>2, <1>3, <2>1, DoneReturn
    <3>2. ast[Kid(1, here)].name \in DOMAIN scopes'[1]
      BY <1>3, <1>4 DEF Name
    <3> HIDE DEF here
    <3> QED
      BY <1>3, <1>8, <3>1, <3>2, NamedOneMore
  <2>2. CASE frames' = [frames EXCEPT ![Len(frames)].next = 1]
    <3>1. DoneNext = here
      BY <1>2, <1>3, <2>2, DoneEnter
    <3> QED
      BY <1>8, <3>1
  <2> QED
    BY <1>4, <2>1, <2>2
<1>10. FuncsFirst(scopes')
  <2>1. scopes' \in Seq(ScopeSet)'
    <3>1. SemaInv'
      BY EnterFunctionStep
    <3> QED
      BY <3>1 DEF SemaInv
  <2>2. DOMAIN scopes' = 1..Len(scopes')
    BY <2>1
  <2>3. CASE Len(scopes') = 1
    <3>1. \A i \in DOMAIN scopes' : i = 1
      BY <2>2, <2>3
    <3> QED
      BY <1>7, <3>1 DEF FuncsFirst
  <2>4. CASE Len(scopes') = 2 /\ scopes'[2] = ParamScope
    <3>1. \A i \in DOMAIN scopes' : i = 1 \/ i = 2
      BY <2>2, <2>4
    <3> QED
      BY <1>7, <2>4, <3>1, ParamsFirst DEF FuncsFirst
  <2> QED
    BY <1>4, <2>3, <2>4
<1> QED
  BY <1>9, <1>10, GlobalsNext

LEMMA LeaveFunctionGlobals ==
  ASSUME Good, frames # <<>>, FramesOK, TreeOK, FuncOK, phase = "sema", GlobalsOK, LeaveFunction, UNCHANGED ast
  PROVE  GlobalsOK'
<1>1. Leaving(ScopedKinds) /\ scopes' = Enclosing /\ Return
  BY DEF LeaveFunction, Leaving, Running, ScopedKinds, PopScope
<1>2. Len(scopes) >= 2
  BY <1>1, LeavingHasScope, ScopedTop
<1>3. FuncsFirst(Enclosing) /\ Enclosing[1] = scopes[1]
  <2>1. 1 \in 1..(Len(scopes) - 1)
    BY <1>2, PrefixFirst DEF GlobalsOK
  <2> QED
    BY <2>1, PrefixFirst DEF GlobalsOK
<1>4. Height = 2 /\ InBody
  BY LeaveFunctionFunc
<1>5. /\ DoneNext = Done + 1 /\ Done \in 1..Arity(1)
      /\ node = Kid(1, Done) /\ Done \in Int
  BY <1>1, <1>4, DoneReturn
<1>6. ast[node].name \in DOMAIN scopes[1]
  BY <1>4 DEF FuncOK, FuncName, node, Top, Height
<1>7. NamedUpTo(scopes[1], Done + 1)
  BY <1>5, <1>6, NamedOneMore DEF GlobalsOK
<1> QED
  BY <1>1, <1>3, <1>5, <1>7, GlobalsNext

LEMMA PopsGlobals ==
  ASSUME Good, frames # <<>>, FramesOK, TreeOK, phase = "sema", GlobalsOK, Pops, GlobalsKept, UNCHANGED ast,
         UNCHANGED scopes \/ scopes' = Enclosing \/ DeclareVariable
  PROVE  GlobalsOK'
<1>1. Height >= 2 /\ Return /\ Kind(node) # "FUNC_DECL"
  <2>1. Height \in Nat /\ Height >= 1 /\ node = frames[Height].node
    BY TopFacts DEF Height, Good, node, Top
  <2>2. Height = 1 => Kind(node) = "PROGRAM"
    BY <2>1 DEF FramesOK, VisitOK, KindsAt
  <2> QED
    BY <2>1, <2>2 DEF Pops
<1>2. NamedUpTo(scopes'[1], Done)
  <2>1. DOMAIN scopes[1] \subseteq DOMAIN scopes'[1]
    BY DEF GlobalsKept
  <2> QED
    BY <2>1, NamedGrows DEF GlobalsOK
<1>3. NamedUpTo(scopes'[1], DoneNext)
  BY <1>1, <1>2, DoneReturn, NamedOneMore
<1>4. FuncsFirst(scopes')
  <2>1. CASE UNCHANGED scopes \/ scopes' = Enclosing
    BY <2>1, PrefixFirst DEF GlobalsOK
  <2>2. CASE DeclareVariable
    <3> DEFINE symbol == VarSymbol(node, ast[node].type)
               inner == Insert(Current, Name, symbol)
    <3>1. scopes' = Append(Enclosing, inner)
      BY <2>2 DEF DeclareVariable
    <3>2. /\ Enclosing \in Seq(ScopeSet) /\ Len(Enclosing) + 1 = Len(scopes) /\ Current \in ScopeSet
          /\ FuncsFirst(Enclosing) /\ ScopeFirst(Current, Len(scopes))
      <4>1. /\ Enclosing \in Seq(ScopeSet) /\ Len(Enclosing) = Len(scopes) - 1 /\ Current \in ScopeSet
            /\ Len(scopes) \in Nat /\ Len(scopes) >= 1
        BY ScopeSteps
      <4>2. FuncsFirst(Enclosing) /\ Len(scopes) \in DOMAIN scopes
        BY PrefixFirst DEF GlobalsOK
      <4> QED
        BY <4>1, <4>2 DEF FuncsFirst, GlobalsOK, Current
    <3>3. symbol.kind = "VAR"
      BY DEF VarSymbol, Symbol
    <3>4. inner \in ScopeSet
      <4>1. node \in Nodes /\ AstTypeOK /\ Kind(node) = "VAR_DECL"
        BY <2>2, TopFacts DEF DeclareVariable, Leaving, Running, Good
      <4>2. Name \in Names /\ ast[node].type \in TypeInfos
        BY <4>1, NodeFacts, AstAssumption DEF Labelled, Name, Kind, AstAssumption
      <4>3. symbol \in Symbols
        BY <4>1, <4>2, DeclaredSymbols
      <4> QED
        BY <3>2, <4>2, <4>3, ScopeFacts
    <3> HIDE DEF symbol
    <3>5. /\ DOMAIN inner = DOMAIN Current \cup {Name}
          /\ \A y \in DOMAIN Current : inner[y] = Current[y]
          /\ Name \notin DOMAIN Current => inner[Name] = symbol
      BY InsertFacts
    <3> HIDE DEF inner
    <3>6. ScopeFirst(inner, Len(scopes))
      BY <3>2, <3>3, <3>5 DEF ScopeFirst
    <3> QED
      BY <3>1, <3>2, <3>4, <3>6, AppendFirst
  <2> QED
    BY <2>1, <2>2
<1> QED
  BY <1>3, <1>4, GlobalsNext

-----------------------------------------------------------------------------
(* Bindings.  An identifier bound to a function is bound to the first of its name. *)

BindsOK == \A n \in Nodes : bind[n].kind = "FUNC" => IsFirst(bind[n], ast[n].name)

LEMMA BindsNext ==
  ASSUME UNCHANGED ast, \A n \in Nodes : bind'[n].kind = "FUNC" => IsFirst(bind'[n], ast[n].name)
  PROVE  BindsOK'
  BY DEF BindsOK, IsFirst, DeclarationsOf, Nodes, Kind

LEMMA BindsKept ==
  ASSUME BindsOK, UNCHANGED <<ast, bind>>
  PROVE  BindsOK'
  BY BindsNext DEF BindsOK

LEMMA CalleeFacts ==
  ASSUME AstTypeOK, NEW n \in Nodes, Kind(n) = "CALL"
  PROVE  1 \in 1..Arity(n) /\ Kid(n, 1) \in Nodes
  BY NodeFacts DEF HasArity

LEMMA IdentBinds ==
  ASSUME Good, FuncsFirst(scopes), BindsOK, AnalyseIdent, frames # <<>>
  PROVE  BindsOK'
<1>1. /\ bind' = [bind EXCEPT ![node] = Lookup(Name)] /\ UNCHANGED ast
      /\ node \in Nodes /\ DOMAIN bind = Nodes
  BY TopFacts DEF AnalyseIdent, Resolve, Good
<1>2. \A n \in Nodes : bind'[n] = IF n = node THEN Lookup(Name) ELSE bind[n]
  BY <1>1
<1>3. Lookup(Name).kind = "FUNC" => IsFirst(Lookup(Name), ast[node].name)
  BY LookupFirst DEF Name
<1> QED
  BY <1>1, <1>2, <1>3, BindsNext DEF BindsOK

LEMMA CallBinds ==
  ASSUME Good, FuncsFirst(scopes), BindsOK, AnalyseCall, frames # <<>>
  PROVE  BindsOK' /\ bind' = [bind EXCEPT ![Callee] = CalleeSymbol] /\ Callee \in Nodes
<1>1. /\ bind' = [bind EXCEPT ![Callee] = CalleeSymbol] /\ UNCHANGED ast
      /\ node \in Nodes /\ DOMAIN bind = Nodes /\ Kind(node) = "CALL" /\ AstTypeOK
  BY TopFacts DEF AnalyseCall, Resolve, Good, Leaving, Running
<1>2. Callee \in Nodes
  BY <1>1, CalleeFacts DEF Callee
<1>3. \A n \in Nodes : bind'[n] = IF n = Callee THEN CalleeSymbol ELSE bind[n]
  BY <1>1
<1>4. CalleeSymbol.kind = "FUNC" => IsFirst(CalleeSymbol, ast[Callee].name)
  BY LookupFirst DEF CalleeSymbol, NoSymbol, Symbol
<1> QED
  BY <1>1, <1>2, <1>3, <1>4, BindsNext DEF BindsOK

-----------------------------------------------------------------------------
(* Calls.  Unless an error was counted each is still pending, being analysed, or bound to a      *)
(* function.                                                                                      *)

CallBound(n) == Kind(Kid(n, 1)) = "IDENT" /\ bind[Kid(n, 1)].kind = "FUNC"
BoundNext(n) == Kind(Kid(n, 1)) = "IDENT" /\ bind'[Kid(n, 1)].kind = "FUNC"

CallsOK ==
  error_count = 0 => \A n \in Nodes : Kind(n) = "CALL" => Pending(n) \/ OnStack(n) \/ CallBound(n)

\* The calls after a step.
CallsMove ==
  \A n \in Nodes : Kind(n) = "CALL" =>
    Pending(n)' \/ (\E i \in 1..Height' : frames'[i].node = n) \/ BoundNext(n)

LEMMA CallsNext ==
  ASSUME UNCHANGED ast, error_count' = 0 => CallsMove
  PROVE  CallsOK'
<1>1. Nodes' = Nodes /\ \A n : Kind(n)' = Kind(n)
  BY DEF Nodes, Kind
<1>2. \A n : CallBound(n)' <=> BoundNext(n)
  BY DEF CallBound, BoundNext, Kind, Kid
<1>3. \A n : OnStack(n)' <=> \E i \in 1..Height' : frames'[i].node = n
  BY DEF OnStack
<1> QED
  BY <1>1, <1>2, <1>3 DEF CallsOK, CallsMove

\* The callee of a call is not analysed.
LEMMA CalleeNotVisited ==
  ASSUME Good, frames # <<>>, FramesOK, TreeOK, NEW n \in Nodes, Kind(n) = "CALL"
  PROVE  Kid(n, 1) # node
<1>1. AstTypeOK /\ 1 \in 1..Arity(n) /\ Kid(n, 1) \in Nodes /\ Kid(n, 1) # 1
  BY CalleeFacts, ParentFacts DEF Good
<1>2. /\ Height \in Nat /\ Height >= 1 /\ node = frames[Height].node
      /\ \A i \in 1..Height : frames[i].node \in Nodes
  BY SecondFacts DEF node, Top, Height
<1>3. CASE Height = 1
  BY <1>1, <1>2, <1>3 DEF FramesOK
<1>4. CASE Height >= 2
  <2> DEFINE f == frames[Height - 1]
  <2>1. ChildOf(f, frames[Height]) /\ f.node \in Nodes /\ f.next \in Nat
    <3>1. Height - 1 \in 1..Height /\ DOMAIN frames = 1..Height
      BY <1>2, <1>4, TopFacts DEF Good, Height
    <3>2. \A i \in 1..Height : frames[i].next \in Nat
      BY <3>1, FrameFields DEF Good, Height
    <3> QED
      BY <1>2, <1>4, <3>1, <3>2 DEF FramesOK, VisitOK
  <2> HIDE DEF f
  <2>2. VisitCount(f.node) \in Nat
    BY <1>1, <2>1, VisitedIsKid
  <2>3. f.next - 1 \in 1..VisitCount(f.node) /\ node = VisitKid(f.node, f.next - 1)
    BY <1>2, <2>1, <2>2 DEF ChildOf
  <2>4. PICK q \in Nodes : \E i \in 1..Arity(q) : node = Kid(q, i) /\ ~(Kind(q) = "CALL" /\ i = 1)
    BY <1>1, <2>1, <2>3, VisitedIsKid
  <2>5. PICK i \in 1..Arity(q) : node = Kid(q, i) /\ ~(Kind(q) = "CALL" /\ i = 1)
    BY <2>4
  <2> QED
    BY <1>1, <2>5 DEF TreeOK, OneParent
<1> QED
  BY <1>2, <1>3, <1>4

LEMMA ReturnCalls ==
  ASSUME Good, frames # <<>>, CallsOK, error_count = 0, Return, UNCHANGED ast,
         NEW D \in SUBSET Nodes, Ahead(Top) \subseteq D,
         \A m \in D : Kind(m) # "CALL" /\ \A i \in 1..Arity(m) : Kid(m, i) \in D,
         \A n \in Nodes : Kind(n) = "CALL" /\ (CallBound(n) \/ n = node) => BoundNext(n)
  PROVE  CallsMove
<1>1. /\ Height \in Nat /\ Height' = Height - 1
      /\ \A i \in 1..(Height - 1) : frames'[i] = frames[i]
  BY ReturnFacts DEF Good
<1>2. node = frames[Height].node
  BY DEF node, Top, Height
<1>3. ASSUME NEW n \in Nodes, Kind(n) = "CALL", Pending(n) PROVE Pending(n)'
  <2>1. Roots \subseteq Roots' \cup D
    BY RootsReturn
  <2> QED
    BY <1>3, <2>1, Settled
<1>4. ASSUME NEW n \in Nodes, Kind(n) = "CALL", OnStack(n)
      PROVE  (\E i \in 1..Height' : frames'[i].node = n) \/ BoundNext(n)
  <2>1. PICK i \in 1..Height : frames[i].node = n
    BY <1>4 DEF OnStack
  <2> QED
    BY <1>1, <1>2, <1>4, <2>1
<1> QED
  BY <1>3, <1>4 DEF CallsOK, CallsMove

LEMMA EnterCalls ==
  ASSUME Good, frames # <<>>, CallsOK, error_count = 0, UNCHANGED <<ast, bind>>, Top.next = 0,
         frames' = [frames EXCEPT ![Len(frames)].next = 1]
  PROVE  CallsMove
<1>1. /\ Height \in Nat /\ Height' = Height /\ frames'[Height].node = node
      /\ \A i \in 1..(Height - 1) : frames'[i] = frames[i]
  BY EnterFacts DEF Good
<1>2. \A i \in 1..Height : frames'[i].node = frames[i].node
  BY <1>1 DEF node, Top, Height
<1>3. ASSUME NEW n \in Nodes, Pending(n) PROVE Pending(n)'
  <2> DEFINE D == {}
  <2>1. D \in SUBSET Nodes /\ n \notin D /\ \A m \in D : \A i \in 1..Arity(m) : Kid(m, i) \in Roots' \cup D
    OBVIOUS
  <2>2. Roots \subseteq Roots' \cup D
    BY RootsEnter
  <2> HIDE DEF D
  <2> QED
    BY <1>3, <2>1, <2>2, Settled
<1> QED
  BY <1>1, <1>2, <1>3 DEF CallsOK, CallsMove, OnStack, CallBound, BoundNext

LEMMA ChildCalls ==
  ASSUME Good, frames # <<>>, FramesOK, TreeOK, phase = "sema", CallsOK, error_count = 0, AnalyseChild,
         UNCHANGED <<ast, bind>>
  PROVE  CallsMove
<1> DEFINE child == VisitKid(node, Top.next)
<1>1. /\ Height \in Nat /\ Height' \in Height..(Height + 1) /\ child \in Nodes
      /\ \A i \in 1..(Height - 1) : frames'[i] = frames[i]
      /\ frames'[Height].node = node
      /\ IsNull(child) \/ (Height' = Height + 1 /\ frames'[Height + 1] = Frame(child))
  BY CallFacts
<1>2. \A i \in 1..Height : frames'[i].node = frames[i].node
  BY <1>1 DEF node, Top, Height
<1>3. AstTypeOK
  BY DEF Good
<1>4. ASSUME NEW n \in Nodes, Kind(n) = "CALL", Pending(n)
      PROVE  Pending(n)' \/ \E i \in 1..Height' : frames'[i].node = n
  <2>1. CASE n \notin Taken(child)
    <3>1. Roots \subseteq Roots' \cup Taken(child)
      BY RootsCall DEF Taken
    <3>2. \A m \in Taken(child) : \A i \in 1..Arity(m) : Kid(m, i) \in Roots' \cup Taken(child)
      BY RootsCall
    <3>3. Taken(child) \in SUBSET Nodes
      BY <1>1, <1>3, TakenFacts
    <3> HIDE DEF child
    <3> QED
      BY <1>4, <2>1, <3>1, <3>2, <3>3, Settled
  <2>2. CASE n \in Taken(child)
    <3>1. n = child /\ ~IsNull(child)
      BY <1>1, <1>3, <1>4, <2>2, TakenFacts DEF IsNull
    <3>2. Frame(child).node = child
      BY DEF Frame
    <3> QED
      BY <1>1, <3>1, <3>2
  <2> QED
    BY <2>1, <2>2
<1> QED
  BY <1>1, <1>2, <1>4 DEF CallsOK, CallsMove, OnStack, CallBound, BoundNext

\* A function other than a declaration's returns.
LEMMA PopsCalls ==
  ASSUME Good, frames # <<>>, FramesOK, TreeOK, FuncOK, phase = "sema", CallsOK, Pops,
         error_count = 0, error_count' = 0,
         (UNCHANGED bind /\ Kind(node) # "CALL") \/ AnalyseIdent
           \/ (AnalyseCall /\ bind' = [bind EXCEPT ![Callee] = CalleeSymbol])
  PROVE  CallsMove
<1>1. /\ Return /\ UNCHANGED ast /\ Top.next > Len(Visits) /\ node \in Nodes
      /\ AstTypeOK /\ DOMAIN bind = Nodes
  BY TopFacts DEF Pops, Good
<1>2. Kind(node) = "RETURN" => current_func # NoSymbol
  BY ReturnsInBody DEF FuncOK, StmtKinds, NoSymbol, Symbol
<1>3. CASE Kind(node) = "CALL"
  <2>1. AnalyseCall /\ bind' = [bind EXCEPT ![Callee] = CalleeSymbol]
    BY <1>3 DEF AnalyseIdent, Leaving, Running
  <2>2. Callable
    BY <2>1, ExpressionErrors
  <2>3. Kind(Callee) = "IDENT" /\ CalleeSymbol.kind = "FUNC" /\ Callee \in Nodes /\ 1 \in 1..Arity(node)
    BY <1>1, <1>3, <2>2, CalleeFacts DEF Callable, CalleeSymbol, NoSymbol, Symbol, Callee
  <2>4. Arity(Callee) = 0
    BY <1>1, <2>3, NodeFacts DEF HasArity
  <2>5. Ahead(Top) = {Callee}
    BY <1>1, <1>2, <1>3, <2>2, NothingAhead DEF Callee
  <2>6. ASSUME NEW n \in Nodes, Kind(n) = "CALL", CallBound(n) \/ n = node
        PROVE  BoundNext(n)
    <3>1. CASE n = node
      <4>1. bind'[Callee] = CalleeSymbol
        BY <1>1, <2>1, <2>3
      <4> QED
        BY <2>3, <3>1, <4>1 DEF BoundNext, Callee
    <3>2. CASE n # node
      <4>1. 1 \in 1..Arity(n) /\ Kid(n, 1) \in Nodes
        BY <1>1, <2>6, CalleeFacts
      <4>2. Kid(n, 1) # Callee
        BY <1>1, <2>3, <3>2, <4>1 DEF Callee, TreeOK, OneParent
      <4>3. bind'[Kid(n, 1)] = bind[Kid(n, 1)]
        BY <1>1, <2>1, <4>1, <4>2
      <4> QED
        BY <2>6, <3>2, <4>3 DEF CallBound, BoundNext
    <3> QED
      BY <3>1, <3>2
  <2> DEFINE D == {Callee}
  <2>7. /\ D \in SUBSET Nodes /\ Ahead(Top) \subseteq D
        /\ \A m \in D : Kind(m) # "CALL" /\ \A i \in 1..Arity(m) : Kid(m, i) \in D
    BY <2>3, <2>4, <2>5
  <2> HIDE DEF D
  <2> QED
    BY <1>1, <2>6, <2>7, ReturnCalls
<1>4. CASE Kind(node) # "CALL"
  <2> DEFINE D == {}
  <2>1. /\ D \in SUBSET Nodes /\ Ahead(Top) \subseteq D
        /\ \A m \in D : Kind(m) # "CALL" /\ \A i \in 1..Arity(m) : Kid(m, i) \in D
    BY <1>1, <1>2, <1>4, NothingAhead
  <2> HIDE DEF D
  <2>2. ASSUME NEW n \in Nodes, Kind(n) = "CALL", CallBound(n) \/ n = node
        PROVE  BoundNext(n)
    <3>1. Kid(n, 1) # node /\ CallBound(n)
      BY <1>4, <2>2, CalleeNotVisited
    <3>2. bind'[Kid(n, 1)] = bind[Kid(n, 1)]
      <4>1. CASE UNCHANGED bind
        BY <4>1
      <4>2. CASE AnalyseIdent
        <5>1. bind' = [bind EXCEPT ![node] = Lookup(Name)] /\ Kid(n, 1) \in Nodes
          BY <1>1, <2>2, <4>2, CalleeFacts DEF AnalyseIdent
        <5> QED
          BY <1>1, <3>1, <5>1
      <4>3. ~AnalyseCall
        BY <1>4 DEF AnalyseCall, Leaving, Running
      <4> QED
        BY <4>1, <4>2, <4>3
    <3> QED
      BY <3>1, <3>2 DEF CallBound, BoundNext
  <2> QED
    BY <1>1, <2>1, <2>2, ReturnCalls
<1> QED
  BY <1>3, <1>4

\* A declaration that is rejected or a prototype, or the end of a function.
LEMMA DeclarationCalls ==
  ASSUME Good, frames # <<>>, FramesOK, TreeOK, phase = "sema", CallsOK, error_count = 0,
         Return, UNCHANGED <<ast, bind>>, Kind(node) = "FUNC_DECL",
         Top.next > Len(Visits) \/ IsNull(Kid(node, 1))
  PROVE  CallsMove
<1>1. node \in Nodes /\ AstTypeOK /\ node = Top.node
  BY TopFacts DEF Good, node
<1>2. Ahead(Top) = {}
  <2>1. CASE Top.next > Len(Visits)
    BY <2>1, NothingAhead
  <2>2. CASE IsNull(Kid(node, 1))
    <3>1. Kid(node, 1) \in Nodes
      BY <1>1, NodeFacts DEF HasArity
    <3>2. VisitCount(node) = 0
      BY <1>1, <2>2, <3>1, NodeFacts DEF VisitCount, IsNull, HasArity
    <3>3. \A x : x \notin Ahead(Top)
      BY <1>1, <3>2, AheadFacts
    <3> QED
      BY <3>3
  <2> QED
    BY <2>1, <2>2
<1> DEFINE D == {}
<1>3. /\ D \in SUBSET Nodes /\ Ahead(Top) \subseteq D
      /\ \A m \in D : Kind(m) # "CALL" /\ \A i \in 1..Arity(m) : Kid(m, i) \in D
  BY <1>2
<1> HIDE DEF D
<1>4. ASSUME NEW n \in Nodes, Kind(n) = "CALL", CallBound(n) \/ n = node
      PROVE  BoundNext(n)
  BY <1>4 DEF CallBound, BoundNext
<1> QED
  BY <1>3, <1>4, ReturnCalls

-----------------------------------------------------------------------------
(* A step of the analysis. *)

\* What a function that returns leaves of the scopes, the bindings and the errors.
LEMMA PopsEffects ==
  ASSUME Good, frames # <<>>, phase = "sema",
         \/ LeaveScope \/ DeclareVariable \/ AnalyseReturn \/ LeaveStatement
         \/ AnalyseLiteral \/ AnalyseIdent \/ AnalyseAssign \/ AnalyseBinary
         \/ AnalyseUnary \/ AnalyseCall \/ AnalyseIndex \/ AnalyseMember
  PROVE  /\ Pops /\ GlobalsKept
         /\ UNCHANGED scopes \/ scopes' = Enclosing \/ DeclareVariable
         /\ (UNCHANGED bind /\ Kind(node) # "CALL") \/ AnalyseIdent \/ AnalyseCall
         /\ error_count \in Nat /\ error_count' \in Nat /\ error_count' >= error_count
<1>1. GlobalsKept /\ has_return \in BOOLEAN /\ error_count \in Nat
  BY PopsKeepGlobals DEF Good
<1>2. CASE LeaveScope \/ DeclareVariable \/ AnalyseReturn \/ LeaveStatement
  <2>1. Pops /\ error_count' \in Nat /\ error_count' >= error_count
    BY <1>1, <1>2, StatementPops, StatementErrors
  <2>2. UNCHANGED scopes \/ scopes' = Enclosing \/ DeclareVariable
    BY <1>2 DEF LeaveScope, AnalyseReturn, LeaveStatement, PopScope
  <2>3. UNCHANGED bind /\ Kind(node) # "CALL"
    BY <1>2 DEF LeaveScope, DeclareVariable, AnalyseReturn, LeaveStatement, Leaving, Running
  <2> QED
    BY <1>1, <2>1, <2>2, <2>3
<1>3. CASE \/ AnalyseLiteral \/ AnalyseIdent \/ AnalyseAssign \/ AnalyseBinary
           \/ AnalyseUnary \/ AnalyseCall \/ AnalyseIndex \/ AnalyseMember
  <2>1. Pops /\ UNCHANGED scopes /\ error_count' \in Nat /\ error_count' >= error_count
    BY <1>1, <1>3, ExpressionPops, ExpressionErrors
  <2>2. (UNCHANGED bind /\ Kind(node) # "CALL") \/ AnalyseIdent \/ AnalyseCall
    BY <1>3 DEF AnalyseLiteral, AnalyseAssign, AnalyseBinary, AnalyseUnary, AnalyseIndex,
       AnalyseMember, Leaving, Running, Literals
  <2> QED
    BY <1>1, <2>1, <2>2
<1> QED
  BY <1>2, <1>3

AgreeOK == GlobalsOK /\ BindsOK /\ CallsOK

LEMMA PopsAgree ==
  ASSUME Good, frames # <<>>, FramesOK, TreeOK, FuncOK, phase = "sema", AgreeOK,
         \/ LeaveScope \/ DeclareVariable \/ AnalyseReturn \/ LeaveStatement
         \/ AnalyseLiteral \/ AnalyseIdent \/ AnalyseAssign \/ AnalyseBinary
         \/ AnalyseUnary \/ AnalyseCall \/ AnalyseIndex \/ AnalyseMember
  PROVE  AgreeOK'
<1>1. /\ Pops /\ GlobalsKept /\ UNCHANGED ast
      /\ UNCHANGED scopes \/ scopes' = Enclosing \/ DeclareVariable
      /\ (UNCHANGED bind /\ Kind(node) # "CALL") \/ AnalyseIdent \/ AnalyseCall
      /\ error_count \in Nat /\ error_count' \in Nat /\ error_count' >= error_count
  BY PopsEffects DEF Pops
<1>2. GlobalsOK'
  BY <1>1, PopsGlobals DEF AgreeOK
<1>3. BindsOK' /\ (AnalyseCall => bind' = [bind EXCEPT ![Callee] = CalleeSymbol])
  BY <1>1, BindsKept, IdentBinds, CallBinds DEF AgreeOK, GlobalsOK
<1>4. CallsOK'
  <2>1. ASSUME error_count' = 0 PROVE CallsMove
    BY <1>1, <1>3, <2>1, PopsCalls DEF AgreeOK
  <2> QED
    BY <1>1, <2>1, CallsNext
<1> QED
  BY <1>2, <1>3, <1>4 DEF AgreeOK

LEMMA FunctionAgrees ==
  ASSUME Good, frames # <<>>, FramesOK, TreeOK, phase = "sema", AgreeOK, EnterFunction
  PROVE  AgreeOK'
<1>1. /\ UNCHANGED <<ast, bind>> /\ Top.next = 0 /\ Kind(node) = "FUNC_DECL"
      /\ error_count \in Nat /\ error_count' \in Nat /\ error_count' >= error_count
  BY FunctionErrors DEF EnterFunction, Entering, Running, Good
<1>2. GlobalsOK' /\ BindsOK'
  BY <1>1, FunctionGlobals, BindsKept DEF AgreeOK
<1>3. ASSUME error_count' = 0 PROVE CallsMove
  <2>1. error_count = 0
    BY <1>1, <1>3
  <2>2. \/ Return /\ IsNull(Kid(node, 1))
        \/ frames' = [frames EXCEPT ![Len(frames)].next = 1]
    <3>1. PICK symbol :
            /\ symbol.kind = "FUNC" \/ (symbol.kind = "VAR" /\ Return /\ error_count' > 0)
            /\ Return \/ frames' = [frames EXCEPT ![Len(frames)].next = 1]
            /\ Return => symbol.kind = "VAR" \/ IsNull(Kid(node, 1))
      BY EnterFunctionFacts
    <3> QED
      BY <1>3, <3>1
  <2> QED
    BY <1>1, <2>1, <2>2, DeclarationCalls, EnterCalls DEF AgreeOK
<1> QED
  BY <1>1, <1>2, <1>3, CallsNext DEF AgreeOK

LEMMA LeaveFunctionAgrees ==
  ASSUME Good, frames # <<>>, FramesOK, TreeOK, FuncOK, phase = "sema", AgreeOK, LeaveFunction
  PROVE  AgreeOK'
<1>1. /\ UNCHANGED <<ast, bind>> /\ Return /\ Top.next > Len(Visits) /\ Kind(node) = "FUNC_DECL"
      /\ error_count \in Nat /\ error_count' \in Nat /\ error_count' >= error_count
  BY StatementErrors DEF LeaveFunction, Leaving, Running, Good
<1>2. GlobalsOK' /\ BindsOK'
  BY <1>1, LeaveFunctionGlobals, BindsKept DEF AgreeOK
<1>3. ASSUME error_count' = 0 PROVE CallsMove
  BY <1>1, <1>3, DeclarationCalls DEF AgreeOK
<1> QED
  BY <1>1, <1>2, <1>3, CallsNext DEF AgreeOK

LEMMA ChildAgrees ==
  ASSUME Good, frames # <<>>, FramesOK, TreeOK, phase = "sema", AgreeOK, AnalyseChild \/ EnterScope
  PROVE  AgreeOK'
<1>1. /\ UNCHANGED <<ast, bind>>
      /\ error_count \in Nat /\ error_count' \in Nat /\ error_count' >= error_count
  BY StatementErrors DEF AnalyseChild, EnterScope, Good
<1>2. GlobalsOK' /\ BindsOK'
  BY <1>1, CallGlobals, EnterScopeGlobals, BindsKept DEF AgreeOK, AnalyseChild
<1>3. ASSUME error_count' = 0 PROVE CallsMove
  <2>1. EnterScope => Top.next = 0 /\ frames' = [frames EXCEPT ![Len(frames)].next = 1]
    BY DEF EnterScope, Enter, Entering
  <2> QED
    BY <1>1, <1>3, <2>1, ChildCalls, EnterCalls DEF AgreeOK
<1> QED
  BY <1>1, <1>2, <1>3, CallsNext DEF AgreeOK

-----------------------------------------------------------------------------
(* The invariant: what the analysis keeps, and what it leaves for CodeGen. *)

AllCallsBound == \A n \in Nodes : Kind(n) = "CALL" => CallBound(n)

AgInv ==
  /\ Analysing => AgreeOK
  /\ phase = "codegen" => BindsOK /\ AllCallsBound

LEMMA StartAgrees ==
  ASSUME SemaInv, VisitInv, SemaStart
  PROVE  AgreeOK'
<1>1. /\ phase = "sema" /\ frames = <<>> /\ frames' = <<Frame(1)>> /\ scopes' = <<EmptyScope>>
      /\ bind' = [n \in Nodes |-> NoSymbol] /\ UNCHANGED ast
  BY DEF SemaStart
<1>2. AstTypeOK /\ 1 \in Nodes /\ TreeOK
  BY <1>1 DEF SemaInv, VisitInv, AstTypeOK, Nodes
<1>3. Kind(1) = "PROGRAM"
  BY <1>1, <1>2, KindsOfKids
<1>4. Height' = 1 /\ frames'[1] = Frame(1)
  BY <1>1 DEF Height
<1>5. Frame(1).node = 1 /\ Frame(1).next = 1
  BY <1>3 DEF Frame, ScopedKinds
<1>6. Roots' = {Kid(1, i) : i \in 1..Arity(1)}
  <2>1. VisitCount(1) = Arity(1) /\ (\A k : VisitKid(1, k) = Kid(1, k)) /\ Arity(1) \in Nat
    BY <1>2, <1>3, NodeFacts DEF VisitCount, VisitKid
  <2>2. \A x : x \in Ahead(frames'[1]) <=> \E k \in 1..Arity(1) : x = Kid(1, k)
    BY <1>3, <1>4, <1>5, <2>1, AheadFacts
  <2>3. \A x : x \in Roots' <=> x \in Ahead(frames'[1])
    BY <1>1, <1>4, RootsNext
  <2> QED
    BY <2>2, <2>3
<1>7. AstTypeOK' /\ TreeOK'
  BY <1>1, <1>2, AstStable, TreeKept DEF SemaStart
<1>8. (Roots = {Kid(1, i) : i \in 1..Arity(1)})'
  BY <1>1, <1>6 DEF Kid, Arity
<1>9. (\A n \in Nodes : n # 1 => Pending(n))'
  BY <1>7, <1>8, AllPendingAtFirst, PTL
<1>10. CallsOK'
  <2>1. \A n \in Nodes : Kind(n) = "CALL" => Pending(n)'
    BY <1>1, <1>3, <1>9 DEF Nodes
  <2> QED
    BY <1>1, <2>1, CallsNext DEF CallsMove
<1>11. BindsOK'
  <2>1. \A n \in Nodes : bind'[n].kind # "FUNC"
    BY <1>1 DEF NoSymbol, Symbol
  <2> QED
    BY <1>1, <2>1, BindsNext
<1>12. GlobalsOK'
  <2>1. FuncsFirst(scopes')
    BY <1>1 DEF FuncsFirst, ScopeFirst, EmptyScope
  <2>2. DoneNext = 1
    BY <1>4, <1>5 DEF DoneNext
  <2>3. NamedUpTo(scopes'[1], DoneNext)
    BY <2>2 DEF NamedUpTo
  <2> QED
    BY <1>1, <2>1, <2>3, GlobalsNext
<1> QED
  BY <1>10, <1>11, <1>12 DEF AgreeOK

\* When the analysis of the program ends no node is left to analyse.
LEMMA EndAgrees ==
  ASSUME Good, frames # <<>>, FramesOK, TreeOK, phase = "sema", AgreeOK, SemaEnd
  PROVE  phase' = "codegen" => BindsOK' /\ AllCallsBound'
<1> SUFFICES ASSUME phase' = "codegen" PROVE BindsOK' /\ AllCallsBound'
  OBVIOUS
<1>1. /\ error_count = 0 /\ UNCHANGED <<ast, bind>> /\ Kind(node) = "PROGRAM" /\ Top.next > Len(Visits)
  BY DEF SemaEnd, Leaving, Running
<1>2. /\ Height \in Nat /\ Height >= 1 /\ node = frames[Height].node /\ Top = frames[Height]
  BY SecondFacts DEF node, Top, Height
<1>3. Height = 1
  <2>1. Kind(node) \in KindsAt(Height)
    BY <1>2 DEF FramesOK, VisitOK
  <2> QED
    BY <1>1, <1>2, <2>1 DEF KindsAt, StmtKinds, ExprKinds, Literals
<1>4. Roots = {}
  <2>1. Ahead(Top) = {}
    BY <1>1, NothingAhead
  <2> QED
    BY <1>2, <1>3, <2>1, RootsFacts
<1>5. \A n \in Nodes : ~Pending(n)
  <2> DEFINE S == {}
  <2>1. S \in SUBSET Nodes /\ Closed(S) /\ Roots \subseteq S /\ \A n : n \notin S
    BY <1>4 DEF Closed
  <2> HIDE DEF S
  <2> QED
    BY <2>1 DEF Pending
<1>6. AllCallsBound
  BY <1>1, <1>2, <1>3, <1>5 DEF AgreeOK, CallsOK, AllCallsBound, OnStack
<1>7. AllCallsBound'
  BY <1>1, <1>6 DEF AllCallsBound, CallBound, Nodes, Kind, Kid
<1> QED
  BY <1>1, <1>7, BindsKept DEF AgreeOK

LEMMA AgreeMoves ==
  ASSUME SemaInv, VisitInv, AgInv, phase = "sema", frames # <<>>, SemaNext
  PROVE  AgInv'
<1>1. /\ Good /\ FramesOK /\ FuncOK /\ TreeOK /\ AgreeOK
      /\ frames # <<>> /\ phase = "sema"
  BY InvIsGood DEF VisitInv, AgInv, Analysing
<1>2. ~SemaStart /\ ~AstNext
  BY <1>1, StillParsing DEF SemaStart
<1>3. CASE SemaEnd
  <2>1. phase' # "sema"
    BY <1>3 DEF SemaEnd
  <2> QED
    BY <1>1, <1>3, <2>1, EndAgrees DEF AgInv, Analysing
<1>4. CASE ~SemaEnd
  <2>1. AgreeOK'
    BY <1>1, <1>2, <1>4, ChildAgrees, FunctionAgrees, LeaveFunctionAgrees, PopsAgree DEF SemaNext
  <2>2. phase' = "sema"
    <3>1. AnalyseChild \/ EnterScope \/ EnterFunction \/ LeaveFunction => UNCHANGED phase
      BY DEF AnalyseChild, EnterScope, EnterFunction, LeaveFunction
    <3>2. Pops => UNCHANGED phase
      BY DEF Pops
    <3> QED
      BY <1>1, <1>2, <1>4, <3>1, <3>2, PopsEffects DEF SemaNext
  <2> QED
    BY <2>1, <2>2 DEF AgInv
<1> QED
  BY <1>3, <1>4

LEMMA AgInvKept == SemaInv /\ VisitInv /\ AgInv /\ [Next]_vars => AgInv'
<1> SUFFICES ASSUME SemaInv, VisitInv, AgInv, [Next]_vars PROVE AgInv'
  OBVIOUS
<1>1. CASE SemaNext
  <2>1. CASE AstNext /\ UNCHANGED semaVars
    BY <2>1, StillParsing DEF SemaInv, AgInv, Analysing, semaVars
  <2>2. CASE SemaStart
    <3>1. phase' = "sema"
      BY <2>2 DEF SemaStart
    <3> QED
      BY <2>2, <3>1, StartAgrees DEF AgInv
  <2>3. CASE ~(AstNext /\ UNCHANGED semaVars) /\ ~SemaStart
    <3>1. phase = "sema" /\ frames # <<>>
      BY <1>1, <2>3, SemaRuns
    <3> QED
      BY <1>1, <3>1, AgreeMoves
  <2> QED
    BY <2>1, <2>2, <2>3
<1>2. ASSUME UNCHANGED <<ast, semaVars>>, phase' = "codegen" => phase = "codegen", phase' # "sema"
      PROVE  AgInv'
  BY <1>2, BindsKept DEF AgInv, Analysing, AllCallsBound, CallBound, Nodes, Kind, Kid, semaVars
<1>3. CASE CgNext
  BY <1>2, <1>3, CgKeepsSema
<1>4. CASE Main
  <2>1. phase' # "codegen"
    BY <1>4 DEF Main, MainNoParse, MainRejected, MainVerify, MainWriteIr, MainWriteObject, Exit
  <2> QED
    BY <1>2, <1>4, <2>1, MainKeepsSema
<1>5. CASE UNCHANGED vars
  <2>1. UNCHANGED <<ast, phase, semaVars>>
    BY <1>5 DEF vars
  <2>2. \A n : Pending(n)' <=> Pending(n)
    BY <2>1 DEF Pending, Roots, Ahead, Closed, Height, VisitCount, VisitKid, Nodes, Kind, Kid, Arity, semaVars
  <2>3. \A n : (OnStack(n)' <=> OnStack(n)) /\ (CallBound(n)' <=> CallBound(n))
    BY <2>1 DEF OnStack, CallBound, Height, Kind, Kid, semaVars
  <2>4. Nodes' = Nodes /\ \A n : Kind(n)' = Kind(n)
    BY <2>1 DEF Nodes, Kind
  <2>5. CallsOK => CallsOK'
    BY <2>1, <2>2, <2>3, <2>4 DEF CallsOK, semaVars
  <2>6. GlobalsOK => GlobalsOK'
    BY <2>1 DEF GlobalsOK, FuncsFirst, ScopeFirst, IsFirst, NamedUpTo, DeclarationsOf, Done, Height,
       Nodes, Kind, Kid, Arity, semaVars
  <2>7. (BindsOK => BindsOK') /\ (AllCallsBound => AllCallsBound')
    BY <2>1, <2>3, <2>4, BindsKept DEF AllCallsBound, semaVars
  <2> QED
    BY <2>1, <2>5, <2>6, <2>7 DEF AgInv, AgreeOK, Analysing, semaVars
<1> QED
  BY <1>1, <1>3, <1>4, <1>5 DEF Next, Ended

LEMMA AgInvAlways == Spec => []AgInv
<1>1. Init => AgInv
  BY DEF Init, SemaInit, AstInit, AgInv, Analysing
<1>2. SemaInv /\ VisitInv /\ AgInv /\ [Next]_vars => AgInv'
  BY AgInvKept
<1> QED
  BY <1>1, <1>2, SemaInvAlways, VisitInvAlways, PTL DEF Spec

-----------------------------------------------------------------------------
(* func_lookup finds the first declaration of a name, as Sema does. *)

LEMMA FirstIsOne ==
  ASSUME AstTypeOK, NEW s, NEW x, IsFirst(s, x)
  PROVE  x \in DOMAIN DeclaredFuncs /\ DeclaredFuncs[x] = s.decl
<1>1. s.decl \in DeclarationsOf(x) /\ \A d \in DeclarationsOf(x) : s.decl <= d
  BY DEF IsFirst
<1>2. \A n \in Nodes : n \in Int
  BY DEF Nodes, AstTypeOK
<1>3. \A n \in DeclarationsOf(x) : n \in Int /\ n \in Nodes /\ Kind(n) = "FUNC_DECL" /\ ast[n].name = x
  BY <1>2 DEF DeclarationsOf
<1>4. x \in DOMAIN DeclaredFuncs /\ DeclaredFuncs[x] = FirstOf(DeclarationsOf(x))
  BY <1>1, <1>3 DEF DeclaredFuncs
<1>5. FirstOf(DeclarationsOf(x)) \in DeclarationsOf(x)
      /\ \A d \in DeclarationsOf(x) : FirstOf(DeclarationsOf(x)) <= d
  BY <1>1 DEF FirstOf
<1> QED
  BY <1>1, <1>3, <1>4, <1>5

(* Whenever CodeGen generates a call, func_lookup finds the declaration Sema checked the call's  *)
(* arguments against, for every program Sema accepts: the first declaration of the name, although *)
(* one pass looks the callee up among the declarations it has met and the other among all of     *)
(* them, ignoring scopes.                                                                         *)
THEOREM CallsReachTheirFunction == Spec => []CallsAgree
<1>1. SemaInv /\ CgInv /\ AgInv => CallsAgree
  <2> SUFFICES ASSUME SemaInv, CgInv, AgInv, phase = "codegen", stack # <<>>, Evaluated("expr", {"CALL"})
               PROVE  ast[CgKid(1)].name \in DOMAIN funcs /\ funcs[ast[CgKid(1)].name] = bind[CgKid(1)].decl
    BY DEF CallsAgree
  <2>1. Kind(at) = "CALL" /\ at \in Nodes /\ AstTypeOK
    BY CgTopFacts DEF Evaluated, SemaInv, CgInv
  <2>2. CallBound(at) /\ CgKid(1) = Kid(at, 1) /\ Kid(at, 1) \in Nodes
    BY <2>1, CalleeFacts DEF AgInv, AllCallsBound, CgKid
  <2>3. IsFirst(bind[CgKid(1)], ast[CgKid(1)].name)
    BY <2>2 DEF AgInv, BindsOK, CallBound
  <2>4. funcs = DeclaredFuncs
    BY DEF CgInv, DataOK
  <2> QED
    BY <2>1, <2>3, <2>4, FirstIsOne
<1> QED
  BY <1>1, SemaInvAlways, CgInvAlways, AgInvAlways, PTL
=============================================================================
