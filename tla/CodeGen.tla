------------------------------- MODULE CodeGen -------------------------------
(***************************************************************************)
(* Code generation (CodeGen.c) over the tree Sema has annotated.  Of the   *)
(* LLVM module it keeps the control-flow graph, the machine type of every  *)
(* value and the blocks variables are allocated and used in.  The C call   *)
(* stack is explicit, as in Sema: a frame is an activation of codegen_emit *)
(* ("module"), define_func_body ("define"), define_global_var ("global"),  *)
(* cg_stmt, cg_lvalue or cg_expr on a node; next is the step it takes      *)
(* next, and bb holds its local basic blocks.                              *)
(***************************************************************************)
EXTENDS Sema

VARIABLES
  stack,        \* the C call stack, the running function last
  env,          \* cg->scope and its outer scopes, the global scope first
  funcs,        \* the declaration each function was built from, by name
  cur_fn,       \* the declaration of the function being defined, 0: none
  cg_errors,    \* cg->error_count
  blocks,       \* how many basic blocks exist; they are numbered from 1
  insert,       \* the block the builder is positioned at, 0: none
  terminated,   \* the blocks that end in a terminator
  edges,        \* the branches between blocks
  phis,         \* the phi nodes: the block each is at and its incoming blocks
  malformed,    \* an instruction was appended after a terminator
  entry,        \* the entry block of each function
  val,          \* the machine type of the value each node gave
  faults,       \* history: uses of values LLVM's typing rules do not allow
  uses,         \* history: allocation and use blocks of the locals used
  cgbind        \* history: the declaration each identifier was resolved to

irVars == <<blocks, insert, terminated, edges, phis, malformed>>
kept == <<funcs, cur_fn, cg_errors, entry, val, uses, cgbind>>
rest == <<kept, phis>>
cgVars == <<stack, env, faults, irVars, kept>>
OnlyCalls == UNCHANGED <<phase, env, faults, irVars, kept>>

Roles == {"cond", "then", "else", "body", "post", "end", "lhs"}
NoBlocks == [r \in Roles |-> 0]

\* NULL is a value: cg_lvalue returns it after an error.
MachineTypes == {"i8", "i32", "ptr", "NULL", "none"}

\* llvm_type_of
LlvmType(t) == IF ~Scalar(t) THEN "ptr" ELSE IF t.base = "CHAR" THEN "i8" ELSE "i32"

-----------------------------------------------------------------------------
(* The call stack. *)

CgFrame(fn, n) == [fn |-> fn, node |-> n, next |-> 1, bb |-> NoBlocks]
CgTop == stack[Len(stack)]
at == CgTop.node
bb == CgTop.bb
CgKid(i) == Kid(at, i)

\* The running function is fn on a node of one of the kinds, at the given step.
Step(fn, kinds, i) ==
  /\ phase = "codegen" /\ stack # <<>>
  /\ CgTop.fn = fn /\ Kind(at) \in kinds /\ CgTop.next = i

CgReturn == stack' = SubSeq(stack, 1, Len(stack) - 1)

\* The running function keeps its blocks and calls fn on n; a null n is not called on.
CallWith(locals, fn, n) ==
  LET resumed == [stack EXCEPT ![Len(stack)].next = @ + 1, ![Len(stack)].bb = locals]
  IN stack' = IF IsNull(n) THEN resumed ELSE Append(resumed, CgFrame(fn, n))
CallFn(fn, n) == CallWith(bb, fn, n)

-----------------------------------------------------------------------------
(* The builder.  New block k is block number blocks + k. *)

\* A bug: one block is not appended.
NewPast(k) == blocks + k + 1
New(k) == blocks + k

Open == insert \notin terminated

\* An instruction that is not a terminator.
Emit ==
  /\ malformed' = (malformed \/ ~Open)
  /\ UNCHANGED <<blocks, insert, terminated, edges, phis>>

\* A terminator for the insert block; then the builder moves to block next.
Branch(targets, new, next) ==
  /\ blocks' = blocks + new
  /\ insert' = next
  /\ terminated' = terminated \cup {insert}
  /\ edges' = edges \cup {<<insert, t>> : t \in targets}
  /\ malformed' = (malformed \/ ~Open)

\* A bug: a branch without the block_terminated test before it.
AlwaysBranch(emitted, target, next) == Branch({target}, 0, next)

\* A bug: the builder moves on without the branch.
NeverBranch(emitted, target, next) ==
  insert' = next /\ UNCHANGED <<blocks, terminated, edges, malformed>>

\* if (!block_terminated) LLVMBuildBr(target), perhaps after another instruction; then the
\* builder moves to block next.
BranchIfOpen(emitted, target, next) ==
  IF Open THEN Branch({target}, 0, next)
  ELSE /\ insert' = next
       /\ malformed' = (malformed \/ emitted)
       /\ UNCHANGED <<blocks, terminated, edges>>

-----------------------------------------------------------------------------
(* Scopes: scope_define shadows, in one scope too. *)

\* A bug: a variable of a function is defined in its outermost scope.
DefineOutermost(chain, x, var) ==
  LET outer == IF Len(chain) > 1 THEN 2 ELSE 1
  IN [chain EXCEPT ![outer] =
       [y \in DOMAIN @ \cup {x} |-> IF y = x THEN var ELSE @[y]]]

Define(chain, x, var) ==
  LET inner == Len(chain)
  IN [chain EXCEPT ![inner] =
       [y \in DOMAIN @ \cup {x} |-> IF y = x THEN var ELSE @[y]]]

Var(decl, type, home) == [decl |-> decl, type |-> type, home |-> home]
NoVar == Var(0, Unset, 0)
NoVars == [x \in {} |-> NoVar]

\* A bug in scope_lookup: the outermost scope wins.
CgLookupOutermost(x) ==
  LET holders == {i \in DOMAIN env : x \in DOMAIN env[i]}
  IN IF holders = {} THEN NoVar
     ELSE env[CHOOSE i \in holders : \A j \in holders : j >= i][x]

\* scope_lookup
CgLookup(x) ==
  LET holders == {i \in DOMAIN env : x \in DOMAIN env[i]}
  IN IF holders = {} THEN NoVar
     ELSE env[CHOOSE i \in holders : \A j \in holders : j <= i][x]

-----------------------------------------------------------------------------
(* Values, and what LLVM's typing rules forbid: an operand of the wrong    *)
(* type, an argument of another type than the parameter, an integer        *)
(* constant of pointer type, a use of NULL.  What the program does then    *)
(* depends on LLVM's build, but for a store of a value of another type     *)
(* than the slot's, which opaque pointers let through.                     *)

Ints == {"i8", "i32"}
FaultKinds == {"operand", "argument", "zero", "null", "store"}

Value(i) == val[CgKid(i)]
If(p, fault) == IF p THEN {fault} ELSE {}

Wrong(kinds) ==
  /\ faults' = faults \cup {<<at, k>> : k \in kinds}
  /\ phase' \in {phase} \cup IF kinds \subseteq {"store"} THEN {} ELSE {"crashed"}

\* coerce
Converts(from, to) == Scalar(from) /\ Scalar(to) /\ LlvmType(from) # LlvmType(to)

\* A bug: nothing is converted.
CoerceNothing(v, from, to) == v
Coerce(v, from, to) == IF Converts(from, to) THEN LlvmType(to) ELSE v
CoerceFaults(v, from, to) == If(Converts(from, to) /\ v = "ptr", "operand")

\* Comparison with LLVMConstInt(LLVMTypeOf(v), 0).
TestFaults(v) == If(v = "ptr", "zero") \cup If(v = "NULL", "null")

StoreFaults(v, addr, slot) ==
  If("NULL" \in {v, addr}, "null") \cup If(addr \in Ints, "operand")
    \cup If(v # LlvmType(slot), "store")

-----------------------------------------------------------------------------
(* Expressions. *)

\* The running function returns v.
Give(v, kinds) ==
  /\ val' = [val EXCEPT ![at] = v]
  /\ Wrong(kinds)
  /\ CgReturn
  /\ UNCHANGED <<env, funcs, cur_fn, entry>>

\* An instruction computes v; no instruction is needed for v; v stands in after an error.
Compute(v, kinds) == Give(v, kinds) /\ Emit /\ UNCHANGED <<cg_errors, uses, cgbind>>
Pass(v) == Give(v, {}) /\ UNCHANGED <<irVars, cg_errors, uses, cgbind>>
CgError(v) == Give(v, {}) /\ cg_errors' = cg_errors + 1 /\ UNCHANGED <<irVars, uses>>

Call(fn, n) == [fn |-> fn, node |-> n]

\* The calls the running function makes before it does anything else.
Operands ==
  LET op == ast[at].op
      expr(i) == Call("expr", CgKid(i))
      addr(i) == Call("lvalue", CgKid(i))
  IN CASE CgTop.fn = "lvalue" ->
            IF Kind(at) = "INDEX" THEN <<expr(1), expr(2)>>
            ELSE IF Kind(at) = "UNARY" /\ op = "STAR" THEN <<expr(1)>> ELSE <<>>
       [] CgTop.fn = "stmt" /\ Kind(at) \in {"EXPR_STMT", "RETURN", "IF"} -> <<expr(1)>>
       [] CgTop.fn = "expr" /\ Kind(at) = "ASSIGN" -> <<addr(1), expr(2)>>
       [] CgTop.fn = "expr" /\ Kind(at) = "BINARY" ->
            IF op \in Logical THEN <<expr(1)>> ELSE <<expr(1), expr(2)>>
       [] CgTop.fn = "expr" /\ Kind(at) = "UNARY" -> <<IF op = "AMP" THEN addr(1) ELSE expr(1)>>
       [] CgTop.fn = "expr" /\ Kind(at) = "CALL" ->
            IF ast[CgKid(1)].name \in DOMAIN funcs
            THEN [i \in 1..(Arity(at) - 1) |-> expr(i + 1)] ELSE <<>>
       [] CgTop.fn = "expr" /\ Kind(at) = "INDEX" -> <<Call("lvalue", at)>>
       [] OTHER -> <<>>

CgOperand ==
  /\ phase = "codegen" /\ stack # <<>>
  /\ CgTop.next \in DOMAIN Operands
  /\ LET callee == Operands[CgTop.next] IN CallFn(callee.fn, callee.node)
  /\ OnlyCalls

\* fn on a node of one of the kinds has its operands.
Evaluated(fn, kinds) ==
  /\ phase = "codegen" /\ stack # <<>>
  /\ CgTop.fn = fn /\ Kind(at) \in kinds
  /\ CgTop.next = Len(Operands) + 1

EvaluatedOp(fn, kind, ops) == Evaluated(fn, {kind}) /\ ast[at].op \in ops

LiteralValue == [INT_LIT |-> "i32", CHAR_LIT |-> "i8", STR_LIT |-> "ptr"]

CgLiteral ==
  /\ Evaluated("expr", Literals)
  /\ Pass(LiteralValue[Kind(at)])

\* An identifier in cg_expr is loaded, in cg_lvalue it is its address.
CgIdent ==
  \E fn \in {"expr", "lvalue"} :
    /\ Evaluated(fn, {"IDENT"})
    /\ LET var == CgLookup(ast[at].name)
       IN /\ cgbind' = [cgbind EXCEPT ![at] = var.decl]
          /\ IF var = NoVar
             THEN CgError(IF fn = "expr" THEN "i32" ELSE "NULL")
             ELSE /\ Give(IF fn = "expr" THEN LlvmType(var.type) ELSE "ptr", {})
                  /\ IF fn = "expr" THEN Emit ELSE UNCHANGED irVars
                  /\ uses' = uses \cup {[decl |-> var.decl, home |-> var.home, block |-> insert]}
                  /\ UNCHANGED cg_errors

CgIndexAddress ==
  /\ Evaluated("lvalue", {"INDEX"})
  /\ Compute("ptr", If("NULL" \in {Value(1), Value(2)}, "null")
                   \cup If(Value(1) \in Ints \/ Value(2) = "ptr", "operand"))

CgDerefAddress ==
  /\ EvaluatedOp("lvalue", "UNARY", {"STAR"})
  /\ Pass(Value(1))

\* The default cases of cg_expr and cg_lvalue.
Unhandled(fn) ==
  IF fn = "expr" THEN Kind(at) = "MEMBER"
  ELSE Kind(at) \notin {"IDENT", "INDEX"} /\ ~(Kind(at) = "UNARY" /\ ast[at].op = "STAR")

CgUnhandled ==
  \E fn \in {"expr", "lvalue"} :
    /\ Evaluated(fn, ExprKinds)
    /\ Unhandled(fn)
    /\ CgError(IF fn = "expr" THEN "i32" ELSE "NULL")
    /\ UNCHANGED cgbind

CgAssign ==
  /\ Evaluated("expr", {"ASSIGN"})
  /\ LET from == rtype[CgKid(2)]
         to == rtype[CgKid(1)]
         v == Coerce(Value(2), from, to)
     IN Compute(v, CoerceFaults(Value(2), from, to) \cup StoreFaults(v, Value(1), to))

\* cg_binary but for && and ||.
Common(lt, rt) == IF rt.base = "INT" /\ lt.base # "INT" THEN rt ELSE lt

PointerOffset(op, lt, rt) == ~Scalar(lt) /\ Scalar(rt) /\ op \in {"PLUS", "MINUS"}
PointerDifference(op, lt, rt) == ~Scalar(lt) /\ ~Scalar(rt) /\ op = "MINUS"

ArithValue(op, lt, rt, l, r) ==
  IF PointerOffset(op, lt, rt) THEN "ptr"
  ELSE IF PointerDifference(op, lt, rt) \/ op \in Comparisons THEN "i32"
  ELSE IF Scalar(lt) /\ Scalar(rt) THEN Coerce(l, lt, Common(lt, rt)) ELSE l

ArithFaults(op, lt, rt, l, r) ==
  LET both == Scalar(lt) /\ Scalar(rt)
      common == Common(lt, rt)
      cl == IF both THEN Coerce(l, lt, common) ELSE l
      cr == IF both THEN Coerce(r, rt, common) ELSE r
  IN If("NULL" \in {l, r}, "null")
       \cup If(IF PointerOffset(op, lt, rt) THEN l \in Ints \/ r = "ptr"
               ELSE IF PointerDifference(op, lt, rt) THEN l \in Ints \/ r \in Ints
               ELSE cl # cr \/ (cl = "ptr" /\ op \notin Comparisons),
               "operand")
       \cup (IF both THEN CoerceFaults(l, lt, common) \cup CoerceFaults(r, rt, common) ELSE {})

CgArith ==
  /\ EvaluatedOp("expr", "BINARY", BinaryOps \ Logical)
  /\ LET op == ast[at].op
         lt == rtype[CgKid(1)]
         rt == rtype[CgKid(2)]
     IN Compute(ArithValue(op, lt, rt, Value(1), Value(2)),
             ArithFaults(op, lt, rt, Value(1), Value(2)))

CgAddress ==
  /\ EvaluatedOp("expr", "UNARY", {"AMP"})
  /\ Pass(Value(1))

\* * and [] load from the address they were given.
CgLoad ==
  /\ EvaluatedOp("expr", "UNARY", {"STAR"}) \/ Evaluated("expr", {"INDEX"})
  /\ LET addr == IF Kind(at) = "INDEX" THEN val[at] ELSE Value(1)
     IN Compute(LlvmType(rtype[at]), If(addr = "NULL", "null") \cup If(addr \in Ints, "operand"))

CgNegate ==
  /\ EvaluatedOp("expr", "UNARY", {"MINUS"})
  /\ LET v == Coerce(Value(1), rtype[CgKid(1)], rtype[at])
     IN Compute(v, If(v = "NULL", "null") \cup If(v = "ptr", "operand")
                  \cup CoerceFaults(Value(1), rtype[CgKid(1)], rtype[at]))

CgNot ==
  /\ EvaluatedOp("expr", "UNARY", {"BANG"})
  /\ Compute("i32", TestFaults(Value(1)))

CgCall ==
  /\ Evaluated("expr", {"CALL"})
  /\ LET f == funcs[ast[CgKid(1)].name]
         params == ast[f].params
         args == [i \in 1..(Arity(at) - 1) |-> Value(i + 1)]
     IN IF ast[CgKid(1)].name \in DOMAIN funcs
        THEN Compute(LlvmType(ast[f].type),
                     If(\E i \in DOMAIN args : args[i] = "NULL", "null")
                       \cup If(args # [i \in DOMAIN params |-> LlvmType(params[i].type)],
                               "argument"))
        ELSE CgError("i32") /\ UNCHANGED cgbind

\* && and ||: the right operand has blocks of its own, the result is a phi.
IsLogical == Kind(at) = "BINARY" /\ ast[at].op \in Logical

CgLogicalTest ==
  /\ Step("expr", {"BINARY"}, 2) /\ IsLogical
  /\ Wrong(TestFaults(Value(1)))
  /\ Branch({New(1), New(2)}, 2, New(1))
  /\ CallWith([NoBlocks EXCEPT !.body = New(1), !.end = New(2), !.lhs = insert],
              "expr", CgKid(2))
  /\ UNCHANGED <<env, rest>>

\* A bug: the phi's second incoming block is the one the right operand began in.
IncomingStale == {bb.lhs, bb.body}
Incoming == {bb.lhs, insert}

CgLogicalMerge ==
  /\ Step("expr", {"BINARY"}, 3) /\ IsLogical
  /\ Give("i32", TestFaults(Value(2)))
  /\ BranchIfOpen(TRUE, bb.end, bb.end)
  /\ phis' = phis \cup {[at |-> bb.end, from |-> Incoming]}
  /\ UNCHANGED <<cg_errors, uses, cgbind>>

-----------------------------------------------------------------------------
(* Statements. *)

\* alloca and scope_define come before the initialiser.
CgVarDecl ==
  /\ Step("stmt", {"VAR_DECL"}, 1)
  /\ Emit
  /\ env' = Define(env, ast[at].name, Var(at, ast[at].type, insert))
  /\ CallFn("expr", CgKid(1))
  /\ UNCHANGED <<phase, faults, kept>>

CgVarInit ==
  /\ Step("stmt", {"VAR_DECL"}, 2)
  /\ IF IsNull(CgKid(1)) THEN UNCHANGED <<phase, faults, irVars>>
     ELSE LET from == rtype[CgKid(1)]
              to == ast[at].type
              v == Coerce(Value(1), from, to)
          IN /\ Wrong(CoerceFaults(Value(1), from, to) \cup StoreFaults(v, "ptr", to))
             /\ Emit
  /\ CgReturn
  /\ UNCHANGED <<env, kept>>

\* Without an expression the function returns LLVMConstInt(its return type, 0).
ReturnFaults ==
  LET to == ast[cur_fn].type
      from == rtype[CgKid(1)]
      v == Coerce(Value(1), from, to)
  IN IF Kind(at) = "FUNC_DECL" \/ IsNull(CgKid(1)) THEN If(~Scalar(to), "zero")
     ELSE If(v = "NULL", "null") \cup If(v # LlvmType(to), "operand")
            \cup CoerceFaults(Value(1), from, to)

CgExprStmt == Evaluated("stmt", {"EXPR_STMT"}) /\ CgReturn /\ OnlyCalls

CgReturnStmt ==
  /\ Step("stmt", {"RETURN"}, 2)
  /\ Wrong(ReturnFaults)
  /\ Branch({}, 0, insert)
  /\ CgReturn
  /\ UNCHANGED <<env, rest>>

\* A bug in the dead-code test of cg_block: the statements after a terminator are generated.
AlwaysMore(list) == CgTop.next - 1 \in DOMAIN list

\* A list of statements goes on while there are some and the block is open.
More(list) == CgTop.next - 1 \in DOMAIN list /\ Open

CgBlockEnter ==
  /\ Step("stmt", {"BLOCK"}, 1)
  /\ env' = Append(env, NoVars)
  /\ stack' = [stack EXCEPT ![Len(stack)].next = 2]
  /\ UNCHANGED <<phase, faults, irVars, kept>>

\* The running function executes a list: a block's, or the body's of the function it defines.
InList(kind) ==
  /\ phase = "codegen" /\ stack # <<>>
  /\ CgTop.fn \in {"stmt", "define"} /\ Kind(at) = kind /\ CgTop.next >= 2
StatementList == IF Kind(at) = "BLOCK" THEN ast[at].kids ELSE ast[CgKid(1)].kids

CgNextStatement ==
  /\ InList("BLOCK") \/ InList("FUNC_DECL")
  /\ More(StatementList)
  /\ CallFn("stmt", StatementList[CgTop.next - 1])
  /\ OnlyCalls

\* A bug: the scope stays.
CgKeepScope == UNCHANGED env
CgPopScope == env' = SubSeq(env, 1, Len(env) - 1)

CgBlockLeave ==
  /\ InList("BLOCK") /\ ~More(StatementList)
  /\ CgPopScope
  /\ CgReturn
  /\ UNCHANGED <<phase, faults, irVars, kept>>

HasElse == ~IsNull(CgKid(3))

CgIfThen ==
  /\ Step("stmt", {"IF"}, 2)
  /\ Wrong(TestFaults(Value(1)))
  /\ Branch({New(1), New(2)}, IF HasElse THEN 3 ELSE 2, New(1))
  /\ CallWith(IF HasElse
              THEN [NoBlocks EXCEPT !.then = New(1), !.else = New(2), !.end = New(3)]
              ELSE [NoBlocks EXCEPT !.then = New(1), !.end = New(2)],
              "stmt", CgKid(2))
  /\ UNCHANGED <<env, rest>>

CgIfElse ==
  /\ Step("stmt", {"IF"}, 3) /\ HasElse
  /\ BranchIfOpen(FALSE, bb.end, bb.else)
  /\ CallFn("stmt", CgKid(3))
  /\ UNCHANGED <<phase, env, faults, rest>>

CgIfEnd ==
  /\ Step("stmt", {"IF"}, IF HasElse THEN 4 ELSE 3)
  /\ BranchIfOpen(FALSE, bb.end, bb.end)
  /\ CgReturn
  /\ UNCHANGED <<phase, env, faults, rest>>

CgWhile ==
  /\ Step("stmt", {"WHILE"}, 1)
  /\ Branch({New(1)}, 3, New(1))
  /\ CallWith([NoBlocks EXCEPT !.cond = New(1), !.body = New(2), !.end = New(3)],
              "expr", CgKid(1))
  /\ UNCHANGED <<phase, env, faults, rest>>

CgWhileBody ==
  /\ Step("stmt", {"WHILE"}, 2)
  /\ Wrong(TestFaults(Value(1)))
  /\ Branch({bb.body, bb.end}, 0, bb.body)
  /\ CallFn("stmt", CgKid(2))
  /\ UNCHANGED <<env, rest>>

CgWhileEnd ==
  /\ Step("stmt", {"WHILE"}, 3)
  /\ BranchIfOpen(FALSE, bb.cond, bb.end)
  /\ CgReturn
  /\ UNCHANGED <<phase, env, faults, rest>>

CgFor ==
  /\ Step("stmt", {"FOR"}, 1)
  /\ env' = Append(env, NoVars)
  /\ blocks' = blocks + 4
  /\ CallWith([NoBlocks EXCEPT !.cond = New(1), !.body = New(2), !.post = New(3), !.end = New(4)],
              "stmt", CgKid(1))
  /\ UNCHANGED <<phase, faults, insert, terminated, edges, malformed, rest>>

CgForCond ==
  /\ Step("stmt", {"FOR"}, 2)
  /\ Branch({bb.cond}, 0, bb.cond)
  /\ CallFn("expr", CgKid(2))
  /\ UNCHANGED <<phase, env, faults, rest>>

CgForBody ==
  /\ Step("stmt", {"FOR"}, 3)
  /\ LET tested == ~IsNull(CgKid(2))
     IN /\ Wrong(IF tested THEN TestFaults(Value(2)) ELSE {})
        /\ Branch(IF tested THEN {bb.body, bb.end} ELSE {bb.body}, 0, bb.body)
  /\ CallFn("stmt", CgKid(4))
  /\ UNCHANGED <<env, rest>>

CgForPost ==
  /\ Step("stmt", {"FOR"}, 4)
  /\ BranchIfOpen(FALSE, bb.post, bb.post)
  /\ CallFn("expr", CgKid(3))
  /\ UNCHANGED <<phase, env, faults, rest>>

CgForEnd ==
  /\ Step("stmt", {"FOR"}, 5)
  /\ BranchIfOpen(FALSE, bb.cond, bb.end)
  /\ CgPopScope
  /\ CgReturn
  /\ UNCHANGED <<phase, faults, rest>>

-----------------------------------------------------------------------------
(* Declarations and the module. *)

\* A bug in declare_func: a later declaration replaces the first.
LastOf(decls) == CHOOSE n \in decls : \A m \in decls : m <= n
FirstOf(decls) == CHOOSE n \in decls : \A m \in decls : n <= m

\* codegen_emit declares every function before it defines any.
DeclarationsOf(x) == {n \in Nodes : Kind(n) = "FUNC_DECL" /\ ast[n].name = x}
DeclaredFuncs ==
  [x \in {ast[n].name : n \in {m \in Nodes : Kind(m) = "FUNC_DECL"}} |->
     FirstOf(DeclarationsOf(x))]

CgStart ==
  /\ phase = "codegen" /\ stack = <<>>
  /\ stack' = <<CgFrame("module", 1)>>
  /\ env' = <<NoVars>>
  /\ funcs' = DeclaredFuncs
  /\ val' = [n \in Nodes |-> "none"]
  /\ cgbind' = [n \in Nodes |-> 0]
  /\ UNCHANGED <<phase, cur_fn, cg_errors, irVars, entry, faults, uses>>

CgDeclaration ==
  /\ phase = "codegen" /\ stack # <<>> /\ CgTop.fn = "module"
  /\ CgTop.next \in 1..Arity(at)
  /\ LET decl == CgKid(CgTop.next)
     IN CallFn(IF Kind(decl) = "FUNC_DECL" THEN "define" ELSE "global", decl)
  /\ OnlyCalls

CgEnd ==
  /\ Step("module", {"PROGRAM"}, Arity(at) + 1)
  /\ CgPopScope
  /\ CgReturn
  /\ phase' = IF cg_errors = 0 THEN "verify" ELSE "failed"
  /\ UNCHANGED <<faults, irVars, kept>>

CgPrototype ==
  /\ Step("define", {"FUNC_DECL"}, 1) /\ IsNull(CgKid(1))
  /\ CgReturn
  /\ OnlyCalls

\* A parameter of the first declaration is stored in a slot of this one's type.
CgDefine ==
  /\ Step("define", {"FUNC_DECL"}, 1) /\ ~IsNull(CgKid(1))
  /\ LET f == funcs[ast[at].name]
         params == ast[at].params
         last(x) == CHOOSE i \in DOMAIN params :
                      params[i].name = x /\ \A j \in DOMAIN params : params[j].name = x => j <= i
     IN /\ cur_fn' = f
        /\ entry' = IF f \in DOMAIN entry THEN entry
                    ELSE [g \in DOMAIN entry \cup {f} |-> IF g = f THEN New(1) ELSE entry[g]]
        /\ env' = Append(env, [x \in {params[i].name : i \in DOMAIN params} |->
                                 Var(at, params[last(x)].type, New(1))])
        /\ Wrong(If(\E i \in DOMAIN params :
                      LlvmType(params[i].type) # LlvmType(ast[f].params[i].type), "store"))
  /\ blocks' = blocks + 1
  /\ insert' = New(1)
  /\ stack' = [stack EXCEPT ![Len(stack)].next = 2]
  /\ UNCHANGED <<terminated, edges, phis, malformed, funcs, cg_errors, val, uses, cgbind>>

CgDefineEnd ==
  /\ InList("FUNC_DECL") /\ ~More(StatementList)
  /\ CgPopScope
  /\ IF Open THEN Branch({}, 0, insert) /\ Wrong(ReturnFaults)
     ELSE UNCHANGED <<phase, faults, blocks, insert, terminated, edges, malformed>>
  /\ cur_fn' = 0
  /\ CgReturn
  /\ UNCHANGED <<funcs, cg_errors, phis, entry, val, uses, cgbind>>

\* define_global_var: only literals initialise.
CgGlobal ==
  /\ Step("global", {"VAR_DECL"}, 1)
  /\ LET init == Kind(CgKid(1))
         slot == LlvmType(ast[at].type)
     IN /\ cg_errors' = cg_errors + (IF init \in Literals \cup {"NULL"} THEN 0 ELSE 1)
        /\ Wrong(If(init \in {"INT_LIT", "CHAR_LIT"} /\ slot = "ptr", "zero")
                   \cup If(init = "STR_LIT" /\ slot # "ptr", "operand"))
  /\ env' = Define(env, ast[at].name, Var(at, ast[at].type, 0))
  /\ CgReturn
  /\ UNCHANGED <<irVars, funcs, cur_fn, entry, val, uses, cgbind>>

CgInit ==
  /\ stack = <<>> /\ env = <<>> /\ funcs = [x \in {} |-> 0] /\ cur_fn = 0 /\ cg_errors = 0
  /\ blocks = 0 /\ insert = 0 /\ terminated = {} /\ edges = {} /\ phis = {} /\ malformed = FALSE
  /\ entry = [f \in {} |-> 0]
  /\ val = <<>> /\ faults = {} /\ uses = {} /\ cgbind = <<>>

CgNext ==
  /\ \/ CgStart \/ CgDeclaration \/ CgEnd \/ CgPrototype \/ CgDefine \/ CgDefineEnd \/ CgGlobal
     \/ CgVarDecl \/ CgVarInit \/ CgExprStmt \/ CgReturnStmt
     \/ CgBlockEnter \/ CgNextStatement \/ CgBlockLeave
     \/ CgIfThen \/ CgIfElse \/ CgIfEnd
     \/ CgWhile \/ CgWhileBody \/ CgWhileEnd
     \/ CgFor \/ CgForCond \/ CgForBody \/ CgForPost \/ CgForEnd
     \/ CgOperand \/ CgLiteral \/ CgIdent \/ CgIndexAddress \/ CgDerefAddress
     \/ CgAssign \/ CgArith \/ CgAddress \/ CgLoad \/ CgNegate \/ CgNot \/ CgCall \/ CgUnhandled
     \/ CgLogicalTest \/ CgLogicalMerge
  /\ UNCHANGED <<ast, semaVars>>

-----------------------------------------------------------------------------
(* Properties. *)

CgFrames ==
  [fn : {"module", "define", "global", "stmt", "expr", "lvalue"},
   node : Nodes, next : Nat, bb : [Roles -> 0..blocks]]

(* The state of struct CodeGen, of its scopes and of the graph it builds.               *)
CgTypeOK ==
  /\ stack \in Seq(CgFrames)
  /\ \A i \in DOMAIN env : \A x \in DOMAIN env[i] :
       x \in Names /\ env[i][x] \in [decl : Nodes, type : TypeInfos, home : 0..blocks]
  /\ DOMAIN funcs \subseteq FuncNames /\ \A f \in DOMAIN funcs : funcs[f] \in Nodes
  /\ cur_fn \in {0} \cup Nodes /\ cg_errors \in Nat
  /\ blocks \in Nat /\ insert \in 0..blocks
  /\ terminated \subseteq 1..blocks /\ edges \subseteq (1..blocks) \X (1..blocks)
  /\ \A p \in phis : p.at \in 1..blocks /\ p.from \subseteq 1..blocks
  /\ malformed \in BOOLEAN
  /\ DOMAIN entry \subseteq Nodes /\ \A f \in DOMAIN entry : entry[f] \in 1..blocks
  /\ DOMAIN val \subseteq Nodes /\ \A n \in DOMAIN val : val[n] \in MachineTypes
  /\ faults \subseteq Nodes \X FaultKinds
  /\ uses \subseteq [decl : Nodes, home : 0..blocks, block : 1..blocks]
  /\ DOMAIN cgbind \subseteq Nodes /\ \A n \in DOMAIN cgbind : cgbind[n] \in {0} \cup Nodes

(* Each scope is pushed and popped by the activation that owns it, whether its list of   *)
(* statements ends, is cut at a terminator or had errors.                               *)
CgScopesBalanced ==
  phase = "codegen" /\ stack # <<>> =>
    Len(env) = 1 + Cardinality({i \in DOMAIN stack :
      stack[i].fn \in {"define", "stmt"} /\ Kind(stack[i].node) \in ScopedKinds
        /\ stack[i].next > 1})

(* No instruction is ever appended after a terminator: the dead-code tests of cg_block, *)
(* define_func_body and the branch statements (block_terminated) leave no gap.          *)
NothingAfterTerminator == ~malformed

(* When a function is finished every basic block it appended ends in a terminator, the  *)
(* blocks no statement was generated into (ends of loops and ifs) included.             *)
BlocksTerminated == Len(stack) <= 1 => terminated = 1..blocks

(* The phi of && and || lists exactly the predecessors of its block, whatever blocks    *)
(* the operands appended meanwhile (lhs_bb and rhs_end_bb are read after the calls).    *)
PhisComplete == \A p \in phis : p.from = {e[1] : e \in {d \in edges : d[2] = p.at}}
=============================================================================
