-------------------------------- MODULE Sema --------------------------------
(***************************************************************************)
(* Semantic analysis (Sema.c): one pass over the tree of Ast that resolves *)
(* names in a stack of scopes, gives every expression a type and counts    *)
(* errors and warnings.  The C call stack is explicit: a frame is an       *)
(* activation of analyse_expr, analyse_stmt, analyse_func_decl or          *)
(* sema_analyse on a node, and next is the child it analyses next (0: the  *)
(* function has not pushed its scope yet).                                 *)
(***************************************************************************)
EXTENDS Ast

VARIABLES
  frames,         \* the C call stack, the running function last
  scopes,         \* current_scope and its outer scopes, the global scope first
  current_func,   \* the symbol of the function whose body is analysed
  has_return,     \* a return statement was met in that body
  error_count,
  warning_count,
  rtype,          \* resolved_type of each node
  bind            \* history: the symbol each identifier was resolved to

semaVars ==
  <<frames, scopes, current_func, has_return, error_count, warning_count, rtype, bind>>

IntType == TypeInfo("INT", 0)
CharType == TypeInfo("CHAR", 0)
Unknown == TypeInfo("UNKNOWN", 0)
Types == [base : BaseTypes \cup {Unset.base}, ptr_depth : Nat] \cup {Unknown}

Scalar(t) == t.ptr_depth = 0
PointerTo(t) == TypeInfo(t.base, t.ptr_depth + 1)

\* A bug: one level of indirection too many is removed.
PointeeTwice(t) == TypeInfo(t.base, t.ptr_depth - 2)
Pointee(t) == TypeInfo(t.base, t.ptr_depth - 1)

-----------------------------------------------------------------------------
(* Symbols and scopes.  decl, the declaring node, is history. *)

Symbol(kind, type, params, decl) ==
  [kind |-> kind, type |-> type, params |-> params, decl |-> decl]
NoSymbol == Symbol("NONE", Unknown, <<>>, 0)

FuncSymbol(n) ==
  Symbol("FUNC", ast[n].type, [i \in DOMAIN ast[n].params |-> ast[n].params[i].type], n)
VarSymbol(n, type) == Symbol("VAR", type, <<>>, n)

EmptyScope == [x \in {} |-> NoSymbol]

\* scope_insert: a name already in the scope keeps its symbol.
Insert(scope, x, symbol) ==
  [y \in DOMAIN scope \cup {x} |-> IF y \in DOMAIN scope THEN scope[y] ELSE symbol]

\* A bug in scope_lookup: the search starts at the global scope.
LookupOutermost(chain, x) ==
  IF \A i \in DOMAIN chain : x \notin DOMAIN chain[i] THEN NoSymbol
  ELSE LET outer == CHOOSE i \in DOMAIN chain :
                      x \in DOMAIN chain[i] /\ \A j \in 1..(i - 1) : x \notin DOMAIN chain[j]
       IN chain[outer][x]

\* scope_lookup: the innermost scope that has the name.
LookupIn(chain, x) ==
  IF \A i \in DOMAIN chain : x \notin DOMAIN chain[i] THEN NoSymbol
  ELSE LET inner == CHOOSE i \in DOMAIN chain :
                      /\ x \in DOMAIN chain[i]
                      /\ \A j \in DOMAIN chain : j > i => x \notin DOMAIN chain[j]
       IN chain[inner][x]

Current == scopes[Len(scopes)]
Enclosing == SubSeq(scopes, 1, Len(scopes) - 1)
Lookup(x) == LookupIn(scopes, x)
LookupOuter(x) == LookupIn(Enclosing, x)

Fresh(x) == x \notin DOMAIN Current

-----------------------------------------------------------------------------
(* Diagnostics, and the typing rules: what an expression's type and        *)
(* diagnostics are, given the types of its operands.                       *)

Diag(e, w) == [err |-> IF e THEN 1 ELSE 0, warn |-> IF w THEN 1 ELSE 0]
Silent == Diag(FALSE, FALSE)
Error == Diag(TRUE, FALSE)

Result(type, diag) == [type |-> type, diag |-> diag]

\* Initialisers, assignments, arguments and return values convert alike.
Conversion(to, from) ==
  IF Unknown \in {to, from} THEN Silent
  ELSE Diag(to.ptr_depth # from.ptr_depth,
            to.ptr_depth = from.ptr_depth /\ to.base # from.base /\ Scalar(to))

AssignRule(lhs, rhs) ==
  Result(IF Unknown \in {lhs, rhs} THEN Unknown ELSE lhs, Conversion(lhs, rhs))

Comparisons == {"EQ", "NEQ", "LT", "GT", "LEQ", "GEQ"}
Logical == {"AND", "OR"}

BinaryRule(op, left, right) ==
  IF Unknown \in {left, right} THEN Result(Unknown, Silent)
  ELSE IF op \in Comparisons \cup Logical
  THEN Result(IntType, Diag(~Scalar(left) /\ left # right, FALSE))
  ELSE IF ~Scalar(left)
  THEN IF Scalar(right) THEN Result(left, Silent) ELSE Result(IntType, Diag(op # "MINUS", FALSE))
  ELSE IF ~Scalar(right) THEN Result(right, Diag(op # "PLUS", FALSE))
  ELSE Result(IF "INT" \in {left.base, right.base} THEN IntType ELSE CharType,
              Diag(FALSE, left.base # right.base))

UnaryRule(op, operand) ==
  IF operand = Unknown THEN Result(Unknown, Silent)
  ELSE CASE op = "AMP" -> Result(PointerTo(operand), Silent)
         [] op = "STAR" -> IF Scalar(operand) THEN Result(Unknown, Error)
                           ELSE Result(Pointee(operand), Silent)
         [] OTHER -> IF Scalar(operand) THEN Result(IntType, Silent)
                     ELSE Result(Unknown, Error)

\* A bug: the subscript of a scalar is not reported.
IndexRuleSilent(array, index) ==
  IF array = Unknown \/ Scalar(array) THEN Result(Unknown, Silent)
  ELSE Result(Pointee(array), Diag(~Scalar(index), FALSE))

IndexRule(array, index) ==
  IF array = Unknown THEN Result(Unknown, Silent)
  ELSE IF Scalar(array) THEN Result(Unknown, Error)
  ELSE Result(Pointee(array), Diag(~Scalar(index), FALSE))

-----------------------------------------------------------------------------
(* The call stack. *)

ScopedKinds == {"FUNC_DECL", "BLOCK", "FOR"}

Frame(n) == [node |-> n, next |-> IF Kind(n) \in ScopedKinds THEN 0 ELSE 1]
Top == frames[Len(frames)]
node == Top.node
Name == ast[node].name
KidType(i) == rtype[Kid(node, i)]

Callee == Kid(node, 1)
CalleeSymbol == IF Kind(Callee) = "IDENT" THEN Lookup(ast[Callee].name) ELSE NoSymbol
Callable == CalleeSymbol.kind = "FUNC"

\* The children the running function analyses, in order.
Visits ==
  CASE Kind(node) = "FUNC_DECL" -> ast[Kid(node, 1)].kids
    [] Kind(node) = "CALL" -> IF Callable THEN Tail(ast[node].kids) ELSE <<>>
    [] Kind(node) = "RETURN" -> IF current_func = NoSymbol THEN <<>> ELSE ast[node].kids
    [] OTHER -> ast[node].kids

\* What the running function reports on the child it has just analysed, condition or argument.
KidDiag ==
  LET i == Top.next - 1
  IN CASE Kind(node) \in {"IF", "WHILE"} /\ i = 1 -> Diag(~Scalar(KidType(1)), FALSE)
       [] Kind(node) = "FOR" /\ i = 2 -> Diag(~Scalar(KidType(2)), FALSE)
       [] Kind(node) = "CALL" /\ i \in DOMAIN Visits \cap DOMAIN CalleeSymbol.params ->
            Conversion(CalleeSymbol.params[i], rtype[Visits[i]])
       [] OTHER -> Silent

Report(diag) ==
  /\ error_count' = error_count + KidDiag.err + diag.err
  /\ warning_count' = warning_count + KidDiag.warn + diag.warn

Return == frames' = SubSeq(frames, 1, Len(frames) - 1)

\* A function on a node of one of the kinds runs: about to start, or done with its children.
Running(kinds) == phase = "sema" /\ frames # <<>> /\ Kind(node) \in kinds
Entering(kind) == Running({kind}) /\ Top.next = 0

Leaving(kinds) == Running(kinds) /\ Top.next > Len(Visits)

-----------------------------------------------------------------------------
(* Analysis. *)

SemaStart ==
  /\ phase = "sema" /\ frames = <<>>
  /\ frames' = <<Frame(1)>>
  /\ scopes' = <<EmptyScope>>
  /\ rtype' = [n \in Nodes |-> Unset]
  /\ bind' = [n \in Nodes |-> NoSymbol]
  /\ UNCHANGED <<ast, phase, current_func, has_return, error_count, warning_count>>

SemaEnd ==
  /\ Leaving({"PROGRAM"})
  /\ Return
  /\ phase' = IF error_count = 0 THEN "codegen" ELSE "rejected"
  /\ UNCHANGED <<ast, scopes, current_func, has_return, error_count, warning_count,
                 rtype, bind>>

\* The running function calls the next one, after its check of the child before; on a null
\* child it calls none.
AnalyseChild ==
  /\ Running(NodeKinds)
  /\ Top.next \in DOMAIN Visits
  /\ LET child == Visits[Top.next]
         resumed == [frames EXCEPT ![Len(frames)].next = @ + 1]
     IN frames' = IF IsNull(child) THEN resumed ELSE Append(resumed, Frame(child))
  /\ Report(Silent)
  /\ UNCHANGED <<ast, phase, scopes, current_func, has_return, rtype, bind>>

Enter(scope) ==
  /\ scopes' = Append(scopes, scope)
  /\ frames' = [frames EXCEPT ![Len(frames)].next = 1]

\* A bug: the scope stays.
KeepScope == UNCHANGED scopes
PopScope == scopes' = Enclosing

EnterScope ==
  /\ Entering("BLOCK") \/ Entering("FOR")
  /\ Enter(EmptyScope)
  /\ UNCHANGED <<ast, phase, current_func, has_return, error_count, warning_count,
                 rtype, bind>>

LeaveScope ==
  /\ Leaving({"BLOCK", "FOR"})
  /\ PopScope
  /\ Return
  /\ Report(Silent)
  /\ UNCHANGED <<ast, phase, current_func, has_return, rtype, bind>>

Params == ast[node].params
ParamNames == {Params[i].name : i \in DOMAIN Params}
FirstParam(x) ==
  CHOOSE i \in DOMAIN Params :
    /\ Params[i].name = x
    /\ \A j \in 1..(i - 1) : Params[j].name # x
ParamScope == [x \in ParamNames |-> VarSymbol(node, Params[FirstParam(x)].type)]

\* A bug: the return type is not compared.
RedeclarationByCount(existing) == IF Len(existing.params) # Len(Params) THEN 1 ELSE 0

\* The checks against an earlier declaration; parameter types are not among them.
Redeclaration(existing) ==
  (IF existing.type # ast[node].type THEN 1 ELSE 0)
    + (IF Len(existing.params) # Len(Params) THEN 1 ELSE 0)

EnterFunction ==
  /\ Entering("FUNC_DECL")
  /\ LET existing == Lookup(Name)
         symbol == IF existing = NoSymbol THEN FuncSymbol(node) ELSE existing
         global == [scopes EXCEPT ![1] = Insert(@, Name, symbol)]
     IN IF existing.kind = "VAR" \/ IsNull(Kid(node, 1))
        THEN /\ Return
             /\ scopes' = IF existing.kind = "VAR" THEN scopes ELSE global
             /\ error_count' = error_count
                  + (IF existing.kind = "VAR" THEN 1 ELSE Redeclaration(symbol))
             /\ UNCHANGED <<current_func, has_return>>
        ELSE /\ scopes' = Append(global, ParamScope)
             /\ frames' = [frames EXCEPT ![Len(frames)].next = 1]
             /\ current_func' = symbol
             /\ has_return' = FALSE
             /\ error_count' = error_count + Redeclaration(symbol)
                  + Len(Params) - Cardinality(ParamNames)
  /\ UNCHANGED <<ast, phase, warning_count, rtype, bind>>

\* A bug: current_func survives the body.
LeaveFunctionKeeping ==
  /\ Leaving({"FUNC_DECL"})
  /\ Return
  /\ PopScope
  /\ Report(Diag(FALSE, ~has_return))
  /\ has_return' = FALSE
  /\ UNCHANGED <<ast, phase, current_func, rtype, bind>>

LeaveFunction ==
  /\ Leaving({"FUNC_DECL"})
  /\ Return
  /\ PopScope
  /\ Report(Diag(FALSE, ~has_return))
  /\ current_func' = NoSymbol
  /\ has_return' = FALSE
  /\ UNCHANGED <<ast, phase, rtype, bind>>

\* Local and global declarations: at the global scope LookupOuter finds nothing.
DeclareVariable ==
  /\ Leaving({"VAR_DECL"})
  /\ LET type == ast[node].type
         init == Kid(node, 1)
         conversion == IF Fresh(Name) /\ ~IsNull(init) THEN Conversion(type, rtype[init]) ELSE Silent
         shadows == IF LookupOuter(Name) # NoSymbol THEN 1 ELSE 0
     IN /\ scopes' = Append(Enclosing, Insert(Current, Name, VarSymbol(node, type)))
        /\ error_count' = error_count + conversion.err + (IF Fresh(Name) THEN 0 ELSE 1)
        /\ warning_count' = warning_count + conversion.warn + shadows
  /\ Return
  /\ UNCHANGED <<ast, phase, current_func, has_return, rtype, bind>>

\* A bug: a return without an expression is not counted.
AnalyseReturnValued ==
  /\ Leaving({"RETURN"})
  /\ Return
  /\ has_return' = (has_return \/ ~IsNull(Kid(node, 1)))
  /\ LET e == Kid(node, 1)
     IN Report(IF current_func = NoSymbol THEN Error
               ELSE IF IsNull(e) THEN Diag(FALSE, TRUE)
               ELSE Conversion(current_func.type, rtype[e]))
  /\ UNCHANGED <<ast, phase, scopes, current_func, rtype, bind>>

AnalyseReturn ==
  /\ Leaving({"RETURN"})
  /\ Return
  /\ has_return' = TRUE
  /\ LET e == Kid(node, 1)
     IN Report(IF current_func = NoSymbol THEN Error
               ELSE IF IsNull(e) THEN Diag(FALSE, TRUE)
               ELSE Conversion(current_func.type, rtype[e]))
  /\ UNCHANGED <<ast, phase, scopes, current_func, rtype, bind>>

\* The other statements do nothing after their last child.
LeaveStatement ==
  /\ Leaving({"IF", "WHILE", "EXPR_STMT"})
  /\ Return
  /\ Report(Silent)
  /\ UNCHANGED <<ast, phase, scopes, current_func, has_return, rtype, bind>>

\* analyse_expr stores the type it returns in the node.
Resolve(result) ==
  /\ rtype' = [rtype EXCEPT ![node] = result.type]
  /\ Report(result.diag)
  /\ Return
  /\ UNCHANGED <<ast, phase, scopes, current_func, has_return>>

LiteralType == [INT_LIT |-> IntType, CHAR_LIT |-> CharType, STR_LIT |-> PointerTo(CharType)]

AnalyseLiteral ==
  /\ Leaving(Literals)
  /\ Resolve(Result(LiteralType[Kind(node)], Silent))
  /\ UNCHANGED bind

AnalyseIdent ==
  /\ Leaving({"IDENT"})
  /\ LET symbol == Lookup(Name)
     IN /\ Resolve(Result(symbol.type, Diag(symbol = NoSymbol, FALSE)))
        /\ bind' = [bind EXCEPT ![node] = symbol]

AnalyseAssign ==
  /\ Leaving({"ASSIGN"})
  /\ Resolve(AssignRule(KidType(1), KidType(2)))
  /\ UNCHANGED bind

AnalyseBinary ==
  /\ Leaving({"BINARY"})
  /\ Resolve(BinaryRule(ast[node].op, KidType(1), KidType(2)))
  /\ UNCHANGED bind

AnalyseUnary ==
  /\ Leaving({"UNARY"})
  /\ Resolve(UnaryRule(ast[node].op, KidType(1)))
  /\ UNCHANGED bind

\* The callee is looked up, never analysed; what it lacks to be called is one error.
AnalyseCall ==
  /\ Leaving({"CALL"})
  /\ Resolve(IF Callable
             THEN Result(CalleeSymbol.type,
                         Diag(Len(CalleeSymbol.params) # Arity(node) - 1, FALSE))
             ELSE Result(Unknown, Error))
  /\ bind' = [bind EXCEPT ![Callee] = CalleeSymbol]

AnalyseIndex ==
  /\ Leaving({"INDEX"})
  /\ Resolve(IndexRule(KidType(1), KidType(2)))
  /\ UNCHANGED bind

\* A bug: a member access is an int.
AnalyseMemberAsInt ==
  /\ Leaving({"MEMBER"})
  /\ Resolve(Result(IntType, Silent))
  /\ UNCHANGED bind

AnalyseMember ==
  /\ Leaving({"MEMBER"})
  /\ Resolve(Result(Unknown, Error))
  /\ UNCHANGED bind

SemaInit ==
  /\ AstInit
  /\ frames = <<>> /\ scopes = <<>>
  /\ current_func = NoSymbol /\ has_return = FALSE
  /\ error_count = 0 /\ warning_count = 0
  /\ rtype = <<>> /\ bind = <<>>

SemaNext ==
  \/ AstNext /\ UNCHANGED semaVars
  \/ SemaStart \/ SemaEnd \/ AnalyseChild \/ EnterScope \/ LeaveScope
  \/ EnterFunction \/ LeaveFunction \/ DeclareVariable
  \/ AnalyseReturn \/ LeaveStatement
  \/ AnalyseLiteral \/ AnalyseIdent \/ AnalyseAssign \/ AnalyseBinary
  \/ AnalyseUnary \/ AnalyseCall \/ AnalyseIndex \/ AnalyseMember

-----------------------------------------------------------------------------
(* Properties. *)

Symbols == [kind : {"VAR", "FUNC"}, type : TypeInfos, params : Seq(TypeInfos), decl : Nodes]

(* The state of struct Sema, of its scopes and of the types it stores in the tree.      *)
SemaTypeOK ==
  /\ frames \in Seq([node : Nodes, next : Nat])
  /\ \A i \in DOMAIN scopes : \A x \in DOMAIN scopes[i] :
       x \in Names /\ scopes[i][x] \in Symbols
  /\ current_func \in Symbols \cup {NoSymbol} /\ has_return \in BOOLEAN
  /\ error_count \in Nat /\ warning_count \in Nat
  /\ DOMAIN rtype \subseteq Nodes /\ \A n \in DOMAIN rtype : rtype[n] \in Types
  /\ DOMAIN bind \subseteq Nodes /\ \A n \in DOMAIN bind : bind[n] \in Symbols \cup {NoSymbol}

(* No expression is left without a type in silence: type_unknown() propagates through   *)
(* every rule of analyse_expr_impl, and somewhere below an error was counted, so that   *)
(* sema_analyse fails and CodeGen never reads such a type.                              *)
KnownUnlessError == \A n \in DOMAIN rtype : rtype[n] = Unknown => error_count > 0

(* Each scope is pushed and popped by the activation that owns it, along every early     *)
(* return too, so that current_scope is the scope of the running function's node.       *)
ScopesBalanced ==
  phase = "sema" /\ frames # <<>> =>
    Len(scopes) = 1 + Cardinality({i \in DOMAIN frames :
      Kind(frames[i].node) \in ScopedKinds /\ frames[i].next > 0})

(* Inside the body of a function, and only there, current_func is the global symbol of  *)
(* that function: "return outside of function" is unreachable, and each return is       *)
(* checked against its own function although current_func and has_return are reset by   *)
(* hand at the end of analyse_func_decl.                                                *)
CurrentFuncOfBody ==
  phase = "sema" /\ frames # <<>> =>
    IF \E i \in DOMAIN frames : Kind(frames[i].node) = "FUNC_DECL" /\ frames[i].next > 0
    THEN current_func = scopes[1][ast[frames[2].node].name] /\ current_func.kind = "FUNC"
    ELSE current_func = NoSymbol /\ ~has_return
=============================================================================
