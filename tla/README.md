# Verification of the student C compiler

The repository is a compiler for a small C subset: a hand-written lexer, a recursive-descent
parser, a semantic analysis that annotates the tree, a code generator that drives LLVM's IR
builder, and a `main()` that runs the phases in order and writes files. It is one thread, with
no persistence. What makes it hard is not concurrency but four recursive walks over one tree
that have to agree: each keeps mutable state of its own across the recursion (scopes, a current
function, an insertion block), restores it by hand along early returns, and relies on what the
walk before it accepted. This directory holds TLA+ modules translated from the source, TLC runs
that check them on *every* text or program of bounded size, and proofs for programs of any size.

## The system

| part | state | operations | what makes it correct |
|---|---|---|---|
| Lexer (`Lexer.c`) | position, line, the cut lexeme | `next_token` | returns the tokens of the text, with their lines; reaches EOF; reads nothing beyond it |
| Parser (`Parser.c`) | current and next token, `had_error`, the tree | one function per construct | returns on every text; a tree has the children the later phases index, also after errors; an accepted text is read with C's precedences |
| Sema (`Sema.c`) | a chain of scopes, `current_func`, `has_return`, error and warning counts; `resolved_type` in the tree | `analyse_expr`, `analyse_stmt`, `analyse_func_decl`, `sema_analyse` | accepts exactly the well-typed programs; scopes balance; per-function fields are those of the function at hand; no type is missing without an error |
| CodeGen (`CodeGen.c`) | scopes of its own, `cur_fn`, the builder's insert block, the module, an error count | `cg_expr`, `cg_lvalue`, `cg_binary`, `cg_stmt`, `define_func_body`, `define_global_var`, `codegen_emit` | every block ends in exactly one terminator; phis name their predecessors; names mean what Sema said; values have the types LLVM requires |
| Values (`CodeGen.c`) | the values instructions compute | conversions, operators, literals, `decode_escapes` | an expression has the value C gives it |
| Driver (`main.c`) | exit status, output files | `main` | no failed phase is followed by output; the status tells the truth |
| Memory | nodes, symbols | `ast_free`, `scope_free`, `sema_free` | each is freed once and none is used after |
| LLVM | the IR of the module | builder, verifier, file output | external |

The phases share one structure, the tree. The parser builds it, Sema writes `resolved_type` into
it, CodeGen reads tree and types. Sema's scopes are gone when CodeGen starts, so CodeGen resolves
every name again with scopes of its own: nothing in the code enforces that the two agree, and they
do not always.

What is hard here, and the properties it leads to, is listed line by line in `PROJECT.json`
under "hazards". In short:

* *two walks in different orders*: `int x = x;`, the post expression of a `for` against its body;
* *state kept across recursion and reset by hand*: scopes, `current_func`, `has_return`, the
  insert block that a nested `&&`, `if` or loop moves;
* *dead code*: nine places test whether the block is terminated; one too few appends after a
  terminator, one too many drops live code;
* *partial failure*: after an error Sema goes on with an unknown type and CodeGen with `NULL`;
  neither may escape;
* *error recovery*: `expect` consumes the token it did not expect, the end of the file included,
  and the loops around it still have to end and to leave a tree in shape;
* *the end of the text*: loops of the lexer that look for a closing character must find the NUL;
* *widths*: three integer widths, two representations of `char`, a pointer difference scaled by hand;
* *what one phase accepts and the next has no case for*: operators on mixed operands, functions
  as values, non-lvalues, redeclared parameters.

## Modules

    Ast  <-  Sema  <-  CodeGen  <-  Compiler  <-  StaticSemantics  <-  Agreement  <-  Claims
    Compiler -> Outcome;   StaticSemantics  <-  SemaProofs
    Agreement, SemaProofs  <-  CodeGenProofs  <-  SemanticsProofs  <-  AgreementProofs
    Grammar  <-  Ast, Values, Parser, Text
    Parser, Text  <-  Parsing;   Parser  <-  Freeing;   Ast, Freeing, Text  <-  RoundTrip
    Lexer -> TokenSource;   SymbolTable -> Scopes;   TypeNames;   Escapes
    Ast  <-  Topics;   Claims, Topics  <-  MCCompiler;   RoundTrip, Topics  <-  MCRoundTrip
    Lexer  <-  MCLexer;   Parsing  <-  MCParsing;   Values, Escapes  <-  MCValues
    SymbolTable, TypeNames  <-  MCSymbols, SymbolProofs;   Lexer  <-  LexerProofs
    Parsing, RoundTrip  <-  ParserProofs;   Escapes  <-  EscapesProofs

(`A <- B`: B EXTENDS A; `A -> B`: A is checked to implement B, by INSTANCE.)

### The pipeline

A state is the whole compiler: the tree, the phase that runs next, and
the variables of each phase. The phases interact only through `ast`, `phase`, `rtype` and the
error counts, as in the code.

* **Grammar** is `Parser.h`: types, nodes, and which kinds of node may be which child of which.
* **Ast** is the trees `parse()` can return. The tree is a sequence of
  nodes that grows from the root down; a position still to be parsed is a *hole* whose kind says
  which parse function fills it, and each action (`ParseIf`, `ParseFor`, ...) is what one
  parse function contributes. TLC thus enumerates every program, in source order, up to `MaxNodes`.
  A null child is a node of kind `NULL`; a node's children have greater positions than the node,
  in source order. One kind of tree is too many: an `if` without `else` that ends the then-branch of
  an `if` with one has no text; `RoundTrip` shows it is the only one, and the later phases treat it
  like its text in braces.
* **Sema** is `Sema.c`. The C call stack is explicit: a frame is an activation of `analyse_expr`,
  `analyse_stmt`, `analyse_func_decl` or `sema_analyse` on a node, and `next` is the child it
  analyses next. `AnalyseChild` is the call of the next function together with the check the
  caller makes of the child before (conditions, arguments); the other actions are the ends of the
  cases of the `switch`es. `AssignRule`, `BinaryRule`, `UnaryRule`, `IndexRule` are the typing
  cases of `analyse_expr_impl`: a type, an error, a warning.
* **CodeGen** is `CodeGen.c`, again with its call stack; a frame also holds the blocks its
  function appended before the calls it waits for (`bb`). An instruction is abstracted to the
  *machine type* of its value (`i8`, `i32`, `ptr`, or `NULL` after an error); a basic block to
  whether it is terminated and where it branches. `faults` records each use of a value LLVM's
  typing rules do not allow, `uses` where locals are used and allocated, `malformed` whether an
  instruction was appended after a terminator. What a value *is* at run time is abstracted away.
* **Compiler** is `main()`: the phases, their return codes, the two output files, the exit status,
  with LLVM's verifier and file output as external (see below).
* **Outcome** is what a user may rely on, with no phases: one verdict on the program, files for a
  sound program only, the object file last and with status 0, any other end with status 1.
  `CompilesOrReports` says that Compiler implements it.
* **StaticSemantics** is the reference for Sema: what a name means, what type an expression
  has and when a program is accepted, as definitions over the finished tree, with no scopes stack, no
  order of visits and no error counts.
* **Agreement** states how far CodeGen agrees with Sema and with the source's control flow,
  exceptions included.
* **Claims** states what messages of the program say of it and the code does not keep.
* **Topics** restricts the trees of a run to *topics*: a set of node kinds with the names, operators,
  types and parameter lists it uses and bounds of its own. Each part of a program of a topic is within
  the topic, so that a run of several topics has the programs of each of them whole. **MCCompiler**
  holds the topics and the other constants of the runs.
* **SemaProofs**, **CodeGenProofs**, **SemanticsProofs** and **AgreementProofs** hold the
  lemmas and theorems about it, **LexerProofs**, **ParserProofs**, **SymbolProofs** and **EscapesProofs**
  those about the modules below.

### The front end

* **Lexer** is `next_token()`, one character per step; `mode` is the loop it is in. Memory holds the
  text, its NUL and then whatever was there (`Beyond`); reading past all of it may end the program.
* **TokenSource** is what the lexer promises, without positions or loops: a text is a sequence of
  items, each given by where it begins and ends. Its one step `Lost` is for the texts the
  lexer does not stay inside: an open character literal, or a string that ends in a backslash
  (`Lexer.c:128`, `140`).
* **Parser** is `Parser.c` with its call stack. A function that takes fixed steps is a *script* of
  `expect`, `match`, `check` and calls, interpreted by one action per kind of step; the chain from
  `parse_assignment` to `parse_postfix` holds an operand and looks for its operators. The text is not
  chosen in advance: the next token is picked when `next_token()` is called.
* **Text** is the reference: the tokens of a tree, where parentheses are needed, to which `if` an
  `else` belongs. It knows nothing of parse functions.
* **Parsing** runs Parser on every text and states what `main()` may expect of it. **RoundTrip** takes
  every tree of Ast, writes it with the fewest parentheses, parses it and frees what came of it.
* **Freeing** is `ast_free()` on what Parser built, with the children the case of each kind names.

### Below the pipeline

* **SymbolTable** is the scopes of `Sema.c` as stored: arrays of buckets with chains of symbols.
  **Scopes** is what Sema (the module) has instead, nested maps; `ImplementsScopes` is the
  refinement.
* **TypeNames** is `type_name()` with its four shared buffers.
* **Values** is what the instructions of CodeGen compute, next to what the expression means in C.
  **Escapes** is the way of a literal from the source to the bytes in the object file.
* **MCLexer**, **MCParsing**, **MCRoundTrip** hold the texts, topics and other constants of the runs.
  **MCValues** is Values and Escapes next to one another, **MCSymbols** SymbolTable and TypeNames: a
  behaviour works on one of the two and leaves the other at its beginning, so that neither run multiplies
  the states of its parts.

External parts. The IR builder appends a block, an instruction or a terminator where it is told
to. The verifier rejects exactly: blocks without a terminator or with code after it, phis
that do not match the predecessors, ill-typed operands, and uses the allocation does not dominate
(dominance is computed over the branches CodeGen built). What an ill-typed operand does inside
LLVM before the verifier sees it depends on the build (assertions, null dereference): the model
chooses between going on and `crashed`. A file may or may not be writable.

History variables (`bind`, `cgbind`, `decl` of a symbol, `faults`, `uses`, `entry`) record
what happened for the properties and are never read by a guard that models code.

## What is checked

The runs `control`, `meaning` and `driver` take every program of their topics through the pipeline, from
the first token to the end of `main()`.

| run | inputs | shows |
|---|---|---|
| `control` | statements and `&&`; declarations as bodies of if and for; 9 nodes | The control-flow graph is well formed: `NothingAfterTerminator`, `BlocksTerminated`, `PhisComplete`; it reaches a statement exactly when control can reach it in the source (`ReachabilityAgrees`, where a second body of a function is never reached); `HasReturnExact`, `CurrentFuncOfBody`, `ScopesBalanced`, `CgScopesBalanced`; a local escapes its allocation only through a declaration that is a whole body (`DominanceExplained`). |
| `meaning` | scopes, calls, redeclarations, expressions (below) | Sema decides `StaticSemantics` (`SemaDecides`) and annotates as it says (`SemaAnnotates`); no missing type without an error (`KnownUnlessError`); CodeGen's internal errors and ill-typed LLVM uses are exactly the named gaps (`ErrorsExplained`, `FaultsExplained`); CodeGen's own resolution is Sema's but for the orders named in `ResolutionAgrees`; a call reaches the function Sema checked it against (`CallsAgree`). |
| `driver` | small programs that pass or fail in each phase | `OutputSound`, `CompilesOrReports`, and `Terminates` under fairness; the type invariants of the three phases. |
| `lexer` | every text of comments up to 6 characters, of literals or words up to 5, of operators up to 4, and three contents of memory after it | `ScansText`: Lexer implements TokenSource, with its lines, cuts, longest operators and keywords; `ReachesEof`; `LexerTypeOK`. |
| `parsing` | openings of variables, statements, loops, branches and declarations, each with any 5 to 10 tokens after it (below) | `TreeTypeOK`, `ReadsBack`: precedence, associativity, the parts of a `for`, the `else`; shape after errors; `ParseReturns`. |
| `roundtrip` | declarations of 7 nodes, nested statements of 9 | `GivesBack`: every tree has a text that gives it back; `FreesEachOnce`. |
| `values` | every operator but `&&` and `\|\|`, which are control flow, on every operand of small width that Sema accepts; literals of up to 6 characters, lexemes of 5 | `MeansWhatCSays` and `LiteralsMeanWhatCSays`, with their exceptions; `ValuesTypeOK`, `EscapesTypeOK`. |
| `symbols` | 3 names in 2 buckets, 3 symbols, 3 scopes; messages about one or two types, 4 buffers | `ImplementsScopes`; `SymbolsOwned`; `MessagesNameTheirTypes`. |
| `unresolved`, `lvalues`, `arguments`, `announce` | | The four findings, below. |

Bounds. A run is given `MaxNodes`, the size of a tree, and `MaxList`, the length of a list; a topic may
have smaller ones. The nine nodes of `Statements` hold every pair of nested statements with a return in
either, in both arms of an `if`, and two functions one after the other: a missed reset, an unbalanced
scope or a misplaced branch needs two constructs, one inside or after the other. The topics of
`meaning`:

* `Scoping`, 8 nodes: two names, one of them both a variable and a function, give shadowing,
  redeclaration and clashes in blocks and parameters.
* `Looping`, 8 nodes: one name in the four parts of a `for`, around it and as a parameter.
* `Calling`, 7 nodes: two functions that call each other with arguments of each base type.
* `Redeclaring`, 6 nodes: a function declared again with another type or other parameters, and called.
* `Typing`, 7 nodes: every operator on every two operands that are a char, an int, a pointer, a string
  or a function, and every two unary operators one on the other.
* `Retyping`, 8 nodes: a sum whose operand CodeGen takes for a pointer and Sema for a char, since each
  finds another declaration of its name (`for (;; x + 1) int *x;` in a function with a `char x`): the conversions are
  chosen by Sema's types and get CodeGen's values.
* `Nesting`, 9 nodes: expressions of five nodes over `c`, `p` and the operators that take and give
  pointers, since a typing rule relates a node to the results of the rules of its operands.

Pointer depths 0 to 2 separate "scalar", "pointer" and "same depth"; lists of 2 give order. The error counts,
blocks and stacks are bounded by the tree. For Sema, the control-flow graph, the driver, the
lexer and the symbol table the proofs remove the bounds of the invariants they state.

The lexer keeps no state between items but its position and line, so a text of one item
and the beginning of the next shows what there is: `/*/`, `/**/` with its neighbours, two escapes in
a literal. The parser has no look-ahead beyond the current token, so that an opening puts it in
a state and a few tokens show what it does there. `Initialisers`, `Bodies` and `TopLevels` (any 5 tokens
after `int x =` or `int f() {`, any 8 after `int`) are mostly broken texts, a construct cut off or gone wrong
at any place; they go on for one or two tokens after the first error (`after`), which is enough for a wrong token to
be taken for the end of a construct and for the one after it to be met by the loop around. The others have the
tokens that accepted texts need and stop at the first error: `Operations` has the six of `a - b < c ;`
and so every two operators one after the other, one for each level of precedence; `Parenthesised` the
same with either of the two in parentheses, over four levels; `Loops` the ten of a `for` with a declaration or expression
in each of its three parts and a block for a body, and the shorter ones of a `while`; `Branches` two
nested `if`s, the inner one directly, in a block, or as the body of a `while` or `for`, with up to nine tokens of bodies
and `else`s, so that each `else` can be the inner one's, the outer one's, or one too many. Three
symbols fill one chain of two and a bucket of one, or the same name in three scopes. The names of
types are of depth up to 3, so that buffers of 9 characters hold some and cut others. The widths of
Values (3, 5 and 8 bits) keep the order and the gaps of 8, 32 and 64, and all comparisons of
values with limits happen; `MaxLiteral` is past the largest long. Escapes has texts both shorter
and longer than a lexeme, over an alphabet of the backslash, the quote, letters of an escape the code has a case for (`n`) and
of ones it has none for (`a`, `v`, `x`), and digits that are octal (`0`, `1`) and not (`8`; `a` is a hexadecimal
one): six characters hold three escapes, or a hexadecimal one of four digits, which no byte holds.

Fairness. `FairSpec` adds `WF_vars(Next)`: the compiler is one thread that runs until `main()`
returns or LLVM crashes. Nothing weaker would let a program run at all, and no fairness between
actions is assumed: the model is deterministic once the tree and the outcomes of LLVM and of the file
system are chosen. Deadlock is checked in every run: `Ended` is the only state that may stay. Likewise `LexerSpec` and
`ParsingSpec` add `WF` of their whole next-state relation: each is called by that one thread until it
returns, and is deterministic but for the text it is given. No other run claims liveness.

## Findings

1. A function's name used as a value (`int f() { return f; }`) is accepted by Sema and hits
   CodeGen's *internal: unresolved identifier reached codegen* (run `unresolved`).
2. `&5` and `1 = 2` are accepted by Sema and hit *internal: expression is not an lvalue*; the
   `NULL` that `cg_lvalue` returns goes on into LLVM (run `lvalues`).
3. An argument of another base type is announced as an implicit conversion and passed
   unconverted (run `arguments`).
4. `main()` drops the result of `codegen_write_ir` and says it wrote the file (run `announce`).

Differences that no message or comment speaks against are not findings but named exceptions of
the properties: in `int x = x` CodeGen means the new variable, Sema an outer one; a declaration
that is the body of a `for` is visible to its post expression in CodeGen only; parameter types of a
redeclaration are never compared, so that the first declaration's parameters are stored in the
second's slots; a second body of a function is accepted and unreachable; a bare
declaration as the body of an `if` or loop leaves later uses its allocation does not dominate;
Sema lets pass int + pointer, pointer conditions of `&&`, and bare returns of pointers for
which CodeGen builds ill-typed instructions (`Gap` in Agreement). `NODE_MEMBER` never reaches CodeGen.

The value of an expression is not C's in seven cases (`MeansWhatCSays`): arithmetic of two chars that
leaves 8 bits (no promotion); the remainder of the least char by -1, which is undefined in LLVM;
`p - i` for the least `i`, which is its own negation; the difference of pointers to pointers,
scaled as if by their base type; a difference that no int holds; a literal past the largest int; an
int global initialised with a character past 127, which is zero-extended where a local is
sign-extended. In each of them the property also says that the value *is* wrong. Literals
(`LiteralsMeanWhatCSays`) are compared with the bytes of C11 6.4.4.4, written down without `decode_escapes()`.
An escape it has no case for keeps its characters but the backslash: `\a`, `\b`, `\f`, `\v`, every `\x..`, and every octal
escape but a single `\0`; the bytes are then never C's. A literal longer than a lexeme is cut, and differs unless all it
loses is the second of two last backslashes; a local string, but not a global one, ends at an embedded NUL.

## What is proved

Eight modules hold the proofs: `SemaProofs`, `CodeGenProofs`, `SemanticsProofs`, `AgreementProofs`,
`LexerProofs`, `ParserProofs`, `SymbolProofs` and `EscapesProofs`. Every theorem is about a
specification with the constants left open (any names, operators, parameter lists, texts, hashes,
any size of tree, text or table), from the assumptions of the module that declares
them: that bounds are naturals, that declared types are types, that no keyword is as long as a lexeme
that is cut, that memory ends in a NUL. `PROJECT.json` lists the theorems with the property each states.
The larger inductive invariants (`CgInv`, `AgInv`, `MeaningInv`, `NestInv`, `ValuesInv`, `ScanInv`,
`ParserInv`, `FreeingInv`) were first checked by TLC on the runs' instances.

**Tree and Sema** (`SemaProofs`): `TreesAreOfTheGrammar`, `SemaStateIsTyped`, `UnknownTypesAreErrors`,
`ScopesAreBalanced`. None of the last three is inductive. `KnownUnlessError` needs that operands' types
are types, that children are nodes, and that a literal, identifier or operator has the arity its kind
promises. `ScopesBalanced` holds only because a frame that leaves its node has pushed its scope exactly
if its kind pushes one, and needs the tree as well, to know that a `FUNC_DECL` whose children are
analysed has a body. The inductive invariant `SemaInv` joins them: tree and state are typed, Sema's state is
initial while the parser runs, and while it analyses the scopes are one more than the active scoped
frames. Each parse function keeps the tree in the grammar (`AstStep`: `Fill` is treated once, for any
node and shape that fit); each typing rule gives a type, and the unknown one only with an error or from
an unknown operand (`RulesAreSound`); one lemma per group of actions does the rest.

**The order of Sema's visits** (`SemaProofs`): `ReturnsMeetTheirFunction` and `TheWarningIsExact`. That
`current_func` is the function whose body is being analysed, and that `has_return` at the end of a body
says whether it contains a `return`, are statements about the path from the root to the frame on top and
about everything already visited. `VisitInv` says that each active frame is at the child its caller is
waiting for, with `FuncOK` relating `current_func` to the second frame; `ReturnInv` that a `return` of
the tree is still pending (under a child some frame has not come to), on the call stack, or counted in
`has_return` if it is in the current function. "Under" is a path in the tree, so a node is pending until
the one step that calls for it.

**The driver** (`CodeGenProofs`): `OutputIsSound`, and `ImplementsOutcome`, the refinement: what `main()`
knows in each phase (`MainInv`) is enough to map every step of the whole compiler to one of Outcome or to
a stutter.

**CodeGen's control-flow graph** (`CodeGenProofs`):
`NothingIsAppendedAfterATerminator`, `EveryBlockIsTerminated`, `PhisListTheirPredecessors`,
`CodeGenScopesAreBalanced`, `CodeGenStateIsTyped`, `TheGraphPassesTheVerifier`. The invariant `CgInv` is
about what each activation still has to do with the blocks it appended: the builder will be moved to
those it *owes*, and it may branch to those it *holds* (the head of a loop is held, not owed). No block is
held twice, no owed block is terminated or the insert block, and every block without a terminator is the
insert block or owed. An activation may find the insert block terminated on return only where its
caller tests for that (`Tolerant`): this is where a missing `block_terminated` test would break the proof.
A phi's predecessors are the branches into its block, and a block with a phi is held by nobody, so that no branch
to it is still to come.

**Calls** (`CodeGenProofs`): `CallsReachTheirFunction`. Sema
resolves a callee in the scopes of its one pass, CodeGen in a table of all functions made before. Both
come to the first declaration of the name: Sema's global scope holds the first declaration of each name
visited so far, an identifier bound to a function is bound to the first one, and a call is
pending, on the stack, or bound, unless an error was counted (`AgInv`, over `VisitInv`).

**Sema against the static semantics** (`SemanticsProofs`): `SemaDecidesTheRules` and
`AnnotationsFollowTheRules`. Sema accepts exactly the programs StaticSemantics accepts, and annotates
an accepted one with exactly the types and declarations StaticSemantics gives it: one pass with a stack
of scopes that is pushed, popped and forgotten, against rules that look at the finished tree only. The
invariant `MeaningInv` has three parts while no error is counted (`MeaningOK`).

* *Scopes*: the call stack is the path from the root to the running node. The declarations met so far
  (`Seen`) are those of the nodes behind it. Each open scope belongs to one node on the path (`Owns`) and
  holds, of each name, the first declaration met there (`EnteredOK`). So a lookup finds the declaration the
  name means (`LookupMeans`): what is in sight of a use is met before it and not yet popped, and a
  scope further in wins.
* *Types*: every node finished, under a child some frame has already passed, is accepted and carries the
  type of the rules (`KidsDone`). The typing cases are compared with the rules one by one (`Typed`). `TypeOf`
  and `Owner` are recursive functions; that they are what their equations say is shown by a least
  counterexample, which needs every equation to look only at children, or only at parents.
* *Errors*: a step that counts its first error does so only in a program that is not accepted (`Decided`);
  from then on, nothing has to be remembered but that. At the end of the pass no node is
  pending, so a program without errors is accepted as a whole.

The proof made StaticSemantics say what the owner of a declaration at the root is, which its
equation left open.

**Agreement of the two resolutions** (`AgreementProofs`, and of the scopes the end of `SemanticsProofs`):
`NamesResolveAlike`. CodeGen resolves an
identifier in scopes of its own, filled at other moments than Sema's and not at all in dead code. With
AnnotationsFollowTheRules it is enough to compare them with the rules. `WalkInv` says that CodeGen's call
stack, expressions taken out, is one that Sema could have had (`Mirrors`: the same path from the root, each frame as
far along), and that each of CodeGen's scopes holds of each name the first declaration that such a stack
has met in it (`Holding`). Then what was shown of Sema's lookup holds of this one too, with three
differences, each of which is one of the exceptions of the property: a variable is defined before its
initialiser is evaluated, the body of a `for` comes before its post expression (`InOwnInitialiser`,
`InPostBeforeBody`), and functions are in no scope. The parameters of a function are in the scope of its
body's top block in both. Code that is skipped as dead is never returned to, so nothing that is visited
misses what it would have declared. `ResolvedInv` keeps what a lookup found.

**CodeGen's errors** (`AgreementProofs`): `ErrorsAreExplained`. A lookup finds no variable exactly if the
name means a function that no variable hides in one of the two orders above (`HidingDecides`). `RolesInv`
says what an activation may be asked for: an address only of the operand of `&` or `=`, or of an `INDEX`; a value
never of those, nor of a callee. So a step that counts an error is at a node that is its cause (`CgReported`):
a lookup that finds no function is excluded by CallsReachTheirFunction, the other paths by acceptance. `ErrorsInv` keeps the
other direction: every cause visited has been counted, and so has every global whose initialiser is passed.

**The types of LLVM values** (`AgreementProofs`): `FaultsAreExplained`. That an operand has the LLVM type
its instruction needs is a fact about the expression it came from, computed many steps before, so the
invariant has to keep what every unfinished activation has been given. `NestInv`: CodeGen comes to no node
twice; what is ahead of an activation has no value yet, and what is behind keeps the one it has. `ValuesInv`:
what an activation has been given for a child is an address if it asked for one, and else of the type Sema
resolved, or NULL after a counted error, as long as nothing is `wrong` at or under the child (`DoneIn`).
`CurInv`: the function being generated is the first declaration of the one whose body is walked, which is
the one Sema checks a `return` against. Each rule of Sema is then compared with the code for its kind once
(`EveryAnswer` for what `cg_expr` and `cg_lvalue` return, `EveryUse` for conditions, initialisers, `return`,
parameters and globals): what the conversions of `coerce` leave unconverted is a `Gap`; where nothing is `wrong` below,
no conversion is given a pointer, in a sum as little as in an assignment (the programs of `Retyping` show one where something is).

**The symbol table and the type names** (`SymbolProofs`): `SymbolsAreOwned` and `TheTableImplementsScopes`.
`TableInv` says that chains only go to symbols allocated before (`Linked`), that a symbol is in the bucket
of its name's hash, in one bucket of one open scope or freed, and that a scope holds a name once.
The refinement maps the table to nested maps (`Abs`). What a chain holds is not computed by
induction but by a least counterexample: the set of positions at which the walk along the chain is wrong would have a minimum.
`NamesAreOfTheirTypes` has the hypothesis that no message names more types than `type_name()` has
buffers; `Sema.c` names at most two, and has four.

**The lexer** (`LexerProofs`): `TheLexerStaysInItsBuffers` and `TheLexerScansText`, the refinement of
TokenSource for texts of any length. `ScanInv` says what the loop over the item at hand has passed: inside
a comment, no end of it yet; inside a string, no quote that is not escaped. Every step is shown to be a
step of TokenSource or a stutter in three regimes: inside the text, at its end, and past it, where
only the two overruns lead. The property found one assumption missing: a keyword as long as a lexeme that is
cut would be a keyword to the lexer only.

**Literals with escapes** (`EscapesProofs`): `DecodingStaysInBounds`, from `EscapesInv`: what is written is
behind what is read, also where a backslash ends the lexeme.

**The parser and ast_free()** (`ParserProofs`): `ParserInvariant`, `ParsedTreesAreOfTheGrammar` and
`EveryNodeIsFreedOnce`, for any text, with any number of syntax errors. That a finished node has the
children of its kind depends on everything its parse function has done before, so `FrameOK` gives for
each step of each function how many children it may have by then (`Counts`) and of which kinds; between
two functions on the stack, the caller `WaitsFor` any kind the callee returns. The one step that needs
more is the body of a function, which is there or not by a token looked at earlier (`TopOK`). For
sharing and loss, `OneOwner` says that every node built is a child of one node or held by one function on
the stack, once, but for the root. `Deliver`, which finishes a whole chain of precedence functions
in one step, is split into its cases once (`Delivered`, `Returned`). `ast_free()` on such a tree: the
walk goes down from the root, one path of parents and children; what is freed is under the
part of the path already left (the children a case names are all a node of the kind has, `ChildrenAreKids`), each freed node's owner is freed or on the path, past it
(`FreeingInv`). That nothing is left at the end is not an induction over the tree: the greatest node not
freed would have an owner that is freed, and so be freed.

Model-checked only, and why:

* `GivesBack`, `ReadsBack`, `LiteralsMeanWhatCSays`: the properties compare with definitions that recurse
  over trees or texts (`RECURSIVE`, or the induction over data that the provers cannot instantiate).
* `ReachabilityAgrees`, `DominanceExplained`: not proved. They need, over `WalkInv`, an invariant about
  the paths of the graph built so far.
* `MeansWhatCSays`, `ValuesTypeOK`: arithmetic modulo `2^w`, which the provers do not know.
* `Terminates`, `ParseReturns`, `ReachesEof`: liveness under fairness.

## Not modelled

* `read_file`, whose results of `ftell`, `malloc` and `fread` are dropped (`main.c:14-17`): the lexer's
  runs start from the text in memory. The options of `main()` but for the presence of `--emit-llvm`;
  output paths that name the same file, or the source.
* Wording and line numbers of diagnostics, the 256 bytes a message is cut to, `token_type_name`.
* `ast_print` and `parse_func_decl` (`Parser.c:415`): nothing calls them.
* `codegen_free`, which walks two lists and disposes of three LLVM objects, and what is left unfreed
  when `main()` returns early.
* Running out of memory or of stack. The call stacks of the models have no limit.
* What LLVM does with a valid module: object emission, and instructions other than in Values.
* The build files, the instructions and the sample, which have no state.

## Plan

Order of the work; all but the last step are done.

1. `Ast`, `Sema`, `CodeGen`, `Compiler`: the pipeline, with its type invariants and the run `control`.
2. `StaticSemantics` as the abstract specification of Sema, and the run `meaning`.
3. `Agreement` between CodeGen and Sema, in both runs; `driver`; `Claims` with its findings.
4. `SemaProofs`.
5. `Lexer` against `TokenSource`.
6. `Parser` against `Text`: `Parsing` from texts to trees, `RoundTrip` from trees to texts; `Freeing`.
7. `Values` and `Escapes` against C.
8. `Outcome`, the abstract driver; `SymbolTable` against `Scopes`; `TypeNames`.
9. Proofs: CodeGen's graph and scopes, the driver's refinement, the order of Sema's visits, the calls, the
   symbol table's refinement, the names of types, the lexer's refinement, the parser's trees, `ast_free()`,
   Sema against StaticSemantics, CodeGen's names against Sema's, CodeGen's errors, the types of LLVM values, `decode_escapes()`.
10. Next: what the graph's paths say, `ReachabilityAgrees` and `DominanceExplained`.
