----------------------------- MODULE SymbolTable -----------------------------
(***************************************************************************)
(* The symbol table of Sema.c as it is stored: a scope is an array of      *)
(* buckets, a bucket the head of a chain of symbols, and the scopes are    *)
(* linked from the inside out.  Sema (the module) has a scope as a map     *)
(* from names to symbols; this is why it may.                              *)
(*                                                                         *)
(* A symbol is named by its place in the order of allocation; 0 is NULL.   *)
(***************************************************************************)
EXTENDS Integers, Sequences, SequencesExt, FiniteSets

CONSTANTS
  Names,
  Infos,         \* what a symbol says of its name: kind and type
  Nothing,       \* the answer for a name without a symbol
  BUCKETS,       \* SCOPE_BUCKETS
  hash_name,     \* the bucket of each name
  MaxSymbols,    \* bound: symbols allocated
  MaxScopes      \* bound: scopes open at a time

VARIABLES
  scopes,        \* the buckets of the open scopes, innermost (current_scope) last
  symbols,       \* every symbol allocated: its name, info and next
  freed,         \* history: the symbols freed, in order
  answer         \* what scope_insert() or scope_lookup() returned last

tableVars == <<scopes, symbols, freed, answer>>

Buckets == 0..(BUCKETS - 1)

ASSUME SymbolTableAssumption ==
  /\ BUCKETS \in Nat \ {0}
  /\ hash_name \in [Names -> Buckets]
  /\ MaxSymbols \in Nat /\ MaxScopes \in Nat

\* A chain of symbols, from its head on.
ChainFrom ==
  LET chain[s \in 0..Len(symbols)] == IF s = 0 THEN <<>> ELSE <<s>> \o chain[symbols[s].next]
  IN chain

\* A bug: only the head of the chain is compared.
FirstInHead(scope, x) ==
  LET head == scope[hash_name[x]] IN IF head # 0 /\ symbols[head].name = x THEN head ELSE 0

\* The first symbol of the name in its bucket, or NULL.
FirstIn(scope, x) ==
  LET chain == ChainFrom[scope[hash_name[x]]]
      k == SelectInSeq(chain, LAMBDA s : symbols[s].name = x)
  IN  IF k = 0 THEN 0 ELSE chain[k]

Current == Last(scopes)
Empty == [h \in Buckets |-> 0]

push_scope ==
  /\ scopes # <<>> /\ Len(scopes) < MaxScopes
  /\ scopes' = Append(scopes, Empty) /\ UNCHANGED <<symbols, freed, answer>>

scope_insert(x, info) ==
  /\ scopes # <<>> /\ Len(symbols) < MaxSymbols
  /\ LET h == hash_name[x]
     IN  IF FirstIn(Current, x) # 0 THEN answer' = "refused" /\ UNCHANGED <<scopes, symbols>>
         ELSE /\ symbols' = Append(symbols, [name |-> x, info |-> info, next |-> Current[h]])
              /\ scopes' = [scopes EXCEPT ![Len(scopes)][h] = Len(symbols) + 1]
              /\ answer' = "inserted"
  /\ UNCHANGED freed

scope_lookup(x) ==
  /\ scopes # <<>>
  /\ LET k == SelectLastInSeq(scopes, LAMBDA scope : FirstIn(scope, x) # 0)
     IN  answer' = IF k = 0 THEN Nothing ELSE symbols[FirstIn(scopes[k], x)].info
  /\ UNCHANGED <<scopes, symbols, freed>>

\* A bug: next is not kept, and the rest of each chain is lost.
scope_free_heads(scope) ==
  FlattenSeq([h \in 1..BUCKETS |-> IF scope[h - 1] = 0 THEN <<>> ELSE <<scope[h - 1]>>])

\* The symbols scope_free() frees, bucket by bucket.
scope_free(scope) == FlattenSeq([h \in 1..BUCKETS |-> ChainFrom[scope[h - 1]]])

\* The outermost scope is left to sema_free(), which pops what is open and is the last call.
pop_scope ==
  /\ Len(scopes) > 1
  /\ scopes' = Front(scopes) /\ freed' = freed \o scope_free(Current)
  /\ UNCHANGED <<symbols, answer>>

sema_free ==
  /\ Len(scopes) = 1
  /\ scopes' = <<>> /\ freed' = freed \o scope_free(Current)
  /\ UNCHANGED <<symbols, answer>>

Over == scopes = <<>> /\ UNCHANGED tableVars

TableInit == scopes = <<Empty>> /\ symbols = <<>> /\ freed = <<>> /\ answer = Nothing

TableNext ==
  \/ push_scope \/ pop_scope \/ sema_free \/ Over
  \/ \E x \in Names : scope_lookup(x) \/ \E info \in Infos : scope_insert(x, info)

TableSpec == TableInit /\ [][TableNext]_tableVars

-----------------------------------------------------------------------------
(* Properties. *)

\* The symbols a scope leads to.
Held(scope) == UNION {Range(ChainFrom[scope[h]]) : h \in Buckets}

Meant(scope) ==
  LET declared == {symbols[s].name : s \in Held(scope)}
  IN  [x \in declared |-> symbols[CHOOSE s \in Held(scope) : symbols[s].name = x].info]

Ideal == INSTANCE Scopes WITH scopes <- [i \in DOMAIN scopes |-> Meant(scopes[i])]

(* The hash table implements nested scopes: names in one bucket do not hide each other, an   *)
(* inner declaration hides the outer until its scope is popped, and a second one in the same  *)
(* scope is refused and changes nothing.                                                      *)
ImplementsScopes == Ideal!Spec

(* A symbol is in one open scope, or it was freed, once: pop_scope() and sema_free() leave no *)
(* symbol behind and no chain leads to one that is gone.                                      *)
SymbolsOwned ==
  /\ IsInjective(freed)
  /\ \A s \in DOMAIN symbols :
       Cardinality({i \in DOMAIN scopes : s \in Held(scopes[i])})
         = IF s \in Range(freed) THEN 0 ELSE 1
=============================================================================
