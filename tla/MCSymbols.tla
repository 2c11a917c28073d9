------------------------------ MODULE MCSymbols ------------------------------
(* The run of SymbolTable and TypeNames: a history of scopes, or one of messages, and the constants *)
(* of both.  Two of three names share a bucket.                                                     *)
EXTENDS SymbolTable, TypeNames

Colliding == [x \in Names |-> IF x = "z" THEN 1 ELSE 0]

Scoping == NamesInit /\ TableNext /\ UNCHANGED nameVars
Naming == TableInit /\ NamesNext /\ UNCHANGED tableVars

SymbolsInit == TableInit /\ NamesInit
SymbolsSpec == SymbolsInit /\ [][Scoping \/ Naming]_<<tableVars, nameVars>>
=============================================================================
