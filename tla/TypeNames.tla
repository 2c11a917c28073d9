------------------------------ MODULE TypeNames ------------------------------
(***************************************************************************)
(* type_name(): the name of a type, in one of a few static buffers used in *)
(* turn.  A message asks for the names of its types, in an order C leaves  *)
(* to the build, and reads the buffers only when all have been written.    *)
(***************************************************************************)
EXTENDS Integers, Sequences, FiniteSets, FiniteSetsExt

CONSTANTS
  POOL,       \* the number of buffers
  BUFFER,     \* the size of one
  MaxNamed,   \* the names in one message, two in Sema.c
  MaxDepth    \* bound: the pointer depth of a type

VARIABLES
  pool,       \* what each buffer holds: a base type and its stars
  idx,        \* the buffer type_name() takes next
  types,      \* the types the message at hand names
  bufs,       \* the buffer given for each of them, -1 before the call
  printed     \* the names in the last message

nameVars == <<pool, idx, types, bufs, printed>>

ASSUME TypeNamesAssumption ==
  /\ POOL \in Nat \ {0} /\ BUFFER \in Nat /\ BUFFER >= 9
  /\ MaxNamed \in Nat \ {0} /\ MaxDepth \in Nat

Bases == {"int", "char"}
Types == [base : Bases, ptr_depth : 0..MaxDepth]
Letters(base) == IF base = "int" THEN 3 ELSE 4

\* The loop stops four short of the buffer.
Named(t) ==
  [base |-> t.base, stars |-> Min({t.ptr_depth, BUFFER - 4 - Letters(t.base)})]

NamesInit ==
  /\ pool = [b \in 0..(POOL - 1) |-> [base |-> "", stars |-> 0]]
  /\ idx = 0 /\ types = <<>> /\ bufs = <<>> /\ printed = <<>>

Diagnose ==
  /\ types = <<>>
  /\ \E n \in 1..MaxNamed : types' \in [1..n -> Types] /\ bufs' = [k \in 1..n |-> -1]
  /\ printed' = <<>> /\ UNCHANGED <<pool, idx>>

\* A bug: one buffer for all.
After_same(b) == b

After(b) == (b + 1) % POOL

type_name ==
  /\ \E k \in DOMAIN types :
       /\ bufs[k] = -1
       /\ pool' = [pool EXCEPT ![idx] = Named(types[k])]
       /\ bufs' = [bufs EXCEPT ![k] = idx]
  /\ idx' = After(idx) /\ UNCHANGED <<types, printed>>

\* snprintf() of the message, in ERR and WARN.
emit ==
  /\ types # <<>> /\ \A k \in DOMAIN bufs : bufs[k] # -1
  /\ printed' = [k \in DOMAIN bufs |-> [type |-> types[k], name |-> pool[bufs[k]]]]
  /\ types' = <<>> /\ bufs' = <<>> /\ UNCHANGED <<pool, idx>>

NamesNext == Diagnose \/ type_name \/ emit
NamesSpec == NamesInit /\ [][NamesNext]_nameVars

-----------------------------------------------------------------------------
(* Property. *)

(* A message names the types it is about: no name has been written over by that of another *)
(* type when it is read, in whatever order they were asked for, and a name lacks stars only *)
(* when it fills its buffer but for the three bytes left unused.                              *)
MessagesNameTheirTypes ==
  \A k \in DOMAIN printed :
    LET p == printed[k]
        full == Letters(p.name.base) + p.name.stars + 1 = BUFFER - 3
    IN  /\ p.name.base = p.type.base
        /\ p.name.stars = p.type.ptr_depth \/ (full /\ p.name.stars < p.type.ptr_depth)
=============================================================================
