-------------------------------- MODULE Scopes --------------------------------
(***************************************************************************)
(* Nested scopes as a language definition has them: each maps names to     *)
(* what they are declared as, a name is looked up from the inside out, and *)
(* no scope declares one twice.                                            *)
(***************************************************************************)
EXTENDS Integers, Sequences

CONSTANTS Names, Infos, Nothing

VARIABLES
  scopes,   \* innermost last
  answer    \* of the last operation: an info or Nothing, "inserted" or "refused"

Put(f, x, v) == [y \in DOMAIN f \cup {x} |-> IF y = x THEN v ELSE f[y]]
Declaring(x) == {i \in DOMAIN scopes : x \in DOMAIN scopes[i]}
Inner == Len(scopes)

Push == scopes' = Append(scopes, [x \in {} |-> Nothing]) /\ UNCHANGED answer
Pop == scopes # <<>> /\ scopes' = SubSeq(scopes, 1, Inner - 1) /\ UNCHANGED answer

Insert(x, v) ==
  /\ scopes # <<>>
  /\ IF x \in DOMAIN scopes[Inner] THEN answer' = "refused" /\ UNCHANGED scopes
     ELSE answer' = "inserted" /\ scopes' = [scopes EXCEPT ![Inner] = Put(@, x, v)]

Lookup(x) ==
  /\ IF Declaring(x) = {} THEN answer' = Nothing
     ELSE \E i \in Declaring(x) : (\A j \in Declaring(x) : j <= i) /\ answer' = scopes[i][x]
  /\ UNCHANGED scopes

Init == scopes = <<[x \in {} |-> Nothing]>> /\ answer = Nothing
Next == Push \/ Pop \/ \E x \in Names : Lookup(x) \/ \E v \in Infos : Insert(x, v)
Spec == Init /\ [][Next]_<<scopes, answer>>
=============================================================================
