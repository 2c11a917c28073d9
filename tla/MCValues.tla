------------------------------- MODULE MCValues -------------------------------
(* The run of Values and Escapes: operators on any operands, or a literal on its way to the object *)
(* file, and the constants of both.                                                                *)
EXTENDS Values, Escapes

SomePointers ==
  {TypeInfo("CHAR", 1), TypeInfo("INT", 1), TypeInfo("CHAR", 2), TypeInfo("INT", 2)}
\* Escapes with a case and without one, of the letters, octal and hexadecimal digits.
SomeAscii ==
  [a |-> 97, n |-> 110, v |-> 118, x |-> 120] @@ "0" :> 48 @@ "1" :> 49 @@ "8" :> 56
    @@ "\"" :> 34 @@ Backslash :> 92

Zero == Value(CInt, 0)

Computing == EscapesInit /\ (Evaluate \/ Use \/ Undefined) /\ UNCHANGED escapeVars
Copying == acc = Zero /\ last = Nothing /\ EscapesNext /\ UNCHANGED valueVars

DataInit == ValuesInit /\ EscapesInit
DataSpec == DataInit /\ [][Computing \/ Copying]_<<valueVars, escapeVars>>
=============================================================================
