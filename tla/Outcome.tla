------------------------------- MODULE Outcome -------------------------------
(***************************************************************************)
(* What a user of the compiler may rely on, whatever its phases are: one   *)
(* verdict on the program, files for a sound program only, the object file *)
(* last and with exit status 0, and every other ending without an object   *)
(* file and with status 1.                                                 *)
(***************************************************************************)
EXTENDS Integers

VARIABLES
  verdict,   \* "none", "sound", "faulty" or, LLVM having died, "crashed"
  files,     \* the output files written
  exit       \* the exit status, -1 while the program runs

Running == exit = -1

Accept == verdict = "none" /\ verdict' = "sound" /\ UNCHANGED <<files, exit>>

\* Also a program found sound may have no object file, when it cannot be written.
Fail ==
  /\ Running /\ exit' = 1
  /\ IF verdict = "none" THEN verdict' \in {"sound", "faulty"} ELSE UNCHANGED verdict
  /\ UNCHANGED files

WriteIr ==
  /\ Running /\ verdict = "sound" /\ files = {}
  /\ files' = {"ir"} /\ UNCHANGED <<verdict, exit>>

Succeed ==
  /\ Running /\ verdict = "sound"
  /\ files' = files \cup {"object"} /\ exit' = 0 /\ UNCHANGED verdict

Crash == verdict = "none" /\ verdict' = "crashed" /\ UNCHANGED <<files, exit>>

Init == verdict = "none" /\ files = {} /\ exit = -1
Next == Accept \/ Fail \/ WriteIr \/ Succeed \/ Crash
Spec == Init /\ [][Next]_<<verdict, files, exit>>
=============================================================================
