------------------------------ MODULE Compiler ------------------------------
(***************************************************************************)
(* main(): the phases in order, each able to end the run, and what the run *)
(* leaves behind.  LLVM's verifier and its file output are external; the   *)
(* verifier rejects exactly what it is documented to reject of what        *)
(* CodeGen keeps: blocks without a terminator or with one inside, phis     *)
(* that do not match the predecessors, ill-typed operands, and uses the    *)
(* allocation does not dominate.                                           *)
(***************************************************************************)
EXTENDS CodeGen

CONSTANT
  IrPaths    \* whether --emit-llvm is given: a subset of BOOLEAN

VARIABLES
  ir_path,   \* --emit-llvm was given
  files,     \* the output files written
  said,      \* the files main() says it wrote
  exit       \* the exit status

mainVars == <<ir_path, files, said, exit>>
vars == <<ast, phase, semaVars, cgVars, mainVars>>

-----------------------------------------------------------------------------
(* The verifier. *)

Preds(b) == {a \in 1..blocks : <<a, b>> \in edges}

\* The blocks on some path from an entry block that does not go through block a.
ReachedAvoiding(a) ==
  LET start == {entry[f] : f \in DOMAIN entry} \ {a}
      reached[k \in 0..blocks] ==
        IF k = 0 THEN start
        ELSE LET before == reached[k - 1]
             IN before \cup {b \in 1..blocks \ {a} : \E p \in before : <<p, b>> \in edges}
  IN reached[blocks]

Dominates(a, b) == b \notin ReachedAvoiding(a)

WellFormedBlocks ==
  /\ ~malformed
  /\ terminated = 1..blocks
  /\ \A p \in phis : p.from = Preds(p.at)
WellTyped == \A f \in faults : f[2] = "store"
Dominated == \A u \in uses : u.home # 0 => Dominates(u.home, u.block)

Verified == WellFormedBlocks /\ WellTyped /\ Dominated

-----------------------------------------------------------------------------
(* The driver. *)

Exit(status) == phase' = "done" /\ exit' = status

MainNoParse ==
  /\ phase = "parse" /\ ast = <<Node("?program")>>
  /\ Exit(1)
  /\ UNCHANGED <<files, said>>

MainRejected ==
  /\ phase \in {"rejected", "failed"}
  /\ Exit(1)
  /\ UNCHANGED <<files, said>>

\* A bug: main() goes on whatever codegen_verify returns.
MainVerifyIgnored ==
  /\ phase = "verify"
  /\ phase' = IF ir_path THEN "write_ir" ELSE "write_object"
  /\ UNCHANGED <<exit, files, said>>

MainVerify ==
  /\ phase = "verify"
  /\ IF Verified
     THEN /\ phase' = IF ir_path THEN "write_ir" ELSE "write_object"
          /\ UNCHANGED exit
     ELSE Exit(1)
  /\ UNCHANGED <<files, said>>

\* A bug: a failure sends main() back to the verifier, and it tries again for ever.
MainWriteIrRetry ==
  /\ phase = "write_ir"
  /\ files' \in {files, files \cup {"ir"}}
  /\ phase' = IF files' = files THEN "verify" ELSE "write_object"
  /\ UNCHANGED <<exit, said>>

\* codegen_write_ir's result is not looked at.
MainWriteIr ==
  /\ phase = "write_ir"
  /\ phase' = "write_object"
  /\ files' \in {files, files \cup {"ir"}}
  /\ UNCHANGED <<exit, said>>

\* A bug: the result of codegen_write_object is dropped too.
MainWriteObjectDropped ==
  /\ phase = "write_object"
  /\ files' \in {files, files \cup {"object"}}
  /\ said' = {"object"} \cup IF ir_path THEN {"ir"} ELSE {}
  /\ Exit(0)

MainWriteObject ==
  /\ phase = "write_object"
  /\ \E written \in BOOLEAN :
       IF written
       THEN /\ files' = files \cup {"object"}
            /\ said' = {"object"} \cup IF ir_path THEN {"ir"} ELSE {}
            /\ Exit(0)
       ELSE Exit(1) /\ UNCHANGED <<files, said>>

Init ==
  /\ SemaInit /\ CgInit
  /\ ir_path \in IrPaths
  /\ files = {} /\ said = {} /\ exit = -1

Main ==
  /\ MainNoParse \/ MainRejected \/ MainVerify \/ MainWriteIr \/ MainWriteObject
  /\ UNCHANGED <<ast, semaVars, cgVars, ir_path>>

\* The process has ended, by exit or by a crash inside LLVM.
Ended == phase \in {"done", "crashed"}

Next ==
  \/ SemaNext /\ UNCHANGED <<cgVars, mainVars>>
  \/ CgNext /\ UNCHANGED mainVars
  \/ Main
  \/ Ended /\ UNCHANGED vars

Spec == Init /\ [][Next]_vars

\* The compiler is one thread that runs until it returns.
FairSpec == Spec /\ WF_vars(Next)
-----------------------------------------------------------------------------
(* Properties. *)

(* Output exists only for a module no phase found fault with, and the exit status is 0  *)
(* exactly when the object file was written: no return code is lost on that path.       *)
OutputSound ==
  /\ files # {} => error_count = 0 /\ cg_errors = 0 /\ Verified
  /\ phase = "done" => (exit = 0 <=> "object" \in files)

Verdict ==
  IF phase = "crashed" THEN "crashed"
  ELSE IF phase \notin {"write_ir", "write_object", "done"} THEN "none"
  ELSE IF error_count = 0 /\ cg_errors = 0 /\ Verified THEN "sound" ELSE "faulty"

Promise == INSTANCE Outcome WITH verdict <- Verdict

(* main() implements Outcome: the return codes of its phases, each looked at or dropped in *)
(* its place, add up to one verdict that is never revised, and the files and the exit       *)
(* status follow from it.                                                                   *)
CompilesOrReports == Promise!Spec

(* main() says it wrote only files it wrote ("wrote %s and %s", main.c:76).              *)
SaidIsWritten == said \subseteq files

(* Every run comes to an end: no phase loops on a program of any shape.                  *)
Terminates == <>Ended
=============================================================================
