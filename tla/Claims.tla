------------------------------- MODULE Claims -------------------------------
(***************************************************************************)
(* What messages of the program say of it and the code does not keep.      *)
(***************************************************************************)
EXTENDS Agreement

(* "internal: unresolved identifier reached codegen" (CodeGen.c:286) is an internal     *)
(* error: an accepted program has no identifier CodeGen cannot resolve.                 *)
IdentifiersResolve ==
  Generated => \A n \in Nodes : Kind(n) = "IDENT" /\ Visited(n) => cgbind[n] # 0

(* "internal: expression is not an lvalue" (CodeGen.c:173) is an internal error: Sema   *)
(* accepts assignments to and addresses of lvalues only.                                *)
TargetsAreLvalues == Generated => \A n \in Nodes : ~NotLvalue(n)

(* "argument %d to '%s': implicit conversion '%s' -> '%s'" (Sema.c:307) is a warning:   *)
(* an argument of another base type is converted, not passed as it is.                  *)
ArgumentsConverted == \A f \in faults : f[2] # "argument"
=============================================================================
