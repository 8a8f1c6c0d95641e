---------------------------- MODULE MC_CallGraph ----------------------------
(***************************************************************************)
(* Three functions whose bodies make up to two calls each: self-calls,    *)
(* mutual recursion, repeated callees, indirect calls, and every order in *)
(* which the driver visits them.                                          *)
(***************************************************************************)
EXTENDS CallGraphVisitor

CONSTANTS f1, f2, f3, indirect

MC_Functions == {f1, f2, f3}
MC_MaxCalls == 2

=============================================================================
