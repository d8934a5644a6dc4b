------------------------------ MODULE MCGenFunc ------------------------------
(***************************************************************************)
(* Model checking of GenFunc and GenFuncRun: every function body up to     *)
(* MaxStmts statements.                                                    *)
(***************************************************************************)
EXTENDS GenFuncRun
=============================================================================
