------------------------------ MODULE MCDriver ------------------------------
(* Two runs at a time. *)
EXTENDS Driver

=============================================================================
