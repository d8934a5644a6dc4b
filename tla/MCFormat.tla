------------------------------ MODULE MCFormat ------------------------------
(* Two blocks, one inside the other, before the indentation is too deep. *)
EXTENDS Format

=============================================================================
