------------------------------- MODULE MCWalk -------------------------------
(* Two items in a list, and five calls of traverse() one inside the other. *)
EXTENDS Walk

=============================================================================
