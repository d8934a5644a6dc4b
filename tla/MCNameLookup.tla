---------------------------- MODULE MCNameLookup ----------------------------
(***************************************************************************)
(* Model checking of NameLookup: two names; variables, constants and       *)
(* functions that compete for them.                                        *)
(***************************************************************************)
EXTENDS NameLookup, TLC

CONSTANTS a, b, va1, va2, vb, la, lb, fa1, fa2, fb

MCName == {a, b}

MCNameOf(d) == IF d \in {vb, lb, fb} THEN b ELSE a

Vars == {va1, va2, vb}

Lets == {la, lb}

Functions == {fa1, fa2, fb}

=============================================================================
