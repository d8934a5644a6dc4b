------------------------------ MODULE MCBinding ------------------------------
(***************************************************************************)
(* Model checking of Binding: two names, a few declarations of each.       *)
(***************************************************************************)
EXTENDS Binding, TLC

CONSTANTS a, b, va1, la1, la2, lb, fa, fb1, fb2

MCName == {a, b}

MCNameOf(d) == IF d \in {lb, fb1, fb2} THEN b ELSE a

Vars == {va1}

Lets == {la1, la2, lb}

(* One of a kind, where the oddities make up for it *)
FewerLets == {la1, lb}

Functions == {fa, fb1, fb2}

(* la1 and la2 differ in nothing but their identity. *)
Interchangeable == Permutations({la1, la2})

=============================================================================
