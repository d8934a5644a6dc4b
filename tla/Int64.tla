------------------------------- MODULE Int64 -------------------------------
(***************************************************************************)
(* The machine integers of compiled dusk programs: LLVM's i64 and the      *)
(* int64_t of the runtime library, with the width left as a parameter.     *)
(* MaxInt stands for 2^63 - 1.                                             *)
(***************************************************************************)
EXTENDS Integers

CONSTANT MaxInt

ASSUME MaxIntAssumption == MaxInt \in Nat \ {0}

MinInt == -MaxInt - 1

Int64 == MinInt .. MaxInt

(***************************************************************************)
(* Two's complement of a result that misses the representable range by at  *)
(* most one modulus, as the sum, the difference and the negation of        *)
(* representable numbers do.  LLVM's `add` is emitted without nsw/nuw; the *)
(* runtime is built by clang without -ftrapv, and wraps as well.           *)
(***************************************************************************)
Wrap(x) == IF x > MaxInt THEN x - (2 * MaxInt + 2)
           ELSE IF x < MinInt THEN x + (2 * MaxInt + 2)
           ELSE x

Add(x, y) == Wrap(x + y)

Sub(x, y) == Wrap(x - y)

(* std::abs: the most negative number is its own absolute value *)
Abs(x) == IF x < 0 THEN Wrap(-x) ELSE x

=============================================================================
