---------------------------- MODULE MCRangeLoop ----------------------------
(***************************************************************************)
(* Model checking of RangeLoop with 4-bit integers.                        *)
(***************************************************************************)
EXTENDS RangeLoop

AllRequests == [start : Int64, end : Int64, inclusive : BOOLEAN]

=============================================================================
