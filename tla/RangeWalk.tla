----------------------------- MODULE RangeWalk -----------------------------
(***************************************************************************)
(* What the language reference promises of `for i in Start op End { .. }`  *)
(* (docs/Language reference/Statements.md, "Range Statement"): the body    *)
(* sees the values of the range [Start, End] (op is `...`) or [Start, End) *)
(* (op is `..`) one after another, ascending or descending as the two ends *)
(* ask, and nothing after the last one or after a break or return.         *)
(***************************************************************************)
EXTENDS Integers, Sequences

CONSTANTS
    Requests,  \* the ranges a loop is asked to walk: [start, end, inclusive]
    Limit      \* a walk over a range with more values may end early; the
               \* reference knows no such limit

VARIABLES
    range,    \* the range being walked
    visited,  \* the values the body has seen, in order
    status    \* "running", then "exhausted" or "left"

vars == <<range, visited, status>>

Distance(r) == IF r.start < r.end THEN r.end - r.start ELSE r.start - r.end

Size(r) == Distance(r) + (IF r.inclusive THEN 1 ELSE 0)

(* The value that comes after k earlier ones *)
ValueAfter(r, k) == IF r.start < r.end THEN r.start + k ELSE r.start - k

Init ==
    /\ range \in Requests
    /\ visited = <<>>
    /\ status = "running"

Visit ==
    /\ status = "running"
    /\ Len(visited) < Size(range)
    /\ visited' = Append(visited, ValueAfter(range, Len(visited)))
    /\ UNCHANGED <<range, status>>

Exhaust ==
    /\ status = "running"
    /\ Len(visited) = Size(range) \/ Size(range) > Limit
    /\ status' = "exhausted"
    /\ UNCHANGED <<range, visited>>

(* break or return: only the body does it, so some value was visited *)
Leave ==
    /\ status = "running"
    /\ visited # <<>>
    /\ status' = "left"
    /\ UNCHANGED <<range, visited>>

Next == Visit \/ Exhaust \/ Leave

Spec == Init /\ [][Next]_vars

=============================================================================
