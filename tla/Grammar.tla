------------------------------ MODULE Grammar ------------------------------
(***************************************************************************)
(* Reading a file by its grammar: `form' is what is left to be read,       *)
(* terminals and nonterminals.  A step replaces its first nonterminal by a *)
(* production, or reads its first terminal, or both.  Reading may stop     *)
(* with a rejection anywhere, but a file is accepted only if all of it was *)
(* derived.                                                                *)
(***************************************************************************)
EXTENDS Syntax

VARIABLES
    form,     \* what is left to be derived
    look,     \* the token to be read next
    verdict   \* "open", then "accepted" or "rejected"

vars == <<form, look, verdict>>

Init ==
    /\ form = <<"Nodes">>
    /\ look \in Kind
    /\ verdict = "open"

Derive ==
    /\ verdict = "open"
    /\ form' \in Expansions(form)
    /\ UNCHANGED <<look, verdict>>

Read ==
    /\ verdict = "open" /\ look # "eof"
    /\ \E f \in Expansions(form) :
          f # <<>> /\ look \in Reads(Head(f)) /\ form' = Tail(f)
    /\ look' \in Kind
    /\ UNCHANGED verdict

Reject ==
    /\ verdict = "open"
    /\ verdict' = "rejected"
    /\ form' = <<>> /\ look' = "eof"

Accept ==
    /\ verdict = "open"
    /\ form = <<"Nodes">> /\ look = "eof"
    /\ verdict' = "accepted"
    /\ form' = <<>>
    /\ UNCHANGED look

Next == Derive \/ Read \/ Reject \/ Accept

Spec == Init /\ [][Next]_vars

=============================================================================
