------------------------------ MODULE MCParse ------------------------------
(***************************************************************************)
(* Model checking of Parse: one of the tokens of each group that the       *)
(* parser treats alike.                                                    *)
(***************************************************************************)
EXTENDS Parse

(* What the parser does with the kinds left out it does with the others. *)
Representatives ==
    (Kind \ {"eof", "kw_let", "elipsis_incl", "kw_extern", "lnot"})
    \ (BinaryOperator \ {"assign", "minus", "plus"})

(* Beginnings of files that bring the parser into each kind of nesting.  *)
Beginnings ==
    {<<>>,
     <<"kw_func", "identifier", "l_paren", "identifier", "colon", "identifier", "comma">>,
     <<"kw_func", "identifier", "l_paren", "r_paren", "arrow">>,
     <<"kw_if", "identifier", "l_brace", "r_brace", "kw_else", "l_brace">>,
     <<"kw_for", "identifier", "kw_in", "identifier", "elipsis_excl">>,
     <<"kw_let", "identifier", "colon", "identifier", "l_bracket">>,
     <<"identifier", "l_paren", "l_bracket">>}

=============================================================================
