------------------------------ MODULE Lexemes ------------------------------
(***************************************************************************)
(* The characters of a dusk file as the lexer classifies them, and how     *)
(* tokens are spelled.  A character is a string: its glyph, or its name if *)
(* it has none or if the provers could not take the glyph in a string.     *)
(***************************************************************************)
EXTENDS Integers, Sequences

Newline == {"newline", "cr"}
Blank   == {"space", "tab", "vt"} \union Newline

Digit     == {"0", "1", "2", "3", "4", "5", "6", "7", "8", "9"}
HexLetter == {"a", "b", "c", "d", "e", "f", "A", "B", "C", "D", "E", "F"}

IdentifierStart ==
    HexLetter \union
    {"g", "h", "i", "j", "k", "l", "m", "n", "o", "p", "q", "r", "s", "t", "u", "v", "w",
     "x", "y", "z", "G", "H", "I", "J", "K", "L", "M", "N", "O", "P", "Q", "R", "S", "T",
     "U", "V", "W", "X", "Y", "Z", "_"}

IdentifierCont == IdentifierStart \union Digit

(* The bases of number literals, the digits of each, and the second        *)
(* character of their prefixes.                                            *)
Digits == [hex |-> Digit \union HexLetter, bin |-> {"0", "1"}, oct |-> Digit \ {"8", "9"},
           dec |-> Digit]
Mark   == [hex |-> {"x", "X"}, bin |-> {"b", "B"}, oct |-> {"o", "O"}, dec |-> {}]
Base   == DOMAIN Digits

(* Punctuators of one character, and of two, with their kinds.  A bar only *)
(* occurs twice, a dot twice or three times.                               *)
Single ==
    {<<"=", "assign">>, <<"comma", "comma">>, <<":", "colon">>, <<"semicolon", "semi">>,
     <<"&", "inout">>, <<"(", "l_paren">>, <<")", "r_paren">>, <<"[", "l_bracket">>, <<"]", "r_bracket">>,
     <<"lbrace", "l_brace">>, <<"rbrace", "r_brace">>, <<"+", "plus">>, <<"-", "minus">>,
     <<"%", "mod">>, <<"/", "divide">>, <<"*", "multipy">>, <<"!", "lnot">>,
     <<"<", "less">>, <<">", "greater">>}

Pair ==
    {<<"-", ">", "arrow">>, <<"&", "&", "land">>, <<"|", "|", "lor">>, <<"=", "=", "equals">>,
     <<"!", "=", "nequals">>, <<"<", "=", "less_eq">>, <<">", "=", "greater_eq">>}

(* The keywords with their kinds *)
Keyword ==
    {<<<<"v", "a", "r">>, "kw_var">>, <<<<"l", "e", "t">>, "kw_let">>,
     <<<<"b", "r", "e", "a", "k">>, "kw_break">>,
     <<<<"r", "e", "t", "u", "r", "n">>, "kw_return">>, <<<<"i", "f">>, "kw_if">>,
     <<<<"e", "l", "s", "e">>, "kw_else">>, <<<<"w", "h", "i", "l", "e">>, "kw_while">>,
     <<<<"f", "o", "r">>, "kw_for">>, <<<<"i", "n">>, "kw_in">>,
     <<<<"f", "u", "n", "c">>, "kw_func">>, <<<<"i", "n", "o", "u", "t">>, "kw_inout">>,
     <<<<"e", "x", "t", "e", "r", "n">>, "kw_extern">>}

TokenKind ==
    {e[2] : e \in Single} \union {e[3] : e \in Pair} \union {e[2] : e \in Keyword}
    \union {"elipsis_excl", "elipsis_incl", "number_literal", "identifier", "eof", "unknown"}

=============================================================================
