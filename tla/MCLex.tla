------------------------------- MODULE MCLex -------------------------------
(***************************************************************************)
(* Model checking of Lex: short texts over all kinds of characters, longer *)
(* ones where words, numbers or comments need the length.                  *)
(***************************************************************************)
EXTENDS Lex

TextsOver(chars, n) == UNION {[1 .. k -> chars] : k \in 0 .. n}

(* A character of each class and of each case of the lexer.  The           *)
(* punctuators left out are single characters like the comma.              *)
Various == {"space", "newline", "nul", "#", "=", ".", "comma", "/", "*", "-", "!", "&", "|", "<", ">",
            "0", "8", "a", "x"}

Words    == {"i", "n", "f", "0", "space"}
Numbers  == {"0", "1", "8", "a", "g", "x", "b", "o", "B"}
Comments == {"/", "*", "newline", "nul"}
Lines    == {"#", "cr", "newline", "space"}

MCTexts ==
    TextsOver(Various, 3) \union TextsOver(Words, 4) \union TextsOver(Numbers, 4)
    \union TextsOver(Comments, 6) \union TextsOver(Lines, 5)

=============================================================================
