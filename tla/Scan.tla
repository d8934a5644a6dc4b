-------------------------------- MODULE Scan --------------------------------
(***************************************************************************)
(* What the tokens of a text are, without a machine that finds them:       *)
(* blanks and comments separate them, and a token is as long as it can be. *)
(* A position counts the characters before it.                             *)
(*                                                                         *)
(* It is the language the lexer accepts, which is larger than the one in   *)
(* TokenDefinitions.def: digits followed by letters are a number, and so   *)
(* is the prefix of a base.                                                *)
(***************************************************************************)
EXTENDS Lexemes

VARIABLES text, pos, token

vars == <<text, pos, token>>

Has(i, word) == i + Len(word) <= Len(text) /\ SubSeq(text, i + 1, i + Len(word)) = word

(* The first of some ends, or that of the text *)
First(ends) == CHOOSE k \in ends \union {Len(text)} : \A l \in ends : k <= l

(* From i to j there is a blank, a line comment or a comment in /* */; a   *)
(* comment that does not end takes the rest of the text.                   *)
Filler(i, j) ==
    \/ i < Len(text) /\ text[i + 1] \in Blank \union {"nul"} /\ j = i + 1
    \/ Has(i, <<"/", "/">>) /\ j = First({k \in i + 3 .. Len(text) : text[k] \in Newline})
    \/ Has(i, <<"/", "*">>) /\ j = First({k \in i + 4 .. Len(text) : Has(k - 2, <<"*", "/">>)})

-----------------------------------------------------------------------------
AllIn(word, first, chars) == \A k \in first .. Len(word) : word[k] \in chars

IsWord(word) == word[1] \in IdentifierStart /\ AllIn(word, 2, IdentifierCont)

HasMark(word, b) == Len(word) > 1 /\ word[1] = "0" /\ word[2] \in Mark[b]

IsNumber(word) ==
    \/ \E b \in Base : HasMark(word, b) /\ AllIn(word, 3, Digits[b])
    \/ /\ word[1] \in Digit /\ AllIn(word, 2, IdentifierCont)
       /\ ~\E b \in Base : HasMark(word, b)

Spellings ==
    {<<<<e[1]>>, e[2]>> : e \in Single} \union {<<<<e[1], e[2]>>, e[3]>> : e \in Pair}
    \union {<<<<".", ".">>, "elipsis_excl">>, <<<<".", ".", ".">>, "elipsis_incl">>}
    \union Keyword

KindsOf(word) ==
    LET fixed == {e[2] : e \in {s \in Spellings : s[1] = word}}
    IN  fixed \union {k \in {"identifier"} : IsWord(word) /\ fixed = {}}
              \union {k \in {"number_literal"} : IsNumber(word)}

Lexemes(i) ==
    UNION {[kind : KindsOf(SubSeq(text, i + 1, j)), from : {i}, to : {j}] :
             j \in i + 1 .. Len(text)}

RunsOn(t) == t.kind = "number_literal" /\ t.to < Len(text) /\ text[t.to + 1] \in IdentifierCont

(* What is at i where no filler is *)
TokenAt(i) ==
    IF i = Len(text) THEN [kind |-> "eof", from |-> i, to |-> i]
    ELSE IF Lexemes(i) = {} THEN [kind |-> "unknown", from |-> i, to |-> i + 1]
    ELSE LET longest == CHOOSE t \in Lexemes(i) : \A u \in Lexemes(i) : u.to <= t.to
         IN  IF RunsOn(longest) THEN [longest EXCEPT !.kind = "unknown"] ELSE longest

-----------------------------------------------------------------------------
Init ==
    /\ pos = 0
    /\ token = [kind |-> "unknown", from |-> 0, to |-> 0]

Skip ==
    /\ \E j \in pos + 1 .. Len(text) : Filler(pos, j) /\ pos' = j
    /\ UNCHANGED <<text, token>>

Take ==
    /\ ~\E j \in pos + 1 .. Len(text) : Filler(pos, j)
    /\ token' = TokenAt(pos)
    /\ pos' = token'.to
    /\ UNCHANGED text

Next == Skip \/ Take

Spec == Init /\ [][Next]_vars

=============================================================================
