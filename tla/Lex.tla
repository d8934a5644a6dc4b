-------------------------------- MODULE Lex --------------------------------
(***************************************************************************)
(* The lexer of lib/Parser/Lexer.cpp, one token ahead of the parser.       *)
(*                                                                         *)
(* CurPtr is the number of characters before the one it points to; the     *)
(* character behind the text is the NUL that ends the buffer.  A step is   *)
(* an iteration of one of the lexer's loops.  Comments are never kept: no  *)
(* caller sets KeepComments.                                               *)
(***************************************************************************)
EXTENDS Lexemes, FiniteSets

CONSTANT Texts      \* the files

ASSUME TextsAssumption == Texts \subseteq Seq(STRING)

VARIABLES
    text,
    CurPtr,
    pc,          \* "loop" of lexToken(), or the inner loop it is in; "idle" outside
    TokStart,
    TokEnd,      \* of a number
    base,        \* of a number
    NextToken,
    Ret,         \* the token that lex() returned last: the parser's
    diagnosed    \* what was diagnosed where, and the line that was quoted for it

vars == <<text, CurPtr, pc, TokStart, TokEnd, base, NextToken, Ret, diagnosed>>

InnerLoop == {"line", "block", "identifier", "word", "digits"}

-----------------------------------------------------------------------------
Char(p) == IF p < Len(text) THEN text[p + 1] ELSE "nul"

AtEnd == CurPtr = Len(text)

(* Mutant: the line break before the line is taken for part of it. *)
StartOfLineAtBreak(loc) ==
    LET breaks == {q \in 1 .. loc : Char(q) \in Newline}
    IN  IF breaks = {} THEN 0 ELSE CHOOSE q \in breaks : \A r \in breaks : r <= q

(* getLineForLoc(): back to the start of the line of `loc', and on from    *)
(* the end of the token there, which is lexed again, to the end of that    *)
(* line.                                                                   *)
StartOfLine(loc) ==
    LET breaks == {q \in 1 .. loc : Char(q) \in Newline}
    IN  IF breaks = {} THEN 0 ELSE 1 + CHOOSE q \in breaks : \A r \in breaks : r <= q

EndOfLine(p) ==
    LET breaks == {q \in p .. Len(text) - 1 : Char(q) \in Newline}
    IN  IF breaks = {} THEN Len(text) ELSE 1 + CHOOSE q \in breaks : \A r \in breaks : q <= r

(* formToken() from where the iteration began to p, where CurPtr goes *)
Token(kind, from, to) == [kind |-> kind, from |-> from, to |-> to]

Form(kind, p) ==
    /\ NextToken' = Token(kind, CurPtr, p)
    /\ CurPtr' = p

(* diagnose() of the token from loc to p *)
Diagnose(id, loc, p) ==
    diagnosed' = diagnosed \union
                 {[id |-> id, loc |-> loc, line |-> <<StartOfLine(loc), EndOfLine(p)>>]}

Return == pc' = "idle" /\ UNCHANGED <<TokEnd, base>>

(* Mutant: it is not diagnosed. *)
FormUnknownSilent(p) == Form("unknown", p) /\ UNCHANGED diagnosed

FormUnknown(p) == Form("unknown", p) /\ Diagnose("unexpected symbol", CurPtr, p)

-----------------------------------------------------------------------------
(* The iterations of lexToken() *)

TakeBlank ==
    /\ Char(CurPtr) \in Blank \union {"nul"} /\ ~AtEnd
    /\ CurPtr' = CurPtr + 1
    /\ UNCHANGED <<pc, TokEnd, base, NextToken, diagnosed>>

TakeEnd ==
    /\ Char(CurPtr) = "nul" /\ AtEnd
    /\ Form("eof", CurPtr)
    /\ Return /\ UNCHANGED diagnosed

(* `..' is no punctuator that a `.' completes but a case of its own. *)
TakeElipsis ==
    /\ Char(CurPtr) = "." /\ Char(CurPtr + 1) = "."
    /\ IF Char(CurPtr + 2) = "." THEN Form("elipsis_incl", CurPtr + 3)
                                 ELSE Form("elipsis_excl", CurPtr + 2)
    /\ Return /\ UNCHANGED diagnosed

StartsComment == Char(CurPtr) = "/" /\ Char(CurPtr + 1) \in {"/", "*"}

TakePair ==
    /\ \E e \in Pair :
          Char(CurPtr) = e[1] /\ Char(CurPtr + 1) = e[2] /\ Form(e[3], CurPtr + 2)
    /\ Return /\ UNCHANGED diagnosed

TakeSingle ==
    /\ ~StartsComment
    /\ ~\E e \in Pair : Char(CurPtr) = e[1] /\ Char(CurPtr + 1) = e[2]
    /\ \/ \E e \in Single : Char(CurPtr) = e[1] /\ Form(e[2], CurPtr + 1)
       \/ Char(CurPtr) = "|" /\ Form("unknown", CurPtr + 1)
    /\ Return /\ UNCHANGED diagnosed

(* The dot that is alone, and every character no case is for *)
TakeOther ==
    /\ IF Char(CurPtr) = "." THEN Char(CurPtr + 1) # "."
       ELSE /\ Char(CurPtr) \notin Blank \union IdentifierCont \union {"nul", "|"}
            /\ Char(CurPtr) \notin {e[1] : e \in Single}
    /\ FormUnknown(CurPtr + 1)
    /\ Return

(* The second slash is read again by skipToEndOfLine(). *)
TakeLineComment ==
    /\ StartsComment /\ Char(CurPtr + 1) = "/"
    /\ CurPtr' = CurPtr + 1 /\ pc' = "line"
    /\ UNCHANGED <<TokEnd, base, NextToken, diagnosed>>

(* Mutant: the star is left for the loop, which may find it in `/*/'. *)
TakeBlockCommentShort ==
    /\ StartsComment /\ Char(CurPtr + 1) = "*"
    /\ CurPtr' = CurPtr + 1 /\ pc' = "block"
    /\ UNCHANGED <<TokEnd, base, NextToken, diagnosed>>

TakeBlockComment ==
    /\ StartsComment /\ Char(CurPtr + 1) = "*"
    /\ CurPtr' = CurPtr + 2 /\ pc' = "block"
    /\ UNCHANGED <<TokEnd, base, NextToken, diagnosed>>

TakeIdentifier ==
    /\ Char(CurPtr) \in IdentifierStart
    /\ CurPtr' = CurPtr + 1 /\ pc' = "identifier"
    /\ UNCHANGED <<TokEnd, base, NextToken, diagnosed>>

(* Each base asserts its prefix again.  The assertion for binary numbers    *)
(* has its parenthesis behind == 'b', and is false of a capital B.          *)
TakeNumber ==
    /\ Char(CurPtr) \in Digit
    /\ base' = IF \E b \in Base : Char(CurPtr) = "0" /\ Char(CurPtr + 1) \in Mark[b]
               THEN CHOOSE b \in Base : Char(CurPtr + 1) \in Mark[b] ELSE "dec"
    /\ CurPtr' = CurPtr + 1
    /\ pc' = IF base' = "bin" /\ Char(CurPtr') # "b" THEN "aborted" ELSE "word"
    /\ UNCHANGED <<TokEnd, NextToken, diagnosed>>

LexToken ==
    /\ pc = "loop"
    /\ TokStart' = CurPtr
    /\ \/ TakeBlank \/ TakeEnd \/ TakeElipsis \/ TakePair \/ TakeSingle \/ TakeOther
       \/ TakeLineComment \/ TakeBlockComment \/ TakeIdentifier \/ TakeNumber
    /\ UNCHANGED <<text, Ret>>

-----------------------------------------------------------------------------
(* The inner loops *)

(* Mutant: the end of the buffer does not end the loop. *)
SkipToEndOfLineStuck ==
    /\ pc = "line"
    /\ CurPtr' = IF AtEnd THEN CurPtr ELSE CurPtr + 1
    /\ pc' = IF Char(CurPtr) \in Newline THEN "loop" ELSE "line"
    /\ UNCHANGED <<text, TokStart, TokEnd, base, NextToken, Ret, diagnosed>>

SkipToEndOfLine ==
    /\ pc = "line"
    /\ CurPtr' = IF AtEnd THEN CurPtr ELSE CurPtr + 1
    /\ pc' = IF AtEnd \/ Char(CurPtr) \in Newline THEN "loop" ELSE "line"
    /\ UNCHANGED <<text, TokStart, TokEnd, base, NextToken, Ret, diagnosed>>

(* The token formed at the end of the buffer is not returned: lexToken()   *)
(* goes on, and finds the end there.                                       *)
SkipMultilineComment ==
    /\ pc = "block"
    /\ IF AtEnd
       THEN /\ NextToken' = Token("unknown", TokStart, CurPtr)
            /\ Diagnose("unterminated comment", TokStart, CurPtr)
            /\ CurPtr' = CurPtr /\ pc' = "loop"
       ELSE /\ IF Char(CurPtr) = "*" /\ Char(CurPtr + 1) = "/"
               THEN CurPtr' = CurPtr + 2 /\ pc' = "loop"
               ELSE CurPtr' = CurPtr + 1 /\ pc' = "block"
            /\ UNCHANGED <<NextToken, diagnosed>>
    /\ UNCHANGED <<text, TokStart, TokEnd, base, Ret>>

(* while (consumeIf...(CurPtr)), and what follows the loop *)
Consume(chars) ==
    /\ Char(CurPtr) \in chars
    /\ CurPtr' = CurPtr + 1
    /\ UNCHANGED <<pc, TokEnd, NextToken, diagnosed>>

KindOfIdentifier(word) ==
    IF \E e \in Keyword : e[1] = word
    THEN (CHOOSE e \in Keyword : e[1] = word)[2] ELSE "identifier"

LexIdentifier ==
    /\ pc = "identifier"
    /\ \/ Consume(IdentifierCont)
       \/ /\ Char(CurPtr) \notin IdentifierCont
          /\ NextToken' = Token(KindOfIdentifier(SubSeq(text, TokStart + 1, CurPtr)),
                                TokStart, CurPtr)
          /\ pc' = "idle"
          /\ UNCHANGED <<CurPtr, TokEnd, diagnosed>>
    /\ UNCHANGED <<text, TokStart, base, Ret>>

(* Mutant: a prefix is skipped that a decimal number does not have. *)
LexWordPrefixed ==
    /\ pc = "word"
    /\ \/ Consume(IdentifierCont)
       \/ /\ Char(CurPtr) \notin IdentifierCont
          /\ TokEnd' = CurPtr
          /\ CurPtr' = TokStart + 2
          /\ pc' = "digits"
          /\ UNCHANGED <<NextToken, diagnosed>>
    /\ UNCHANGED <<text, TokStart, base, Ret>>

(* To the end of the word, then again from behind the prefix.  The digits  *)
(* of a decimal number are read again from its end, and there are none.    *)
LexWord ==
    /\ pc = "word"
    /\ \/ Consume(IdentifierCont)
       \/ /\ Char(CurPtr) \notin IdentifierCont
          /\ TokEnd' = CurPtr
          /\ CurPtr' = IF base = "dec" THEN CurPtr ELSE TokStart + 2
          /\ pc' = "digits"
          /\ UNCHANGED <<NextToken, diagnosed>>
    /\ UNCHANGED <<text, TokStart, base, Ret>>

LexDigits ==
    /\ pc = "digits"
    /\ \/ Consume(Digits[base])
       \/ /\ Char(CurPtr) \notin Digits[base]
          /\ IF TokEnd = CurPtr
             THEN /\ NextToken' = Token("number_literal", TokStart, CurPtr)
                  /\ UNCHANGED diagnosed
             ELSE /\ NextToken' = Token("unknown", TokStart, CurPtr)
                  /\ Diagnose("unexpected symbol", TokStart, CurPtr)
          /\ pc' = "idle"
          /\ UNCHANGED <<CurPtr, TokEnd>>
    /\ UNCHANGED <<text, TokStart, base, Ret>>

(* lex(), which the parser calls for each token it consumes *)
LexCall ==
    /\ pc = "idle"
    /\ Ret' = NextToken
    /\ pc' = IF Ret'.kind = "eof" THEN "idle" ELSE "loop"
    /\ UNCHANGED <<text, CurPtr, TokStart, TokEnd, base, NextToken, diagnosed>>

-----------------------------------------------------------------------------
(* The constructor lexes the first token. *)
Init ==
    /\ text \in Texts
    /\ CurPtr = 0 /\ TokStart = 0 /\ TokEnd = 0
    /\ pc = "loop" /\ base = "dec"
    /\ NextToken = Token("unknown", 0, 0)
    /\ Ret = NextToken
    /\ diagnosed = {}

Lexing == LexToken \/ SkipToEndOfLine \/ SkipMultilineComment
          \/ LexIdentifier \/ LexWord \/ LexDigits

Next == Lexing \/ LexCall

(* Once called, the lexer runs until it returns; nobody has to call it.    *)
Spec == Init /\ [][Next]_vars /\ WF_vars(Lexing)

-----------------------------------------------------------------------------
(* Types.  The kinds of the tokens formed are in Scan's hands.             *)
TokenType == [kind : TokenKind, from : 0 .. Len(text), to : 0 .. Len(text)]

TypeOK ==
    /\ text \in Texts
    /\ CurPtr \in 0 .. Len(text) /\ TokStart \in 0 .. Len(text) /\ TokEnd \in 0 .. Len(text)
    /\ pc \in {"loop", "idle", "aborted"} \union InnerLoop
    /\ base \in Base
    /\ NextToken \in TokenType /\ Ret \in TokenType
    /\ \A d \in diagnosed :
          /\ d.id \in {"unexpected symbol", "unterminated comment"}
          /\ d.loc \in 0 .. Len(text)

(* The lexer reads no character behind the NUL of its buffer, however it   *)
(* goes back and forth in a number (TypeOK), since its tokens are in the   *)
(* order of the text and do not overlap: the parser's current token, the   *)
(* next one, the one that is being lexed.  A number is not read beyond the *)
(* word it is in.  Lexer.cpp:393, 427, 434, 514, 517.                      *)
Window ==
    /\ Ret.from <= Ret.to /\ NextToken.from <= NextToken.to
    /\ pc = "idle" => NextToken.to = CurPtr /\ (Ret.to <= NextToken.from \/ Ret = NextToken)
    /\ pc # "idle" => Ret.to <= CurPtr
    /\ pc \in InnerLoop => Ret.to <= TokStart /\ TokStart < CurPtr
    /\ pc = "digits" => CurPtr <= TokEnd

(* The parser says nothing of an unknown token (Parser.cpp:47 "Handeled by *)
(* lexer."), so the lexer must have.  It has not of a bar that is alone    *)
(* (Lexer.cpp:235).                                                        *)
UnknownReported ==
    pc = "idle" /\ NextToken.kind = "unknown" /\ Char(NextToken.from) # "|" =>
        \E d \in diagnosed : d.loc = NextToken.from

(* The line quoted for a symbol is the one it is in, all of it and nothing *)
(* else (Lexer.h:110, 115, 117).  Not so if the file begins with an empty  *)
(* line: the walk back does not look at the first character                *)
(* (Lexer.cpp:26), and quotes it with the second line.                     *)
QuotesItsLine ==
    \A d \in diagnosed :
        LET from == d.line[1]
            to   == d.line[2]
        IN  d.id = "unexpected symbol" /\ ~(from = 0 /\ Char(0) \in Newline) =>
                /\ from <= d.loc /\ d.loc < to
                /\ \A q \in from .. to - 2 : Char(q) \notin Newline
                /\ from = 0 \/ Char(from - 1) \in Newline
                /\ to = Len(text) \/ Char(to - 1) \in Newline

(* The lexer delivers the tokens of the text: blanks and comments left     *)
(* out, each token as long as it can be, none lost, none twice.            *)
S == INSTANCE Scan WITH
         pos   <- IF pc \in {"loop", "idle"} THEN CurPtr ELSE TokStart,
         token <- IF pc = "idle" THEN NextToken ELSE Ret

Implements == S!Spec

(* Every call returns, unless the file has a binary number with a capital  *)
(* B (Lexer.cpp:534).                                                      *)
CapitalB == \E i \in 2 .. Len(text) : text[i - 1] = "0" /\ text[i] = "B"

Returns == ~CapitalB => []<>(pc = "idle")

=============================================================================
