---------------------------- MODULE TextProofs -----------------------------
(***************************************************************************)
(* Theorems about text that is read and text that is printed.              *)
(*                                                                         *)
(* Lex, for every text: the lexer stays in its buffer, its tokens follow   *)
(* each other, what it cannot read it reports, and its tokens are those of *)
(* Scan.                                                                   *)
(*                                                                         *)
(* Format, for every module that the parser builds and however deep it     *)
(* nests: the formatter prints the tokens that were read, lays them out as *)
(* it should, and is stopped by nothing else than it is known to be.       *)
(***************************************************************************)
EXTENDS Lex, Format, SequenceTheorems, FiniteSetTheorems, WellFoundedInduction, TLAPS

-----------------------------------------------------------------------------
(* Characters.  NUL is in none of the classes that the loops run over, so  *)
(* the end of the buffer stops each of them.                               *)

LEMMA NulStops == "nul" \notin IdentifierCont /\ "nul" \notin Newline /\ "nul" \notin Digit
  BY DEF IdentifierCont, IdentifierStart, HexLetter, Digit, Newline

LEMMA Bases == Base = {"hex", "bin", "oct", "dec"}
  BY DEF Base, Digits

(* What a number may contain a word may. *)
LEMMA DigitsInWords == \A b \in Base : Digits[b] \subseteq IdentifierCont
<1>1. /\ Digits["hex"] = Digit \union HexLetter /\ Digits["bin"] = {"0", "1"}
      /\ Digits["oct"] = Digit \ {"8", "9"} /\ Digits["dec"] = Digit
  BY DEF Digits
<1>2. Digit \union HexLetter \subseteq IdentifierCont
  BY DEF IdentifierCont, IdentifierStart
<1>3. {"0", "1"} \subseteq Digit
  BY DEF Digit
<1> QED
  BY <1>1, <1>2, <1>3, Bases

LEMMA MarksInWords == \A b \in Base : Mark[b] \subseteq IdentifierCont
<1>1. /\ Mark["hex"] = {"x", "X"} /\ Mark["bin"] = {"b", "B"}
      /\ Mark["oct"] = {"o", "O"} /\ Mark["dec"] = {}
  BY DEF Mark
<1>2. {"x", "X", "b", "B", "o", "O"} \subseteq IdentifierStart
  BY DEF IdentifierStart, HexLetter
<1> QED
  BY <1>1, <1>2, Bases DEF IdentifierCont

LEMMA PairKinds ==
  \A e \in Pair : e[1] # "nul" /\ e[2] # "nul" /\ e[3] # "unknown" /\ e[3] \in TokenKind
<1>1. \A e \in Pair : e[1] # "nul" /\ e[2] # "nul" /\ e[3] # "unknown"
  BY DEF Pair
<1> QED
  BY <1>1 DEF TokenKind

LEMMA SingleKinds ==
  \A e \in Single : e[1] # "nul" /\ e[2] # "unknown" /\ e[2] \in TokenKind
<1>1. \A e \in Single : e[1] # "nul"
  BY DEF Single
<1>2. \A e \in Single : e[2] # "unknown"
  BY DEF Single
<1> QED
  BY <1>1, <1>2 DEF TokenKind

LEMMA IdentifierKinds ==
  \A word : KindOfIdentifier(word) \in TokenKind /\ KindOfIdentifier(word) # "unknown"
<1>1. \A e \in Keyword : e[2] # "unknown"
  BY DEF Keyword
<1> QED
  BY <1>1 DEF TokenKind, KindOfIdentifier

LEMMA TextLength == text \in Texts => Len(text) \in Nat
  BY TextsAssumption

LEMMA Inside ==
  ASSUME NEW p \in Nat, Char(p) # "nul", text \in Texts
  PROVE  p < Len(text) /\ p + 1 <= Len(text)
  BY TextLength DEF Char

-----------------------------------------------------------------------------
(* What the loops rely on: a number that goes back to its prefix finds the *)
(* prefix in the word it came from, and the word ends where it ended.      *)
LexInv ==
    /\ pc = "word" /\ base # "dec" => Char(TokStart + 1) \in IdentifierCont
    /\ pc = "digits" => Char(TokEnd) \notin IdentifierCont

IInv == TypeOK /\ Window /\ LexInv /\ UnknownReported

THEOREM InitInv == Init => IInv
<1> SUFFICES ASSUME Init
             PROVE  IInv
  OBVIOUS
<1>1. Len(text) \in Nat
  BY TextLength DEF Init
<1>2. NextToken = [kind |-> "unknown", from |-> 0, to |-> 0] /\ Ret = NextToken
  BY DEF Init, Token
<1>3. NextToken \in TokenType
  BY <1>1, <1>2 DEF TokenType, TokenKind
<1> QED
  BY <1>1, <1>2, <1>3, Bases DEF Init, IInv, TypeOK, Window, LexInv, UnknownReported, InnerLoop

(* Each iteration of lexToken() goes on, into an inner loop, or returns    *)
(* with a token that ends where CurPtr is.                                 *)
LEMMA LexTokenInv == IInv /\ LexToken => IInv'
<1> SUFFICES ASSUME IInv, LexToken
             PROVE  IInv'
  OBVIOUS
<1>1. /\ text \in Texts /\ text' = text /\ Ret' = Ret /\ TokStart' = CurPtr /\ pc = "loop"
      /\ Len(text) \in Nat /\ CurPtr \in 0 .. Len(text)
      /\ base \in Base /\ TokEnd \in 0 .. Len(text)
      /\ NextToken \in TokenType /\ Ret \in TokenType
      /\ Ret.to <= CurPtr /\ Ret.from <= Ret.to
      /\ NextToken.from <= NextToken.to
  BY TextLength DEF LexToken, IInv, TypeOK, Window, InnerLoop
<1>tokens. \A t : t \in TokenType => t \in TokenType'
  BY <1>1 DEF TokenType
<1>diagnoses. \A d \in diagnosed : /\ d.id \in {"unexpected symbol", "unterminated comment"}
                           /\ d.loc \in 0 .. Len(text)
  BY DEF IInv, TypeOK
<1>length. Len(text') = Len(text) /\ CurPtr \in 0 .. Len(text)
  BY <1>1
<1>added. ASSUME NEW p, Diagnose("unexpected symbol", CurPtr, p)
      PROVE  \E d : /\ diagnosed' = diagnosed \union {d}
                    /\ d.id = "unexpected symbol" /\ d.loc = CurPtr
  <2> DEFINE d == [id |-> "unexpected symbol", loc |-> CurPtr,
                   line |-> <<StartOfLine(CurPtr), EndOfLine(p)>>]
  <2>1. d.id = "unexpected symbol" /\ d.loc = CurPtr
    OBVIOUS
  <2>2. diagnosed' = diagnosed \union {d}
    BY <1>added DEF Diagnose
  <2> HIDE DEF d
  <2> QED
    BY <2>1, <2>2
<1> DEFINE MovesOn == /\ CurPtr' \in CurPtr + 1 .. Len(text)
                     /\ NextToken' = NextToken /\ diagnosed' = diagnosed /\ TokEnd' = TokEnd
                     /\ base' \in Base
<1>2. ASSUME NEW kind \in TokenKind, NEW p \in CurPtr .. Len(text),
             Form(kind, p), Return,
             \/ /\ diagnosed' = diagnosed
                /\ kind = "unknown" => Char(CurPtr) = "|"
             \/ Diagnose("unexpected symbol", CurPtr, p)
      PROVE  IInv'
  <2>1. /\ NextToken' = [kind |-> kind, from |-> CurPtr, to |-> p] /\ CurPtr' = p
        /\ pc' = "idle" /\ TokEnd' = TokEnd /\ base' = base
    BY <1>1, <1>2 DEF Form, Return, Token
  <2>2. p \in 0 .. Len(text) /\ p \in Int
    BY <1>1
  <2>3. NextToken' \in TokenType
    BY <1>1, <2>1, <2>2 DEF TokenType
  <2>4. \A d \in diagnosed' : /\ d.id \in {"unexpected symbol", "unterminated comment"}
                             /\ d.loc \in 0 .. Len(text)
    <3>1. CASE diagnosed' = diagnosed
      BY <1>diagnoses, <3>1
    <3>2. CASE Diagnose("unexpected symbol", CurPtr, p)
      <4>1. PICK d : /\ diagnosed' = diagnosed \union {d}
                     /\ d.id = "unexpected symbol" /\ d.loc = CurPtr
        BY <1>added, <3>2
      <4>2. d.id \in {"unexpected symbol", "unterminated comment"}
        BY <4>1
      <4>3. d.loc \in 0 .. Len(text)
        BY <1>1, <4>1
      <4> QED
        BY <1>diagnoses, <4>1, <4>2, <4>3
    <3> QED
      BY <1>2, <3>1, <3>2
  <2>5. TypeOK'
    <3>1. NextToken' \in TokenType' /\ Ret' \in TokenType'
      BY <1>1, <1>tokens, <2>3
    <3> QED
      BY <1>1, <2>1, <2>2, <2>4, <3>1 DEF TypeOK
  <2>6. Window'
    BY <1>1, <2>1, <2>2 DEF Window, InnerLoop
  <2>7. LexInv'
    BY <2>1 DEF LexInv
  <2>9. UnknownReported'
    <3> SUFFICES ASSUME kind = "unknown", Char(NextToken.from)' # "|"
                 PROVE  \E d \in diagnosed' : d.loc = NextToken'.from
      BY <2>1 DEF UnknownReported
    <3>1. NextToken'.from = CurPtr
      BY <2>1
    <3>2. Char(CurPtr) # "|"
      BY <1>1, <3>1 DEF Char
    <3>3. Diagnose("unexpected symbol", CurPtr, p)
      BY <1>2, <3>2
    <3>4. PICK d : diagnosed' = diagnosed \union {d} /\ d.loc = CurPtr
      BY <1>added, <3>3
    <3> QED
      BY <3>1, <3>4
  <2> QED
    BY <2>5, <2>6, <2>7, <2>9 DEF IInv
<1>3. ASSUME MovesOn, pc' \in {"loop", "aborted", "line", "block", "identifier"}
      PROVE  IInv'
  <2>1. TypeOK'
    <3>1. NextToken' \in TokenType' /\ Ret' \in TokenType'
      BY <1>1, <1>tokens, <1>3
    <3>2. CurPtr' \in 0 .. Len(text)
      BY <1>1, <1>3
    <3> QED
      BY <1>1, <1>diagnoses, <1>3, <3>1, <3>2 DEF TypeOK, InnerLoop
  <2>2. Window'
    <3>1. Ret.to \in Int /\ CurPtr' \in Int /\ CurPtr < CurPtr'
      BY <1>1, <1>3 DEF TokenType
    <3> QED
      BY <1>1, <1>3, <3>1 DEF Window, InnerLoop
  <2>3. LexInv' /\ UnknownReported'
    BY <1>3 DEF LexInv, UnknownReported
  <2> QED
    BY <2>1, <2>2, <2>3 DEF IInv
<1>4. CASE TakeBlank
  <2>1. MovesOn /\ pc' = "loop"
    BY <1>1, <1>4 DEF TakeBlank, AtEnd
  <2> QED
    BY <1>3, <2>1
<1>5. CASE TakeEnd
  <2>1. Form("eof", CurPtr) /\ Return /\ diagnosed' = diagnosed
    BY <1>5 DEF TakeEnd
  <2>2. CurPtr \in CurPtr .. Len(text) /\ "eof" \in TokenKind
    BY <1>1 DEF TokenKind
  <2> QED
    BY <1>2, <2>1, <2>2
<1>6. CASE TakeElipsis
  <2>1. CurPtr + 2 \in CurPtr .. Len(text)
    BY <1>1, <1>6, Inside DEF TakeElipsis
  <2>2. Char(CurPtr + 2) = "." => CurPtr + 3 \in CurPtr .. Len(text)
    BY <1>1, Inside
  <2>3. "elipsis_incl" \in TokenKind /\ "elipsis_excl" \in TokenKind
    BY DEF TokenKind
  <2>4. Return /\ diagnosed' = diagnosed
    BY <1>6 DEF TakeElipsis
  <2>5. CASE Char(CurPtr + 2) = "."
    <3>1. Form("elipsis_incl", CurPtr + 3)
      BY <1>6, <2>5 DEF TakeElipsis
    <3> QED
      BY <1>2, <2>2, <2>3, <2>4, <2>5, <3>1
  <2>6. CASE Char(CurPtr + 2) # "."
    <3>1. Form("elipsis_excl", CurPtr + 2)
      BY <1>6, <2>6 DEF TakeElipsis
    <3> QED
      BY <1>2, <2>1, <2>3, <2>4, <3>1
  <2> QED
    BY <2>5, <2>6
<1>7. CASE TakePair
  <2>1. PICK e \in Pair : Char(CurPtr + 1) = e[2] /\ Form(e[3], CurPtr + 2)
    BY <1>7 DEF TakePair
  <2>2. CurPtr + 2 \in CurPtr .. Len(text)
    BY <1>1, <2>1, Inside, PairKinds
  <2>3. Return /\ diagnosed' = diagnosed
    BY <1>7 DEF TakePair
  <2>4. e[3] \in TokenKind /\ e[3] # "unknown"
    BY PairKinds
  <2> QED
    BY <1>2, <2>1, <2>2, <2>3, <2>4
<1>8. CASE TakeSingle
  <2>1. CASE \E e \in Single : Char(CurPtr) = e[1] /\ Form(e[2], CurPtr + 1)
    <3>1. PICK e \in Single : Char(CurPtr) = e[1] /\ Form(e[2], CurPtr + 1)
      BY <2>1
    <3>2. CurPtr + 1 \in CurPtr .. Len(text)
      BY <1>1, <3>1, Inside, SingleKinds
    <3>3. Return /\ diagnosed' = diagnosed
      BY <1>8 DEF TakeSingle
    <3>4. e[2] \in TokenKind /\ e[2] # "unknown"
      BY SingleKinds
    <3> QED
      BY <1>2, <3>1, <3>2, <3>3, <3>4
  <2>2. CASE Char(CurPtr) = "|" /\ Form("unknown", CurPtr + 1)
    <3>1. CurPtr + 1 \in CurPtr .. Len(text)
      BY <1>1, <2>2, Inside
    <3>2. Return /\ diagnosed' = diagnosed
      BY <1>8 DEF TakeSingle
    <3>3. "unknown" \in TokenKind
      BY DEF TokenKind
    <3> QED
      BY <1>2, <2>2, <3>1, <3>2, <3>3
  <2> QED
    BY <1>8, <2>1, <2>2 DEF TakeSingle
<1>9. CASE TakeOther
  <2>1. CurPtr + 1 \in CurPtr .. Len(text)
    BY <1>1, <1>9, Inside DEF TakeOther
  <2>2. /\ Form("unknown", CurPtr + 1) /\ Return
        /\ Diagnose("unexpected symbol", CurPtr, CurPtr + 1)
    BY <1>9 DEF TakeOther, FormUnknown
  <2>3. "unknown" \in TokenKind
    BY DEF TokenKind
  <2> QED
    BY <1>2, <2>1, <2>2, <2>3
<1>10. CASE TakeLineComment
  <2>1. MovesOn /\ pc' = "line"
    BY <1>1, <1>10, Inside DEF TakeLineComment, StartsComment
  <2> QED
    BY <1>3, <2>1
<1>11. CASE TakeBlockComment
  <2>1. CurPtr + 2 <= Len(text)
    BY <1>1, <1>11, Inside DEF TakeBlockComment
  <2>2. MovesOn /\ pc' = "block"
    BY <1>1, <1>11, <2>1 DEF TakeBlockComment
  <2> QED
    BY <1>3, <2>2
<1>12. CASE TakeIdentifier
  <2>1. CurPtr + 1 <= Len(text)
    BY <1>1, <1>12, Inside, NulStops DEF TakeIdentifier, IdentifierCont
  <2>2. MovesOn /\ pc' = "identifier"
    BY <1>1, <1>12, <2>1 DEF TakeIdentifier
  <2> QED
    BY <1>3, <2>2
<1>13. CASE TakeNumber
  <2>1. CurPtr + 1 <= Len(text)
    BY <1>1, <1>13, Inside, NulStops DEF TakeNumber
  <2>2. CurPtr' = CurPtr + 1
    BY <1>13 DEF TakeNumber
  <2>3. base' \in Base /\ (base' # "dec" => Char(CurPtr + 1) \in Mark[base'])
    BY <1>13, Bases DEF TakeNumber
  <2>4. MovesOn
    BY <1>1, <1>13, <2>1, <2>2, <2>3 DEF TakeNumber
  <2>5. CASE pc' = "aborted"
    BY <1>3, <2>4, <2>5
  <2>6. CASE pc' = "word"
    <3>1. TypeOK'
      <4>1. NextToken' \in TokenType' /\ Ret' \in TokenType'
        BY <1>1, <1>tokens, <2>4
      <4>2. CurPtr' \in 0 .. Len(text)
        BY <1>1, <2>4
      <4> QED
        BY <1>1, <1>diagnoses, <2>4, <2>6, <4>1, <4>2 DEF TypeOK, InnerLoop
    <3>2. Window'
      <4>1. Ret.to \in Int /\ CurPtr' \in Int /\ CurPtr < CurPtr'
        BY <1>1, <2>4 DEF TokenType
      <4> QED
        BY <1>1, <2>4, <2>6, <4>1 DEF Window, InnerLoop
    <3>3. LexInv'
      BY <1>1, <2>3, <2>6, MarksInWords DEF LexInv, Char
    <3>4. UnknownReported'
      BY <2>6 DEF UnknownReported
    <3> QED
      BY <3>1, <3>2, <3>3, <3>4 DEF IInv
  <2> QED
    BY <1>13, <2>5, <2>6 DEF TakeNumber
<1> QED
  BY <1>4, <1>5, <1>6, <1>7, <1>8, <1>9, <1>10, <1>11, <1>12, <1>13 DEF LexToken

(* Each iteration of an inner loop goes on, behind the position it was at, *)
(* or leaves the loop where it is.                                         *)
LEMMA InnerLoopInv ==
  IInv /\ (SkipToEndOfLine \/ SkipMultilineComment \/ LexIdentifier \/ LexWord \/ LexDigits)
  => IInv'
<1> SUFFICES ASSUME IInv, pc \in InnerLoop,
                    \/ SkipToEndOfLine \/ SkipMultilineComment
                    \/ LexIdentifier \/ LexWord \/ LexDigits
             PROVE  IInv'
  BY DEF SkipToEndOfLine, SkipMultilineComment, LexIdentifier, LexWord, LexDigits, InnerLoop
<1>1. /\ text \in Texts /\ text' = text /\ Ret' = Ret /\ TokStart' = TokStart /\ base' = base
      /\ Len(text) \in Nat /\ CurPtr \in 0 .. Len(text) /\ TokStart \in 0 .. Len(text)
      /\ TokEnd \in 0 .. Len(text) /\ base \in Base
      /\ NextToken \in TokenType /\ Ret \in TokenType
      /\ Ret.from <= Ret.to /\ Ret.to <= TokStart /\ TokStart < CurPtr
      /\ NextToken.from <= NextToken.to
  BY TextLength DEF SkipToEndOfLine, SkipMultilineComment, LexIdentifier, LexWord, LexDigits,
                    IInv, TypeOK, Window
<1>2. Ret.to \in Int /\ CurPtr \in Int /\ TokStart \in Int
  BY <1>1 DEF TokenType
<1>tokens. \A t : t \in TokenType => t \in TokenType'
  BY <1>1 DEF TokenType
<1>diagnoses. \A d \in diagnosed : /\ d.id \in {"unexpected symbol", "unterminated comment"}
                                   /\ d.loc \in 0 .. Len(text)
  BY DEF IInv, TypeOK
<1>added. ASSUME NEW id \in {"unexpected symbol", "unterminated comment"},
                 Diagnose(id, TokStart, CurPtr)
          PROVE  /\ \E d \in diagnosed' : d.loc = TokStart
                 /\ \A d \in diagnosed' :
                       /\ d.id \in {"unexpected symbol", "unterminated comment"}
                       /\ d.loc \in 0 .. Len(text)
  <2> DEFINE d == [id |-> id, loc |-> TokStart, line |-> <<StartOfLine(TokStart), EndOfLine(CurPtr)>>]
  <2>1. d.id = id /\ d.loc = TokStart
    OBVIOUS
  <2>2. diagnosed' = diagnosed \union {d}
    BY <1>added DEF Diagnose
  <2> HIDE DEF d
  <2> QED
    BY <1>1, <1>diagnoses, <2>1, <2>2
<1>3. ASSUME CurPtr' \in CurPtr + 1 .. Len(text), pc' \in {pc, "loop"}, NextToken' = NextToken,
             diagnosed' = diagnosed, TokEnd' = TokEnd, pc' = "digits" => CurPtr' <= TokEnd
      PROVE  IInv'
  <2>1. CurPtr' \in 0 .. Len(text) /\ NextToken' \in TokenType' /\ Ret' \in TokenType'
    BY <1>1, <1>tokens, <1>3
  <2>2. TypeOK'
    BY <1>1, <1>diagnoses, <1>3, <2>1 DEF TypeOK, InnerLoop
  <2>3. Window'
    BY <1>1, <1>2, <1>3 DEF Window, InnerLoop
  <2>4. LexInv'
    BY <1>1, <1>3 DEF IInv, LexInv, Char, InnerLoop
  <2>5. UnknownReported'
    BY <1>3 DEF UnknownReported, InnerLoop
  <2> QED
    BY <2>2, <2>3, <2>4, <2>5 DEF IInv
<1>4. ASSUME NEW kind \in TokenKind, NextToken' = Token(kind, TokStart, CurPtr),
             CurPtr' = CurPtr, pc' \in {"idle", "loop"}, TokEnd' = TokEnd,
             \/ diagnosed' = diagnosed /\ kind # "unknown"
             \/ \E id \in {"unexpected symbol", "unterminated comment"} :
                   Diagnose(id, TokStart, CurPtr)
      PROVE  IInv'
  <2>1. NextToken' = [kind |-> kind, from |-> TokStart, to |-> CurPtr]
    BY <1>4 DEF Token
  <2>2. NextToken' \in TokenType
    BY <1>1, <2>1 DEF TokenType
  <2>3. NextToken' \in TokenType' /\ Ret' \in TokenType'
    BY <1>1, <1>tokens, <2>2
  <2>4. \A d \in diagnosed' : /\ d.id \in {"unexpected symbol", "unterminated comment"}
                              /\ d.loc \in 0 .. Len(text)
    BY <1>4, <1>diagnoses, <1>added
  <2>5. TypeOK'
    BY <1>1, <1>4, <2>3, <2>4 DEF TypeOK
  <2>6. Window'
    <3>1. NextToken'.from = TokStart /\ NextToken'.to = CurPtr
      BY <2>1
    <3>2. Ret.to <= CurPtr
      BY <1>1, <1>2
    <3>3. pc' \in {"idle", "loop"} /\ CurPtr' = CurPtr
      BY <1>4
    <3>4. TokStart <= CurPtr
      BY <1>1, <1>2
    <3>5. Ret'.from <= Ret'.to /\ NextToken'.from <= NextToken'.to
      BY <1>1, <3>1, <3>3, <3>4
    <3>6. NextToken'.to = CurPtr' /\ Ret'.to <= NextToken'.from /\ Ret'.to <= CurPtr'
      BY <1>1, <3>1, <3>2, <3>3
    <3>7. pc' \notin InnerLoop /\ pc' # "digits"
      BY <3>3 DEF InnerLoop
    <3> QED
      BY <3>5, <3>6, <3>7 DEF Window
  <2>7. LexInv'
    BY <1>4 DEF LexInv
  <2>8. kind = "unknown" => \E d \in diagnosed' : d.loc = TokStart
    <3> SUFFICES ASSUME kind = "unknown"
                 PROVE  \E d \in diagnosed' : d.loc = TokStart
      OBVIOUS
    <3>1. PICK id \in {"unexpected symbol", "unterminated comment"} :
                 Diagnose(id, TokStart, CurPtr)
      BY <1>4
    <3> QED
      BY <1>added, <3>1
  <2>9. UnknownReported'
    BY <2>1, <2>8 DEF UnknownReported
  <2> QED
    BY <2>5, <2>6, <2>7, <2>9 DEF IInv
<1>5. CASE SkipToEndOfLine
  <2>1. CASE AtEnd
    <3>1. /\ CurPtr' = CurPtr /\ pc' = "loop" /\ NextToken' = NextToken
          /\ diagnosed' = diagnosed /\ TokEnd' = TokEnd
      BY <1>5, <2>1 DEF SkipToEndOfLine
    <3>2. NextToken' \in TokenType' /\ Ret' \in TokenType'
      BY <1>1, <1>tokens, <3>1
    <3>3. TypeOK'
      BY <1>1, <1>diagnoses, <3>1, <3>2 DEF TypeOK
    <3>4. Window'
      BY <1>1, <1>2, <3>1 DEF Window, InnerLoop
    <3>5. LexInv' /\ UnknownReported'
      BY <3>1 DEF LexInv, UnknownReported
    <3> QED
      BY <3>3, <3>4, <3>5 DEF IInv
  <2>2. CASE ~AtEnd
    <3>1. CurPtr' = CurPtr + 1 /\ CurPtr + 1 \in CurPtr + 1 .. Len(text)
      BY <1>1, <1>5, <2>2 DEF SkipToEndOfLine, AtEnd
    <3>2. /\ pc' \in {"line", "loop"} /\ pc = "line" /\ NextToken' = NextToken
          /\ diagnosed' = diagnosed /\ TokEnd' = TokEnd
      BY <1>5 DEF SkipToEndOfLine
    <3> QED
      BY <1>3, <3>1, <3>2
  <2> QED
    BY <2>1, <2>2
<1>6. CASE SkipMultilineComment
  <2>1. TokEnd' = TokEnd /\ pc = "block" /\ "unknown" \in TokenKind
    BY <1>6 DEF SkipMultilineComment, TokenKind
  <2>2. CASE AtEnd
    <3>1. /\ NextToken' = Token("unknown", TokStart, CurPtr) /\ CurPtr' = CurPtr
          /\ pc' = "loop" /\ Diagnose("unterminated comment", TokStart, CurPtr)
      BY <1>6, <2>2 DEF SkipMultilineComment
    <3> QED
      BY <1>4, <2>1, <3>1
  <2>3. CASE ~AtEnd
    <3>1. NextToken' = NextToken /\ diagnosed' = diagnosed /\ pc' \in {"block", "loop"}
      BY <1>6, <2>3 DEF SkipMultilineComment
    <3>2. CASE Char(CurPtr) = "*" /\ Char(CurPtr + 1) = "/"
      <4>1. CurPtr' = CurPtr + 2 /\ CurPtr + 2 <= Len(text)
        BY <1>1, <1>6, <2>3, <3>2, Inside DEF SkipMultilineComment
      <4> QED
        BY <1>1, <1>3, <2>1, <3>1, <4>1
    <3>3. CASE ~(Char(CurPtr) = "*" /\ Char(CurPtr + 1) = "/")
      <4>1. CurPtr' = CurPtr + 1 /\ CurPtr + 1 <= Len(text)
        BY <1>1, <1>6, <2>3, <3>3 DEF SkipMultilineComment, AtEnd
      <4> QED
        BY <1>1, <1>3, <2>1, <3>1, <4>1
    <3> QED
      BY <3>2, <3>3
  <2> QED
    BY <2>2, <2>3
<1>7. CASE LexIdentifier
  <2>1. CASE Consume(IdentifierCont)
    <3>1. CurPtr' = CurPtr + 1 /\ CurPtr + 1 <= Len(text)
      BY <1>1, <2>1, Inside, NulStops DEF Consume
    <3>2. /\ pc' = pc /\ pc = "identifier" /\ NextToken' = NextToken
          /\ diagnosed' = diagnosed /\ TokEnd' = TokEnd
      BY <1>7, <2>1 DEF LexIdentifier, Consume
    <3> QED
      BY <1>1, <1>3, <3>1, <3>2
  <2>2. CASE ~Consume(IdentifierCont)
    <3> DEFINE kind == KindOfIdentifier(SubSeq(text, TokStart + 1, CurPtr))
    <3>1. kind \in TokenKind /\ kind # "unknown"
      BY IdentifierKinds
    <3>2. /\ NextToken' = Token(kind, TokStart, CurPtr) /\ pc' = "idle"
          /\ CurPtr' = CurPtr /\ diagnosed' = diagnosed /\ TokEnd' = TokEnd
      BY <1>7, <2>2 DEF LexIdentifier
    <3> HIDE DEF kind
    <3> QED
      BY <1>4, <3>1, <3>2
  <2> QED
    BY <2>1, <2>2
<1>8. CASE LexWord
  <2>1. CASE Consume(IdentifierCont)
    <3>1. CurPtr' = CurPtr + 1 /\ CurPtr + 1 <= Len(text)
      BY <1>1, <2>1, Inside, NulStops DEF Consume
    <3>2. /\ pc' = pc /\ pc = "word" /\ NextToken' = NextToken
          /\ diagnosed' = diagnosed /\ TokEnd' = TokEnd
      BY <1>8, <2>1 DEF LexWord, Consume
    <3> QED
      BY <1>1, <1>3, <3>1, <3>2
  <2>2. CASE ~Consume(IdentifierCont)
    <3>1. /\ Char(CurPtr) \notin IdentifierCont /\ TokEnd' = CurPtr /\ pc' = "digits"
          /\ CurPtr' = IF base = "dec" THEN CurPtr ELSE TokStart + 2
          /\ NextToken' = NextToken /\ diagnosed' = diagnosed /\ pc = "word"
      BY <1>8, <2>2 DEF LexWord
    <3>2. base # "dec" => TokStart + 2 <= CurPtr
      <4> SUFFICES ASSUME base # "dec", CurPtr = TokStart + 1
                   PROVE  FALSE
        BY <1>1, <1>2
      <4> QED
        BY <3>1 DEF IInv, LexInv
    <3>3. CurPtr' \in 0 .. Len(text) /\ CurPtr' <= TokEnd' /\ TokStart < CurPtr'
      BY <1>1, <3>1, <3>2
    <3>4. NextToken' \in TokenType' /\ Ret' \in TokenType'
      BY <1>1, <1>tokens, <3>1
    <3>5. TypeOK'
      BY <1>1, <1>diagnoses, <3>1, <3>3, <3>4 DEF TypeOK, InnerLoop
    <3>6. Window'
      BY <1>1, <1>2, <3>1, <3>3 DEF Window, InnerLoop
    <3>7. LexInv'
      BY <1>1, <3>1 DEF LexInv, Char
    <3>8. UnknownReported'
      BY <3>1 DEF UnknownReported
    <3> QED
      BY <3>5, <3>6, <3>7, <3>8 DEF IInv
  <2> QED
    BY <2>1, <2>2
<1>9. CASE LexDigits
  <2>1. /\ CurPtr <= TokEnd /\ Char(TokEnd) \notin IdentifierCont /\ pc = "digits"
        /\ Digits[base] \subseteq IdentifierCont
    BY <1>1, <1>9, DigitsInWords DEF LexDigits, IInv, Window, LexInv
  <2>2. CASE Consume(Digits[base])
    <3>1. CurPtr' = CurPtr + 1 /\ CurPtr + 1 <= Len(text)
      BY <1>1, <2>1, <2>2, Inside, NulStops DEF Consume
    <3>2. CurPtr # TokEnd
      BY <2>1, <2>2 DEF Consume
    <3>3. CurPtr' <= TokEnd
      BY <1>1, <2>1, <3>1, <3>2
    <3>4. /\ pc' = pc /\ NextToken' = NextToken
          /\ diagnosed' = diagnosed /\ TokEnd' = TokEnd
      BY <2>2 DEF Consume
    <3> QED
      BY <1>1, <1>3, <3>1, <3>3, <3>4
  <2>3. CASE ~Consume(Digits[base])
    <3>1. CurPtr' = CurPtr /\ TokEnd' = TokEnd /\ pc' = "idle"
      BY <1>9, <2>3 DEF LexDigits
    <3>2. \/ /\ NextToken' = Token("number_literal", TokStart, CurPtr)
             /\ diagnosed' = diagnosed
          \/ /\ NextToken' = Token("unknown", TokStart, CurPtr)
             /\ Diagnose("unexpected symbol", TokStart, CurPtr)
      BY <1>9, <2>3 DEF LexDigits
    <3>3. "number_literal" \in TokenKind /\ "unknown" \in TokenKind
      BY DEF TokenKind
    <3> QED
      BY <1>4, <3>1, <3>2, <3>3
  <2> QED
    BY <2>2, <2>3
<1> QED
  BY <1>5, <1>6, <1>7, <1>8, <1>9

(* lex() hands the next token over and leaves the rest as it is. *)
LEMMA LexCallInv == IInv /\ LexCall => IInv'
<1> SUFFICES ASSUME IInv, LexCall
             PROVE  IInv'
  OBVIOUS
<1>1. /\ text' = text /\ CurPtr' = CurPtr /\ TokStart' = TokStart /\ TokEnd' = TokEnd
      /\ base' = base /\ NextToken' = NextToken /\ diagnosed' = diagnosed /\ pc = "idle"
      /\ Ret' = NextToken
  BY DEF LexCall
<1>2. pc' \in {"idle", "loop"} /\ (pc' = "idle" => NextToken.kind = "eof")
  BY <1>1 DEF LexCall
<1>3. NextToken' \in TokenType' /\ Ret' \in TokenType'
  BY <1>1 DEF IInv, TypeOK, TokenType
<1>4. TypeOK'
  BY <1>1, <1>2, <1>3 DEF IInv, TypeOK
<1>5. Window'
  <2>1. NextToken.from <= NextToken.to /\ NextToken.to = CurPtr
    BY <1>1 DEF IInv, Window
  <2>2. CurPtr \in Int
    <3>1. text \in Texts /\ CurPtr \in 0 .. Len(text)
      BY DEF IInv, TypeOK
    <3> QED
      BY <3>1, TextLength
  <2> QED
    <3>1. Ret'.from <= Ret'.to /\ NextToken'.from <= NextToken'.to /\ Ret'.to <= CurPtr'
      BY <1>1, <2>1, <2>2
    <3>2. NextToken'.to = CurPtr' /\ Ret' = NextToken'
      BY <1>1, <2>1
    <3>3. pc' \notin InnerLoop /\ pc' # "digits"
      BY <1>2 DEF InnerLoop
    <3> QED
      BY <3>1, <3>2, <3>3 DEF Window
<1>6. LexInv'
  BY <1>2 DEF LexInv
<1>7. UnknownReported'
  BY <1>1, <1>2 DEF IInv, UnknownReported, Char
<1> QED
  BY <1>4, <1>5, <1>6, <1>7 DEF IInv

THEOREM StepInv == IInv /\ [Next]_vars => IInv'
<1>1. IInv /\ UNCHANGED vars => IInv'
  BY DEF IInv, TypeOK, TokenType, Window, LexInv, UnknownReported, Char, vars
<1> QED
  BY <1>1, LexTokenInv, InnerLoopInv, LexCallInv DEF Next, Lexing

THEOREM Invariant == Spec => []IInv
  BY InitInv, StepInv, PTL DEF Spec

-----------------------------------------------------------------------------
(* The quoted line.  Behind the start of a line and before its end there   *)
(* is no line break, so what a line must not have in it is only to be      *)
(* known of the symbol.                                                    *)
LEMMA LeastOf ==
  ASSUME NEW A, A \subseteq Int, NEW low \in Int, \A q \in A : low <= q, A # {}
  PROVE  \E q \in A : \A r \in A : q <= r
<1> DEFINE B == {q - low : q \in A}
<1>1. B \subseteq Nat /\ B # {}
  <2>1. \A q \in A : q - low \in Nat
    OBVIOUS
  <2>2. B \subseteq Nat
    BY <2>1
  <2>3. PICK a \in A : TRUE
    OBVIOUS
  <2>4. a - low \in B
    OBVIOUS
  <2> QED
    BY <2>2, <2>4
<1>2. PICK m \in B : \A k \in B : ~(<<k, m>> \in OpToRel(<, Nat))
  <2> HIDE DEF B
  <2> QED
    BY <1>1, NatLessThanWellFounded, WFMin
<1>3. \A k \in B : ~(k < m)
  <2> HIDE DEF B
  <2> QED
    BY <1>1, <1>2 DEF OpToRel
<1>4. PICK q \in A : m = q - low
  BY <1>2
<1>5. ASSUME NEW r \in A
      PROVE  q <= r
  <2>1. r \in Int /\ q \in Int
    BY <1>4, <1>5
  <2>2. r - low \in B
    BY <1>5
  <2>3. ~(r - low < q - low)
    <3> HIDE DEF B
    <3> QED
      BY <1>3, <1>4, <2>2
  <2> QED
    BY <2>1, <2>3
<1> QED
  BY <1>4, <1>5

LEMMA GreatestOf ==
  ASSUME NEW A, A \subseteq Int, NEW high \in Int, \A q \in A : q <= high, A # {}
  PROVE  \E q \in A : \A r \in A : r <= q
<1> DEFINE B == {0 - q : q \in A}
<1>1. B \subseteq Int /\ B # {} /\ 0 - high \in Int /\ \A q \in B : 0 - high <= q
  <2>1. \A q \in A : 0 - q \in Int /\ 0 - high <= 0 - q
    OBVIOUS
  <2>2. B \subseteq Int /\ \A q \in B : 0 - high <= q
    BY <2>1
  <2>3. PICK a \in A : TRUE
    OBVIOUS
  <2>4. 0 - a \in B
    OBVIOUS
  <2> QED
    BY <2>2, <2>4
<1>2. \E q \in B : \A r \in B : q <= r
  <2> HIDE DEF B
  <2> QED
    BY <1>1, LeastOf
<1>3. PICK q \in A : \A r \in B : 0 - q <= r
  BY <1>2
<1>4. ASSUME NEW r \in A
      PROVE  r <= q
  <2>1. 0 - r \in B
    OBVIOUS
  <2> QED
    BY <1>3, <2>1
<1> QED
  BY <1>3, <1>4

LEMMA StartsItsLine ==
  ASSUME NEW loc \in Nat, Char(loc) \notin Newline
  PROVE  /\ StartOfLine(loc) \in 0 .. loc
         /\ \A q \in StartOfLine(loc) .. loc : q = 0 \/ Char(q) \notin Newline
         /\ StartOfLine(loc) = 0 \/ Char(StartOfLine(loc) - 1) \in Newline
<1> DEFINE breaks == {q \in 1 .. loc : Char(q) \in Newline}
<1>1. CASE breaks = {}
  <2>1. StartOfLine(loc) = 0
    BY <1>1 DEF StartOfLine
  <2> QED
    BY <1>1, <2>1
<1>2. CASE breaks # {}
  <2> DEFINE newest == CHOOSE q \in breaks : \A r \in breaks : r <= q
  <2>1. StartOfLine(loc) = 1 + newest
    BY <1>2 DEF StartOfLine
  <2>2. \E q \in breaks : \A r \in breaks : r <= q
    <3>1. breaks \subseteq Int /\ \A q \in breaks : q <= loc
      OBVIOUS
    <3>2. loc \in Int
      OBVIOUS
    <3> HIDE DEF breaks
    <3> QED
      BY <1>2, <3>1, <3>2, GreatestOf
  <2>3. newest \in breaks /\ \A r \in breaks : r <= newest
    <3> HIDE DEF breaks
    <3> QED
      BY <2>2
  <2> HIDE DEF newest
  <2>4. newest \in 1 .. loc /\ Char(newest) \in Newline /\ newest # loc
    BY <2>3
  <2>5. \A q \in 1 + newest .. loc : Char(q) \notin Newline
    BY <2>3, <2>4
  <2>6. 1 + newest \in 0 .. loc /\ (1 + newest) - 1 = newest
    BY <2>4
  <2> QED
    BY <2>1, <2>4, <2>5, <2>6
<1> QED
  BY <1>1, <1>2

LEMMA EndsItsLine ==
  ASSUME text \in Texts, NEW p \in Nat, p <= Len(text)
  PROVE  /\ EndOfLine(p) \in p .. Len(text)
         /\ EndOfLine(p) = p => p = Len(text)
         /\ \A q \in p .. EndOfLine(p) - 2 : Char(q) \notin Newline
         /\ EndOfLine(p) = Len(text) \/ Char(EndOfLine(p) - 1) \in Newline
<1> DEFINE breaks == {q \in p .. Len(text) - 1 : Char(q) \in Newline}
<1>0. Len(text) \in Nat
  BY TextLength
<1>1. CASE breaks = {}
  <2>1. EndOfLine(p) = Len(text)
    BY <1>1 DEF EndOfLine
  <2> QED
    BY <1>0, <1>1, <2>1
<1>2. CASE breaks # {}
  <2> DEFINE first == CHOOSE q \in breaks : \A r \in breaks : q <= r
  <2>1. EndOfLine(p) = 1 + first
    BY <1>2 DEF EndOfLine
  <2>2. \E q \in breaks : \A r \in breaks : q <= r
    <3>1. breaks \subseteq Int /\ \A q \in breaks : p <= q
      BY <1>0
    <3>2. p \in Int
      OBVIOUS
    <3> HIDE DEF breaks
    <3> QED
      BY <1>2, <3>1, <3>2, LeastOf
  <2>3. first \in breaks /\ \A r \in breaks : first <= r
    <3> HIDE DEF breaks
    <3> QED
      BY <2>2
  <2> HIDE DEF first
  <2>4. first \in p .. Len(text) - 1 /\ Char(first) \in Newline
    BY <2>3
  <2>5. \A q \in p .. first - 1 : Char(q) \notin Newline
    <3> SUFFICES ASSUME NEW q \in p .. first - 1, Char(q) \in Newline
                 PROVE  FALSE
      OBVIOUS
    <3>1. q \in breaks
      BY <1>0, <2>4
    <3> QED
      BY <2>3, <2>4, <3>1
  <2>6. 1 + first \in p .. Len(text) /\ 1 + first # p
        /\ (1 + first) - 1 = first /\ (1 + first) - 2 = first - 1
    BY <1>0, <2>4
  <2> QED
    BY <2>1, <2>4, <2>5, <2>6
<1> QED
  BY <1>1, <1>2

(* What QuotesItsLine says of one diagnosis *)
Quoted(d) ==
    LET from == d.line[1]
        to   == d.line[2]
    IN  d.id = "unexpected symbol" /\ ~(from = 0 /\ Char(0) \in Newline) =>
            /\ from <= d.loc /\ d.loc < to
            /\ \A q \in from .. to - 2 : Char(q) \notin Newline
            /\ from = 0 \/ Char(from - 1) \in Newline
            /\ to = Len(text) \/ Char(to - 1) \in Newline

LEMMA SymbolQuoted ==
  ASSUME text \in Texts, NEW loc \in Nat, NEW p \in Nat, loc < p, p <= Len(text),
         \A q \in loc .. p - 1 : Char(q) \notin Newline, NEW id
  PROVE  Quoted([id |-> id, loc |-> loc, line |-> <<StartOfLine(loc), EndOfLine(p)>>])
<1> DEFINE from == StartOfLine(loc)
           to   == EndOfLine(p)
           d    == [id |-> id, loc |-> loc, line |-> <<from, to>>]
<1>1. d.loc = loc /\ d.line[1] = from /\ d.line[2] = to
  OBVIOUS
<1>2. /\ from \in 0 .. loc
      /\ \A q \in from .. loc : q = 0 \/ Char(q) \notin Newline
      /\ from = 0 \/ Char(from - 1) \in Newline
  BY StartsItsLine
<1>3. /\ to \in p .. Len(text)
      /\ \A q \in p .. to - 2 : Char(q) \notin Newline
      /\ to = Len(text) \/ Char(to - 1) \in Newline
  BY EndsItsLine
<1> HIDE DEF from, to, d
<1>4. Len(text) \in Nat
  BY TextLength
<1>5. from <= loc /\ loc < to /\ from \in Nat /\ to \in Nat
  BY <1>2, <1>3, <1>4
<1>6. ~(from = 0 /\ Char(0) \in Newline) => \A q \in from .. to - 2 : Char(q) \notin Newline
  <2> SUFFICES ASSUME ~(from = 0 /\ Char(0) \in Newline), NEW q \in from .. to - 2
               PROVE  Char(q) \notin Newline
    OBVIOUS
  <2>1. CASE q <= loc
    <3>1. q \in from .. loc
      BY <1>5, <2>1
    <3>2. q = 0 => from = 0
      BY <1>5
    <3> QED
      BY <1>2, <3>1, <3>2
  <2>2. CASE loc < q /\ q < p
    BY <1>5, <2>2
  <2>3. CASE p <= q
    BY <1>3, <1>5, <2>3
  <2> QED
    BY <1>5, <2>1, <2>2, <2>3
<1>7. Quoted(d)
  BY <1>1, <1>2, <1>3, <1>5, <1>6 DEF Quoted
<1> QED
  BY <1>7 DEF d, from, to

(* What has been read of a word, or of a number, are characters of a word; *)
(* the word is all there when its digits are read.                         *)
WordRead ==
    /\ pc = "word" => \A q \in TokStart .. CurPtr - 1 : Char(q) \in IdentifierCont
    /\ pc = "digits" => \A q \in TokStart .. TokEnd - 1 : Char(q) \in IdentifierCont

QuoteInv == WordRead /\ \A d \in diagnosed : Quoted(d)

LEMMA SymbolDiagnosed ==
  ASSUME QuoteInv, text \in Texts, text' = text,
         NEW loc \in Nat, NEW p \in Nat, loc < p, p <= Len(text),
         \A q \in loc .. p - 1 : Char(q) \notin Newline, NEW id, Diagnose(id, loc, p)
  PROVE  (\A d \in diagnosed : Quoted(d))'
<1> DEFINE new == [id |-> id, loc |-> loc, line |-> <<StartOfLine(loc), EndOfLine(p)>>]
<1>1. diagnosed' = diagnosed \union {new}
  BY DEF Diagnose
<1>2. Quoted(new)
  BY SymbolQuoted
<1> HIDE DEF new
<1>3. \A d \in diagnosed' : Quoted(d)
  BY <1>1, <1>2 DEF QuoteInv
<1> QED
  BY <1>3 DEF Quoted, Char

LEMMA QuoteKept ==
  ASSUME QuoteInv, text' = text, diagnosed' = diagnosed
  PROVE  (\A d \in diagnosed : Quoted(d))'
  BY DEF QuoteInv, Quoted, Char

LEMMA WordsHaveNoBreak == IdentifierCont \cap Newline = {} /\ "." \notin Newline
  BY DEF IdentifierCont, IdentifierStart, HexLetter, Digit, Newline

LEMMA LexTokenQuotes == IInv /\ QuoteInv /\ LexToken => QuoteInv'
<1> SUFFICES ASSUME IInv, QuoteInv, LexToken
             PROVE  QuoteInv'
  OBVIOUS
<1>1. /\ text \in Texts /\ text' = text /\ TokStart' = CurPtr /\ pc = "loop"
      /\ Len(text) \in Nat /\ CurPtr \in Nat
  <2>1. text \in Texts /\ CurPtr \in 0 .. Len(text)
    BY DEF IInv, TypeOK
  <2> QED
    BY <2>1, TextLength DEF LexToken
<1>2. WordRead'
  <2>1. CASE TakeNumber
    <3>1. CurPtr' = CurPtr + 1 /\ Char(CurPtr) \in IdentifierCont /\ pc' # "digits"
      BY <2>1 DEF TakeNumber, IdentifierCont
    <3>2. \A q \in TokStart' .. CurPtr' - 1 : Char(q) \in IdentifierCont
      BY <1>1, <3>1
    <3> QED
      BY <1>1, <3>1, <3>2 DEF WordRead, Char
  <2>2. CASE ~TakeNumber
    <3>1. pc' # "word" /\ pc' # "digits"
      BY <1>1, <2>2 DEF LexToken, TakeBlank, TakeEnd, TakeElipsis, TakePair, TakeSingle, TakeOther,
                 TakeLineComment, TakeBlockComment, TakeIdentifier, Return
    <3> QED
      BY <3>1 DEF WordRead
  <2> QED
    BY <2>1, <2>2
<1>3. (\A d \in diagnosed : Quoted(d))'
  <2>1. CASE TakeOther
    <3>1. Diagnose("unexpected symbol", CurPtr, CurPtr + 1) /\ Char(CurPtr) # "nul"
      BY <2>1 DEF TakeOther, FormUnknown
    <3>2. Char(CurPtr) \notin Newline
      BY <2>1, WordsHaveNoBreak DEF TakeOther, Blank
    <3>3. CurPtr + 1 <= Len(text)
      BY <1>1, <3>1, Inside
    <3>4. PICK p \in Nat : p = CurPtr + 1
      BY <1>1
    <3>5. CurPtr < p /\ p <= Len(text) /\ \A q \in CurPtr .. p - 1 : Char(q) \notin Newline
      BY <1>1, <3>2, <3>3, <3>4
    <3>6. Diagnose("unexpected symbol", CurPtr, p)
      BY <3>1, <3>4
    <3> QED
      BY <1>1, <3>5, <3>6, SymbolDiagnosed
  <2>2. CASE ~TakeOther
    <3>1. diagnosed' = diagnosed
      BY <2>2 DEF LexToken, TakeBlank, TakeEnd, TakeElipsis, TakePair, TakeSingle,
                 TakeLineComment, TakeBlockComment, TakeIdentifier, TakeNumber
    <3> QED
      BY <1>1, <3>1, QuoteKept
  <2> QED
    BY <2>1, <2>2
<1> QED
  BY <1>2, <1>3 DEF QuoteInv

LEMMA NumberQuotes == IInv /\ QuoteInv /\ (LexWord \/ LexDigits) => QuoteInv'
<1> SUFFICES ASSUME IInv, QuoteInv, LexWord \/ LexDigits
             PROVE  QuoteInv'
  OBVIOUS
<1>1. /\ text \in Texts /\ text' = text /\ TokStart' = TokStart /\ pc \in InnerLoop
      /\ Len(text) \in Nat /\ CurPtr \in Nat /\ TokStart \in Nat /\ TokEnd \in Nat
      /\ CurPtr <= Len(text) /\ base \in Base
  <2>1. /\ text \in Texts /\ CurPtr \in 0 .. Len(text) /\ TokStart \in 0 .. Len(text)
        /\ TokEnd \in 0 .. Len(text) /\ base \in Base
    BY DEF IInv, TypeOK
  <2>2. Len(text) \in Nat
    BY <2>1, TextLength
  <2>3. text' = text /\ TokStart' = TokStart /\ pc \in InnerLoop
    BY DEF LexWord, LexDigits, InnerLoop
  <2> QED
    BY <2>1, <2>2, <2>3
<1>2. CASE LexWord
  <2>1. pc = "word" /\ \A q \in TokStart .. CurPtr - 1 : Char(q) \in IdentifierCont
    BY <1>2 DEF LexWord, QuoteInv, WordRead
  <2>2. diagnosed' = diagnosed
    BY <1>2 DEF LexWord, Consume
  <2>3. WordRead'
    <3>1. CASE Consume(IdentifierCont)
      <4>1. CurPtr' = CurPtr + 1 /\ pc' = "word" /\ Char(CurPtr) \in IdentifierCont
        BY <2>1, <3>1 DEF Consume
      <4>2. \A q \in TokStart' .. CurPtr' - 1 : Char(q) \in IdentifierCont
        BY <1>1, <2>1, <4>1
      <4> QED
        BY <1>1, <4>1, <4>2 DEF WordRead, Char
    <3>2. CASE ~Consume(IdentifierCont)
      <4>1. TokEnd' = CurPtr /\ pc' = "digits"
        BY <1>2, <3>2 DEF LexWord
      <4> QED
        BY <1>1, <2>1, <4>1 DEF WordRead, Char
    <3> QED
      BY <3>1, <3>2
  <2> QED
    BY <1>1, <2>2, <2>3, QuoteKept DEF QuoteInv
<1>3. CASE LexDigits
  <2>1. pc = "digits" /\ TokEnd' = TokEnd /\ pc' # "word"
    BY <1>3 DEF LexDigits, Consume
  <2>2. \A q \in TokStart .. TokEnd - 1 : Char(q) \in IdentifierCont
    BY <2>1 DEF QuoteInv, WordRead
  <2>3. TokStart < CurPtr /\ CurPtr <= TokEnd
    BY <1>1, <2>1 DEF IInv, Window
  <2>4. WordRead'
    BY <1>1, <2>1, <2>2 DEF WordRead, Char
  <2>5. (\A d \in diagnosed : Quoted(d))'
    <3>1. CASE diagnosed' = diagnosed
      BY <1>1, <3>1, QuoteKept
    <3>2. CASE Diagnose("unexpected symbol", TokStart, CurPtr)
      <4>1. \A q \in TokStart .. CurPtr - 1 : Char(q) \notin Newline
        BY <1>1, <2>2, <2>3, WordsHaveNoBreak
      <4> QED
        BY <1>1, <2>3, <3>2, <4>1, SymbolDiagnosed
    <3> QED
      BY <1>3, <3>1, <3>2 DEF LexDigits, Consume
  <2> QED
    BY <2>4, <2>5 DEF QuoteInv
<1> QED
  BY <1>2, <1>3

LEMMA CommentQuotes ==
  IInv /\ QuoteInv /\ (SkipToEndOfLine \/ SkipMultilineComment \/ LexIdentifier) => QuoteInv'
<1> SUFFICES ASSUME IInv, QuoteInv, SkipToEndOfLine \/ SkipMultilineComment \/ LexIdentifier
             PROVE  QuoteInv'
  OBVIOUS
<1>1. text' = text /\ pc' # "word" /\ pc' # "digits"
  BY DEF SkipToEndOfLine, SkipMultilineComment, LexIdentifier, Consume
<1>2. WordRead'
  BY <1>1 DEF WordRead
<1>3. CASE diagnosed' = diagnosed
  BY <1>1, <1>2, <1>3, QuoteKept DEF QuoteInv
<1>4. CASE Diagnose("unterminated comment", TokStart, CurPtr)
  <2> DEFINE new == [id |-> "unterminated comment", loc |-> TokStart,
                     line |-> <<StartOfLine(TokStart), EndOfLine(CurPtr)>>]
  <2>1. diagnosed' = diagnosed \union {new} /\ new.id = "unterminated comment"
    BY <1>4 DEF Diagnose
  <2> HIDE DEF new
  <2>2. Quoted(new)
    BY <2>1 DEF Quoted
  <2>3. \A d \in diagnosed' : Quoted(d)
    BY <2>1, <2>2 DEF QuoteInv
  <2>4. (\A d \in diagnosed : Quoted(d))'
    BY <1>1, <2>3 DEF Quoted, Char
  <2> QED
    BY <1>2, <2>4 DEF QuoteInv
<1> QED
  BY <1>3, <1>4 DEF SkipToEndOfLine, SkipMultilineComment, LexIdentifier, Consume

LEMMA QuoteStep == IInv /\ QuoteInv /\ [Next]_vars => QuoteInv'
<1> SUFFICES ASSUME IInv, QuoteInv, [Next]_vars
             PROVE  QuoteInv'
  OBVIOUS
<1>1. CASE LexCall
  <2>1. /\ text' = text /\ diagnosed' = diagnosed
        /\ pc' # "word" /\ pc' # "digits"
    BY <1>1 DEF LexCall
  <2>2. WordRead'
    BY <2>1 DEF WordRead
  <2> QED
    BY <2>1, <2>2, QuoteKept DEF QuoteInv
<1>2. CASE UNCHANGED vars
  <2>1. text' = text /\ diagnosed' = diagnosed
    BY <1>2 DEF vars
  <2>2. WordRead'
    BY <1>2 DEF vars, QuoteInv, WordRead, Char
  <2> QED
    BY <2>1, <2>2, QuoteKept DEF QuoteInv
<1> QED
  BY <1>1, <1>2, LexTokenQuotes, NumberQuotes, CommentQuotes DEF Next, Lexing

(* The lexer's pointer stays in the buffer, and every token has a kind and *)
(* lies in the text (Lexer.cpp:122-280).                                   *)
THEOREM TypeCorrect == Spec => []TypeOK
  BY Invariant, PTL DEF IInv

(* Tokens follow each other in the text and do not overlap, and a number   *)
(* is not read beyond its word.                                            *)
THEOREM TokensInOrder == Spec => []Window
  BY Invariant, PTL DEF IInv

(* Every unknown token but a lone bar has been diagnosed when the parser   *)
(* sees it.                                                                *)
THEOREM NoSilentToken == Spec => []UnknownReported
  BY Invariant, PTL DEF IInv

(* The line quoted for an unexpected symbol is the one that it is in,      *)
(* unless the file begins with an empty line and it is the next            *)
(* (Lexer.h:110, 115, 117).                                                *)
THEOREM QuotesTheLine == Spec => []QuotesItsLine
<1>1. Init => QuoteInv
  BY DEF Init, QuoteInv, WordRead
<1>2. QuoteInv => QuotesItsLine
  BY DEF QuoteInv, Quoted, QuotesItsLine
<1> QED
  BY Invariant, <1>1, <1>2, QuoteStep, PTL DEF Spec

-----------------------------------------------------------------------------
(* The tokens of Scan, in terms of the characters at positions             *)

LEMMA SameClasses ==
  /\ S!Newline = Newline /\ S!Blank = Blank /\ S!Digit = Digit
  /\ S!IdentifierStart = IdentifierStart /\ S!IdentifierCont = IdentifierCont
  /\ S!Digits = Digits /\ S!Mark = Mark /\ S!Base = Base
<1>1. /\ S!Newline = Newline /\ S!Digit = Digit /\ S!HexLetter = HexLetter /\ S!Mark = Mark
  BY DEF S!Newline, Newline, S!Digit, Digit, S!HexLetter, HexLetter, S!Mark, Mark
<1>2. S!Blank = Blank /\ S!IdentifierStart = IdentifierStart /\ S!Digits = Digits
  BY <1>1 DEF S!Blank, Blank, S!IdentifierStart, IdentifierStart, S!Digits, Digits
<1>3. S!IdentifierCont = IdentifierCont /\ S!Base = Base
  BY <1>1, <1>2 DEF S!IdentifierCont, IdentifierCont, S!Base, Base
<1> QED
  BY <1>1, <1>2, <1>3

LEMMA SameSpellings == S!Single = Single /\ S!Pair = Pair /\ S!Keyword = Keyword
<1>1. S!Single = Single
  BY DEF S!Single, Single
<1>2. S!Pair = Pair
  BY DEF S!Pair, Pair
<1>3. S!Keyword = Keyword
  BY DEF S!Keyword, Keyword
<1> QED
  BY <1>1, <1>2, <1>3

LEMMA SingleFirst ==
  \A e \in Single : /\ e[1] \notin IdentifierCont /\ e[1] \notin Blank
                    /\ e[1] # "." /\ e[1] # "|" /\ e[1] # "nul"
<1>1. \A e \in Single :
         e[1] \in {"=", "comma", ":", "semicolon", "&", "(", ")", "[", "]", "lbrace", "rbrace",
                  "+", "-", "%", "/", "*", "!", "<", ">"}
  BY DEF Single
<1>2. \A e \in Single : e[1] \notin IdentifierStart
  <2>1. {"=", "comma", ":", "semicolon", "&", "(", ")"} \cap IdentifierStart = {}
    BY DEF IdentifierStart, HexLetter
  <2>2. {"[", "]", "lbrace", "rbrace", "+", "-"} \cap IdentifierStart = {}
    BY DEF IdentifierStart, HexLetter
  <2>3. {"%", "/", "*", "!", "<", ">"} \cap IdentifierStart = {}
    BY DEF IdentifierStart, HexLetter
  <2> QED
    BY <1>1, <2>1, <2>2, <2>3
<1>3. \A e \in Single : e[1] \notin Digit
  BY <1>1 DEF Digit
<1>4. \A e \in Single : e[1] \notin Blank /\ e[1] # "." /\ e[1] # "|" /\ e[1] # "nul"
  BY <1>1 DEF Blank, Newline
<1> QED
  BY <1>2, <1>3, <1>4 DEF IdentifierCont

LEMMA PairFirst ==
  \A e \in Pair : /\ e[1] = "|" \/ e[1] \in {s[1] : s \in Single}
                  /\ e[1] # "." /\ e[1] # "/"
<1>1. \A e \in Pair : e[1] \in {"-", "&", "|", "=", "!", "<", ">"}
  BY DEF Pair
<1>2. \A c \in {"-", "&", "=", "!", "<", ">"} : \E s \in Single : s[1] = c
  BY DEF Single
<1> QED
  BY <1>1, <1>2

LEMMA OneOfPair == \A e, f \in Pair : e[1] = f[1] /\ e[2] = f[2] => e[3] = f[3]
  BY DEF Pair

LEMMA OneOfSingle == \A e, f \in Single : e[1] = f[1] => e[2] = f[2]
  BY DEF Single

LEMMA TupleShapes ==
  /\ \A e \in Single : e = <<e[1], e[2]>>
  /\ \A e \in Pair : e = <<e[1], e[2], e[3]>>
  /\ \A e \in Keyword : e = <<e[1], e[2]>>
<1>1. \A e \in Single : e = <<e[1], e[2]>>
  BY DEF Single
<1>2. \A e \in Pair : e = <<e[1], e[2], e[3]>>
  BY DEF Pair
<1>3. \A e \in Keyword : e = <<e[1], e[2]>>
  BY DEF Keyword
<1> QED
  BY <1>1, <1>2, <1>3

(* Keywords are words, and are spelled differently. *)
LEMMA KeywordLetters ==
  \A e \in Keyword : /\ Len(e[1]) \in Nat \ {0}
                     /\ \A k \in 1 .. Len(e[1]) : e[1][k] \in IdentifierStart
<1> DEFINE Letters == {"a", "b", "c", "e", "f", "h", "i", "k", "l", "n", "o", "r", "s", "t", "u",
                       "v", "w", "x"}
<1>1. Letters \subseteq IdentifierStart
  BY DEF IdentifierStart, HexLetter
<1> DEFINE Words == {<<"v", "a", "r">>, <<"l", "e", "t">>, <<"b", "r", "e", "a", "k">>,
                     <<"r", "e", "t", "u", "r", "n">>, <<"i", "f">>, <<"e", "l", "s", "e">>,
                     <<"w", "h", "i", "l", "e">>, <<"f", "o", "r">>, <<"i", "n">>,
                     <<"f", "u", "n", "c">>, <<"i", "n", "o", "u", "t">>, <<"e", "x", "t", "e", "r", "n">>}
<1>2. \A e \in Keyword : e[1] \in Words
  BY DEF Keyword
<1>3. \A w \in Words : w \in Seq(Letters) /\ w # <<>>
  <2>1. <<"v", "a", "r">> \in Seq(Letters)
    OBVIOUS
  <2>2. <<"l", "e", "t">> \in Seq(Letters)
    OBVIOUS
  <2>3. <<"b", "r", "e", "a", "k">> \in Seq(Letters)
    OBVIOUS
  <2>4. <<"r", "e", "t", "u", "r", "n">> \in Seq(Letters)
    OBVIOUS
  <2>5. <<"i", "f">> \in Seq(Letters)
    OBVIOUS
  <2>6. <<"e", "l", "s", "e">> \in Seq(Letters)
    OBVIOUS
  <2>7. <<"w", "h", "i", "l", "e">> \in Seq(Letters)
    OBVIOUS
  <2>8. <<"f", "o", "r">> \in Seq(Letters)
    OBVIOUS
  <2>9. <<"i", "n">> \in Seq(Letters)
    OBVIOUS
  <2>10. <<"f", "u", "n", "c">> \in Seq(Letters)
    OBVIOUS
  <2>11. <<"i", "n", "o", "u", "t">> \in Seq(Letters)
    OBVIOUS
  <2>12. <<"e", "x", "t", "e", "r", "n">> \in Seq(Letters)
    OBVIOUS
  <2>13. \A w \in Words : w # <<>>
    OBVIOUS
  <2> HIDE DEF Letters
  <2> QED
    BY <2>1, <2>2, <2>3, <2>4, <2>5, <2>6, <2>7, <2>8, <2>9, <2>10, <2>11, <2>12, <2>13
<1> HIDE DEF Letters, Words
<1>4. \A e \in Keyword : /\ Len(e[1]) \in Nat /\ Len(e[1]) # 0
                         /\ \A k \in 1 .. Len(e[1]) : e[1][k] \in Letters
  BY <1>2, <1>3, EmptySeq
<1> QED
  BY <1>1, <1>4

LEMMA OneOfKeyword == \A e, f \in Keyword : e[1] = f[1] => e = f
  BY DEF Keyword

-----------------------------------------------------------------------------
(* Spellings at positions *)

Spelled(w, k) ==
    \/ \E e \in Single : w = <<e[1]>> /\ k = e[2]
    \/ \E e \in Pair : w = <<e[1], e[2]>> /\ k = e[3]
    \/ w = <<".", ".">> /\ k = "elipsis_excl"
    \/ w = <<".", ".", ".">> /\ k = "elipsis_incl"
    \/ \E e \in Keyword : w = e[1] /\ k = e[2]

LEMMA SpelledIs ==
  ASSUME NEW w, NEW k
  PROVE  (\E s \in S!Spellings : s[1] = w /\ s[2] = k) <=> Spelled(w, k)
<1> DEFINE A == {<<<<e[1]>>, e[2]>> : e \in Single}
           B == {<<<<e[1], e[2]>>, e[3]>> : e \in Pair}
           C == {<<<<".", ".">>, "elipsis_excl">>, <<<<".", ".", ".">>, "elipsis_incl">>}
<1>1. S!Spellings = A \union B \union C \union Keyword
  BY SameSpellings DEF S!Spellings
<1>2. (\E s \in A : s[1] = w /\ s[2] = k) <=> \E e \in Single : w = <<e[1]>> /\ k = e[2]
  <2>1. ASSUME NEW e \in Single, w = <<e[1]>> /\ k = e[2]
        PROVE  \E s \in A : s[1] = w /\ s[2] = k
    <3>1. <<<<e[1]>>, e[2]>> \in A
      OBVIOUS
    <3> HIDE DEF A
    <3> QED
      BY <2>1, <3>1
  <2> QED
    BY <2>1
<1>3. (\E s \in B : s[1] = w /\ s[2] = k) <=> \E e \in Pair : w = <<e[1], e[2]>> /\ k = e[3]
  <2>1. ASSUME NEW e \in Pair, w = <<e[1], e[2]>> /\ k = e[3]
        PROVE  \E s \in B : s[1] = w /\ s[2] = k
    <3>1. <<<<e[1], e[2]>>, e[3]>> \in B
      OBVIOUS
    <3> HIDE DEF B
    <3> QED
      BY <2>1, <3>1
  <2> QED
    BY <2>1
<1>4. (\E s \in C : s[1] = w /\ s[2] = k)
      <=> \/ w = <<".", ".">> /\ k = "elipsis_excl"
          \/ w = <<".", ".", ".">> /\ k = "elipsis_incl"
  OBVIOUS
<1> HIDE DEF A, B, C
<1> QED
  BY <1>1, <1>2, <1>3, <1>4 DEF Spelled

LEMMA KindsAre ==
  ASSUME NEW w, NEW k
  PROVE  k \in S!KindsOf(w) <=> \/ Spelled(w, k)
                                \/ k = "identifier" /\ S!IsWord(w) /\ ~\E l : Spelled(w, l)
                                \/ k = "number_literal" /\ S!IsNumber(w)
<1> DEFINE fixed == {e[2] : e \in {s \in S!Spellings : s[1] = w}}
<1>1. \A l : l \in fixed <=> Spelled(w, l)
  <2> TAKE l
  <2>1. l \in fixed <=> \E s \in S!Spellings : s[1] = w /\ s[2] = l
    OBVIOUS
  <2> HIDE DEF fixed
  <2> QED
    BY <2>1, SpelledIs
<1>2. S!KindsOf(w) = fixed \union {l \in {"identifier"} : S!IsWord(w) /\ fixed = {}}
                           \union {l \in {"number_literal"} : S!IsNumber(w)}
  BY DEF S!KindsOf
<1> HIDE DEF fixed
<1>3. fixed = {} <=> ~\E l : Spelled(w, l)
  BY <1>1
<1> QED
  BY <1>1, <1>2, <1>3

(* The characters from i to j *)
Part(i, j) == SubSeq(text, i + 1, j)

MarkAt(i, b) == Char(i) = "0" /\ Char(i + 1) \in Mark[b]

AreAll(i, j, chars) == \A q \in i .. j - 1 : Char(q) \in chars

(* From i to j there is a lexeme of kind k. *)
Lexed(i, j, k) ==
    \/ j = i + 1 /\ \E e \in Single : Char(i) = e[1] /\ k = e[2]
    \/ j = i + 2 /\ \E e \in Pair : Char(i) = e[1] /\ Char(i + 1) = e[2] /\ k = e[3]
    \/ j = i + 2 /\ Char(i) = "." /\ Char(i + 1) = "." /\ k = "elipsis_excl"
    \/ /\ j = i + 3 /\ Char(i) = "." /\ Char(i + 1) = "." /\ Char(i + 2) = "."
       /\ k = "elipsis_incl"
    \/ /\ Char(i) \in IdentifierStart /\ AreAll(i + 1, j, IdentifierCont)
       /\ k = KindOfIdentifier(Part(i, j))
    \/ /\ \E b \in Base : i + 2 <= j /\ MarkAt(i, b) /\ AreAll(i + 2, j, Digits[b])
       /\ k = "number_literal"
    \/ /\ Char(i) \in Digit /\ AreAll(i + 1, j, IdentifierCont)
       /\ ~\E b \in Base : i + 2 <= j /\ MarkAt(i, b)
       /\ k = "number_literal"

LEMMA PartIs ==
  ASSUME text \in Texts, NEW i \in Nat, NEW j \in Nat, i < j, j <= Len(text)
  PROVE  /\ Part(i, j) \in Seq(STRING) /\ Len(Part(i, j)) = j - i
         /\ \A n \in 1 .. j - i : Part(i, j)[n] = Char(i + n - 1)
<1>1. text \in Seq(STRING) /\ Len(text) \in Nat
  BY TextsAssumption
<1>2. \A n \in i + 1 .. j : text[n] \in STRING
  BY <1>1
<1>3. /\ SubSeq(text, i + 1, j) \in Seq(STRING)
      /\ Len(SubSeq(text, i + 1, j)) = IF i + 1 <= j THEN j - (i + 1) + 1 ELSE 0
      /\ \A n \in 1 .. j - (i + 1) + 1 : SubSeq(text, i + 1, j)[n] = text[i + 1 + n - 1]
  <2>1. i + 1 \in Int /\ j \in Int
    OBVIOUS
  <2> QED
    BY <1>2, <2>1, SubSeqProperties
<1>4. \A n \in 1 .. j - i : text[i + 1 + n - 1] = Char(i + n - 1)
  <2> SUFFICES ASSUME NEW n \in 1 .. j - i
               PROVE  text[i + 1 + n - 1] = Char(i + n - 1)
    OBVIOUS
  <2>1. i + n - 1 < Len(text) /\ i + 1 + n - 1 = (i + n - 1) + 1
    BY <1>1
  <2> QED
    BY <2>1 DEF Char
<1>5. j - (i + 1) + 1 = j - i /\ i + 1 <= j
  OBVIOUS
<1> QED
  BY <1>3, <1>4, <1>5 DEF Part

LEMMA SpelledAt ==
  ASSUME text \in Texts, NEW i \in Nat, NEW j \in Nat, i < j, j <= Len(text)
  PROVE  /\ \A c : Part(i, j) = <<c>> <=> j = i + 1 /\ Char(i) = c
         /\ \A c, d : Part(i, j) = <<c, d>>
                      <=> j = i + 2 /\ Char(i) = c /\ Char(i + 1) = d
         /\ \A c, d, e : Part(i, j) = <<c, d, e>>
                      <=> j = i + 3 /\ Char(i) = c /\ Char(i + 1) = d /\ Char(i + 2) = e
<1>1. /\ Part(i, j) \in Seq(STRING) /\ Len(Part(i, j)) = j - i
      /\ \A n \in 1 .. j - i : Part(i, j)[n] = Char(i + n - 1)
  BY PartIs
<1>2. PICK w \in Seq(STRING) : w = Part(i, j)
  BY <1>1
<1>3. Len(w) = j - i /\ \A n \in 1 .. j - i : w[n] = Char(i + n - 1)
  BY <1>1, <1>2
<1>4. /\ w[1] = Char(i)
      /\ i + 2 <= j => w[2] = Char(i + 1)
      /\ i + 3 <= j => w[3] = Char(i + 2)
  BY <1>3
<1>5. \A c : w = <<c>> <=> j = i + 1 /\ Char(i) = c
  <2> TAKE c
  <2>1. w = <<c>> => Len(w) = 1 /\ w[1] = c
    OBVIOUS
  <2>2. ASSUME Len(w) = 1, w[1] = c
        PROVE  w = <<c>>
    BY <2>2
  <2> QED
    BY <1>3, <1>4, <2>1, <2>2
<1>6. \A c, d : w = <<c, d>> <=> j = i + 2 /\ Char(i) = c /\ Char(i + 1) = d
  <2> TAKE c, d
  <2>1. w = <<c, d>> => Len(w) = 2 /\ w[1] = c /\ w[2] = d
    OBVIOUS
  <2>2. ASSUME Len(w) = 2, w[1] = c, w[2] = d
        PROVE  w = <<c, d>>
    BY <2>2
  <2> QED
    BY <1>3, <1>4, <2>1, <2>2
<1>7. \A c, d, e : w = <<c, d, e>>
         <=> j = i + 3 /\ Char(i) = c /\ Char(i + 1) = d /\ Char(i + 2) = e
  <2> TAKE c, d, e
  <2>1. w = <<c, d, e>> => Len(w) = 3 /\ w[1] = c /\ w[2] = d /\ w[3] = e
    OBVIOUS
  <2>2. ASSUME Len(w) = 3, w[1] = c, w[2] = d, w[3] = e
        PROVE  w = <<c, d, e>>
    BY <2>2
  <2> QED
    BY <1>3, <1>4, <2>1, <2>2
<1> QED
  BY <1>2, <1>5, <1>6, <1>7

LEMMA WordAt ==
  ASSUME text \in Texts, NEW i \in Nat, NEW j \in Nat, i < j, j <= Len(text)
  PROVE  S!IsWord(Part(i, j)) <=> /\ Char(i) \in IdentifierStart
                                  /\ AreAll(i + 1, j, IdentifierCont)
<1> DEFINE w == Part(i, j)
<1>1. Len(w) = j - i /\ \A n \in 1 .. j - i : w[n] = Char(i + n - 1)
  BY PartIs
<1> HIDE DEF w
<1>2. w[1] = Char(i)
  <2>1. 1 \in 1 .. j - i /\ i + 1 - 1 = i
    OBVIOUS
  <2> QED
    BY <1>1, <2>1
<1>3. (\A k \in 2 .. Len(w) : w[k] \in IdentifierCont) <=> AreAll(i + 1, j, IdentifierCont)
  <2>1. ASSUME \A k \in 2 .. Len(w) : w[k] \in IdentifierCont, NEW q \in i + 1 .. j - 1
        PROVE  Char(q) \in IdentifierCont
    <3>1. q - i + 1 \in 2 .. Len(w) /\ q - i + 1 \in 1 .. j - i /\ i + (q - i + 1) - 1 = q
      BY <1>1
    <3> QED
      BY <1>1, <2>1, <3>1
  <2>2. ASSUME AreAll(i + 1, j, IdentifierCont), NEW k \in 2 .. Len(w)
        PROVE  w[k] \in IdentifierCont
    <3>1. i + k - 1 \in i + 1 .. j - 1 /\ k \in 1 .. j - i
      BY <1>1
    <3> QED
      BY <1>1, <2>2, <3>1 DEF AreAll
  <2> QED
    BY <2>1, <2>2 DEF AreAll
<1>4. S!IsWord(w) <=> w[1] \in IdentifierStart /\ \A k \in 2 .. Len(w) : w[k] \in IdentifierCont
  BY SameClasses DEF S!IsWord, S!AllIn
<1> QED
  BY <1>2, <1>3, <1>4 DEF w

NumberAt(i, j) ==
    \/ \E b \in Base : i + 2 <= j /\ MarkAt(i, b) /\ AreAll(i + 2, j, Digits[b])
    \/ /\ Char(i) \in Digit /\ AreAll(i + 1, j, IdentifierCont)
       /\ ~\E b \in Base : i + 2 <= j /\ MarkAt(i, b)

LEMMA NumbersAt ==
  ASSUME text \in Texts, NEW i \in Nat, NEW j \in Nat, i < j, j <= Len(text)
  PROVE  S!IsNumber(Part(i, j)) <=> NumberAt(i, j)
<1> DEFINE w == Part(i, j)
<1>1. Len(w) = j - i /\ \A n \in 1 .. j - i : w[n] = Char(i + n - 1)
  BY PartIs
<1> HIDE DEF w
<1>2. w[1] = Char(i)
  <2>1. 1 \in 1 .. j - i /\ i + 1 - 1 = i
    OBVIOUS
  <2> QED
    BY <1>1, <2>1
<1>3. i + 2 <= j => w[2] = Char(i + 1)
  <2>1. i + 2 <= j => 2 \in 1 .. j - i /\ i + 2 - 1 = i + 1
    OBVIOUS
  <2> QED
    BY <1>1, <2>1
<1>4. ASSUME NEW m \in {2, 3}, NEW chars
      PROVE  S!AllIn(w, m, chars) <=> AreAll(i + m - 1, j, chars)
  <2>1. ASSUME \A k \in m .. Len(w) : w[k] \in chars, NEW q \in i + m - 1 .. j - 1
        PROVE  Char(q) \in chars
    <3>1. q - i + 1 \in m .. Len(w) /\ q - i + 1 \in 1 .. j - i /\ i + (q - i + 1) - 1 = q
      BY <1>1, <1>4
    <3> QED
      BY <1>1, <2>1, <3>1
  <2>2. ASSUME AreAll(i + m - 1, j, chars), NEW k \in m .. Len(w)
        PROVE  w[k] \in chars
    <3>1. i + k - 1 \in i + m - 1 .. j - 1 /\ k \in 1 .. j - i
      BY <1>1, <1>4
    <3> QED
      BY <1>1, <2>2, <3>1 DEF AreAll
  <2> QED
    BY <2>1, <2>2 DEF AreAll, S!AllIn
<1>5. \A chars : /\ S!AllIn(w, 2, chars) <=> AreAll(i + 1, j, chars)
                 /\ S!AllIn(w, 3, chars) <=> AreAll(i + 2, j, chars)
  <2> TAKE chars
  <2>1. S!AllIn(w, 2, chars) <=> AreAll(i + 2 - 1, j, chars)
    BY <1>4
  <2>2. S!AllIn(w, 3, chars) <=> AreAll(i + 3 - 1, j, chars)
    BY <1>4
  <2>3. i + 2 - 1 = i + 1 /\ i + 3 - 1 = i + 2
    OBVIOUS
  <2> QED
    BY <2>1, <2>2, <2>3
<1>6. \A b : S!HasMark(w, b) <=> i + 2 <= j /\ MarkAt(i, b)
  <2>1. Len(w) > 1 <=> i + 2 <= j
    BY <1>1
  <2> QED
    BY <1>2, <1>3, <2>1, SameClasses DEF S!HasMark, MarkAt
<1>7. S!IsNumber(w) <=>
         \/ \E b \in Base : S!HasMark(w, b) /\ S!AllIn(w, 3, Digits[b])
         \/ /\ w[1] \in Digit /\ S!AllIn(w, 2, IdentifierCont)
            /\ ~\E b \in Base : S!HasMark(w, b)
  BY SameClasses DEF S!IsNumber
<1>8. S!IsNumber(w) <=> NumberAt(i, j)
  BY <1>2, <1>5, <1>6, <1>7 DEF NumberAt
<1> QED
  BY <1>8 DEF w

(* A word that is spelled like something is spelled like a keyword. *)
LEMMA KeywordAt ==
  ASSUME text \in Texts, NEW i \in Nat, NEW j \in Nat, i < j, j <= Len(text),
         NEW e \in Keyword, Part(i, j) = e[1]
  PROVE  /\ Char(i) \in IdentifierStart /\ AreAll(i + 1, j, IdentifierCont)
         /\ KindOfIdentifier(Part(i, j)) = e[2]
<1> DEFINE w == Part(i, j)
<1>1. Len(w) = j - i /\ \A n \in 1 .. j - i : w[n] = Char(i + n - 1)
  BY PartIs
<1>2. w = e[1]
  OBVIOUS
<1> HIDE DEF w
<1>3. \A n \in 1 .. j - i : Char(i + n - 1) \in IdentifierStart
  BY <1>1, <1>2, KeywordLetters
<1>4. \A q \in i .. j - 1 : Char(q) \in IdentifierStart
  <2> TAKE q \in i .. j - 1
  <2>1. q - i + 1 \in 1 .. j - i /\ i + (q - i + 1) - 1 = q
    OBVIOUS
  <2> QED
    BY <1>3, <2>1
<1>5. KindOfIdentifier(w) = e[2]
  <2>1. (CHOOSE f \in Keyword : f[1] = w) = e
    BY <1>2, OneOfKeyword
  <2> QED
    BY <1>2, <2>1 DEF KindOfIdentifier
<1> QED
  BY <1>4, <1>5 DEF AreAll, IdentifierCont, w

LEMMA SpelledWord ==
  ASSUME text \in Texts, NEW i \in Nat, NEW j \in Nat, i < j, j <= Len(text),
         Char(i) \in IdentifierStart, NEW k
  PROVE  Spelled(Part(i, j), k) <=> \E e \in Keyword : Part(i, j) = e[1] /\ k = e[2]
<1> DEFINE w == Part(i, j)
<1>0. /\ \A c : w = <<c>> <=> j = i + 1 /\ Char(i) = c
      /\ \A c, d : w = <<c, d>> <=> j = i + 2 /\ Char(i) = c /\ Char(i + 1) = d
      /\ \A c, d, e : w = <<c, d, e>>
                     <=> j = i + 3 /\ Char(i) = c /\ Char(i + 1) = d /\ Char(i + 2) = e
  BY SpelledAt, Zenon
<1> HIDE DEF w
<1>1. /\ \A c : w = <<c>> => Char(i) = c
      /\ \A c, d : w = <<c, d>> => Char(i) = c
      /\ \A c, d, e : w = <<c, d, e>> => Char(i) = c
  BY <1>0, Zenon
<1>2. Char(i) \in IdentifierCont /\ Char(i) # "."  /\ Char(i) # "|"
  BY DEF IdentifierCont, IdentifierStart, HexLetter
<1>3. ~\E e \in Single : w = <<e[1]>>
  BY <1>1, <1>2, SingleFirst
<1>4. ~\E e \in Pair : w = <<e[1], e[2]>>
  BY <1>1, <1>2, SingleFirst, PairFirst
<1>5. w # <<".", ".">> /\ w # <<".", ".", ".">>
  BY <1>1, <1>2
<1>6. Spelled(w, k) <=> \E e \in Keyword : w = e[1] /\ k = e[2]
  BY <1>3, <1>4, <1>5 DEF Spelled
<1> QED
  BY <1>6 DEF w

LEMMA KindsLexed ==
  ASSUME text \in Texts, NEW i \in Nat, NEW j \in Nat, i < j, j <= Len(text), NEW k
  PROVE  k \in S!KindsOf(Part(i, j)) <=> Lexed(i, j, k)
<1> DEFINE Fixed == \/ j = i + 1 /\ \E e \in Single : Char(i) = e[1] /\ k = e[2]
                    \/ j = i + 2 /\ \E e \in Pair : Char(i) = e[1] /\ Char(i + 1) = e[2] /\ k = e[3]
                    \/ j = i + 2 /\ Char(i) = "." /\ Char(i + 1) = "." /\ k = "elipsis_excl"
                    \/ /\ j = i + 3 /\ Char(i) = "." /\ Char(i + 1) = "." /\ Char(i + 2) = "."
                       /\ k = "elipsis_incl"
           IsKeyword == \E e \in Keyword : Part(i, j) = e[1] /\ k = e[2]
           IsIdentifier == Char(i) \in IdentifierStart /\ AreAll(i + 1, j, IdentifierCont)
<1>1. Spelled(Part(i, j), k) <=> Fixed \/ IsKeyword
  <2>1. \A c : Part(i, j) = <<c>> <=> j = i + 1 /\ Char(i) = c
    BY SpelledAt, Zenon
  <2>2. \A c, d : Part(i, j) = <<c, d>> <=> j = i + 2 /\ Char(i) = c /\ Char(i + 1) = d
    BY SpelledAt, Zenon
  <2>3. \A c, d, e : Part(i, j) = <<c, d, e>>
                     <=> j = i + 3 /\ Char(i) = c /\ Char(i + 1) = d /\ Char(i + 2) = e
    BY SpelledAt, Zenon
  <2>4. (\E e \in Single : Part(i, j) = <<e[1]>> /\ k = e[2])
        <=> j = i + 1 /\ \E e \in Single : Char(i) = e[1] /\ k = e[2]
    BY <2>1, Zenon
  <2>5. (\E e \in Pair : Part(i, j) = <<e[1], e[2]>> /\ k = e[3])
        <=> j = i + 2 /\ \E e \in Pair : Char(i) = e[1] /\ Char(i + 1) = e[2] /\ k = e[3]
    BY <2>2, Zenon
  <2>6. /\ Part(i, j) = <<".", ".">> <=> j = i + 2 /\ Char(i) = "." /\ Char(i + 1) = "."
        /\ Part(i, j) = <<".", ".", ".">>
           <=> j = i + 3 /\ Char(i) = "." /\ Char(i + 1) = "." /\ Char(i + 2) = "."
    BY <2>2, <2>3, Zenon
  <2> QED
    BY <2>4, <2>5, <2>6 DEF Spelled
<1>2. k \in S!KindsOf(Part(i, j)) <=>
         \/ Fixed \/ IsKeyword
         \/ k = "identifier" /\ S!IsWord(Part(i, j)) /\ ~\E l : Spelled(Part(i, j), l)
         \/ k = "number_literal" /\ S!IsNumber(Part(i, j))
  <2> HIDE DEF Fixed, IsKeyword
  <2> QED
    BY <1>1, KindsAre
<1>3. IsKeyword => IsIdentifier /\ k = KindOfIdentifier(Part(i, j))
  BY KeywordAt
<1>4. ASSUME IsIdentifier
      PROVE  k = KindOfIdentifier(Part(i, j))
             <=> IsKeyword \/ (k = "identifier" /\ ~\E l : Spelled(Part(i, j), l))
  <2>1. \A l : Spelled(Part(i, j), l) <=> \E e \in Keyword : Part(i, j) = e[1] /\ l = e[2]
    BY <1>4, SpelledWord
  <2>2. CASE \E e \in Keyword : Part(i, j) = e[1]
    <3>1. PICK e \in Keyword : Part(i, j) = e[1]
      BY <2>2
    <3>2. KindOfIdentifier(Part(i, j)) = e[2]
      BY <3>1, KeywordAt
    <3>3. Spelled(Part(i, j), e[2])
      BY <2>1, <3>1
    <3>4. IsKeyword <=> k = e[2]
      BY <3>1, OneOfKeyword
    <3> QED
      BY <3>2, <3>3, <3>4
  <2>3. CASE ~\E e \in Keyword : Part(i, j) = e[1]
    BY <2>1, <2>3 DEF KindOfIdentifier
  <2> QED
    BY <2>2, <2>3
<1>5. S!IsWord(Part(i, j)) <=> IsIdentifier
  BY WordAt
<1>6. S!IsNumber(Part(i, j)) <=> NumberAt(i, j)
  BY NumbersAt
<1>7. Lexed(i, j, k) <=> \/ Fixed \/ (IsIdentifier /\ k = KindOfIdentifier(Part(i, j)))
                         \/ (k = "number_literal" /\ NumberAt(i, j))
  BY DEF Lexed, NumberAt
<1> HIDE DEF Fixed, IsKeyword, IsIdentifier
<1> QED
  BY <1>2, <1>3, <1>4, <1>5, <1>6, <1>7

-----------------------------------------------------------------------------
(* The longest lexeme at a position                                        *)

LEMMA InLexemes ==
  ASSUME text \in Texts, NEW i \in Nat, NEW t
  PROVE  t \in S!Lexemes(i)
         <=> \E j \in i + 1 .. Len(text) : \E k : t = Token(k, i, j) /\ Lexed(i, j, k)
<1>0. Len(text) \in Nat
  BY TextLength
<1>1. t \in S!Lexemes(i)
      <=> \E j \in i + 1 .. Len(text) : t \in [kind : S!KindsOf(Part(i, j)), from : {i}, to : {j}]
  BY DEF S!Lexemes, Part
<1>2. ASSUME NEW j \in i + 1 .. Len(text)
      PROVE  t \in [kind : S!KindsOf(Part(i, j)), from : {i}, to : {j}]
             <=> \E k : t = Token(k, i, j) /\ Lexed(i, j, k)
  <2>1. j \in Nat /\ i < j /\ j <= Len(text)
    BY <1>0, <1>2
  <2>2. \A k : k \in S!KindsOf(Part(i, j)) <=> Lexed(i, j, k)
    BY <2>1, KindsLexed
  <2> DEFINE kinds == S!KindsOf(Part(i, j))
  <2>3. t \in [kind : kinds, from : {i}, to : {j}]
        <=> \E k \in kinds : t = [kind |-> k, from |-> i, to |-> j]
    <3> HIDE DEF kinds
    <3> QED
      OBVIOUS
  <2> QED
    BY <2>2, <2>3 DEF Token
<1> QED
  BY <1>1, <1>2

LEMMA TokenIs ==
  ASSUME text \in Texts, NEW i \in Nat, NEW p \in Nat, i < p, p <= Len(text),
         NEW k, Lexed(i, p, k),
         \A j \in i + 1 .. Len(text) : \A l : Lexed(i, j, l) => j <= p /\ (j = p => l = k)
  PROVE  S!TokenAt(i) = IF k = "number_literal" /\ Char(p) \in IdentifierCont
                        THEN Token("unknown", i, p) ELSE Token(k, i, p)
<1> DEFINE t == Token(k, i, p)
<1>0. Len(text) \in Nat /\ p \in i + 1 .. Len(text) /\ i # Len(text)
  BY TextLength
<1>1. t \in S!Lexemes(i)
  BY <1>0, InLexemes
<1>2. t.kind = k /\ t.from = i /\ t.to = p
  BY DEF Token
<1>3. ASSUME NEW u \in S!Lexemes(i)
      PROVE  u.to \in Nat /\ u.to <= p /\ (u.to = p => u = t)
  <2>1. PICK j \in i + 1 .. Len(text) : \E l : u = Token(l, i, j) /\ Lexed(i, j, l)
    BY <1>3, InLexemes
  <2>2. PICK l : u = Token(l, i, j) /\ Lexed(i, j, l)
    BY <2>1
  <2>3. u.to = j /\ j \in Nat
    BY <1>0, <2>2 DEF Token
  <2>4. j <= p /\ (j = p => l = k)
    BY <2>2
  <2> QED
    BY <2>2, <2>3, <2>4
<1> HIDE DEF t
<1>4. (CHOOSE c \in S!Lexemes(i) : \A u \in S!Lexemes(i) : u.to <= c.to) = t
  <2> DEFINE longest == CHOOSE c \in S!Lexemes(i) : \A u \in S!Lexemes(i) : u.to <= c.to
  <2>1. longest \in S!Lexemes(i) /\ \A u \in S!Lexemes(i) : u.to <= longest.to
    BY <1>1, <1>2, <1>3
  <2>2. longest.to = p
    <3>1. p <= longest.to /\ longest.to <= p /\ longest.to \in Nat
      BY <1>1, <1>2, <1>3, <2>1
    <3> QED
      BY <3>1
  <2> QED
    BY <1>3, <2>1, <2>2
<1>5. S!TokenAt(i) = IF S!RunsOn(t) THEN [t EXCEPT !.kind = "unknown"] ELSE t
  <2> DEFINE longest == CHOOSE c \in S!Lexemes(i) : \A u \in S!Lexemes(i) : u.to <= c.to
  <2>1. S!Lexemes(i) # {}
    BY <1>1
  <2>2. S!TokenAt(i) = IF S!RunsOn(longest) THEN [longest EXCEPT !.kind = "unknown"] ELSE longest
    BY <1>0, <2>1 DEF S!TokenAt
  <2>3. longest = t
    BY <1>4
  <2> HIDE DEF longest
  <2> QED
    BY <2>2, <2>3
<1>6. S!RunsOn(t) <=> k = "number_literal" /\ Char(p) \in IdentifierCont
  <2>1. S!RunsOn(t) <=> k = "number_literal" /\ p < Len(text) /\ text[p + 1] \in IdentifierCont
    BY <1>2, SameClasses DEF S!RunsOn
  <2>2. Char(p) \in IdentifierCont <=> p < Len(text) /\ text[p + 1] \in IdentifierCont
    BY NulStops DEF Char
  <2> QED
    BY <2>1, <2>2
<1>7. [t EXCEPT !.kind = "unknown"] = Token("unknown", i, p)
  BY DEF t, Token
<1>8. t = Token(k, i, p)
  BY DEF t
<1> QED
  BY <1>5, <1>6, <1>7, <1>8

LEMMA NothingThere ==
  ASSUME text \in Texts, NEW i \in Nat, i < Len(text),
         \A j \in i + 1 .. Len(text) : \A l : ~Lexed(i, j, l)
  PROVE  S!TokenAt(i) = Token("unknown", i, i + 1)
<1>1. S!Lexemes(i) = {}
  BY InLexemes
<1>2. i # Len(text)
  BY TextLength
<1> QED
  BY <1>1, <1>2 DEF S!TokenAt, Token

(* What a lexeme is is decided by its first character. *)
LEMMA LexedByFirst ==
  ASSUME NEW i, NEW j, NEW k, Lexed(i, j, k)
  PROVE  /\ Char(i) \in IdentifierStart => /\ AreAll(i + 1, j, IdentifierCont)
                                           /\ k = KindOfIdentifier(Part(i, j))
         /\ Char(i) \in Digit => NumberAt(i, j) /\ k = "number_literal"
         /\ Char(i) \notin IdentifierCont =>
               \/ j = i + 1 /\ \E e \in Single : Char(i) = e[1] /\ k = e[2]
               \/ j = i + 2 /\ \E e \in Pair : Char(i) = e[1] /\ Char(i + 1) = e[2] /\ k = e[3]
               \/ j = i + 2 /\ Char(i) = "." /\ Char(i + 1) = "." /\ k = "elipsis_excl"
               \/ /\ j = i + 3 /\ Char(i) = "." /\ Char(i + 1) = "." /\ Char(i + 2) = "."
                  /\ k = "elipsis_incl"
<1>1. IdentifierStart \cap Digit = {} /\ "0" \in Digit /\ "." \notin IdentifierCont
      /\ "|" \notin IdentifierCont /\ IdentifierCont = IdentifierStart \union Digit
  BY DEF IdentifierCont, IdentifierStart, HexLetter, Digit
<1>2. \A e \in Single : e[1] \notin IdentifierCont
  BY SingleFirst
<1>3. \A e \in Pair : e[1] \notin IdentifierCont
  BY <1>1, <1>2, PairFirst
<1>4. \A b : MarkAt(i, b) => Char(i) \in Digit
  BY <1>1 DEF MarkAt
<1> QED
  BY <1>1, <1>2, <1>3, <1>4 DEF Lexed, NumberAt

LEMMA WordToken ==
  ASSUME text \in Texts, NEW i \in Nat, NEW p \in Nat, i < p, p <= Len(text),
         Char(i) \in IdentifierStart, AreAll(i + 1, p, IdentifierCont), Char(p) \notin IdentifierCont
  PROVE  S!TokenAt(i) = Token(KindOfIdentifier(Part(i, p)), i, p)
<1> DEFINE k == KindOfIdentifier(Part(i, p))
<1>1. Lexed(i, p, k)
  BY DEF Lexed
<1>2. ASSUME NEW j \in i + 1 .. Len(text), NEW l, Lexed(i, j, l)
      PROVE  j <= p /\ (j = p => l = k)
  <2>1. AreAll(i + 1, j, IdentifierCont) /\ l = KindOfIdentifier(Part(i, j))
    BY <1>2, LexedByFirst
  <2>2. j <= p
    <3> SUFFICES ASSUME p < j
                 PROVE  FALSE
      BY <1>2, TextLength
    <3>1. p \in i + 1 .. j - 1
      BY <1>2, TextLength
    <3> QED
      BY <2>1, <3>1 DEF AreAll
  <2> QED
    BY <2>1, <2>2
<1>3. k # "number_literal" \/ Char(p) \notin IdentifierCont
  OBVIOUS
<1> HIDE DEF k
<1>4. S!TokenAt(i) = Token(k, i, p)
  BY <1>1, <1>2, <1>3, TokenIs
<1> QED
  BY <1>4 DEF k

LEMMA DecimalToken ==
  ASSUME text \in Texts, NEW i \in Nat, NEW p \in Nat, i < p, p <= Len(text),
         Char(i) \in Digit, \A b \in Base : ~MarkAt(i, b),
         AreAll(i + 1, p, IdentifierCont), Char(p) \notin IdentifierCont
  PROVE  S!TokenAt(i) = Token("number_literal", i, p)
<1>1. Lexed(i, p, "number_literal")
  BY DEF Lexed
<1>2. ASSUME NEW j \in i + 1 .. Len(text), NEW l, Lexed(i, j, l)
      PROVE  j <= p /\ (j = p => l = "number_literal")
  <2>1. NumberAt(i, j) /\ l = "number_literal"
    BY <1>2, LexedByFirst
  <2>2. AreAll(i + 1, j, IdentifierCont)
    BY <2>1 DEF NumberAt
  <2>3. j <= p
    <3> SUFFICES ASSUME p < j
                 PROVE  FALSE
      BY <1>2, TextLength
    <3>1. p \in i + 1 .. j - 1
      BY <1>2, TextLength
    <3> QED
      BY <2>2, <3>1 DEF AreAll
  <2> QED
    BY <2>1, <2>3
<1> QED
  BY <1>1, <1>2, TokenIs

(* The mark of a number is no digit of another base. *)
LEMMA OneMark ==
  /\ Mark["dec"] = {}
  /\ \A b, c \in Base : Mark[b] \cap Mark[c] # {} => b = c
<1>1. /\ Mark["hex"] = {"x", "X"} /\ Mark["bin"] = {"b", "B"}
      /\ Mark["oct"] = {"o", "O"} /\ Mark["dec"] = {}
  BY DEF Mark
<1> QED
  BY <1>1, Bases

LEMMA PrefixedToken ==
  ASSUME text \in Texts, NEW i \in Nat, NEW p \in Nat, i + 2 <= p, p <= Len(text),
         NEW b \in Base, MarkAt(i, b),
         AreAll(i + 2, p, Digits[b]), Char(p) \notin Digits[b]
  PROVE  S!TokenAt(i) = IF Char(p) \in IdentifierCont THEN Token("unknown", i, p)
                        ELSE Token("number_literal", i, p)
<1>0. Char(i) \in Digit /\ i < p
  BY DEF MarkAt, Digit
<1>1. Lexed(i, p, "number_literal")
  BY DEF Lexed
<1>2. ASSUME NEW j \in i + 1 .. Len(text), NEW l, Lexed(i, j, l)
      PROVE  j <= p /\ (j = p => l = "number_literal")
  <2>1. NumberAt(i, j) /\ l = "number_literal"
    BY <1>0, <1>2, LexedByFirst
  <2>2. i + 2 <= j => AreAll(i + 2, j, Digits[b])
    <3> SUFFICES ASSUME i + 2 <= j
                 PROVE  AreAll(i + 2, j, Digits[b])
      OBVIOUS
    <3>1. PICK c \in Base : MarkAt(i, c) /\ AreAll(i + 2, j, Digits[c])
      BY <2>1 DEF NumberAt
    <3>2. c = b
      BY <3>1, OneMark DEF MarkAt
    <3> QED
      BY <3>1, <3>2
  <2>3. j <= p
    <3> SUFFICES ASSUME p < j
                 PROVE  FALSE
      BY <1>2, TextLength
    <3>1. p \in i + 2 .. j - 1 /\ i + 2 <= j
      BY <1>2, TextLength
    <3> QED
      BY <2>2, <3>1 DEF AreAll
  <2> QED
    BY <2>1, <2>3
<1> QED
  BY <1>0, <1>1, <1>2, TokenIs

LEMMA FixedToken ==
  ASSUME text \in Texts, NEW i \in Nat, NEW p \in Nat, i < p, p <= Len(text),
         NEW k, Lexed(i, p, k), k # "number_literal",
         \A j \in i + 1 .. Len(text) : \A l : Lexed(i, j, l) => j <= p /\ (j = p => l = k)
  PROVE  S!TokenAt(i) = Token(k, i, p)
  BY TokenIs

LEMMA FixedKinds ==
  /\ \A e \in Single : e[2] # "number_literal"
  /\ \A e \in Pair : e[3] # "number_literal"
<1>1. \A e \in Single : e[2] # "number_literal"
  BY DEF Single
<1>2. \A e \in Pair : e[3] # "number_literal"
  BY DEF Pair
<1> QED
  BY <1>1, <1>2

LEMMA NoCont == "." \notin IdentifierCont /\ "|" \notin IdentifierCont
  BY DEF IdentifierCont, IdentifierStart, HexLetter, Digit

LEMMA ElipsisToken ==
  ASSUME text \in Texts, NEW i \in Nat, Char(i) = ".", Char(i + 1) = "."
  PROVE  IF Char(i + 2) = "." THEN S!TokenAt(i) = Token("elipsis_incl", i, i + 3)
                              ELSE S!TokenAt(i) = Token("elipsis_excl", i, i + 2)
<1>0. Len(text) \in Nat /\ i + 2 <= Len(text) /\ (Char(i + 2) = "." => i + 3 <= Len(text))
  <2>1. Len(text) \in Nat
    BY TextLength
  <2>2. i + 1 < Len(text)
    BY <2>1 DEF Char
  <2>3. Char(i + 2) = "." => i + 2 < Len(text)
    BY <2>1 DEF Char
  <2> QED
    BY <2>1, <2>2, <2>3
<1>1. ASSUME NEW j \in i + 1 .. Len(text), NEW l, Lexed(i, j, l)
      PROVE  \/ j = i + 2 /\ l = "elipsis_excl"
             \/ j = i + 3 /\ l = "elipsis_incl" /\ Char(i + 2) = "."
  <2>1. ~\E e \in Single : Char(i) = e[1]
    BY SingleFirst
  <2>2. ~\E e \in Pair : Char(i) = e[1]
    BY PairFirst
  <2> QED
    BY <1>1, <2>1, <2>2, LexedByFirst, NoCont
<1>2. CASE Char(i + 2) = "."
  <2>1. PICK p \in Nat : p = i + 3
    OBVIOUS
  <2>2. Lexed(i, p, "elipsis_incl")
    BY <1>2, <2>1 DEF Lexed
  <2>3. \A j \in i + 1 .. Len(text) : \A l :
           Lexed(i, j, l) => j <= p /\ (j = p => l = "elipsis_incl")
    BY <1>1, <2>1
  <2>4. i < p /\ p <= Len(text)
    BY <1>0, <1>2, <2>1
  <2>5. S!TokenAt(i) = Token("elipsis_incl", i, p)
    BY <2>2, <2>3, <2>4, FixedToken
  <2> QED
    BY <1>2, <2>1, <2>5
<1>3. CASE Char(i + 2) # "."
  <2>1. PICK p \in Nat : p = i + 2
    OBVIOUS
  <2>2. Lexed(i, p, "elipsis_excl")
    BY <2>1 DEF Lexed
  <2>3. \A j \in i + 1 .. Len(text) : \A l :
           Lexed(i, j, l) => j <= p /\ (j = p => l = "elipsis_excl")
    BY <1>1, <1>3, <2>1
  <2>4. i < p /\ p <= Len(text)
    BY <1>0, <2>1
  <2>5. S!TokenAt(i) = Token("elipsis_excl", i, p)
    BY <2>2, <2>3, <2>4, FixedToken
  <2> QED
    BY <1>3, <2>1, <2>5
<1> QED
  BY <1>2, <1>3

LEMMA PairToken ==
  ASSUME text \in Texts, NEW i \in Nat,
         NEW e \in Pair, Char(i) = e[1], Char(i + 1) = e[2]
  PROVE  S!TokenAt(i) = Token(e[3], i, i + 2)
<1>0. Len(text) \in Nat /\ i + 2 <= Len(text)
  <2>1. Len(text) \in Nat
    BY TextLength
  <2>2. e[2] # "nul"
    BY PairKinds
  <2>3. i + 1 < Len(text)
    BY <2>1, <2>2 DEF Char
  <2> QED
    BY <2>1, <2>3
<1>1. Char(i) \notin IdentifierCont /\ Char(i) # "."
  BY NoCont, PairFirst, SingleFirst
<1>2. ASSUME NEW j \in i + 1 .. Len(text), NEW l, Lexed(i, j, l)
      PROVE  j = i + 1 \/ (j = i + 2 /\ l = e[3])
  BY <1>1, <1>2, LexedByFirst, OneOfPair
<1>3. PICK p \in Nat : p = i + 2
  OBVIOUS
<1>4. Lexed(i, p, e[3])
  BY <1>3 DEF Lexed
<1>5. \A j \in i + 1 .. Len(text) : \A l : Lexed(i, j, l) => j <= p /\ (j = p => l = e[3])
  BY <1>2, <1>3
<1>6. i < p /\ p <= Len(text) /\ e[3] # "number_literal"
  BY <1>0, <1>3, FixedKinds
<1>7. S!TokenAt(i) = Token(e[3], i, p)
  BY <1>4, <1>5, <1>6, FixedToken
<1> QED
  BY <1>3, <1>7

LEMMA SingleToken ==
  ASSUME text \in Texts, NEW i \in Nat,
         NEW e \in Single, Char(i) = e[1],
         ~\E f \in Pair : Char(i) = f[1] /\ Char(i + 1) = f[2]
  PROVE  S!TokenAt(i) = Token(e[2], i, i + 1)
<1>0. Len(text) \in Nat /\ i + 1 <= Len(text)
  BY TextLength, Inside, SingleKinds
<1>1. Char(i) \notin IdentifierCont /\ Char(i) # "."
  BY SingleFirst
<1>2. ASSUME NEW j \in i + 1 .. Len(text), NEW l, Lexed(i, j, l)
      PROVE  j = i + 1 /\ l = e[2]
  BY <1>1, <1>2, LexedByFirst, OneOfSingle
<1>3. PICK p \in Nat : p = i + 1
  OBVIOUS
<1>4. Lexed(i, p, e[2])
  BY <1>3 DEF Lexed
<1>5. \A j \in i + 1 .. Len(text) : \A l : Lexed(i, j, l) => j <= p /\ (j = p => l = e[2])
  BY <1>2, <1>3
<1>6. i < p /\ p <= Len(text) /\ e[2] # "number_literal"
  BY <1>0, <1>3, FixedKinds
<1>7. S!TokenAt(i) = Token(e[2], i, p)
  BY <1>4, <1>5, <1>6, FixedToken
<1> QED
  BY <1>3, <1>7

LEMMA UnknownToken ==
  ASSUME text \in Texts, NEW i \in Nat, i < Len(text), Char(i) \notin IdentifierCont,
         ~\E e \in Single : Char(i) = e[1],
         ~\E e \in Pair : Char(i) = e[1] /\ Char(i + 1) = e[2],
         ~(Char(i) = "." /\ Char(i + 1) = ".")
  PROVE  S!TokenAt(i) = Token("unknown", i, i + 1)
<1>1. \A j \in i + 1 .. Len(text) : \A l : ~Lexed(i, j, l)
  BY LexedByFirst
<1> QED
  BY <1>1, NothingThere

-----------------------------------------------------------------------------
(* What is between tokens                                                  *)

LEMMA HasTwo ==
  ASSUME text \in Texts, NEW i \in Nat, NEW c, NEW d, c # "nul", d # "nul"
  PROVE  S!Has(i, <<c, d>>) <=> Char(i) = c /\ Char(i + 1) = d
<1>1. Len(text) \in Nat /\ Len(<<c, d>>) = 2
  BY TextLength
<1>2. S!Has(i, <<c, d>>) <=> i + 2 <= Len(text) /\ Part(i, i + 2) = <<c, d>>
  BY <1>1 DEF S!Has, Part
<1>3. Char(i) = c /\ Char(i + 1) = d => i + 2 <= Len(text)
  BY <1>1 DEF Char
<1>4. ASSUME i + 2 <= Len(text)
      PROVE  Part(i, i + 2) = <<c, d>> <=> Char(i) = c /\ Char(i + 1) = d
  <2>1. PICK j \in Nat : j = i + 2
    OBVIOUS
  <2>2. i < j /\ j <= Len(text)
    BY <1>4, <2>1
  <2>3. \A x, y : Part(i, j) = <<x, y>> <=> j = i + 2 /\ Char(i) = x /\ Char(i + 1) = y
    BY <2>2, SpelledAt, Zenon
  <2>4. Part(i, j) = <<c, d>> <=> j = i + 2 /\ Char(i) = c /\ Char(i + 1) = d
    BY <2>3, Zenon
  <2> QED
    BY <2>1, <2>4
<1> QED
  BY <1>2, <1>3, <1>4

LEMMA FirstIs ==
  ASSUME NEW A, A \subseteq Int, text \in Texts, \A l \in A : l <= Len(text),
         NEW m \in A \union {Len(text)}, \A l \in A : m <= l
  PROVE  S!First(A) = m
<1>0. Len(text) \in Int
  BY TextLength
<1> DEFINE B == A \union {Len(text)}
<1>1. B \subseteq Int /\ m \in B
  BY <1>0
<1>2. S!First(A) = CHOOSE k \in B : \A l \in A : k <= l
  BY DEF S!First
<1>3. \A k \in B : (\A l \in A : k <= l) => k = m
  <2> SUFFICES ASSUME NEW k \in B, \A l \in A : k <= l
               PROVE  k = m
    OBVIOUS
  <2>1. m \in Int /\ k \in Int
    BY <1>1
  <2>2. m <= k
    BY <1>0, <2>1
  <2>3. k <= m
    BY <1>0, <2>1
  <2> QED
    BY <2>1, <2>2, <2>3
<1> HIDE DEF B
<1> QED
  BY <1>1, <1>2, <1>3

LEMMA FillerIs ==
  ASSUME text \in Texts, NEW i \in Nat, NEW j
  PROVE  S!Filler(i, j) <=>
           \/ i < Len(text) /\ Char(i) \in Blank \union {"nul"} /\ j = i + 1
           \/ /\ Char(i) = "/" /\ Char(i + 1) = "/"
              /\ j = S!First({k \in i + 3 .. Len(text) : text[k] \in Newline})
           \/ /\ Char(i) = "/" /\ Char(i + 1) = "*"
              /\ j = S!First({k \in i + 4 .. Len(text) : S!Has(k - 2, <<"*", "/">>)})
<1>1. /\ S!Has(i, <<"/", "/">>) <=> Char(i) = "/" /\ Char(i + 1) = "/"
      /\ S!Has(i, <<"/", "*">>) <=> Char(i) = "/" /\ Char(i + 1) = "*"
  BY HasTwo
<1>2. i < Len(text) => Char(i) = text[i + 1]
  BY DEF Char
<1> QED
  BY <1>1, <1>2, SameClasses DEF S!Filler

(* A token begins where none of these do. *)
LEMMA NoFiller ==
  ASSUME text \in Texts, NEW i \in Nat,
         i < Len(text) => Char(i) \notin Blank \union {"nul"}, ~(Char(i) = "/" /\ Char(i + 1) \in {"/", "*"})
  PROVE  ~\E j \in i + 1 .. Len(text) : S!Filler(i, j)
  BY FillerIs

LEMMA LineFiller ==
  ASSUME text \in Texts, NEW i \in Nat, Char(i) = "/", Char(i + 1) = "/",
         NEW p \in Nat, p <= Len(text), \A q \in i + 1 .. p - 1 : Char(q) \notin Newline,
         i + 1 <= p, p = Len(text) \/ Char(p) \in Newline
  PROVE  /\ S!Filler(i, IF p = Len(text) THEN p ELSE p + 1)
         /\ (IF p = Len(text) THEN p ELSE p + 1) \in i + 1 .. Len(text)
<1> DEFINE m == IF p = Len(text) THEN p ELSE p + 1
           A == {k \in i + 3 .. Len(text) : text[k] \in Newline}
<1>1. Len(text) \in Nat /\ m \in i + 1 .. Len(text)
  BY TextLength
<1>2. A \subseteq Int
  BY <1>1
<1>3. \A l \in A : m <= l
  <2> SUFFICES ASSUME NEW l \in A, l < m
               PROVE  FALSE
    BY <1>1
  <2>1. l \in i + 3 .. Len(text) /\ text[l] \in Newline
    OBVIOUS
  <2>2. l - 1 \in i + 1 .. p - 1 /\ Char(l - 1) = text[l]
    BY <1>1, <2>1 DEF Char
  <2> QED
    BY <2>1, <2>2
<1>4. m \in A \union {Len(text)}
  <2>1. CASE p = Len(text)
    BY <2>1
  <2>2. CASE p # Len(text)
    <3>1. Char(p) \in Newline /\ Char(p) = text[p + 1] /\ m = p + 1
      BY <1>1, <2>2 DEF Char
    <3>2. p # i + 1
      BY <3>1 DEF Newline
    <3>3. m \in i + 3 .. Len(text)
      BY <1>1, <3>1, <3>2
    <3> QED
      BY <3>1, <3>3
  <2> QED
    BY <2>1, <2>2
<1>5. \A l \in A : l <= Len(text)
  BY <1>1
<1> HIDE DEF m, A
<1>6. S!First(A) = m
  BY <1>2, <1>3, <1>4, <1>5, FirstIs
<1>7. S!Filler(i, m)
  BY <1>6, FillerIs DEF A
<1> QED
  BY <1>1, <1>7 DEF m

LEMMA BlockFiller ==
  ASSUME text \in Texts, NEW i \in Nat, Char(i) = "/", Char(i + 1) = "*",
         NEW p \in Nat, i + 2 <= p, p <= Len(text),
         \A q \in i + 2 .. p - 1 : ~(Char(q) = "*" /\ Char(q + 1) = "/"),
         p = Len(text) \/ (Char(p) = "*" /\ Char(p + 1) = "/")
  PROVE  /\ S!Filler(i, IF p = Len(text) THEN p ELSE p + 2)
         /\ (IF p = Len(text) THEN p ELSE p + 2) \in i + 1 .. Len(text)
<1> DEFINE m == IF p = Len(text) THEN p ELSE p + 2
           A == {k \in i + 4 .. Len(text) : S!Has(k - 2, <<"*", "/">>)}
<1>0. \A q \in Nat : S!Has(q, <<"*", "/">>) <=> Char(q) = "*" /\ Char(q + 1) = "/"
  BY HasTwo
<1>1. Len(text) \in Nat /\ m \in i + 1 .. Len(text)
  <2>1. Len(text) \in Nat
    BY TextLength
  <2>2. p # Len(text) => p + 1 < Len(text)
    BY <2>1 DEF Char
  <2> QED
    BY <2>1, <2>2
<1>2. A \subseteq Int
  BY <1>1
<1>3. \A l \in A : m <= l
  <2> SUFFICES ASSUME NEW l \in A, l < m
               PROVE  FALSE
    BY <1>1
  <2>1. l \in i + 4 .. Len(text) /\ S!Has(l - 2, <<"*", "/">>)
    OBVIOUS
  <2>2. l - 2 \in Nat /\ l - 2 \in i + 2 .. p - 1
    BY <1>1, <2>1
  <2>3. PICK q \in Nat : q = l - 2
    BY <2>2
  <2> QED
    BY <1>0, <2>1, <2>2, <2>3
<1>4. m \in A \union {Len(text)}
  <2>1. CASE p = Len(text)
    BY <2>1
  <2>2. CASE p # Len(text)
    <3>1. S!Has(p, <<"*", "/">>) /\ m = p + 2 /\ m - 2 = p
      BY <1>0, <2>2
    <3>2. m \in i + 4 .. Len(text)
      BY <1>1, <3>1
    <3> QED
      BY <3>1, <3>2
  <2> QED
    BY <2>1, <2>2
<1>5. \A l \in A : l <= Len(text)
  BY <1>1
<1> HIDE DEF m, A
<1>6. S!First(A) = m
  BY <1>2, <1>3, <1>4, <1>5, FirstIs
<1>7. S!Filler(i, m)
  BY <1>6, FillerIs DEF A
<1> QED
  BY <1>1, <1>7 DEF m

-----------------------------------------------------------------------------
(* The lexer and Scan side by side                                         *)

Pos == IF pc \in {"loop", "idle"} THEN CurPtr ELSE TokStart

Latest == IF pc = "idle" THEN NextToken ELSE Ret

LEMMA ScanSkips ==
  ASSUME text' = text, NEW j \in Pos + 1 .. Len(text), S!Filler(Pos, j), Pos' = j, Latest' = Latest
  PROVE  S!Next
  BY DEF S!Next, S!Skip, Pos, Latest

LEMMA ScanTakes ==
  ASSUME text' = text, ~\E j \in Pos + 1 .. Len(text) : S!Filler(Pos, j),
         Latest' = S!TokenAt(Pos), Pos' = Latest'.to
  PROVE  S!Next
  BY DEF S!Next, S!Take, Pos, Latest

LEMMA ScanStays ==
  ASSUME text' = text, Pos' = Pos, Latest' = Latest
  PROVE  UNCHANGED S!vars
  BY DEF S!vars, Pos, Latest

(* The base of a number is the one it has the mark of. *)
BaseAt(i) ==
    IF base = "dec" THEN \A b \in Base : ~MarkAt(i, b) ELSE MarkAt(i, base)

(* What an inner loop has read since the position Scan is still at *)
ScanInv ==
    /\ pc = "line" =>
          /\ Char(TokStart) = "/" /\ Char(TokStart + 1) = "/"
          /\ \A q \in TokStart + 1 .. CurPtr - 1 : Char(q) \notin Newline
    /\ pc = "block" =>
          /\ Char(TokStart) = "/" /\ Char(TokStart + 1) = "*" /\ TokStart + 2 <= CurPtr
          /\ \A q \in TokStart + 2 .. CurPtr - 1 : ~(Char(q) = "*" /\ Char(q + 1) = "/")
    /\ pc = "identifier" =>
          Char(TokStart) \in IdentifierStart /\ AreAll(TokStart + 1, CurPtr, IdentifierCont)
    /\ pc \in {"word", "digits"} => Char(TokStart) \in Digit /\ BaseAt(TokStart)
    /\ pc = "digits" =>
          IF base = "dec" THEN CurPtr = TokEnd
          ELSE TokStart + 2 <= CurPtr /\ AreAll(TokStart + 2, CurPtr, Digits[base])

LEMMA CharKept == text' = text => \A q : Char(q)' = Char(q)
  BY DEF Char

LEMMA LexTokenScans ==
  IInv /\ LexToken => ScanInv' /\ (S!Next \/ UNCHANGED S!vars)
<1> SUFFICES ASSUME IInv, LexToken
             PROVE  ScanInv' /\ (S!Next \/ UNCHANGED S!vars)
  OBVIOUS
<1>1. /\ text \in Texts /\ text' = text /\ Ret' = Ret /\ TokStart' = CurPtr /\ pc = "loop"
      /\ Len(text) \in Nat /\ CurPtr \in Nat /\ CurPtr <= Len(text)
  <2>1. text \in Texts /\ CurPtr \in 0 .. Len(text)
    BY DEF IInv, TypeOK
  <2> QED
    BY <2>1, TextLength DEF LexToken
<1>2. Pos = CurPtr /\ Latest = Ret
  BY <1>1 DEF Pos, Latest
<1>idle. ASSUME pc' \in {"loop", "idle", "aborted"}
         PROVE  ScanInv'
  BY <1>idle DEF ScanInv
<1>takes. ASSUME NEW kind, NEW p, Form(kind, p), Return,
                 CurPtr < Len(text) => Char(CurPtr) \notin Blank \union {"nul"}, ~StartsComment,
                 S!TokenAt(CurPtr) = Token(kind, CurPtr, p)
          PROVE  ScanInv' /\ S!Next
  <2>1. /\ pc' = "idle" /\ CurPtr' = p /\ NextToken' = Token(kind, CurPtr, p)
    BY <1>takes DEF Form, Return
  <2>2. Latest' = Token(kind, CurPtr, p) /\ Pos' = p
    BY <2>1 DEF Latest, Pos
  <2>3. Latest'.to = p
    BY <2>2 DEF Token
  <2>4. ~\E j \in CurPtr + 1 .. Len(text) : S!Filler(CurPtr, j)
    BY <1>1, <1>takes, NoFiller DEF StartsComment
  <2>5. S!Next
    BY <1>1, <1>2, <1>takes, <2>2, <2>3, <2>4, ScanTakes
  <2> QED
    BY <1>idle, <2>1, <2>5
<1>enters. ASSUME pc' \in InnerLoop \union {"aborted"}
           PROVE  UNCHANGED S!vars
  <2>1. Pos' = CurPtr /\ Latest' = Ret
    BY <1>1, <1>enters DEF Pos, Latest, InnerLoop
  <2> QED
    BY <1>1, <1>2, <2>1, ScanStays
<1>4. CASE TakeBlank
  <2>1. /\ Char(CurPtr) \in Blank \union {"nul"} /\ CurPtr < Len(text) /\ CurPtr' = CurPtr + 1
        /\ pc' = "loop"
    BY <1>1, <1>4 DEF TakeBlank, AtEnd
  <2>2. PICK j \in CurPtr + 1 .. Len(text) : j = CurPtr + 1
    BY <1>1, <2>1
  <2>3. S!Filler(CurPtr, j)
    BY <1>1, <2>1, <2>2, FillerIs
  <2>4. Pos' = j /\ Latest' = Ret
    BY <1>1, <2>1, <2>2 DEF Pos, Latest
  <2> QED
    BY <1>1, <1>2, <1>idle, <2>1, <2>3, <2>4, ScanSkips
<1>5. CASE TakeEnd
  <2>1. Form("eof", CurPtr) /\ Return /\ CurPtr = Len(text) /\ Char(CurPtr) = "nul"
    BY <1>5 DEF TakeEnd, AtEnd
  <2>2. S!TokenAt(CurPtr) = Token("eof", CurPtr, CurPtr)
    BY <2>1 DEF S!TokenAt, Token
  <2>3. ~StartsComment
    BY <2>1 DEF StartsComment
  <2> QED
    BY <1>1, <1>takes, <2>1, <2>2, <2>3
<1>6. CASE TakeElipsis
  <2>1. Char(CurPtr) = "." /\ Char(CurPtr + 1) = "." /\ Return
    BY <1>6 DEF TakeElipsis
  <2>2. Char(CurPtr) \notin Blank \union {"nul"} /\ ~StartsComment
    BY <2>1 DEF StartsComment, Blank, Newline
  <2>3. CASE Char(CurPtr + 2) = "."
    <3>1. Form("elipsis_incl", CurPtr + 3)
      BY <1>6, <2>3 DEF TakeElipsis
    <3>2. S!TokenAt(CurPtr) = Token("elipsis_incl", CurPtr, CurPtr + 3)
      BY <1>1, <2>1, <2>3, ElipsisToken
    <3> QED
      BY <1>takes, <2>1, <2>2, <3>1, <3>2
  <2>4. CASE Char(CurPtr + 2) # "."
    <3>1. Form("elipsis_excl", CurPtr + 2)
      BY <1>6, <2>4 DEF TakeElipsis
    <3>2. S!TokenAt(CurPtr) = Token("elipsis_excl", CurPtr, CurPtr + 2)
      BY <1>1, <2>1, <2>4, ElipsisToken
    <3> QED
      BY <1>takes, <2>1, <2>2, <3>1, <3>2
  <2> QED
    BY <2>3, <2>4
<1>7. CASE TakePair
  <2>1. PICK e \in Pair : Char(CurPtr) = e[1] /\ Char(CurPtr + 1) = e[2] /\ Form(e[3], CurPtr + 2)
    BY <1>7 DEF TakePair
  <2>2. Return
    BY <1>7 DEF TakePair
  <2>3. Char(CurPtr) \notin Blank \union {"nul"} /\ ~StartsComment
    <3>1. "|" \notin Blank /\ "|" # "nul"
      BY DEF Blank, Newline
    <3> QED
      BY <2>1, <3>1, PairFirst, SingleFirst DEF StartsComment
  <2>4. S!TokenAt(CurPtr) = Token(e[3], CurPtr, CurPtr + 2)
    BY <1>1, <2>1, PairToken
  <2> QED
    BY <1>takes, <2>1, <2>2, <2>3, <2>4
<1>8. CASE TakeSingle
  <2>1. /\ Return /\ ~StartsComment
        /\ ~\E e \in Pair : Char(CurPtr) = e[1] /\ Char(CurPtr + 1) = e[2]
    BY <1>8 DEF TakeSingle
  <2>2. CASE \E e \in Single : Char(CurPtr) = e[1] /\ Form(e[2], CurPtr + 1)
    <3>1. PICK e \in Single : Char(CurPtr) = e[1] /\ Form(e[2], CurPtr + 1)
      BY <2>2
    <3>2. Char(CurPtr) \notin Blank \union {"nul"}
      BY <3>1, SingleFirst
    <3>3. S!TokenAt(CurPtr) = Token(e[2], CurPtr, CurPtr + 1)
      BY <1>1, <2>1, <3>1, SingleToken
    <3> QED
      BY <1>takes, <2>1, <3>1, <3>2, <3>3
  <2>3. CASE Char(CurPtr) = "|" /\ Form("unknown", CurPtr + 1)
    <3>1. Char(CurPtr) \notin Blank \union {"nul"} /\ CurPtr < Len(text)
      BY <1>1, <2>3, Inside DEF Blank, Newline
    <3>2. ~\E e \in Single : Char(CurPtr) = e[1]
      BY <2>3, SingleFirst
    <3>3. S!TokenAt(CurPtr) = Token("unknown", CurPtr, CurPtr + 1)
      BY <1>1, <2>1, <2>3, <3>1, <3>2, NoCont, UnknownToken
    <3> QED
      BY <1>takes, <2>1, <2>3, <3>1, <3>3
  <2> QED
    BY <1>8, <2>2, <2>3 DEF TakeSingle
<1>9. CASE TakeOther
  <2>1. Form("unknown", CurPtr + 1) /\ Return
    BY <1>9 DEF TakeOther, FormUnknown
  <2>2. ~\E e \in Single : Char(CurPtr) = e[1]
    BY <1>9, SingleFirst DEF TakeOther
  <2>3. ~\E e \in Pair : Char(CurPtr) = e[1]
    BY <1>9, <2>2, PairFirst DEF TakeOther
  <2>4. /\ Char(CurPtr) \notin Blank \union {"nul"} /\ Char(CurPtr) \notin IdentifierCont
        /\ ~(Char(CurPtr) = "." /\ Char(CurPtr + 1) = ".")
    BY <1>9, NoCont DEF TakeOther, Blank, Newline
  <2>5. CurPtr < Len(text)
    BY <1>1, <2>4, Inside
  <2>6. S!TokenAt(CurPtr) = Token("unknown", CurPtr, CurPtr + 1)
    BY <1>1, <2>2, <2>3, <2>4, <2>5, UnknownToken
  <2>7. ~StartsComment
    <3>1. \E e \in Single : e[1] = "/"
      BY DEF Single
    <3> QED
      BY <2>2, <3>1 DEF StartsComment
  <2> QED
    BY <1>takes, <2>1, <2>4, <2>6, <2>7
<1>10. CASE TakeLineComment
  <2>1. /\ Char(CurPtr) = "/" /\ Char(CurPtr + 1) = "/" /\ CurPtr' = CurPtr + 1 /\ pc' = "line"
    BY <1>10 DEF TakeLineComment, StartsComment
  <2>2. \A q \in CurPtr + 1 .. CurPtr + 1 - 1 : FALSE
    BY <1>1
  <2>3. ScanInv'
    BY <1>1, <2>1, <2>2, CharKept DEF ScanInv
  <2> QED
    BY <1>enters, <2>1, <2>3 DEF InnerLoop
<1>11. CASE TakeBlockComment
  <2>1. /\ Char(CurPtr) = "/" /\ Char(CurPtr + 1) = "*" /\ CurPtr' = CurPtr + 2 /\ pc' = "block"
    BY <1>11 DEF TakeBlockComment, StartsComment
  <2>2. (\A q \in CurPtr + 2 .. CurPtr + 2 - 1 : FALSE) /\ CurPtr + 2 <= CurPtr + 2
    BY <1>1
  <2>3. ScanInv'
    BY <1>1, <2>1, <2>2, CharKept DEF ScanInv
  <2> QED
    BY <1>enters, <2>1, <2>3 DEF InnerLoop
<1>12. CASE TakeIdentifier
  <2>1. Char(CurPtr) \in IdentifierStart /\ CurPtr' = CurPtr + 1 /\ pc' = "identifier"
    BY <1>12 DEF TakeIdentifier
  <2>2. \A q \in CurPtr + 1 .. CurPtr + 1 - 1 : FALSE
    BY <1>1
  <2>3. ScanInv'
    BY <1>1, <2>1, <2>2, CharKept DEF ScanInv, AreAll
  <2> QED
    BY <1>enters, <2>1, <2>3 DEF InnerLoop
<1>13. CASE TakeNumber
  <2>1. /\ Char(CurPtr) \in Digit /\ pc' \in {"word", "aborted"}
        /\ base' = IF \E b \in Base : MarkAt(CurPtr, b)
                   THEN CHOOSE b \in Base : Char(CurPtr + 1) \in Mark[b] ELSE "dec"
    BY <1>13 DEF TakeNumber, MarkAt
  <2>2. CASE \E b \in Base : MarkAt(CurPtr, b)
    <3>1. base' \in Base /\ MarkAt(CurPtr, base')
      BY <2>1, <2>2 DEF MarkAt
    <3>2. base' # "dec"
      BY <3>1, OneMark DEF MarkAt
    <3>3. BaseAt(TokStart)'
      BY <1>1, <3>1, <3>2, CharKept DEF BaseAt, MarkAt
    <3>4. ScanInv'
      BY <1>1, <2>1, <3>3, CharKept DEF ScanInv
    <3> QED
      BY <1>enters, <2>1, <3>4 DEF InnerLoop
  <2>3. CASE ~\E b \in Base : MarkAt(CurPtr, b)
    <3>1. base' = "dec"
      BY <2>1, <2>3
    <3>2. BaseAt(TokStart)'
      BY <1>1, <2>3, <3>1, CharKept DEF BaseAt, MarkAt
    <3>3. ScanInv'
      BY <1>1, <2>1, <3>2, CharKept DEF ScanInv
    <3> QED
      BY <1>enters, <2>1, <3>3 DEF InnerLoop
  <2> QED
    BY <2>2, <2>3
<1> QED
  BY <1>4, <1>5, <1>6, <1>7, <1>8, <1>9, <1>10, <1>11, <1>12, <1>13 DEF LexToken

-----------------------------------------------------------------------------
(* The inner loops: Scan waits at the start of the token.                  *)

LEMMA WordsAreNoFiller ==
  \A c \in IdentifierCont : c \notin Blank \union {"nul"} /\ c # "/"
<1>1. "/" \notin IdentifierCont /\ "nul" \notin IdentifierCont
  BY NulStops DEF IdentifierCont, IdentifierStart, HexLetter, Digit
<1>2. \A c \in Blank : c \notin IdentifierCont
  BY DEF Blank, Newline, IdentifierCont, IdentifierStart, HexLetter, Digit
<1> QED
  BY <1>1, <1>2

LEMMA InnerAt ==
  ASSUME IInv, pc \in InnerLoop
  PROVE  /\ text \in Texts /\ Len(text) \in Nat /\ TokStart \in Nat /\ CurPtr \in Nat
         /\ TokStart < CurPtr /\ CurPtr <= Len(text)
         /\ Pos = TokStart /\ Latest = Ret
<1>1. text \in Texts /\ Len(text) \in Nat
  BY TextLength DEF IInv, TypeOK
<1>2. CurPtr \in 0 .. Len(text) /\ TokStart \in 0 .. Len(text) /\ TokStart < CurPtr
  BY DEF IInv, TypeOK, Window
<1>3. Pos = TokStart /\ Latest = Ret
  BY DEF Pos, Latest, InnerLoop
<1> QED
  BY <1>1, <1>2, <1>3

LEMMA InnerStays ==
  ASSUME IInv, pc \in InnerLoop, pc' \in InnerLoop,
         text' = text, TokStart' = TokStart, Ret' = Ret
  PROVE  UNCHANGED S!vars
<1>1. Pos' = TokStart /\ Latest' = Ret
  BY DEF Pos, Latest, InnerLoop
<1> QED
  BY <1>1, InnerAt, ScanStays

LEMMA InnerSkips ==
  ASSUME IInv, pc \in InnerLoop, pc' = "loop", text' = text, Ret' = Ret,
         NEW j \in TokStart + 1 .. Len(text), S!Filler(TokStart, j), CurPtr' = j
  PROVE  ScanInv' /\ (S!Next \/ UNCHANGED S!vars)
<1>1. Pos' = j /\ Latest' = Ret
  BY DEF Pos, Latest
<1>2. S!Next
  BY <1>1, InnerAt, ScanSkips
<1> QED
  BY <1>2 DEF ScanInv

LEMMA InnerTakes ==
  ASSUME IInv, pc \in InnerLoop, pc' = "idle", text' = text, CurPtr' = CurPtr,
         NEW kind, NextToken' = Token(kind, TokStart, CurPtr),
         S!TokenAt(TokStart) = Token(kind, TokStart, CurPtr),
         Char(TokStart) \in IdentifierCont
  PROVE  ScanInv' /\ (S!Next \/ UNCHANGED S!vars)
<1>1. Latest' = Token(kind, TokStart, CurPtr) /\ Pos' = CurPtr
  BY DEF Latest, Pos
<1>2. Latest'.to = CurPtr
  BY <1>1 DEF Token
<1>3. ~\E j \in TokStart + 1 .. Len(text) : S!Filler(TokStart, j)
  BY InnerAt, WordsAreNoFiller, NoFiller
<1>4. S!Next
  BY <1>1, <1>2, <1>3, InnerAt, ScanTakes
<1> QED
  BY <1>4 DEF ScanInv

LEMMA LineScans ==
  IInv /\ ScanInv /\ SkipToEndOfLine => ScanInv' /\ (S!Next \/ UNCHANGED S!vars)
<1> SUFFICES ASSUME IInv, ScanInv, SkipToEndOfLine
             PROVE  ScanInv' /\ (S!Next \/ UNCHANGED S!vars)
  OBVIOUS
<1>1. /\ pc \in InnerLoop /\ pc = "line"
      /\ text' = text /\ TokStart' = TokStart /\ Ret' = Ret
      /\ CurPtr' = IF AtEnd THEN CurPtr ELSE CurPtr + 1
      /\ pc' = IF AtEnd \/ Char(CurPtr) \in Newline THEN "loop" ELSE "line"
  BY DEF SkipToEndOfLine, InnerLoop
<1>2. /\ text \in Texts /\ Len(text) \in Nat /\ TokStart \in Nat /\ CurPtr \in Nat
      /\ TokStart + 1 <= CurPtr /\ CurPtr <= Len(text)
  BY <1>1, InnerAt
<1>3. /\ Char(TokStart) = "/" /\ Char(TokStart + 1) = "/"
      /\ \A q \in TokStart + 1 .. CurPtr - 1 : Char(q) \notin Newline
  BY <1>1 DEF ScanInv
<1>4. CASE AtEnd \/ Char(CurPtr) \in Newline
  <2>1. PICK j \in TokStart + 1 .. Len(text) :
             j = (IF CurPtr = Len(text) THEN CurPtr ELSE CurPtr + 1) /\ S!Filler(TokStart, j)
    BY <1>2, <1>3, <1>4, LineFiller DEF AtEnd
  <2>2. pc' = "loop" /\ CurPtr' = j
    BY <1>1, <1>4, <2>1 DEF AtEnd
  <2> QED
    BY <1>1, <2>1, <2>2, InnerSkips
<1>5. CASE ~(AtEnd \/ Char(CurPtr) \in Newline)
  <2>1. pc' = "line" /\ pc' \in InnerLoop /\ CurPtr' = CurPtr + 1
    BY <1>1, <1>5 DEF InnerLoop
  <2>2. \A q \in TokStart + 1 .. CurPtr + 1 - 1 : Char(q) \notin Newline
    BY <1>2, <1>3, <1>5
  <2>3. ScanInv'
    BY <1>1, <1>3, <2>1, <2>2, CharKept DEF ScanInv
  <2> QED
    BY <1>1, <2>1, <2>3, InnerStays
<1> QED
  BY <1>4, <1>5

LEMMA BlockScans ==
  IInv /\ ScanInv /\ SkipMultilineComment => ScanInv' /\ (S!Next \/ UNCHANGED S!vars)
<1> SUFFICES ASSUME IInv, ScanInv, SkipMultilineComment
             PROVE  ScanInv' /\ (S!Next \/ UNCHANGED S!vars)
  OBVIOUS
<1>1. /\ pc \in InnerLoop /\ pc = "block"
      /\ text' = text /\ TokStart' = TokStart /\ Ret' = Ret
      /\ IF AtEnd THEN CurPtr' = CurPtr /\ pc' = "loop"
         ELSE IF Char(CurPtr) = "*" /\ Char(CurPtr + 1) = "/"
              THEN CurPtr' = CurPtr + 2 /\ pc' = "loop"
              ELSE CurPtr' = CurPtr + 1 /\ pc' = "block"
  BY DEF SkipMultilineComment, InnerLoop
<1>2. /\ text \in Texts /\ Len(text) \in Nat /\ TokStart \in Nat /\ CurPtr \in Nat
      /\ TokStart < CurPtr /\ CurPtr <= Len(text)
  BY <1>1, InnerAt
<1>3. /\ Char(TokStart) = "/" /\ Char(TokStart + 1) = "*" /\ TokStart + 2 <= CurPtr
      /\ \A q \in TokStart + 2 .. CurPtr - 1 : ~(Char(q) = "*" /\ Char(q + 1) = "/")
  BY <1>1 DEF ScanInv
<1> DEFINE Closes == Char(CurPtr) = "*" /\ Char(CurPtr + 1) = "/"
<1>4. CASE AtEnd \/ Closes
  <2>1. PICK j \in TokStart + 1 .. Len(text) :
             j = (IF CurPtr = Len(text) THEN CurPtr ELSE CurPtr + 2) /\ S!Filler(TokStart, j)
    BY <1>2, <1>3, <1>4, BlockFiller DEF AtEnd
  <2>2. pc' = "loop" /\ CurPtr' = j
    BY <1>1, <1>4, <2>1 DEF AtEnd
  <2> QED
    BY <1>1, <2>1, <2>2, InnerSkips
<1>5. CASE ~(AtEnd \/ Closes)
  <2>1. pc' = "block" /\ pc' \in InnerLoop /\ CurPtr' = CurPtr + 1
    BY <1>1, <1>5 DEF InnerLoop
  <2>2. /\ TokStart + 2 <= CurPtr + 1
        /\ \A q \in TokStart + 2 .. CurPtr + 1 - 1 : ~(Char(q) = "*" /\ Char(q + 1) = "/")
    BY <1>2, <1>3, <1>5
  <2>3. /\ Char(TokStart)' = "/" /\ Char(TokStart + 1)' = "*" /\ TokStart' + 2 <= CurPtr'
        /\ \A q \in TokStart' + 2 .. CurPtr' - 1 : ~(Char(q)' = "*" /\ Char(q + 1)' = "/")
    BY <1>1, <1>2, <1>3, <2>1, <2>2, CharKept
  <2>4. ScanInv'
    BY <2>1, <2>3 DEF ScanInv
  <2> QED
    BY <1>1, <2>1, <2>4, InnerStays
<1> QED
  BY <1>4, <1>5

LEMMA IdentifierScans ==
  IInv /\ ScanInv /\ LexIdentifier => ScanInv' /\ (S!Next \/ UNCHANGED S!vars)
<1> SUFFICES ASSUME IInv, ScanInv, LexIdentifier
             PROVE  ScanInv' /\ (S!Next \/ UNCHANGED S!vars)
  OBVIOUS
<1>1. /\ pc \in InnerLoop /\ pc = "identifier"
      /\ text' = text /\ TokStart' = TokStart /\ Ret' = Ret
  BY DEF LexIdentifier, InnerLoop
<1>2. /\ text \in Texts /\ Len(text) \in Nat /\ TokStart \in Nat /\ CurPtr \in Nat
      /\ TokStart < CurPtr /\ CurPtr <= Len(text)
  BY <1>1, InnerAt
<1>3. Char(TokStart) \in IdentifierStart /\ AreAll(TokStart + 1, CurPtr, IdentifierCont)
  BY <1>1 DEF ScanInv
<1>4. CASE Consume(IdentifierCont)
  <2>1. pc' = "identifier" /\ pc' \in InnerLoop /\ CurPtr' = CurPtr + 1
    BY <1>1, <1>4 DEF Consume
  <2>2. \A q \in TokStart + 1 .. CurPtr + 1 - 1 : Char(q) \in IdentifierCont
    BY <1>2, <1>3, <1>4 DEF AreAll, Consume
  <2>3. (Char(TokStart) \in IdentifierStart /\ AreAll(TokStart + 1, CurPtr, IdentifierCont))'
    BY <1>1, <1>2, <1>3, <2>1, <2>2, CharKept DEF AreAll
  <2>4. ScanInv'
    BY <2>1, <2>3 DEF ScanInv
  <2> QED
    BY <1>1, <2>1, <2>4, InnerStays
<1>5. CASE ~Consume(IdentifierCont)
  <2>1. /\ Char(CurPtr) \notin IdentifierCont /\ pc' = "idle" /\ CurPtr' = CurPtr
        /\ NextToken' = Token(KindOfIdentifier(Part(TokStart, CurPtr)), TokStart, CurPtr)
    BY <1>5 DEF LexIdentifier, Part
  <2>2. S!TokenAt(TokStart)
          = Token(KindOfIdentifier(Part(TokStart, CurPtr)), TokStart, CurPtr)
    BY <1>2, <1>3, <2>1, WordToken
  <2>3. Char(TokStart) \in IdentifierCont
    BY <1>3 DEF IdentifierCont
  <2> QED
    BY <1>1, <2>1, <2>2, <2>3, InnerTakes
<1> QED
  BY <1>4, <1>5

(* The word of a number is read before its digits, and Scan still waits.   *)
LEMMA WordScans ==
  IInv /\ ScanInv /\ LexWord => ScanInv' /\ (S!Next \/ UNCHANGED S!vars)
<1> SUFFICES ASSUME IInv, ScanInv, LexWord
             PROVE  ScanInv' /\ (S!Next \/ UNCHANGED S!vars)
  OBVIOUS
<1>1. /\ pc \in InnerLoop /\ pc = "word"
      /\ text' = text /\ TokStart' = TokStart /\ Ret' = Ret /\ base' = base
  BY DEF LexWord, InnerLoop
<1>2. TokStart \in Nat /\ CurPtr \in Nat
  BY <1>1, InnerAt
<1>3. Char(TokStart) \in Digit /\ BaseAt(TokStart)
  BY <1>1 DEF ScanInv
<1>4. (Char(TokStart) \in Digit /\ BaseAt(TokStart))'
  BY <1>1, <1>3, CharKept DEF BaseAt, MarkAt
<1>5. CASE Consume(IdentifierCont)
  <2>1. pc' = "word" /\ pc' \in InnerLoop
    BY <1>1, <1>5 DEF Consume
  <2>2. ScanInv'
    BY <1>4, <2>1 DEF ScanInv
  <2> QED
    BY <1>1, <2>1, <2>2, InnerStays
<1>6. CASE ~Consume(IdentifierCont)
  <2>1. /\ pc' = "digits" /\ pc' \in InnerLoop /\ TokEnd' = CurPtr
        /\ CurPtr' = IF base = "dec" THEN CurPtr ELSE TokStart + 2
    BY <1>6 DEF LexWord, InnerLoop
  <2>2. (IF base = "dec" THEN CurPtr = TokEnd
         ELSE TokStart + 2 <= CurPtr /\ AreAll(TokStart + 2, CurPtr, Digits[base]))'
    <3>1. CASE base = "dec"
      BY <1>1, <2>1, <3>1
    <3>2. CASE base # "dec"
      <4>1. CurPtr' = TokStart + 2 /\ \A q \in TokStart + 2 .. TokStart + 2 - 1 : FALSE
        BY <1>2, <2>1, <3>2
      <4> QED
        BY <1>1, <1>2, <3>2, <4>1 DEF AreAll
    <3> QED
      BY <3>1, <3>2
  <2>3. ScanInv'
    BY <1>4, <2>1, <2>2 DEF ScanInv
  <2> QED
    BY <1>1, <2>1, <2>3, InnerStays
<1> QED
  BY <1>5, <1>6

(* The digits end where the word does, or the token is not a number.       *)
LEMMA DigitsScan ==
  IInv /\ QuoteInv /\ ScanInv /\ LexDigits => ScanInv' /\ (S!Next \/ UNCHANGED S!vars)
<1> SUFFICES ASSUME IInv, QuoteInv, ScanInv, LexDigits
             PROVE  ScanInv' /\ (S!Next \/ UNCHANGED S!vars)
  OBVIOUS
<1>1. /\ pc \in InnerLoop /\ pc = "digits"
      /\ text' = text /\ TokStart' = TokStart /\ Ret' = Ret /\ base' = base
  BY DEF LexDigits, InnerLoop
<1>2. /\ text \in Texts /\ Len(text) \in Nat /\ TokStart \in Nat /\ CurPtr \in Nat
      /\ TokStart < CurPtr /\ CurPtr <= Len(text)
  BY <1>1, InnerAt
<1>3. /\ Char(TokStart) \in Digit /\ BaseAt(TokStart)
      /\ IF base = "dec" THEN CurPtr = TokEnd
         ELSE TokStart + 2 <= CurPtr /\ AreAll(TokStart + 2, CurPtr, Digits[base])
  BY <1>1 DEF ScanInv
<1>4. (Char(TokStart) \in Digit /\ BaseAt(TokStart))'
  BY <1>1, <1>3, CharKept DEF BaseAt, MarkAt
<1>5. base \in Base /\ TokEnd \in Nat /\ CurPtr <= TokEnd /\ Char(TokEnd) \notin IdentifierCont
  <2>1. base \in Base /\ TokEnd \in 0 .. Len(text)
    BY DEF IInv, TypeOK
  <2>2. CurPtr <= TokEnd /\ Char(TokEnd) \notin IdentifierCont
    BY <1>1 DEF IInv, Window, LexInv
  <2> QED
    BY <1>2, <2>1, <2>2
<1>6. \A q \in TokStart .. TokEnd - 1 : Char(q) \in IdentifierCont
  BY <1>1 DEF QuoteInv, WordRead
<1>7. Char(TokStart) \in IdentifierCont
  BY <1>3 DEF IdentifierCont
<1>8. CASE Consume(Digits[base])
  <2>1. pc' = "digits" /\ pc' \in InnerLoop /\ CurPtr' = CurPtr + 1 /\ Char(CurPtr) \in Digits[base]
    BY <1>1, <1>8 DEF Consume
  <2>2. base # "dec"
    BY <1>3, <1>5, <2>1, DigitsInWords
  <2>3. /\ TokStart + 2 <= CurPtr + 1
        /\ \A q \in TokStart + 2 .. CurPtr + 1 - 1 : Char(q) \in Digits[base]
    BY <1>2, <1>3, <2>1, <2>2 DEF AreAll
  <2>4. (TokStart + 2 <= CurPtr /\ AreAll(TokStart + 2, CurPtr, Digits[base]))'
    BY <1>1, <1>2, <2>1, <2>3, CharKept DEF AreAll
  <2>5. ScanInv'
    BY <1>1, <1>4, <2>1, <2>2, <2>4 DEF ScanInv
  <2> QED
    BY <1>1, <2>1, <2>5, InnerStays
<1>9. CASE ~Consume(Digits[base])
  <2>1. /\ pc' = "idle" /\ CurPtr' = CurPtr /\ Char(CurPtr) \notin Digits[base]
        /\ IF TokEnd = CurPtr THEN NextToken' = Token("number_literal", TokStart, CurPtr)
                              ELSE NextToken' = Token("unknown", TokStart, CurPtr)
    BY <1>9 DEF LexDigits
  <2>2. Char(CurPtr) \in IdentifierCont <=> TokEnd # CurPtr
    <3>1. CASE TokEnd = CurPtr
      BY <1>5, <3>1
    <3>2. CASE TokEnd # CurPtr
      BY <1>2, <1>5, <1>6, <3>2
    <3> QED
      BY <3>1, <3>2
  <2>3. CASE base = "dec"
    <3>1. TokEnd = CurPtr /\ \A b \in Base : ~MarkAt(TokStart, b)
      BY <1>3, <2>3 DEF BaseAt
    <3>2. AreAll(TokStart + 1, CurPtr, IdentifierCont)
      BY <1>2, <1>6, <3>1 DEF AreAll
    <3>3. S!TokenAt(TokStart) = Token("number_literal", TokStart, CurPtr)
      BY <1>2, <1>3, <2>2, <3>1, <3>2, DecimalToken
    <3> QED
      BY <1>1, <1>7, <2>1, <3>1, <3>3, InnerTakes
  <2>4. CASE base # "dec"
    <3>1. /\ MarkAt(TokStart, base) /\ TokStart + 2 <= CurPtr
          /\ AreAll(TokStart + 2, CurPtr, Digits[base])
      BY <1>3, <2>4 DEF BaseAt
    <3>2. S!TokenAt(TokStart) = IF Char(CurPtr) \in IdentifierCont
                                THEN Token("unknown", TokStart, CurPtr)
                                ELSE Token("number_literal", TokStart, CurPtr)
      BY <1>2, <1>5, <2>1, <3>1, PrefixedToken
    <3>3. CASE TokEnd = CurPtr
      BY <1>1, <1>7, <2>1, <2>2, <3>2, <3>3, InnerTakes
    <3>4. CASE TokEnd # CurPtr
      BY <1>1, <1>7, <2>1, <2>2, <3>2, <3>4, InnerTakes
    <3> QED
      BY <3>3, <3>4
  <2> QED
    BY <2>3, <2>4
<1> QED
  BY <1>8, <1>9

LEMMA ScanStep ==
  IInv /\ QuoteInv /\ ScanInv /\ [Next]_vars => ScanInv' /\ [S!Next]_(S!vars)
<1> SUFFICES ASSUME IInv, QuoteInv, ScanInv, [Next]_vars
             PROVE  ScanInv' /\ (S!Next \/ UNCHANGED S!vars)
  OBVIOUS
<1>1. CASE Lexing
  BY <1>1, LexTokenScans, LineScans, BlockScans, IdentifierScans, WordScans, DigitsScan
     DEF Lexing
<1>2. CASE LexCall
  <2>1. /\ pc = "idle" /\ pc' \in {"idle", "loop"} /\ text' = text /\ CurPtr' = CurPtr
        /\ Ret' = NextToken /\ NextToken' = NextToken
    BY <1>2 DEF LexCall
  <2>2. Pos' = Pos /\ Latest' = Latest
    BY <2>1 DEF Pos, Latest
  <2>3. ScanInv'
    BY <2>1 DEF ScanInv
  <2> QED
    BY <2>1, <2>2, <2>3, ScanStays
<1>3. CASE UNCHANGED vars
  <2>1. /\ text' = text /\ CurPtr' = CurPtr /\ pc' = pc /\ TokStart' = TokStart
        /\ TokEnd' = TokEnd /\ base' = base /\ NextToken' = NextToken /\ Ret' = Ret
    BY <1>3 DEF vars
  <2>2. Pos' = Pos /\ Latest' = Latest
    BY <2>1 DEF Pos, Latest
  <2>3. ScanInv'
    BY <2>1, CharKept DEF ScanInv, AreAll, BaseAt, MarkAt
  <2> QED
    BY <2>1, <2>2, <2>3, ScanStays
<1> QED
  BY <1>1, <1>2, <1>3 DEF Next

(* The lexer delivers the tokens of the text: each of its iterations takes *)
(* the longest token where it is, skips one blank or comment whole, or is  *)
(* on the way to that (Lexer.cpp:122-280, 378-609).                        *)
THEOREM ImplementsScan == Spec => Implements
<1>1. Init => QuoteInv
  BY DEF Init, QuoteInv, WordRead
<1>2. Init => ScanInv /\ S!Init
  BY DEF Init, ScanInv, S!Init, Token
<1> QED
  BY Invariant, <1>1, <1>2, QuoteStep, ScanStep, PTL DEF Spec, Implements, S!Spec

-----------------------------------------------------------------------------
(***************************************************************************)
(* The formatter.  All that the open calls of visit() have still to do, in *)
(* a row, spells the part of the text that is not printed yet (FormatInv). *)
(***************************************************************************)

-----------------------------------------------------------------------------
(* What a visitor may have to do: what is not printed, the kinds of node,  *)
(* and the rest *)
Silent == {"space", "newline", "line", "++", "--", "begin", "null", "unreachable"}

Kinds ==
    {"Module", "Contents", "Line", "Jump", "Block", "Nodes", "MoreNodes", "Node", "Func", "Vars",
     "MoreVars", "Param", "Iterator", "Range", "Type", "BaseType", "Subscript", "Values",
     "MoreValues", "Expr", "Sum", "Primary", "Postfix"}

Symbol == Kinds \union Text \union {"putSemi", "putComma"} \union Silent

LEMMA KindIs == Kind = Kinds
  BY DEF Kind, Kinds, Visitors

LEMMA BlockSymbols == "lbrace" \in Symbol /\ "Nodes" \in Symbol /\ "rbrace" \in Symbol
  BY DEF Symbol, Text, Kinds

-----------------------------------------------------------------------------
(* What the printer has still to do, all calls together *)

(* What is left of each call of cs and of those around it, from the        *)
(* outermost in                                                            *)
Rests(cs, rest) ==
    /\ rest \in [1 .. Len(cs) + 1 -> Seq(Symbol)]
    /\ rest[Len(cs) + 1] = <<>>
    /\ \A i \in 1 .. Len(cs) : rest[i] = cs[i] \o rest[i + 1]

Pending(cs, p) == \E rest : Rests(cs, rest) /\ p = rest[1]

(* A call more, with what it does *)
LEMMA PendingMore ==
    ASSUME NEW cs \in Seq(Seq(Symbol)), NEW p, Pending(cs, p), NEW c \in Seq(Symbol)
    PROVE  Pending(<<c>> \o cs, c \o p)
<1>1. PICK rest : Rests(cs, rest) /\ p = rest[1]
  BY DEF Pending
<1> DEFINE more == [i \in 1 .. Len(cs) + 2 |-> IF i = 1 THEN c \o p ELSE rest[i - 1]]
           ds == <<c>> \o cs
<1>2. /\ Len(ds) = Len(cs) + 1 /\ Len(cs) \in Nat /\ ds[1] = c
      /\ \A i \in 1 .. Len(cs) : ds[i + 1] = cs[i]
  OBVIOUS
<1>3. p \in Seq(Symbol) /\ c \o p \in Seq(Symbol)
  <2>1. 1 \in 1 .. Len(cs) + 1
    BY <1>2
  <2>2. rest[1] \in Seq(Symbol)
    BY <1>1, <2>1 DEF Rests
  <2> QED
    BY <1>1, <2>2
<1>4. \A i \in 1 .. Len(cs) + 1 : more[i + 1] = rest[i]
  BY <1>2
<1>5. more[1] = c \o p
  BY <1>2
<1>6. more \in [1 .. Len(cs) + 2 -> Seq(Symbol)]
  <2>1. ASSUME NEW i \in 1 .. Len(cs) + 2, i # 1 PROVE rest[i - 1] \in Seq(Symbol)
    <3>1. i - 1 \in 1 .. Len(cs) + 1
      BY <1>2, <2>1
    <3> QED
      BY <1>1, <3>1 DEF Rests
  <2> QED
    BY <1>3, <2>1
<1> HIDE DEF more, ds
<1>7. ASSUME NEW i \in 1 .. Len(ds)
      PROVE  more[i] = ds[i] \o more[i + 1]
  <2>1. CASE i = 1
    <3>1. more[1 + 1] = rest[1]
      BY <1>2, <1>4
    <3> QED
      BY <1>1, <1>2, <1>5, <2>1, <3>1
  <2>2. CASE i # 1
    <3>1. PICK k \in 1 .. Len(cs) : i = k + 1
      <4>1. i - 1 \in 1 .. Len(cs) /\ i = (i - 1) + 1
        BY <1>2, <2>2
      <4> QED
        BY <4>1
    <3>2. rest[k] = cs[k] \o rest[k + 1]
      BY <1>1 DEF Rests
    <3>3. more[k + 1] = rest[k] /\ more[(k + 1) + 1] = rest[k + 1]
      BY <1>2, <1>4
    <3> QED
      BY <1>2, <3>1, <3>2, <3>3
  <2> QED
    BY <2>1, <2>2
<1>8. more[Len(ds) + 1] = <<>>
  BY <1>1, <1>2, <1>4 DEF Rests
<1>9. Rests(ds, more)
  BY <1>2, <1>6, <1>7, <1>8 DEF Rests
<1> QED
  BY <1>5, <1>9 DEF Pending, ds

(* The innermost call comes first. *)
LEMMA PendingLess ==
    ASSUME NEW cs \in Seq(Seq(Symbol)), NEW p, Pending(cs, p), cs # <<>>
    PROVE  \E q \in Seq(Symbol) : Pending(Tail(cs), q) /\ p = Head(cs) \o q
<1>1. PICK rest : Rests(cs, rest) /\ p = rest[1]
  BY DEF Pending
<1> DEFINE less == [i \in 1 .. Len(cs) |-> rest[i + 1]]
<1>2. /\ Len(cs) \in Nat /\ Len(cs) > 0 /\ Len(Tail(cs)) = Len(cs) - 1 /\ Head(cs) = cs[1]
      /\ \A i \in 1 .. Len(cs) - 1 : Tail(cs)[i] = cs[i + 1]
  OBVIOUS
<1>3. less \in [1 .. Len(cs) -> Seq(Symbol)]
  BY <1>1, <1>2 DEF Rests
<1>4. \A i \in 1 .. Len(cs) : less[i] = rest[i + 1]
  OBVIOUS
<1> HIDE DEF less
<1>5. ASSUME NEW i \in 1 .. Len(cs) - 1
      PROVE  less[i] = Tail(cs)[i] \o less[i + 1]
  <2>1. i + 1 \in 1 .. Len(cs) /\ i \in 1 .. Len(cs)
    BY <1>2
  <2>2. rest[i + 1] = cs[i + 1] \o rest[(i + 1) + 1]
    BY <1>1, <2>1 DEF Rests
  <2> QED
    BY <1>2, <1>4, <2>1, <2>2
<1>6. less[Len(cs)] = <<>>
  BY <1>1, <1>2, <1>4 DEF Rests
<1>7. Rests(Tail(cs), less)
  BY <1>2, <1>3, <1>5, <1>6 DEF Rests
<1>8. p = cs[1] \o less[1] /\ less[1] \in Seq(Symbol)
  <2>1. 1 \in 1 .. Len(cs) /\ 1 + 1 = 2
    BY <1>2
  <2>2. rest[1] = cs[1] \o rest[1 + 1]
    BY <1>1, <2>1 DEF Rests
  <2> QED
    BY <1>1, <1>3, <1>4, <2>1, <2>2
<1> QED
  BY <1>2, <1>7, <1>8 DEF Pending

Calls == Seq(Symbol) \ {<<>>}

(* A step does the first thing that is left. *)
LEMMA GoesOnIs ==
    ASSUME calls \in Seq(Calls), calls # <<>>, NEW p, Pending(calls, p)
    PROVE  /\ p \in Seq(Symbol) /\ p # <<>> /\ Now = p[1]
           /\ \A does \in Seq(Symbol) : GoesOn(does) =>
                 /\ calls' \in Seq(Calls)
                 /\ Pending(calls', does \o Tail(p))
<1>1. calls \in Seq(Seq(Symbol)) /\ Head(calls) \in Seq(Symbol) /\ Head(calls) # <<>>
      /\ Tail(calls) \in Seq(Calls) /\ Tail(calls) \in Seq(Seq(Symbol))
  BY DEF Calls
<1>2. PICK q \in Seq(Symbol) : Pending(Tail(calls), q) /\ p = Head(calls) \o q
  BY <1>1, PendingLess
<1>3. PICK c \in Seq(Symbol) : c = Head(calls) /\ c # <<>>
  BY <1>1
<1>4. /\ p \in Seq(Symbol) /\ p # <<>> /\ p[1] = Head(c)
      /\ Tail(p) = Tail(c) \o q /\ Tail(c) \in Seq(Symbol)
  <2>1. p = c \o q
    BY <1>2, <1>3
  <2>2. Len(c) \in Nat /\ Len(c) > 0 /\ Len(q) \in Nat /\ Len(c \o q) = Len(c) + Len(q)
    BY <1>3
  <2>3. c \o q \in Seq(Symbol) /\ c \o q # <<>> /\ (c \o q)[1] = c[1] /\ Head(c) = c[1]
    BY <1>3, <2>2
  <2>4. Tail(c \o q) = Tail(c) \o q /\ Tail(c) \in Seq(Symbol)
    <3>1. Tail(c) \in Seq(Symbol) /\ c[1] \in Symbol /\ c = <<c[1]>> \o Tail(c)
      BY <1>3, <2>2
    <3>2. ASSUME NEW x \in Symbol, NEW d \in Seq(Symbol)
          PROVE  Tail((<<x>> \o d) \o q) = d \o q
      <4>1. (<<x>> \o d) \o q = <<x>> \o (d \o q) /\ d \o q \in Seq(Symbol)
        BY <1>2
      <4>2. \A e \in Seq(Symbol) : Tail(<<x>> \o e) = e
        OBVIOUS
      <4> QED
        BY <4>1, <4>2
    <3>3. PICK x \in Symbol, d \in Seq(Symbol) : x = c[1] /\ d = Tail(c) /\ c = <<x>> \o d
      BY <3>1
    <3> QED
      BY <3>2, <3>3
  <2> QED
    BY <2>1, <2>3, <2>4
<1>a. \A d \in Seq(Symbol) : Going(d) \in Seq(Calls)
  <2>1. ASSUME NEW d \in Seq(Symbol) PROVE Going(d) \in Seq(Calls)
    <3>1. CASE d = <<>>
      BY <3>1 DEF Going
    <3>2. CASE d # <<>>
      <4>1. d \in Calls /\ Going(d) = <<d>>
        BY <3>2 DEF Calls, Going
      <4> QED
        BY <4>1
    <3> QED
      BY <3>1, <3>2
  <2> QED
    BY <2>1
<1>5. ASSUME NEW cs \in Seq(Calls), NEW r, Pending(cs, r), NEW d \in Seq(Symbol), r \in Seq(Symbol)
      PROVE  /\ Going(d) \o cs \in Seq(Calls)
             /\ Pending(Going(d) \o cs, d \o r)
  <2>1. CASE d = <<>>
    BY <1>5, <2>1 DEF Going
  <2>2. CASE d # <<>>
    <3>1. Going(d) = <<d>> /\ d \in Calls /\ cs \in Seq(Seq(Symbol))
      BY <2>2 DEF Going, Calls
    <3> QED
      BY <1>5, <3>1, PendingMore
  <2> QED
    BY <2>1, <2>2
<1>6. ASSUME NEW does \in Seq(Symbol), GoesOn(does)
      PROVE  calls' \in Seq(Calls) /\ Pending(calls', does \o Tail(p))
  <2>1. PICK cs \in Seq(Calls) : cs = Going(Tail(c)) \o Tail(calls) /\ Pending(cs, Tail(p))
    BY <1>1, <1>2, <1>4, <1>5
  <2>2. calls' = Going(does) \o cs
    <3>1. calls' = Going(does) \o Going(Tail(c)) \o Tail(calls)
      BY <1>3, <1>6 DEF GoesOn
    <3>2. Going(does) \in Seq(Calls) /\ Going(Tail(c)) \in Seq(Calls)
      BY <1>4, <1>a
    <3>3. PICK x \in Seq(Calls), y \in Seq(Calls), z \in Seq(Calls) :
             x = Going(does) /\ y = Going(Tail(c)) /\ z = Tail(calls)
      BY <1>1, <3>2
    <3>4. (x \o y) \o z = x \o (y \o z)
      OBVIOUS
    <3> QED
      BY <2>1, <3>1, <3>3, <3>4
  <2>3. Tail(p) \in Seq(Symbol)
    BY <1>4
  <2> QED
    BY <1>5, <2>1, <2>2, <2>3
<1> QED
  BY <1>3, <1>4, <1>6 DEF Now

-----------------------------------------------------------------------------
(* and how it spells what was read *)

TokenOf(x) == IF x \in DOMAIN Raw THEN Raw[x] ELSE x

(* Token for token, f is at the places g of p, and there is nothing but    *)
(* layout between.                                                         *)
Spells(p, f, g) ==
    /\ g \in [1 .. Len(f) -> 1 .. Len(p)]
    /\ \A j, k \in 1 .. Len(f) : j < k => g[j] < g[k]
    /\ \A j \in 1 .. Len(f) : p[g[j]] \notin Silent /\ f[j] = TokenOf(p[g[j]])
    /\ \A i \in 1 .. Len(p) : p[i] \in Silent \/ \E j \in 1 .. Len(f) : g[j] = i

Reads(p, f) == \E g : Spells(p, f, g)

LEMMA ReadsNone ==
    ASSUME NEW f \in Seq(Symbol), Reads(<<>>, f)
    PROVE  f = <<>>
<1>1. PICK g : Spells(<<>>, f, g)
  BY DEF Reads
<1>2. Len(f) = 0
  BY <1>1 DEF Spells
<1> QED
  BY <1>2, EmptySeq

(* Layout first *)
LEMMA ReadsSilent ==
    ASSUME NEW p \in Seq(Symbol), p # <<>>, NEW f \in Seq(Symbol), Reads(p, f), p[1] \in Silent
    PROVE  Reads(Tail(p), f)
<1>1. PICK g : Spells(p, f, g)
  BY DEF Reads
<1> DEFINE h == [j \in 1 .. Len(f) |-> g[j] - 1]
<1>2. /\ Len(p) \in Nat /\ Len(p) > 0 /\ Len(Tail(p)) = Len(p) - 1 /\ Len(f) \in Nat
      /\ \A i \in 1 .. Len(p) - 1 : Tail(p)[i] = p[i + 1]
  OBVIOUS
<1>3. \A j \in 1 .. Len(f) : g[j] \in 1 .. Len(p) /\ g[j] # 1
  BY <1>1 DEF Spells
<1>4. \A j \in 1 .. Len(f) :
          h[j] = g[j] - 1 /\ h[j] \in 1 .. Len(Tail(p)) /\ Tail(p)[h[j]] = p[g[j]]
  BY <1>2, <1>3
<1>5. h \in [1 .. Len(f) -> 1 .. Len(Tail(p))]
  BY <1>4
<1> HIDE DEF h
<1>6. \A j, k \in 1 .. Len(f) : j < k => h[j] < h[k]
  BY <1>1, <1>3, <1>4 DEF Spells
<1>7. \A j \in 1 .. Len(f) : Tail(p)[h[j]] \notin Silent /\ f[j] = TokenOf(Tail(p)[h[j]])
  BY <1>1, <1>4 DEF Spells
<1>8. ASSUME NEW i \in 1 .. Len(Tail(p))
      PROVE  Tail(p)[i] \in Silent \/ \E j \in 1 .. Len(f) : h[j] = i
  <2>1. i + 1 \in 1 .. Len(p) /\ Tail(p)[i] = p[i + 1]
    BY <1>2
  <2>2. CASE p[i + 1] \in Silent
    BY <2>1, <2>2
  <2>3. CASE \E j \in 1 .. Len(f) : g[j] = i + 1
    <3>1. PICK j \in 1 .. Len(f) : g[j] = i + 1
      BY <2>3
    <3>2. h[j] = g[j] - 1 /\ i \in Nat
      BY <1>2, <1>4
    <3>3. h[j] = i
      BY <3>1, <3>2
    <3> QED
      BY <3>3
  <2> QED
    BY <1>1, <2>1, <2>2, <2>3 DEF Spells
<1>9. Spells(Tail(p), f, h)
  BY <1>5, <1>6, <1>7, <1>8 DEF Spells
<1> QED
  BY <1>9 DEF Reads

(* Something else first *)
LEMMA ReadsFirst ==
    ASSUME NEW p \in Seq(Symbol), p # <<>>, NEW f \in Seq(Symbol), Reads(p, f), p[1] \notin Silent
    PROVE  f # <<>> /\ f[1] = TokenOf(p[1]) /\ Reads(Tail(p), Tail(f))
<1>1. PICK g : Spells(p, f, g)
  BY DEF Reads
<1>2. /\ Len(p) \in Nat /\ Len(p) > 0 /\ Len(Tail(p)) = Len(p) - 1 /\ Len(f) \in Nat
      /\ \A i \in 1 .. Len(p) - 1 : Tail(p)[i] = p[i + 1]
  OBVIOUS
<1>a. \A j \in 1 .. Len(f) : g[j] \in 1 .. Len(p)
  BY <1>1 DEF Spells
<1>3. PICK first \in 1 .. Len(f) : g[first] = 1
  BY <1>1, <1>2 DEF Spells
<1>4. first = 1
  <2>1. CASE 1 < first
    <3>1. 1 \in 1 .. Len(f)
      BY <2>1, <1>2
    <3>2. g[1] < g[first] /\ g[1] \in 1 .. Len(p)
      BY <1>1, <1>a, <3>1, <2>1 DEF Spells
    <3> QED
      BY <1>2, <1>3, <3>2
  <2> QED
    BY <2>1
<1>5. /\ Len(f) > 0 /\ f # <<>> /\ Len(Tail(f)) = Len(f) - 1
      /\ \A i \in 1 .. Len(f) - 1 : Tail(f)[i] = f[i + 1]
  BY <1>2, <1>4
<1> DEFINE h == [j \in 1 .. Len(f) - 1 |-> g[j + 1] - 1]
<1>6. \A j \in 1 .. Len(f) - 1 : j + 1 \in 1 .. Len(f) /\ g[j + 1] \in 1 .. Len(p) /\ g[j + 1] > 1
  <2>1. ASSUME NEW j \in 1 .. Len(f) - 1
        PROVE  j + 1 \in 1 .. Len(f) /\ g[j + 1] \in 1 .. Len(p) /\ g[j + 1] > 1
    <3>1. j + 1 \in 1 .. Len(f) /\ 1 \in 1 .. Len(f) /\ 1 < j + 1
      BY <1>2
    <3>2. g[1] < g[j + 1] /\ g[j + 1] \in 1 .. Len(p)
      BY <1>1, <1>a, <3>1 DEF Spells
    <3> QED
      BY <1>3, <1>4, <3>1, <3>2
  <2> QED
    BY <2>1
<1>7. \A j \in 1 .. Len(f) - 1 :
          h[j] = g[j + 1] - 1 /\ h[j] \in 1 .. Len(Tail(p)) /\ Tail(p)[h[j]] = p[g[j + 1]]
  BY <1>2, <1>6
<1>8. h \in [1 .. Len(Tail(f)) -> 1 .. Len(Tail(p))]
  BY <1>5, <1>7
<1> HIDE DEF h
<1>9. \A j, k \in 1 .. Len(Tail(f)) : j < k => h[j] < h[k]
  <2>1. ASSUME NEW j \in 1 .. Len(f) - 1, NEW k \in 1 .. Len(f) - 1, j < k
        PROVE  h[j] < h[k]
    <3>1. g[j + 1] < g[k + 1]
      BY <1>1, <1>6, <2>1 DEF Spells
    <3> QED
      BY <1>6, <1>7, <3>1
  <2> QED
    BY <1>5, <2>1
<1>10. \A j \in 1 .. Len(Tail(f)) :
          Tail(p)[h[j]] \notin Silent /\ Tail(f)[j] = TokenOf(Tail(p)[h[j]])
  BY <1>1, <1>5, <1>6, <1>7 DEF Spells
<1>11. ASSUME NEW i \in 1 .. Len(Tail(p))
       PROVE  Tail(p)[i] \in Silent \/ \E j \in 1 .. Len(Tail(f)) : h[j] = i
  <2>1. i + 1 \in 1 .. Len(p) /\ Tail(p)[i] = p[i + 1] /\ i \in Nat /\ i > 0
    BY <1>2
  <2>2. CASE \E k \in 1 .. Len(f) : g[k] = i + 1
    <3>1. PICK k \in 1 .. Len(f) : g[k] = i + 1
      BY <2>2
    <3>2. k # 1
      BY <1>3, <1>4, <2>1, <3>1
    <3>3. k - 1 \in 1 .. Len(f) - 1 /\ (k - 1) + 1 = k
      BY <1>2, <3>2
    <3>4. h[k - 1] = i
      BY <1>7, <2>1, <3>1, <3>3
    <3> QED
      BY <1>5, <3>3, <3>4
  <2>3. CASE p[i + 1] \in Silent
    BY <2>1, <2>3
  <2> QED
    BY <1>1, <2>1, <2>2, <2>3 DEF Spells
<1>12. Reads(Tail(p), Tail(f))
  BY <1>8, <1>9, <1>10, <1>11 DEF Spells, Reads
<1>13. f[1] = TokenOf(p[1])
  BY <1>1, <1>3, <1>4 DEF Spells
<1> QED
  BY <1>5, <1>12, <1>13

(* One behind the other *)
LEMMA ReadsBoth ==
    ASSUME NEW p \in Seq(Symbol), NEW f \in Seq(Symbol), Reads(p, f),
           NEW q \in Seq(Symbol), NEW e \in Seq(Symbol), Reads(q, e)
    PROVE  Reads(p \o q, f \o e)
<1>1. PICK g : Spells(p, f, g)
  BY DEF Reads
<1>2. PICK h : Spells(q, e, h)
  BY DEF Reads
<1>a. PICK l \in Nat, m \in Nat, k \in Nat, n \in Nat :
         l = Len(p) /\ m = Len(q) /\ k = Len(f) /\ n = Len(e)
  OBVIOUS
<1> DEFINE both == [j \in 1 .. k + n |-> IF j <= k THEN g[j] ELSE l + h[j - k]]
<1>3. /\ Len(p \o q) = l + m /\ Len(f \o e) = k + n
      /\ \A i \in 1 .. l : (p \o q)[i] = p[i]
      /\ \A i \in 1 .. m : (p \o q)[l + i] = q[i]
      /\ \A i \in 1 .. k : (f \o e)[i] = f[i]
      /\ \A i \in 1 .. n : (f \o e)[k + i] = e[i]
  BY <1>a
<1>4. \A j \in 1 .. k : j \in 1 .. k + n /\ both[j] = g[j] /\ g[j] \in 1 .. l
  <2>1. \A j \in 1 .. k : g[j] \in 1 .. l
    BY <1>1, <1>a DEF Spells
  <2>2. \A j \in 1 .. k : j \in 1 .. k + n /\ both[j] = g[j]
    OBVIOUS
  <2> QED
    BY <2>1, <2>2
<1>5. \A j \in 1 .. n : k + j \in 1 .. k + n /\ both[k + j] = l + h[j] /\ h[j] \in 1 .. m
  BY <1>2, <1>a DEF Spells
<1>6. \A j \in 1 .. k + n : j \in 1 .. k \/ \E i \in 1 .. n : j = k + i
  <2>1. ASSUME NEW j \in 1 .. k + n, j \notin 1 .. k PROVE \E i \in 1 .. n : j = k + i
    <3>1. j - k \in 1 .. n /\ j = k + (j - k)
      BY <2>1
    <3> QED
      BY <3>1
  <2> QED
    BY <2>1
<1>7. both = [j \in 1 .. k + n |-> both[j]]
  OBVIOUS
<1> HIDE DEF both
<1>8. ASSUME NEW j \in 1 .. k + n
      PROVE  both[j] \in 1 .. l + m
  <2>1. CASE j \in 1 .. k
    <3>1. both[j] = g[j] /\ g[j] \in 1 .. l
      BY <1>4, <2>1
    <3> QED
      BY ONLY <3>1, l \in Nat, m \in Nat
  <2>2. CASE j \notin 1 .. k
    <3>1. PICK x \in 1 .. n : j = k + x
      BY <1>6, <2>2
    <3>2. both[k + x] = l + h[x] /\ h[x] \in 1 .. m
      BY <1>5, <3>1
    <3> QED
      BY ONLY <3>1, <3>2, l \in Nat, m \in Nat
  <2> QED
    BY <2>1, <2>2
<1>9. both \in [1 .. k + n -> 1 .. l + m]
  BY <1>7, <1>8
<1>10. ASSUME NEW i \in 1 .. k + n, NEW j \in 1 .. k + n, i < j
       PROVE  both[i] < both[j]
  <2>1. CASE j \in 1 .. k
    <3>1. i \in 1 .. k
      BY <1>10, <2>1
    <3>2. g[i] < g[j]
      BY <1>1, <1>a, <1>10, <2>1, <3>1 DEF Spells
    <3> QED
      BY <1>4, <2>1, <3>1, <3>2
  <2>2. CASE i \in 1 .. k /\ j \notin 1 .. k
    <3>1. PICK x \in 1 .. n : j = k + x
      BY <1>6, <2>2
    <3>2. both[i] = g[i] /\ g[i] \in 1 .. l
      BY <1>4, <2>2
    <3>3. both[k + x] = l + h[x] /\ h[x] \in 1 .. m
      BY <1>5, <3>1
    <3> QED
      BY ONLY <3>1, <3>2, <3>3, l \in Nat, m \in Nat
  <2>3. CASE i \notin 1 .. k /\ j \notin 1 .. k
    <3>1. PICK x \in 1 .. n, y \in 1 .. n : i = k + x /\ j = k + y
      BY <1>6, <2>3
    <3>2. x < y
      BY <1>10, <3>1
    <3>3. h[x] < h[y]
      BY <1>2, <1>a, <3>2 DEF Spells
    <3> QED
      BY <1>5, <3>1, <3>3
  <2> QED
    BY <2>1, <2>2, <2>3
<1>11. ASSUME NEW j \in 1 .. k + n
       PROVE  (p \o q)[both[j]] \notin Silent /\ (f \o e)[j] = TokenOf((p \o q)[both[j]])
  <2>1. CASE j \in 1 .. k
    BY <1>1, <1>a, <1>3, <1>4, <2>1 DEF Spells
  <2>2. CASE j \notin 1 .. k
    <3>1. PICK x \in 1 .. n : j = k + x
      BY <1>6, <2>2
    <3>2. q[h[x]] \notin Silent /\ e[x] = TokenOf(q[h[x]])
      BY <1>2, <1>a DEF Spells
    <3> QED
      BY <1>3, <1>5, <3>1, <3>2
  <2> QED
    BY <2>1, <2>2
<1>12. ASSUME NEW i \in 1 .. l + m
       PROVE  (p \o q)[i] \in Silent \/ \E j \in 1 .. k + n : both[j] = i
  <2>1. CASE i \in 1 .. l
    <3>1. p[i] \in Silent \/ \E j \in 1 .. k : g[j] = i
      BY <1>1, <1>a, <2>1 DEF Spells
    <3> QED
      BY <1>3, <1>4, <2>1, <3>1
  <2>2. CASE i \notin 1 .. l
    <3>1. PICK x \in 1 .. m : i = l + x
      <4>1. i - l \in 1 .. m /\ i = l + (i - l)
        BY <2>2
      <4> QED
        BY <4>1
    <3>2. q[x] \in Silent \/ \E j \in 1 .. n : h[j] = x
      BY <1>2, <1>a DEF Spells
    <3> QED
      BY <1>3, <1>5, <3>1, <3>2
  <2> QED
    BY <2>1, <2>2
<1>13. Spells(p \o q, f \o e, both)
  <2>1. Len(p \o q) = l + m /\ Len(f \o e) = k + n
    BY <1>3
  <2> QED
    BY <2>1, <1>9, <1>10, <1>11, <1>12 DEF Spells
<1> QED
  BY <1>13 DEF Reads

-----------------------------------------------------------------------------
(* Closing braces *)

LEMMA BracesAreFinite ==
    ASSUME NEW s \in Seq(Symbol)
    PROVE  IsFiniteSet(Braces(s)) /\ Cardinality(Braces(s)) \in Nat
<1>1. Braces(s) \subseteq 1 .. Len(s) /\ IsFiniteSet(1 .. Len(s))
  BY FS_Interval DEF Braces
<1>2. IsFiniteSet(Braces(s))
  BY <1>1, FS_Subset
<1> QED
  BY <1>2, FS_CardinalityType

(* Numbers moved up are as many. *)
LEMMA Moved ==
    ASSUME NEW places, IsFiniteSet(places), places \subseteq Nat, NEW k \in Nat
    PROVE  IsFiniteSet({i + k : i \in places}) /\ Cardinality({i + k : i \in places}) = Cardinality(places)
<1> DEFINE T == {i + k : i \in places}
           f == [i \in places |-> i + k]
<1>1. f \in [places -> T]
  OBVIOUS
<1>2. \A i, j \in places : f[i] = f[j] => i = j
  OBVIOUS
<1>3. \A t \in T : \E i \in places : f[i] = t
  OBVIOUS
<1> HIDE DEF f, T
<1>4. f \in Bijection(places, T)
  BY <1>1, <1>2, <1>3 DEF Bijection, Injection, Surjection, IsInjective
<1>5. ExistsBijection(places, T)
  BY <1>4 DEF ExistsBijection
<1>6. IsFiniteSet(T) /\ Cardinality(T) = Cardinality(places)
  BY <1>5, FS_Bijection
<1> QED
  BY <1>6 DEF T

LEMMA BracesBoth ==
    ASSUME NEW a \in Seq(Symbol), NEW s \in Seq(Symbol)
    PROVE  Cardinality(Braces(a \o s)) = Cardinality(Braces(a)) + Cardinality(Braces(s))
<1>1. PICK l \in Nat, n \in Nat : l = Len(a) /\ n = Len(s)
  OBVIOUS
<1>2. /\ DOMAIN (a \o s) = 1 .. l + n /\ DOMAIN s = 1 .. n /\ DOMAIN a = 1 .. l
      /\ \A i \in 1 .. l : (a \o s)[i] = a[i]
      /\ \A i \in 1 .. n : (a \o s)[l + i] = s[i]
  BY <1>1
<1> DEFINE up == {j + l : j \in Braces(s)}
<1>3. ASSUME NEW i \in Braces(a \o s)
      PROVE  i \in Braces(a) \union up
  <2>1. i \in 1 .. l + n /\ (a \o s)[i] = "rbrace"
    BY <1>2 DEF Braces
  <2>2. CASE i \in 1 .. l
    BY <1>2, <2>1, <2>2 DEF Braces
  <2>3. CASE i \notin 1 .. l
    <3>1. i - l \in 1 .. n /\ i = l + (i - l) /\ i = (i - l) + l
      BY <2>1, <2>3
    <3>2. i - l \in Braces(s)
      BY <1>2, <2>1, <3>1 DEF Braces
    <3> QED
      BY <3>1, <3>2
  <2> QED
    BY <2>2, <2>3
<1>4. ASSUME NEW j \in Braces(s)
      PROVE  j + l \in Braces(a \o s)
  <2>1. j \in 1 .. n /\ s[j] = "rbrace"
    BY <1>2 DEF Braces
  <2>2. (a \o s)[l + j] = s[j] /\ j + l = l + j /\ l + j \in 1 .. l + n
    BY <1>2, <2>1
  <2> QED
    BY <1>2, <2>1, <2>2 DEF Braces
<1>5. Braces(a) \subseteq Braces(a \o s)
  BY <1>2 DEF Braces
<1>6. Braces(a \o s) = Braces(a) \union up
  BY <1>3, <1>4, <1>5
<1>7. Braces(s) \subseteq 1 .. n /\ Braces(a) \subseteq 1 .. l
  BY <1>2 DEF Braces
<1>8. IsFiniteSet(up) /\ Cardinality(up) = Cardinality(Braces(s))
  <2>1. Braces(s) \subseteq Nat
    BY <1>7
  <2> QED
    BY <2>1, Moved, BracesAreFinite
<1>9. Braces(a) \intersect up = {}
  BY <1>7
<1> HIDE DEF up
<1>10. Cardinality(Braces(a) \union up) = Cardinality(Braces(a)) + Cardinality(up) - Cardinality({})
  BY <1>8, <1>9, BracesAreFinite, FS_Union
<1>11. Cardinality({}) = 0 /\ Cardinality(Braces(a)) \in Nat /\ Cardinality(Braces(s)) \in Nat
  BY BracesAreFinite, FS_EmptySet
<1> QED
  BY <1>6, <1>8, <1>10, <1>11

LEMMA BracesFrom ==
    ASSUME NEW f \in Seq(Symbol), f # <<>>
    PROVE  Cardinality(Braces(f))
              = Cardinality(Braces(Tail(f))) + (IF f[1] = "rbrace" THEN 1 ELSE 0)
<1>1. /\ Tail(f) \in Seq(Symbol) /\ f[1] \in Symbol /\ <<f[1]>> \in Seq(Symbol)
      /\ f = <<f[1]>> \o Tail(f)
  OBVIOUS
<1>2. PICK x \in Symbol, s \in Seq(Symbol) : x = f[1] /\ s = Tail(f) /\ f = <<x>> \o s
  BY <1>1
<1>3. Cardinality(Braces(s)) \in Nat
  BY BracesAreFinite
<1>4. Cardinality(Braces(<<x>>)) = IF x = "rbrace" THEN 1 ELSE 0
  <2>1. Braces(<<x>>) = IF x = "rbrace" THEN {1} ELSE {}
    BY DEF Braces
  <2> QED
    BY <2>1, FS_EmptySet, FS_Singleton
<1>5. <<x>> \in Seq(Symbol)
  OBVIOUS
<1>6. Cardinality(Braces(<<x>> \o s)) = Cardinality(Braces(<<x>>)) + Cardinality(Braces(s))
  BY <1>5, BracesBoth
<1>7. Cardinality(Braces(f)) = (IF x = "rbrace" THEN 1 ELSE 0) + Cardinality(Braces(s))
  BY <1>2, <1>4, <1>6
<1>8. Cardinality(Braces(f)) = Cardinality(Braces(s)) + (IF x = "rbrace" THEN 1 ELSE 0)
  BY <1>3, <1>7
<1>9. x = f[1] /\ s = Tail(f)
  BY <1>2
<1> QED
  BY <1>8, <1>9

(* A block has one. *)
LEMMA BlockBraces ==
    Cardinality(Braces(<<"lbrace", "Nodes", "rbrace">>)) = 1
<1>1. Braces(<<"lbrace", "Nodes", "rbrace">>) = {3}
  BY DEF Braces
<1> QED
  BY <1>1, FS_Singleton

(* Those of the form are those of p. *)
LEMMA BracesAreSpelt ==
    ASSUME NEW p \in Seq(Symbol), NEW f \in Seq(Symbol), Reads(p, f)
    PROVE  (\E i \in 1 .. Len(p) : p[i] = "rbrace") <=> Cardinality(Braces(f)) > 0
<1>1. PICK g : Spells(p, f, g)
  BY DEF Reads
<1>2. \A j \in 1 .. Len(f) : (f[j] = "rbrace") <=> (p[g[j]] = "rbrace")
  BY <1>1 DEF Spells, TokenOf, Raw
<1>3. (\E i \in 1 .. Len(p) : p[i] = "rbrace") <=> (\E j \in 1 .. Len(f) : f[j] = "rbrace")
  <2>1. ASSUME NEW i \in 1 .. Len(p), p[i] = "rbrace"
        PROVE  \E j \in 1 .. Len(f) : f[j] = "rbrace"
    <3>1. "rbrace" \notin Silent
      BY DEF Silent
    <3>2. PICK j \in 1 .. Len(f) : g[j] = i
      BY <1>1, <2>1, <3>1 DEF Spells
    <3> QED
      BY <1>2, <2>1, <3>2
  <2>2. ASSUME NEW j \in 1 .. Len(f), f[j] = "rbrace"
        PROVE  \E i \in 1 .. Len(p) : p[i] = "rbrace"
    <3>1. g[j] \in 1 .. Len(p)
      BY <1>1 DEF Spells
    <3> QED
      BY <1>2, <2>2, <3>1
  <2> QED
    BY <2>1, <2>2
<1>4. (\E j \in 1 .. Len(f) : f[j] = "rbrace") <=> Braces(f) # {}
  BY DEF Braces
<1>5. Cardinality(Braces(f)) \in Nat /\ (Cardinality(Braces(f)) = 0 <=> Braces(f) = {})
  BY BracesAreFinite, FS_EmptySet
<1> QED
  BY <1>3, <1>4, <1>5

-----------------------------------------------------------------------------
(* What may stand next to each other in what is still to be done *)

(* What may end with a word, or with nothing behind what does *)
WordEnd ==
    Word \union {"Expr", "Sum", "Primary", "Postfix", "Type", "BaseType", "Param", "Iterator",
                 "Range", "Func", "Values", "MoreValues", "Vars", "MoreVars"}

(* What never begins with one, nor with something that may be nothing *)
AfterWord ==
    {"space", "semi", "putSemi", ":", "(", ")", "[", "]", "comma", "putComma", "..", "...",
     "Subscript", "MoreValues", "MoreVars"}

Operand ==
    {"Expr", "Sum", "Primary", "Postfix", "name", "number", "[", "(", "-", "!", "&"}

Operator == {"!", "-", "&", "..", "..."}

(* b may follow a with nothing between them. *)
Glue(a, b) ==
    /\ a \in WordEnd => b \in AfterWord
    /\ a \in Operator => b \in Operand
    /\ a = "=" => b = "space"

(* Where lines begin and blocks end *)
Order(a, b) ==
    /\ a = "--" <=> b = "rbrace"
    /\ a = "lbrace" <=> b = "++"
    /\ a = "++" <=> b = "Nodes"
    /\ a = "Nodes" => b = "--"
    /\ a = "Contents" => b = "newline"
    /\ b # "lbrace" /\ a # "Module"
    /\ b = "Block" => a = "space"
    /\ a = "null" => b = "semi"
    /\ b = "begin" => a = "newline"
    /\ a = "newline" => b \in {"begin", "Func"}
    /\ a = "line" => b \in {"let", "var", "newline", "for", "if", "while"}
    /\ a = "begin" => b \in {"Line", "Node", "Expr"}

(* What may be next at the start of a line *)
LineStart ==
    Operand \union
    {"Module", "Nodes", "begin", "Node", "Line", "Jump", "Contents", "Func", "func", "rbrace",
     "let", "var", "if", "for", "while", "break", "return", "newline", "line", "--",
     "unreachable"}

TopLevel == {"Module", "Contents", "unreachable"}

(* What something must follow *)
Unfinished == Operator \union {"=", "--", "lbrace", "++", "Nodes", "null", "line", "begin"}

Pairs(p) == \A i \in 1 .. Len(p) - 1 : Glue(p[i], p[i + 1]) /\ Order(p[i], p[i + 1])

(* No block is open around the nodes of the module. *)
TopLast(p) == \A i, j \in 1 .. Len(p) : i < j /\ p[i] \in TopLevel => p[j] # "rbrace"

Shape(p) ==
    /\ p \in Seq(Symbol)
    /\ Pairs(p) /\ TopLast(p)
    /\ p # <<>> => p[Len(p)] \notin Unfinished \union {"Contents"}

(* The first is done. *)
LEMMA ShapeOfRest ==
    ASSUME NEW p, Shape(p), p # <<>>
    PROVE  /\ Shape(Tail(p)) /\ p[1] \in Symbol
           /\ p[1] \in Unfinished \union {"Contents"} => Tail(p) # <<>>
           /\ Tail(p) # <<>> => /\ Len(p) > 1 /\ Tail(p)[1] = p[2] /\ p[2] \in Symbol
                                /\ Glue(p[1], p[2]) /\ Order(p[1], p[2])
<1>1. /\ p \in Seq(Symbol) /\ Tail(p) \in Seq(Symbol) /\ Len(p) \in Nat /\ Len(p) > 0
      /\ Len(Tail(p)) = Len(p) - 1 /\ \A i \in 1 .. Len(p) - 1 : Tail(p)[i] = p[i + 1]
      /\ \A i \in 1 .. Len(p) : p[i] \in Symbol
  BY DEF Shape
<1>2. Pairs(Tail(p))
  <2>1. ASSUME NEW i \in 1 .. Len(Tail(p)) - 1
        PROVE  Glue(Tail(p)[i], Tail(p)[i + 1]) /\ Order(Tail(p)[i], Tail(p)[i + 1])
    <3>1. i + 1 \in 1 .. Len(p) - 1 /\ i \in 1 .. Len(p) - 1
      BY <1>1
    <3>2. Glue(p[i + 1], p[(i + 1) + 1]) /\ Order(p[i + 1], p[(i + 1) + 1])
      BY <3>1 DEF Shape, Pairs
    <3> QED
      BY <1>1, <3>1, <3>2
  <2> QED
    BY <2>1 DEF Pairs
<1>3. TopLast(Tail(p))
  <2>1. ASSUME NEW i \in 1 .. Len(Tail(p)), NEW j \in 1 .. Len(Tail(p)), i < j,
               Tail(p)[i] \in TopLevel
        PROVE  Tail(p)[j] # "rbrace"
    <3>1. /\ i + 1 \in 1 .. Len(p) /\ j + 1 \in 1 .. Len(p) /\ i + 1 < j + 1
          /\ Tail(p)[i] = p[i + 1] /\ Tail(p)[j] = p[j + 1]
      BY <1>1, <2>1
    <3> QED
      BY <2>1, <3>1 DEF Shape, TopLast
  <2> QED
    BY <2>1 DEF TopLast
<1>4. Tail(p) # <<>> => Tail(p)[Len(Tail(p))] \notin Unfinished \union {"Contents"}
  <2>1. ASSUME Tail(p) # <<>> PROVE Tail(p)[Len(Tail(p))] = p[Len(p)]
    <3>1. Len(p) - 1 \in 1 .. Len(p) - 1 /\ (Len(p) - 1) + 1 = Len(p)
      BY <1>1, <2>1, EmptySeq
    <3> QED
      BY <1>1, <3>1
  <2> QED
    BY <2>1 DEF Shape
<1>5. p[1] \in Unfinished \union {"Contents"} => Tail(p) # <<>>
  <2>1. ASSUME Len(p) # 1 PROVE Tail(p) # <<>>
    <3>1. Len(Tail(p)) # 0
      BY <1>1, <2>1
    <3> QED
      BY <1>1, <3>1, EmptySeq
  <2> QED
    BY <2>1 DEF Shape
<1>6. ASSUME Tail(p) # <<>>
      PROVE  /\ Len(p) > 1 /\ Tail(p)[1] = p[2] /\ p[2] \in Symbol
             /\ Glue(p[1], p[2]) /\ Order(p[1], p[2])
  <2>1. Len(p) > 1
    BY <1>1, <1>6, EmptySeq
  <2>2. 1 \in 1 .. Len(p) - 1 /\ 1 + 1 = 2 /\ 2 \in 1 .. Len(p)
    BY <1>1, <2>1
  <2>3. Glue(p[1], p[1 + 1]) /\ Order(p[1], p[1 + 1])
    BY <2>2 DEF Shape, Pairs
  <2> QED
    BY <1>1, <2>1, <2>2, <2>3
<1>7. p[1] \in Symbol
  BY <1>1
<1> QED
  BY <1>1, <1>2, <1>3, <1>4, <1>5, <1>6, <1>7 DEF Shape

-----------------------------------------------------------------------------
(* What the visitors do *)

(* What the visitor of a node of kind k begins with *)
Begins(k, s, next) ==
    /\ k \in AfterWord => s \in AfterWord
    /\ k \in Operand => s \in Operand
    /\ k \in LineStart => s \in LineStart
    /\ s \notin {"Nodes", "++", "rbrace"}
    /\ s = "lbrace" <=> k = "Block"
    /\ k = "Line" => s = "line"
    /\ k = "Node" => s \in {"line", "break", "return", "Expr"}
    /\ k = "Func" => s = "func"
    /\ s = "begin" => k = "Nodes" \/ next = "Line"

(* and ends with *)
Ends(k, t) ==
    /\ t \in WordEnd => k \in WordEnd
    /\ t \notin Unfinished \union {"Module"}
    /\ t = "Contents" => k = "Contents"
    /\ t = "newline" => k = "Module"

Empties == {"Nodes", "MoreNodes", "Contents", "Values", "MoreValues", "Vars", "MoreVars"}

Good(k, node) ==
    /\ node.visit \in Seq(Symbol) /\ node.read \in Seq(Symbol)
    /\ Reads(node.visit, node.read) /\ Pairs(node.visit)
    /\ node.visit = <<>> => k \in Empties
    /\ node.visit # <<>> => /\ Begins(k, node.visit[1], node.visit[2])
                            /\ Ends(k, node.visit[Len(node.visit)])
                            /\ node.visit[1] = "begin" => Len(node.visit) > 1
    /\ Cardinality(Braces(node.read)) = IF k = "Block" THEN 1 ELSE 0
    /\ IF k \in TopLevel THEN \A i \in 1 .. Len(node.visit) : node.visit[i] # "rbrace"
                         ELSE \A i \in 1 .. Len(node.visit) : node.visit[i] \notin TopLevel

(* The first is a child. *)
LEMMA ShapeOfVisit ==
    ASSUME NEW p, Shape(p), p # <<>>, p[1] \in Kinds, NEW node, Good(p[1], node)
    PROVE  Shape(node.visit \o Tail(p))
<1>1. PICK k \in Kinds : k = p[1]
  OBVIOUS
<1>2. PICK q \in Seq(Symbol) : q = Tail(p) /\ Shape(q)
  BY ShapeOfRest DEF Shape
<1>3. PICK v \in Seq(Symbol) : v = node.visit
  BY DEF Good
<1>4. PICK l \in Nat, n \in Nat : l = Len(v) /\ n = Len(q)
  OBVIOUS
<1>5. /\ v \o q \in Seq(Symbol) /\ Len(v \o q) = l + n
      /\ \A i \in 1 .. l : (v \o q)[i] = v[i]
      /\ \A i \in 1 .. n : (v \o q)[l + i] = q[i]
  BY <1>4
<1>6. \A i \in 1 .. l + n : i \in 1 .. l \/ \E j \in 1 .. n : i = l + j
  <2>1. ASSUME NEW i \in 1 .. l + n, i \notin 1 .. l PROVE \E j \in 1 .. n : i = l + j
    <3>1. i - l \in 1 .. n /\ i = l + (i - l)
      BY <2>1
    <3> QED
      BY <3>1
  <2> QED
    BY <2>1
<1>7. q # <<>> => Glue(k, q[1]) /\ Order(k, q[1])
  BY <1>1, <1>2, ShapeOfRest
<1>8. ASSUME v # <<>>
      PROVE  Ends(k, v[l])
  BY <1>1, <1>3, <1>4, <1>8 DEF Good
<1>9. ASSUME v # <<>>, q # <<>>
      PROVE  Glue(v[l], q[1]) /\ Order(v[l], q[1])
  <2>1. ASSUME NEW t, NEW b, Ends(k, t), Glue(k, b), Order(k, b)
        PROVE  Glue(t, b) /\ Order(t, b)
    <3>1. Glue(t, b)
      BY <2>1 DEF Ends, Glue, Unfinished
    <3>2. k \notin {"--", "lbrace", "++", "space", "newline"}
      BY DEF Kinds
    <3>3. Order(t, b)
      BY <2>1, <3>2 DEF Ends, Order, Unfinished
    <3> QED
      BY <3>1, <3>3
  <2> QED
    BY <1>7, <1>8, <1>9, <2>1
<1>10. Pairs(v) /\ Pairs(q)
  BY <1>2, <1>3 DEF Good, Shape
<1>11. Pairs(v \o q)
  <2>1. ASSUME NEW i \in 1 .. (l + n) - 1
        PROVE  Glue((v \o q)[i], (v \o q)[i + 1]) /\ Order((v \o q)[i], (v \o q)[i + 1])
    <3>1. CASE i \in 1 .. l - 1
      <4>1. i \in 1 .. l /\ i + 1 \in 1 .. l
        BY <3>1
      <4>2. Glue(v[i], v[i + 1]) /\ Order(v[i], v[i + 1])
        BY <1>4, <1>10, <3>1 DEF Pairs
      <4>3. (v \o q)[i] = v[i] /\ (v \o q)[i + 1] = v[i + 1]
        BY <1>5, <4>1
      <4> QED
        BY <4>2, <4>3
    <3>2. CASE i = l
      <4>1. l \in 1 .. l /\ 1 \in 1 .. n /\ v # <<>> /\ q # <<>>
        BY <1>4, <3>2
      <4>2. (v \o q)[l] = v[l] /\ (v \o q)[l + 1] = q[1]
        BY <1>5, <4>1
      <4> QED
        BY <1>9, <3>2, <4>1, <4>2
    <3>3. CASE i > l
      <4>1. PICK j \in 1 .. n - 1 : i = l + j
        <5>1. i - l \in 1 .. n - 1 /\ i = l + (i - l)
          BY <3>3
        <5> QED
          BY <5>1
      <4>2. j \in 1 .. n /\ j + 1 \in 1 .. n /\ i + 1 = l + (j + 1)
        BY <4>1
      <4>3. (v \o q)[i] = q[j] /\ (v \o q)[i + 1] = q[j + 1]
        BY <1>5, <4>1, <4>2
      <4>4. Glue(q[j], q[j + 1]) /\ Order(q[j], q[j + 1])
        BY <1>4, <1>10 DEF Pairs
      <4> QED
        BY <4>3, <4>4
    <3>4. i \in 1 .. l - 1 \/ i = l \/ i > l
      OBVIOUS
    <3> QED
      BY ONLY <3>1, <3>2, <3>3, <3>4
  <2> QED
    BY <1>5, <2>1 DEF Pairs
<1>12. TopLast(v \o q)
  <2>1. ASSUME NEW i \in 1 .. l + n, NEW j \in 1 .. l + n, i < j, (v \o q)[i] \in TopLevel,
               (v \o q)[j] = "rbrace"
        PROVE  FALSE
    <3>1. CASE i \in 1 .. l
      <4>1. k \in TopLevel /\ \A x \in 1 .. l : v[x] # "rbrace"
        BY <1>1, <1>3, <1>4, <1>5, <2>1, <3>1 DEF Good
      <4>2. PICK x \in 1 .. n : q[x] = "rbrace"
        BY <1>5, <1>6, <2>1, <4>1
      <4>3. /\ x + 1 \in 1 .. Len(p) /\ 1 \in 1 .. Len(p) /\ 1 < x + 1 /\ p[x + 1] = q[x]
        BY <1>2, <1>4 DEF Shape
      <4> QED
        BY <1>1, <4>1, <4>2, <4>3 DEF Shape, TopLast
    <3>2. CASE i \notin 1 .. l
      <4>1. PICK x \in 1 .. n, y \in 1 .. n : i = l + x /\ j = l + y
        BY <1>6, <2>1, <3>2
      <4>2. x < y /\ q[x] \in TopLevel /\ q[y] = "rbrace"
        BY <1>5, <2>1, <4>1
      <4> QED
        BY <1>2, <1>4, <4>2 DEF Shape, TopLast
    <3> QED
      BY <3>1, <3>2
  <2> QED
    BY <1>5, <2>1 DEF TopLast
<1>13. v \o q # <<>> => (v \o q)[Len(v \o q)] \notin Unfinished \union {"Contents"}
  <2>1. CASE q # <<>>
    <3>1. n \in 1 .. n /\ (v \o q)[l + n] = q[n]
      BY <1>4, <1>5, <2>1
    <3>2. q[n] \notin Unfinished \union {"Contents"}
      BY <1>2, <1>4, <2>1 DEF Shape
    <3> QED
      BY <1>5, <3>1, <3>2
  <2>2. CASE q = <<>> /\ v # <<>>
    <3>1. n = 0 /\ l \in 1 .. l /\ (v \o q)[l] = v[l] /\ Len(v \o q) = l
      BY <1>4, <1>5, <2>2
    <3>2. v[l] \notin Unfinished
      BY <1>8, <2>2 DEF Ends
    <3>3. v[l] # "Contents"
      <4>1. k # "Contents"
        BY <1>1, <1>2, <2>2, ShapeOfRest
      <4> QED
        BY <1>8, <2>2, <4>1 DEF Ends
    <3> QED
      BY <3>1, <3>2, <3>3
  <2>3. CASE q = <<>> /\ v = <<>>
    <3>1. v \o q = <<>>
      BY <2>3
    <3> QED
      BY <3>1
  <2> QED
    BY <2>1, <2>2, <2>3
<1> QED
  BY <1>2, <1>3, <1>5, <1>11, <1>12, <1>13 DEF Shape

-----------------------------------------------------------------------------
(* What holds between the steps *)

InBlock(p) == IF p # <<>> /\ p[1] \in {"lbrace", "++", "rbrace"} THEN 1 ELSE 0

(* What may come first *)
Follows(p, newest, fresh, started) ==
    /\ Glue(newest, p[1])
    /\ fresh => p[1] \in LineStart
    /\ p[1] = "Nodes" => fresh
    /\ p[1] = "begin" => fresh \/ (Len(p) > 1 /\ p[2] = "Line")
    /\ started => fresh \/ p[1] \in {"Line", "line"}

(* p is still to be done for f, the text from here, behind the newest token *)
Fine(p, f, newest, deep, fresh, started) ==
    /\ Shape(p) /\ f \in Seq(Symbol) /\ Reads(p, f)
    /\ deep + InBlock(p) = Cardinality(Braces(f))
    /\ fresh => newest = "none"
    /\ p # <<>> => Follows(p, newest, fresh, started)

(* A token *)
LEMMA TakeToken ==
    ASSUME NEW p, NEW f, NEW newest, NEW deep \in Nat,
           NEW fresh \in BOOLEAN, NEW started \in BOOLEAN,
           Fine(p, f, newest, deep, fresh, started),
           p # <<>>, p[1] \in Text
    PROVE  /\ f # <<>> /\ Head(f) = p[1]
           /\ Fused(newest, p[1]) => newest = "&" /\ p[1] = "&"
           /\ Fine(Tail(p), Tail(f), p[1], deep, FALSE, FALSE)
           /\ fresh => deep = Cardinality(Braces(Tail(f)))
           /\ started => fresh
<1>1. PICK x \in Text : x = p[1]
  OBVIOUS
<1>2. x \notin Silent /\ x \notin DOMAIN Raw /\ x \notin Kinds
  BY DEF Text, Word, Silent, Raw, Kinds
<1>3. p \in Seq(Symbol) /\ f \in Seq(Symbol) /\ Shape(p) /\ Reads(p, f)
  BY DEF Fine, Shape
<1>4. f # <<>> /\ f[1] = x /\ Reads(Tail(p), Tail(f))
  BY <1>1, <1>2, <1>3, ReadsFirst DEF TokenOf
<1>5. Tail(f) \in Seq(Symbol) /\ Head(f) = f[1]
  BY <1>3, <1>4
<1>6. Follows(p, newest, fresh, started)
  BY DEF Fine
<1>7. ASSUME Fused(newest, x)
      PROVE  newest = "&" /\ x = "&"
  <2>1. Glue(newest, x)
    BY <1>1, <1>6 DEF Follows
  <2>2. CASE newest \in Word /\ x \in Word
    BY <2>1, <2>2 DEF Glue, WordEnd, AfterWord, Word
  <2>3. CASE newest \notin Word \/ x \notin Word
    <3>1. \/ <<newest, x>> \in {<<"&", "&">>, <<"=", "=">>, <<"!", "=">>, <<"-", ">">>}
          \/ newest \in {"..", "..."} /\ x \in {"..", "..."}
      BY <1>7, <2>3 DEF Fused
    <3>2. newest = "=" => x = "space"
      BY <2>1 DEF Glue
    <3>3. newest \in Operator => x \in Operand
      BY <2>1 DEF Glue
    <3> QED
      BY <3>1, <3>2, <3>3 DEF Operator, Operand
  <2> QED
    BY <2>2, <2>3
<1>8. Shape(Tail(p)) /\ (Tail(p) # <<>> => Glue(x, Tail(p)[1]) /\ Order(x, Tail(p)[1]))
  BY <1>1, <1>3, ShapeOfRest
<1>9. x = "lbrace" => Tail(p) # <<>>
  BY <1>1, <1>3, ShapeOfRest DEF Unfinished
<1>10. InBlock(Tail(p)) = IF x = "lbrace" THEN 1 ELSE 0
  <2>1. ASSUME NEW b, Order(x, b)
        PROVE  b \in {"lbrace", "++", "rbrace"} <=> x = "lbrace"
    <3>1. x # "--"
      BY DEF Text, Word
    <3> QED
      BY <2>1, <3>1 DEF Order
  <2> QED
    BY <1>8, <1>9, <2>1 DEF InBlock
<1>11. InBlock(p) = IF x \in {"lbrace", "rbrace"} THEN 1 ELSE 0
  <2>1. x # "++"
    BY DEF Text, Word
  <2> QED
    BY <1>1, <2>1 DEF InBlock
<1>12. Cardinality(Braces(f)) = Cardinality(Braces(Tail(f))) + (IF x = "rbrace" THEN 1 ELSE 0)
  BY <1>3, <1>4, BracesFrom
<1>13. Cardinality(Braces(Tail(f))) \in Nat
  BY <1>5, BracesAreFinite
<1>14. deep + (IF x \in {"lbrace", "rbrace"} THEN 1 ELSE 0)
          = Cardinality(Braces(Tail(f))) + (IF x = "rbrace" THEN 1 ELSE 0)
  BY <1>11, <1>12 DEF Fine
<1>15. deep + InBlock(Tail(p)) = Cardinality(Braces(Tail(f)))
  BY <1>10, <1>13, <1>14
<1>16. ASSUME Tail(p) # <<>>
       PROVE  Follows(Tail(p), x, FALSE, FALSE)
  <2>1. x \notin {"++", "newline"}
    BY DEF Text, Word
  <2> QED
    BY <1>8, <1>16, <2>1 DEF Follows, Order
<1>17. fresh => deep = Cardinality(Braces(Tail(f)))
  <2>1. fresh => x # "lbrace"
    BY <1>1, <1>6 DEF Follows, LineStart, Operand
  <2> QED
    BY <1>10, <1>13, <1>15, <2>1
<1>18. started => fresh
  <2>1. x \notin {"Line", "line"}
    BY DEF Text, Word
  <2> QED
    BY <1>1, <1>6, <2>1 DEF Follows
<1>19. Fine(Tail(p), Tail(f), x, deep, FALSE, FALSE)
  BY <1>4, <1>5, <1>8, <1>15, <1>16 DEF Fine
<1> QED
  BY <1>1, <1>4, <1>5, <1>7, <1>17, <1>18, <1>19

(* A token past print() *)
LEMMA TakeRaw ==
    ASSUME NEW p, NEW f, NEW newest, NEW deep \in Nat,
           NEW fresh \in BOOLEAN, NEW started \in BOOLEAN,
           Fine(p, f, newest, deep, fresh, started),
           p # <<>>, p[1] \in DOMAIN Raw
    PROVE  /\ f # <<>> /\ Head(f) = Raw[p[1]]
           /\ ~Fused(newest, Raw[p[1]]) /\ ~fresh /\ ~started
           /\ Fine(Tail(p), Tail(f), Raw[p[1]], deep, fresh, started)
<1>1. PICK x : x = p[1] /\ x \in {"putSemi", "putComma"}
  BY DEF Raw
<1>2. PICK token \in {"semi", "comma"} : token = Raw[x]
  BY <1>1 DEF Raw
<1>3. p \in Seq(Symbol) /\ f \in Seq(Symbol) /\ Shape(p) /\ Reads(p, f)
  BY DEF Fine, Shape
<1>4. f # <<>> /\ f[1] = token /\ Reads(Tail(p), Tail(f))
  <2>1. x \notin Silent /\ TokenOf(x) = token
    BY <1>1, <1>2 DEF Silent, TokenOf, Raw
  <2> QED
    BY <1>1, <1>3, <2>1, ReadsFirst
<1>5. Tail(f) \in Seq(Symbol) /\ Head(f) = f[1]
  BY <1>3, <1>4
<1>6. Follows(p, newest, fresh, started)
  BY DEF Fine
<1>7. ~Fused(newest, token)
  BY DEF Fused, Word
<1>8. Shape(Tail(p)) /\ (Tail(p) # <<>> => Order(x, Tail(p)[1]))
  BY <1>1, <1>3, ShapeOfRest
<1>9. InBlock(Tail(p)) = 0 /\ InBlock(p) = 0
  BY <1>1, <1>8 DEF InBlock, Order
<1>10. Cardinality(Braces(f)) = Cardinality(Braces(Tail(f))) + 0
  <2>1. token # "rbrace"
    OBVIOUS
  <2> QED
    BY <1>3, <1>4, <2>1, BracesFrom
<1>11. Cardinality(Braces(Tail(f))) \in Nat
  BY <1>5, BracesAreFinite
<1>12. deep + InBlock(Tail(p)) = Cardinality(Braces(Tail(f)))
  BY <1>9, <1>10, <1>11 DEF Fine
<1>13. ~fresh /\ ~started
  BY <1>1, <1>6 DEF Follows, LineStart, Operand
<1>14. ASSUME Tail(p) # <<>>
       PROVE  Follows(Tail(p), token, fresh, started)
  <2>1. \A b : Glue(token, b)
    BY DEF Glue, WordEnd, Word, Operator
  <2> QED
    BY <1>1, <1>8, <1>13, <1>14, <2>1 DEF Follows, Order
<1>15. Fine(Tail(p), Tail(f), token, deep, fresh, started)
  BY <1>4, <1>5, <1>8, <1>12, <1>13, <1>14 DEF Fine
<1> QED
  BY <1>1, <1>2, <1>4, <1>5, <1>7, <1>13, <1>15

(* What is not printed *)
LEMMA TakeSpace ==
    ASSUME NEW p, NEW f, NEW newest, NEW deep \in Nat,
           NEW fresh \in BOOLEAN, NEW started \in BOOLEAN,
           Fine(p, f, newest, deep, fresh, started),
           p # <<>>, p[1] = "space"
    PROVE  Fine(Tail(p), f, "none", deep, fresh, started)
<1>1. p \in Seq(Symbol) /\ f \in Seq(Symbol) /\ Shape(p) /\ Reads(p, f)
  BY DEF Fine, Shape
<1>2. Reads(Tail(p), f)
  BY <1>1, ReadsSilent DEF Silent
<1>3. Shape(Tail(p)) /\ (Tail(p) # <<>> => Order("space", Tail(p)[1]))
  BY <1>1, ShapeOfRest
<1>4. InBlock(Tail(p)) = InBlock(p)
  BY <1>3 DEF InBlock, Order
<1>5. ~fresh /\ ~started
  BY DEF Fine, Follows, LineStart, Operand
<1>6. Tail(p) # <<>> => Follows(Tail(p), "none", fresh, started)
  BY <1>3, <1>5 DEF Follows, Order, Glue, WordEnd, Word, Operator
<1> QED
  BY <1>1, <1>2, <1>3, <1>4, <1>5, <1>6 DEF Fine

LEMMA TakeLine ==
    ASSUME NEW p, NEW f, NEW newest, NEW deep \in Nat,
           NEW fresh \in BOOLEAN, NEW started \in BOOLEAN,
           Fine(p, f, newest, deep, fresh, started),
           p # <<>>, p[1] \in {"newline", "line"}
    PROVE  Fine(Tail(p), f, "none", deep, TRUE, started)
<1>1. PICK x \in {"newline", "line"} : x = p[1]
  OBVIOUS
<1>2. p \in Seq(Symbol) /\ f \in Seq(Symbol) /\ Shape(p) /\ Reads(p, f)
  BY DEF Fine, Shape
<1>3. Reads(Tail(p), f)
  BY <1>1, <1>2, ReadsSilent DEF Silent
<1>4. Shape(Tail(p)) /\ (Tail(p) # <<>> => Order(x, Tail(p)[1]))
  BY <1>1, <1>2, ShapeOfRest
<1>5. InBlock(Tail(p)) = InBlock(p)
  BY <1>1, <1>4 DEF InBlock, Order
<1>6. Tail(p) # <<>> => Follows(Tail(p), "none", TRUE, started)
  BY <1>1, <1>4 DEF Follows, Order, Glue, WordEnd, Word, Operator, LineStart
<1> QED
  BY <1>2, <1>3, <1>4, <1>5, <1>6 DEF Fine

LEMMA InIsDeeper ==
    ASSUME NEW p, NEW f, NEW newest, NEW deep \in Nat,
           NEW fresh \in BOOLEAN, NEW started \in BOOLEAN,
           Fine(p, f, newest, deep, fresh, started),
           p # <<>>, p[1] = "++"
    PROVE  deep + 1 = Cardinality(Braces(f))
<1>1. InBlock(p) = 1
  BY DEF InBlock
<1> QED
  BY <1>1 DEF Fine

LEMMA TakeIn ==
    ASSUME NEW p, NEW f, NEW newest, NEW deep \in Nat,
           NEW fresh \in BOOLEAN, NEW started \in BOOLEAN,
           Fine(p, f, newest, deep, fresh, started),
           p # <<>>, p[1] = "++"
    PROVE  Fine(Tail(p), f, "none", Cardinality(Braces(f)), TRUE, started)
<1>1. p \in Seq(Symbol) /\ f \in Seq(Symbol) /\ Shape(p) /\ Reads(p, f)
  BY DEF Fine, Shape
<1>2. Reads(Tail(p), f)
  BY <1>1, ReadsSilent DEF Silent
<1>3. Shape(Tail(p)) /\ Tail(p) # <<>> /\ Order("++", Tail(p)[1])
  BY <1>1, ShapeOfRest DEF Unfinished
<1>4. Tail(p)[1] = "Nodes"
  BY <1>3 DEF Order
<1>5. InBlock(Tail(p)) = 0
  BY <1>4 DEF InBlock
<1>6. Cardinality(Braces(f)) + InBlock(Tail(p)) = Cardinality(Braces(f))
  <2>1. Cardinality(Braces(f)) \in Nat
    BY <1>1, BracesAreFinite
  <2> QED
    BY <1>5, <2>1
<1>7. Follows(Tail(p), "none", TRUE, started)
  BY <1>4 DEF Follows, Glue, WordEnd, Word, Operator, LineStart
<1> QED
  BY <1>1, <1>2, <1>3, <1>5, <1>6, <1>7 DEF Fine

LEMMA TakeOut ==
    ASSUME NEW p, NEW f, NEW newest, NEW deep \in Nat,
           NEW fresh \in BOOLEAN, NEW started \in BOOLEAN,
           Fine(p, f, newest, deep, fresh, started),
           p # <<>>, p[1] = "--"
    PROVE  deep # 0 /\ Fine(Tail(p), f, "none", deep - 1, TRUE, started)
<1>1. p \in Seq(Symbol) /\ f \in Seq(Symbol) /\ Shape(p) /\ Reads(p, f)
  BY DEF Fine, Shape
<1>2. Reads(Tail(p), f)
  BY <1>1, ReadsSilent DEF Silent
<1>3. Shape(Tail(p)) /\ Tail(p) # <<>> /\ Order("--", Tail(p)[1])
  BY <1>1, ShapeOfRest DEF Unfinished
<1>4. Tail(p)[1] = "rbrace"
  BY <1>3 DEF Order
<1>5. InBlock(Tail(p)) = 1 /\ InBlock(p) = 0
  BY <1>3, <1>4 DEF InBlock
<1>6. deep = Cardinality(Braces(f))
  BY <1>5 DEF Fine
<1>7. Cardinality(Braces(f)) > 0
  <2>1. 1 \in 1 .. Len(Tail(p)) /\ Tail(p) \in Seq(Symbol)
    BY <1>3 DEF Shape
  <2> QED
    BY <1>1, <1>2, <1>4, <2>1, BracesAreSpelt
<1>8. deep # 0 /\ (deep - 1) + 1 = Cardinality(Braces(f))
  BY <1>6, <1>7
<1>9. Follows(Tail(p), "none", TRUE, started)
  BY <1>4 DEF Follows, Glue, WordEnd, Word, Operator, LineStart
<1> QED
  BY <1>1, <1>2, <1>3, <1>5, <1>8, <1>9 DEF Fine

LEMMA TakeBegin ==
    ASSUME NEW p, NEW f, NEW newest, NEW deep \in Nat,
           NEW fresh \in BOOLEAN, NEW started \in BOOLEAN,
           Fine(p, f, newest, deep, fresh, started),
           p # <<>>, p[1] = "begin"
    PROVE  Fine(Tail(p), f, newest, deep, fresh, TRUE)
<1>1. p \in Seq(Symbol) /\ f \in Seq(Symbol) /\ Shape(p) /\ Reads(p, f)
  BY DEF Fine, Shape
<1>2. Reads(Tail(p), f)
  BY <1>1, ReadsSilent DEF Silent
<1>3. Shape(Tail(p)) /\ Tail(p) # <<>> /\ Order("begin", Tail(p)[1]) /\ Tail(p)[1] = p[2]
  BY <1>1, ShapeOfRest DEF Unfinished
<1>4. Tail(p)[1] \in {"Line", "Node", "Expr"}
  BY <1>3 DEF Order
<1>5. InBlock(Tail(p)) = InBlock(p)
  BY <1>4 DEF InBlock
<1>6. fresh \/ Tail(p)[1] = "Line"
  BY <1>3 DEF Fine, Follows
<1>7. Glue(newest, "begin")
  BY DEF Fine, Follows
<1>8. ASSUME NEW b \in {"Line", "Node", "Expr"}
      PROVE  Glue(newest, b)
  BY <1>7 DEF Glue, WordEnd, Operator, AfterWord, Operand
<1>9. Follows(Tail(p), newest, fresh, TRUE)
  BY <1>4, <1>6, <1>8 DEF Follows, LineStart, Operand
<1>10. fresh => newest = "none"
  BY DEF Fine
<1> QED
  BY <1>1, <1>2, <1>3, <1>5, <1>9, <1>10 DEF Fine

(* A child *)
LEMMA TakeChild ==
    ASSUME NEW p, NEW f, NEW newest, NEW deep \in Nat,
           NEW fresh \in BOOLEAN, NEW started \in BOOLEAN,
           Fine(p, f, newest, deep, fresh, started),
           p # <<>>, p[1] \in Kinds
    PROVE  /\ f # <<>> /\ Head(f) = p[1]
           /\ \A node : Good(p[1], node) =>
                 Fine(node.visit \o Tail(p), node.read \o Tail(f), newest, deep, fresh, started)
<1>1. PICK k \in Kinds : k = p[1]
  OBVIOUS
<1>2. p \in Seq(Symbol) /\ f \in Seq(Symbol) /\ Shape(p) /\ Reads(p, f)
  BY DEF Fine, Shape
<1>3. f # <<>> /\ f[1] = k /\ Reads(Tail(p), Tail(f))
  <2>1. k \notin Silent /\ TokenOf(k) = k
    BY DEF Kinds, Silent, TokenOf, Raw
  <2> QED
    BY <1>1, <1>2, <2>1, ReadsFirst
<1>4. Tail(f) \in Seq(Symbol) /\ Head(f) = f[1]
  BY <1>2, <1>3
<1>5. PICK q \in Seq(Symbol) : q = Tail(p) /\ Shape(q)
  BY <1>2, ShapeOfRest DEF Shape
<1>6. q # <<>> => Glue(k, q[1]) /\ Order(k, q[1])
  BY <1>1, <1>2, <1>5, ShapeOfRest
<1>7. Follows(p, newest, fresh, started)
  BY DEF Fine
<1>8. InBlock(p) = 0
  BY <1>1 DEF InBlock, Kinds
<1>9. Cardinality(Braces(Tail(f))) \in Nat /\ deep = Cardinality(Braces(Tail(f)))
  <2>1. k # "rbrace"
    BY DEF Kinds
  <2>2. Cardinality(Braces(Tail(f))) \in Nat
    BY <1>4, BracesAreFinite
  <2>3. Cardinality(Braces(f)) = Cardinality(Braces(Tail(f))) + 0
    BY <1>2, <1>3, <2>1, BracesFrom
  <2> QED
    BY <1>8, <2>2, <2>3 DEF Fine
<1>10. ASSUME NEW node, Good(k, node)
       PROVE  Fine(node.visit \o q, node.read \o Tail(f), newest, deep, fresh, started)
  <2>1. PICK v \in Seq(Symbol), r \in Seq(Symbol) : v = node.visit /\ r = node.read
    BY <1>10 DEF Good
  <2>2. Shape(v \o q)
    BY <1>1, <1>2, <1>5, <1>10, <2>1, ShapeOfVisit
  <2>3. Reads(v \o q, r \o Tail(f)) /\ r \o Tail(f) \in Seq(Symbol)
    <3>1. Reads(v, r) /\ Reads(q, Tail(f))
      BY <1>3, <1>5, <1>10, <2>1 DEF Good
    <3>2. Reads(v \o q, r \o Tail(f))
      BY <1>4, <3>1, ReadsBoth
    <3> QED
      BY <1>4, <3>2
  <2>4. Cardinality(Braces(r \o Tail(f))) = deep + (IF k = "Block" THEN 1 ELSE 0)
    <3>1. Cardinality(Braces(r)) = IF k = "Block" THEN 1 ELSE 0
      BY <1>10, <2>1 DEF Good
    <3>2. Cardinality(Braces(r \o Tail(f))) = Cardinality(Braces(r)) + Cardinality(Braces(Tail(f)))
      BY <1>4, BracesBoth
    <3> QED
      BY <1>9, <3>1, <3>2
  <2>5. CASE v # <<>>
    <3>1. PICK s : s = v[1] /\ (v \o q)[1] = s /\ Begins(k, s, v[2]) /\ (s = "begin" => Len(v) > 1)
      <4>1. (v \o q)[1] = v[1]
        BY <2>5
      <4>2. Begins(k, v[1], v[2]) /\ (v[1] = "begin" => Len(v) > 1)
        BY <1>10, <2>1, <2>5 DEF Good
      <4> QED
        BY <4>1, <4>2
    <3>2. v \o q # <<>>
      BY <2>5
    <3>3. InBlock(v \o q) = IF k = "Block" THEN 1 ELSE 0
      BY <3>1, <3>2 DEF InBlock, Begins
    <3>4. Glue(newest, s)
      <4>1. Glue(newest, k) /\ k # "space"
        BY <1>1, <1>7 DEF Follows, Kinds
      <4> QED
        BY <3>1, <4>1 DEF Glue, Begins
    <3>5. s = "begin" /\ v[2] = "Line" => Len(v \o q) > 1 /\ (v \o q)[2] = "Line"
      <4>1. Len(v) > 1 => Len(v \o q) > 1 /\ (v \o q)[2] = v[2]
        OBVIOUS
      <4> QED
        BY <3>1, <4>1
    <3>6. Follows(v \o q, newest, fresh, started)
      <4>1. k \notin {"line"}
        BY DEF Kinds
      <4> QED
        BY <1>1, <1>7, <3>1, <3>4, <3>5, <4>1 DEF Follows, Begins
    <3>7. deep + InBlock(v \o q) = Cardinality(Braces(r \o Tail(f)))
      BY <2>4, <3>3
    <3>8. fresh => newest = "none"
      BY DEF Fine
    <3>9. Fine(v \o q, r \o Tail(f), newest, deep, fresh, started)
      BY <2>2, <2>3, <3>6, <3>7, <3>8 DEF Fine
    <3> QED
      BY <2>1, <3>9
  <2>6. CASE v = <<>>
    <3>1. k \in Empties
      BY <1>10, <2>1, <2>6 DEF Good
    <3>2. v \o q = q
      BY <2>6
    <3>3. ASSUME q # <<>>
          PROVE  /\ q[1] \notin {"lbrace", "++", "rbrace"}
                 /\ Follows(q, newest, fresh, started)
      <4>1. PICK b : b = q[1] /\ Glue(k, b) /\ Order(k, b)
        BY <1>6, <3>3
      <4>2. b \notin {"lbrace", "++", "rbrace", "Nodes", "begin"}
        BY <3>1, <4>1 DEF Order, Empties
      <4>3. Glue(newest, k)
        BY <1>1, <1>7 DEF Follows
      <4>4. newest \in WordEnd => k \in {"MoreValues", "MoreVars"}
        BY <3>1, <4>3 DEF Glue, AfterWord, Empties
      <4>5. newest \in WordEnd => b \in AfterWord
        BY <4>1, <4>4 DEF Glue, WordEnd
      <4>6. newest \notin Operator /\ newest # "="
        BY <3>1, <4>3 DEF Glue, Empties, Operand
      <4>7. Glue(newest, b)
        BY <4>5, <4>6 DEF Glue
      <4>8. fresh => k \in {"Nodes", "Contents"}
        BY <1>1, <1>7, <3>1 DEF Follows, LineStart, Operand, Empties
      <4>9. fresh => b \in LineStart
        BY <4>1, <4>8 DEF Order, LineStart
      <4>10. started => fresh
        BY <1>1, <1>7, <3>1 DEF Follows, Empties
      <4> QED
        BY <4>1, <4>2, <4>7, <4>9, <4>10 DEF Follows
    <3>4. InBlock(q) = 0
      BY <3>3 DEF InBlock
    <3>5. k # "Block"
      BY <3>1 DEF Empties
    <3>6. deep + InBlock(q) = Cardinality(Braces(r \o Tail(f)))
      BY <2>4, <3>4, <3>5
    <3>7. fresh => newest = "none"
      BY DEF Fine
    <3>8. Fine(q, r \o Tail(f), newest, deep, fresh, started)
      BY <1>5, <2>2, <2>3, <3>2, <3>3, <3>6, <3>7 DEF Fine
    <3> QED
      BY <2>1, <3>2, <3>8
  <2> QED
    BY <2>5, <2>6
<1> QED
  BY <1>1, <1>3, <1>4, <1>5, <1>10

-----------------------------------------------------------------------------
(* Every visitor does what it should. *)

(* What is one sequence behind another *)
LEMMA Join ==
    ASSUME NEW s \in Seq(Symbol), NEW t \in Seq(Symbol), NEW u \in Seq(Symbol),
           Len(u) = Len(s) + Len(t), \A i \in 1 .. Len(s) : u[i] = s[i],
           \A i \in 1 .. Len(t) : u[i + Len(s)] = t[i]
    PROVE  s \o t = u
<1>0. PICK n \in Nat, m \in Nat : n = Len(s) /\ m = Len(t)
  OBVIOUS
<1>1. Len(s \o t) = Len(u) /\ s \o t \in Seq(Symbol) /\ Len(s \o t) = n + m
  BY <1>0
<1>a. \A i \in 1 .. n : (s \o t)[i] = s[i] /\ u[i] = s[i]
  BY <1>0
<1>b. \A i \in 1 .. m : (s \o t)[i + n] = t[i] /\ u[i + n] = t[i]
  BY <1>0
<1>2. ASSUME NEW i \in 1 .. n + m PROVE (s \o t)[i] = u[i]
  <2>1. CASE i \in 1 .. n
    BY <1>a, <2>1
  <2>2. CASE i \notin 1 .. n
    <3>1. PICK j \in 1 .. m : i = j + n
      <4>1. i - n \in 1 .. m /\ i = (i - n) + n
        BY <2>2
      <4> QED
        BY <4>1
    <3> QED
      BY <1>b, <3>1
  <2> QED
    BY <2>1, <2>2
<1> QED
  BY <1>1, <1>2, SeqEqual

(* It does v for a node of kind k that is read as r. *)
Suits(k, v, r) ==
    /\ Pairs(v) /\ v # <<>>
    /\ Begins(k, v[1], v[2]) /\ Ends(k, v[Len(v)])
    /\ v[1] = "begin" => Len(v) > 1
    /\ Braces(r) = IF k = "Block" THEN {3} ELSE {}
    /\ IF k \in TopLevel THEN \A i \in 1 .. Len(v) : v[i] # "rbrace"
                         ELSE \A i \in 1 .. Len(v) : v[i] \notin TopLevel

LEMMA GoodIs ==
    ASSUME NEW k, NEW v \in Seq(Symbol), NEW r \in Seq(Symbol), NEW g, Spells(v, r, g),
           Suits(k, v, r)
    PROVE  Good(k, [read |-> r, visit |-> v])
<1>1. Reads(v, r)
  BY DEF Reads
<1>2. Cardinality(Braces(r)) = IF k = "Block" THEN 1 ELSE 0
  BY FS_EmptySet, FS_Singleton DEF Suits
<1> DEFINE node == [read |-> r, visit |-> v]
<1>3. node.read = r /\ node.visit = v
  OBVIOUS
<1> HIDE DEF node
<1>4. Good(k, node)
  BY <1>1, <1>2, <1>3 DEF Good, Suits
<1> QED
  BY <1>4 DEF node

LEMMA VarIsGood ==
    ASSUME NEW kw \in {"let", "var"}, NEW k \in {"Line", "Node"}
    PROVE  Good(k, [read  |-> <<kw, "name", "semi">>,
                    visit |-> <<"line", kw, "space", "name", "putSemi">>])
<1> DEFINE v == <<"line", kw, "space", "name", "putSemi">>
           r == <<kw, "name", "semi">>
<1> HIDE DEF v, r
<1>1. v \in Seq(Symbol) /\ r \in Seq(Symbol)
  BY DEF v, r, Symbol, Kinds, Text, Word, Silent
<1>2. Spells(v, r, <<2, 4, 5>>)
  BY DEF v, r, Spells, Silent, TokenOf, Raw
<1>3. Suits(k, v, r)
  BY DEF v, r, Suits, Pairs, Glue, Order, Begins, Ends, WordEnd, AfterWord, Word, Operator, Operand,
         LineStart, Unfinished, Braces, TopLevel
<1> QED
  BY <1>1, <1>2, <1>3, GoodIs DEF v, r

LEMMA TypedVarIsGood ==
    ASSUME NEW kw \in {"let", "var"}, NEW k \in {"Line", "Node"}
    PROVE  Good(k, [read  |-> <<kw, "name", ":", "Type", "semi">>,
                    visit |-> <<"line", kw, "space", "name", ":", "space", "Type", "putSemi">>])
<1> DEFINE v == <<"line", kw, "space", "name", ":", "space", "Type", "putSemi">>
           r == <<kw, "name", ":", "Type", "semi">>
<1> HIDE DEF v, r
<1>1. v \in Seq(Symbol) /\ r \in Seq(Symbol)
  BY DEF v, r, Symbol, Kinds, Text, Word, Silent
<1>2. Spells(v, r, <<2, 4, 5, 7, 8>>)
  BY DEF v, r, Spells, Silent, TokenOf, Raw
<1>3. Suits(k, v, r)
  BY DEF v, r, Suits, Pairs, Glue, Order, Begins, Ends, WordEnd, AfterWord, Word, Operator, Operand,
         LineStart, Unfinished, Braces, TopLevel
<1> QED
  BY <1>1, <1>2, <1>3, GoodIs DEF v, r

LEMMA SetVarIsGood ==
    ASSUME NEW kw \in {"let", "var"}, NEW k \in {"Line", "Node"}
    PROVE  Good(k, [read  |-> <<kw, "name", "=", "Expr", "semi">>,
                    visit |-> <<"line", kw, "space", "name", "space", "=", "space", "Expr",
                                "putSemi">>])
<1> DEFINE v == <<"line", kw, "space", "name", "space", "=", "space", "Expr", "putSemi">>
           r == <<kw, "name", "=", "Expr", "semi">>
<1> HIDE DEF v, r
<1>1. v \in Seq(Symbol) /\ r \in Seq(Symbol)
  BY DEF v, r, Symbol, Kinds, Text, Word, Silent
<1>2. Spells(v, r, <<2, 4, 6, 8, 9>>)
  BY DEF v, r, Spells, Silent, TokenOf, Raw
<1>3. Suits(k, v, r)
  BY DEF v, r, Suits, Pairs, Glue, Order, Begins, Ends, WordEnd, AfterWord, Word, Operator, Operand,
         LineStart, Unfinished, Braces, TopLevel
<1> QED
  BY <1>1, <1>2, <1>3, GoodIs DEF v, r

LEMMA TypedSetVarIsGood ==
    ASSUME NEW kw \in {"let", "var"}, NEW k \in {"Line", "Node"}
    PROVE  Good(k, [read  |-> <<kw, "name", ":", "Type", "=", "Expr", "semi">>,
                    visit |-> <<"line", kw, "space", "name", ":", "space", "Type", "space", "=",
                                "space", "Expr", "putSemi">>])
<1> DEFINE v == <<"line", kw, "space", "name", ":", "space", "Type", "space", "=", "space",
                  "Expr", "putSemi">>
           r == <<kw, "name", ":", "Type", "=", "Expr", "semi">>
<1> HIDE DEF v, r
<1>1. v \in Seq(Symbol) /\ r \in Seq(Symbol)
  BY DEF v, r, Symbol, Kinds, Text, Word, Silent
<1>2. Spells(v, r, <<2, 4, 5, 7, 9, 11, 12>>)
  BY DEF v, r, Spells, Silent, TokenOf, Raw
<1>3. Suits(k, v, r)
  BY DEF v, r, Suits, Pairs, Glue, Order, Begins, Ends, WordEnd, AfterWord, Word, Operator, Operand,
         LineStart, Unfinished, Braces, TopLevel
<1> QED
  BY <1>1, <1>2, <1>3, GoodIs DEF v, r

LEMMA FuncIsGood ==
    ASSUME NEW k \in {"Func"}
    PROVE  Good(k, [read  |-> <<"func", "name", "(", "Vars", ")">>,
                    visit |-> <<"func", "space", "name", "(", "Vars", ")">>])
<1> DEFINE v == <<"func", "space", "name", "(", "Vars", ")">>
           r == <<"func", "name", "(", "Vars", ")">>
<1> HIDE DEF v, r
<1>1. v \in Seq(Symbol) /\ r \in Seq(Symbol)
  BY DEF v, r, Symbol, Kinds, Text, Word, Silent
<1>2. Spells(v, r, <<1, 3, 4, 5, 6>>)
  BY DEF v, r, Spells, Silent, TokenOf, Raw
<1>3. Suits(k, v, r)
  BY DEF v, r, Suits, Pairs, Glue, Order, Begins, Ends, WordEnd, AfterWord, Word, Operator, Operand,
         LineStart, Unfinished, Braces, TopLevel
<1> QED
  BY <1>1, <1>2, <1>3, GoodIs DEF v, r

LEMMA TypedFuncIsGood ==
    ASSUME NEW k \in {"Func"}
    PROVE  Good(k, [read  |-> <<"func", "name", "(", "Vars", ")", "->", "BaseType">>,
                    visit |-> <<"func", "space", "name", "(", "Vars", ")", "space", "->", "space",
                                "BaseType">>])
<1> DEFINE v == <<"func", "space", "name", "(", "Vars", ")", "space", "->", "space", "BaseType">>
           r == <<"func", "name", "(", "Vars", ")", "->", "BaseType">>
<1> HIDE DEF v, r
<1>1. v \in Seq(Symbol) /\ r \in Seq(Symbol)
  BY DEF v, r, Symbol, Kinds, Text, Word, Silent
<1>2. Spells(v, r, <<1, 3, 4, 5, 6, 8, 10>>)
  BY DEF v, r, Spells, Silent, TokenOf, Raw
<1>3. Suits(k, v, r)
  BY DEF v, r, Suits, Pairs, Glue, Order, Begins, Ends, WordEnd, AfterWord, Word, Operator, Operand,
         LineStart, Unfinished, Braces, TopLevel
<1> QED
  BY <1>1, <1>2, <1>3, GoodIs DEF v, r

LEMMA ParamIsGood ==
    ASSUME NEW k \in {"Param"}
    PROVE  Good(k, [read  |-> <<"name", ":", "Type">>,
                    visit |-> <<"name", ":", "space", "Type">>])
<1> DEFINE v == <<"name", ":", "space", "Type">>
           r == <<"name", ":", "Type">>
<1> HIDE DEF v, r
<1>1. v \in Seq(Symbol) /\ r \in Seq(Symbol)
  BY DEF v, r, Symbol, Kinds, Text, Word, Silent
<1>2. Spells(v, r, <<1, 2, 4>>)
  BY DEF v, r, Spells, Silent, TokenOf, Raw
<1>3. Suits(k, v, r)
  BY DEF v, r, Suits, Pairs, Glue, Order, Begins, Ends, WordEnd, AfterWord, Word, Operator, Operand,
         LineStart, Unfinished, Braces, TopLevel
<1> QED
  BY <1>1, <1>2, <1>3, GoodIs DEF v, r

LEMMA IteratorIsGood ==
    ASSUME NEW k \in {"Iterator"}
    PROVE  Good(k, [read  |-> <<"name">>,
                    visit |-> <<"name">>])
<1> DEFINE v == <<"name">>
           r == <<"name">>
<1> HIDE DEF v, r
<1>1. v \in Seq(Symbol) /\ r \in Seq(Symbol)
  BY DEF v, r, Symbol, Kinds, Text, Word, Silent
<1>2. Spells(v, r, <<1>>)
  BY DEF v, r, Spells, Silent, TokenOf, Raw
<1>3. Suits(k, v, r)
  BY DEF v, r, Suits, Pairs, Glue, Order, Begins, Ends, WordEnd, AfterWord, Word, Operator, Operand,
         LineStart, Unfinished, Braces, TopLevel
<1> QED
  BY <1>1, <1>2, <1>3, GoodIs DEF v, r

LEMMA NumberIsGood ==
    ASSUME NEW k \in {"Expr", "Sum", "Primary"}
    PROVE  Good(k, [read  |-> <<"number">>,
                    visit |-> <<"number">>])
<1> DEFINE v == <<"number">>
           r == <<"number">>
<1> HIDE DEF v, r
<1>1. v \in Seq(Symbol) /\ r \in Seq(Symbol)
  BY DEF v, r, Symbol, Kinds, Text, Word, Silent
<1>2. Spells(v, r, <<1>>)
  BY DEF v, r, Spells, Silent, TokenOf, Raw
<1>3. Suits(k, v, r)
  BY DEF v, r, Suits, Pairs, Glue, Order, Begins, Ends, WordEnd, AfterWord, Word, Operator, Operand,
         LineStart, Unfinished, Braces, TopLevel
<1> QED
  BY <1>1, <1>2, <1>3, GoodIs DEF v, r

LEMMA ArrayIsGood ==
    ASSUME NEW k \in {"Expr", "Sum", "Primary", "Postfix"}
    PROVE  Good(k, [read  |-> <<"[", "Values", "]">>,
                    visit |-> <<"[", "Values", "]">>])
<1> DEFINE v == <<"[", "Values", "]">>
           r == <<"[", "Values", "]">>
<1> HIDE DEF v, r
<1>1. v \in Seq(Symbol) /\ r \in Seq(Symbol)
  BY DEF v, r, Symbol, Kinds, Text, Word, Silent
<1>2. Spells(v, r, <<1, 2, 3>>)
  BY DEF v, r, Spells, Silent, TokenOf, Raw
<1>3. Suits(k, v, r)
  BY DEF v, r, Suits, Pairs, Glue, Order, Begins, Ends, WordEnd, AfterWord, Word, Operator, Operand,
         LineStart, Unfinished, Braces, TopLevel
<1> QED
  BY <1>1, <1>2, <1>3, GoodIs DEF v, r

LEMMA NameIsGood ==
    ASSUME NEW k \in {"Expr", "Sum", "Primary", "Postfix", "Type", "BaseType"}
    PROVE  Good(k, [read  |-> <<"name">>,
                    visit |-> <<"name">>])
<1> DEFINE v == <<"name">>
           r == <<"name">>
<1> HIDE DEF v, r
<1>1. v \in Seq(Symbol) /\ r \in Seq(Symbol)
  BY DEF v, r, Symbol, Kinds, Text, Word, Silent
<1>2. Spells(v, r, <<1>>)
  BY DEF v, r, Spells, Silent, TokenOf, Raw
<1>3. Suits(k, v, r)
  BY DEF v, r, Suits, Pairs, Glue, Order, Begins, Ends, WordEnd, AfterWord, Word, Operator, Operand,
         LineStart, Unfinished, Braces, TopLevel
<1> QED
  BY <1>1, <1>2, <1>3, GoodIs DEF v, r

LEMMA InOutIsGood ==
    ASSUME NEW k \in {"Expr", "Sum", "Primary"}
    PROVE  Good(k, [read  |-> <<"&", "Primary">>,
                    visit |-> <<"&", "Primary">>])
<1> DEFINE v == <<"&", "Primary">>
           r == <<"&", "Primary">>
<1> HIDE DEF v, r
<1>1. v \in Seq(Symbol) /\ r \in Seq(Symbol)
  BY DEF v, r, Symbol, Kinds, Text, Word, Silent
<1>2. Spells(v, r, <<1, 2>>)
  BY DEF v, r, Spells, Silent, TokenOf, Raw
<1>3. Suits(k, v, r)
  BY DEF v, r, Suits, Pairs, Glue, Order, Begins, Ends, WordEnd, AfterWord, Word, Operator, Operand,
         LineStart, Unfinished, Braces, TopLevel
<1> QED
  BY <1>1, <1>2, <1>3, GoodIs DEF v, r

LEMMA ParenIsGood ==
    ASSUME NEW k \in {"Expr", "Sum", "Primary"}
    PROVE  Good(k, [read  |-> <<"(", "Expr", ")">>,
                    visit |-> <<"(", "Expr", ")">>])
<1> DEFINE v == <<"(", "Expr", ")">>
           r == <<"(", "Expr", ")">>
<1> HIDE DEF v, r
<1>1. v \in Seq(Symbol) /\ r \in Seq(Symbol)
  BY DEF v, r, Symbol, Kinds, Text, Word, Silent
<1>2. Spells(v, r, <<1, 2, 3>>)
  BY DEF v, r, Spells, Silent, TokenOf, Raw
<1>3. Suits(k, v, r)
  BY DEF v, r, Suits, Pairs, Glue, Order, Begins, Ends, WordEnd, AfterWord, Word, Operator, Operand,
         LineStart, Unfinished, Braces, TopLevel
<1> QED
  BY <1>1, <1>2, <1>3, GoodIs DEF v, r

LEMMA CallIsGood ==
    ASSUME NEW k \in {"Expr", "Sum", "Primary", "Postfix"}
    PROVE  Good(k, [read  |-> <<"Postfix", "(", "Values", ")">>,
                    visit |-> <<"Postfix", "(", "Values", ")">>])
<1> DEFINE v == <<"Postfix", "(", "Values", ")">>
           r == <<"Postfix", "(", "Values", ")">>
<1> HIDE DEF v, r
<1>1. v \in Seq(Symbol) /\ r \in Seq(Symbol)
  BY DEF v, r, Symbol, Kinds, Text, Word, Silent
<1>2. Spells(v, r, <<1, 2, 3, 4>>)
  BY DEF v, r, Spells, Silent, TokenOf, Raw
<1>3. Suits(k, v, r)
  BY DEF v, r, Suits, Pairs, Glue, Order, Begins, Ends, WordEnd, AfterWord, Word, Operator, Operand,
         LineStart, Unfinished, Braces, TopLevel
<1> QED
  BY <1>1, <1>2, <1>3, GoodIs DEF v, r

LEMMA MinusIsGood ==
    ASSUME NEW k \in {"Expr", "Sum", "Primary"}
    PROVE  Good(k, [read  |-> <<"-", "Primary">>,
                    visit |-> <<"-", "Primary">>])
<1> DEFINE v == <<"-", "Primary">>
           r == <<"-", "Primary">>
<1> HIDE DEF v, r
<1>1. v \in Seq(Symbol) /\ r \in Seq(Symbol)
  BY DEF v, r, Symbol, Kinds, Text, Word, Silent
<1>2. Spells(v, r, <<1, 2>>)
  BY DEF v, r, Spells, Silent, TokenOf, Raw
<1>3. Suits(k, v, r)
  BY DEF v, r, Suits, Pairs, Glue, Order, Begins, Ends, WordEnd, AfterWord, Word, Operator, Operand,
         LineStart, Unfinished, Braces, TopLevel
<1> QED
  BY <1>1, <1>2, <1>3, GoodIs DEF v, r

LEMMA NotIsGood ==
    ASSUME NEW k \in {"Expr", "Sum", "Primary"}
    PROVE  Good(k, [read  |-> <<"!", "Primary">>,
                    visit |-> <<"!", "Primary">>])
<1> DEFINE v == <<"!", "Primary">>
           r == <<"!", "Primary">>
<1> HIDE DEF v, r
<1>1. v \in Seq(Symbol) /\ r \in Seq(Symbol)
  BY DEF v, r, Symbol, Kinds, Text, Word, Silent
<1>2. Spells(v, r, <<1, 2>>)
  BY DEF v, r, Spells, Silent, TokenOf, Raw
<1>3. Suits(k, v, r)
  BY DEF v, r, Suits, Pairs, Glue, Order, Begins, Ends, WordEnd, AfterWord, Word, Operator, Operand,
         LineStart, Unfinished, Braces, TopLevel
<1> QED
  BY <1>1, <1>2, <1>3, GoodIs DEF v, r

LEMMA SubscriptExprIsGood ==
    ASSUME NEW k \in {"Expr", "Sum", "Primary", "Postfix"}
    PROVE  Good(k, [read  |-> <<"Postfix", "Subscript">>,
                    visit |-> <<"Postfix", "Subscript">>])
<1> DEFINE v == <<"Postfix", "Subscript">>
           r == <<"Postfix", "Subscript">>
<1> HIDE DEF v, r
<1>1. v \in Seq(Symbol) /\ r \in Seq(Symbol)
  BY DEF v, r, Symbol, Kinds, Text, Word, Silent
<1>2. Spells(v, r, <<1, 2>>)
  BY DEF v, r, Spells, Silent, TokenOf, Raw
<1>3. Suits(k, v, r)
  BY DEF v, r, Suits, Pairs, Glue, Order, Begins, Ends, WordEnd, AfterWord, Word, Operator, Operand,
         LineStart, Unfinished, Braces, TopLevel
<1> QED
  BY <1>1, <1>2, <1>3, GoodIs DEF v, r

LEMMA AssignIsGood ==
    ASSUME NEW k \in {"Expr"}
    PROVE  Good(k, [read  |-> <<"Expr", "=", "Sum">>,
                    visit |-> <<"Expr", "space", "=", "space", "Sum">>])
<1> DEFINE v == <<"Expr", "space", "=", "space", "Sum">>
           r == <<"Expr", "=", "Sum">>
<1> HIDE DEF v, r
<1>1. v \in Seq(Symbol) /\ r \in Seq(Symbol)
  BY DEF v, r, Symbol, Kinds, Text, Word, Silent
<1>2. Spells(v, r, <<1, 3, 5>>)
  BY DEF v, r, Spells, Silent, TokenOf, Raw
<1>3. Suits(k, v, r)
  BY DEF v, r, Suits, Pairs, Glue, Order, Begins, Ends, WordEnd, AfterWord, Word, Operator, Operand,
         LineStart, Unfinished, Braces, TopLevel
<1> QED
  BY <1>1, <1>2, <1>3, GoodIs DEF v, r

LEMMA InfixIsGood ==
    ASSUME NEW k \in {"Expr", "Sum"}
    PROVE  Good(k, [read  |-> <<"Sum", "+", "Primary">>,
                    visit |-> <<"Sum", "space", "+", "space", "Primary">>])
<1> DEFINE v == <<"Sum", "space", "+", "space", "Primary">>
           r == <<"Sum", "+", "Primary">>
<1> HIDE DEF v, r
<1>1. v \in Seq(Symbol) /\ r \in Seq(Symbol)
  BY DEF v, r, Symbol, Kinds, Text, Word, Silent
<1>2. Spells(v, r, <<1, 3, 5>>)
  BY DEF v, r, Spells, Silent, TokenOf, Raw
<1>3. Suits(k, v, r)
  BY DEF v, r, Suits, Pairs, Glue, Order, Begins, Ends, WordEnd, AfterWord, Word, Operator, Operand,
         LineStart, Unfinished, Braces, TopLevel
<1> QED
  BY <1>1, <1>2, <1>3, GoodIs DEF v, r

LEMMA BreakIsGood ==
    ASSUME NEW k \in {"Jump", "Node"}
    PROVE  Good(k, [read  |-> <<"break", "semi">>,
                    visit |-> <<"break", "semi">>])
<1> DEFINE v == <<"break", "semi">>
           r == <<"break", "semi">>
<1> HIDE DEF v, r
<1>1. v \in Seq(Symbol) /\ r \in Seq(Symbol)
  BY DEF v, r, Symbol, Kinds, Text, Word, Silent
<1>2. Spells(v, r, <<1, 2>>)
  BY DEF v, r, Spells, Silent, TokenOf, Raw
<1>3. Suits(k, v, r)
  BY DEF v, r, Suits, Pairs, Glue, Order, Begins, Ends, WordEnd, AfterWord, Word, Operator, Operand,
         LineStart, Unfinished, Braces, TopLevel
<1> QED
  BY <1>1, <1>2, <1>3, GoodIs DEF v, r

LEMMA ReturnIsGood ==
    ASSUME NEW k \in {"Jump", "Node"}
    PROVE  Good(k, [read  |-> <<"return", "Expr", "semi">>,
                    visit |-> <<"return", "space", "Expr", "semi">>])
<1> DEFINE v == <<"return", "space", "Expr", "semi">>
           r == <<"return", "Expr", "semi">>
<1> HIDE DEF v, r
<1>1. v \in Seq(Symbol) /\ r \in Seq(Symbol)
  BY DEF v, r, Symbol, Kinds, Text, Word, Silent
<1>2. Spells(v, r, <<1, 3, 4>>)
  BY DEF v, r, Spells, Silent, TokenOf, Raw
<1>3. Suits(k, v, r)
  BY DEF v, r, Suits, Pairs, Glue, Order, Begins, Ends, WordEnd, AfterWord, Word, Operator, Operand,
         LineStart, Unfinished, Braces, TopLevel
<1> QED
  BY <1>1, <1>2, <1>3, GoodIs DEF v, r

LEMMA ReturnNullIsGood ==
    ASSUME NEW k \in {"Jump", "Node"}
    PROVE  Good(k, [read  |-> <<"return", "semi">>,
                    visit |-> <<"return", "space", "null", "semi">>])
<1> DEFINE v == <<"return", "space", "null", "semi">>
           r == <<"return", "semi">>
<1> HIDE DEF v, r
<1>1. v \in Seq(Symbol) /\ r \in Seq(Symbol)
  BY DEF v, r, Symbol, Kinds, Text, Word, Silent
<1>2. Spells(v, r, <<1, 4>>)
  BY DEF v, r, Spells, Silent, TokenOf, Raw
<1>3. Suits(k, v, r)
  BY DEF v, r, Suits, Pairs, Glue, Order, Begins, Ends, WordEnd, AfterWord, Word, Operator, Operand,
         LineStart, Unfinished, Braces, TopLevel
<1> QED
  BY <1>1, <1>2, <1>3, GoodIs DEF v, r

LEMMA SubscriptIsGood ==
    ASSUME NEW k \in {"Subscript"}
    PROVE  Good(k, [read  |-> <<"[", "Expr", "]">>,
                    visit |-> <<"[", "Expr", "]">>])
<1> DEFINE v == <<"[", "Expr", "]">>
           r == <<"[", "Expr", "]">>
<1> HIDE DEF v, r
<1>1. v \in Seq(Symbol) /\ r \in Seq(Symbol)
  BY DEF v, r, Symbol, Kinds, Text, Word, Silent
<1>2. Spells(v, r, <<1, 2, 3>>)
  BY DEF v, r, Spells, Silent, TokenOf, Raw
<1>3. Suits(k, v, r)
  BY DEF v, r, Suits, Pairs, Glue, Order, Begins, Ends, WordEnd, AfterWord, Word, Operator, Operand,
         LineStart, Unfinished, Braces, TopLevel
<1> QED
  BY <1>1, <1>2, <1>3, GoodIs DEF v, r

LEMMA RangeIsGood ==
    ASSUME NEW k \in {"Range"}
    PROVE  Good(k, [read  |-> <<"Expr", "..", "Expr">>,
                    visit |-> <<"Expr", "..", "Expr">>])
<1> DEFINE v == <<"Expr", "..", "Expr">>
           r == <<"Expr", "..", "Expr">>
<1> HIDE DEF v, r
<1>1. v \in Seq(Symbol) /\ r \in Seq(Symbol)
  BY DEF v, r, Symbol, Kinds, Text, Word, Silent
<1>2. Spells(v, r, <<1, 2, 3>>)
  BY DEF v, r, Spells, Silent, TokenOf, Raw
<1>3. Suits(k, v, r)
  BY DEF v, r, Suits, Pairs, Glue, Order, Begins, Ends, WordEnd, AfterWord, Word, Operator, Operand,
         LineStart, Unfinished, Braces, TopLevel
<1> QED
  BY <1>1, <1>2, <1>3, GoodIs DEF v, r

LEMMA ClosedRangeIsGood ==
    ASSUME NEW k \in {"Range"}
    PROVE  Good(k, [read  |-> <<"Expr", "...", "Expr">>,
                    visit |-> <<"Expr", "...", "Expr">>])
<1> DEFINE v == <<"Expr", "...", "Expr">>
           r == <<"Expr", "...", "Expr">>
<1> HIDE DEF v, r
<1>1. v \in Seq(Symbol) /\ r \in Seq(Symbol)
  BY DEF v, r, Symbol, Kinds, Text, Word, Silent
<1>2. Spells(v, r, <<1, 2, 3>>)
  BY DEF v, r, Spells, Silent, TokenOf, Raw
<1>3. Suits(k, v, r)
  BY DEF v, r, Suits, Pairs, Glue, Order, Begins, Ends, WordEnd, AfterWord, Word, Operator, Operand,
         LineStart, Unfinished, Braces, TopLevel
<1> QED
  BY <1>1, <1>2, <1>3, GoodIs DEF v, r

LEMMA FuncStmtIsGood ==
    ASSUME NEW k \in {"Line", "Node"}
    PROVE  Good(k, [read  |-> <<"Func", "Block">>,
                    visit |-> <<"line", "newline", "Func", "space", "Block">>])
<1> DEFINE v == <<"line", "newline", "Func", "space", "Block">>
           r == <<"Func", "Block">>
<1> HIDE DEF v, r
<1>1. v \in Seq(Symbol) /\ r \in Seq(Symbol)
  BY DEF v, r, Symbol, Kinds, Text, Word, Silent
<1>2. Spells(v, r, <<3, 5>>)
  BY DEF v, r, Spells, Silent, TokenOf, Raw
<1>3. Suits(k, v, r)
  BY DEF v, r, Suits, Pairs, Glue, Order, Begins, Ends, WordEnd, AfterWord, Word, Operator, Operand,
         LineStart, Unfinished, Braces, TopLevel
<1> QED
  BY <1>1, <1>2, <1>3, GoodIs DEF v, r

LEMMA ForIsGood ==
    ASSUME NEW k \in {"Line", "Node"}
    PROVE  Good(k, [read  |-> <<"for", "Iterator", "in", "Range", "Block">>,
                    visit |-> <<"line", "for", "space", "Iterator", "space", "in", "space",
                                "Range", "space", "Block">>])
<1> DEFINE v == <<"line", "for", "space", "Iterator", "space", "in", "space", "Range", "space",
                  "Block">>
           r == <<"for", "Iterator", "in", "Range", "Block">>
<1> HIDE DEF v, r
<1>1. v \in Seq(Symbol) /\ r \in Seq(Symbol)
  BY DEF v, r, Symbol, Kinds, Text, Word, Silent
<1>2. Spells(v, r, <<2, 4, 6, 8, 10>>)
  BY DEF v, r, Spells, Silent, TokenOf, Raw
<1>3. Suits(k, v, r)
  BY DEF v, r, Suits, Pairs, Glue, Order, Begins, Ends, WordEnd, AfterWord, Word, Operator, Operand,
         LineStart, Unfinished, Braces, TopLevel
<1> QED
  BY <1>1, <1>2, <1>3, GoodIs DEF v, r

LEMMA WhileIsGood ==
    ASSUME NEW k \in {"Line", "Node"}
    PROVE  Good(k, [read  |-> <<"while", "Expr", "Block">>,
                    visit |-> <<"line", "while", "space", "Expr", "space", "Block">>])
<1> DEFINE v == <<"line", "while", "space", "Expr", "space", "Block">>
           r == <<"while", "Expr", "Block">>
<1> HIDE DEF v, r
<1>1. v \in Seq(Symbol) /\ r \in Seq(Symbol)
  BY DEF v, r, Symbol, Kinds, Text, Word, Silent
<1>2. Spells(v, r, <<2, 4, 6>>)
  BY DEF v, r, Spells, Silent, TokenOf, Raw
<1>3. Suits(k, v, r)
  BY DEF v, r, Suits, Pairs, Glue, Order, Begins, Ends, WordEnd, AfterWord, Word, Operator, Operand,
         LineStart, Unfinished, Braces, TopLevel
<1> QED
  BY <1>1, <1>2, <1>3, GoodIs DEF v, r

LEMMA IfIsGood ==
    ASSUME NEW k \in {"Line", "Node"}
    PROVE  Good(k, [read  |-> <<"if", "Expr", "Block">>,
                    visit |-> <<"line", "if", "space", "Expr", "space", "Block">>])
<1> DEFINE v == <<"line", "if", "space", "Expr", "space", "Block">>
           r == <<"if", "Expr", "Block">>
<1> HIDE DEF v, r
<1>1. v \in Seq(Symbol) /\ r \in Seq(Symbol)
  BY DEF v, r, Symbol, Kinds, Text, Word, Silent
<1>2. Spells(v, r, <<2, 4, 6>>)
  BY DEF v, r, Spells, Silent, TokenOf, Raw
<1>3. Suits(k, v, r)
  BY DEF v, r, Suits, Pairs, Glue, Order, Begins, Ends, WordEnd, AfterWord, Word, Operator, Operand,
         LineStart, Unfinished, Braces, TopLevel
<1> QED
  BY <1>1, <1>2, <1>3, GoodIs DEF v, r

LEMMA IfElseIsGood ==
    ASSUME NEW k \in {"Line", "Node"}
    PROVE  Good(k, [read  |-> <<"if", "Expr", "Block", "else", "Block">>,
                    visit |-> <<"line", "if", "space", "Expr", "space", "Block", "space", "else",
                                "space", "Block">>])
<1> DEFINE v == <<"line", "if", "space", "Expr", "space", "Block", "space", "else", "space",
                  "Block">>
           r == <<"if", "Expr", "Block", "else", "Block">>
<1> HIDE DEF v, r
<1>1. v \in Seq(Symbol) /\ r \in Seq(Symbol)
  BY DEF v, r, Symbol, Kinds, Text, Word, Silent
<1>2. Spells(v, r, <<2, 4, 6, 8, 10>>)
  BY DEF v, r, Spells, Silent, TokenOf, Raw
<1>3. Suits(k, v, r)
  BY DEF v, r, Suits, Pairs, Glue, Order, Begins, Ends, WordEnd, AfterWord, Word, Operator, Operand,
         LineStart, Unfinished, Braces, TopLevel
<1> QED
  BY <1>1, <1>2, <1>3, GoodIs DEF v, r

LEMMA BlockIsGood ==
    ASSUME NEW k \in {"Block"}
    PROVE  Good(k, [read  |-> <<"lbrace", "Nodes", "rbrace">>,
                    visit |-> <<"lbrace", "++", "Nodes", "--", "rbrace">>])
<1> DEFINE v == <<"lbrace", "++", "Nodes", "--", "rbrace">>
           r == <<"lbrace", "Nodes", "rbrace">>
<1> HIDE DEF v, r
<1>1. v \in Seq(Symbol) /\ r \in Seq(Symbol)
  BY DEF v, r, Symbol, Kinds, Text, Word, Silent
<1>2. Spells(v, r, <<1, 3, 5>>)
  BY DEF v, r, Spells, Silent, TokenOf, Raw
<1>3. Suits(k, v, r)
  BY DEF v, r, Suits, Pairs, Glue, Order, Begins, Ends, WordEnd, AfterWord, Word, Operator, Operand,
         LineStart, Unfinished, Braces, TopLevel
<1> QED
  BY <1>1, <1>2, <1>3, GoodIs DEF v, r

LEMMA NodesAreGood ==
    ASSUME NEW k \in {"Nodes"}
    PROVE  Good(k, [read  |-> <<"Node", "MoreNodes">>,
                    visit |-> <<"begin", "Node", "MoreNodes">>])
<1> DEFINE v == <<"begin", "Node", "MoreNodes">>
           r == <<"Node", "MoreNodes">>
<1> HIDE DEF v, r
<1>1. v \in Seq(Symbol) /\ r \in Seq(Symbol)
  BY DEF v, r, Symbol, Kinds, Text, Word, Silent
<1>2. Spells(v, r, <<2, 3>>)
  BY DEF v, r, Spells, Silent, TokenOf, Raw
<1>3. Suits(k, v, r)
  BY DEF v, r, Suits, Pairs, Glue, Order, Begins, Ends, WordEnd, AfterWord, Word, Operator, Operand,
         LineStart, Unfinished, Braces, TopLevel
<1> QED
  BY <1>1, <1>2, <1>3, GoodIs DEF v, r

LEMMA MoreNodesAreGood ==
    ASSUME NEW k \in {"MoreNodes"}
    PROVE  Good(k, [read  |-> <<"Node", "MoreNodes">>,
                    visit |-> <<"newline", "begin", "Node", "MoreNodes">>])
<1> DEFINE v == <<"newline", "begin", "Node", "MoreNodes">>
           r == <<"Node", "MoreNodes">>
<1> HIDE DEF v, r
<1>1. v \in Seq(Symbol) /\ r \in Seq(Symbol)
  BY DEF v, r, Symbol, Kinds, Text, Word, Silent
<1>2. Spells(v, r, <<3, 4>>)
  BY DEF v, r, Spells, Silent, TokenOf, Raw
<1>3. Suits(k, v, r)
  BY DEF v, r, Suits, Pairs, Glue, Order, Begins, Ends, WordEnd, AfterWord, Word, Operator, Operand,
         LineStart, Unfinished, Braces, TopLevel
<1> QED
  BY <1>1, <1>2, <1>3, GoodIs DEF v, r

LEMMA ExprNodeIsGood ==
    ASSUME NEW k \in {"Node"}
    PROVE  Good(k, [read  |-> <<"Expr", "semi">>,
                    visit |-> <<"Expr", "putSemi">>])
<1> DEFINE v == <<"Expr", "putSemi">>
           r == <<"Expr", "semi">>
<1> HIDE DEF v, r
<1>1. v \in Seq(Symbol) /\ r \in Seq(Symbol)
  BY DEF v, r, Symbol, Kinds, Text, Word, Silent
<1>2. Spells(v, r, <<1, 2>>)
  BY DEF v, r, Spells, Silent, TokenOf, Raw
<1>3. Suits(k, v, r)
  BY DEF v, r, Suits, Pairs, Glue, Order, Begins, Ends, WordEnd, AfterWord, Word, Operator, Operand,
         LineStart, Unfinished, Braces, TopLevel
<1> QED
  BY <1>1, <1>2, <1>3, GoodIs DEF v, r

LEMMA ModuleIsGood ==
    ASSUME NEW k \in {"Module"}
    PROVE  Good(k, [read  |-> <<"Contents">>,
                    visit |-> <<"Contents", "newline">>])
<1> DEFINE v == <<"Contents", "newline">>
           r == <<"Contents">>
<1> HIDE DEF v, r
<1>1. v \in Seq(Symbol) /\ r \in Seq(Symbol)
  BY DEF v, r, Symbol, Kinds, Text, Word, Silent
<1>2. Spells(v, r, <<1>>)
  BY DEF v, r, Spells, Silent, TokenOf, Raw
<1>3. Suits(k, v, r)
  BY DEF v, r, Suits, Pairs, Glue, Order, Begins, Ends, WordEnd, AfterWord, Word, Operator, Operand,
         LineStart, Unfinished, Braces, TopLevel
<1> QED
  BY <1>1, <1>2, <1>3, GoodIs DEF v, r

LEMMA LineContentsAreGood ==
    ASSUME NEW k \in {"Contents"}
    PROVE  Good(k, [read  |-> <<"Line", "Contents">>,
                    visit |-> <<"begin", "Line", "Contents">>])
<1> DEFINE v == <<"begin", "Line", "Contents">>
           r == <<"Line", "Contents">>
<1> HIDE DEF v, r
<1>1. v \in Seq(Symbol) /\ r \in Seq(Symbol)
  BY DEF v, r, Symbol, Kinds, Text, Word, Silent
<1>2. Spells(v, r, <<2, 3>>)
  BY DEF v, r, Spells, Silent, TokenOf, Raw
<1>3. Suits(k, v, r)
  BY DEF v, r, Suits, Pairs, Glue, Order, Begins, Ends, WordEnd, AfterWord, Word, Operator, Operand,
         LineStart, Unfinished, Braces, TopLevel
<1> QED
  BY <1>1, <1>2, <1>3, GoodIs DEF v, r

LEMMA JumpContentsAreGood ==
    ASSUME NEW k \in {"Contents"}
    PROVE  Good(k, [read  |-> <<"Jump", "Contents">>,
                    visit |-> <<"Jump", "Contents">>])
<1> DEFINE v == <<"Jump", "Contents">>
           r == <<"Jump", "Contents">>
<1> HIDE DEF v, r
<1>1. v \in Seq(Symbol) /\ r \in Seq(Symbol)
  BY DEF v, r, Symbol, Kinds, Text, Word, Silent
<1>2. Spells(v, r, <<1, 2>>)
  BY DEF v, r, Spells, Silent, TokenOf, Raw
<1>3. Suits(k, v, r)
  BY DEF v, r, Suits, Pairs, Glue, Order, Begins, Ends, WordEnd, AfterWord, Word, Operator, Operand,
         LineStart, Unfinished, Braces, TopLevel
<1> QED
  BY <1>1, <1>2, <1>3, GoodIs DEF v, r

LEMMA ExprContentsAreGood ==
    ASSUME NEW k \in {"Contents"}
    PROVE  Good(k, [read  |-> <<"Expr", "semi", "Contents">>,
                    visit |-> <<"newline", "begin", "Expr", "putSemi", "Contents">>])
<1> DEFINE v == <<"newline", "begin", "Expr", "putSemi", "Contents">>
           r == <<"Expr", "semi", "Contents">>
<1> HIDE DEF v, r
<1>1. v \in Seq(Symbol) /\ r \in Seq(Symbol)
  BY DEF v, r, Symbol, Kinds, Text, Word, Silent
<1>2. Spells(v, r, <<3, 4, 5>>)
  BY DEF v, r, Spells, Silent, TokenOf, Raw
<1>3. Suits(k, v, r)
  BY DEF v, r, Suits, Pairs, Glue, Order, Begins, Ends, WordEnd, AfterWord, Word, Operator, Operand,
         LineStart, Unfinished, Braces, TopLevel
<1> QED
  BY <1>1, <1>2, <1>3, GoodIs DEF v, r

LEMMA NullContentsAreGood ==
    ASSUME NEW k \in {"Contents"}
    PROVE  Good(k, [read  |-> <<"Contents">>,
                    visit |-> <<"unreachable", "Contents">>])
<1> DEFINE v == <<"unreachable", "Contents">>
           r == <<"Contents">>
<1> HIDE DEF v, r
<1>1. v \in Seq(Symbol) /\ r \in Seq(Symbol)
  BY DEF v, r, Symbol, Kinds, Text, Word, Silent
<1>2. Spells(v, r, <<2>>)
  BY DEF v, r, Spells, Silent, TokenOf, Raw
<1>3. Suits(k, v, r)
  BY DEF v, r, Suits, Pairs, Glue, Order, Begins, Ends, WordEnd, AfterWord, Word, Operator, Operand,
         LineStart, Unfinished, Braces, TopLevel
<1> QED
  BY <1>1, <1>2, <1>3, GoodIs DEF v, r

LEMMA ValuesAreGood ==
    ASSUME NEW k \in {"Values"}
    PROVE  Good(k, [read  |-> <<"Expr", "MoreValues">>,
                    visit |-> <<"Expr", "MoreValues">>])
<1> DEFINE v == <<"Expr", "MoreValues">>
           r == <<"Expr", "MoreValues">>
<1> HIDE DEF v, r
<1>1. v \in Seq(Symbol) /\ r \in Seq(Symbol)
  BY DEF v, r, Symbol, Kinds, Text, Word, Silent
<1>2. Spells(v, r, <<1, 2>>)
  BY DEF v, r, Spells, Silent, TokenOf, Raw
<1>3. Suits(k, v, r)
  BY DEF v, r, Suits, Pairs, Glue, Order, Begins, Ends, WordEnd, AfterWord, Word, Operator, Operand,
         LineStart, Unfinished, Braces, TopLevel
<1> QED
  BY <1>1, <1>2, <1>3, GoodIs DEF v, r

LEMMA MoreValuesAreGood ==
    ASSUME NEW k \in {"MoreValues"}
    PROVE  Good(k, [read  |-> <<"comma", "Expr", "MoreValues">>,
                    visit |-> <<"putComma", "space", "Expr", "MoreValues">>])
<1> DEFINE v == <<"putComma", "space", "Expr", "MoreValues">>
           r == <<"comma", "Expr", "MoreValues">>
<1> HIDE DEF v, r
<1>1. v \in Seq(Symbol) /\ r \in Seq(Symbol)
  BY DEF v, r, Symbol, Kinds, Text, Word, Silent
<1>2. Spells(v, r, <<1, 3, 4>>)
  BY DEF v, r, Spells, Silent, TokenOf, Raw
<1>3. Suits(k, v, r)
  BY DEF v, r, Suits, Pairs, Glue, Order, Begins, Ends, WordEnd, AfterWord, Word, Operator, Operand,
         LineStart, Unfinished, Braces, TopLevel
<1> QED
  BY <1>1, <1>2, <1>3, GoodIs DEF v, r

LEMMA VarsAreGood ==
    ASSUME NEW k \in {"Vars"}
    PROVE  Good(k, [read  |-> <<"Param", "MoreVars">>,
                    visit |-> <<"Param", "MoreVars">>])
<1> DEFINE v == <<"Param", "MoreVars">>
           r == <<"Param", "MoreVars">>
<1> HIDE DEF v, r
<1>1. v \in Seq(Symbol) /\ r \in Seq(Symbol)
  BY DEF v, r, Symbol, Kinds, Text, Word, Silent
<1>2. Spells(v, r, <<1, 2>>)
  BY DEF v, r, Spells, Silent, TokenOf, Raw
<1>3. Suits(k, v, r)
  BY DEF v, r, Suits, Pairs, Glue, Order, Begins, Ends, WordEnd, AfterWord, Word, Operator, Operand,
         LineStart, Unfinished, Braces, TopLevel
<1> QED
  BY <1>1, <1>2, <1>3, GoodIs DEF v, r

LEMMA MoreVarsAreGood ==
    ASSUME NEW k \in {"MoreVars"}
    PROVE  Good(k, [read  |-> <<"comma", "Param", "MoreVars">>,
                    visit |-> <<"putComma", "space", "Param", "MoreVars">>])
<1> DEFINE v == <<"putComma", "space", "Param", "MoreVars">>
           r == <<"comma", "Param", "MoreVars">>
<1> HIDE DEF v, r
<1>1. v \in Seq(Symbol) /\ r \in Seq(Symbol)
  BY DEF v, r, Symbol, Kinds, Text, Word, Silent
<1>2. Spells(v, r, <<1, 3, 4>>)
  BY DEF v, r, Spells, Silent, TokenOf, Raw
<1>3. Suits(k, v, r)
  BY DEF v, r, Suits, Pairs, Glue, Order, Begins, Ends, WordEnd, AfterWord, Word, Operator, Operand,
         LineStart, Unfinished, Braces, TopLevel
<1> QED
  BY <1>1, <1>2, <1>3, GoodIs DEF v, r

LEMMA ArrayTypeIsGood ==
    ASSUME NEW k \in {"Type", "BaseType"}
    PROVE  Good(k, [read  |-> <<"BaseType", "Subscript">>,
                    visit |-> <<"BaseType", "Subscript">>])
<1> DEFINE v == <<"BaseType", "Subscript">>
           r == <<"BaseType", "Subscript">>
<1> HIDE DEF v, r
<1>1. v \in Seq(Symbol) /\ r \in Seq(Symbol)
  BY DEF v, r, Symbol, Kinds, Text, Word, Silent
<1>2. Spells(v, r, <<1, 2>>)
  BY DEF v, r, Spells, Silent, TokenOf, Raw
<1>3. Suits(k, v, r)
  BY DEF v, r, Suits, Pairs, Glue, Order, Begins, Ends, WordEnd, AfterWord, Word, Operator, Operand,
         LineStart, Unfinished, Braces, TopLevel
<1> QED
  BY <1>1, <1>2, <1>3, GoodIs DEF v, r

LEMMA InOutTypeIsGood ==
    ASSUME NEW k \in {"Type"}
    PROVE  Good(k, [read  |-> <<"inout", "BaseType">>,
                    visit |-> <<"inout", "space", "BaseType">>])
<1> DEFINE v == <<"inout", "space", "BaseType">>
           r == <<"inout", "BaseType">>
<1> HIDE DEF v, r
<1>1. v \in Seq(Symbol) /\ r \in Seq(Symbol)
  BY DEF v, r, Symbol, Kinds, Text, Word, Silent
<1>2. Spells(v, r, <<1, 3>>)
  BY DEF v, r, Spells, Silent, TokenOf, Raw
<1>3. Suits(k, v, r)
  BY DEF v, r, Suits, Pairs, Glue, Order, Begins, Ends, WordEnd, AfterWord, Word, Operator, Operand,
         LineStart, Unfinished, Braces, TopLevel
<1> QED
  BY <1>1, <1>2, <1>3, GoodIs DEF v, r

(* What the hooks print, together with what the visitors do *)

LEMMA ForJoin ==
    <<"line">> \o <<"for", "space", "Iterator", "space", "in", "space", "Range", "space",
                      "Block">>
    = <<"line", "for", "space", "Iterator", "space", "in", "space", "Range", "space", "Block">>
<1> DEFINE s == <<"line">>
           t == <<"for", "space", "Iterator", "space", "in", "space", "Range", "space", "Block">>
           u == <<"line", "for", "space", "Iterator", "space", "in", "space", "Range", "space",
                  "Block">>
<1> HIDE DEF s, t, u
<1>1. s \in Seq(Symbol) /\ t \in Seq(Symbol) /\ u \in Seq(Symbol)
  BY DEF s, t, u, Symbol, Kinds, Text, Word, Silent
<1>2. /\ Len(u) = Len(s) + Len(t)
      /\ \A i \in 1 .. Len(s) : u[i] = s[i]
      /\ \A i \in 1 .. Len(t) : u[i + Len(s)] = t[i]
  BY DEF s, t, u
<1> QED
  BY <1>1, <1>2, Join DEF s, t, u

LEMMA WhileJoin ==
    <<"line">> \o <<"while", "space", "Expr", "space", "Block">>
    = <<"line", "while", "space", "Expr", "space", "Block">>
<1> DEFINE s == <<"line">>
           t == <<"while", "space", "Expr", "space", "Block">>
           u == <<"line", "while", "space", "Expr", "space", "Block">>
<1> HIDE DEF s, t, u
<1>1. s \in Seq(Symbol) /\ t \in Seq(Symbol) /\ u \in Seq(Symbol)
  BY DEF s, t, u, Symbol, Kinds, Text, Word, Silent
<1>2. /\ Len(u) = Len(s) + Len(t)
      /\ \A i \in 1 .. Len(s) : u[i] = s[i]
      /\ \A i \in 1 .. Len(t) : u[i + Len(s)] = t[i]
  BY DEF s, t, u
<1> QED
  BY <1>1, <1>2, Join DEF s, t, u

LEMMA IfJoin ==
    <<"line">> \o <<"if", "space", "Expr", "space", "Block">>
    = <<"line", "if", "space", "Expr", "space", "Block">>
<1> DEFINE s == <<"line">>
           t == <<"if", "space", "Expr", "space", "Block">>
           u == <<"line", "if", "space", "Expr", "space", "Block">>
<1> HIDE DEF s, t, u
<1>1. s \in Seq(Symbol) /\ t \in Seq(Symbol) /\ u \in Seq(Symbol)
  BY DEF s, t, u, Symbol, Kinds, Text, Word, Silent
<1>2. /\ Len(u) = Len(s) + Len(t)
      /\ \A i \in 1 .. Len(s) : u[i] = s[i]
      /\ \A i \in 1 .. Len(t) : u[i + Len(s)] = t[i]
  BY DEF s, t, u
<1> QED
  BY <1>1, <1>2, Join DEF s, t, u

LEMMA IfElseJoin ==
    <<"line">> \o <<"if", "space", "Expr", "space", "Block", "space", "else", "space", "Block">>
    = <<"line", "if", "space", "Expr", "space", "Block", "space", "else", "space", "Block">>
<1> DEFINE s == <<"line">>
           t == <<"if", "space", "Expr", "space", "Block", "space", "else", "space", "Block">>
           u == <<"line", "if", "space", "Expr", "space", "Block", "space", "else", "space",
                  "Block">>
<1> HIDE DEF s, t, u
<1>1. s \in Seq(Symbol) /\ t \in Seq(Symbol) /\ u \in Seq(Symbol)
  BY DEF s, t, u, Symbol, Kinds, Text, Word, Silent
<1>2. /\ Len(u) = Len(s) + Len(t)
      /\ \A i \in 1 .. Len(s) : u[i] = s[i]
      /\ \A i \in 1 .. Len(t) : u[i + Len(s)] = t[i]
  BY DEF s, t, u
<1> QED
  BY <1>1, <1>2, Join DEF s, t, u

LEMMA SubscriptJoin ==
    <<"[">> \o <<"Expr">>
    = <<"[", "Expr">>
<1> DEFINE s == <<"[">>
           t == <<"Expr">>
           u == <<"[", "Expr">>
<1> HIDE DEF s, t, u
<1>1. s \in Seq(Symbol) /\ t \in Seq(Symbol) /\ u \in Seq(Symbol)
  BY DEF s, t, u, Symbol, Kinds, Text, Word, Silent
<1>2. /\ Len(u) = Len(s) + Len(t)
      /\ \A i \in 1 .. Len(s) : u[i] = s[i]
      /\ \A i \in 1 .. Len(t) : u[i + Len(s)] = t[i]
  BY DEF s, t, u
<1> QED
  BY <1>1, <1>2, Join DEF s, t, u

LEMMA SubscriptsJoin ==
    <<"[", "Expr">> \o <<"]">>
    = <<"[", "Expr", "]">>
<1> DEFINE s == <<"[", "Expr">>
           t == <<"]">>
           u == <<"[", "Expr", "]">>
<1> HIDE DEF s, t, u
<1>1. s \in Seq(Symbol) /\ t \in Seq(Symbol) /\ u \in Seq(Symbol)
  BY DEF s, t, u, Symbol, Kinds, Text, Word, Silent
<1>2. /\ Len(u) = Len(s) + Len(t)
      /\ \A i \in 1 .. Len(s) : u[i] = s[i]
      /\ \A i \in 1 .. Len(t) : u[i + Len(s)] = t[i]
  BY DEF s, t, u
<1> QED
  BY <1>1, <1>2, Join DEF s, t, u

LEMMA FuncJoin ==
    <<"line", "newline">> \o <<"Func", "space", "Block">>
    = <<"line", "newline", "Func", "space", "Block">>
<1> DEFINE s == <<"line", "newline">>
           t == <<"Func", "space", "Block">>
           u == <<"line", "newline", "Func", "space", "Block">>
<1> HIDE DEF s, t, u
<1>1. s \in Seq(Symbol) /\ t \in Seq(Symbol) /\ u \in Seq(Symbol)
  BY DEF s, t, u, Symbol, Kinds, Text, Word, Silent
<1>2. /\ Len(u) = Len(s) + Len(t)
      /\ \A i \in 1 .. Len(s) : u[i] = s[i]
      /\ \A i \in 1 .. Len(t) : u[i + Len(s)] = t[i]
  BY DEF s, t, u
<1> QED
  BY <1>1, <1>2, Join DEF s, t, u

LEMMA BlockJoin ==
    <<"lbrace", "++">> \o <<"Nodes">>
    = <<"lbrace", "++", "Nodes">>
<1> DEFINE s == <<"lbrace", "++">>
           t == <<"Nodes">>
           u == <<"lbrace", "++", "Nodes">>
<1> HIDE DEF s, t, u
<1>1. s \in Seq(Symbol) /\ t \in Seq(Symbol) /\ u \in Seq(Symbol)
  BY DEF s, t, u, Symbol, Kinds, Text, Word, Silent
<1>2. /\ Len(u) = Len(s) + Len(t)
      /\ \A i \in 1 .. Len(s) : u[i] = s[i]
      /\ \A i \in 1 .. Len(t) : u[i + Len(s)] = t[i]
  BY DEF s, t, u
<1> QED
  BY <1>1, <1>2, Join DEF s, t, u

LEMMA BlocksJoin ==
    <<"lbrace", "++", "Nodes">> \o <<"--", "rbrace">>
    = <<"lbrace", "++", "Nodes", "--", "rbrace">>
<1> DEFINE s == <<"lbrace", "++", "Nodes">>
           t == <<"--", "rbrace">>
           u == <<"lbrace", "++", "Nodes", "--", "rbrace">>
<1> HIDE DEF s, t, u
<1>1. s \in Seq(Symbol) /\ t \in Seq(Symbol) /\ u \in Seq(Symbol)
  BY DEF s, t, u, Symbol, Kinds, Text, Word, Silent
<1>2. /\ Len(u) = Len(s) + Len(t)
      /\ \A i \in 1 .. Len(s) : u[i] = s[i]
      /\ \A i \in 1 .. Len(t) : u[i + Len(s)] = t[i]
  BY DEF s, t, u
<1> QED
  BY <1>1, <1>2, Join DEF s, t, u

LEMMA BreakJoin ==
    <<"break">> \o <<"semi">>
    = <<"break", "semi">>
<1> DEFINE s == <<"break">>
           t == <<"semi">>
           u == <<"break", "semi">>
<1> HIDE DEF s, t, u
<1>1. s \in Seq(Symbol) /\ t \in Seq(Symbol) /\ u \in Seq(Symbol)
  BY DEF s, t, u, Symbol, Kinds, Text, Word, Silent
<1>2. /\ Len(u) = Len(s) + Len(t)
      /\ \A i \in 1 .. Len(s) : u[i] = s[i]
      /\ \A i \in 1 .. Len(t) : u[i + Len(s)] = t[i]
  BY DEF s, t, u
<1> QED
  BY <1>1, <1>2, Join DEF s, t, u

LEMMA ReturnJoin ==
    <<"return", "space", "Expr">> \o <<"semi">>
    = <<"return", "space", "Expr", "semi">>
<1> DEFINE s == <<"return", "space", "Expr">>
           t == <<"semi">>
           u == <<"return", "space", "Expr", "semi">>
<1> HIDE DEF s, t, u
<1>1. s \in Seq(Symbol) /\ t \in Seq(Symbol) /\ u \in Seq(Symbol)
  BY DEF s, t, u, Symbol, Kinds, Text, Word, Silent
<1>2. /\ Len(u) = Len(s) + Len(t)
      /\ \A i \in 1 .. Len(s) : u[i] = s[i]
      /\ \A i \in 1 .. Len(t) : u[i + Len(s)] = t[i]
  BY DEF s, t, u
<1> QED
  BY <1>1, <1>2, Join DEF s, t, u

LEMMA ReturnNullJoin ==
    <<"return", "space", "null">> \o <<"semi">>
    = <<"return", "space", "null", "semi">>
<1> DEFINE s == <<"return", "space", "null">>
           t == <<"semi">>
           u == <<"return", "space", "null", "semi">>
<1> HIDE DEF s, t, u
<1>1. s \in Seq(Symbol) /\ t \in Seq(Symbol) /\ u \in Seq(Symbol)
  BY DEF s, t, u, Symbol, Kinds, Text, Word, Silent
<1>2. /\ Len(u) = Len(s) + Len(t)
      /\ \A i \in 1 .. Len(s) : u[i] = s[i]
      /\ \A i \in 1 .. Len(t) : u[i + Len(s)] = t[i]
  BY DEF s, t, u
<1> QED
  BY <1>1, <1>2, Join DEF s, t, u

LEMMA FuncReadJoin ==
    <<"func", "name", "(", "Vars", ")">> \o <<"->", "BaseType">>
    = <<"func", "name", "(", "Vars", ")", "->", "BaseType">>
<1> DEFINE s == <<"func", "name", "(", "Vars", ")">>
           t == <<"->", "BaseType">>
           u == <<"func", "name", "(", "Vars", ")", "->", "BaseType">>
<1> HIDE DEF s, t, u
<1>1. s \in Seq(Symbol) /\ t \in Seq(Symbol) /\ u \in Seq(Symbol)
  BY DEF s, t, u, Symbol, Kinds, Text, Word, Silent
<1>2. /\ Len(u) = Len(s) + Len(t)
      /\ \A i \in 1 .. Len(s) : u[i] = s[i]
      /\ \A i \in 1 .. Len(t) : u[i + Len(s)] = t[i]
  BY DEF s, t, u
<1> QED
  BY <1>1, <1>2, Join DEF s, t, u

LEMMA FuncDeclJoin ==
    <<"func", "space">> \o <<"name", "(", "Vars", ")">>
    = <<"func", "space", "name", "(", "Vars", ")">>
<1> DEFINE s == <<"func", "space">>
           t == <<"name", "(", "Vars", ")">>
           u == <<"func", "space", "name", "(", "Vars", ")">>
<1> HIDE DEF s, t, u
<1>1. s \in Seq(Symbol) /\ t \in Seq(Symbol) /\ u \in Seq(Symbol)
  BY DEF s, t, u, Symbol, Kinds, Text, Word, Silent
<1>2. /\ Len(u) = Len(s) + Len(t)
      /\ \A i \in 1 .. Len(s) : u[i] = s[i]
      /\ \A i \in 1 .. Len(t) : u[i + Len(s)] = t[i]
  BY DEF s, t, u
<1> QED
  BY <1>1, <1>2, Join DEF s, t, u

LEMMA FuncTypeJoin ==
    <<"func", "space", "name", "(", "Vars", ")">> \o <<"space", "->", "space", "BaseType">>
    = <<"func", "space", "name", "(", "Vars", ")", "space", "->", "space", "BaseType">>
<1> DEFINE s == <<"func", "space", "name", "(", "Vars", ")">>
           t == <<"space", "->", "space", "BaseType">>
           u == <<"func", "space", "name", "(", "Vars", ")", "space", "->", "space", "BaseType">>
<1> HIDE DEF s, t, u
<1>1. s \in Seq(Symbol) /\ t \in Seq(Symbol) /\ u \in Seq(Symbol)
  BY DEF s, t, u, Symbol, Kinds, Text, Word, Silent
<1>2. /\ Len(u) = Len(s) + Len(t)
      /\ \A i \in 1 .. Len(s) : u[i] = s[i]
      /\ \A i \in 1 .. Len(t) : u[i + Len(s)] = t[i]
  BY DEF s, t, u
<1> QED
  BY <1>1, <1>2, Join DEF s, t, u

LEMMA VarReadJoin1 ==
    ASSUME NEW kw \in {"let", "var"}
    PROVE  <<kw, "name">>
           \o <<":", "Type">>
           = <<kw, "name", ":", "Type">>
<1> DEFINE s == <<kw, "name">>
           t == <<":", "Type">>
           u == <<kw, "name", ":", "Type">>
<1> HIDE DEF s, t, u
<1>1. s \in Seq(Symbol) /\ t \in Seq(Symbol) /\ u \in Seq(Symbol)
  BY DEF s, t, u, Symbol, Kinds, Text, Word, Silent
<1>2. /\ Len(u) = Len(s) + Len(t)
      /\ \A i \in 1 .. Len(s) : u[i] = s[i]
      /\ \A i \in 1 .. Len(t) : u[i + Len(s)] = t[i]
  BY DEF s, t, u
<1> QED
  BY <1>1, <1>2, Join DEF s, t, u

LEMMA VarReadJoin2 ==
    ASSUME NEW kw \in {"let", "var"}
    PROVE  <<kw, "name">>
           \o <<"=", "Expr">>
           = <<kw, "name", "=", "Expr">>
<1> DEFINE s == <<kw, "name">>
           t == <<"=", "Expr">>
           u == <<kw, "name", "=", "Expr">>
<1> HIDE DEF s, t, u
<1>1. s \in Seq(Symbol) /\ t \in Seq(Symbol) /\ u \in Seq(Symbol)
  BY DEF s, t, u, Symbol, Kinds, Text, Word, Silent
<1>2. /\ Len(u) = Len(s) + Len(t)
      /\ \A i \in 1 .. Len(s) : u[i] = s[i]
      /\ \A i \in 1 .. Len(t) : u[i + Len(s)] = t[i]
  BY DEF s, t, u
<1> QED
  BY <1>1, <1>2, Join DEF s, t, u

LEMMA VarReadJoin3 ==
    ASSUME NEW kw \in {"let", "var"}
    PROVE  <<kw, "name", ":", "Type">>
           \o <<"=", "Expr">>
           = <<kw, "name", ":", "Type", "=", "Expr">>
<1> DEFINE s == <<kw, "name", ":", "Type">>
           t == <<"=", "Expr">>
           u == <<kw, "name", ":", "Type", "=", "Expr">>
<1> HIDE DEF s, t, u
<1>1. s \in Seq(Symbol) /\ t \in Seq(Symbol) /\ u \in Seq(Symbol)
  BY DEF s, t, u, Symbol, Kinds, Text, Word, Silent
<1>2. /\ Len(u) = Len(s) + Len(t)
      /\ \A i \in 1 .. Len(s) : u[i] = s[i]
      /\ \A i \in 1 .. Len(t) : u[i + Len(s)] = t[i]
  BY DEF s, t, u
<1> QED
  BY <1>1, <1>2, Join DEF s, t, u

LEMMA VarReadJoin4 ==
    ASSUME NEW kw \in {"let", "var"}
    PROVE  <<kw, "name">>
           \o <<"semi">>
           = <<kw, "name", "semi">>
<1> DEFINE s == <<kw, "name">>
           t == <<"semi">>
           u == <<kw, "name", "semi">>
<1> HIDE DEF s, t, u
<1>1. s \in Seq(Symbol) /\ t \in Seq(Symbol) /\ u \in Seq(Symbol)
  BY DEF s, t, u, Symbol, Kinds, Text, Word, Silent
<1>2. /\ Len(u) = Len(s) + Len(t)
      /\ \A i \in 1 .. Len(s) : u[i] = s[i]
      /\ \A i \in 1 .. Len(t) : u[i + Len(s)] = t[i]
  BY DEF s, t, u
<1> QED
  BY <1>1, <1>2, Join DEF s, t, u

LEMMA VarReadJoin5 ==
    ASSUME NEW kw \in {"let", "var"}
    PROVE  <<kw, "name", ":", "Type">>
           \o <<"semi">>
           = <<kw, "name", ":", "Type", "semi">>
<1> DEFINE s == <<kw, "name", ":", "Type">>
           t == <<"semi">>
           u == <<kw, "name", ":", "Type", "semi">>
<1> HIDE DEF s, t, u
<1>1. s \in Seq(Symbol) /\ t \in Seq(Symbol) /\ u \in Seq(Symbol)
  BY DEF s, t, u, Symbol, Kinds, Text, Word, Silent
<1>2. /\ Len(u) = Len(s) + Len(t)
      /\ \A i \in 1 .. Len(s) : u[i] = s[i]
      /\ \A i \in 1 .. Len(t) : u[i + Len(s)] = t[i]
  BY DEF s, t, u
<1> QED
  BY <1>1, <1>2, Join DEF s, t, u

LEMMA VarReadJoin6 ==
    ASSUME NEW kw \in {"let", "var"}
    PROVE  <<kw, "name", "=", "Expr">>
           \o <<"semi">>
           = <<kw, "name", "=", "Expr", "semi">>
<1> DEFINE s == <<kw, "name", "=", "Expr">>
           t == <<"semi">>
           u == <<kw, "name", "=", "Expr", "semi">>
<1> HIDE DEF s, t, u
<1>1. s \in Seq(Symbol) /\ t \in Seq(Symbol) /\ u \in Seq(Symbol)
  BY DEF s, t, u, Symbol, Kinds, Text, Word, Silent
<1>2. /\ Len(u) = Len(s) + Len(t)
      /\ \A i \in 1 .. Len(s) : u[i] = s[i]
      /\ \A i \in 1 .. Len(t) : u[i + Len(s)] = t[i]
  BY DEF s, t, u
<1> QED
  BY <1>1, <1>2, Join DEF s, t, u

LEMMA VarReadJoin7 ==
    ASSUME NEW kw \in {"let", "var"}
    PROVE  <<kw, "name", ":", "Type", "=", "Expr">>
           \o <<"semi">>
           = <<kw, "name", ":", "Type", "=", "Expr", "semi">>
<1> DEFINE s == <<kw, "name", ":", "Type", "=", "Expr">>
           t == <<"semi">>
           u == <<kw, "name", ":", "Type", "=", "Expr", "semi">>
<1> HIDE DEF s, t, u
<1>1. s \in Seq(Symbol) /\ t \in Seq(Symbol) /\ u \in Seq(Symbol)
  BY DEF s, t, u, Symbol, Kinds, Text, Word, Silent
<1>2. /\ Len(u) = Len(s) + Len(t)
      /\ \A i \in 1 .. Len(s) : u[i] = s[i]
      /\ \A i \in 1 .. Len(t) : u[i + Len(s)] = t[i]
  BY DEF s, t, u
<1> QED
  BY <1>1, <1>2, Join DEF s, t, u

LEMMA VarJoin1 ==
    ASSUME NEW kw \in {"let", "var"}
    PROVE  <<"line", kw, "space">>
           \o <<"name">>
           = <<"line", kw, "space", "name">>
<1> DEFINE s == <<"line", kw, "space">>
           t == <<"name">>
           u == <<"line", kw, "space", "name">>
<1> HIDE DEF s, t, u
<1>1. s \in Seq(Symbol) /\ t \in Seq(Symbol) /\ u \in Seq(Symbol)
  BY DEF s, t, u, Symbol, Kinds, Text, Word, Silent
<1>2. /\ Len(u) = Len(s) + Len(t)
      /\ \A i \in 1 .. Len(s) : u[i] = s[i]
      /\ \A i \in 1 .. Len(t) : u[i + Len(s)] = t[i]
  BY DEF s, t, u
<1> QED
  BY <1>1, <1>2, Join DEF s, t, u

LEMMA VarJoin2 ==
    ASSUME NEW kw \in {"let", "var"}
    PROVE  <<"line", kw, "space", "name">>
           \o <<":", "space", "Type">>
           = <<"line", kw, "space", "name", ":", "space", "Type">>
<1> DEFINE s == <<"line", kw, "space", "name">>
           t == <<":", "space", "Type">>
           u == <<"line", kw, "space", "name", ":", "space", "Type">>
<1> HIDE DEF s, t, u
<1>1. s \in Seq(Symbol) /\ t \in Seq(Symbol) /\ u \in Seq(Symbol)
  BY DEF s, t, u, Symbol, Kinds, Text, Word, Silent
<1>2. /\ Len(u) = Len(s) + Len(t)
      /\ \A i \in 1 .. Len(s) : u[i] = s[i]
      /\ \A i \in 1 .. Len(t) : u[i + Len(s)] = t[i]
  BY DEF s, t, u
<1> QED
  BY <1>1, <1>2, Join DEF s, t, u

LEMMA VarJoin3 ==
    ASSUME NEW kw \in {"let", "var"}
    PROVE  <<"line", kw, "space", "name">>
           \o <<"space", "=", "space", "Expr">>
           = <<"line", kw, "space", "name", "space", "=", "space", "Expr">>
<1> DEFINE s == <<"line", kw, "space", "name">>
           t == <<"space", "=", "space", "Expr">>
           u == <<"line", kw, "space", "name", "space", "=", "space", "Expr">>
<1> HIDE DEF s, t, u
<1>1. s \in Seq(Symbol) /\ t \in Seq(Symbol) /\ u \in Seq(Symbol)
  BY DEF s, t, u, Symbol, Kinds, Text, Word, Silent
<1>2. /\ Len(u) = Len(s) + Len(t)
      /\ \A i \in 1 .. Len(s) : u[i] = s[i]
      /\ \A i \in 1 .. Len(t) : u[i + Len(s)] = t[i]
  BY DEF s, t, u
<1> QED
  BY <1>1, <1>2, Join DEF s, t, u

LEMMA VarJoin4 ==
    ASSUME NEW kw \in {"let", "var"}
    PROVE  <<"line", kw, "space", "name", ":", "space", "Type">>
           \o <<"space", "=", "space", "Expr">>
           = <<"line", kw, "space", "name", ":", "space", "Type", "space", "=", "space", "Expr">>
<1> DEFINE s == <<"line", kw, "space", "name", ":", "space", "Type">>
           t == <<"space", "=", "space", "Expr">>
           u == <<"line", kw, "space", "name", ":", "space", "Type", "space", "=", "space",
                  "Expr">>
<1> HIDE DEF s, t, u
<1>1. s \in Seq(Symbol) /\ t \in Seq(Symbol) /\ u \in Seq(Symbol)
  BY DEF s, t, u, Symbol, Kinds, Text, Word, Silent
<1>2. /\ Len(u) = Len(s) + Len(t)
      /\ \A i \in 1 .. Len(s) : u[i] = s[i]
      /\ \A i \in 1 .. Len(t) : u[i + Len(s)] = t[i]
  BY DEF s, t, u
<1> QED
  BY <1>1, <1>2, Join DEF s, t, u

LEMMA VarJoin5 ==
    ASSUME NEW kw \in {"let", "var"}
    PROVE  <<"line", kw, "space", "name">>
           \o <<"putSemi">>
           = <<"line", kw, "space", "name", "putSemi">>
<1> DEFINE s == <<"line", kw, "space", "name">>
           t == <<"putSemi">>
           u == <<"line", kw, "space", "name", "putSemi">>
<1> HIDE DEF s, t, u
<1>1. s \in Seq(Symbol) /\ t \in Seq(Symbol) /\ u \in Seq(Symbol)
  BY DEF s, t, u, Symbol, Kinds, Text, Word, Silent
<1>2. /\ Len(u) = Len(s) + Len(t)
      /\ \A i \in 1 .. Len(s) : u[i] = s[i]
      /\ \A i \in 1 .. Len(t) : u[i + Len(s)] = t[i]
  BY DEF s, t, u
<1> QED
  BY <1>1, <1>2, Join DEF s, t, u

LEMMA VarJoin6 ==
    ASSUME NEW kw \in {"let", "var"}
    PROVE  <<"line", kw, "space", "name", ":", "space", "Type">>
           \o <<"putSemi">>
           = <<"line", kw, "space", "name", ":", "space", "Type", "putSemi">>
<1> DEFINE s == <<"line", kw, "space", "name", ":", "space", "Type">>
           t == <<"putSemi">>
           u == <<"line", kw, "space", "name", ":", "space", "Type", "putSemi">>
<1> HIDE DEF s, t, u
<1>1. s \in Seq(Symbol) /\ t \in Seq(Symbol) /\ u \in Seq(Symbol)
  BY DEF s, t, u, Symbol, Kinds, Text, Word, Silent
<1>2. /\ Len(u) = Len(s) + Len(t)
      /\ \A i \in 1 .. Len(s) : u[i] = s[i]
      /\ \A i \in 1 .. Len(t) : u[i + Len(s)] = t[i]
  BY DEF s, t, u
<1> QED
  BY <1>1, <1>2, Join DEF s, t, u

LEMMA VarJoin7 ==
    ASSUME NEW kw \in {"let", "var"}
    PROVE  <<"line", kw, "space", "name", "space", "=", "space", "Expr">>
           \o <<"putSemi">>
           = <<"line", kw, "space", "name", "space", "=", "space", "Expr", "putSemi">>
<1> DEFINE s == <<"line", kw, "space", "name", "space", "=", "space", "Expr">>
           t == <<"putSemi">>
           u == <<"line", kw, "space", "name", "space", "=", "space", "Expr", "putSemi">>
<1> HIDE DEF s, t, u
<1>1. s \in Seq(Symbol) /\ t \in Seq(Symbol) /\ u \in Seq(Symbol)
  BY DEF s, t, u, Symbol, Kinds, Text, Word, Silent
<1>2. /\ Len(u) = Len(s) + Len(t)
      /\ \A i \in 1 .. Len(s) : u[i] = s[i]
      /\ \A i \in 1 .. Len(t) : u[i + Len(s)] = t[i]
  BY DEF s, t, u
<1> QED
  BY <1>1, <1>2, Join DEF s, t, u

LEMMA VarJoin8 ==
    ASSUME NEW kw \in {"let", "var"}
    PROVE  <<"line", kw, "space", "name", ":", "space", "Type", "space", "=", "space", "Expr">>
           \o <<"putSemi">>
           = <<"line", kw, "space", "name", ":", "space", "Type", "space", "=", "space", "Expr",
               "putSemi">>
<1> DEFINE s == <<"line", kw, "space", "name", ":", "space", "Type", "space", "=", "space",
                  "Expr">>
           t == <<"putSemi">>
           u == <<"line", kw, "space", "name", ":", "space", "Type", "space", "=", "space",
                  "Expr", "putSemi">>
<1> HIDE DEF s, t, u
<1>1. s \in Seq(Symbol) /\ t \in Seq(Symbol) /\ u \in Seq(Symbol)
  BY DEF s, t, u, Symbol, Kinds, Text, Word, Silent
<1>2. /\ Len(u) = Len(s) + Len(t)
      /\ \A i \in 1 .. Len(s) : u[i] = s[i]
      /\ \A i \in 1 .. Len(t) : u[i + Len(s)] = t[i]
  BY DEF s, t, u
<1> QED
  BY <1>1, <1>2, Join DEF s, t, u

-----------------------------------------------------------------------------
(* The visitors, one by one *)

LEMMA NothingIsGood ==
    ASSUME NEW k \in Empties
    PROVE  Good(k, [read |-> <<>>, visit |-> <<>>])
<1> DEFINE s == <<>>
<1> HIDE DEF s
<1>1. s \in Seq(Symbol) /\ s = <<>> /\ Len(s) = 0
  BY DEF s
<1>2. Spells(s, s, s)
  BY DEF s, Spells
<1>3. Pairs(s) /\ Braces(s) = {}
  BY DEF s, Pairs, Braces
<1>4. k # "Block"
  BY DEF Empties
<1> DEFINE node == [read |-> s, visit |-> s]
<1>5. node.read = s /\ node.visit = s
  OBVIOUS
<1> HIDE DEF node
<1>6. Reads(node.visit, node.read) /\ Pairs(node.visit)
  BY <1>2, <1>3, <1>5 DEF Reads
<1>7. Cardinality(Braces(node.read)) = IF k = "Block" THEN 1 ELSE 0
  BY <1>3, <1>4, <1>5, FS_EmptySet
<1>8. node.visit = <<>> /\ 1 .. Len(node.visit) = {}
  BY <1>1, <1>5
<1>9. Good(k, node)
  BY <1>1, <1>5, <1>6, <1>7, <1>8 DEF Good
<1> QED
  BY <1>9 DEF node, s

LEMMA visitVarDeclIsGood ==
    ASSUME NEW k \in {"Line", "Node"}, NEW node \in visitVarDecl
    PROVE  Good(k, node)
<1>1. PICK kw \in {"let", "var"}, typed \in {<<>>, <<":", "Type">>},
           value \in {<<>>, <<"=", "Expr">>} :
         node = [read  |-> <<kw, "name">> \o typed \o value \o <<"semi">>,
                 visit |-> <<"line", kw, "space">> \o <<"name">>
                           \o (IF typed = <<>> THEN <<>> ELSE <<":", "space", "Type">>)
                           \o (IF value = <<>> THEN <<>> ELSE <<"space", "=", "space", "Expr">>)
                           \o <<"putSemi">>]
  <2>1. /\ printDeclPre["Let"] = <<"line", "let", "space">>
        /\ printDeclPre["Var"] = <<"line", "var", "space">>
        /\ printDeclPost.Var = <<"putSemi">>
    BY DEF printDeclPre, printDeclPost
  <2>2. \A kw \in {"let", "var"} :
           printDeclPre[IF kw = "let" THEN "Let" ELSE "Var"] = <<"line", kw, "space">>
    BY <2>1
  <2> DEFINE pre(kw) == printDeclPre[IF kw = "let" THEN "Let" ELSE "Var"]
             post == printDeclPost.Var
             read(kw, typed, value) == <<kw, "name">> \o typed \o value \o <<"semi">>
             behind(typed) == IF typed = <<>> THEN <<>> ELSE <<":", "space", "Type">>
             set(value) == IF value = <<>> THEN <<>> ELSE <<"space", "=", "space", "Expr">>
             its(kw, typed, value) ==
                 [read  |-> read(kw, typed, value),
                  visit |-> pre(kw) \o <<"name">> \o behind(typed) \o set(value) \o post]
  <2>3. \E kw \in {"let", "var"}, typed \in {<<>>, <<":", "Type">>},
           value \in {<<>>, <<"=", "Expr">>} : node = its(kw, typed, value)
    <3> HIDE DEF pre, post, read, behind, set
    <3>1. visitVarDecl = UNION {{its(kw, typed, value)}
                                : kw \in {"let", "var"}, typed \in {<<>>, <<":", "Type">>},
                                  value \in {<<>>, <<"=", "Expr">>}}
      BY DEF visitVarDecl, Node, pre, post, read, behind, set
    <3> HIDE DEF its
    <3>2. PICK nodes \in {{its(kw, typed, value)}
                          : kw \in {"let", "var"}, typed \in {<<>>, <<":", "Type">>},
                            value \in {<<>>, <<"=", "Expr">>}} : node \in nodes
      BY <3>1
    <3>3. PICK kw \in {"let", "var"}, typed \in {<<>>, <<":", "Type">>},
               value \in {<<>>, <<"=", "Expr">>} : nodes = {its(kw, typed, value)}
      BY <3>2
    <3> QED
      BY <3>2, <3>3
  <2>4. post = <<"putSemi">> /\ \A kw \in {"let", "var"} : pre(kw) = <<"line", kw, "space">>
    BY <2>1, <2>2
  <2> HIDE DEF pre, post
  <2> QED
    BY <2>3, <2>4
<1>2. /\ <<":", "Type">> # <<>> /\ <<"=", "Expr">> # <<>>
      /\ <<kw, "name">> \o <<>> = <<kw, "name">>
      /\ <<kw, "name", ":", "Type">> \o <<>> = <<kw, "name", ":", "Type">>
      /\ <<"line", kw, "space", "name">> \o <<>> = <<"line", kw, "space", "name">>
      /\ <<"line", kw, "space", "name", ":", "space", "Type">> \o <<>>
         = <<"line", kw, "space", "name", ":", "space", "Type">>
  OBVIOUS
<1>3. CASE typed = <<>> /\ value = <<>>
  <2>1. node = [read  |-> <<kw, "name", "semi">>,
                visit |-> <<"line", kw, "space", "name", "putSemi">>]
    BY <1>1, <1>2, <1>3, VarReadJoin4, VarJoin1, VarJoin5
  <2> QED
    BY <2>1, VarIsGood
<1>4. CASE typed = <<":", "Type">> /\ value = <<>>
  <2>1. node = [read  |-> <<kw, "name", ":", "Type", "semi">>,
                visit |-> <<"line", kw, "space", "name", ":", "space", "Type", "putSemi">>]
    BY <1>1, <1>2, <1>4, VarReadJoin1, VarReadJoin5, VarJoin1, VarJoin2, VarJoin6
  <2> QED
    BY <2>1, TypedVarIsGood
<1>5. CASE typed = <<>> /\ value = <<"=", "Expr">>
  <2>1. node = [read  |-> <<kw, "name", "=", "Expr", "semi">>,
                visit |-> <<"line", kw, "space", "name", "space", "=", "space", "Expr", "putSemi">>]
    BY <1>1, <1>2, <1>5, VarReadJoin2, VarReadJoin6, VarJoin1, VarJoin3, VarJoin7
  <2> QED
    BY <2>1, SetVarIsGood
<1>6. CASE typed = <<":", "Type">> /\ value = <<"=", "Expr">>
  <2>1. node = [read  |-> <<kw, "name", ":", "Type", "=", "Expr", "semi">>,
                visit |-> <<"line", kw, "space", "name", ":", "space", "Type",
                            "space", "=", "space", "Expr", "putSemi">>]
    BY <1>1, <1>2, <1>6, VarReadJoin1, VarReadJoin3, VarReadJoin7,
       VarJoin1, VarJoin2, VarJoin4, VarJoin8
  <2> QED
    BY <2>1, TypedSetVarIsGood
<1> QED
  BY <1>3, <1>4, <1>5, <1>6

LEMMA visitFuncDeclIsGood ==
    ASSUME NEW node \in visitFuncDecl
    PROVE  Good("Func", node)
<1>1. PICK typed \in {<<>>, <<"->", "BaseType">>} :
         node = [read  |-> <<"func", "name", "(", "Vars", ")">> \o typed,
                 visit |-> <<"func", "space">> \o <<"name", "(", "Vars", ")">>
                           \o (IF typed = <<>> THEN <<>>
                               ELSE <<"space", "->", "space", "BaseType">>)]
  BY DEF visitFuncDecl, Node, printDeclPre
<1>2. /\ <<"->", "BaseType">> # <<>>
      /\ <<"func", "name", "(", "Vars", ")">> \o <<>> = <<"func", "name", "(", "Vars", ")">>
      /\ <<"func", "space", "name", "(", "Vars", ")">> \o <<>>
         = <<"func", "space", "name", "(", "Vars", ")">>
  OBVIOUS
<1>3. CASE typed = <<>>
  <2>1. node = [read  |-> <<"func", "name", "(", "Vars", ")">>,
                visit |-> <<"func", "space", "name", "(", "Vars", ")">>]
    BY <1>1, <1>2, <1>3, FuncDeclJoin
  <2> QED
    BY <2>1, FuncIsGood
<1>4. CASE typed = <<"->", "BaseType">>
  <2>1. node = [read  |-> <<"func", "name", "(", "Vars", ")", "->", "BaseType">>,
                visit |-> <<"func", "space", "name", "(", "Vars", ")",
                            "space", "->", "space", "BaseType">>]
    BY <1>1, <1>2, <1>4, FuncReadJoin, FuncDeclJoin, FuncTypeJoin
  <2> QED
    BY <2>1, TypedFuncIsGood
<1> QED
  BY <1>3, <1>4

LEMMA LinesAreGood ==
    ASSUME NEW k \in {"Line", "Node"}, NEW node \in Lines
    PROVE  Good(k, node)
<1>1. CASE node \in visitVarDecl
  BY <1>1, visitVarDeclIsGood
<1>2. CASE node \in visitFuncStmt
  BY <1>2, FuncJoin, FuncStmtIsGood DEF visitFuncStmt, Node, printStmtPre
<1>3. CASE node \in visitForStmt
  BY <1>3, ForJoin, ForIsGood DEF visitForStmt, Node, printStmtPre
<1>4. CASE node \in visitWhileStmt
  BY <1>4, WhileJoin, WhileIsGood DEF visitWhileStmt, Node, printStmtPre
<1>5. CASE node \in visitIfStmt
  BY <1>5, IfJoin, IfElseJoin, IfIsGood, IfElseIsGood DEF visitIfStmt, Node, printStmtPre
<1> QED
  BY <1>1, <1>2, <1>3, <1>4, <1>5 DEF Lines

LEMMA JumpsAreGood ==
    ASSUME NEW k \in {"Jump", "Node"}, NEW node \in Jumps
    PROVE  Good(k, node)
<1>1. CASE node \in visitBreakStmt
  BY <1>1, BreakJoin, BreakIsGood DEF visitBreakStmt, Node, printStmtPost
<1>2. CASE node \in visitReturnStmt
  BY <1>2, ReturnJoin, ReturnNullJoin, ReturnIsGood, ReturnNullIsGood
     DEF visitReturnStmt, Node, printStmtPost
<1> QED
  BY <1>1, <1>2 DEF Jumps

LEMMA BlockIsGoodToo ==
    ASSUME NEW node \in visitBlockStmt
    PROVE  Good("Block", node)
<1>1. node = [read  |-> <<"lbrace", "Nodes", "rbrace">>,
              visit |-> <<"lbrace", "++">> \o <<"Nodes">> \o <<"--", "rbrace">>]
  BY DEF visitBlockStmt, Node, printStmtPre, printStmtPost
<1> QED
  BY <1>1, BlockJoin, BlocksJoin, BlockIsGood

LEMMA visitSubscriptStmtIsGood ==
    ASSUME NEW node \in visitSubscriptStmt
    PROVE  Good("Subscript", node)
<1>1. node = [read  |-> <<"[", "Expr", "]">>,
              visit |-> <<"[">> \o <<"Expr">> \o <<"]">>]
  BY DEF visitSubscriptStmt, Node, printStmtPre, printStmtPost
<1> QED
  BY <1>1, SubscriptJoin, SubscriptsJoin, SubscriptIsGood

LEMMA PostfixIsGood ==
    ASSUME NEW k \in {"Expr", "Sum", "Primary", "Postfix"}, NEW node \in PostfixExpr
    PROVE  Good(k, node)
  BY NameIsGood, ArrayIsGood, CallIsGood, SubscriptExprIsGood
     DEF PostfixExpr, visitIdentifierExpr, visitArrayLiteralExpr, visitCallExpr,
         visitSubscriptExpr, Same, Node

LEMMA PrimaryIsGood ==
    ASSUME NEW k \in {"Expr", "Sum", "Primary"}, NEW node \in PrimaryExpr
    PROVE  Good(k, node)
<1>1. CASE node \in PostfixExpr
  BY <1>1, PostfixIsGood
<1>2. CASE node \notin PostfixExpr
  BY <1>2, NumberIsGood, ParenIsGood, MinusIsGood, NotIsGood, InOutIsGood
     DEF PrimaryExpr, visitNumberLiteralExpr, visitParenExpr, visitPrefixExpr, visitInOutExpr,
         Same, Node
<1> QED
  BY <1>1, <1>2

LEMMA ExprIsGood ==
    ASSUME NEW k \in {"Expr", "Sum"},
           NEW node \in (IF k = "Expr" THEN visitAssignExpr ELSE {})
                        \union visitInfixExpr \union PrimaryExpr
    PROVE  Good(k, node)
<1>1. CASE node \in PrimaryExpr
  BY <1>1, PrimaryIsGood
<1>2. CASE node \notin PrimaryExpr
  BY <1>2, AssignIsGood, InfixIsGood DEF visitAssignExpr, visitInfixExpr, Node
<1> QED
  BY <1>1, <1>2

LEMMA BaseTypeIsGood ==
    ASSUME NEW k \in {"Type", "BaseType"}, NEW node \in BaseType
    PROVE  Good(k, node)
  BY NameIsGood, ArrayTypeIsGood DEF BaseType, visitIdentTypeRepr, visitArrayTypeRepr, Same, Node

LEMMA VisitorsAreGood ==
    ASSUME NEW k \in Kinds, NEW node \in Visitors[k]
    PROVE  Good(k, node)
<1>1. CASE k = "Module"
  BY <1>1, ModuleIsGood DEF Visitors, visitModuleDecl, Node
<1>2. CASE k = "Contents"
  <2>1. node \in Contents
    BY <1>2 DEF Visitors
  <2> QED
    BY <1>2, <2>1, NothingIsGood, LineContentsAreGood, JumpContentsAreGood, ExprContentsAreGood,
       NullContentsAreGood DEF Contents, Same, Node, Empties
<1>3. CASE k = "Line"
  BY <1>3, LinesAreGood DEF Visitors
<1>4. CASE k = "Jump"
  BY <1>4, JumpsAreGood DEF Visitors
<1>5. CASE k = "Block"
  BY <1>5, BlockIsGoodToo DEF Visitors
<1>6. CASE k = "Nodes"
  BY <1>6, NothingIsGood, NodesAreGood DEF Visitors, Nodes, Same, Node, Empties
<1>7. CASE k = "MoreNodes"
  BY <1>7, NothingIsGood, MoreNodesAreGood DEF Visitors, MoreNodes, Same, Node, Empties
<1>8. CASE k = "Node"
  <2>1. node \in BlockNode
    BY <1>8 DEF Visitors
  <2> QED
    BY <1>8, <2>1, LinesAreGood, JumpsAreGood, ExprNodeIsGood DEF BlockNode, Node
<1>9. CASE k = "Func"
  BY <1>9, visitFuncDeclIsGood DEF Visitors
<1>10. CASE k = "Vars"
  BY <1>10, NothingIsGood, VarsAreGood DEF Visitors, visitVarPattern, Same, Node, Empties
<1>11. CASE k = "MoreVars"
  BY <1>11, NothingIsGood, MoreVarsAreGood DEF Visitors, MoreVars, Same, Node, Empties
<1>12. CASE k = "Param"
  <2>1. node = [read  |-> <<"name", ":", "Type">>,
                visit |-> <<>> \o <<"name", ":", "space", "Type">>]
    BY <1>12 DEF Visitors, visitParamDecl, Node, printDeclPre
  <2>2. <<>> \o <<"name", ":", "space", "Type">> = <<"name", ":", "space", "Type">>
    OBVIOUS
  <2> QED
    BY <1>12, <2>1, <2>2, ParamIsGood
<1>13. CASE k = "Iterator"
  <2>1. node = [read |-> <<"name">>, visit |-> <<>> \o <<"name">>]
    BY <1>13 DEF Visitors, visitIterator, Node, printDeclPre
  <2>2. <<>> \o <<"name">> = <<"name">>
    OBVIOUS
  <2> QED
    BY <1>13, <2>1, <2>2, IteratorIsGood
<1>14. CASE k = "Range"
  BY <1>14, RangeIsGood, ClosedRangeIsGood DEF Visitors, visitRangeStmt, Same, Node
<1>15. CASE k = "Type"
  <2>1. node \in BaseType \union visitInOutTypeRepr
    BY <1>15 DEF Visitors
  <2> QED
    BY <1>15, <2>1, BaseTypeIsGood, InOutTypeIsGood DEF visitInOutTypeRepr, Node
<1>16. CASE k = "BaseType"
  BY <1>16, BaseTypeIsGood DEF Visitors
<1>17. CASE k = "Subscript"
  BY <1>17, visitSubscriptStmtIsGood DEF Visitors
<1>18. CASE k = "Values"
  BY <1>18, NothingIsGood, ValuesAreGood DEF Visitors, visitExprPattern, Same, Node, Empties
<1>19. CASE k = "MoreValues"
  BY <1>19, NothingIsGood, MoreValuesAreGood DEF Visitors, MoreValues, Same, Node, Empties
<1>20. CASE k = "Expr" \/ k = "Sum"
  BY <1>20, ExprIsGood DEF Visitors
<1>21. CASE k = "Primary"
  BY <1>21, PrimaryIsGood DEF Visitors
<1>22. CASE k = "Postfix"
  BY <1>22, PostfixIsGood DEF Visitors
<1> QED
  BY <1>1, <1>2, <1>3, <1>4, <1>5, <1>6, <1>7, <1>8, <1>9, <1>10, <1>11, <1>12, <1>13, <1>14,
     <1>15, <1>16, <1>17, <1>18, <1>19, <1>20, <1>21, <1>22 DEF Kinds

-----------------------------------------------------------------------------
(* What statements begin with *)

(* Where a statement was begun and nothing of it is printed yet *)
Firsts ==
    {"Line", "Node", "Func", "Expr", "Sum", "Primary", "Postfix"} \union Leading \union {"["}

(* What begins where the line is *)
LEMMA FirstOfLine ==
    ASSUME NEW p, Shape(p), p # <<>>, p[1] = "line", p[Len(p)] # "newline",
           NEW f \in Seq(Symbol), Reads(p, f)
    PROVE  f # <<>> /\ f[1] \in Firsts
<1>1. p \in Seq(Symbol) /\ Len(p) \in Nat
  BY DEF Shape
<1>2. PICK q \in Seq(Symbol) : q = Tail(p) /\ Shape(q) /\ q # <<>> /\ Order("line", q[1])
  BY <1>1, ShapeOfRest DEF Shape, Unfinished
<1>3. Reads(q, f)
  BY <1>1, <1>2, ReadsSilent DEF Silent
<1>4. CASE q[1] \in {"let", "var", "for", "if", "while"}
  <2>1. q[1] \notin Silent /\ TokenOf(q[1]) = q[1]
    BY <1>4 DEF Silent, TokenOf, Raw
  <2>2. f # <<>> /\ f[1] = q[1]
    BY <1>2, <1>3, <2>1, ReadsFirst
  <2> QED
    BY <1>4, <2>2 DEF Firsts, Leading
<1>5. CASE q[1] = "newline"
  <2>1. Tail(q) # <<>>
    <3>1. PICK n \in Nat : n = Len(p) /\ Len(q) = n - 1 /\ n > 1
      <4>1. Len(q) \in Nat /\ Len(q) > 0
        BY <1>2
      <4>2. Len(q) = Len(p) - 1
        BY <1>1, <1>2
      <4> QED
        BY <1>1, <4>1, <4>2
    <3>2. \A i \in 1 .. n - 1 : q[i] = p[i + 1]
      BY <1>1, <1>2, <3>1
    <3>3. n # 2
      <4>1. SUFFICES ASSUME n = 2 PROVE FALSE
        OBVIOUS
      <4>2. p[2] = q[1]
        BY <3>2, <4>1
      <4> QED
        BY <1>5, <3>1, <4>1, <4>2
    <3>4. Len(Tail(q)) = n - 2 /\ n - 2 > 0
      <4>1. Len(Tail(q)) = Len(q) - 1
        BY <1>2
      <4> QED
        BY <3>1, <3>3, <4>1
    <3>5. Tail(q) \in Seq(Symbol)
      BY <3>1
    <3>6. \A t \in Seq(Symbol) : Len(t) > 0 => t # <<>>
      OBVIOUS
    <3> QED
      BY <3>4, <3>5, <3>6
  <2>2. PICK r \in Seq(Symbol) : r = Tail(q) /\ Shape(r) /\ r # <<>> /\ Order("newline", r[1])
    BY <1>2, <1>5, <2>1, ShapeOfRest DEF Shape
  <2>3. Reads(r, f)
    BY <1>2, <1>3, <1>5, <2>2, ReadsSilent DEF Silent
  <2>4. CASE r[1] = "Func"
    BY <2>2, <2>3, <2>4, ReadsFirst DEF Silent, TokenOf, Raw, Firsts
  <2>5. CASE r[1] = "begin"
    <3>1. PICK t \in Seq(Symbol) : t = Tail(r) /\ t # <<>> /\ Order("begin", t[1])
      BY <2>2, <2>5, ShapeOfRest DEF Shape, Unfinished
    <3>2. Reads(t, f)
      BY <2>2, <2>3, <2>5, <3>1, ReadsSilent DEF Silent
    <3>3. t[1] \in {"Line", "Node", "Expr"}
      BY <3>1 DEF Order
    <3>4. t[1] \notin Silent /\ TokenOf(t[1]) = t[1]
      BY <3>3 DEF Silent, TokenOf, Raw
    <3>5. f # <<>> /\ f[1] = t[1]
      BY <3>1, <3>2, <3>4, ReadsFirst
    <3> QED
      BY <3>3, <3>5 DEF Firsts
  <2> QED
    BY <2>2, <2>4, <2>5 DEF Order
<1> QED
  BY <1>2, <1>4, <1>5 DEF Order

(* What a child is read as that may be the first of a statement *)
LEMMA FirstRead ==
    ASSUME NEW k \in {"Line", "Node", "Func", "Expr", "Sum", "Primary", "Postfix"},
           NEW node, Good(k, node)
    PROVE  /\ node.read \in Seq(Symbol) /\ node.read # <<>>
           /\ node.read[1] \in Firsts \union {"-", "!", "&"}
<1>1. PICK v \in Seq(Symbol), r \in Seq(Symbol) :
         /\ v = node.visit /\ r = node.read /\ Reads(v, r) /\ Pairs(v) /\ v # <<>>
         /\ Begins(k, v[1], v[2]) /\ Ends(k, v[Len(v)])
         /\ \A i \in 1 .. Len(v) : v[i] \notin TopLevel
  BY DEF Good, Empties, TopLevel
<1>2. CASE v[1] = "line"
  <2>1. Shape(v) /\ v[Len(v)] # "newline"
    BY <1>1 DEF Shape, TopLast, Ends
  <2> QED
    BY <1>1, <1>2, <2>1, FirstOfLine
<1>3. CASE v[1] # "line"
  <2>1. v[1] \in Operand \union {"break", "return", "func"}
    BY <1>1, <1>3 DEF Begins, Operand
  <2>2. v[1] \notin Silent /\ TokenOf(v[1]) = v[1]
    BY <2>1 DEF Silent, TokenOf, Raw, Operand
  <2>3. r # <<>> /\ r[1] = v[1]
    BY <1>1, <2>2, ReadsFirst
  <2> QED
    BY <1>1, <2>1, <2>3 DEF Operand, Firsts, Leading
<1> QED
  BY <1>2, <1>3

-----------------------------------------------------------------------------
(* The invariant *)

(* How it may have ended *)
Ended ==
    \/ end = <<"differs", "&", "&">>
    \/ end = <<"garbled">>
    \/ end = <<"null">> /\ form # <<>> /\ Head(form) = "semi"
    \/ end = <<"unreachable">> /\ Open = 0
    \/ end = <<"assert", "++">> /\ Open = MaxIndentation

Started == end = <<>> /\ begun => form # <<>> /\ Head(form) \in Firsts

(* While it prints, what is still to be done spells what the parser has    *)
(* read and is not printed yet, with the layout where it belongs; where a  *)
(* statement was begun, that begins as a statement does.                   *)
FormatInv ==
    /\ calls \in Seq(Calls)
    /\ Depth \in 0 .. MaxIndentation - 1
    /\ AtStartOfLine \in BOOLEAN /\ begun \in BOOLEAN
    /\ end = <<>> => \E p : /\ Pending(calls, p)
                            /\ Fine(p, form, last, Depth, AtStartOfLine, begun)
    /\ Started
    /\ end # <<>> => Ended

LEMMA NoCalls ==
    /\ Pending(<<>>, <<>>)
    /\ \A p : Pending(<<>>, p) => p = <<>>
<1> DEFINE cs == <<>>
<1> HIDE DEF cs
<1>1. Len(cs) = 0 /\ cs \in Seq(Seq(Symbol))
  BY DEF cs
<1>2. ASSUME NEW p, Pending(cs, p)
      PROVE  p = <<>>
  BY <1>1, <1>2 DEF Pending, Rests
<1>3. Pending(cs, <<>>)
  <2> DEFINE rest == [i \in 1 .. 1 |-> <<>>]
  <2>1. rest \in [1 .. 1 -> Seq(Symbol)] /\ rest[1] = <<>>
    OBVIOUS
  <2> HIDE DEF rest
  <2>2. Rests(cs, rest)
    BY <1>1, <2>1 DEF Rests
  <2> QED
    BY <2>1, <2>2 DEF Pending
<1> QED
  BY <1>2, <1>3 DEF cs

LEMMA FormatInvInit ==
    FormatInit => FormatInv
<1> SUFFICES ASSUME FormatInit PROVE FormatInv
  OBVIOUS
<1> DEFINE p == <<"Module">>
           none == <<>>
<1> HIDE DEF p, none
<1>1. p \in Seq(Symbol) /\ p # <<>> /\ p[1] = "Module" /\ Len(p) = 1
  BY DEF p, Symbol, Kinds
<1>2. Pending(<<p>>, p)
  <2>1. none \in Seq(Seq(Symbol)) /\ Pending(none, none)
    BY NoCalls DEF none
  <2>2. Pending(<<p>> \o none, p \o none)
    BY <1>1, <2>1, PendingMore
  <2>3. <<p>> \o none = <<p>> /\ p \o none = p
    BY <1>1 DEF none
  <2> QED
    BY <2>2, <2>3
<1>3. Spells(p, p, <<1>>)
  BY DEF p, Spells, Silent, TokenOf, Raw
<1>4. Cardinality(Braces(p)) = 0
  <2>1. Braces(p) = {}
    BY DEF p, Braces
  <2> QED
    BY <2>1, FS_EmptySet
<1>5. Shape(p)
  BY <1>1 DEF Shape, Pairs, TopLast, Unfinished, Operator
<1>6. Follows(p, "none", TRUE, FALSE)
  BY <1>1 DEF Follows, Glue, WordEnd, Word, Operator, LineStart
<1>7. InBlock(p) = 0
  BY <1>1 DEF InBlock
<1>8. Fine(p, p, "none", 0, TRUE, FALSE)
  <2>1. Reads(p, p)
    BY <1>3 DEF Reads
  <2>2. 0 + InBlock(p) = Cardinality(Braces(p))
    BY <1>4, <1>7
  <2> QED
    BY <1>1, <1>5, <1>6, <2>1, <2>2 DEF Fine
<1>9. <<p>> \in Seq(Calls)
  BY <1>1 DEF Calls
<1>10. 0 \in 0 .. MaxIndentation - 1
  BY FormatAssumption
<1> QED
  BY <1>2, <1>8, <1>9, <1>10 DEF FormatInit, FormatInv, Started, p

LEMMA FormatStep ==
    ASSUME FormatInv, FormatNext
    PROVE  /\ FormatInv'
           /\ AtStartOfLine /\ ~AtStartOfLine' /\ end' = <<>> => Depth = Open'
           /\ begun /\ ~begun' => AtStartOfLine
<1>1. end = <<>> /\ calls # <<>>
  BY DEF FormatNext, visit, print, printText, space, newline, indent, begin, crash, Does, Runs
<1>2. PICK p : Pending(calls, p) /\ Fine(p, form, last, Depth, AtStartOfLine, begun)
  BY <1>1 DEF FormatInv
<1>3. /\ p \in Seq(Symbol) /\ p # <<>> /\ Now = p[1]
      /\ \A does \in Seq(Symbol) : GoesOn(does) =>
            calls' \in Seq(Calls) /\ Pending(calls', does \o Tail(p))
  BY <1>1, <1>2, GoesOnIs DEF FormatInv
<1>4. GoesOn(<<>>) => calls' \in Seq(Calls) /\ Pending(calls', Tail(p))
  <2>1. <<>> \in Seq(Symbol) /\ <<>> \o Tail(p) = Tail(p)
    BY <1>3
  <2> QED
    BY <1>3, <2>1
<1>5. /\ Depth \in 0 .. MaxIndentation - 1 /\ Depth \in Nat /\ MaxIndentation \in Nat
      /\ AtStartOfLine \in BOOLEAN /\ begun \in BOOLEAN
  BY FormatAssumption DEF FormatInv
<1>6. \A how : Stops(how) => calls' \in Seq(Calls) /\ end' = how
  <2>1. <<>> \in Seq(Calls)
    OBVIOUS
  <2> QED
    BY <2>1 DEF Stops
<1>7. CASE visit
  <2>1. p[1] \in Kinds
    BY <1>3, <1>7, KindIs DEF visit
  <2>2. form # <<>> /\ Head(form) = Now
    BY <1>2, <1>3, <1>5, <2>1, TakeChild
  <2>3. PICK node \in Visitors[Now] :
           Fits(node) /\ form' = node.read \o Tail(form) /\ GoesOn(node.visit)
    BY <1>7, <2>2 DEF visit
  <2>4. Good(p[1], node)
    BY <1>3, <2>1, <2>3, VisitorsAreGood
  <2>5. calls' \in Seq(Calls) /\ Pending(calls', node.visit \o Tail(p))
    BY <1>3, <2>3, <2>4 DEF Good
  <2>6. Fine(node.visit \o Tail(p), form', last, Depth, AtStartOfLine, begun)
    BY <1>2, <1>3, <1>5, <2>1, <2>3, <2>4, TakeChild
  <2>7. UNCHANGED <<last, Depth, AtStartOfLine, begun, end>>
    BY <1>7, <2>2 DEF visit
  <2>8. ASSUME begun
        PROVE  form' # <<>> /\ Head(form') \in Firsts
    <3>1. p[1] \in Firsts
      BY <1>1, <1>3, <2>2, <2>8 DEF FormatInv, Started
    <3>2. p[1] \in {"Line", "Node", "Func", "Expr", "Sum", "Primary", "Postfix"}
      BY <2>1, <3>1 DEF Firsts, Leading, Kinds
    <3>3. PICK r \in Seq(Symbol) :
             r = node.read /\ r # <<>> /\ r[1] \in Firsts \union {"-", "!", "&"}
      BY <2>4, <3>2, FirstRead
    <3>4. r[1] \notin {"-", "!", "&"}
      BY <2>3, <2>8, <3>3 DEF Fits
    <3>5. form \in Seq(Symbol) /\ Tail(form) \in Seq(Symbol)
      BY <1>2, <2>2 DEF Fine
    <3>6. form' # <<>> /\ Head(form') = r[1]
      BY <2>3, <3>3, <3>5
    <3> QED
      BY <3>3, <3>4, <3>6
  <2>9. Started'
    BY <2>7, <2>8 DEF Started
  <2> QED
    BY <1>1, <1>5, <2>5, <2>6, <2>7, <2>9 DEF FormatInv
<1>8. CASE print
  <2>1. p[1] \in Text /\ Now = p[1]
    BY <1>3, <1>8 DEF print
  <2>2. /\ form # <<>> /\ Head(form) = p[1]
        /\ Fused(last, p[1]) => last = "&" /\ p[1] = "&"
        /\ Fine(Tail(p), Tail(form), p[1], Depth, FALSE, FALSE)
        /\ AtStartOfLine => Depth = Cardinality(Braces(Tail(form)))
        /\ begun => AtStartOfLine
    BY <1>2, <1>3, <1>5, <2>1, TakeToken
  <2>3. AtStartOfLine' = FALSE /\ begun' = FALSE /\ Depth' = Depth
    BY <1>8 DEF print
  <2>4. CASE form' = Tail(form) /\ last' = p[1] /\ GoesOn(<<>>) /\ end' = end
    <3>1. Fine(Tail(p), form', last', Depth', AtStartOfLine', begun')
      BY <2>2, <2>3, <2>4
    <3>2. AtStartOfLine => Depth = Open'
      BY <2>2, <2>4 DEF Open
    <3> QED
      BY <1>1, <1>4, <1>5, <2>2, <2>3, <2>4, <3>1, <3>2 DEF FormatInv, Started
  <2>5. CASE Stops(<<"differs", last, p[1]>>) /\ Fused(last, p[1])
    <3>1. end' = <<"differs", "&", "&">> /\ calls' \in Seq(Calls)
      BY <1>6, <2>2, <2>5
    <3>2. Ended' /\ end' # <<>>
      BY <3>1 DEF Ended
    <3> QED
      BY <1>5, <2>2, <2>3, <3>1, <3>2 DEF FormatInv, Started
  <2>6. CASE Stops(<<"garbled">>)
    <3>1. end' = <<"garbled">> /\ calls' \in Seq(Calls)
      BY <1>6, <2>6
    <3>2. Ended' /\ end' # <<>>
      BY <3>1 DEF Ended
    <3> QED
      BY <1>5, <2>2, <2>3, <3>1, <3>2 DEF FormatInv, Started
  <2> QED
    BY <1>8, <2>1, <2>2, <2>4, <2>5, <2>6 DEF print, Prints
<1>9. CASE printText
  <2>1. p[1] \in DOMAIN Raw /\ Now = p[1]
    BY <1>3, <1>9 DEF printText
  <2>2. /\ form # <<>> /\ Head(form) = Raw[p[1]]
        /\ ~Fused(last, Raw[p[1]]) /\ ~AtStartOfLine /\ ~begun
        /\ Fine(Tail(p), Tail(form), Raw[p[1]], Depth, AtStartOfLine, begun)
    BY <1>2, <1>3, <1>5, <2>1, TakeRaw
  <2>3. /\ form' = Tail(form) /\ last' = Raw[p[1]] /\ GoesOn(<<>>) /\ end' = end
        /\ UNCHANGED <<Depth, AtStartOfLine, begun>>
    BY <1>9, <2>1, <2>2 DEF printText, Prints
  <2>4. Fine(Tail(p), form', last', Depth', AtStartOfLine', begun')
    BY <2>2, <2>3
  <2> QED
    BY <1>1, <1>4, <1>5, <2>2, <2>3, <2>4 DEF FormatInv, Started
<1>10. CASE space
  <2>1. /\ p[1] = "space" /\ GoesOn(<<>>) /\ last' = "none"
        /\ UNCHANGED <<form, Depth, AtStartOfLine, begun, end>>
    BY <1>3, <1>10 DEF space, Does
  <2>2. Fine(Tail(p), form, "none", Depth, AtStartOfLine, begun)
    BY <1>2, <1>3, <1>5, <2>1, TakeSpace
  <2> QED
    BY <1>1, <1>4, <1>5, <2>1, <2>2 DEF FormatInv, Started
<1>11. CASE newline
  <2>1. /\ p[1] \in {"newline", "line"} /\ GoesOn(<<>>)
        /\ UNCHANGED <<form, Depth, begun, end>>
    BY <1>3, <1>11 DEF newline, Does
  <2>2. Fine(Tail(p), form, "none", Depth, TRUE, begun)
    BY <1>2, <1>3, <1>5, <2>1, TakeLine
  <2>3. AtStartOfLine' = TRUE /\ last' = "none"
    <3>1. AtStartOfLine => last = "none"
      BY <1>2 DEF Fine
    <3> QED
      BY <1>11, <3>1 DEF newline, printNewline
  <2> QED
    BY <1>1, <1>4, <1>5, <2>1, <2>2, <2>3 DEF FormatInv, Started
<1>12. CASE indent
  <2>1. p[1] \in {"++", "--"} /\ Now = p[1] /\ UNCHANGED <<form, begun>>
    BY <1>3, <1>12 DEF indent
  <2>2. CASE p[1] = "++"
    <3>1. /\ Fine(Tail(p), form, "none", Cardinality(Braces(form)), TRUE, begun)
          /\ Depth + 1 = Cardinality(Braces(form))
      <4>1. Fine(Tail(p), form, "none", Cardinality(Braces(form)), TRUE, begun)
        BY <1>2, <1>3, <1>5, <2>2, TakeIn
      <4>2. Depth + 1 = Cardinality(Braces(form))
        BY <1>2, <1>3, <1>5, <2>2, InIsDeeper
      <4> QED
        BY <4>1, <4>2
    <3>2. CASE Depth < MaxIndentation - 1
      <4>1. /\ Depth' = Depth + 1 /\ AtStartOfLine' = TRUE /\ last' = "none"
            /\ GoesOn(<<>>) /\ end' = end
        BY <1>12, <2>1, <2>2, <3>2 DEF indent, printNewline
      <4>2. Depth' \in 0 .. MaxIndentation - 1
        BY <1>5, <3>2, <4>1
      <4> QED
        BY <1>1, <1>4, <1>5, <2>1, <3>1, <4>1, <4>2 DEF FormatInv, Started
    <3>3. CASE ~(Depth < MaxIndentation - 1)
      <4>1. Stops(<<"assert", "++">>) /\ UNCHANGED <<Depth, AtStartOfLine, last>>
        BY <1>12, <2>1, <2>2, <3>3 DEF indent
      <4>2. Cardinality(Braces(form)) = MaxIndentation
        BY <1>5, <3>1, <3>3
      <4>3. end' = <<"assert", "++">> /\ calls' \in Seq(Calls) /\ form' = form
        BY <1>6, <2>1, <4>1
      <4>4. Ended' /\ end' # <<>>
        BY <4>2, <4>3 DEF Ended, Open
      <4> QED
        BY <1>5, <2>1, <4>1, <4>3, <4>4 DEF FormatInv, Started
    <3> QED
      BY <3>2, <3>3
  <2>3. CASE p[1] = "--"
    <3>1. Depth # 0 /\ Fine(Tail(p), form, "none", Depth - 1, TRUE, begun)
      BY <1>2, <1>3, <1>5, <2>3, TakeOut
    <3>2. /\ Depth' = Depth - 1 /\ AtStartOfLine' = TRUE /\ last' = "none"
          /\ GoesOn(<<>>) /\ end' = end
      BY <1>12, <2>1, <2>3, <3>1 DEF indent, printNewline
    <3>3. Depth' \in 0 .. MaxIndentation - 1
      BY <1>5, <3>1, <3>2
    <3> QED
      BY <1>1, <1>4, <1>5, <2>1, <3>1, <3>2, <3>3 DEF FormatInv, Started
  <2> QED
    BY <2>1, <2>2, <2>3
<1>13. CASE begin
  <2>1. /\ p[1] = "begin" /\ GoesOn(<<>>) /\ begun' = TRUE
        /\ UNCHANGED <<form, last, Depth, AtStartOfLine, end>>
    BY <1>3, <1>13 DEF begin, Does
  <2>2. Fine(Tail(p), form, last, Depth, AtStartOfLine, TRUE)
    BY <1>2, <1>3, <1>5, <2>1, TakeBegin
  <2>3. form # <<>> /\ Head(form) \in Firsts
    <3>1. Shape(p) /\ form \in Seq(Symbol) /\ Reads(p, form)
      BY <1>2 DEF Fine
    <3>2. PICK q \in Seq(Symbol) : q = Tail(p) /\ q # <<>> /\ Order("begin", q[1])
      BY <1>3, <2>1, <3>1, ShapeOfRest DEF Shape, Unfinished
    <3>3. Reads(q, form)
      BY <1>3, <2>1, <3>1, <3>2, ReadsSilent DEF Silent
    <3>4. q[1] \in {"Line", "Node", "Expr"}
      BY <3>2 DEF Order
    <3>5. q[1] \notin Silent /\ TokenOf(q[1]) = q[1]
      BY <3>4 DEF Silent, TokenOf, Raw
    <3>6. form # <<>> /\ form[1] = q[1]
      BY <3>1, <3>2, <3>3, <3>5, ReadsFirst
    <3> QED
      BY <3>1, <3>4, <3>6 DEF Firsts
  <2>4. Started'
    BY <2>1, <2>3 DEF Started
  <2> QED
    BY <1>1, <1>4, <1>5, <2>1, <2>2, <2>4 DEF FormatInv
<1>14. CASE crash
  <2>1. /\ p[1] \in {"null", "unreachable"} /\ Stops(<<p[1]>>)
        /\ UNCHANGED <<form, last, Depth, AtStartOfLine, begun>>
    BY <1>3, <1>14 DEF crash
  <2>2. end' = <<p[1]>> /\ calls' \in Seq(Calls) /\ end' # <<>>
    <3>1. end' = <<p[1]>> /\ calls' \in Seq(Calls)
      BY <1>6, <2>1
    <3>2. \A x : <<x>> # <<>>
      OBVIOUS
    <3> QED
      BY <3>1, <3>2
  <2>3. /\ Shape(p) /\ form \in Seq(Symbol) /\ Reads(p, form)
    BY <1>2 DEF Fine
  <2>4. CASE p[1] = "null"
    <3>1. Tail(p) # <<>> /\ Tail(p)[1] = "semi"
      BY <1>3, <2>3, <2>4, ShapeOfRest DEF Unfinished, Order
    <3>2. Tail(p) \in Seq(Symbol) /\ Reads(Tail(p), form)
      BY <1>3, <2>3, <2>4, ReadsSilent DEF Silent
    <3>3. form # <<>> /\ form[1] = "semi"
      BY <2>3, <3>1, <3>2, ReadsFirst DEF Silent, TokenOf, Raw
    <3>4. Ended'
      BY <2>1, <2>2, <2>3, <2>4, <3>3 DEF Ended
    <3> QED
      BY <1>5, <2>1, <2>2, <3>4 DEF FormatInv, Started
  <2>5. CASE p[1] = "unreachable"
    <3>1. \A i \in 1 .. Len(p) : p[i] # "rbrace"
      <4>1. ASSUME NEW i \in 1 .. Len(p), p[i] = "rbrace" PROVE FALSE
        <5>1. 1 \in 1 .. Len(p) /\ 1 < i
          BY <1>3, <2>5, <4>1
        <5> QED
          BY <2>3, <2>5, <4>1, <5>1 DEF Shape, TopLast, TopLevel
      <4> QED
        BY <4>1
    <3>2. Cardinality(Braces(form)) = 0
      <4>1. Cardinality(Braces(form)) \in Nat
        BY <2>3, BracesAreFinite
      <4> QED
        BY <1>3, <2>3, <3>1, <4>1, BracesAreSpelt
    <3>3. Ended'
      BY <2>1, <2>2, <2>5, <3>2 DEF Ended, Open
    <3> QED
      BY <1>5, <2>1, <2>2, <3>3 DEF FormatInv, Started
  <2> QED
    BY <2>1, <2>4, <2>5
<1> QED
  BY <1>7, <1>8, <1>9, <1>10, <1>11, <1>12, <1>13, <1>14 DEF FormatNext

(* What is still to be done spells what is not printed yet, in every state. *)
THEOREM FormatInvariant == FormatSpec => []FormatInv
<1>1. FormatInv /\ [FormatNext]_formatVars => FormatInv'
  <2> SUFFICES ASSUME FormatInv, [FormatNext]_formatVars PROVE FormatInv'
    OBVIOUS
  <2>1. CASE FormatNext
    BY <2>1, FormatStep
  <2>2. CASE UNCHANGED formatVars
    BY <2>2 DEF formatVars, FormatInv, Started, Ended, Open
  <2> QED
    BY <2>1, <2>2
<1> QED
  BY <1>1, FormatInvInit, PTL DEF FormatSpec

(* The formatter prints the tokens that the parser has read, in their      *)
(* order and to the last, and no two of them as one but for the two & of   *)
(* an inout argument of an inout argument; and it begins statements with   *)
(* tokens at which the parser goes on, unless with the [ of an array.      *)
THEOREM PrintsWhatWasRead == FormatSpec => []Faithful
<1>1. FormatInv => Faithful
  <2> SUFFICES ASSUME FormatInv PROVE Faithful
    OBVIOUS
  <2>1. end # <<>> /\ end[1] = "differs" => end = <<"differs", "&", "&">>
    BY DEF FormatInv, Ended
  <2>2. ASSUME end = <<>>, calls = <<>>
        PROVE  form = <<>>
    <3>1. PICK p : Pending(calls, p) /\ Fine(p, form, last, Depth, AtStartOfLine, begun)
      BY <2>2 DEF FormatInv
    <3>2. p = <<>>
      BY <2>2, <3>1, NoCalls
    <3> QED
      BY <3>1, <3>2, ReadsNone DEF Fine
  <2>3. ASSUME AtStatement
        PROVE  Now \in Leading \union {"["}
    <3>1. end = <<>> /\ calls # <<>> /\ begun /\ Now \in Text
      BY <2>3 DEF AtStatement, Runs
    <3>2. PICK p : Pending(calls, p) /\ Fine(p, form, last, Depth, AtStartOfLine, begun)
      BY <3>1 DEF FormatInv
    <3>3. p # <<>> /\ Now = p[1]
      BY <3>1, <3>2, GoesOnIs DEF FormatInv
    <3>4. Head(form) = Now
      <4>1. Depth \in Nat /\ AtStartOfLine \in BOOLEAN /\ begun \in BOOLEAN
        BY FormatAssumption DEF FormatInv
      <4> QED
        BY <3>1, <3>2, <3>3, <4>1, TakeToken
    <3>5. Now \in Firsts
      BY <3>1, <3>4 DEF FormatInv, Started
    <3> QED
      BY <3>1, <3>5 DEF Firsts, Text, Word
  <2> QED
    BY <2>1, <2>2, <2>3 DEF Faithful
<1> QED
  BY <1>1, FormatInvariant, PTL

(* Every line is indented as deep as it is nested, and every statement     *)
(* begins on a line of its own.                                            *)
THEOREM LinesAreLaidOut == FormatSpec => LaidOut
<1>1. FormatInv /\ [FormatNext]_formatVars
         => [/\ (AtStartOfLine /\ ~AtStartOfLine' /\ end' = <<>>) => Depth = Open'
             /\ (begun /\ ~begun') => AtStartOfLine]_formatVars
  BY FormatStep
<1> QED
  BY <1>1, FormatInvariant, PTL DEF FormatSpec, LaidOut

(* Printing is cut short by a return without a value, a null in the module *)
(* itself or too many open blocks, and by nothing else but the indentation *)
(* that is read when it is no more.                                        *)
THEOREM StopsWhereKnown == FormatSpec => []StopsOnlyThere
<1>1. FormatInv => StopsOnlyThere
  BY DEF FormatInv, Ended, StopsOnlyThere
<1> QED
  BY <1>1, FormatInvariant, PTL

=============================================================================
