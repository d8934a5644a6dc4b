------------------------------- MODULE Parse -------------------------------
(***************************************************************************)
(* The recursive descent parser of lib/Parser, over kinds of tokens.       *)
(*                                                                         *)
(* The C++ call stack is `stack', its top first.  An entry is a program    *)
(* point: the entry of a parse method, under the method's name, or a point *)
(* after a call in one, where the caller goes on.  What the last call      *)
(* returned is in `ret': a method says with nullptr that it met an error,  *)
(* and some say so when there is nothing (left) to parse; their callers    *)
(* have to tell which.                                                     *)
(*                                                                         *)
(* A file is one of the openings and up to MaxTokens more tokens, which are *)
(* chosen as they are read.  The lexer is one token ahead; what it reports  *)
(* about a token counts when the parser has the token.  Of operators'       *)
(* precedence nothing is here: it decides the shape of the tree and not     *)
(* what is consumed.                                                        *)
(***************************************************************************)
EXTENDS Syntax, SequencesExt

CONSTANTS
    Openings,  \* what files begin with, sequences of tokens
    Supply,    \* the kinds of tokens that they go on with
    MaxTokens  \* bound: tokens after the opening

ASSUME SupplyAssumption ==
    /\ Supply \subseteq Kind \ {"eof"} /\ MaxTokens \in Nat
    /\ Openings \subseteq Seq(Kind \ {"eof"})

VARIABLES
    Tok,       \* the current token
    ahead,     \* the rest of the opening
    left,      \* tokens the file may still have after that
    stack,     \* calls of parse methods, innermost first
    ret,       \* "node", "null" (nullptr) or "absent" (nullptr, rightly)
    error,     \* Context.isError()
    reported,  \* some diagnostic was emitted
    hole,      \* history: a node was built without a part it should have
    verdict    \* "open", "accepted", "rejected", "aborted" by an assertion

vars == <<Tok, ahead, left, stack, ret, error, reported, hole, verdict>>

-----------------------------------------------------------------------------
(* The points that test what was returned to them, or pass it on. *)
ChecksNull == {"Operators", "Postfix", "StmtEnd", "BlockNodes", "DeclInit",
               "AnotherParam", "AnotherItem"}

At(p) == verdict = "open" /\ stack # <<>> /\ Head(stack) = p

Position == <<Tok, ahead, left>>

(* consumeToken() *)
consumeToken ==
    /\ Tok # "eof"
    /\ \/ ahead # <<>> /\ Tok' = Head(ahead) /\ ahead' = Tail(ahead) /\ UNCHANGED left
       \/ ahead = <<>> /\ left > 0 /\ Tok' \in Supply /\ left' = left - 1 /\ UNCHANGED ahead
       \/ ahead = <<>> /\ Tok' = "eof" /\ left' = 0 /\ UNCHANGED ahead

Take == consumeToken /\ reported' = (reported \/ Tok' = "unknown")

Stay == UNCHANGED <<Position, reported>>

Then(ps) == stack' = ps \o Tail(stack) /\ ret' = "node" /\ UNCHANGED hole

Return(v) ==
    /\ stack' = Tail(stack)
    /\ ret' = v
    /\ hole' = (hole \/ (v = "null" /\ Len(stack) > 1 /\ stack[2] \notin ChecksNull))

NoError == UNCHANGED <<error, verdict>>

(* At p, with one of the tokens K: go on to ps, with or without the token; *)
(* return v, with or without it.                                           *)
Eat(p, K, ps) == At(p) /\ Tok \in K /\ Take /\ Then(ps) /\ NoError

Go(p, K, ps) == At(p) /\ Tok \in K /\ Stay /\ Then(ps) /\ NoError

EatReturn(p, K, v) == At(p) /\ Tok \in K /\ Take /\ Return(v) /\ NoError

GoReturn(p, K, v) == At(p) /\ Tok \in K /\ Stay /\ Return(v) /\ NoError

(* Mutant: the error is recorded before it is looked for, so that an        *)
(* unexpected_token is never reported.                                      *)
DiagnoseLate(id, t, before) ==
    /\ error' = TRUE
    /\ reported' = (before \/ (t \notin Unknown /\ id # "unexpected_token"))
    /\ UNCHANGED verdict

(* Mutant: an unexpected_token is reported but not recorded. *)
DiagnoseUnset(id, t, before) ==
    /\ error' = (error \/ id # "unexpected_token")
    /\ reported' = (before \/ t \notin Unknown)
    /\ UNCHANGED verdict

(* diagnose() with token t current: of an unknown token the lexer has      *)
(* spoken, and an unexpected_token adds nothing to an earlier error.       *)
Diagnose(id, t, before) ==
    /\ error' = TRUE
    /\ reported' = (before \/ (t \notin Unknown /\ ~(id = "unexpected_token" /\ error)))
    /\ UNCHANGED verdict

(* At p, with none of the tokens K: an error, and return v *)
Fail(p, K, id, v) ==
    /\ At(p) /\ Tok \notin K
    /\ Diagnose(id, Tok, reported)
    /\ Return(v)
    /\ UNCHANGED Position

(* The same after the token was consumed *)
EatFail(p, K, v) ==
    /\ At(p) /\ Tok \notin K
    /\ consumeToken
    /\ Diagnose("unexpected_token", Tok', reported \/ Tok' = "unknown")
    /\ Return(v)

-----------------------------------------------------------------------------
(* The first token has been consumed. *)
Init ==
    /\ \E file \in Openings :
          \/ file # <<>> /\ Tok = Head(file) /\ ahead = Tail(file) /\ left = MaxTokens
          \/ /\ file = <<>> /\ ahead = <<>>
             /\ \/ MaxTokens > 0 /\ Tok \in Supply /\ left = MaxTokens - 1
                \/ Tok = "eof" /\ left = 0
    /\ stack = <<>>
    /\ ret = "node"
    /\ error = FALSE
    /\ reported = (Tok = "unknown")
    /\ hole = FALSE
    /\ verdict = "open"

(* The loop of parseModule: one more node, whatever the last one was *)
ParseModule ==
    /\ verdict = "open" /\ stack = <<>>
    /\ Tok # "eof" /\ ~error
    /\ stack' = <<"Node">> /\ ret' = "node"
    /\ Stay /\ NoError /\ UNCHANGED hole

EndModule ==
    /\ verdict = "open" /\ stack = <<>>
    /\ Tok = "eof" \/ error
    /\ verdict' = IF error THEN "rejected" ELSE "accepted"
    /\ Stay /\ UNCHANGED <<stack, ret, error, hole>>

(* Keywords no statement begins with are given to parseStatement too. *)
StatementToken == (Keyword \ {"kw_var", "kw_let", "kw_inout"}) \union
                  {"identifier", "number_literal", "l_paren", "semi"}

(* parse(), with parseDecl() *)
ParseNode ==
    \/ Go("Node", {"kw_var", "kw_let"}, <<"VarDecl">>)
    \/ GoReturn("Node", {"kw_inout"}, "null")
    \/ Go("Node", StatementToken, <<"Statement">>)
    \/ GoReturn("Node", {"eof", "r_brace"}, "null")
    \/ EatFail("Node", Keyword \union StatementToken \union {"r_brace"}, "null")

StatementOf ==
    [kw_break |-> "BreakStmt", kw_return |-> "ReturnStmt", kw_func |-> "FuncStmt",
     kw_for |-> "ForStmt", kw_if |-> "IfStmt", kw_while |-> "WhileStmt",
     identifier |-> "ExprStmt", number_literal |-> "ExprStmt",
     l_bracket |-> "ExprStmt", l_paren |-> "ExprStmt"]

(* Mutant: the semicolon of an empty statement is not consumed. *)
ParseStatementStuck ==
    \/ Go("Statement", {"semi"}, <<"Statement">>)
    \/ /\ Tok \in DOMAIN StatementOf
       /\ Go("Statement", {Tok}, <<StatementOf[Tok]>>)
    \/ GoReturn("Statement", Kind \ ({"semi"} \union DOMAIN StatementOf), "null")

(* parseStatement(): empty statements are skipped, then a statement or none *)
ParseStatement ==
    \/ Eat("Statement", {"semi"}, <<"Statement">>)
    \/ /\ Tok \in DOMAIN StatementOf
       /\ Go("Statement", {Tok}, <<StatementOf[Tok]>>)
    \/ GoReturn("Statement", Kind \ ({"semi"} \union DOMAIN StatementOf), "null")

(* parseExprStmt().  Its end, the expression's value with a semicolon, is *)
(* also that of parseDeclValue().                                         *)
ParseExprStmt ==
    \/ Go("ExprStmt", Kind, <<"Expr", "StmtEnd">>)
    \/ EatReturn("StmtEnd", {"semi"}, ret)
    \/ Fail("StmtEnd", {"semi"}, "expected_semicolon", "null")

ParseBreakStmt ==
    \/ Eat("BreakStmt", {"kw_break"}, <<"Semi">>)
    \/ EatReturn("Semi", {"semi"}, "node")
    \/ Fail("Semi", {"semi"}, "expected_semicolon", "null")

ReturnedExpr == {"identifier", "number_literal", "l_paren", "minus", "lnot", "l_bracket"}

(* Mutant: the semicolon is only looked for behind a value. *)
ParseReturnStmtOpen ==
    \/ Eat("ReturnStmt", {"kw_return"}, <<"ReturnValue">>)
    \/ Go("ReturnValue", ReturnedExpr, <<"Expr", "Semi">>)
    \/ GoReturn("ReturnValue", {"semi"}, "absent")
    \/ EatFail("ReturnValue", ReturnedExpr \union {"semi"}, "null")
    \/ /\ Tok = "eof"
       /\ Fail("ReturnValue", {}, "unexpected_token", "null")

ParseReturnStmt ==
    \/ Eat("ReturnStmt", {"kw_return"}, <<"ReturnValue", "Semi">>)
    \/ Go("ReturnValue", ReturnedExpr, <<"Expr">>)
    \/ GoReturn("ReturnValue", {"semi"}, "absent")
    \/ EatFail("ReturnValue", ReturnedExpr \union {"semi"}, "null")
    \/ /\ Tok = "eof"
       /\ Fail("ReturnValue", {}, "unexpected_token", "null")

(* parseBlock(): nodes until one is null, for whatever reason *)
ParseBlock ==
    \/ Eat("Block", {"l_brace"}, <<"Node", "BlockNodes">>)
    \/ ret = "node" /\ Go("BlockNodes", Kind, <<"Node", "BlockNodes">>)
    \/ ret # "node" /\ Go("BlockNodes", Kind, <<"RBrace">>)
    \/ EatReturn("RBrace", {"r_brace"}, "node")
    \/ Fail("RBrace", {"r_brace"}, "expected_r_brace", "null")

(* The last point of a method that returns the node it has built *)
Built == GoReturn("Built", Kind, "node")

ParseFuncStmt ==
    \/ Go("FuncStmt", {"kw_func"}, <<"FuncDecl", "FuncBody">>)
    \/ Go("FuncBody", {"l_brace"}, <<"Block", "Built">>)
    \/ Fail("FuncBody", {"l_brace"}, "expected_l_brace", "null")

ParseForStmt ==
    \/ Eat("ForStmt", {"kw_for"}, <<"ForName">>)
    \/ Eat("ForName", {"identifier"}, <<"ForIn">>)
    \/ Fail("ForName", {"identifier"}, "expected_identifier", "null")
    \/ Eat("ForIn", {"kw_in"}, <<"Expr", "RangeOp", "ForBody">>)
    \/ Fail("ForIn", {"kw_in"}, "expected_in_kw", "null")
    \/ Go("ForBody", {"l_brace"}, <<"Block", "Built">>)
    \/ Fail("ForBody", {"l_brace"}, "unexpected_token", "null")

(* parseRangeStmt(), behind its first expression *)
ParseRangeStmt ==
    \/ Eat("RangeOp", Ellipsis, <<"Expr", "Built">>)
    \/ Fail("RangeOp", Ellipsis, "expected_ellipsis", "null")

ParseWhileStmt == Eat("WhileStmt", {"kw_while"}, <<"Expr", "Block", "Built">>)

ParseIfStmt == Eat("IfStmt", {"kw_if"}, <<"Expr", "Block", "ElseStmt", "Built">>)

ParseElseStmt ==
    \/ Eat("ElseStmt", {"kw_else"}, <<"Block">>)
    \/ GoReturn("ElseStmt", Kind \ {"kw_else"}, "absent")

-----------------------------------------------------------------------------
(* Declarations *)

(* parseVarDecl() and parseLetDecl(), which differ in nothing else *)
ParseVarDecl ==
    \/ Eat("VarDecl", {"kw_var", "kw_let"}, <<"DeclName">>)
    \/ Eat("DeclName", {"identifier"}, <<"ValType">>)
    \/ Fail("DeclName", {"identifier"}, "expected_identifier", "null")
    \/ Eat("ValType", {"colon"}, <<"TypeRepr", "DeclInit">>)
    \/ Go("ValType", Kind \ {"colon"}, <<"DeclValue", "Built">>)
    \/ ret = "null" /\ GoReturn("DeclInit", Kind, "null")
    \/ ret # "null" /\ Go("DeclInit", Kind, <<"DeclValue", "Built">>)

ParseDeclValue ==
    \/ EatReturn("DeclValue", {"semi"}, "absent")
    \/ Eat("DeclValue", {"assign"}, <<"Expr", "StmtEnd">>)
    \/ Fail("DeclValue", {"semi", "assign"}, "expected_identifier", "null")

ParseFuncDecl ==
    \/ Eat("FuncDecl", {"kw_func"}, <<"FuncName">>)
    \/ Eat("FuncName", {"identifier"}, <<"VarPattern", "FuncType", "Built">>)
    \/ Fail("FuncName", {"identifier"}, "expected_identifier", "null")

ParseFuncDeclType ==
    \/ GoReturn("FuncType", {"l_brace", "semi"}, "absent")
    \/ Eat("FuncType", {"arrow"}, <<"ResultType">>)
    \/ Fail("FuncType", {"l_brace", "semi", "arrow"}, "expected_return_type", "null")
    \/ Go("ResultType", {"identifier"}, <<"TypeRepr">>)
    \/ Fail("ResultType", {"identifier"}, "expected_type_specifier", "null")

ParseParamDecl ==
    \/ Eat("ParamDecl", {"identifier", "kw_inout"}, <<"ParamType">>)
    \/ Eat("ParamType", {"colon"}, <<"TypeRepr">>)
    \/ Fail("ParamType", {"colon"}, "expected_type_annotation", "null")

ParseVarPattern == Eat("VarPattern", {"l_paren"}, <<"Params", "RParen">>)

(* A list of parameters ends at an item that is null. *)
ParseVarPatternBody ==
    \/ GoReturn("Params", {"r_paren"}, "node")
    \/ Go("Params", {"identifier"}, <<"ParamDecl", "MoreParams">>)
    \/ Fail("Params", {"r_paren", "identifier"}, "expected_comma_separator", "node")
    \/ ret = "null" /\ GoReturn("AnotherParam", Kind, "node")
    \/ ret # "null" /\ Go("AnotherParam", Kind, <<"MoreParams">>)

ParseVarPatternItem ==
    \/ GoReturn("MoreParams", {"r_paren"}, "node")
    \/ Eat("MoreParams", {"comma"}, <<"ParamDecl", "AnotherParam">>)
    \/ Fail("MoreParams", {"r_paren", "comma"}, "expected_comma_separator", "node")

(* consumeIf(r_paren) and consumeIf(r_bracket) at the end of a node *)
Closing ==
    \/ EatReturn("RParen", {"r_paren"}, "node")
    \/ Fail("RParen", {"r_paren"}, "expected_r_paren", "null")
    \/ EatReturn("RBracket", {"r_bracket"}, "node")
    \/ Fail("RBracket", {"r_bracket"}, "expected_r_bracket", "null")

-----------------------------------------------------------------------------
(* Types *)

ParseTypeRepr ==
    \/ Eat("TypeRepr", {"kw_inout"}, <<"InOutBase">>)
    \/ Go("TypeRepr", {"identifier"}, <<"IdentType">>)
    \/ Fail("TypeRepr", {"kw_inout", "identifier"}, "unexpected_token", "null")
    \/ Go("InOutBase", {"identifier"}, <<"IdentType", "Built">>)
    \/ Fail("InOutBase", {"identifier"}, "unexpected_token", "null")

ParseIdentType == Eat("IdentType", {"identifier"}, <<"ArrayType">>)

AfterType == {"comma", "assign", "r_paren", "l_brace", "semi"}

ParseArrayType ==
    \/ GoReturn("ArrayType", AfterType, "node")
    \/ Eat("ArrayType", {"l_bracket"}, <<"Expr", "ArraySize">>)
    \/ Eat("ArraySize", {"r_bracket"}, <<"ArrayType">>)
    \/ Fail("ArraySize", {"r_bracket"}, "expected_r_bracket", "null")

-----------------------------------------------------------------------------
(* Expressions *)

(* parseExpr() and parseBinExprRHS(), whose nested calls return where the *)
(* calling loop goes on                                                   *)
ParseExpr ==
    \/ Go("Expr", Kind, <<"Primary", "Operators">>)
    \/ ret = "null" /\ GoReturn("Operators", Kind, "null")
    \/ ret # "null" /\ Eat("Operators", BinaryOperator, <<"Primary", "Operators">>)
    \/ ret # "null" /\ GoReturn("Operators", Kind \ BinaryOperator, "node")

PrimaryToken == {"l_paren", "identifier", "number_literal", "l_bracket", "minus", "lnot",
                 "inout"}

(* parsePrimaryExpr(), with parseIdentifierExpr() *)
ParsePrimaryExpr ==
    \/ Eat("Primary", {"identifier"}, <<"Postfix">>)
    \/ Fail("Primary", PrimaryToken, "expected_expression", "null")

ParseParenExpr == Eat("Primary", {"l_paren"}, <<"Expr", "RParen">>)

ParseNumberLiteralExpr == EatReturn("Primary", {"number_literal"}, "node")

ParseArrayLiteralExpr == Eat("Primary", {"l_bracket"}, <<"Items", "RBracket", "Postfix">>)

ParseUnaryExpr == Eat("Primary", {"minus", "lnot", "inout"}, <<"Primary", "Built">>)

(* Mutant: what may follow a condition is forgotten. *)
AfterPostfixFew == BinaryOperator \union Ellipsis \union
    {"lnot", "arrow", "r_paren", "r_bracket", "comma", "semi"}

AfterPostfix == BinaryOperator \union Ellipsis \union
    {"lnot", "arrow", "r_paren", "r_bracket", "l_brace", "comma", "semi"}

(* parsePrimaryExprRHS(Dest), where Dest is what the last call returned *)
ParsePrimaryExprRHS ==
    \/ GoReturn("Postfix", AfterPostfix, ret)
    \/ Fail("Postfix", AfterPostfix \union {"l_paren", "l_bracket"},
            "unexpected_token", "null")

ParseCallExpr == Eat("Postfix", {"l_paren"}, <<"Items", "RParen", "Built", "Postfix">>)

(* parseSubscriptExpr() with parseSubscriptStmt() *)
ParseSubscriptExpr ==
    Eat("Postfix", {"l_bracket"}, <<"Expr", "RBracket", "Built", "Postfix">>)

ParseExprPatternBody ==
    \/ GoReturn("Items", {"r_paren", "r_bracket"}, "node")
    \/ Go("Items", PrimaryToken, <<"Expr", "MoreItems">>)
    \/ Fail("Items", {"r_paren", "r_bracket"} \union PrimaryToken, "unexpected_token",
            "node")
    \/ ret = "null" /\ GoReturn("AnotherItem", Kind, "node")
    \/ ret # "null" /\ Go("AnotherItem", Kind, <<"MoreItems">>)

ParseExprPatternItem ==
    \/ GoReturn("MoreItems", {"r_paren", "r_bracket"}, "node")
    \/ Eat("MoreItems", {"comma"}, <<"Expr", "AnotherItem">>)
    \/ Fail("MoreItems", {"r_paren", "r_bracket", "comma"}, "expected_comma_separator",
            "node")

-----------------------------------------------------------------------------
(* The tokens that methods assert to be at, and that the default case of *)
(* parseArrayType() declares unreachable any other but                   *)
Asserted ==
    [Block |-> {"l_brace"}, VarPattern |-> {"l_paren"},
     ParamDecl |-> {"identifier", "kw_inout"},
     ArrayType |-> AfterType \union {"l_bracket"}]

Abort ==
    /\ \E p \in DOMAIN Asserted : At(p) /\ Tok \notin Asserted[p]
    /\ verdict' = "aborted"
    /\ Stay /\ UNCHANGED <<stack, ret, error, hole>>

Next ==
    \/ ParseModule \/ EndModule \/ ParseNode \/ Built \/ Closing \/ Abort
    \/ ParseStatement \/ ParseExprStmt \/ ParseBreakStmt \/ ParseReturnStmt \/ ParseBlock
    \/ ParseFuncStmt \/ ParseForStmt \/ ParseRangeStmt \/ ParseWhileStmt \/ ParseIfStmt
    \/ ParseElseStmt \/ ParseVarDecl \/ ParseDeclValue \/ ParseFuncDecl
    \/ ParseFuncDeclType \/ ParseParamDecl \/ ParseVarPattern \/ ParseVarPatternBody
    \/ ParseVarPatternItem \/ ParseTypeRepr \/ ParseIdentType \/ ParseArrayType
    \/ ParseExpr \/ ParsePrimaryExpr \/ ParseParenExpr \/ ParseNumberLiteralExpr
    \/ ParseArrayLiteralExpr \/ ParseUnaryExpr \/ ParsePrimaryExprRHS \/ ParseCallExpr
    \/ ParseSubscriptExpr \/ ParseExprPatternBody \/ ParseExprPatternItem

(* The parser is a single thread that always goes on. *)
Spec == Init /\ [][Next]_vars /\ WF_vars(Next)

-----------------------------------------------------------------------------
(* What the grammar has the rest of a method read, from each point of it; *)
(* the entries read what the nonterminal of their name does.              *)
Rest ==
    [StmtEnd |-> <<"semi">>, Semi |-> <<"semi">>, Built |-> <<>>,
     BlockNodes |-> <<"Nodes", "r_brace">>, RBrace |-> <<"r_brace">>,
     FuncBody |-> <<"Block">>, ForBody |-> <<"Block">>,
     ForName |-> <<"identifier", "kw_in", "Expr", "Ellipsis", "Expr", "Block">>,
     ForIn |-> <<"kw_in", "Expr", "Ellipsis", "Expr", "Block">>,
     RangeOp |-> <<"Ellipsis", "Expr">>,
     DeclName |-> <<"identifier", "ValType", "DeclValue">>,
     ValType |-> <<"ValType", "DeclValue">>, DeclInit |-> <<"DeclValue">>,
     FuncName |-> <<"identifier", "l_paren", "Params", "r_paren", "FuncType">>,
     VarPattern |-> <<"l_paren", "Params", "r_paren">>,
     ResultType |-> <<"TypeRepr">>, ParamType |-> <<"colon", "TypeRepr">>,
     AnotherParam |-> <<"MoreParams">>, AnotherItem |-> <<"MoreItems">>,
     InOutBase |-> <<"IdentType">>, ArraySize |-> <<"r_bracket", "ArrayType">>,
     Operators |-> <<"Operands">>, RParen |-> <<"r_paren">>, RBracket |-> <<"r_bracket">>]

Point == DOMAIN Rest \union (Nonterminal \ {"Nodes", "Operands"})

RestOf(p) == IF p \in DOMAIN Rest THEN Rest[p] ELSE <<p>>

(* What the grammar has all the calls read *)
Expected(points) == FlattenSeq([i \in DOMAIN points |-> RestOf(points[i])])

judged == IF error \/ verdict = "aborted" THEN "rejected" ELSE verdict

form == IF judged = "open" THEN Expected(stack) \o <<"Nodes">> ELSE <<>>

look == IF judged = "rejected" THEN "eof" ELSE Tok

Reading == INSTANCE Grammar WITH form <- form, look <- look, verdict <- judged

-----------------------------------------------------------------------------
(* The stack holds program points; an open verdict has calls to return. *)
TypeOK ==
    /\ Tok \in Kind /\ ahead \in Seq(Kind \ {"eof"})
    /\ left \in 0 .. MaxTokens
    /\ Tok = "eof" => ahead = <<>> /\ left = 0
    /\ stack \in Seq(Point)
    /\ ret \in {"node", "null", "absent"}
    /\ {error, reported, hole} \subseteq BOOLEAN
    /\ verdict \in {"open", "accepted", "rejected", "aborted"}
    /\ verdict \in {"accepted", "rejected"} => stack = <<>>

(* parseParamDecl() takes the keyword inout for the name of a parameter. *)
NamesInout == At("ParamDecl") /\ Tok = "kw_inout"

(* As long as no error is recorded, the parser has read a beginning of a   *)
(* file of the grammar, and what its calls still have to read completes    *)
(* it; so it accepts nothing else, but for parameters named inout.         *)
Implements == Reading!Init /\ [][~NamesInout => Reading!Next]_(Reading!vars)

(* Where the parser refuses what the grammar goes on with: expression       *)
(* statements that begin with an operator or a bracket, and all of those   *)
(* and declarations behind an empty statement in a block; inout values and *)
(* types that are returned.                                                *)
KnownRefusal ==
    \/ At("Node") /\ Tok \in {"minus", "lnot", "inout", "l_bracket"}
    \/ At("BlockNodes") /\ Tok \in {"minus", "lnot", "inout", "kw_var", "kw_let"}
    \/ At("ReturnValue") /\ Tok = "inout"
    \/ At("ResultType") /\ Tok = "kw_inout"

(* The parser never takes a path on which the next token is an error, when *)
(* another one would have led on, and it refuses a token only if the       *)
(* grammar does: with Implements, it accepts the files of the grammar.     *)
RefusesOnlyErrors ==
    [][judged = "open" /\ MayComeNext(Tok, form) /\ ~KnownRefusal
         => /\ judged' # "rejected"
            /\ judged' = "open" /\ UNCHANGED Position => MayComeNext(Tok, form')]_vars

(* The keywords and the brace that parse() does nothing about *)
Ignored == {"r_brace", "kw_inout", "kw_else", "kw_in", "kw_extern"}

AtIgnored == verdict = "open" /\ stack = <<>> /\ Tok \in Ignored

(* Whatever the file, the parser comes to an end, or to one of these       *)
(* tokens outside of all declarations.                                     *)
Terminates == <>(verdict # "open" \/ AtIgnored)

(* A null that stands for the end of a list is never taken for a part of a *)
(* node: what is accepted has all its parts, and every call has returned   *)
(* (TypeOK).                                                               *)
NoHole == TypeOK /\ (verdict = "accepted" => ~hole)

(* The first error is reported, by the parser or by the lexer, unless it is *)
(* at a `|', and so a file without one is not refused in silence.           *)
ErrorReported == [][~error /\ error' /\ Tok' # "bar" => reported']_vars

=============================================================================
