------------------------------- MODULE Format -------------------------------
(***************************************************************************)
(* The formatter: PrintAST visits the nodes that the parser built and      *)
(* tells PrettyPrinter what to print.  The nodes are chosen as they are    *)
(* visited.  What of the text the parser has read for them is not printed  *)
(* yet is kept as a sentential form: its tokens, and for each child that   *)
(* is still to be visited the kind of node it is to be.                    *)
(*                                                                         *)
(* Comments and empty statements leave no node and are lost.  The parser   *)
(* never builds an ExternStmt.                                             *)
(***************************************************************************)
EXTENDS Naturals, Sequences, FiniteSets

CONSTANTS
    MaxIndentation,  \* Indentation::MAX_INDENTATION
    MaxCalls         \* bound: the calls of visit() one inside the other

ASSUME FormatAssumption == MaxIndentation \in Nat \ {0} /\ MaxCalls \in Nat \ {0}

VARIABLES
    calls,          \* for each call of visit(), the innermost first, what it will do
    form,           \* what the parser has read, from where the printer is
    last,           \* the token printed last, or "none" if something is behind it
    Depth,          \* of the indentation
    AtStartOfLine,
    begun,          \* a statement that is to have a line of its own was begun
    end             \* how it ended: << >> while it prints

formatVars == <<calls, form, last, Depth, AtStartOfLine, begun, end>>

-----------------------------------------------------------------------------
(* A visitor prints a token or a space, visits a child, or calls "newline" *)
(* or, if the line has something on it, "line", "++" or "--".  "begin" has *)
(* no effect: a statement begins there.  "lbrace", "rbrace", "semi" and    *)
(* "comma" are the tokens { } ; and , .                                    *)
Word == {"let", "var", "inout", "break", "return", "if", "else", "while", "for", "in",
         "func", "name", "number"}

(* What goes past print(), by printText() *)
Raw == [putSemi |-> "semi", putComma |-> "comma"]

Text == Word \union {"lbrace", "rbrace", "(", ")", "[", "]", "comma", "semi", ":", "->",
                     "=", "+", "-", "!", "&", "..", "..."}

(* Two tokens that would be read as one, or as others, with nothing        *)
(* between them                                                            *)
Fused(a, b) ==
    \/ a \in Word /\ b \in Word
    \/ <<a, b>> \in {<<"&", "&">>, <<"=", "=">>, <<"!", "=">>, <<"-", ">">>}
    \/ a \in {"..", "..."} /\ b \in {"..", "..."}

(* A kind of node: what the parser reads for it and what its visitor does *)
Node(read, visit) == {[read |-> read, visit |-> visit]}

Same(s) == Node(s, s)

-----------------------------------------------------------------------------
(* PrettyPrinter's hooks *)
printDeclPre ==
    [Let   |-> <<"line", "let", "space">>,
     Var   |-> <<"line", "var", "space">>,
     Param |-> <<>>,
     Func  |-> <<"func", "space">>]

printDeclPost == [Var |-> <<"putSemi">>]

(* A mutant: an if begins where the line is. *)
printStmtPreInline ==
    [Block     |-> <<"lbrace", "++">>,
     Func      |-> <<"line", "newline">>,
     For       |-> <<"line">>,
     If        |-> <<>>,
     While     |-> <<"line">>,
     Subscript |-> <<"[">>]

printStmtPre ==
    [Block     |-> <<"lbrace", "++">>,
     Func      |-> <<"line", "newline">>,
     For       |-> <<"line">>,
     If        |-> <<"line">>,
     While     |-> <<"line">>,
     Subscript |-> <<"[">>]

printStmtPost ==
    [Block     |-> <<"--", "rbrace">>,
     Break     |-> <<"semi">>,
     Return    |-> <<"semi">>,
     Subscript |-> <<"]">>]

-----------------------------------------------------------------------------
(* Declarations *)
visitVarDecl ==
    UNION {Node(<<kw, "name">> \o typed \o value \o <<"semi">>,
                printDeclPre[IF kw = "let" THEN "Let" ELSE "Var"] \o <<"name">>
                \o (IF typed = <<>> THEN <<>> ELSE <<":", "space", "Type">>)
                \o (IF value = <<>> THEN <<>> ELSE <<"space", "=", "space", "Expr">>)
                \o printDeclPost.Var)
           : kw \in {"let", "var"}, typed \in {<<>>, <<":", "Type">>},
             value \in {<<>>, <<"=", "Expr">>}}

visitFuncDecl ==
    UNION {Node(<<"func", "name", "(", "Vars", ")">> \o typed,
                printDeclPre.Func \o <<"name", "(", "Vars", ")">>
                \o (IF typed = <<>> THEN <<>> ELSE <<"space", "->", "space", "BaseType">>))
           : typed \in {<<>>, <<"->", "BaseType">>}}

visitParamDecl ==
    Node(<<"name", ":", "Type">>, printDeclPre.Param \o <<"name", ":", "space", "Type">>)

(* The iterator of a for, which has no type *)
visitIterator == Node(<<"name">>, printDeclPre.Param \o <<"name">>)

-----------------------------------------------------------------------------
(* Expressions *)
visitNumberLiteralExpr == Same(<<"number">>)
visitArrayLiteralExpr  == Same(<<"[", "Values", "]">>)
visitIdentifierExpr    == Same(<<"name">>)
visitInOutExpr         == Same(<<"&", "Primary">>)
visitParenExpr         == Same(<<"(", "Expr", ")">>)
visitCallExpr          == Same(<<"Postfix", "(", "Values", ")">>)
visitPrefixExpr        == Same(<<"-", "Primary">>) \union Same(<<"!", "Primary">>)
visitSubscriptExpr     == Same(<<"Postfix", "Subscript">>)

visitAssignExpr ==
    Node(<<"Expr", "=", "Sum">>, <<"Expr", "space", "=", "space", "Sum">>)

visitInfixExpr ==
    Node(<<"Sum", "+", "Primary">>, <<"Sum", "space", "+", "space", "Primary">>)

-----------------------------------------------------------------------------
(* Statements *)
visitBreakStmt == Node(<<"break", "semi">>, <<"break">> \o printStmtPost.Break)

(* A mutant: no space behind the keyword *)
visitReturnStmtTight ==
    Node(<<"return", "Expr", "semi">>, <<"return", "Expr">> \o printStmtPost.Return)
    \union Node(<<"return", "semi">>, <<"return", "null">> \o printStmtPost.Return)

visitReturnStmt ==
    Node(<<"return", "Expr", "semi">>, <<"return", "space", "Expr">> \o printStmtPost.Return)
    \union Node(<<"return", "semi">>, <<"return", "space", "null">> \o printStmtPost.Return)

visitSubscriptStmt ==
    Node(<<"[", "Expr", "]">>, printStmtPre.Subscript \o <<"Expr">> \o printStmtPost.Subscript)

visitRangeStmt ==
    Same(<<"Expr", "..", "Expr">>) \union Same(<<"Expr", "...", "Expr">>)

visitFuncStmt ==
    Node(<<"Func", "Block">>, printStmtPre.Func \o <<"Func", "space", "Block">>)

visitForStmt ==
    Node(<<"for", "Iterator", "in", "Range", "Block">>,
         printStmtPre.For \o <<"for", "space", "Iterator", "space", "in", "space", "Range",
                               "space", "Block">>)

visitWhileStmt ==
    Node(<<"while", "Expr", "Block">>,
         printStmtPre.While \o <<"while", "space", "Expr", "space", "Block">>)

visitIfStmt ==
    Node(<<"if", "Expr", "Block">>, printStmtPre.If \o <<"if", "space", "Expr", "space", "Block">>)
    \union
    Node(<<"if", "Expr", "Block", "else", "Block">>,
         printStmtPre.If \o <<"if", "space", "Expr", "space", "Block",
                              "space", "else", "space", "Block">>)

(* The nodes of a block; there is a newline before all but the first. *)
visitBlockStmt ==
    Node(<<"lbrace", "Nodes", "rbrace">>, printStmtPre.Block \o <<"Nodes">> \o printStmtPost.Block)

(* A mutant: the null at which the parser ends a block is one of its nodes. *)
NodesAndNull == Node(<<>>, <<"unreachable">>)
                \union Node(<<"Node", "MoreNodes">>, <<"begin", "Node", "MoreNodes">>)

Nodes ==
    Same(<<>>) \union Node(<<"Node", "MoreNodes">>, <<"begin", "Node", "MoreNodes">>)

MoreNodes ==
    Same(<<>>) \union
    Node(<<"Node", "MoreNodes">>, <<"newline", "begin", "Node", "MoreNodes">>)

Jumps == visitBreakStmt \union visitReturnStmt
Lines == visitVarDecl \union visitFuncStmt \union visitForStmt \union visitWhileStmt
         \union visitIfStmt

(* A node of a block *)
BlockNode == Lines \union Jumps \union Node(<<"Expr", "semi">>, <<"Expr", "putSemi">>)

(* The nodes of a module: nothing puts a break or a return on a line of    *)
(* its own.  A null is what the parser makes of a `;' before a declaration *)
(* or the end.                                                             *)
visitModuleDecl == Node(<<"Contents">>, <<"Contents", "newline">>)

Contents ==
    Same(<<>>)
    \union Node(<<"Line", "Contents">>, <<"begin", "Line", "Contents">>)
    \union Node(<<"Jump", "Contents">>, <<"Jump", "Contents">>)
    \union Node(<<"Expr", "semi", "Contents">>,
                <<"newline", "begin", "Expr", "putSemi", "Contents">>)
    \union Node(<<"Contents">>, <<"unreachable", "Contents">>)

-----------------------------------------------------------------------------
(* Patterns: printSeparator() prints between all but the first. *)
visitExprPattern == Same(<<>>) \union Same(<<"Expr", "MoreValues">>)
MoreValues ==
    Same(<<>>) \union
    Node(<<"comma", "Expr", "MoreValues">>, <<"putComma", "space", "Expr", "MoreValues">>)

visitVarPattern == Same(<<>>) \union Same(<<"Param", "MoreVars">>)
MoreVars ==
    Same(<<>>) \union
    Node(<<"comma", "Param", "MoreVars">>, <<"putComma", "space", "Param", "MoreVars">>)

(* Types *)
visitIdentTypeRepr == Same(<<"name">>)
visitArrayTypeRepr == Same(<<"BaseType", "Subscript">>)
visitInOutTypeRepr == Node(<<"inout", "BaseType">>, <<"inout", "space", "BaseType">>)

-----------------------------------------------------------------------------
(* The nodes that the parser builds where it expects one of a kind *)
PostfixExpr == visitIdentifierExpr \union visitArrayLiteralExpr \union visitCallExpr
               \union visitSubscriptExpr
PrimaryExpr == PostfixExpr \union visitNumberLiteralExpr \union visitParenExpr
               \union visitPrefixExpr \union visitInOutExpr
BaseType    == visitIdentTypeRepr \union visitArrayTypeRepr

Visitors ==
    [Module |-> visitModuleDecl, Contents |-> Contents, Line |-> Lines, Jump |-> Jumps,
     Block |-> visitBlockStmt, Nodes |-> Nodes, MoreNodes |-> MoreNodes, Node |-> BlockNode,
     Func |-> visitFuncDecl, Vars |-> visitVarPattern, MoreVars |-> MoreVars,
     Param |-> visitParamDecl, Iterator |-> visitIterator, Range |-> visitRangeStmt,
     Type |-> BaseType \union visitInOutTypeRepr, BaseType |-> BaseType,
     Subscript |-> visitSubscriptStmt, Values |-> visitExprPattern, MoreValues |-> MoreValues,
     Expr |-> visitAssignExpr \union visitInfixExpr \union PrimaryExpr,
     Sum |-> visitInfixExpr \union PrimaryExpr, Primary |-> PrimaryExpr,
     Postfix |-> PostfixExpr]

Kind == DOMAIN Visitors

(* What may go on without end is of these. *)
Nesting == {"Line", "Node", "Block", "Expr", "Sum", "Primary", "Postfix", "Values", "BaseType"}

-----------------------------------------------------------------------------
Runs == end = <<>> /\ calls # <<>>

Now == Head(Head(calls))

(* The innermost call goes on with what is left of it, or returns. *)
Going(call) == IF call = <<>> THEN <<>> ELSE <<call>>

GoesOn(visit) == calls' = Going(visit) \o Going(Tail(Head(calls))) \o Tail(calls)

Does(what) == Runs /\ Now = what /\ GoesOn(<<>>)

Stops(how) == end' = how /\ calls' = <<>>

(* How many blocks the text read so far has open *)
Braces(s) == {i \in DOMAIN s : s[i] = "rbrace"}

Open == Cardinality(Braces(form))

(* The tokens at which parse() goes on to read a declaration or a statement *)
Leading == {"let", "var", "break", "return", "if", "while", "for", "func", "name", "number", "("}

(* The parser refuses a statement that begins with an operator.  One that  *)
(* begins with [ it takes behind an empty statement, which is lost.        *)
Fits(node) ==
    /\ (begun /\ node.read # <<>>) => Head(node.read) \notin {"-", "!", "&"}
    /\ (Now \in Nesting /\ Len(calls) >= MaxCalls) =>
          \A i \in 1 .. Len(node.read) : node.read[i] \notin Nesting

(* ASTVisitor::visit() of a child, which is the next in the text, or not *)
visit ==
    /\ Runs /\ Now \in Kind
    /\ IF form # <<>> /\ Head(form) = Now
       THEN /\ \E node \in Visitors[Now] :
                  /\ Fits(node)
                  /\ form' = node.read \o Tail(form)
                  /\ GoesOn(node.visit)
            /\ UNCHANGED end
       ELSE Stops(<<"differs", last, Now>>) /\ UNCHANGED form
    /\ UNCHANGED <<last, Depth, AtStartOfLine, begun>>

(* What is printed goes on being what was read. *)
Prints(token, lastOne) ==
    IF form # <<>> /\ Head(form) = token /\ ~Fused(lastOne, token)
    THEN form' = Tail(form) /\ last' = token /\ GoesOn(<<>>) /\ UNCHANGED end
    ELSE Stops(<<"differs", lastOne, token>>) /\ UNCHANGED <<form, last>>

(* ASTPrinter::print().  printIndent() is given characters that are no     *)
(* more; when there are none to print, all is well.                        *)
print ==
    /\ Runs /\ Now \in Text
    /\ \/ Prints(Now, last)
       \/ AtStartOfLine /\ Depth > 0 /\ Stops(<<"garbled">>) /\ UNCHANGED <<form, last>>
    /\ AtStartOfLine' = FALSE /\ begun' = FALSE
    /\ UNCHANGED Depth

(* printText() sees to nothing. *)
printText ==
    /\ Runs /\ Now \in DOMAIN Raw
    /\ Prints(Raw[Now], last)
    /\ UNCHANGED <<Depth, AtStartOfLine, begun>>

space ==
    /\ Does("space") /\ last' = "none"
    /\ UNCHANGED <<form, Depth, AtStartOfLine, begun, end>>

printNewline == AtStartOfLine' = TRUE /\ last' = "none"

newline ==
    /\ \/ Does("newline") /\ printNewline
       \/ /\ Does("line")
          /\ IF AtStartOfLine THEN UNCHANGED <<AtStartOfLine, last>> ELSE printNewline
    /\ UNCHANGED <<form, Depth, begun, end>>

(* ASTPrinter::operator++ and --, whose assertions may fail *)
indent ==
    /\ Runs /\ Now \in {"++", "--"}
    /\ IF IF Now = "++" THEN Depth < MaxIndentation - 1 ELSE Depth # 0
       THEN /\ Depth' = IF Now = "++" THEN Depth + 1 ELSE Depth - 1
            /\ printNewline /\ GoesOn(<<>>) /\ UNCHANGED end
       ELSE Stops(<<"assert", Now>>) /\ UNCHANGED <<Depth, AtStartOfLine, last>>
    /\ UNCHANGED <<form, begun>>

begin == Does("begin") /\ begun' = TRUE
         /\ UNCHANGED <<form, last, Depth, AtStartOfLine, end>>

(* A visit of a null, and llvm_unreachable() *)
crash ==
    /\ Runs /\ Now \in {"null", "unreachable"}
    /\ Stops(<<Now>>)
    /\ UNCHANGED <<form, last, Depth, AtStartOfLine, begun>>

(* Formatter::format() is called when there was no error. *)
FormatInit ==
    /\ calls = <<<<"Module">>>> /\ form = <<"Module">>
    /\ last = "none" /\ Depth = 0 /\ AtStartOfLine = TRUE
    /\ begun = FALSE /\ end = <<>>

FormatNext == visit \/ print \/ printText \/ space \/ newline \/ indent \/ begin \/ crash

FormatSpec == FormatInit /\ [][FormatNext]_formatVars

-----------------------------------------------------------------------------
(* The next token is the first of a statement on a line of its own. *)
AtStatement == Runs /\ begun /\ Now \in Text

(* What is printed reads as what was read: the same tokens in the same     *)
(* order, nothing missing at the end and no two run together, but for the  *)
(* two & of an inout argument of an inout argument; and a statement begins *)
(* with a token at which the parser goes on, unless it is the [ of an      *)
(* array literal, which the parser takes only behind an empty statement.   *)
Faithful ==
    /\ end # <<>> /\ end[1] = "differs" => end = <<"differs", "&", "&">>
    /\ end = <<>> /\ calls = <<>> => form = <<>>
    /\ AtStatement => Now \in Leading \union {"["}

(* Every line is indented as deep as it is nested, and every statement     *)
(* begins on a line of its own: but for a break or a return of the module. *)
LaidOut ==
    [][/\ (AtStartOfLine /\ ~AtStartOfLine' /\ end' = <<>>) => Depth = Open'
       /\ (begun /\ ~begun') => AtStartOfLine]_formatVars

(* The formatter prints what the parser has accepted, to the end, unless   *)
(* there is a return without a value, a null in the module itself, or more *)
(* blocks one inside the other than may be indented; or an indentation is  *)
(* garbled.                                                                *)
StopsOnlyThere ==
    end # <<>> =>
       CASE end[1] = "null"        -> form # <<>> /\ Head(form) = "semi"
         [] end[1] = "unreachable" -> Open = 0
         [] end[1] = "assert"      -> Open = MaxIndentation
         [] OTHER                  -> TRUE

=============================================================================
