-------------------------------- MODULE Walk --------------------------------
(***************************************************************************)
(* Walks of the AST: Traversal calls an ASTWalker before and after the     *)
(* children of each node, stores what it gives for an expression, and      *)
(* stops when it refuses.  The nodes are chosen as they are reached.       *)
(***************************************************************************)
EXTENDS Naturals, Sequences

CONSTANTS
    MaxItems,  \* bound: the items of a block, a module or a pattern
    MaxCalls   \* bound: at this depth a walker skips what is below

ASSUME WalkAssumption == MaxItems \in Nat /\ MaxCalls \in Nat

VARIABLES
    walker,   \* who walks
    calls,    \* the calls of traverse(), the innermost first
    ret,      \* what the last of them has returned, till it is looked at
    refused,  \* history: a callback has ended the walk,
    cut       \* or a visitor of its own accord

vars == <<walker, calls, ret, refused, cut>>

-----------------------------------------------------------------------------
(* The children of the nodes, in the order of the text; "null" is where a  *)
(* node has none. *)
Items(of) == UNION {[1 .. n -> of] : n \in 0 .. MaxItems}

Maybe(child) == {"null", child}

DeclFields ==
    [Module |-> Items({"VarDecl", "Expr", "Stmt", "null"}),
     Var    |-> Maybe("TypeRepr") \X Maybe("Expr"),
     Param  |-> {<<"TypeRepr">>},
     Iter   |-> {<<"null">>},
     Func   |-> {"VarPattern"} \X Maybe("TypeRepr")]

ExprFields ==
    [NumberLiteral |-> {<<>>},
     Identifier    |-> {<<>>},
     ArrayLiteral  |-> {<<"ExprPattern">>},
     InOut         |-> {<<"Expr">>},
     Paren         |-> {<<"Expr">>},
     Infix         |-> {<<"Expr", "Expr">>},
     Assign        |-> {<<"Expr", "Expr">>},
     Prefix        |-> {<<"Expr">>},
     Call          |-> {<<"Expr", "ExprPattern">>},
     Subscript     |-> {<<"Expr", "SubscriptStmt">>}]

StmtFields ==
    [Break         |-> {<<>>},
     Return        |-> {<<value>> : value \in Maybe("Expr")},
     SubscriptStmt |-> {<<"Expr">>},
     Range         |-> {<<"Expr", "Expr">>},
     Block         |-> Items({"VarDecl", "Expr", "Stmt"}),
     FuncStmt      |-> {<<"FuncDecl", "Block">>},
     For           |-> {<<"Iterator", "Range", "Block">>},
     While         |-> {<<"Expr", "Block">>},
     If            |-> {"Expr"} \X {"Block"} \X Maybe("Block")]

PatternFields ==
    [ExprPattern |-> Items({"Expr"}),
     VarPattern  |-> Items({"ParamDecl"})]

TypeReprFields ==
    [Ident     |-> {<<>>},
     Array     |-> {<<"TypeRepr", "SubscriptStmt">>},
     InOutRepr |-> {<<"TypeRepr">>}]

Decl    == DOMAIN DeclFields
Expr    == DOMAIN ExprFields
Stmt    == DOMAIN StmtFields
Pattern == DOMAIN PatternFields

Fields(kind) ==
    CASE kind \in Decl    -> DeclFields[kind]
      [] kind \in Expr    -> ExprFields[kind]
      [] kind \in Stmt    -> StmtFields[kind]
      [] kind \in Pattern -> PatternFields[kind]
      [] OTHER            -> TypeReprFields[kind]

(* The kinds of nodes that the parser puts in each place *)
Kinds ==
    [Module |-> {"Module"}, VarDecl |-> {"Var"}, ParamDecl |-> {"Param"}, Iterator |-> {"Iter"},
     FuncDecl |-> {"Func"}, Expr |-> Expr, TypeRepr |-> DOMAIN TypeReprFields,
     Stmt |-> {"Break", "Return", "FuncStmt", "For", "While", "If"}, Block |-> {"Block"},
     Range |-> {"Range"}, SubscriptStmt |-> {"SubscriptStmt"},
     ExprPattern |-> {"ExprPattern"}, VarPattern |-> {"VarPattern"}]

-----------------------------------------------------------------------------
(* What the visitors do with the children: the i-th is walked, and where   *)
(* it is an expression set() to what the walk returns.                     *)
Walk(i) == <<[child |-> i, set |-> FALSE]>>
Set(i)  == <<[child |-> i, set |-> TRUE]>>

Has(f, i, step) == IF f[i] = "null" THEN <<>> ELSE step

Each(f) == [i \in DOMAIN f |-> [child |-> i, set |-> f[i] = "Expr"]]

visitVarDecl(f)   == Has(f, 1, Walk(1)) \o Has(f, 2, Set(2))
visitParamDecl(f) == Has(f, 1, Walk(1))
visitFuncDecl(f)  == Walk(1) \o Has(f, 2, Walk(2))
visitModuleDecl(f) == Each(f)

visitNumberLiteralExpr(f) == <<>>
visitIdentifierExpr(f)    == <<>>

(* The items of an array are not walked. *)
visitArrayLiteralExpr(f) == <<>>

visitInOutExpr(f)     == Set(1)
visitParenExpr(f)     == Set(1)
visitInfixExpr(f)     == Set(1) \o Set(2)
visitAssignExpr(f)    == Set(1) \o Set(2)
visitPrefixExpr(f)    == Set(1)
visitCallExpr(f)      == Set(1) \o Walk(2)
visitSubscriptExpr(f) == Set(1) \o Walk(2)

visitBreakStmt(f)     == <<>>
visitReturnStmt(f)    == Has(f, 1, Set(1))
visitSubscriptStmt(f) == Set(1)

(* A mutant: the end of a range is walked and stays what it was. *)
visitRangeStmtOld(f) == Set(1) \o Walk(2)

visitRangeStmt(f) == Set(1) \o Set(2)
visitBlockStmt(f) == Each(f)
visitFuncStmt(f)  == Walk(1) \o Walk(2)
visitForStmt(f)   == Walk(1) \o Walk(2) \o Walk(3)
visitWhileStmt(f) == Set(1) \o Walk(2)

(* A mutant: hasElseBlock() is not asked. *)
visitIfStmtAlways(f) == Set(1) \o Walk(2) \o Walk(3)

visitIfStmt(f) == Set(1) \o Walk(2) \o Has(f, 3, Walk(3))

visitExprPattern(f) == Each(f)
visitVarPattern(f)  == Each(f)

visitIdentTypeRepr(f) == <<>>
visitArrayTypeRepr(f) == Walk(1) \o Walk(2)
visitInOutTypeRepr(f) == Walk(1)

visit(kind, f) ==
    CASE kind = "Module"        -> visitModuleDecl(f)
      [] kind = "Var"           -> visitVarDecl(f)
      [] kind \in {"Param", "Iter"} -> visitParamDecl(f)
      [] kind = "Func"          -> visitFuncDecl(f)
      [] kind = "NumberLiteral" -> visitNumberLiteralExpr(f)
      [] kind = "Identifier"    -> visitIdentifierExpr(f)
      [] kind = "ArrayLiteral"  -> visitArrayLiteralExpr(f)
      [] kind = "InOut"         -> visitInOutExpr(f)
      [] kind = "Paren"         -> visitParenExpr(f)
      [] kind = "Infix"         -> visitInfixExpr(f)
      [] kind = "Assign"        -> visitAssignExpr(f)
      [] kind = "Prefix"        -> visitPrefixExpr(f)
      [] kind = "Call"          -> visitCallExpr(f)
      [] kind = "Subscript"     -> visitSubscriptExpr(f)
      [] kind = "Break"         -> visitBreakStmt(f)
      [] kind = "Return"        -> visitReturnStmt(f)
      [] kind = "SubscriptStmt" -> visitSubscriptStmt(f)
      [] kind = "Range"         -> visitRangeStmt(f)
      [] kind = "Block"         -> visitBlockStmt(f)
      [] kind = "FuncStmt"      -> visitFuncStmt(f)
      [] kind = "For"           -> visitForStmt(f)
      [] kind = "While"         -> visitWhileStmt(f)
      [] kind = "If"            -> visitIfStmt(f)
      [] kind = "ExprPattern"   -> visitExprPattern(f)
      [] kind = "VarPattern"    -> visitVarPattern(f)
      [] kind = "Ident"         -> visitIdentTypeRepr(f)
      [] kind = "Array"         -> visitArrayTypeRepr(f)
      [] kind = "InOutRepr"     -> visitInOutTypeRepr(f)

(* What a visitor returns when no child was refused: visitVarPattern()     *)
(* returns false.                                                          *)
Accepts(kind) == kind # "VarPattern"

-----------------------------------------------------------------------------
(* The walkers: what each of them may answer.  A walker may go into a      *)
(* node, skip it, skip it and give another expression for it, or refuse.   *)
(* FwdDeclarator *)
FwdPre(kind) ==
    IF kind \in {"Module", "Func"} \union {"FuncStmt"} THEN {"walk"} ELSE {"skip"}

FwdPost(kind) == IF kind = "Func" THEN {"same", "refuse"} ELSE {"same"}

(* MutationResolver, on the destination of an assignment *)
MutationPre(kind) == IF kind \in Stmt THEN {"skip"} ELSE {"walk"}

(* ExprSolver: a solved expression is not walked again. *)
SolverPre(kind) == IF kind \in Expr THEN {"walk", "skip"} ELSE {"walk"}

SolverPost(kind) ==
    CASE kind \in {"InOut", "Paren"} -> {"new"}
      [] kind \in {"Identifier", "Infix", "Prefix", "Subscript"} -> {"same", "new"}
      [] OTHER -> {"same"}

preWalk(kind) ==
    CASE walker = "FwdDeclarator"    -> FwdPre(kind)
      [] walker = "MutationResolver" -> MutationPre(kind)
      [] walker = "ExprSolver"       -> SolverPre(kind)
      [] walker = "any" -> {"walk", "skip"} \union IF kind \in Expr THEN {"new", "refuse"} ELSE {}

postWalk(kind) ==
    CASE walker = "FwdDeclarator"    -> FwdPost(kind)
      [] walker = "MutationResolver" -> {"same"}
      [] walker = "ExprSolver"       -> SolverPost(kind)
      [] walker = "any" -> {"same", "refuse"} \union IF kind \in Expr THEN {"new"} ELSE {}

Roots ==
    IF walker = "FwdDeclarator" THEN {"Module"}
    ELSE IF walker = "any" THEN {"Module", "Expr"}
    ELSE {"Expr"}

-----------------------------------------------------------------------------
(* A call of traverse(): what is left for its visitor to do, and as        *)
(* history: which children it has walked, and whether one of them is not   *)
(* what the walk has returned for it.                                      *)
Call(kind, fields, todo) ==
    [kind |-> kind, fields |-> fields, todo |-> todo, walked |-> <<>>, stale |-> FALSE]

This == Head(calls)

Running == calls # <<>> /\ ret = "none"

(* visitModuleDecl() passes over what is neither a declaration nor an      *)
(* expression nor a statement. *)
passOver ==
    /\ Running /\ This.todo # <<>>
    /\ This.kind = "Module" /\ This.fields[Head(This.todo).child] = "null"
    /\ calls' = <<[This EXCEPT !.todo = Tail(@)]>> \o Tail(calls)
    /\ UNCHANGED <<walker, ret, refused, cut>>

(* The visitor takes its next child. *)
traverse ==
    /\ Running /\ This.todo # <<>>
    /\ LET i    == Head(This.todo).child
           here == [This EXCEPT !.walked = Append(@, i)]
       IN  IF This.fields[i] = "null"
           THEN /\ This.kind # "Module"
                /\ ret' = "crash" /\ calls' = <<>> /\ UNCHANGED refused
           ELSE \E kind \in Kinds[This.fields[i]] : \E answer \in preWalk(kind) :
                  \/ /\ answer = "walk" /\ Len(calls) <= MaxCalls
                     /\ \E fields \in Fields(kind) :
                          calls' = <<Call(kind, fields, visit(kind, fields)), here>> \o Tail(calls)
                     /\ UNCHANGED <<ret, refused>>
                  \/ /\ answer = "skip" \/ (answer = "walk" /\ Len(calls) > MaxCalls)
                     /\ ret' = "same" /\ calls' = <<here>> \o Tail(calls)
                     /\ UNCHANGED refused
                  \/ /\ answer \in {"new", "refuse"}
                     /\ ret' = answer /\ calls' = <<here>> \o Tail(calls)
                     /\ refused' = (answer = "refuse")
    /\ UNCHANGED <<walker, cut>>

(* A mutant: a visitor goes on behind a child that was refused. *)
checkAnyway ==
    /\ calls # <<>> /\ ret # "none"
    /\ LET stale == ret = "new" /\ ~Head(This.todo).set
       IN  calls' = <<[This EXCEPT !.todo = Tail(@), !.stale = @ \/ stale]>> \o Tail(calls)
    /\ ret' = "none"
    /\ UNCHANGED <<walker, refused, cut>>

(* It looks at what was returned for the child. *)
check ==
    /\ calls # <<>> /\ ret # "none"
    /\ \/ /\ ret = "refuse"
          /\ calls' = Tail(calls) /\ UNCHANGED ret
       \/ /\ ret # "refuse"
          /\ LET stale == ret = "new" /\ ~Head(This.todo).set
             IN  calls' = <<[This EXCEPT !.todo = Tail(@), !.stale = @ \/ stale]>> \o Tail(calls)
          /\ ret' = "none"
    /\ UNCHANGED <<walker, refused, cut>>

(* The visitor returns. *)
leave ==
    /\ Running /\ This.todo = <<>>
    /\ calls' = Tail(calls)
    /\ IF This.kind = "root" THEN ret' = "same" /\ UNCHANGED <<refused, cut>>
       ELSE IF Accepts(This.kind)
       THEN /\ ret' \in postWalk(This.kind)
            /\ refused' = (ret' = "refuse") /\ UNCHANGED cut
       ELSE ret' = "refuse" /\ cut' = TRUE /\ UNCHANGED refused
    /\ UNCHANGED walker

Init ==
    /\ walker \in {"FwdDeclarator", "MutationResolver", "ExprSolver", "any"}
    /\ \E root \in Roots : calls = <<Call("root", <<root>>, Set(1))>>
    /\ ret = "none" /\ refused = FALSE /\ cut = FALSE

Next == passOver \/ traverse \/ check \/ leave

Spec == Init /\ [][Next]_vars

-----------------------------------------------------------------------------
(* The rules for Traversal: a node whose walk is over has had every child  *)
(* that it has walked, once and in order, except for the items of an array *)
(* literal, and no child that it has not.                                  *)
Children(fields) == {i \in DOMAIN fields : fields[i] # "null"}

InOrder(walked) == \A i, j \in DOMAIN walked : i < j => walked[i] < walked[j]

WalksTheTree ==
    /\ ret # "crash"
    /\ (Running /\ This.todo = <<>>) =>
          /\ {This.walked[i] : i \in DOMAIN This.walked} =
                IF This.kind = "ArrayLiteral" THEN {} ELSE Children(This.fields)
          /\ InOrder(This.walked)

(* What a walker returns for an expression takes its place in the tree,    *)
(* wherever in the tree that is.                                           *)
Replaced == \A i \in DOMAIN calls : ~calls[i].stale

(* After a callback has refused there are no more, and only then, or when  *)
(* the variables of a function were walked, does a walk fail.              *)
RefusalEndsIt == (refused \/ cut) <=> (ret = "refuse")

=============================================================================
