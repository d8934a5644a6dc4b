-------------------------------- MODULE Expr --------------------------------
(***************************************************************************)
(* The statements of a function body and the expressions in them: the type *)
(* checker gives every expression a type and rewrites it (lib/Sema,        *)
(* ExprChecker and ExprSolver), the code generator emits LLVM instructions *)
(* for what is left of it (lib/IRGen, RValueEmitter and LValueEmitter).    *)
(* The two share the AST only.  The type checker refuses what it finds     *)
(* wrong; the code generator checks nothing, so whatever the type checker  *)
(* lets through must be something the code generator can handle.           *)
(*                                                                         *)
(* A behaviour writes a function body, node by node in source order, and   *)
(* visits the nodes as the recursion of the visitors does.  A frame is a   *)
(* node whose visitor has not returned, with the children it has visited;  *)
(* a child is what the visitor returned for it: the node the solver left   *)
(* and the LLVM type of the instruction that will be emitted for it.  The  *)
(* code generator comes to a statement as soon as the type checker has     *)
(* left it, for what it does there depends on nothing that follows; it     *)
(* counts only until the type checker finds an error.                      *)
(*                                                                         *)
(* Names are resolved by one flat scope: Binding is about the others.      *)
(***************************************************************************)
EXTENDS Types, FiniteSets, TLC

CONSTANTS
    Number,      \* the number literals
    Given,       \* the declarations the body starts with: globals and
                 \* parameters, from names to declarations
    Local,       \* the names of its own variables
    Values,      \* the literals that are values of Given, and all in them
    Undeclared,  \* a name nobody declares
    Returns,     \* the representations of the function's result type
    None,        \* no type representation, no name
    MaxNodes,    \* bound: expression nodes of a body, by its last statement
    MaxDepth,    \* bound: nodes that are visited at a time
    ErrNodes,    \* bound: nodes of a body with an error
    MaxStmts,    \* bound: statements of the body
    MaxItems     \* bound: items of an array literal, arguments of a call

VARIABLES
    decls,    \* the values that are declared: from names to declarations
    frames,   \* the nodes that are being visited, innermost last
    nodes,    \* the number of expression nodes so far
    stmts,    \* the number of statements so far
    error,    \* ASTContext::isError()
    sema,     \* "ok", or how the type checker crashed
    irgen,    \* "ok", or "bad": it crashed or made an ill-typed module
    last,     \* the expressions of the statement visited last
    mutated,  \* the constants the body has got hold of to change them
    odd       \* what the body has that the passes are not prepared for

vars == <<decls, frames, nodes, stmts, error, sema, irgen, last,
          mutated, odd>>

(* What a body can have that the type checker lets through although the    *)
(* code generator, or the type checker itself, is not prepared for it.     *)
Odd ==
    {"function as value",   \* the name of a function where no call is
     "computed callee",     \* a call of something other than a name
     "callee no function",  \* a call of a value
     "prefix operand",      \* a prefix operator on something but an Int
     "mixed items",         \* an array literal with items of several types
     "computed items",      \* an array literal with items that are computed
     "undefined item",      \* an array literal with an item without a type
     "index type",          \* a subscript that is no Int
     "past the end",        \* a constant subscript that is the length
     "folded away",         \* the solver drops items that have effects
     "replayed",            \* and puts others where the constant is mentioned
     "stray target",        \* an assignment to an expression
     "array element",       \* an assignment of an array to an element
     "void variable",       \* a variable of type Void
     "return type",         \* a return value of another type
     "void return",         \* a return value of a function without result
     "condition type",      \* a condition that is no Int
     "range type",          \* a range of something but Ints
     "undefined range",     \* a range with a start or end without a type
     "unknown result",      \* a return from a function of an unknown type
     "unknown type",        \* a call of a function with an unknown type
     "early call"}          \* a call before the function was visited

-----------------------------------------------------------------------------
(* Nodes *)

FuncNamed(n) == {i \in DOMAIN Sig : Sig[i].name = n}

(* kind, ty: Expr::getKind() and getType()                                  *)
(* name, val, items: of an identifier; a number; an array literal, or a     *)
(* subscript that the solver can fold, its base and its index               *)
(* ir, const: the type of its rvalue, and whether that is an llvm::Constant *)
(* slot: the type of what its lvalue holds                                  *)
(* lets: MutationResolver finds a constant in it                            *)
(* was: and in the node it was before the solver replaced it                *)
(* root: the constants whose memory it is, and how that was reached         *)
(* written, emitted: the calls and assignments of the source, and of the    *)
(* code that is emitted for it                                              *)
Node(kind, ty) ==
    [kind |-> kind, ty |-> ty, name |-> None, val |-> 0, items |-> <<>>,
     ir |-> Bad, const |-> FALSE, slot |-> Bad, lets |-> FALSE, was |-> FALSE,
     root |-> {}, written |-> <<>>, emitted |-> <<>>]

(* A declaration: isLet(), its type, the literal that is its value, if     *)
(* any, and whose memory it names if it is an array.                       *)
Decl(let, ty, value, root) == [let |-> let, ty |-> ty, value |-> value, root |-> root]

NoValue == Node("Identifier", NoType)

isLiteral(e) == e.kind \in {"Number", "Array"}

Typed(e) == e.ty # NoType

Written(es) == FlattenSeq([i \in DOMAIN es |-> es[i].written])

Emissions(es) == FlattenSeq([i \in DOMAIN es |-> es[i].emitted])

AnyLets(es) == \E i \in DOMAIN es : es[i].lets

Folds(e) == e.kind = "Subscript" /\ e.items # <<>>

-----------------------------------------------------------------------------
(* What a body starts with *)

Fields == {"kind", "ty", "name", "val", "items", "ir", "const", "slot", "lets", "was",
           "root", "written", "emitted"}

IsNode(e) == e = [f \in Fields |-> e[f]]

Clean(root) == \A r \in root : r[2] # "element"

Origins(ds) == (DOMAIN ds) \X {"element", "copy", "alias"}

(* A node with its items in the set es, where ds is declared: the memory   *)
(* of a constant that is no copy is not reached but by its name, and the   *)
(* name says that it is a constant.                                        *)
Formed(ds, es, e) ==
    /\ IsNode(e)
    /\ e.val \in Nat /\ e.items \in Seq(es)
    /\ Folds(e) => Len(e.items) = 2 /\ e.items[1].kind = "Array"
    /\ e.root \subseteq Origins(ds)
    /\ (~e.lets \/ isLiteral(e) \/ Folds(e)) => Clean(e.root)
    /\ (e.kind = "Identifier" /\ Typed(e) /\ KindOf(e.ty) # "Func") =>
           e.name \in DOMAIN ds /\ ds[e.name].let = e.lets

(* A node that the code generator can handle: the LLVM types of its rvalue *)
(* and of its lvalue are those of its type, and its effects are emitted.   *)
Effect == {"store"} \union {Sig[i].name : i \in DOMAIN Sig}

Fits(e) ==
    /\ IsData(e.ty) \/ e.ty \in FunctionTypes
    /\ KindOf(e.ty) # "Func" => e.ir = Emitted(e.ty)
    /\ e.kind = "Identifier" =>
          /\ KindOf(e.ty) # "Func" => e.slot = Emitted(e.ty)
          /\ e.written = <<>>
    /\ e.kind = "Subscript" => e.slot = codegenType(e.ty)
    /\ e.const => e.kind \notin {"Identifier", "Subscript"}
    /\ e.kind = "Array" => \A i \in DOMAIN e.items : e.items[i].const
    /\ e.written \in Seq(Effect) /\ e.emitted = e.written

IsDecl(ds, es, d) ==
    /\ d = Decl(d.let, d.ty, d.value, d.root)
    /\ d.let \in BOOLEAN
    /\ d.root \subseteq Origins(ds)
    /\ ~d.let => Clean(d.root)
    /\ isLiteral(d.value) => d.value \in es

ASSUME ExprAssumption ==
    /\ Number \subseteq Nat /\ Returns \subseteq Repr
    /\ MaxStmts \in Nat /\ MaxItems \in Nat
    /\ Given = [n \in DOMAIN Given |-> Given[n]]
    /\ \A n \in DOMAIN Given : IsDecl(Given, Values, Given[n]) /\ IsData(Given[n].ty)
    /\ \A e \in Values : Formed(Given, Values, e) /\ Fits(e)

-----------------------------------------------------------------------------
(* ExprSolver: literals for constants, items for constant subscripts *)

solveIdentifierExpr(e) ==
    IF e.name \in DOMAIN decls /\ decls[e.name].let /\ isLiteral(decls[e.name].value)
    THEN [decls[e.name].value EXCEPT
            !.was = e.lets, !.root = {<<r[1], "copy">> : r \in e.root},
            !.written = <<>>]
    ELSE e

Length(e) == Len(e.items[1].items)

Index(e) == e.items[2].val

(* Values->count() < Idx->getValue(): the item at the length is read. *)
OutOfBounds(e) == Length(e) < Index(e)

PastTheEnd(e) == Folds(e) /\ Length(e) = Index(e)

solveSubscriptExpr(e) ==
    IF Folds(e) /\ Index(e) < Length(e)
    THEN [e.items[1].items[Index(e) + 1] EXCEPT
            !.was = e.lets, !.root = e.root, !.written = e.written]
    ELSE e

(* The operators are left alone: the dynamic_cast that should find number  *)
(* operands is applied to the operator's own node, and always fails.       *)
solveInfixExpr(e) == e

solvePrefixExpr(e) == e

(* ExprSolver::postWalkExpr *)
Solve(e) ==
    CASE e.kind = "Identifier" -> solveIdentifierExpr(e)
      [] e.kind = "Subscript" -> solveSubscriptExpr(e)
      [] e.kind = "Infix" -> solveInfixExpr(e)
      [] e.kind = "Prefix" -> solvePrefixExpr(e)
      [] OTHER -> e

(* The items that are left out are not evaluated, and those of a constant  *)
(* are evaluated at every mention of it.                                   *)
SolveOdd(e) ==
    {o \in {"past the end"} : PastTheEnd(e)}
    \union {o \in {"folded away"} : Folds(e) /\ Solve(e).emitted # e.written}
    \union {o \in {"replayed"} : e.kind = "Identifier" /\ Solve(e).emitted # <<>>}

-----------------------------------------------------------------------------
(* The control of the visitors *)

Top == frames[Len(frames)]

Rest == Front(frames)

Frame(kind) == [kind |-> kind, kids |-> <<>>, ty |-> None]

Statement == {"Expr", "Var", "Let", "Return", "Cond", "Range"}

Arity(kind) ==
    CASE kind \in {"InOut", "Paren", "Prefix", "Size", "Expr", "Var", "Let", "Return", "Cond"} -> 1
      [] kind \in {"Infix", "Assign", "Subscript", "Range"} -> 2
      [] kind = "Array" -> MaxItems
      [] kind = "Call" -> MaxItems + 1

(* PatternChecker::visitExprPattern: the items after the first without a   *)
(* type are not visited.                                                   *)
Pattern(f) == IF f.kind = "Call" THEN Tail(f.kids) ELSE f.kids

Stopped(f) ==
    /\ f.kind = "Array" \/ (f.kind = "Call" /\ f.kids # <<>>)
    /\ \E i \in DOMAIN Pattern(f) : ~Typed(Pattern(f)[i])

Running == sema = "ok" /\ irgen = "ok"

Visiting(kind) == Running /\ frames # <<>> /\ Top.kind = kind

Full(kind) == Visiting(kind) /\ Len(Top.kids) = Arity(kind)

(* The visitor of the innermost node comes to a child.  Bound: not in a    *)
(* body that is odd already, nor in a longer one with an error.            *)
Expects ==
    /\ Running /\ frames # <<>>
    /\ nodes < IF error THEN ErrNodes ELSE MaxNodes[frames[1].kind]
    /\ odd = {}
    /\ Len(Top.kids) < Arity(Top.kind) /\ ~Stopped(Top)

(* What is odd about the place of e in the frame f *)
PlaceOdd(f, e) ==
    {o \in {"function as value"} :
        KindOf(e.ty) = "Func" /\ ~(f.kind = "Paren" \/ (f.kind = "Call" /\ f.kids = <<>>))}

(* typeCheckExpr returns to the frames fs: v is what the visitor made of   *)
(* the node, whether it diagnosed an error, how it may end and what is     *)
(* odd.  The solver goes over a node that has a type, unless it is the     *)
(* destination of an assignment.                                           *)
Deliver(fs, v) ==
    LET f == fs[Len(fs)]
        e == v.node
        solved == Typed(e) /\ ~(f.kind = "Assign" /\ f.kids = <<>>)
        r == IF solved THEN Solve(e) ELSE e
    IN  /\ frames' = [fs EXCEPT ![Len(fs)].kids = Append(@, r)]
        /\ error' = (error \/ v.err \/ (solved /\ Folds(e) /\ OutOfBounds(e)))
        /\ sema' \in IF solved /\ PastTheEnd(e) THEN {"crash"} ELSE v.sema
        /\ odd' = odd \union v.odd \union PlaceOdd(f, r)
                      \union (IF solved THEN SolveOdd(e) ELSE {})

Verdict(e, err, oddities) ==
    [node |-> [e EXCEPT !.was = e.lets], err |-> err, sema |-> {"ok"}, odd |-> oddities]

Found(o, is) == IF is THEN {o} ELSE {}

-----------------------------------------------------------------------------
(* The visitors of ExprChecker, each with the emitter of the same node *)

NumberLiteralExpr(n) ==
    [Node("Number", IntTy) EXCEPT !.val = n, !.ir = IntTy, !.const = TRUE]

(* RValueEmitter::visitArrayLiteralExpr takes every item for a constant,   *)
(* and for the global variable of an array literal if it is a pointer.     *)
Initializer(e) == IF KindOf(e.ir) = "Ptr" THEN Pointee(e.ir) ELSE e.ir

ArrayIr(kids, ty) ==
    IF \A i \in DOMAIN kids :
        kids[i].const /\ Initializer(kids[i]) = codegenType(BaseOf(ty))
    THEN Emitted(ty) ELSE Bad

ArrayLiteralExpr(kids) ==
    LET ty == ArrayOf(kids[1].ty, Len(kids))
    IN  [Node("Array", ty) EXCEPT
            !.items = kids, !.ir = ArrayIr(kids, ty), !.const = (ArrayIr(kids, ty) # Bad),
            !.written = Written(kids), !.emitted = Emissions(kids)]

(* ExprChecker::visitArrayLiteralExpr: no error for items of mixed types;  *)
(* without a type, the pattern is null where getPatternType() asserts.     *)
visitArrayLiteralExpr(kids) ==
    IF kids = <<>> THEN Verdict(Node("Array", NoType), TRUE, {})
    ELSE IF \E i \in DOMAIN kids : ~Typed(kids[i])
    THEN [Verdict(Node("Array", NoType), FALSE, {"undefined item"})
            EXCEPT !.sema = {"ok", "crash"}]
    ELSE IF \E i \in DOMAIN kids : ~Equals(kids[1].ty, kids[i].ty)
    THEN Verdict(Node("Array", NoType), FALSE, {"mixed items"})
    ELSE Verdict(ArrayLiteralExpr(kids), FALSE,
                 Found("computed items", \E i \in DOMAIN kids : ~kids[i].const))

(* What the memory of a declaration holds: IRGenFunc::emitHeader for the   *)
(* parameters, GenFunc::declareValDecl for the variables                   *)
Slot(d) == Emitted(d.ty)

IdentifierExpr(n) ==
    LET d == decls[n]
        ty == IF KindOf(d.ty) = "InOut" THEN BaseOf(d.ty) ELSE d.ty
    IN  [Node("Identifier", ty) EXCEPT
            !.name = n, !.ir = Slot(d), !.slot = Slot(d),
            !.lets = d.let, !.root = d.root]

visitIdentifierExpr(n) ==
    IF n \in DOMAIN decls THEN Verdict(IdentifierExpr(n), FALSE, {})
    ELSE IF FuncNamed(n) # {}
    THEN Verdict([Node("Identifier", FuncOf(CHOOSE i \in FuncNamed(n) : TRUE))
                    EXCEPT !.name = n], FALSE, {})
    ELSE Verdict([Node("Identifier", NoType) EXCEPT !.name = n], TRUE, {})

(* The base gets another type, and stands for the whole expression. *)
visitInOutExpr(base) ==
    [node |-> IF isRefType(base.ty) /\ ~isLiteral(base)
              THEN [base EXCEPT !.ty = InOutOf(@)] ELSE base,
     err |-> isLiteral(base) \/ (Typed(base) /\ ~isRefType(base.ty)),
     sema |-> {"ok"}, odd |-> {}]

visitParenExpr(inner) == [node |-> inner, err |-> FALSE, sema |-> {"ok"}, odd |-> {}]

(* LValueEmitter: what the memory that e names holds.  The emitter comes   *)
(* to no other expressions, or stops.                                      *)
LValue(e) == IF e.kind \in {"Identifier", "Subscript"} THEN e.slot ELSE Bad

(* RValueEmitter::visitAssignExpr: the value is stored as it is. *)
AssignExpr(ty, dest, source) ==
    [Node("Assign", ty) EXCEPT
        !.ir = IF LValue(dest) # Bad /\ source.ir = LValue(dest) THEN source.ir ELSE Bad,
        !.const = source.const, !.lets = AnyLets(<<dest, source>>),
        !.root = source.root,
        !.written = dest.written \o source.written \o <<"store">>,
        !.emitted = dest.emitted \o source.emitted \o <<"store">>]

(* TypeChecker::ensureMutable looks for any constant in e; it diagnoses    *)
(* but does not stop.                                                      *)
Mutable(e) == ~e.lets

(* What makes visitAssignExpr go through *)
Assigns(dest, source) ==
    Typed(dest) /\ Typed(source) /\ ~isLiteral(dest) /\ Equals(dest.ty, source.ty)

(* Mutant: without TypeChecker::ensureMutable *)
visitAssignToAny(dest, source) ==
    LET assigns == Assigns(dest, source)
        d == IF assigns THEN Solve(dest) ELSE dest
    IN  [Verdict(AssignExpr(IF assigns THEN dest.ty ELSE NoType, d, source),
                 Typed(dest) /\ Typed(source) /\ ~assigns,
                 Found("stray target", d.kind \notin {"Identifier", "Subscript"}))
            EXCEPT !.sema = IF assigns /\ PastTheEnd(dest) THEN {"crash"} ELSE @]

(* Where the solver goes over the assignment, it goes over its destination *)
(* too, and may put something else in its place.                           *)
visitAssignExpr(dest, source) ==
    LET assigns == Assigns(dest, source)
        typed == Typed(dest) /\ Typed(source)
        d == IF assigns THEN Solve(dest) ELSE dest
    IN  [Verdict(AssignExpr(IF assigns THEN dest.ty ELSE NoType, d, source),
                 \/ typed /\ (~assigns \/ ~Mutable(dest))
                 \/ assigns /\ Folds(dest) /\ OutOfBounds(dest),
                 Found("stray target", d.kind \notin {"Identifier", "Subscript"})
                 \union Found("array element", d.kind = "Subscript" /\ isRefType(dest.ty))
                 \union Found("past the end", PastTheEnd(dest)))
            EXCEPT !.sema = IF assigns /\ PastTheEnd(dest) THEN {"crash"} ELSE @]

InfixExpr(ty, l, r) ==
    [Node("Infix", ty) EXCEPT
        !.ir = IF l.ir = IntTy /\ r.ir = IntTy THEN IntTy ELSE Bad,
        !.const = l.const /\ r.const, !.lets = AnyLets(<<l, r>>),
        !.written = l.written \o r.written, !.emitted = l.emitted \o r.emitted]

(* Mutant: the operands only have to be of one type *)
visitInfixOfEquals(l, r) ==
    LET equal == Typed(l) /\ Equals(l.ty, r.ty)
    IN  Verdict(InfixExpr(IF equal THEN l.ty ELSE NoType, l, r),
                Typed(l) /\ Typed(r) /\ ~equal, {})

visitInfixExpr(l, r) ==
    LET typed == Typed(l) /\ Typed(r)
        ints == Equals(l.ty, IntTy) /\ Equals(r.ty, IntTy)
    IN  Verdict(InfixExpr(IF ints THEN IntTy ELSE NoType, l, r), typed /\ ~ints, {})

PrefixExpr(ty, dest) ==
    [Node("Prefix", ty) EXCEPT
        !.ir = IF dest.ir = IntTy THEN IntTy ELSE Bad,
        !.const = dest.const, !.lets = dest.lets,
        !.written = dest.written, !.emitted = dest.emitted]

(* No error for an operand that is not an Int *)
visitPrefixExpr(dest) ==
    Verdict(PrefixExpr(IF KindOf(dest.ty) = "Int" THEN IntTy ELSE NoType, dest),
            FALSE, Found("prefix operand", KindOf(dest.ty) \notin {"Int", "null"}))

(* The types of the parameters and of the result that IRGenModule::        *)
(* declareFunc gives the LLVM function                                     *)
Declared(i) == Signature(Sig[i], Checked)

(* RValueEmitter::visitCallExpr: the callee is whatever has that name. *)
CallExpr(ty, i, callee, args) ==
    LET fits == /\ callee.kind = "Identifier"
                /\ Len(args) = Len(Declared(i).args)
                /\ \A k \in DOMAIN args : args[k].ir = Emitted(Declared(i).args[k])
    IN  [Node("Call", ty) EXCEPT
            !.ir = IF fits THEN Emitted(Declared(i).ret) ELSE Bad,
            !.lets = callee.lets \/ AnyLets(args),
            !.written = callee.written \o Written(args) \o <<Sig[i].name>>,
            !.emitted = Emissions(args) \o <<Sig[i].name>>]

ArgTypes(args) == [k \in DOMAIN args |-> args[k].ty]

(* Mutant: arguments without a type are compared like the others *)
visitCallOfUntyped(callee, args) ==
    LET i == callee.ty[1].n
        sig == FuncType(i)
        equal == ItemsEqual(sig.args, ArgTypes(args))
    IN  IF KindOf(callee.ty) # "Func"
        THEN Verdict(Node("Call", NoType), FALSE,
                     Found("callee no function", Typed(callee)))
        ELSE [Verdict(CallExpr(IF equal THEN sig.ret ELSE NoType, i, callee, args), ~equal,
                      Found("computed callee", callee.kind # "Identifier")
                      \union Found("unknown type", ~Resolves(sig))
                      \union Found("early call", sig # Declared(i)))
                EXCEPT !.sema = IF ItemsCrash(sig.args, ArgTypes(args)) THEN {"crash"} ELSE @]

visitCallExpr(callee, args) ==
    LET i == callee.ty[1].n
        sig == FuncType(i)
        equal == ItemsEqual(sig.args, ArgTypes(args))
    IN  IF KindOf(callee.ty) # "Func"
        THEN Verdict(Node("Call", NoType), FALSE,
                     Found("callee no function", Typed(callee)))
        ELSE IF \E k \in DOMAIN args : ~Typed(args[k])
        THEN Verdict(Node("Call", NoType), FALSE, {})
        ELSE [Verdict(CallExpr(IF equal THEN sig.ret ELSE NoType, i, callee, args), ~equal,
                      Found("computed callee", callee.kind # "Identifier")
                      \union Found("unknown type", ~Resolves(sig))
                      \union Found("early call", sig # Declared(i)))
                EXCEPT !.sema = IF ItemsCrash(sig.args, ArgTypes(args)) THEN {"crash"} ELSE @]

SubscriptExpr(ty, base, index) ==
    LET element == ElementOf(base.ir, index.ir)
    IN  [Node("Subscript", ty) EXCEPT
            !.items = IF base.kind = "Array" /\ index.kind = "Number"
                      THEN <<base, index>> ELSE <<>>,
            !.ir = IF element # Bad /\ isRefType(ty) THEN Pointer(element) ELSE element,
            !.slot = element, !.lets = base.lets, !.root = base.root,
            !.written = base.written \o index.written,
            !.emitted = base.emitted \o index.emitted]

(* The index is not asked for its type. *)
visitSubscriptExpr(base, index) ==
    IF KindOf(base.ty) # "Array"
    THEN Verdict(Node("Subscript", NoType), Typed(base), {})
    ELSE Verdict(SubscriptExpr(BaseOf(base.ty), base, index), FALSE,
                 Found("index type", ~Equals(index.ty, IntTy)))

-----------------------------------------------------------------------------
(* The visitors at work *)

outerVars == <<decls, stmts, last>>

(* A node without children *)
Leaf(v) ==
    /\ Expects
    /\ nodes' = nodes + 1
    /\ Deliver(frames, v)
    /\ UNCHANGED <<outerVars, irgen, mutated>>

VisitNumberLiteral(n) == Leaf(Verdict(NumberLiteralExpr(n), FALSE, {}))

VisitIdentifier(n) == Leaf(visitIdentifierExpr(n))

(* The visitor of a node that has children comes to the first of them. *)
Enter(kind) ==
    /\ Expects
    /\ nodes' = nodes + 1
    /\ Len(frames) < MaxDepth
    /\ frames' = Append(frames, Frame(kind))
    /\ UNCHANGED <<outerVars, error, sema, irgen, mutated, odd>>

Leave(v) ==
    /\ Deliver(Rest, v)
    /\ UNCHANGED <<outerVars, nodes, irgen>>

VisitArrayLiteral ==
    /\ Visiting("Array")
    /\ Leave(visitArrayLiteralExpr(Top.kids))
    /\ UNCHANGED mutated

VisitInOut ==
    /\ Full("InOut")
    /\ Leave(visitInOutExpr(Top.kids[1]))
    /\ UNCHANGED mutated

VisitParen ==
    /\ Full("Paren")
    /\ Leave(visitParenExpr(Top.kids[1]))
    /\ UNCHANGED mutated

(* The declarations whose memory an array value is *)
Alias(e) == IF isRefType(e.ty) THEN {<<r[1], "alias">> : r \in {q \in e.root : q[2] # "copy"}}
            ELSE {}

VisitAssign ==
    /\ Full("Assign")
    /\ LET dest == Top.kids[1]
           source == Top.kids[2]
       IN  /\ Deliver(Rest, visitAssignExpr(dest, source))
           /\ IF ~Assigns(dest, source) \/ KindOf(dest.ty) = "Func"
              THEN UNCHANGED <<decls, mutated>>
              ELSE IF dest.kind = "Identifier"
              THEN /\ mutated' = mutated \union {<<n, "slot">> : n \in {m \in {dest.name} : decls[m].let}}
                   /\ decls' = [decls EXCEPT ![dest.name].root = @ \union Alias(source)]
              ELSE mutated' = mutated \union dest.root /\ UNCHANGED decls
    /\ UNCHANGED <<stmts, last, nodes, irgen>>

VisitInfix ==
    /\ Full("Infix")
    /\ Leave(visitInfixExpr(Top.kids[1], Top.kids[2]))
    /\ UNCHANGED mutated

VisitPrefix ==
    /\ Full("Prefix")
    /\ Leave(visitPrefixExpr(Top.kids[1]))
    /\ UNCHANGED mutated

VisitCall ==
    /\ Visiting("Call") /\ Top.kids # <<>>
    /\ Leave(visitCallExpr(Head(Top.kids), Tail(Top.kids)))
    /\ mutated' = mutated \union
        {<<r[1], "inout">> : r \in UNION {e.root : e \in {a \in Range(Tail(Top.kids)) :
                                                         KindOf(a.ty) = "InOut"}}}

VisitSubscript ==
    /\ Full("Subscript")
    /\ Leave(visitSubscriptExpr(Top.kids[1], Top.kids[2]))
    /\ UNCHANGED mutated

-----------------------------------------------------------------------------
(* The statements *)

(* The code generator comes to the statement: fits says that what it emits *)
(* is well-typed.                                                          *)
Generate(fits) ==
    irgen' = IF ~error' /\ sema' = "ok" /\ ~fits THEN "bad" ELSE irgen

(* Bound: a body is not followed past a statement with an error or with    *)
(* something odd in it, nor past one that is not a declaration.            *)
Begin(kind, ty, err) ==
    /\ Running /\ frames = <<>> /\ stmts < MaxStmts
    /\ stmts > 0 => ~error /\ odd = {} /\ DOMAIN decls # DOMAIN Given
    /\ frames' = <<[Frame(kind) EXCEPT !.ty = ty]>>
    /\ error' = (error \/ err)
    /\ stmts' = stmts + 1
    /\ last' = [written |-> <<>>, emitted |-> <<>>]
    /\ UNCHANGED <<decls, nodes, sema, irgen, mutated, odd>>

BeginPlain == \E kind \in {"Expr", "Cond", "Range"} : Begin(kind, None, FALSE)

(* TypeReprChecker for the name of a type; `inout' is for parameters only. *)
BeginVarDecl ==
    \E kind \in {"Var", "Let"} :
        \/ Begin(kind, None, FALSE)
        \/ \E name \in {"Int", "Void", "Foo"} : Begin(kind, Named(name), Named(name) = NoType)
        \/ Begin(kind, NoType, TRUE)

(* The result type of this function, on which nothing before depends; it   *)
(* is an error if it has none.                                             *)
BeginReturn ==
    \E repr \in Returns : Begin("Return", Checked(repr), Checked(repr) = NoType)

(* TypeReprChecker::visitArrayTypeRepr, where the base has a type *)
EnterSize ==
    /\ Enter("Size")
    /\ Top.kind \in {"Var", "Let"} /\ Top.kids = <<>> /\ Top.ty \notin {None, NoType}

VisitArrayTypeRepr ==
    /\ Full("Size")
    /\ LET size == Top.kids[1]
           base == Rest[Len(Rest)].ty
           ty == IF size.kind = "Number" THEN WithSize(base, size.val) ELSE NoType
       IN  /\ frames' = [Rest EXCEPT ![Len(Rest)].ty = ty]
           /\ error' = (error \/ ty = NoType)
    /\ UNCHANGED <<outerVars, nodes, sema, irgen, mutated, odd>>

(* Mutant: the value of a constant is emitted at its mentions only *)
EndSkippingLets(es, emits, oddities) ==
    /\ frames' = <<>>
    /\ odd' = odd \union oddities
    /\ last' = [written |-> Written(es),
                emitted |-> IF emits /\ Top.kind # "Let" THEN Emissions(es) ELSE <<>>]
    /\ UNCHANGED <<nodes, stmts, mutated>>

(* The end of a statement, with what its expressions do and what is odd *)
End(es, emits, oddities) ==
    /\ frames' = <<>>
    /\ odd' = odd \union oddities
    /\ last' = [written |-> Written(es), emitted |-> IF emits THEN Emissions(es) ELSE <<>>]
    /\ UNCHANGED <<nodes, stmts, mutated>>

VisitExprStmt ==
    /\ Full("Expr")
    /\ End(Top.kids, TRUE, {})
    /\ UNCHANGED <<decls, error, sema>>
    /\ Generate(Top.kids[1].ir # Bad)

(* DeclChecker::visitVarDecl and GenFunc::declareValDecl *)
DeclaresVar(f, ty) ==
    /\ ty \notin {None, NoType}
    /\ f.kids = <<>> => f.kind = "Var"
    /\ f.kids # <<>> => (f.ty \in {None, NoType} \/ Equals(f.ty, ty))
                      /\ (f.ty = None => isValueType(ty))

KeepsConstant(f) ==
    f.kind = "Let" /\ f.kids # <<>> /\ isRefType(f.kids[1].ty) => ~f.kids[1].was

Declare(n, d) == [m \in DOMAIN decls \union {n} |-> IF m = n THEN d ELSE decls[m]]

VisitVarDecl(n) ==
    /\ Running /\ frames # <<>> /\ Top.kind \in {"Var", "Let"}
    /\ LET f == Top
           value == IF f.kids = <<>> THEN NoValue ELSE f.kids[1]
           ty == IF f.kids = <<>> THEN f.ty ELSE value.ty
           declares == DeclaresVar(f, ty)
           root == IF f.kind = "Let" /\ isRefType(ty) THEN {<<n, "element">>} ELSE {}
       IN  /\ End(f.kids, TRUE, Found("void variable", declares /\ isVoidType(ty)))
           /\ error' = \/ error
                       \/ declares /\ (n \in DOMAIN decls \/ ~KeepsConstant(f))
                       \/ ~declares /\ (f.kids # <<>> => Typed(value))
           /\ decls' = IF declares /\ n \notin DOMAIN decls
                       THEN Declare(n, Decl(f.kind = "Let", ty, value, root \union Alias(value)))
                       ELSE decls
           /\ UNCHANGED sema
           /\ Generate(/\ declares /\ ~isVoidType(ty)
                       /\ f.kids # <<>> => value.ir = Emitted(ty))

(* Mutant: any return statement may be empty *)
MissesNothing(kids, ret) == FALSE

(* StmtChecker::visitReturnStmt: only a function without result returns no *)
(* value.                                                                  *)
MissesValue(kids, ret) == kids = <<>> /\ ~isVoidType(ret)

(* StmtChecker::visitReturnStmt: the types are compared, but nothing is    *)
(* made of the result.  GenFunc::visitReturnStmt, IRGenFunc::setRetVal     *)
VisitReturn ==
    /\ Running /\ frames # <<>> /\ Top.kind = "Return"
    /\ LET kids == Top.kids
           ret == Top.ty
           typed == kids # <<>> /\ Typed(kids[1])
       IN  /\ End(kids, ~isVoidType(ret),
                  Found("return type", typed /\ ~Equals(ret, kids[1].ty))
                  \union Found("void return", isVoidType(ret) /\ Written(kids) # <<>>)
                  \union Found("unknown result", ret = NoType))
           /\ error' = (error \/ MissesValue(kids, ret))
           /\ sema' = IF (kids = <<>> \/ typed) /\ ret = NoType THEN "crash" ELSE "ok"
           /\ Generate(isVoidType(ret) \/ (kids # <<>> /\ kids[1].ir = Emitted(ret)))
    /\ UNCHANGED decls

(* The condition of an if or a while: emitCond compares it with the Int 0. *)
VisitCond ==
    /\ Full("Cond")
    /\ End(Top.kids, TRUE, Found("condition type", ~Equals(Top.kids[1].ty, IntTy)))
    /\ UNCHANGED <<decls, error, sema>>
    /\ Generate(Top.kids[1].ir = IntTy)

(* StmtChecker::visitRangeStmt, RangeIterator: a call of the runtime *)
VisitRange ==
    /\ Full("Range")
    /\ LET start == Top.kids[1]
           end == Top.kids[2]
       IN  /\ End(Top.kids, TRUE,
                  Found("range type", {start.ty, end.ty} # {IntTy})
                  \union Found("undefined range", ~Typed(start) \/ ~Typed(end)))
           /\ sema' = IF EqualsCrashes(start.ty, end.ty) THEN "crash" ELSE "ok"
           /\ UNCHANGED <<decls, error>>
           /\ Generate(start.ir = IntTy /\ end.ir = IntTy)

-----------------------------------------------------------------------------
Init ==
    /\ decls = Given
    /\ frames = <<>> /\ nodes = 0 /\ stmts = 0
    /\ error = FALSE /\ sema = "ok" /\ irgen = "ok"
    /\ last = [written |-> <<>>, emitted |-> <<>>]
    /\ mutated = {} /\ odd = {}

Names == DOMAIN Given \union Local \union {Undeclared} \union {Sig[i].name : i \in DOMAIN Sig}

Next ==
    \/ \E n \in Number : VisitNumberLiteral(n)
    \/ \E n \in Names : VisitIdentifier(n)
    \/ \E kind \in {"Array", "InOut", "Paren", "Assign", "Infix", "Prefix", "Call", "Subscript"} :
        Enter(kind)
    \/ VisitArrayLiteral \/ VisitInOut \/ VisitParen \/ VisitAssign \/ VisitInfix
    \/ VisitPrefix \/ VisitCall \/ VisitSubscript
    \/ BeginPlain \/ BeginVarDecl \/ BeginReturn
    \/ EnterSize \/ VisitArrayTypeRepr
    \/ VisitExprStmt
    \/ \E n \in Local : VisitVarDecl(n)
    \/ VisitReturn \/ VisitCond \/ VisitRange

Spec == Init /\ [][Next]_vars

-----------------------------------------------------------------------------
(* The type checker accepts the body so far, and there is nothing in it    *)
(* that it would accept but the code generator cannot handle.              *)
Accepted == ~error /\ sema = "ok" /\ odd = {}

TypeOK ==
    /\ error \in BOOLEAN
    /\ DOMAIN Given \subseteq DOMAIN decls /\ DOMAIN decls \subseteq DOMAIN Given \union Local
    /\ \A i \in DOMAIN frames : (i = 1) <=> (frames[i].kind \in Statement)
    /\ \A i \in DOMAIN frames : Len(frames[i].kids) <= Arity(frames[i].kind)
    /\ nodes \in Nat /\ stmts \in 0 .. MaxStmts
    /\ sema \in {"ok", "crash"} /\ irgen \in {"ok", "bad"}
    /\ mutated \subseteq (DOMAIN decls) \X {"slot", "element", "copy", "alias", "inout"}
    /\ odd \subseteq Odd

(* In an accepted body every expression has a type, and what the code      *)
(* generator emits for it is a value of the LLVM type that stands for that *)
(* type: wherever the type checker compared types, the instructions that   *)
(* are emitted agree.  Functions have no value.                            *)
WellTyped ==
    /\ TypeOK
    /\ Accepted =>
        \A i \in DOMAIN frames, j \in 1 .. MaxItems + 1 :
            j \in DOMAIN frames[i].kids =>
                LET e == frames[i].kids[j]
                IN  /\ Typed(e)
                    /\ KindOf(e.ty) = "Func" \/ e.ir = Emitted(e.ty)

(* The code generator comes through what the type checker accepted. *)
Sound == Accepted => irgen = "ok"

(* The type checker comes through everything else, errors or not. *)
Survives == odd = {} => sema = "ok"

(* The calls and assignments that are emitted for a statement are those of *)
(* its source, each once and in the order of the source, whatever the      *)
(* solver made of the expressions.                                         *)
EffectsKept == Accepted => last.emitted = last.written

(* The memory of a constant is not written by its own name: no store to a  *)
(* constant, nor to an element of one, unless that is an array literal of  *)
(* which every mention is a copy.                                          *)
ConstantsKept == Accepted => \A m \in mutated : m[2] \notin {"slot", "element"}

=============================================================================
