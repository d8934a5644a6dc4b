------------------------------- MODULE Binding -------------------------------
(***************************************************************************)
(* What the names of a module mean to the two passes that ask: the type    *)
(* checker (lib/Sema) and the code generator (lib/IRGen).  Each walks the  *)
(* AST with a symbol table of its own, opens scopes where it thinks fit    *)
(* and resolves every mention of a name by itself; nothing passes from one *)
(* to the other but the AST and the verdict that it has no error.          *)
(*                                                                         *)
(* A behaviour is the AST of some module, node by node in source order,    *)
(* with both passes side by side at the node: they share no state, so the  *)
(* order between them is immaterial, and the code generator stops counting *)
(* (see Generate) as soon as the type checker finds an error.  What was    *)
(* visited so far can always be completed to a module without an error by  *)
(* closing the open statements, so whatever happens to the code generator  *)
(* here happens to it in the compilation of that module.                   *)
(*                                                                         *)
(* All values are Ints; arrays, argument lists and operators are not here, *)
(* an expression is a literal, a mention, a call or an assignment.         *)
(***************************************************************************)
EXTENDS LookupChain

CONSTANTS
    Var,        \* declarations with `var'
    Let,        \* declarations with `let', parameters and iterators
    Func,       \* function declarations
    Literal,    \* the expression that mentions no name
    None,       \* the expression or parameter that is not there
    MaxFuncs,   \* bound: functions of the module
    MaxFrames,  \* bound: statements open at a time
    ErrFrames,  \* bound: statements open after an error; the compilation
                \* is not followed where more are open
    Odd         \* which of the modules are compiled that this code is not
                \* prepared for, see below

Value == Var \union Let

OddModules ==
    {"self-init",          \* a local initialiser mentions the name it initialises
     "self-range",         \* a range mentions the name of its iterator
     "untyped-range",      \* a range starts with an undefined name
     "own-layer",          \* a block redeclares its parameter or iterator
     "function-as-value",  \* the name of a function is used as a value
     "value-as-callee",    \* a variable is called
     "global-init",        \* the value of a global is a variable
     "redefined-function",
     "top-control",        \* a control statement outside of a function
     "top-return"}         \* a return outside of a function

ASSUME DeclAssumption ==
    /\ \A d \in Value \union Func : NameOf(d) \in Name
    /\ Value \intersect Func = {}
    /\ NoDecl \notin Value \union Func
    /\ {Literal, None} \intersect Name = {} /\ Literal # None
    /\ None \notin Value
    /\ MaxFuncs \in Nat /\ MaxFrames \in Nat /\ ErrFrames \in Nat
    /\ Odd \subseteq OddModules

VARIABLES
    funcs,     \* the functions of the module, in order
    next,      \* the one to visit next; 0 before the forward declarations
    frames,    \* the statements that are open, innermost last
    seen,      \* the values declared so far
    sF, sl,    \* TypeChecker::Lookup: functions, layers
    scopes,    \* TypeChecker::ASTScope and its parents
    literals,  \* the constants whose value is a literal
    error,     \* ASTContext::isError()
    sema,      \* "ok", or how the type checker crashed
    gF, gl,    \* IRGenModule::Lookup: functions, layers
    vals,      \* the keys of IRGenModule::Vals
    loops,     \* IRGenFunc::LoopStack
    irgen,     \* "ok", or how the code generator crashed
    refs,      \* the mentions both passes resolved in the last step: pairs
    stored     \* the declaration whose storage the last step wrote

astVars == <<funcs, next, frames, seen>>

semaVars == <<sF, sl, scopes, literals, error, sema>>

genVars == <<gF, gl, vals, loops, irgen, refs, stored>>

vars == <<astVars, semaVars, genVars>>

-----------------------------------------------------------------------------
(* The type checker's view *)

Mention == Name \union {Literal}

(* ExprChecker::visitIdentifierExpr: a value, else a function *)
Resolve(ls, n) ==
    IF ImplGet(ls, Len(ls), n) # NoDecl THEN ImplGet(ls, Len(ls), n) ELSE sF[n]

Undefined(ls, m) == m # Literal /\ Resolve(ls, m) = NoDecl

IsFunction(ls, m) == m # Literal /\ Resolve(ls, m) \in Func

(* ExprSolver puts the value of a constant in place of its name. *)
Solved(ls, m) == m = Literal \/ Resolve(ls, m) \in literals

(* The mentions that are left for the code generator, with what the type *)
(* checker takes them for                                                *)
Left(ls, ms) == {<<n, Resolve(ls, n)>> : n \in {m \in ms : ~Solved(ls, m)}}

(* Scope(Parent, Flags): what is asked of a scope is whether it is, or is *)
(* within, a function and a loop.                                         *)
PushScope(ss, flags) ==
    LET parent == ss[Len(ss)]
    IN  Append(ss, [flags |-> flags,
                    fnParent |-> "fn" \in parent.flags \/ parent.fnParent,
                    breakParent |-> "break" \in parent.flags \/ parent.breakParent])

Within(flag, scope) ==
    flag \in scope.flags
    \/ IF flag = "fn" THEN scope.fnParent ELSE scope.breakParent

-----------------------------------------------------------------------------
(* The code generator's view *)

(* IRGenModule::getVal: the storage of the declaration, else a global *)
(* variable of that name                                              *)
Address(ls, n) ==
    LET d == ImplGet(ls, Len(ls), n)
    IN  IF d \in vals THEN d ELSE ls[1].Vars[n]

(* The node is not in a function whose body visitFuncStmt skips, and the *)
(* code generator comes this far.                                        *)
Generating ==
    /\ ~error' /\ sema' = "ok" /\ irgen = "ok"
    /\ \A i \in 1 .. Len(frames) : frames[i].kind # "local-func"

Generate(Gen) ==
    /\ UNCHANGED gF
    /\ IF Generating THEN Gen
       ELSE /\ refs' = {} /\ stored' = NoDecl
            /\ UNCHANGED <<gl, vals, loops, irgen>>

(* The mentions are loaded: an Address that is null brings LLVM down. *)
Loaded(ls, left) == {<<p[2], Address(ls, p[1])>> : p \in left}

AllFound(rs) == \A r \in rs : r[2] # NoDecl

Load(ls, left) ==
    /\ refs' = Loaded(ls, left)
    /\ irgen' = IF AllFound(refs') THEN irgen ELSE "no-address"
    /\ stored' = NoDecl

(* codegenModule handles values and functions only. *)
LoadInFunction(ls, left) ==
    IF frames = <<>>
    THEN refs' = {} /\ stored' = NoDecl /\ irgen' = "unexpected-node"
    ELSE Load(ls, left)

-----------------------------------------------------------------------------
FuncLists == UNION {[1 .. k -> Func] : k \in 0 .. MaxFuncs}

Distinct(k) ==
    \A i, j \in 1 .. k : NameOf(funcs[i]) = NameOf(funcs[j]) => i = j

Init ==
    /\ funcs \in FuncLists
    /\ \A i, j \in 1 .. Len(funcs) : funcs[i] = funcs[j] => i = j
    /\ Distinct(Len(funcs)) \/ "redefined-function" \in Odd
    /\ next = 0 /\ frames = <<>> /\ seen = {}
    /\ sF = NoDecls /\ sl = <<EmptyLayer>>
    /\ scopes = <<[flags |-> {}, fnParent |-> FALSE, breakParent |-> FALSE]>>
    /\ literals = {} /\ error = FALSE /\ sema = "ok"
    /\ gF = NoDecls /\ gl = <<EmptyLayer>> /\ vals = {} /\ loops = <<>>
    /\ irgen = "ok" /\ refs = {} /\ stored = NoDecl

(* The functions before the first redefinition, where FwdDeclarator ends *)
(* its walk                                                              *)
Forward ==
    CHOOSE k \in 0 .. Len(funcs) :
        Distinct(k) /\ (k = Len(funcs) \/ ~Distinct(k + 1))

FuncTable(k) ==
    [n \in Name |->
        IF \E i \in 1 .. k : NameOf(funcs[i]) = n
        THEN funcs[CHOOSE i \in 1 .. k : NameOf(funcs[i]) = n]
        ELSE NoDecl]

(* Sema::declareFuncs, which diagnoses a redefinition without setError, *)
(* and the FuncDeclarator of genModule, for which it is unreachable     *)
DeclareFuncs ==
    /\ next = 0
    /\ next' = 1
    /\ sF' = FuncTable(Forward)
    /\ gF' = FuncTable(Forward)
    /\ irgen' = IF Forward < Len(funcs) THEN "redefinition" ELSE irgen
    /\ UNCHANGED <<funcs, frames, seen, sl, scopes, literals, error, sema,
                   gl, vals, loops, refs, stored>>

Visiting == next # 0 /\ sema = "ok" /\ (error => Len(frames) <= ErrFrames)

(* A mention of a function as a value is let through. *)
Uses(ls, ms) ==
    "function-as-value" \in Odd \/ \A m \in ms : ~IsFunction(ls, m)

Silent == refs' = {} /\ stored' = NoDecl /\ irgen' = irgen

-----------------------------------------------------------------------------
(* Declarations *)

SemaVarDecl(d, init) ==
    LET typed == IF init = None THEN d \in Var
                 ELSE ~Undefined(sl, init) /\ ~IsFunction(sl, init)
        refused == Refused(sl, sF, NameOf(d))
    IN  /\ sl' = IF typed THEN WithVar(sl, sF, d) ELSE sl
        /\ error' = (error \/ ~typed \/ refused)
        /\ literals' = IF typed /\ ~refused /\ d \in Let /\ Solved(sl, init)
                       THEN literals \union {d} ELSE literals
        /\ UNCHANGED <<sF, scopes, sema>>

(* codegenValDecl, for globals *)
GenGlobal(left) ==
    /\ refs' = {} /\ stored' = NoDecl
    /\ irgen' = IF left = {} THEN irgen ELSE "not-a-constant"

(* GenFunc::declareValDecl: the name is declared before the value is       *)
(* emitted, the storage is known after it, and nobody looks at what        *)
(* declareVar returned.                                                    *)
GenValDecl(d, left) ==
    /\ gl' = WithVar(gl, gF, d)
    /\ IF frames = <<>> THEN GenGlobal(left) ELSE Load(gl', left)
    /\ vals' = vals \union {d}
    /\ UNCHANGED loops

VisitVarDecl(d, init) ==
    /\ Visiting /\ d \in Value \ seen
    /\ init = NameOf(d) /\ frames # <<>> /\ ~Solved(sl, init)
        => "self-init" \in Odd
    /\ init \in Name /\ frames = <<>> /\ ~Solved(sl, init)
        => "global-init" \in Odd
    /\ frames # <<>> /\ sl[Len(sl) - 1].Vars[NameOf(d)] # NoDecl
        => "own-layer" \in Odd
    /\ seen' = seen \union {d}
    /\ SemaVarDecl(d, init)
    /\ Generate(GenValDecl(d, IF init = None THEN {} ELSE Left(sl, {init})))
    /\ UNCHANGED <<funcs, next, frames>>

-----------------------------------------------------------------------------
(* Expression statements.  Outside of functions they are an error. *)

SemaExpr(bad) ==
    /\ error' = (error \/ frames = <<>> \/ bad)
    /\ UNCHANGED <<sF, sl, scopes, literals, sema>>

VisitUse(n) ==
    /\ Visiting
    /\ Uses(sl, {n})
    /\ SemaExpr(Undefined(sl, n))
    /\ Generate(Load(gl, Left(sl, {n})) /\ UNCHANGED <<gl, vals, loops>>)
    /\ UNCHANGED astVars

(* The callee is the function the module has under that name. *)
GenCall(n) ==
    /\ refs' = {<<Resolve(sl, n), gF[n]>>}
    /\ irgen' = IF gF[n] = NoDecl THEN "no-callee" ELSE irgen
    /\ stored' = NoDecl
    /\ UNCHANGED <<gl, vals, loops>>

(* A callee that is no function is not diagnosed. *)
VisitCall(n) ==
    /\ Visiting
    /\ Resolve(sl, n) \in Value => "value-as-callee" \in Odd
    /\ SemaExpr(Undefined(sl, n))
    /\ Generate(GenCall(n))
    /\ UNCHANGED astVars

(* Mutant: ensureMutable is not asked *)
AssignableAny(n, m) == IsFunction(sl, n) = IsFunction(sl, m)

(* visitAssignExpr with ensureMutable: neither a constant nor another type *)
Assignable(n, m) ==
    Resolve(sl, n) \notin Let /\ IsFunction(sl, n) = IsFunction(sl, m)

GenAssign(n, m) ==
    /\ refs' = Loaded(gl, {<<n, Resolve(sl, n)>>} \union Left(sl, {m}))
    /\ irgen' = IF AllFound(refs') THEN irgen ELSE "no-address"
    /\ stored' = Address(gl, n)
    /\ UNCHANGED <<gl, vals, loops>>

VisitAssign(n, m) ==
    /\ Visiting
    /\ IsFunction(sl, n) /\ IsFunction(sl, m) => "function-as-value" \in Odd
    /\ SemaExpr(Undefined(sl, n) \/ Undefined(sl, m) \/ ~Assignable(n, m))
    /\ Generate(GenAssign(n, m))
    /\ UNCHANGED astVars

-----------------------------------------------------------------------------
(* Jumps *)

(* Mutant: any block will do *)
MayBreakInBlock == Len(scopes) > 1

MayBreak == Within("break", scopes[Len(scopes)])

GenBreak ==
    /\ refs' = {} /\ stored' = NoDecl
    /\ irgen' = IF frames = <<>> THEN "unexpected-node"
                ELSE IF loops = <<>> THEN "no-loop" ELSE irgen
    /\ UNCHANGED <<gl, vals, loops>>

VisitBreak ==
    /\ Visiting
    /\ error' = (error \/ ~MayBreak)
    /\ UNCHANGED <<astVars, sF, sl, scopes, literals, sema>>
    /\ Generate(GenBreak)

(* The function a return belongs to: getFnParent() *)
IsFuncFrame(f) == f.kind \in {"func", "local-func"}

InVoid ==
    LET fs == {i \in 1 .. Len(frames) : IsFuncFrame(frames[i])}
    IN  frames[CHOOSE i \in fs : \A j \in fs : j <= i].void

(* Outside of functions the return is diagnosed, but getFnParent() is *)
(* dereferenced all the same.                                         *)
VisitReturnAtTop ==
    /\ Visiting /\ "top-return" \in Odd
    /\ ~Within("fn", scopes[Len(scopes)])
    /\ error' = TRUE
    /\ sema' = "no-function"
    /\ Generate(Silent /\ UNCHANGED <<gl, vals, loops>>)
    /\ UNCHANGED <<astVars, sF, sl, scopes, literals>>

GenReturn(m) ==
    /\ IF InVoid THEN Silent ELSE Load(gl, Left(sl, {m}))
    /\ UNCHANGED <<gl, vals, loops>>

VisitReturn(m) ==
    /\ Visiting
    /\ Within("fn", scopes[Len(scopes)])
    /\ m # None => Uses(sl, {m})
    /\ error' = (error \/ IF m = None THEN ~InVoid ELSE Undefined(sl, m))
    /\ UNCHANGED <<astVars, sF, sl, scopes, literals, sema>>
    /\ Generate(GenReturn(m))

-----------------------------------------------------------------------------
(* Statements with blocks.  The type checker opens a layer for the         *)
(* statement and one for its block; the code generator has one for both.   *)

MayOpen == Visiting /\ Len(frames) < MaxFrames

MayOpenControl == MayOpen /\ (frames = <<>> => "top-control" \in Odd)

OpenFrame(kind, void) ==
    frames' = Append(frames, [kind |-> kind, void |-> void])

ReplaceFrame(kind) == frames' = [frames EXCEPT ![Len(frames)].kind = kind]

CloseFrame == frames' = SubSeq(frames, 1, Len(frames) - 1)

TopFrame == frames[Len(frames)].kind

(* A statement with these flags whose own layer makes ls, and its block *)
SemaOpen(flags, ls) ==
    /\ sl' = Push(ls)
    /\ scopes' = PushScope(PushScope(scopes, flags), {"block"})
    /\ UNCHANGED <<sF, literals>>

SemaClose ==
    /\ sl' = Pop(Pop(sl))
    /\ scopes' = SubSeq(scopes, 1, Len(scopes) - 2)
    /\ UNCHANGED <<sF, literals, error, sema>>

(* The parameter p, if there is one, in a new layer *)
WithParam(ls, F, p) == IF p = None THEN Push(ls) ELSE WithVar(Push(ls), F, p)

SemaFuncStmt(p) ==
    /\ SemaOpen({"fn"}, WithParam(sl, sF, p))
    /\ error' = (error \/ (p # None /\ Refused(Push(sl), sF, NameOf(p))))
    /\ UNCHANGED sema

Declare(p) == seen' = IF p = None THEN seen ELSE seen \union {p}

(* The constructor of IRGenFunc, which has a LoopStack of its own *)
GenFuncHeader(p) ==
    /\ gl' = WithParam(gl, gF, p)
    /\ vals' = IF p = None THEN vals ELSE vals \union {p}
    /\ loops' = <<>>
    /\ Silent

(* visitFuncStmt; codegenFuncStmt *)
OpenFunc(p, void) ==
    /\ MayOpen /\ frames = <<>> /\ next <= Len(funcs)
    /\ p \notin seen
    /\ next' = next + 1
    /\ OpenFrame("func", void)
    /\ Declare(p)
    /\ SemaFuncStmt(p)
    /\ Generate(GenFuncHeader(p))
    /\ UNCHANGED funcs

(* A function in a function or in another statement: no one has declared *)
(* it, and the code generator does not go into it.                       *)
OpenLocalFunc(p, void) ==
    /\ MayOpen /\ frames # <<>>
    /\ p \notin seen
    /\ OpenFrame("local-func", void)
    /\ Declare(p)
    /\ SemaFuncStmt(p)
    /\ Generate(Silent /\ UNCHANGED <<gl, vals, loops>>)
    /\ UNCHANGED <<funcs, next>>

GenIf(left) ==
    /\ LoadInFunction(gl, left)
    /\ gl' = Push(gl)
    /\ UNCHANGED <<vals, loops>>

OpenIf(m) ==
    /\ MayOpenControl
    /\ Uses(sl, {m})
    /\ OpenFrame("if", FALSE)
    /\ SemaOpen({"control"}, Push(sl))
    /\ error' = (error \/ Undefined(sl, m))
    /\ UNCHANGED <<funcs, next, seen, sema>>
    /\ Generate(GenIf(Left(sl, {m})))

(* One block ends and another one begins. *)
NextBlock(ls) == Push(Pop(ls))

VisitElse ==
    /\ Visiting /\ frames # <<>> /\ TopFrame = "if"
    /\ ReplaceFrame("else")
    /\ sl' = NextBlock(sl)
    /\ UNCHANGED <<funcs, next, seen, sF, scopes, literals, error, sema>>
    /\ Generate(Silent /\ gl' = NextBlock(gl) /\ UNCHANGED <<vals, loops>>)

(* Mutant: the layer of the branch stays open *)
GenCloseIfOpen == Silent /\ UNCHANGED <<gl, vals, loops>>

GenCloseIf == Silent /\ gl' = Pop(gl) /\ UNCHANGED <<vals, loops>>

CloseIf ==
    /\ Visiting /\ frames # <<>> /\ TopFrame \in {"if", "else"}
    /\ CloseFrame
    /\ SemaClose
    /\ Generate(GenCloseIf)
    /\ UNCHANGED <<funcs, next, seen>>

GenWhile(left) ==
    /\ gl' = Push(gl)
    /\ LoadInFunction(gl', left)
    /\ loops' = Append(loops, Len(frames) + 1)
    /\ UNCHANGED vals

OpenWhile(m) ==
    /\ MayOpenControl
    /\ Uses(sl, {m})
    /\ OpenFrame("while", FALSE)
    /\ SemaOpen({"break", "control"}, Push(sl))
    /\ error' = (error \/ Undefined(sl, m))
    /\ UNCHANGED <<funcs, next, seen, sema>>
    /\ Generate(GenWhile(Left(sl, {m})))

(* The type checker declares the iterator, which has no type yet, before   *)
(* it comes to the range and asks the start for its type; the code         *)
(* generator evaluates the range first and asserts that the iterator can   *)
(* be declared.                                                            *)
SemaForStmt(it, start, end) ==
    LET ls == WithVar(Push(sl), sF, it)
        typed == ~Undefined(ls, start) /\ (start # Literal => Resolve(ls, start) # it)
    IN  /\ SemaOpen({"break", "control"}, ls)
        /\ error' = (error \/ Refused(Push(sl), sF, NameOf(it))
                           \/ Undefined(ls, start) \/ Undefined(ls, end))
        /\ sema' = IF typed THEN sema ELSE "no-type"

(* Mutant: the iterator is declared before the loop's layer is pushed *)
GenForAround(it, left) ==
    /\ gl' = Push(WithVar(gl, gF, it))
    /\ vals' = vals \union {it}
    /\ loops' = Append(loops, Len(frames) + 1)
    /\ LoadInFunction(Push(gl), left)

GenForStmt(it, left) ==
    /\ gl' = WithVar(Push(gl), gF, it)
    /\ vals' = vals \union {it}
    /\ loops' = Append(loops, Len(frames) + 1)
    /\ LoadInFunction(Push(gl), left)

OpenFor(it, start, end) ==
    LET ls == WithVar(Push(sl), sF, it)
    IN  /\ MayOpenControl
        /\ it \in Let \ seen
        /\ Uses(ls, {start, end})
        /\ NameOf(it) \in {start, end} => "self-range" \in Odd
        /\ Undefined(ls, start) => "untyped-range" \in Odd
        /\ OpenFrame("for", FALSE)
        /\ Declare(it)
        /\ SemaForStmt(it, start, end)
        /\ Generate(GenForStmt(it, Left(ls, {start, end})))
        /\ UNCHANGED <<funcs, next>>

CloseLoop ==
    /\ Visiting /\ frames # <<>> /\ TopFrame \in {"while", "for"}
    /\ CloseFrame
    /\ SemaClose
    /\ Generate(Silent /\ gl' = Pop(gl) /\ loops' = Pop(loops) /\ UNCHANGED vals)
    /\ UNCHANGED <<funcs, next, seen>>

(* The end of visitFuncStmt; IRGenFunc::emitRet *)
CloseFunc ==
    /\ Visiting /\ frames # <<>> /\ TopFrame \in {"func", "local-func"}
    /\ CloseFrame
    /\ SemaClose
    /\ Generate(Silent /\ gl' = Pop(gl) /\ UNCHANGED <<vals, loops>>)
    /\ UNCHANGED <<funcs, next, seen>>

Next ==
    \/ DeclareFuncs
    \/ \E d \in Value, init \in Mention \union {None} : VisitVarDecl(d, init)
    \/ \E n \in Name : VisitUse(n) \/ VisitCall(n)
    \/ \E n \in Name, m \in Mention : VisitAssign(n, m)
    \/ VisitBreak
    \/ VisitReturnAtTop
    \/ \E m \in Mention \union {None} : VisitReturn(m)
    \/ \E p \in Let \union {None}, void \in BOOLEAN :
        OpenFunc(p, void) \/ OpenLocalFunc(p, void)
    \/ \E m \in Mention : OpenIf(m) \/ OpenWhile(m)
    \/ \E it \in Let, start, end \in Mention : OpenFor(it, start, end)
    \/ VisitElse
    \/ CloseIf
    \/ CloseLoop
    \/ CloseFunc

Spec == Init /\ [][Next]_vars

-----------------------------------------------------------------------------
(* Both tables hold declared values under their names, and both passes are *)
(* in the scopes their statements ask for.                                 *)
Layer == [Vars : [Name -> Value \union {NoDecl}],
          Consts : [Name -> {NoDecl}]]

Chain(ls) ==
    /\ ls \in Seq(Layer)
    /\ \A i \in 1 .. Len(ls), n \in Name :
        ls[i].Vars[n] \in {d \in seen : NameOf(d) = n} \union {NoDecl}

Frame == [kind : {"func", "local-func", "if", "else", "while", "for"}, void : BOOLEAN]

(* The frames the code generator is in: it skips local functions. *)
GenDepth ==
    LET skipped == {i \in 1 .. Len(frames) : frames[i].kind = "local-func"}
    IN  IF skipped = {} THEN Len(frames)
        ELSE (CHOOSE i \in skipped : \A j \in skipped : i <= j) - 1

Accepted == ~error /\ sema = "ok"

TypeOK ==
    /\ funcs \in FuncLists /\ next \in 0 .. Len(funcs) + 1
    /\ frames \in Seq(Frame) /\ Len(frames) <= MaxFrames
    /\ seen \subseteq Value
    /\ Chain(sl) /\ Chain(gl)
    /\ Len(sl) = 2 * Len(frames) + 1 /\ Len(scopes) = Len(sl)
    /\ Accepted /\ irgen = "ok" => Len(gl) = GenDepth + 1
    /\ {sF, gF} \subseteq [Name -> Func \union {NoDecl}]
    /\ literals \subseteq seen \intersect Let
    /\ error \in BOOLEAN
    /\ sema \in {"ok", "no-type", "no-function"}
    /\ vals \subseteq seen
    /\ loops \in Seq(1 .. MaxFrames)
    /\ irgen \in {"ok", "redefinition", "no-address", "not-a-constant",
                  "no-callee", "no-loop", "unexpected-node"}
    /\ \A r \in refs : r \in (Value \union Func) \X (Value \union Func \union {NoDecl})
    /\ stored \in Value \union {NoDecl}

(* As long as the module is accepted, the layer the code generator has for  *)
(* a statement holds what the two layers the type checker has for it hold:  *)
(* they agree on the meaning of every name, mentioned or not.  For that     *)
(* each must have opened as many as it should (TypeOK).                     *)
LayersMatch ==
    /\ TypeOK
    /\ Accepted /\ irgen = "ok" =>
          /\ gF = sF
          /\ gl[1] = sl[1]
          /\ \A i \in 1 .. GenDepth, n \in Name :
                gl[i + 1].Vars[n] =
                    IF sl[2 * i + 1].Vars[n] # NoDecl THEN sl[2 * i + 1].Vars[n]
                    ELSE sl[2 * i].Vars[n]

(* Whatever the type checker takes a name for, the code generator emits a  *)
(* use of the same declaration.                                            *)
Agree == \A r \in refs : r[1] = r[2]

(* Even where they disagree, the code generator uses a declaration of the  *)
(* name that is in scope, or knows that it has none.                       *)
InScope ==
    \A r \in refs :
        r[2] \in Value =>
            /\ NameOf(r[2]) = NameOf(r[1])
            /\ \E i \in 1 .. Len(sl) : sl[i].Vars[NameOf(r[2])] = r[2]

(* No pass comes to an assertion, an llvm_unreachable or a null pointer:   *)
(* the type checker on any module, the code generator on those the type    *)
(* checker has accepted.                                                   *)
NoCrash == sema = "ok" /\ (~error => irgen = "ok")

(* An accepted assignment never changes a constant (docs/Language          *)
(* reference/Declarations.md:51-52), a parameter or an iterator.           *)
ConstantsKept == stored \notin Let

=============================================================================
