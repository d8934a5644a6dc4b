------------------------------- MODULE Types -------------------------------
(***************************************************************************)
(* The types of the language (include/dusk/AST/Type.h), how they are       *)
(* compared, how a type is made of its representation in the source, twice *)
(* over (lib/Sema), and how LLVM represents a value of it (lib/IRGen).     *)
(*                                                                         *)
(* A type is the sequence of its constructors from the outside in: an      *)
(* array of three arrays of two integers is <<Array 3, Array 2, Int>>.     *)
(* The null pointer, a type that could not be resolved, is the empty       *)
(* sequence.                                                               *)
(***************************************************************************)
EXTENDS Naturals, Sequences, SequencesExt, Functions

CONSTANTS
    Sig,     \* the functions of the module that are called: a sequence of
             \* records with the name, the representations of the
             \* parameters' types and of the result's, and whether the
             \* type checker has visited it before the calls
    SizeOf,  \* the value of the constants whose names are used as a size
    Huge     \* what is read for a number in a node that is no number

Con(k, n) == [k |-> k, n |-> n]

NoType == <<>>

IntTy == <<Con("Int", 0)>>

VoidTy == <<Con("Void", 0)>>

ArrayOf(t, size) == <<Con("Array", size)>> \o t

InOutOf(t) == <<Con("InOut", 0)>> \o t

FuncOf(i) == <<Con("Func", i)>>

KindOf(t) == IF t = NoType THEN "null" ELSE t[1].k

BaseOf(t) == Tail(t)

isVoidType(t) == KindOf(t) = "Void"

isValueType(t) == KindOf(t) \in {"Int", "Array", "InOut"}

isRefType(t) == KindOf(t) \in {"Array", "InOut"}

(* TypeChecker::typeCheckEquals(l, r): l->isClassOf(r).  The scalar types  *)
(* ask r for its kind, the others try a cast that fails for null.          *)
Equals(l, r) == l = r

EqualsCrashes(l, r) ==
    \/ l = NoType
    \/ r = NoType /\ KindOf(l) \in {"Int", "Void"}

(* PatternType::isClassOf on the types of parameters and arguments, which  *)
(* compares them in order and stops at the first that differ               *)
ItemsEqual(ls, rs) == Len(ls) = Len(rs) /\ \A i \in DOMAIN ls : Equals(ls[i], rs[i])

ItemsCrash(ls, rs) ==
    /\ Len(ls) = Len(rs)
    /\ \E i \in DOMAIN ls :
        /\ EqualsCrashes(ls[i], rs[i])
        /\ \A j \in 1 .. i - 1 : Equals(ls[j], rs[j])

(* The types of data: scalars, arrays of data and references to them.      *)
Constructor == [k : {"Int", "Void", "Array", "InOut", "Func"}, n : Nat]

IsData(t) ==
    /\ t \in Seq(Constructor) /\ t # <<>>
    /\ \A i \in 1 .. Len(t) - 1 :
          /\ t[i].k \in {"Array", "InOut"}
          /\ t[i].k = "InOut" => t[i + 1].k \in {"Array", "InOut"}
    /\ t[Len(t)] \in {Con("Int", 0), Con("Void", 0)}

FunctionTypes == {FuncOf(i) : i \in DOMAIN Sig}

-----------------------------------------------------------------------------
(* A representation of a type has a name, the sizes of the dimensions,     *)
(* innermost first, each a number or the name of a constant, and `inout'.  *)

Size == [name : DOMAIN SizeOf \union {""}, number : Nat]

Repr == [name : STRING, sizes : Seq(Size), inout : BOOLEAN]

ASSUME TypesAssumption ==
    /\ SizeOf \in [DOMAIN SizeOf -> Nat]
    /\ Sig \in Seq([name : STRING, args : Seq(Repr), ret : Repr, visited : BOOLEAN])

Named(name) == IF name = "Int" THEN IntTy ELSE IF name = "Void" THEN VoidTy ELSE NoType

(* TypeReprChecker::visitArrayTypeRepr with a size that is a number *)
WithSize(t, size) == IF t = NoType \/ isVoidType(t) THEN NoType ELSE ArrayOf(t, size)

(* TypeReprChecker::visitInOutTypeRepr in the prototype of a function *)
WithInOut(t) == IF KindOf(t) = "Array" THEN InOutOf(t) ELSE NoType

SizeValue(s) == IF s.name = "" THEN s.number ELSE SizeOf[s.name]

(* The type with the dimensions of these sizes around a base *)
Sized(base, sizes, ArrayWith(_, _)) ==
    LET t[n \in 0 .. Len(sizes)] == IF n = 0 THEN base ELSE ArrayWith(t[n - 1], sizes[n])
    IN  t[Len(sizes)]

(* What the type checker resolves a representation in a prototype to *)
Checked(repr) ==
    LET t == Sized(Named(repr.name), repr.sizes, LAMBDA u, s : WithSize(u, SizeValue(s)))
    IN  IF repr.inout THEN WithInOut(t) ELSE t

(* Sema::typeReprResolve, for the forward declarations: it takes the       *)
(* expression of every size for a number literal.                          *)
Forward(repr) ==
    LET t == Sized(Named(repr.name), repr.sizes,
                   LAMBDA u, s : ArrayOf(u, IF s.name = "" THEN s.number ELSE Huge))
    IN  IF repr.inout THEN InOutOf(t) ELSE t

(* Mutant: the forward declarations resolve the sizes that are names *)
ForwardWithNames(repr) == Checked(repr)

Signature(f, Resolve(_)) ==
    [args |-> [i \in DOMAIN f.args |-> Resolve(f.args[i])], ret |-> Resolve(f.ret)]

Resolves(sig) == NoType \notin Range(sig.args) \union {sig.ret}

(* DeclChecker::visitFuncDecl: the type of the forward declaration stays   *)
(* where a parameter or the result has none.                               *)
FuncType(i) ==
    IF Sig[i].visited /\ Resolves(Signature(Sig[i], Checked))
    THEN Signature(Sig[i], Checked) ELSE Signature(Sig[i], Forward)

-----------------------------------------------------------------------------
(* lib/IRGen/GenType.cpp: LLVM types are written as types are, with a      *)
(* constructor for pointers.  An array value is the address of its memory, *)
(* and `inout' leaves no trace.                                            *)
Bad == <<>>

Pointer(t) == <<Con("Ptr", 0)>> \o t

(* from the innermost constructor out *)
codegenType(t) ==
    LET made[n \in 0 .. Len(t)] ==
            IF n = 0 THEN <<>>
            ELSE LET c == t[Len(t) + 1 - n]
                 IN  IF c.k = "InOut" THEN made[n - 1] ELSE <<c>> \o made[n - 1]
    IN  made[Len(t)]

Emitted(t) == IF isRefType(t) THEN Pointer(codegenType(t)) ELSE codegenType(t)

Pointee(t) == IF KindOf(t) = "Ptr" THEN Tail(t) ELSE Bad

(* The address of an element: CreateGEP(base, {0, index}) *)
ElementOf(base, index) ==
    LET array == Pointee(base)
    IN  IF KindOf(array) = "Array" /\ index = IntTy THEN Tail(array) ELSE Bad

=============================================================================
