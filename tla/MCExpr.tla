------------------------------- MODULE MCExpr -------------------------------
(***************************************************************************)
(* Model checking of Expr: a declaration and a function of every kind.     *)
(***************************************************************************)
EXTENDS Expr

TypeRepr(name, sizes, inout) == [name |-> name, sizes |-> sizes, inout |-> inout]

Literal(n) == [name |-> "", number |-> n]

Constant(n) == [name |-> n, number |-> 0]

Pair == TypeRepr("Int", <<Literal(2)>>, FALSE)

Function(name, args, result, visited) ==
    [name |-> name, args |-> args, ret |-> result, visited |-> visited]

(* func p(n: Int) -> Int; func g(x: inout Int[2]); and, after the calls,   *)
(* func e(x: Foo) -> Int[N]                                                *)
Functions ==
    <<Function("p", <<TypeRepr("Int", <<>>, FALSE)>>, TypeRepr("Int", <<>>, FALSE), TRUE),
      Function("g", <<[Pair EXCEPT !.inout = TRUE]>>, TypeRepr("Void", <<>>, FALSE), TRUE),
      Function("e", <<TypeRepr("Foo", <<>>, FALSE)>>, TypeRepr("Int", <<Constant("N")>>, FALSE), FALSE)>>

Results == {TypeRepr("Void", <<>>, FALSE), TypeRepr("Int", <<>>, FALSE), Pair, TypeRepr("Foo", <<>>, FALSE)}

Sizes == [n \in {"N"} |-> 2]

PairTy == ArrayOf(IntTy, 2)

Own(n) == {<<n, "element">>}

V == [NumberLiteralExpr(0) EXCEPT !.kind = "Identifier", !.name = "v", !.slot = IntTy]

Assignment == AssignExpr(IntTy, V, NumberLiteralExpr(1))

(* let N = 2; let C = [0, 1]; var v: Int; var a: Int[2][2]; the parameter  *)
(* s: Int[2]; and, declared before in the body, let L = [v = 1]            *)
Declarations ==
    [n \in {"N", "C", "v", "a", "s", "L"} |->
        CASE n = "N" -> Decl(TRUE, IntTy, NumberLiteralExpr(2), {})
          [] n = "C" -> Decl(TRUE, PairTy,
                             ArrayLiteralExpr(<<NumberLiteralExpr(0), NumberLiteralExpr(1)>>), Own(n))
          [] n = "v" -> Decl(FALSE, IntTy, NoValue, {})
          [] n = "a" -> Decl(FALSE, ArrayOf(PairTy, 2), NoValue, {})
          [] n = "s" -> Decl(TRUE, PairTy, NoValue, Own(n))
          [] n = "L" -> Decl(TRUE, ArrayOf(IntTy, 1), ArrayLiteralExpr(<<Assignment>>), Own(n))]

Literals ==
    {NumberLiteralExpr(n) : n \in 0 .. 2} \union {Assignment}
    \union {Declarations[n].value : n \in {"C", "L"}}

Long == [Expr |-> 5, Var |-> 2, Let |-> 3, Return |-> 3, Cond |-> 2, Range |-> 2]

=============================================================================
