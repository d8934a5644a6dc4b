----------------------------- MODULE ExprProofs -----------------------------
(***************************************************************************)
(* Type soundness: whatever body the type checker accepts, the code        *)
(* generator makes code of it whose LLVM types agree, that does what the   *)
(* source says and does not write to a constant by its name; and the type  *)
(* checker itself comes through, whatever the body.  For all types, all    *)
(* functions and all bodies without the oddities that Expr lists.          *)
(*                                                                         *)
(* The invariant says that the children in the frames are nodes of a set   *)
(* es, closed under the items of its array literals and holding the        *)
(* literals of the constants, for the solver takes nodes from there; that  *)
(* all of them are formed, and, as long as the body is accepted, that all  *)
(* of them fit: the LLVM type of what is emitted for a node is the one     *)
(* that stands for its type.  A visitor's node fits if its children do,    *)
(* and the solver puts nothing in its place that does not.                 *)
(***************************************************************************)
EXTENDS Expr, NaturalsInduction, WellFoundedInduction, SequenceTheorems, TLAPS

-----------------------------------------------------------------------------
(* A set of numbers has a least one: the induction that is possible here. *)
LEMMA FirstNat ==
    ASSUME NEW S \in SUBSET Nat, S # {}
    PROVE  \E m \in S : \A k \in S : m <= k
<1>1. PICK m \in S : \A k \in S : ~(<<k, m>> \in OpToRel(<, Nat))
  BY NatLessThanWellFounded, WFMin
<1>2. \A k \in S : ~(k < m)
  BY <1>1 DEF OpToRel
<1>3. \A k \in S : m <= k
  BY <1>2
<1> QED
  BY <1>3

-----------------------------------------------------------------------------
(* Types *)

(* A constructor of a type is made of its two fields. *)
LEMMA ConstructorIs ==
    ASSUME NEW c \in Constructor
    PROVE  c = Con(c.k, c.n) /\ c.n \in Nat
  BY DEF Constructor, Con

(* Int and Void are types of data. *)
LEMMA Scalars == IsData(IntTy) /\ IsData(VoidTy)
<1>1. Con("Int", 0) \in Constructor /\ Con("Void", 0) \in Constructor
  BY DEF Constructor, Con
<1>2. \A c \in Constructor : <<c>> \in Seq(Constructor) /\ Len(<<c>>) = 1 /\ <<c>>[1] = c /\ <<c>> # <<>>
  OBVIOUS
<1>3. \A c \in {Con("Int", 0), Con("Void", 0)} : IsData(<<c>>)
  BY <1>1, <1>2 DEF IsData
<1> QED
  BY <1>3 DEF IntTy, VoidTy

(* A type of data has an outermost constructor, one of four kinds. *)
LEMMA DataIsTyped ==
    ASSUME NEW t, IsData(t)
    PROVE  /\ t # NoType /\ KindOf(t) = t[1].k
           /\ KindOf(t) \in {"Int", "Void", "Array", "InOut"}
           /\ t = <<t[1]>> \o Tail(t) /\ t[1] \in Constructor
           /\ Len(t) \in Nat /\ Len(t) > 0
<1>1. t \in Seq(Constructor) /\ t # <<>>
  BY DEF IsData
<1>2. Len(t) \in Nat /\ Len(t) > 0 /\ t[1] \in Constructor /\ t = <<t[1]>> \o Tail(t)
  BY <1>1
<1>3. KindOf(t) = t[1].k
  BY <1>1 DEF KindOf, NoType
<1>4. t[1].k \in {"Array", "InOut"} \/ t[1] \in {Con("Int", 0), Con("Void", 0)}
  <2>1. CASE Len(t) = 1
    BY <2>1 DEF IsData
  <2>2. CASE Len(t) > 1
    <3>1. 1 \in 1 .. Len(t) - 1
      BY <2>2, <1>2
    <3> QED
      BY <3>1 DEF IsData
  <2> QED
    BY <1>2, <2>1, <2>2
<1> QED
  BY <1>1, <1>2, <1>3, <1>4 DEF NoType, Con

(* A type of data that is no reference is Int or Void. *)
LEMMA ScalarTypes ==
    ASSUME NEW t, IsData(t), ~isRefType(t)
    PROVE  t \in {IntTy, VoidTy}
<1>1. KindOf(t) = t[1].k /\ t[1].k \notin {"Array", "InOut"} /\ Len(t) \in Nat /\ Len(t) > 0
  BY DataIsTyped DEF isRefType
<1>2. ~(1 \in 1 .. Len(t) - 1)
  BY <1>1 DEF IsData
<1>3. Len(t) = 1
  <2>1. \A l \in Nat : l > 0 /\ ~(1 \in 1 .. l - 1) => l = 1
    OBVIOUS
  <2> QED
    BY <1>1, <1>2, <2>1
<1>4. t \in Seq(Constructor)
  BY DEF IsData
<1>5. t = <<t[1]>>
  BY <1>3, <1>4
<1>6. t[1] \in {Con("Int", 0), Con("Void", 0)}
  BY <1>3 DEF IsData
<1> QED
  BY <1>5, <1>6 DEF IntTy, VoidTy

(* The base of a reference is data; that of `inout' is an array or         *)
(* another.                                                                *)
LEMMA BaseIsData ==
    ASSUME NEW t, IsData(t), isRefType(t)
    PROVE  /\ IsData(BaseOf(t))
           /\ KindOf(t) = "InOut" => isRefType(BaseOf(t))
           /\ KindOf(t) = "Array" => \E size \in Nat : t = ArrayOf(BaseOf(t), size)
<1>1. KindOf(t) = t[1].k /\ t[1].k \in {"Array", "InOut"} /\ t = <<t[1]>> \o Tail(t)
      /\ t[1] \in Constructor /\ Len(t) \in Nat /\ Len(t) > 0
  BY DataIsTyped DEF isRefType
<1>2. Len(t) # 1
  BY <1>1 DEF IsData, Con
<1>3. t \in Seq(Constructor)
  BY DEF IsData
<1>4. /\ Tail(t) \in Seq(Constructor) /\ Len(Tail(t)) = Len(t) - 1
      /\ \A i \in 1 .. Len(t) - 1 : Tail(t)[i] = t[i + 1]
  BY <1>1, <1>2, <1>3
<1>5. Tail(t) # <<>>
  <2>1. Len(Tail(t)) # 0
    BY <1>1, <1>2, <1>4
  <2> QED
    BY <1>4, <2>1, EmptySeq
<1>6. ASSUME NEW i \in 1 .. Len(Tail(t)) - 1
      PROVE  /\ Tail(t)[i].k \in {"Array", "InOut"}
             /\ Tail(t)[i].k = "InOut" => Tail(t)[i + 1].k \in {"Array", "InOut"}
  <2>1. i + 1 \in 1 .. Len(t) - 1 /\ i \in 1 .. Len(t) - 1
    BY <1>1, <1>4
  <2>2. Tail(t)[i] = t[i + 1] /\ Tail(t)[i + 1] = t[i + 1 + 1]
    BY <1>4, <2>1
  <2> QED
    BY <2>1, <2>2 DEF IsData
<1>7. Tail(t)[Len(Tail(t))] = t[Len(t)]
  BY <1>1, <1>2, <1>4
<1>8. IsData(Tail(t))
  BY <1>4, <1>5, <1>6, <1>7 DEF IsData
<1>9. KindOf(Tail(t)) = Tail(t)[1].k /\ Tail(t)[1] = t[2]
  <2>1. KindOf(Tail(t)) = Tail(t)[1].k
    BY <1>8, DataIsTyped
  <2>2. 1 \in 1 .. Len(t) - 1 /\ 1 + 1 = 2
    BY <1>1, <1>2
  <2> QED
    BY <2>1, <2>2, <1>4
<1>10. 1 \in 1 .. Len(t) - 1 /\ 1 + 1 = 2
  BY <1>1, <1>2
<1>11. t[1].k = "InOut" => t[2].k \in {"Array", "InOut"}
  BY <1>10 DEF IsData
<1>12. t[1] = Con(t[1].k, t[1].n) /\ t[1].n \in Nat
  BY <1>1, ConstructorIs
<1>13. KindOf(t) = "InOut" => isRefType(BaseOf(t))
  BY <1>1, <1>9, <1>11 DEF BaseOf, isRefType
<1>14. KindOf(t) = "Array" => \E size \in Nat : t = ArrayOf(BaseOf(t), size)
  BY <1>1, <1>12 DEF BaseOf, ArrayOf
<1> QED
  BY <1>8, <1>13, <1>14 DEF BaseOf

(* Another array or reference around data is data. *)
LEMMA ReferenceIsData ==
    ASSUME NEW t, IsData(t), NEW c \in Constructor,
           c.k \in {"Array", "InOut"}, c.k = "InOut" => isRefType(t)
    PROVE  /\ IsData(<<c>> \o t) /\ KindOf(<<c>> \o t) = c.k
           /\ Tail(<<c>> \o t) = t
<1> DEFINE u == <<c>> \o t
<1>1. t \in Seq(Constructor) /\ KindOf(t) = t[1].k /\ Len(t) \in Nat /\ Len(t) > 0
  BY DataIsTyped DEF IsData
<1>2. /\ u \in Seq(Constructor) /\ Len(u) = Len(t) + 1 /\ u[1] = c /\ Tail(u) = t
      /\ \A i \in 1 .. Len(t) : u[i + 1] = t[i]
  BY <1>1
<1> HIDE DEF u
<1>3. u # <<>>
  BY <1>1, <1>2
<1>4. ASSUME NEW i \in 1 .. Len(u) - 1
      PROVE  /\ u[i].k \in {"Array", "InOut"}
             /\ u[i].k = "InOut" => u[i + 1].k \in {"Array", "InOut"}
  <2>1. u[i + 1] = t[i]
    BY <1>1, <1>2
  <2>2. CASE i = 1
    BY <2>1, <2>2, <1>1, <1>2 DEF isRefType
  <2>3. CASE i # 1
    <3>1. i - 1 \in 1 .. Len(t) - 1 /\ (i - 1) + 1 = i
      BY <2>3, <1>1, <1>2
    <3>2. u[i] = t[i - 1]
      BY <3>1, <1>1, <1>2
    <3> QED
      BY <3>1, <3>2, <2>1 DEF IsData
  <2> QED
    BY <2>2, <2>3
<1>5. u[Len(u)] = t[Len(t)]
  BY <1>1, <1>2
<1>6. IsData(u)
  BY <1>2, <1>3, <1>4, <1>5 DEF IsData
<1>7. KindOf(u) = c.k
  BY <1>2, <1>3 DEF KindOf, NoType
<1> QED
  BY <1>2, <1>6, <1>7 DEF u

(* An array of data is data, and its base is what it was made of. *)
LEMMA ArrayIsData ==
    ASSUME NEW t, IsData(t), NEW size \in Nat
    PROVE  /\ IsData(ArrayOf(t, size)) /\ KindOf(ArrayOf(t, size)) = "Array"
           /\ BaseOf(ArrayOf(t, size)) = t
<1>1. Con("Array", size) \in Constructor /\ Con("Array", size).k = "Array"
  BY DEF Con, Constructor
<1> QED
  BY <1>1, ReferenceIsData DEF ArrayOf, BaseOf

(* A reference to an array is data. *)
LEMMA InOutIsData ==
    ASSUME NEW t, IsData(t), isRefType(t)
    PROVE  IsData(InOutOf(t)) /\ KindOf(InOutOf(t)) = "InOut"
<1>1. Con("InOut", 0) \in Constructor /\ Con("InOut", 0).k = "InOut"
  BY DEF Con, Constructor
<1> QED
  BY <1>1, ReferenceIsData DEF InOutOf

-----------------------------------------------------------------------------
(* codegenType *)

(* The function that codegenType makes of t *)
Made(t, f) ==
    f = [n \in 0 .. Len(t) |->
            IF n = 0 THEN <<>>
            ELSE LET c == t[Len(t) + 1 - n]
                 IN  IF c.k = "InOut" THEN f[n - 1] ELSE <<c>> \o f[n - 1]]

(* and its part up to m *)
MadeTo(t, m, f) ==
    f = [n \in 0 .. m |->
            IF n = 0 THEN <<>>
            ELSE LET c == t[Len(t) + 1 - n]
                 IN  IF c.k = "InOut" THEN f[n - 1] ELSE <<c>> \o f[n - 1]]

(* The function of codegenType exists for every type: otherwise there is a *)
(* shortest length up to which it does not.                                *)
LEMMA MadeExists ==
    ASSUME NEW t, NEW l \in Nat, Len(t) = l
    PROVE  \E f : Made(t, f)
<1> DEFINE Missing == {m \in 0 .. l : ~\E f : MadeTo(t, m, f)}
<1>1. SUFFICES ASSUME Missing # {} PROVE FALSE
  <2>1. l \in 0 .. l
    OBVIOUS
  <2>2. Missing = {} => \E f : MadeTo(t, l, f)
    BY <2>1
  <2>3. \A f : MadeTo(t, l, f) <=> Made(t, f)
    BY DEF MadeTo, Made
  <2> HIDE DEF Missing
  <2> QED
    BY <2>2, <2>3
<1>2. Missing \in SUBSET Nat
  OBVIOUS
<1>3. PICK m \in Missing : \A k \in Missing : m <= k
  <2> HIDE DEF Missing
  <2> QED
    BY <1>1, <1>2, FirstNat
<1>4. CASE m = 0
  <2>1. MadeTo(t, 0, [n \in 0 .. 0 |-> <<>>])
    BY DEF MadeTo
  <2> QED
    BY <1>4, <2>1
<1>5. CASE m # 0
  <2>1. m - 1 \in 0 .. l /\ ~(m <= m - 1) /\ m \in Nat
    BY <1>5
  <2>2. PICK f : MadeTo(t, m - 1, f)
    BY <2>1, <1>3
  <2> DEFINE c == t[Len(t) + 1 - m]
             newest == IF c.k = "InOut" THEN f[m - 1] ELSE <<c>> \o f[m - 1]
             g == [n \in 0 .. m |-> IF n < m THEN f[n] ELSE newest]
  <2>3. \A n \in 0 .. m - 1 : g[n] = f[n]
    BY <2>1
  <2>4. \A n \in 0 .. m - 1 : f[n] = IF n = 0 THEN <<>>
            ELSE LET d == t[Len(t) + 1 - n]
                 IN  IF d.k = "InOut" THEN f[n - 1] ELSE <<d>> \o f[n - 1]
    BY <2>2 DEF MadeTo
  <2>5. ASSUME NEW n \in 0 .. m
        PROVE  g[n] = IF n = 0 THEN <<>>
            ELSE LET d == t[Len(t) + 1 - n]
                 IN  IF d.k = "InOut" THEN g[n - 1] ELSE <<d>> \o g[n - 1]
    <3>1. CASE n = m
      <4>1. g[n] = newest /\ g[n - 1] = f[n - 1] /\ n # 0
        BY <3>1, <2>1, <2>3, <1>5
      <4> HIDE DEF g
      <4> QED
        BY <3>1, <4>1
    <3>2. CASE n # m
      <4>1. n \in 0 .. m - 1 /\ (n = 0 \/ n - 1 \in 0 .. m - 1)
        BY <3>2, <2>1
      <4>2. g[n] = f[n] /\ (n = 0 \/ g[n - 1] = f[n - 1])
        BY <4>1, <2>3
      <4> HIDE DEF g
      <4> QED
        BY <4>1, <4>2, <2>4
    <3> QED
      BY <3>1, <3>2
  <2>6. MadeTo(t, m, g)
    <3>1. g = [n \in 0 .. m |-> g[n]]
      OBVIOUS
    <3> HIDE DEF g
    <3> QED
      BY <2>5, <3>1 DEF MadeTo
  <2> QED
    BY <2>6
<1> QED
  BY <1>4, <1>5

(* codegenType takes its function by CHOOSE: it is one that satisfies the  *)
(* definition.                                                             *)
LEMMA MadeIs ==
    ASSUME NEW t, NEW l \in Nat, Len(t) = l
    PROVE  \E f : Made(t, f) /\ codegenType(t) = f[Len(t)]
<1> DEFINE f == CHOOSE g : Made(t, g)
<1>1. Made(t, f)
  BY MadeExists
<1>2. codegenType(t) = f[Len(t)]
  BY DEF codegenType, Made
<1> HIDE DEF f
<1> QED
  BY <1>1, <1>2

(* Data has an LLVM type. *)
LEMMA CodegenIsType ==
    ASSUME NEW t, IsData(t)
    PROVE  codegenType(t) \in Seq(Constructor) /\ codegenType(t) # <<>>
<1>1. t \in Seq(Constructor) /\ Len(t) \in Nat /\ Len(t) > 0
  BY DataIsTyped DEF IsData
<1>2. PICK f : Made(t, f) /\ codegenType(t) = f[Len(t)]
  BY <1>1, MadeIs
<1>3. \A n \in 0 .. Len(t) : f[n] = IF n = 0 THEN <<>>
            ELSE LET c == t[Len(t) + 1 - n]
                 IN  IF c.k = "InOut" THEN f[n - 1] ELSE <<c>> \o f[n - 1]
  BY <1>2 DEF Made
<1> DEFINE Wrong == {n \in 1 .. Len(t) : ~(f[n] \in Seq(Constructor) /\ f[n] # <<>>)}
<1>4. Wrong = {}
  <2>1. SUFFICES ASSUME Wrong # {} PROVE FALSE
    OBVIOUS
  <2>2. Wrong \in SUBSET Nat
    BY <1>1
  <2>3. PICK n \in Wrong : \A k \in Wrong : n <= k
    <3> HIDE DEF Wrong
    <3> QED
      BY <2>1, <2>2, FirstNat
  <2>4. n \in 1 .. Len(t) /\ n \in Nat /\ n # 0 /\ n \in 0 .. Len(t)
    BY <1>1
  <2>5. Len(t) + 1 - n \in 1 .. Len(t)
    BY <2>4, <1>1
  <2> DEFINE c == t[Len(t) + 1 - n]
  <2>6. c \in Constructor
    BY <2>5, <1>1
  <2>7. f[n] = IF c.k = "InOut" THEN f[n - 1] ELSE <<c>> \o f[n - 1]
    BY <1>3, <2>4
  <2>8. CASE n = 1
    <3>1. c.k # "InOut"
      BY <2>8, <1>1 DEF IsData, Con
    <3>2. 0 \in 0 .. Len(t)
      BY <1>1
    <3>3. f[0] = <<>>
      BY <1>3, <3>2
    <3>4. f[n] = <<c>>
      BY <2>7, <2>8, <3>1, <3>3, <2>6
    <3>5. <<c>> \in Seq(Constructor) /\ <<c>> # <<>>
      BY <2>6
    <3> QED
      BY <3>4, <3>5
  <2>9. CASE n # 1
    <3>1. n - 1 \in 1 .. Len(t) /\ ~(n <= n - 1)
      BY <2>4, <2>9
    <3>2. f[n - 1] \in Seq(Constructor) /\ f[n - 1] # <<>>
      BY <2>3, <3>1
    <3>3. \A q \in Seq(Constructor) : <<c>> \o q \in Seq(Constructor) /\ <<c>> \o q # <<>>
      BY <2>6
    <3> QED
      BY <2>7, <3>2, <3>3
  <2> QED
    BY <2>8, <2>9
<1>5. Len(t) \in 1 .. Len(t)
  BY <1>1
<1> QED
  BY <1>2, <1>4, <1>5

(* codegenType by its outermost constructor, where its definition goes by  *)
(* the innermost.                                                          *)
LEMMA CodegenOfReference ==
    ASSUME NEW t \in Seq(Constructor), NEW c \in Constructor
    PROVE  codegenType(<<c>> \o t)
             = IF c.k = "InOut" THEN codegenType(t) ELSE <<c>> \o codegenType(t)
<1> DEFINE u == <<c>> \o t
           l == Len(t)
<1>1. l \in Nat /\ Len(u) = l + 1 /\ u[1] = c /\ \A i \in 1 .. l : u[i + 1] = t[i]
  OBVIOUS
<1> HIDE DEF u, l
<1>2. PICK f : Made(t, f) /\ codegenType(t) = f[l]
  BY <1>1, MadeIs DEF l
<1>3. PICK g : Made(u, g) /\ codegenType(u) = g[l + 1]
  BY <1>1, MadeIs
<1>4. \A n \in 0 .. l : f[n] = IF n = 0 THEN <<>>
            ELSE LET d == t[l + 1 - n]
                 IN  IF d.k = "InOut" THEN f[n - 1] ELSE <<d>> \o f[n - 1]
  BY <1>2 DEF Made, l
<1>5. \A n \in 0 .. l + 1 : g[n] = IF n = 0 THEN <<>>
            ELSE LET d == u[(l + 1) + 1 - n]
                 IN  IF d.k = "InOut" THEN g[n - 1] ELSE <<d>> \o g[n - 1]
  BY <1>1, <1>3 DEF Made
<1> DEFINE Wrong == {n \in 0 .. l : g[n] # f[n]}
<1>6. Wrong = {}
  <2>1. SUFFICES ASSUME Wrong # {} PROVE FALSE
    OBVIOUS
  <2>2. Wrong \in SUBSET Nat
    BY <1>1
  <2>3. PICK n \in Wrong : \A k \in Wrong : n <= k
    <3> HIDE DEF Wrong
    <3> QED
      BY <2>1, <2>2, FirstNat
  <2>4. n \in 0 .. l /\ n \in 0 .. l + 1 /\ n \in Nat /\ g[n] # f[n]
    BY <1>1
  <2>5. CASE n = 0
    BY <2>4, <2>5, <1>4, <1>5
  <2>6. CASE n # 0
    <3>1. n - 1 \in 0 .. l /\ ~(n <= n - 1)
      BY <1>1, <2>4, <2>6
    <3>2. g[n - 1] = f[n - 1]
      BY <2>3, <3>1
    <3>3. l + 1 - n \in 1 .. l /\ (l + 1 - n) + 1 = (l + 1) + 1 - n
      BY <1>1, <2>4, <2>6
    <3>4. u[(l + 1) + 1 - n] = t[l + 1 - n]
      BY <1>1, <3>3
    <3> QED
      BY <2>4, <2>6, <3>2, <3>4, <1>4, <1>5
  <2> QED
    BY <2>5, <2>6
<1>7. l \in 0 .. l /\ l + 1 \in 0 .. l + 1 /\ (l + 1) - 1 = l /\ (l + 1) + 1 - (l + 1) = 1 /\ l + 1 # 0
  BY <1>1
<1>8. g[l] = f[l]
  BY <1>6, <1>7
<1>9. g[l + 1] = IF c.k = "InOut" THEN f[l] ELSE <<c>> \o f[l]
  BY <1>1, <1>5, <1>7, <1>8
<1> QED
  BY <1>2, <1>3, <1>9 DEF u

(* The scalars are their own LLVM types. *)
LEMMA CodegenOfScalar == codegenType(IntTy) = IntTy /\ codegenType(VoidTy) = VoidTy
<1>1. ASSUME NEW c \in Constructor, c.k # "InOut" PROVE codegenType(<<c>>) = <<c>>
  <2>1. Len(<<c>>) = 1 /\ 1 \in Nat /\ <<c>>[1] = c
    OBVIOUS
  <2>2. PICK f : Made(<<c>>, f) /\ codegenType(<<c>>) = f[1]
    BY <2>1, MadeIs
  <2>3. f = [n \in 0 .. 1 |->
            IF n = 0 THEN <<>>
            ELSE LET d == <<c>>[1 + 1 - n]
                 IN  IF d.k = "InOut" THEN f[n - 1] ELSE <<d>> \o f[n - 1]]
    BY <2>1, <2>2 DEF Made
  <2>4. f[0] = <<>>
    BY <2>3
  <2>5. f[1] = <<c>> \o f[0]
    BY <2>1, <2>3, <1>1
  <2> QED
    BY <2>2, <2>4, <2>5
<1>2. /\ Con("Int", 0) \in Constructor /\ Con("Int", 0).k # "InOut"
      /\ Con("Void", 0) \in Constructor /\ Con("Void", 0).k # "InOut"
  BY DEF Con, Constructor
<1> QED
  BY <1>1, <1>2 DEF IntTy, VoidTy

-----------------------------------------------------------------------------
(* What is emitted for a value of a type *)

(* A pointer is never the missing type, and points to what it was made of. *)
LEMMA PointerIs ==
    ASSUME NEW t \in Seq(Constructor)
    PROVE  Pointer(t) # Bad /\ KindOf(Pointer(t)) = "Ptr" /\ Pointee(Pointer(t)) = t
<1> DEFINE c == Con("Ptr", 0)
           WithPtr == Constructor \union {c}
<1>1. c \in WithPtr /\ t \in Seq(WithPtr)
  OBVIOUS
<1>2. c.k = "Ptr"
  BY DEF Con
<1> HIDE DEF c, WithPtr
<1>3. <<c>> \o t # <<>> /\ (<<c>> \o t)[1] = c /\ Tail(<<c>> \o t) = t
  BY <1>1
<1>4. Pointer(t) = <<c>> \o t
  BY DEF Pointer, c
<1>5. KindOf(Pointer(t)) = "Ptr"
  BY <1>2, <1>3, <1>4 DEF KindOf, NoType
<1> QED
  BY <1>3, <1>4, <1>5 DEF Bad, Pointee

(* The value of a type is a pointer exactly if the type is a reference. *)
LEMMA EmittedIs ==
    ASSUME NEW t, IsData(t)
    PROVE  /\ Emitted(t) # Bad
           /\ (KindOf(Emitted(t)) = "Ptr") <=> isRefType(t)
           /\ isRefType(t) => Pointee(Emitted(t)) = codegenType(t)
           /\ ~isRefType(t) => Emitted(t) = codegenType(t) /\ Emitted(t) = t
<1>1. codegenType(t) \in Seq(Constructor)
  BY CodegenIsType
<1>2. CASE isRefType(t)
  BY <1>1, <1>2, PointerIs DEF Emitted
<1>3. CASE ~isRefType(t)
  <2>1. codegenType(t) = t
    BY <1>3, ScalarTypes, CodegenOfScalar
  <2>2. t # NoType /\ KindOf(t) # "Ptr"
    BY DataIsTyped
  <2> QED
    BY <1>3, <2>1, <2>2 DEF Emitted, Bad, NoType
<1> QED
  BY <1>2, <1>3

(* An Int is emitted as an Int. *)
LEMMA EmittedScalar == Emitted(IntTy) = IntTy /\ ~isRefType(IntTy) /\ IntTy # NoType
<1>1. KindOf(IntTy) = "Int" /\ IntTy # NoType
  BY DEF KindOf, IntTy, NoType, Con
<1> QED
  BY <1>1, CodegenOfScalar DEF Emitted, isRefType

(* `inout' leaves no trace in the LLVM types. *)
LEMMA EmittedInOut ==
    ASSUME NEW t, IsData(t), isRefType(t)
    PROVE  /\ codegenType(InOutOf(t)) = codegenType(t)
           /\ Emitted(InOutOf(t)) = Emitted(t)
<1>1. Con("InOut", 0) \in Constructor /\ Con("InOut", 0).k = "InOut" /\ t \in Seq(Constructor)
  BY DEF Con, Constructor, IsData
<1>2. codegenType(InOutOf(t)) = codegenType(t)
  BY <1>1, CodegenOfReference DEF InOutOf
<1>3. isRefType(InOutOf(t))
  BY InOutIsData DEF isRefType
<1> QED
  BY <1>2, <1>3 DEF Emitted

(* Nor does taking it away: what a parameter's name is of, and what is     *)
(* emitted for it.                                                         *)
LEMMA EmittedBase ==
    ASSUME NEW t, IsData(t), KindOf(t) = "InOut"
    PROVE  IsData(BaseOf(t)) /\ isRefType(BaseOf(t)) /\ Emitted(BaseOf(t)) = Emitted(t)
<1>1. isRefType(t)
  BY DEF isRefType
<1>2. IsData(BaseOf(t)) /\ isRefType(BaseOf(t))
  BY <1>1, BaseIsData
<1>3. t = <<t[1]>> \o BaseOf(t) /\ t[1] \in Constructor /\ t[1].k = "InOut"
  BY DataIsTyped DEF BaseOf
<1>4. BaseOf(t) \in Seq(Constructor)
  BY <1>2 DEF IsData
<1>5. codegenType(t) = codegenType(BaseOf(t))
  BY <1>3, <1>4, CodegenOfReference
<1> QED
  BY <1>1, <1>2, <1>5 DEF Emitted

(* The element of an array value has the LLVM type of the base. *)
LEMMA EmittedElement ==
    ASSUME NEW t, IsData(t), KindOf(t) = "Array"
    PROVE  /\ IsData(BaseOf(t))
           /\ ElementOf(Emitted(t), IntTy) = codegenType(BaseOf(t))
           /\ codegenType(BaseOf(t)) # Bad
<1>1. isRefType(t)
  BY DEF isRefType
<1>2. IsData(BaseOf(t))
  BY <1>1, BaseIsData
<1>3. t = <<t[1]>> \o BaseOf(t) /\ t[1] \in Constructor /\ t[1].k = "Array"
  BY DataIsTyped DEF BaseOf
<1>4. BaseOf(t) \in Seq(Constructor)
  BY <1>2 DEF IsData
<1> DEFINE rest == codegenType(BaseOf(t))
           c == t[1]
<1>5. codegenType(t) = <<c>> \o rest
  BY <1>3, <1>4, CodegenOfReference
<1>6. rest \in Seq(Constructor) /\ rest # <<>>
  BY <1>2, CodegenIsType
<1>7. Pointee(Emitted(t)) = <<c>> \o rest
  BY <1>1, <1>5, EmittedIs
<1>8. c \in Constructor /\ c.k = "Array"
  BY <1>3
<1> HIDE DEF rest, c
<1>9. /\ <<c>> \o rest # <<>> /\ (<<c>> \o rest)[1] = c /\ Tail(<<c>> \o rest) = rest
  BY <1>6, <1>8
<1>10. KindOf(<<c>> \o rest) = "Array"
  BY <1>8, <1>9 DEF KindOf, NoType
<1>11. ElementOf(Emitted(t), IntTy) = rest
  BY <1>7, <1>9, <1>10 DEF ElementOf
<1> QED
  BY <1>2, <1>6, <1>11 DEF rest, Bad

-----------------------------------------------------------------------------
(* What the type checker resolves a representation to *)

(* A name is that of a type of data or of no type. *)
LEMMA NamedIs == ASSUME NEW name PROVE Named(name) = NoType \/ IsData(Named(name))
  BY Scalars DEF Named

(* So is an array type in a representation, *)
LEMMA WithSizeIs ==
    ASSUME NEW t, t = NoType \/ IsData(t), NEW size \in Nat
    PROVE  WithSize(t, size) = NoType \/ IsData(WithSize(t, size))
  BY ArrayIsData DEF WithSize

(* and `inout'. *)
LEMMA WithInOutIs ==
    ASSUME NEW t, t = NoType \/ IsData(t)
    PROVE  WithInOut(t) = NoType \/ IsData(WithInOut(t))
  BY InOutIsData DEF WithInOut, KindOf, isRefType

(* The function of Sized, up to m, for what the type checker resolves *)
SizedTo(repr, m, f) ==
    f = [n \in 0 .. m |-> IF n = 0 THEN Named(repr.name)
                          ELSE WithSize(f[n - 1], SizeValue(repr.sizes[n]))]

(* The function of Sized exists for every number of dimensions. *)
LEMMA SizedExists ==
    ASSUME NEW repr, NEW l \in Nat
    PROVE  \E f : SizedTo(repr, l, f)
<1> DEFINE Missing == {m \in 0 .. l : ~\E f : SizedTo(repr, m, f)}
<1>1. SUFFICES ASSUME Missing # {} PROVE FALSE
  <2>1. l \in 0 .. l
    OBVIOUS
  <2>2. Missing = {} => \E f : SizedTo(repr, l, f)
    BY <2>1
  <2> HIDE DEF Missing
  <2> QED
    BY <2>2
<1>2. Missing \in SUBSET Nat
  OBVIOUS
<1>3. PICK m \in Missing : \A k \in Missing : m <= k
  <2> HIDE DEF Missing
  <2> QED
    BY <1>1, <1>2, FirstNat
<1>4. CASE m = 0
  <2>1. SizedTo(repr, 0, [n \in 0 .. 0 |-> Named(repr.name)])
    BY DEF SizedTo
  <2> QED
    BY <1>4, <2>1
<1>5. CASE m # 0
  <2>1. m - 1 \in 0 .. l /\ ~(m <= m - 1) /\ m \in Nat
    BY <1>5
  <2>2. PICK f : SizedTo(repr, m - 1, f)
    BY <2>1, <1>3
  <2> DEFINE newest == WithSize(f[m - 1], SizeValue(repr.sizes[m]))
             g == [n \in 0 .. m |-> IF n < m THEN f[n] ELSE newest]
  <2>3. \A n \in 0 .. m - 1 : g[n] = f[n]
    BY <2>1
  <2>4. \A n \in 0 .. m - 1 :
            f[n] = IF n = 0 THEN Named(repr.name)
                   ELSE WithSize(f[n - 1], SizeValue(repr.sizes[n]))
    BY <2>2 DEF SizedTo
  <2>5. ASSUME NEW n \in 0 .. m
        PROVE  g[n] = IF n = 0 THEN Named(repr.name)
                      ELSE WithSize(g[n - 1], SizeValue(repr.sizes[n]))
    <3>1. CASE n = m
      <4>1. g[n] = newest /\ g[n - 1] = f[n - 1] /\ n # 0
        BY <3>1, <2>1, <2>3, <1>5
      <4> HIDE DEF g
      <4> QED
        BY <3>1, <4>1
    <3>2. CASE n # m
      <4>1. n \in 0 .. m - 1 /\ (n = 0 \/ n - 1 \in 0 .. m - 1)
        BY <3>2, <2>1
      <4>2. g[n] = f[n] /\ (n = 0 \/ g[n - 1] = f[n - 1])
        BY <4>1, <2>3
      <4> HIDE DEF g
      <4> QED
        BY <4>1, <4>2, <2>4
    <3> QED
      BY <3>1, <3>2
  <2>6. SizedTo(repr, m, g)
    <3>1. g = [n \in 0 .. m |-> g[n]]
      OBVIOUS
    <3> HIDE DEF g
    <3> QED
      BY <2>5, <3>1 DEF SizedTo
  <2> QED
    BY <2>6
<1> QED
  BY <1>4, <1>5

(* The size of a dimension is a number. *)
LEMMA SizeIsNat ==
    ASSUME NEW repr \in Repr, NEW i \in 1 .. Len(repr.sizes)
    PROVE  SizeValue(repr.sizes[i]) \in Nat
<1>1. repr.sizes \in Seq(Size)
  BY DEF Repr
<1>2. repr.sizes[i] \in Size
  BY <1>1
<1> QED
  BY <1>2, TypesAssumption DEF SizeValue, Size

(* What the type checker resolves a representation to is data, if          *)
(* anything.                                                               *)
LEMMA CheckedIs ==
    ASSUME NEW repr \in Repr
    PROVE  Checked(repr) = NoType \/ IsData(Checked(repr))
<1> DEFINE l == Len(repr.sizes)
           f == CHOOSE g : SizedTo(repr, l, g)
<1>1. l \in Nat
  <2>1. repr.sizes \in Seq(Size)
    BY DEF Repr
  <2> QED
    BY <2>1
<1>2. SizedTo(repr, l, f)
  BY <1>1, SizedExists
<1>3. Checked(repr) = IF repr.inout THEN WithInOut(f[l]) ELSE f[l]
  BY DEF Checked, Sized, SizedTo
<1> HIDE DEF f
<1>4. \A n \in 0 .. l : f[n] = IF n = 0 THEN Named(repr.name)
                              ELSE WithSize(f[n - 1], SizeValue(repr.sizes[n]))
  BY <1>2 DEF SizedTo
<1>5. \A n \in 1 .. l : SizeValue(repr.sizes[n]) \in Nat
  BY SizeIsNat
<1> HIDE DEF l
<1> DEFINE Wrong == {n \in 0 .. l : ~(f[n] = NoType \/ IsData(f[n]))}
<1>6. Wrong = {}
  <2>1. SUFFICES ASSUME Wrong # {} PROVE FALSE
    OBVIOUS
  <2>2. Wrong \in SUBSET Nat
    BY <1>1
  <2>3. PICK n \in Wrong : \A k \in Wrong : n <= k
    <3> HIDE DEF Wrong
    <3> QED
      BY <2>1, <2>2, FirstNat
  <2>4. n \in 0 .. l /\ n \in Nat /\ ~(f[n] = NoType \/ IsData(f[n]))
    BY <1>1
  <2>5. CASE n = 0
    BY <2>4, <2>5, <1>4, NamedIs
  <2>6. CASE n # 0
    <3>1. n - 1 \in 0 .. l /\ ~(n <= n - 1) /\ n \in 1 .. l
      BY <1>1, <2>4, <2>6
    <3>2. f[n - 1] = NoType \/ IsData(f[n - 1])
      BY <2>3, <3>1
    <3>3. f[n] = WithSize(f[n - 1], SizeValue(repr.sizes[n]))
      BY <1>4, <2>4, <2>6
    <3> QED
      BY <2>4, <3>1, <3>2, <3>3, <1>5, WithSizeIs
  <2> QED
    BY <2>5, <2>6
<1>7. f[l] = NoType \/ IsData(f[l])
  BY <1>1, <1>6
<1> QED
  BY <1>3, <1>7, WithInOutIs

-----------------------------------------------------------------------------
(* The fields of the nodes *)

(* The fields of a number literal's node, *)
LEMMA NumberNode ==
    ASSUME NEW n
    PROVE  LET r == NumberLiteralExpr(n) IN
           /\ IsNode(r) /\ r.kind = "Number" /\ r.ty = IntTy /\ r.val = n
           /\ r.items = <<>> /\ r.ir = IntTy /\ r.const = TRUE
           /\ r.lets = FALSE /\ r.root = {} /\ r.written = <<>> /\ r.emitted = <<>>
  BY DEF NumberLiteralExpr, Node, IsNode, Fields

(* of an array literal's, *)
LEMMA ArrayNode ==
    ASSUME NEW kids
    PROVE  LET r == ArrayLiteralExpr(kids)
               ty == ArrayOf(kids[1].ty, Len(kids)) IN
           /\ IsNode(r) /\ r.kind = "Array" /\ r.ty = ty /\ r.val = 0
           /\ r.items = kids /\ r.ir = ArrayIr(kids, ty)
           /\ r.const = (ArrayIr(kids, ty) # Bad)
           /\ r.lets = FALSE /\ r.root = {}
           /\ r.written = Written(kids) /\ r.emitted = Emissions(kids)
  BY DEF ArrayLiteralExpr, Node, IsNode, Fields

(* of a declared identifier's, *)
LEMMA IdentifierNode ==
    ASSUME NEW n
    PROVE  LET r == IdentifierExpr(n)
               d == decls[n] IN
           /\ IsNode(r) /\ r.kind = "Identifier" /\ r.val = 0
           /\ r.ty = IF KindOf(d.ty) = "InOut" THEN BaseOf(d.ty) ELSE d.ty
           /\ r.name = n /\ r.items = <<>> /\ r.ir = Emitted(d.ty) /\ r.slot = Emitted(d.ty)
           /\ r.const = FALSE /\ r.lets = d.let /\ r.root = d.root
           /\ r.written = <<>> /\ r.emitted = <<>>
  BY DEF IdentifierExpr, Slot, Node, IsNode, Fields

(* and of another identifier's. *)
LEMMA NameNode ==
    ASSUME NEW n, NEW ty
    PROVE  LET r == [Node("Identifier", ty) EXCEPT !.name = n] IN
           /\ IsNode(r) /\ r.kind = "Identifier" /\ r.ty = ty /\ r.val = 0
           /\ r.items = <<>> /\ r.const = FALSE /\ r.lets = FALSE /\ r.root = {}
           /\ r.written = <<>> /\ r.emitted = <<>>
  BY DEF Node, IsNode, Fields

-----------------------------------------------------------------------------
(* Nodes are formed, and fit, in a set of nodes and its declarations *)

(* The nodes and the declarations are formed: Expr says how. *)
Basis(es) ==
    /\ \A e \in es : Formed(decls, es, e)
    /\ \A n \in DOMAIN decls : IsDecl(decls, es, decls[n])

(* A node stays formed when nodes and declarations are added. *)
LEMMA FormedGrows ==
    ASSUME NEW ds, NEW es, NEW dt, NEW et, NEW e, Formed(ds, es, e), es \subseteq et,
           DOMAIN ds \subseteq DOMAIN dt, \A n \in DOMAIN ds : dt[n].let = ds[n].let
    PROVE  Formed(dt, et, e)
<1>1. e.items \in Seq(et)
  <2>1. \A q : q \in Seq(es) => q \in Seq(et)
    OBVIOUS
  <2> QED
    BY <2>1 DEF Formed
<1>2. e.root \subseteq Origins(dt)
  BY DEF Formed, Origins
<1> QED
  BY <1>1, <1>2 DEF Formed

(* Copies and aliases of memory are not that memory by its own name. *)
LEMMA CopiesAreOrigins ==
    ASSUME NEW ds, NEW root \in SUBSET Origins(ds), NEW how \in {"copy", "alias"}, NEW part \in SUBSET root
    PROVE  /\ {<<r[1], how>> : r \in part} \subseteq Origins(ds)
           /\ Clean({<<r[1], how>> : r \in part})
  BY DEF Origins, Clean

(* The item that the solver takes from an array literal is there. *)
LEMMA FoldedItem ==
    ASSUME NEW es, Basis(es), NEW e, Formed(decls, es, e), Folds(e), Index(e) < Length(e)
    PROVE  /\ e.items[1] \in es /\ e.items[1].kind = "Array"
           /\ e.items[1].items \in Seq(es)
           /\ Index(e) + 1 \in DOMAIN e.items[1].items
           /\ e.items[1].items[Index(e) + 1] \in es
<1>1. e.items \in Seq(es) /\ Len(e.items) = 2 /\ e.items[1].kind = "Array"
  BY DEF Formed
<1>2. e.items[1] \in es /\ e.items[2] \in es
  BY <1>1
<1>3. e.items[2].val \in Nat /\ e.items[1].items \in Seq(es)
  BY <1>2 DEF Basis, Formed
<1>4. Index(e) + 1 \in 1 .. Len(e.items[1].items)
  BY <1>3 DEF Index, Length
<1> QED
  BY <1>1, <1>2, <1>3, <1>4

(* The solver leaves a node alone, puts the literal of a constant in its   *)
(* place, or an item of an array literal.                                  *)
LEMMA SolvedCases ==
    ASSUME NEW e
    PROVE  \/ Solve(e) = e
           \/ /\ e.kind = "Identifier" /\ e.name \in DOMAIN decls
              /\ isLiteral(decls[e.name].value)
              /\ Solve(e) = [decls[e.name].value EXCEPT
                                !.was = e.lets, !.root = {<<r[1], "copy">> : r \in e.root},
                                !.written = <<>>]
           \/ /\ Folds(e) /\ Index(e) < Length(e)
              /\ Solve(e) = [e.items[1].items[Index(e) + 1] EXCEPT
                                !.was = e.lets, !.root = e.root, !.written = e.written]
<1>1. CASE e.kind = "Identifier"
  <2>1. Solve(e) = solveIdentifierExpr(e)
    BY <1>1 DEF Solve
  <2> QED
    BY <1>1, <2>1 DEF solveIdentifierExpr
<1>2. CASE e.kind = "Subscript"
  <2>1. Solve(e) = solveSubscriptExpr(e)
    BY <1>2 DEF Solve
  <2> QED
    BY <1>2, <2>1 DEF solveSubscriptExpr
<1>3. CASE e.kind \notin {"Identifier", "Subscript"}
  BY <1>3 DEF Solve, solveInfixExpr, solvePrefixExpr
<1> QED
  BY <1>1, <1>2, <1>3

(* What the solver leaves is formed. *)
LEMMA SolvedIsFormed ==
    ASSUME NEW es, Basis(es), NEW e, Formed(decls, es, e)
    PROVE  Formed(decls, es, Solve(e))
<1>1. CASE Solve(e) = e
  BY <1>1
<1>2. CASE /\ e.kind = "Identifier" /\ e.name \in DOMAIN decls
           /\ isLiteral(decls[e.name].value)
           /\ Solve(e) = [decls[e.name].value EXCEPT
                             !.was = e.lets, !.root = {<<r[1], "copy">> : r \in e.root},
                             !.written = <<>>]
  <2> DEFINE v == decls[e.name].value
             root == {<<r[1], "copy">> : r \in e.root}
             s == Solve(e)
  <2>1. v \in es /\ isLiteral(v)
    BY <1>2 DEF Basis, IsDecl
  <2>2. Formed(decls, es, v)
    BY <2>1 DEF Basis
  <2>3. e.root \in SUBSET Origins(decls)
    BY DEF Formed
  <2>4. root \subseteq Origins(decls) /\ Clean(root)
    BY <2>3, CopiesAreOrigins
  <2>5. s = [v EXCEPT !.was = e.lets, !.root = root, !.written = <<>>]
    BY <1>2
  <2> HIDE DEF v, root, s
  <2>6. IsNode(v)
    BY <2>2 DEF Formed
  <2>7. /\ IsNode(s) /\ s.ty = v.ty /\ s.kind = v.kind /\ s.val = v.val
        /\ s.items = v.items /\ s.root = root
    BY <2>5, <2>6 DEF IsNode, Fields
  <2>8. s.kind \in {"Number", "Array"} /\ ~Folds(s)
    BY <2>1, <2>7 DEF isLiteral, Folds
  <2>9. Formed(decls, es, s)
    BY <2>2, <2>4, <2>7, <2>8 DEF Formed
  <2> QED
    BY <2>9 DEF s
<1>3. CASE /\ Folds(e) /\ Index(e) < Length(e)
           /\ Solve(e) = [e.items[1].items[Index(e) + 1] EXCEPT
                             !.was = e.lets, !.root = e.root, !.written = e.written]
  <2> DEFINE v == e.items[1].items[Index(e) + 1]
             s == Solve(e)
  <2>1. v \in es
    BY <1>3, FoldedItem
  <2>2. Formed(decls, es, v)
    BY <2>1 DEF Basis
  <2>3. s = [v EXCEPT !.was = e.lets, !.root = e.root, !.written = e.written]
    BY <1>3
  <2>4. e.root \subseteq Origins(decls) /\ Clean(e.root)
    BY <1>3 DEF Formed
  <2> HIDE DEF v, s
  <2>5. IsNode(v)
    BY <2>2 DEF Formed
  <2>6. /\ IsNode(s) /\ s.ty = v.ty /\ s.kind = v.kind /\ s.val = v.val /\ s.name = v.name
        /\ s.items = v.items /\ s.root = e.root /\ s.lets = v.lets
    BY <2>3, <2>5 DEF IsNode, Fields
  <2>7. Folds(s) = Folds(v) /\ Typed(s) = Typed(v)
    BY <2>6 DEF Folds, Typed
  <2>8. Formed(decls, es, s)
    BY <2>2, <2>4, <2>6, <2>7 DEF Formed
  <2> QED
    BY <2>8 DEF s
<1> QED
  BY <1>1, <1>2, <1>3, SolvedCases

(* Where the solver does nothing odd, what it leaves is a node that the    *)
(* code generator can handle: of the same LLVM type as its own type, and   *)
(* with the effects of the source.                                         *)
LEMMA SolvedFits ==
    ASSUME NEW es, Basis(es), \A x \in es : Fits(x),
           NEW e, Formed(decls, es, e), Fits(e), SolveOdd(e) = {}
    PROVE  Fits(Solve(e))
<1>1. CASE Solve(e) = e
  BY <1>1
<1>2. CASE /\ e.kind = "Identifier" /\ e.name \in DOMAIN decls
           /\ isLiteral(decls[e.name].value)
           /\ Solve(e) = [decls[e.name].value EXCEPT
                             !.was = e.lets, !.root = {<<r[1], "copy">> : r \in e.root},
                             !.written = <<>>]
  <2> DEFINE v == decls[e.name].value
             root == {<<r[1], "copy">> : r \in e.root}
             s == Solve(e)
  <2>1. v \in es /\ isLiteral(v)
    BY <1>2 DEF Basis, IsDecl
  <2>2. IsNode(v) /\ Fits(v)
    BY <2>1 DEF Basis, Formed
  <2>3. s = [v EXCEPT !.was = e.lets, !.root = root, !.written = <<>>]
    BY <1>2
  <2>4. s.emitted = <<>>
    BY <1>2 DEF SolveOdd
  <2> HIDE DEF v, root, s
  <2>5. /\ s.ty = v.ty /\ s.kind = v.kind /\ s.ir = v.ir /\ s.slot = v.slot
        /\ s.items = v.items /\ s.const = v.const /\ s.written = <<>>
    BY <2>2, <2>3 DEF IsNode, Fields
  <2>6. <<>> \in Seq(Effect)
    OBVIOUS
  <2>7. Fits(s)
    BY <2>2, <2>4, <2>5, <2>6 DEF Fits
  <2> QED
    BY <2>7 DEF s
<1>3. CASE /\ Folds(e) /\ Index(e) < Length(e)
           /\ Solve(e) = [e.items[1].items[Index(e) + 1] EXCEPT
                             !.was = e.lets, !.root = e.root, !.written = e.written]
  <2> DEFINE a == e.items[1]
             v == e.items[1].items[Index(e) + 1]
             s == Solve(e)
  <2>1. v \in es /\ a \in es /\ a.kind = "Array" /\ Index(e) + 1 \in DOMAIN a.items
    BY <1>3, FoldedItem
  <2>2. v.const
    BY <2>1 DEF Fits
  <2>3. IsNode(v) /\ Fits(v)
    BY <2>1 DEF Basis, Formed
  <2>4. s = [v EXCEPT !.was = e.lets, !.root = e.root, !.written = e.written]
    BY <1>3
  <2>5. s.emitted = e.written
    BY <1>3 DEF SolveOdd
  <2>6. e.written \in Seq(Effect)
    BY DEF Fits
  <2> HIDE DEF v, s, a
  <2>7. /\ s.ty = v.ty /\ s.kind = v.kind /\ s.ir = v.ir /\ s.slot = v.slot
        /\ s.items = v.items /\ s.const = v.const /\ s.written = e.written
    BY <2>3, <2>4 DEF IsNode, Fields
  <2>8. v.kind \notin {"Identifier", "Subscript"}
    BY <2>2, <2>3 DEF Fits
  <2>9. Fits(s)
    BY <2>3, <2>5, <2>6, <2>7, <2>8 DEF Fits
  <2> QED
    BY <2>9 DEF s
<1> QED
  BY <1>1, <1>2, <1>3, SolvedCases

-----------------------------------------------------------------------------
(* The effects of several expressions *)

(* The function of FlattenSeq, up to m *)
FlatTo(q, m, f) == f = [i \in 1 .. m |-> IF i = 1 THEN q[i] ELSE f[i - 1] \o q[i]]

(* The function of FlattenSeq exists for every sequence of sequences. *)
LEMMA FlatExists ==
    ASSUME NEW q, NEW l \in Nat
    PROVE  \E f : FlatTo(q, l, f)
<1> DEFINE Missing == {m \in 0 .. l : ~\E f : FlatTo(q, m, f)}
<1>1. SUFFICES ASSUME Missing # {} PROVE FALSE
  <2>1. l \in 0 .. l
    OBVIOUS
  <2>2. Missing = {} => \E f : FlatTo(q, l, f)
    BY <2>1
  <2> HIDE DEF Missing
  <2> QED
    BY <2>2
<1>2. Missing \in SUBSET Nat
  OBVIOUS
<1>3. PICK m \in Missing : \A k \in Missing : m <= k
  <2> HIDE DEF Missing
  <2> QED
    BY <1>1, <1>2, FirstNat
<1>4. CASE m = 0
  <2>1. FlatTo(q, 0, [i \in 1 .. 0 |-> q[i]])
    BY DEF FlatTo
  <2> QED
    BY <1>4, <2>1
<1>5. CASE m # 0
  <2>1. m - 1 \in 0 .. l /\ ~(m <= m - 1) /\ m \in Nat
    BY <1>5
  <2>2. PICK f : FlatTo(q, m - 1, f)
    BY <2>1, <1>3
  <2> DEFINE newest == IF m = 1 THEN q[m] ELSE f[m - 1] \o q[m]
             g == [i \in 1 .. m |-> IF i < m THEN f[i] ELSE newest]
  <2>3. \A i \in 1 .. m - 1 : g[i] = f[i]
    BY <2>1
  <2>4. \A i \in 1 .. m - 1 : f[i] = IF i = 1 THEN q[i] ELSE f[i - 1] \o q[i]
    BY <2>2 DEF FlatTo
  <2>5. ASSUME NEW i \in 1 .. m
        PROVE  g[i] = IF i = 1 THEN q[i] ELSE g[i - 1] \o q[i]
    <3>1. CASE i = m
      <4>1. g[i] = newest /\ (i # 1 => g[i - 1] = f[i - 1])
        BY <3>1, <2>1, <2>3, <1>5
      <4> HIDE DEF g
      <4> QED
        BY <3>1, <4>1
    <3>2. CASE i # m
      <4>1. i \in 1 .. m - 1 /\ (i = 1 \/ i - 1 \in 1 .. m - 1)
        BY <3>2, <2>1
      <4>2. g[i] = f[i] /\ (i = 1 \/ g[i - 1] = f[i - 1])
        BY <4>1, <2>3
      <4> HIDE DEF g
      <4> QED
        BY <4>1, <4>2, <2>4
    <3> QED
      BY <3>1, <3>2
  <2>6. FlatTo(q, m, g)
    <3>1. g = [i \in 1 .. m |-> g[i]]
      OBVIOUS
    <3> HIDE DEF g
    <3> QED
      BY <2>5, <3>1 DEF FlatTo
  <2> QED
    BY <2>6
<1> QED
  BY <1>4, <1>5

(* FlattenSeq of sequences over X is a sequence over X. *)
LEMMA FlatIsSeq ==
    ASSUME NEW X, NEW q \in Seq(Seq(X))
    PROVE  FlattenSeq(q) \in Seq(X)
<1> DEFINE l == Len(q)
           f == CHOOSE g : FlatTo(q, l, g)
<1>1. l \in Nat /\ \A i \in 1 .. l : q[i] \in Seq(X)
  OBVIOUS
<1>2. FlatTo(q, l, f)
  BY <1>1, FlatExists
<1>3. FlattenSeq(q) = IF l = 0 THEN q ELSE f[l]
  BY DEF FlattenSeq, FlatTo
<1> HIDE DEF f
<1>4. \A i \in 1 .. l : f[i] = IF i = 1 THEN q[i] ELSE f[i - 1] \o q[i]
  BY <1>2 DEF FlatTo
<1>5. CASE l = 0
  <2>1. q = <<>>
    BY <1>5
  <2> QED
    BY <1>3, <1>5, <2>1
<1>6. CASE l # 0
  <2> DEFINE Wrong == {i \in 1 .. l : f[i] \notin Seq(X)}
  <2>1. Wrong = {}
    <3>1. SUFFICES ASSUME Wrong # {} PROVE FALSE
      OBVIOUS
    <3>2. Wrong \in SUBSET Nat
      BY <1>1
    <3>3. PICK i \in Wrong : \A k \in Wrong : i <= k
      <4> HIDE DEF Wrong
      <4> QED
        BY <3>1, <3>2, FirstNat
    <3>4. i \in 1 .. l /\ i \in Nat /\ f[i] \notin Seq(X)
      BY <1>1
    <3> HIDE DEF l
    <3>5. CASE i = 1
      BY <3>4, <3>5, <1>1, <1>4
    <3>6. CASE i # 1
      <4>1. i - 1 \in 1 .. l /\ ~(i <= i - 1)
        BY <3>4, <3>6, <1>1
      <4>2. f[i - 1] \in Seq(X)
        BY <3>3, <4>1
      <4>3. f[i] = f[i - 1] \o q[i] /\ q[i] \in Seq(X)
        BY <3>4, <3>6, <1>1, <1>4
      <4> QED
        BY <3>4, <4>2, <4>3
    <3> QED
      BY <3>5, <3>6
  <2>2. l \in 1 .. l
    BY <1>1, <1>6
  <2>3. f[l] \in Seq(X)
    BY <2>1, <2>2
  <2> QED
    BY <1>3, <1>6, <2>3
<1> QED
  BY <1>5, <1>6

(* Several nodes that fit have the effects of their sources, in order. *)
LEMMA EffectsOfFitting ==
    ASSUME NEW es, NEW kids \in Seq(es), \A i \in DOMAIN kids : Fits(kids[i])
    PROVE  Written(kids) \in Seq(Effect) /\ Emissions(kids) = Written(kids)
<1>1. \A i \in DOMAIN kids : kids[i].written \in Seq(Effect) /\ kids[i].emitted = kids[i].written
  BY DEF Fits
<1>2. [i \in DOMAIN kids |-> kids[i].written] \in Seq(Seq(Effect))
  BY <1>1
<1>3. [i \in DOMAIN kids |-> kids[i].emitted] = [i \in DOMAIN kids |-> kids[i].written]
  BY <1>1
<1> QED
  BY <1>2, <1>3, FlatIsSeq DEF Written, Emissions

-----------------------------------------------------------------------------
(* The visitors *)

(* typeCheckExpr notes what the node was; nothing else changes. *)
LEMMA MarkedIsFormed ==
    ASSUME NEW es, NEW e, Formed(decls, es, e), NEW r, r = [e EXCEPT !.was = e.lets]
    PROVE  Formed(decls, es, r) /\ (Fits(e) => Fits(r)) /\ r.ty = e.ty /\ r.kind = e.kind
<1>1. IsNode(e)
  BY DEF Formed
<1>2. /\ IsNode(r) /\ r.ty = e.ty /\ r.kind = e.kind /\ r.val = e.val /\ r.name = e.name
      /\ r.items = e.items /\ r.ir = e.ir /\ r.slot = e.slot /\ r.const = e.const
      /\ r.lets = e.lets /\ r.root = e.root
      /\ r.written = e.written /\ r.emitted = e.emitted
  BY <1>1 DEF IsNode, Fields
<1>3. Formed(decls, es, r)
  BY <1>2 DEF Formed, Folds, isLiteral, Typed
<1>4. Fits(e) => Fits(r)
  BY <1>2 DEF Fits
<1> QED
  BY <1>2, <1>3, <1>4

(* A bare node is formed. *)
LEMMA UntypedIsFormed ==
    ASSUME NEW es, NEW kind, NEW ty, kind # "Identifier" \/ ty = NoType
    PROVE  Formed(decls, es, Node(kind, ty))
<1> DEFINE r == Node(kind, ty)
<1>1. /\ IsNode(r) /\ r.kind = kind /\ r.ty = ty /\ r.val = 0 /\ r.items = <<>> /\ r.root = {}
  BY DEF Node, IsNode, Fields
<1> HIDE DEF r
<1>2. <<>> \in Seq(es) /\ 0 \in Nat
  OBVIOUS
<1>3. Formed(decls, es, r)
  BY <1>1, <1>2 DEF Formed, Folds, Clean, Typed
<1> QED
  BY <1>3 DEF r

(* A number literal is formed and fits. *)
LEMMA NumberIs ==
    ASSUME NEW es, NEW n \in Number
    PROVE  Formed(decls, es, NumberLiteralExpr(n)) /\ Fits(NumberLiteralExpr(n))
<1> DEFINE r == NumberLiteralExpr(n)
<1>1. /\ IsNode(r) /\ r.kind = "Number" /\ r.ty = IntTy /\ r.val = n
      /\ r.items = <<>> /\ r.ir = IntTy /\ r.const = TRUE
      /\ r.lets = FALSE /\ r.root = {} /\ r.written = <<>> /\ r.emitted = <<>>
  BY NumberNode
<1> HIDE DEF r
<1>2. <<>> \in Seq(es) /\ n \in Nat /\ <<>> \in Seq(Effect)
  BY ExprAssumption
<1>3. Formed(decls, es, r)
  BY <1>1, <1>2 DEF Formed, Folds, Clean
<1>4. Fits(r)
  BY <1>1, <1>2, EmittedScalar, Scalars DEF Fits
<1> QED
  BY <1>3, <1>4 DEF r

(* The type of a node, as long as nothing is odd *)
Proper(e) == e.ty = NoType \/ IsData(e.ty) \/ e.ty \in FunctionTypes

(* A function is no value. *)
Value(e) == KindOf(e.ty) # "Func"

(* The type of a function has its kind and says which it is. *)
LEMMA FunctionKind ==
    ASSUME NEW i
    PROVE  KindOf(FuncOf(i)) = "Func" /\ FuncOf(i)[1].n = i /\ FuncOf(i) # NoType
  BY DEF FuncOf, Con, KindOf, NoType

(* A proper type is data, a function's, or missing. *)
LEMMA ProperKinds ==
    ASSUME NEW e, Proper(e)
    PROVE  /\ Typed(e) /\ Value(e) => IsData(e.ty)
           /\ ~Value(e) => e.ty[1].n \in DOMAIN Sig /\ e.ty = FuncOf(e.ty[1].n)
           /\ isRefType(e.ty) => IsData(e.ty)
<1>1. CASE e.ty = NoType
  BY <1>1 DEF Typed, Value, KindOf, isRefType
<1>2. CASE IsData(e.ty)
  BY <1>2, DataIsTyped DEF Value
<1>3. CASE e.ty \in FunctionTypes
  <2>1. PICK i \in DOMAIN Sig : e.ty = FuncOf(i)
    BY <1>3 DEF FunctionTypes
  <2> QED
    BY <2>1, FunctionKind DEF Value, isRefType
<1> QED
  BY <1>1, <1>2, <1>3 DEF Proper

(* What a node that fits has. *)
LEMMA FittingIs ==
    ASSUME NEW e, Fits(e)
    PROVE  /\ Typed(e) /\ Proper(e)
           /\ Value(e) => IsData(e.ty) /\ e.ir = Emitted(e.ty)
           /\ e.written \in Seq(Effect) /\ e.emitted = e.written
<1>1. Proper(e)
  BY DEF Fits, Proper
<1>2. Typed(e)
  <2>1. CASE IsData(e.ty)
    BY <2>1, DataIsTyped DEF Typed
  <2>2. CASE e.ty \in FunctionTypes
    BY <2>2, FunctionKind DEF FunctionTypes, Typed
  <2> QED
    BY <2>1, <2>2 DEF Fits
<1> QED
  BY <1>1, <1>2, ProperKinds DEF Fits, Value

(* visitIdentifierExpr makes a node that fits its declaration. *)
LEMMA IdentifierIs ==
    ASSUME NEW es, Basis(es), NEW n, NEW v, v = visitIdentifierExpr(n)
    PROVE  /\ Formed(decls, es, v.node) /\ v.sema = {"ok"} /\ v.odd = {}
           /\ (\A m \in DOMAIN decls : IsData(decls[m].ty)) => Proper(v.node)
           /\ (\A m \in DOMAIN decls : IsData(decls[m].ty)) /\ ~v.err => Fits(v.node)
<1> DEFINE typed == \A m \in DOMAIN decls : IsData(decls[m].ty)
<1>1. CASE n \in DOMAIN decls
  <2> DEFINE r == IdentifierExpr(n)
             d == decls[n]
  <2>1. v = Verdict(r, FALSE, {})
    BY <1>1 DEF visitIdentifierExpr
  <2>2. /\ IsNode(r) /\ r.kind = "Identifier" /\ r.val = 0
        /\ r.ty = IF KindOf(d.ty) = "InOut" THEN BaseOf(d.ty) ELSE d.ty
        /\ r.name = n /\ r.items = <<>> /\ r.ir = Emitted(d.ty) /\ r.slot = Emitted(d.ty)
        /\ r.const = FALSE /\ r.lets = d.let /\ r.root = d.root
        /\ r.written = <<>> /\ r.emitted = <<>>
    BY IdentifierNode
  <2>3. IsDecl(decls, es, d)
    BY <1>1 DEF Basis
  <2>4. <<>> \in Seq(es) /\ 0 \in Nat /\ <<>> \in Seq(Effect)
    OBVIOUS
  <2> HIDE DEF r
  <2>5. ~Folds(r) /\ ~isLiteral(r)
    BY <2>2 DEF Folds, isLiteral
  <2>6. Formed(decls, es, r)
    BY <1>1, <2>2, <2>3, <2>4, <2>5 DEF Formed, IsDecl
  <2>7. ASSUME typed PROVE Fits(r)
    <3>1. IsData(d.ty)
      BY <1>1, <2>7
    <3>2. IsData(r.ty) /\ Emitted(r.ty) = Emitted(d.ty)
      BY <2>2, <3>1, EmittedBase
    <3> QED
      BY <2>2, <2>4, <3>2 DEF Fits
  <2>8. Fits(v.node) => Proper(v.node)
    BY FittingIs
  <2>9. v.node = [r EXCEPT !.was = r.lets] /\ v.sema = {"ok"} /\ v.odd = {}
    BY <2>1 DEF Verdict
  <2> QED
    BY <2>6, <2>7, <2>8, <2>9, MarkedIsFormed
<1>2. CASE n \notin DOMAIN decls /\ FuncNamed(n) # {}
  <2> DEFINE i == CHOOSE j \in FuncNamed(n) : TRUE
             r == [Node("Identifier", FuncOf(i)) EXCEPT !.name = n]
  <2>1. v = Verdict(r, FALSE, {})
    BY <1>2 DEF visitIdentifierExpr
  <2>2. i \in DOMAIN Sig
    BY <1>2 DEF FuncNamed
  <2>3. FuncOf(i) \in FunctionTypes /\ KindOf(FuncOf(i)) = "Func"
    BY <2>2, FunctionKind DEF FunctionTypes
  <2> HIDE DEF i
  <2>4. /\ IsNode(r) /\ r.kind = "Identifier" /\ r.ty = FuncOf(i) /\ r.val = 0
        /\ r.items = <<>> /\ r.const = FALSE /\ r.lets = FALSE /\ r.root = {}
        /\ r.written = <<>> /\ r.emitted = <<>>
    BY NameNode
  <2> HIDE DEF r
  <2>5. <<>> \in Seq(es) /\ 0 \in Nat /\ <<>> \in Seq(Effect)
    OBVIOUS
  <2>6. Formed(decls, es, r)
    BY <2>3, <2>4, <2>5 DEF Formed, Folds, Clean
  <2>7. Fits(r)
    BY <2>3, <2>4, <2>5 DEF Fits
  <2>8. Fits(v.node) => Proper(v.node)
    BY FittingIs
  <2>9. v.node = [r EXCEPT !.was = r.lets] /\ v.sema = {"ok"} /\ v.odd = {}
    BY <2>1 DEF Verdict
  <2> QED
    BY <2>6, <2>7, <2>8, <2>9, MarkedIsFormed
<1>3. CASE n \notin DOMAIN decls /\ FuncNamed(n) = {}
  <2> DEFINE r == [Node("Identifier", NoType) EXCEPT !.name = n]
  <2>1. v = Verdict(r, TRUE, {})
    BY <1>3 DEF visitIdentifierExpr
  <2>2. /\ IsNode(r) /\ r.kind = "Identifier" /\ r.ty = NoType /\ r.val = 0
        /\ r.items = <<>> /\ r.root = {}
    BY NameNode
  <2> HIDE DEF r
  <2>3. <<>> \in Seq(es) /\ 0 \in Nat
    OBVIOUS
  <2>4. Formed(decls, es, r)
    BY <2>2, <2>3 DEF Formed, Folds, Clean, Typed
  <2>5. v.node = [r EXCEPT !.was = r.lets] /\ v.sema = {"ok"} /\ v.odd = {} /\ v.err
    BY <2>1 DEF Verdict
  <2>6. v.node.ty = NoType /\ Formed(decls, es, v.node)
    BY <2>2, <2>4, <2>5, MarkedIsFormed
  <2> QED
    BY <2>5, <2>6 DEF Proper
<1> QED
  BY <1>1, <1>2, <1>3

(* visitInOutExpr keeps the LLVM type where it changes the type. *)
LEMMA InOutIs ==
    ASSUME NEW es, NEW base \in es, Formed(decls, es, base), NEW v, v = visitInOutExpr(base)
    PROVE  /\ Formed(decls, es, v.node) /\ v.sema = {"ok"} /\ v.odd = {}
           /\ Proper(base) => Proper(v.node)
           /\ Fits(base) /\ Value(base) => Fits(v.node)
<1>1. /\ v.sema = {"ok"} /\ v.odd = {}
      /\ v.node = IF isRefType(base.ty) /\ ~isLiteral(base)
                  THEN [base EXCEPT !.ty = InOutOf(base.ty)] ELSE base
  BY DEF visitInOutExpr
<1>2. CASE ~(isRefType(base.ty) /\ ~isLiteral(base))
  BY <1>1, <1>2
<1>3. CASE isRefType(base.ty) /\ ~isLiteral(base)
  <2> DEFINE r == v.node
             ty == InOutOf(base.ty)
  <2>1. r = [base EXCEPT !.ty = ty]
    BY <1>1, <1>3
  <2>2. IsNode(base)
    BY DEF Formed
  <2> HIDE DEF r, ty
  <2>3. /\ IsNode(r) /\ r.ty = ty /\ r.kind = base.kind /\ r.val = base.val /\ r.name = base.name
        /\ r.items = base.items /\ r.ir = base.ir /\ r.slot = base.slot /\ r.const = base.const
        /\ r.lets = base.lets /\ r.root = base.root
        /\ r.written = base.written /\ r.emitted = base.emitted
    BY <2>1, <2>2 DEF IsNode, Fields
  <2>4. KindOf(base.ty) # "Func" /\ base.ty # NoType
    BY <1>3 DEF isRefType, KindOf
  <2>5. Formed(decls, es, r)
    BY <2>3, <2>4 DEF Formed, Folds, isLiteral, Typed
  <2>6. ASSUME IsData(base.ty) PROVE IsData(ty) /\ Emitted(ty) = Emitted(base.ty)
                                     /\ codegenType(ty) = codegenType(base.ty)
    BY <1>3, <2>6, InOutIsData, EmittedInOut DEF ty
  <2>7. Proper(base) => Proper(r)
    BY <1>3, <2>3, <2>6, ProperKinds DEF Proper
  <2>8. ASSUME Fits(base) PROVE Fits(r)
    <3>1. IsData(base.ty)
      BY <1>3, <2>8, FittingIs, ProperKinds
    <3>2. base.ir = Emitted(base.ty)
      BY <2>4, <2>8 DEF Fits
    <3> QED
      BY <2>3, <2>4, <2>6, <2>8, <3>1, <3>2 DEF Fits
  <2> QED
    BY <1>1, <2>5, <2>7, <2>8 DEF r
<1> QED
  BY <1>2, <1>3

(* The type of an array literal of data is data. *)
LEMMA ArrayTypeIs ==
    ASSUME NEW es, NEW kids \in Seq(es), kids # <<>>, IsData(kids[1].ty)
    PROVE  LET ty == ArrayOf(kids[1].ty, Len(kids)) IN
           IsData(ty) /\ BaseOf(ty) = kids[1].ty /\ isRefType(ty)
<1>1. Len(kids) \in Nat
  OBVIOUS
<1> QED
  BY <1>1, ArrayIsData DEF isRefType

(* visitArrayLiteralExpr: items of one type, all constant, make an array   *)
(* that LLVM accepts.                                                      *)
LEMMA ArrayIs ==
    ASSUME NEW es, NEW kids \in Seq(es), NEW v, v = visitArrayLiteralExpr(kids)
    PROVE  /\ Formed(decls, es, v.node)
           /\ v.odd = {} => v.sema = {"ok"}
           /\ v.odd = {} /\ (\A i \in DOMAIN kids : Proper(kids[i]) /\ Value(kids[i]))
                 => Proper(v.node)
           /\ v.odd = {} /\ ~v.err /\ (\A i \in DOMAIN kids : Fits(kids[i]) /\ Value(kids[i]))
                 => Fits(v.node)
<1> DEFINE none == Node("Array", NoType)
<1>1. Formed(decls, es, none) /\ none.ty = NoType
  <2>1. none.ty = NoType
    BY DEF Node
  <2> QED
    BY <2>1, UntypedIsFormed
<1> HIDE DEF none
<1>2. ASSUME NEW r, r = [none EXCEPT !.was = none.lets]
      PROVE  Formed(decls, es, r) /\ Proper(r)
  BY <1>1, <1>2, MarkedIsFormed DEF Proper
<1>3. CASE kids = <<>>
  <2>1. v = Verdict(none, TRUE, {})
    BY <1>3 DEF visitArrayLiteralExpr, none
  <2>2. v.node = [none EXCEPT !.was = none.lets] /\ v.sema = {"ok"} /\ v.err
    BY <2>1 DEF Verdict
  <2> QED
    BY <1>2, <2>2
<1>4. CASE kids # <<>> /\ \E i \in DOMAIN kids : ~Typed(kids[i])
  <2>1. v = [Verdict(none, FALSE, {"undefined item"}) EXCEPT !.sema = {"ok", "crash"}]
    BY <1>4 DEF visitArrayLiteralExpr, none
  <2>2. v.node = [none EXCEPT !.was = none.lets] /\ v.odd = {"undefined item"}
    BY <2>1 DEF Verdict
  <2> QED
    BY <1>2, <2>2
<1>5. CASE /\ kids # <<>> /\ \A i \in DOMAIN kids : Typed(kids[i])
           /\ \E i \in DOMAIN kids : ~Equals(kids[1].ty, kids[i].ty)
  <2> DEFINE mixed == {"mixed items"}
  <2>1. v = Verdict(none, FALSE, mixed) /\ mixed # {}
    BY <1>5 DEF visitArrayLiteralExpr, none
  <2> HIDE DEF mixed
  <2>2. v.node = [none EXCEPT !.was = none.lets] /\ v.odd = mixed
    BY <2>1 DEF Verdict
  <2> QED
    BY <1>2, <2>1, <2>2
<1>6. CASE /\ kids # <<>> /\ \A i \in DOMAIN kids : Typed(kids[i])
           /\ \A i \in DOMAIN kids : Equals(kids[1].ty, kids[i].ty)
  <2> DEFINE r == ArrayLiteralExpr(kids)
             ty == ArrayOf(kids[1].ty, Len(kids))
             computed == Found("computed items", \E i \in DOMAIN kids : ~kids[i].const)
  <2>1. v = Verdict(r, FALSE, computed)
    BY <1>6 DEF visitArrayLiteralExpr
  <2>2. /\ IsNode(r) /\ r.kind = "Array" /\ r.ty = ty /\ r.val = 0
        /\ r.items = kids /\ r.ir = ArrayIr(kids, ty)
        /\ r.lets = FALSE /\ r.root = {}
        /\ r.written = Written(kids) /\ r.emitted = Emissions(kids)
    BY ArrayNode
  <2>3. v.node = [r EXCEPT !.was = r.lets] /\ v.sema = {"ok"} /\ v.odd = computed
    <3> HIDE DEF r, computed
    <3> QED
      BY <2>1 DEF Verdict
  <2> HIDE DEF r
  <2>4. Formed(decls, es, r)
    BY <2>2 DEF Formed, Folds, Clean, isLiteral
  <2>5. 1 \in DOMAIN kids
    BY <1>6
  <2>6. ASSUME computed = {}
        PROVE  \A i \in DOMAIN kids : kids[i].const
    BY <2>6 DEF Found
  <2> HIDE DEF computed
  <2>7. ASSUME IsData(kids[1].ty)
        PROVE  IsData(ty) /\ BaseOf(ty) = kids[1].ty
    BY <1>6, <2>7, ArrayTypeIs
  <2> HIDE DEF ty
  <2>8. ASSUME \A i \in DOMAIN kids : Proper(kids[i]) /\ Value(kids[i])
        PROVE  Proper(v.node)
    <3>1. IsData(kids[1].ty)
      BY <1>6, <2>5, <2>8, ProperKinds
    <3>2. v.node.ty = ty
      BY <2>2, <2>3, <2>4, MarkedIsFormed
    <3> QED
      BY <2>7, <3>1, <3>2 DEF Proper
  <2>9. ASSUME computed = {}, \A i \in DOMAIN kids : Fits(kids[i]) /\ Value(kids[i])
        PROVE  Fits(r)
    <3>1. \A i \in DOMAIN kids : kids[i].ty = kids[1].ty
      BY <1>6 DEF Equals
    <3>2. IsData(kids[1].ty)
      BY <2>5, <2>9, FittingIs
    <3>3. \A i \in DOMAIN kids : kids[i].ir = Emitted(kids[1].ty)
      BY <2>9, <3>1, FittingIs
    <3>4. \A i \in DOMAIN kids : Initializer(kids[i]) = codegenType(kids[1].ty)
      BY <3>2, <3>3, EmittedIs DEF Initializer
    <3>5. ArrayIr(kids, ty) = Emitted(ty)
      BY <2>6, <2>7, <2>9, <3>2, <3>4 DEF ArrayIr
    <3>6. Written(kids) \in Seq(Effect) /\ Emissions(kids) = Written(kids)
      BY <2>9, EffectsOfFitting
    <3> QED
      BY <2>2, <2>6, <2>7, <2>9, <3>2, <3>5, <3>6 DEF Fits
  <2> QED
    BY <2>3, <2>4, <2>8, <2>9, MarkedIsFormed
<1> QED
  BY <1>3, <1>4, <1>5, <1>6

(* visitAssignExpr: the value of an assignment has the type of what it is  *)
(* stored to, which holds no constant.                                     *)
LEMMA AssignIs ==
    ASSUME NEW es, Basis(es), NEW dest \in es, NEW source \in es,
           NEW v, v = visitAssignExpr(dest, source)
    PROVE  /\ Formed(decls, es, v.node)
           /\ v.odd = {} => v.sema = {"ok"}
           /\ Proper(dest) => Proper(v.node)
           /\ v.odd = {} /\ ~v.err /\ Value(dest) /\ (\A e \in es : Fits(e)) => Fits(v.node)
           /\ ~v.err => (Typed(dest) /\ Typed(source) => Mutable(dest))
           /\ v.odd = {} => Solve(dest).kind \in {"Identifier", "Subscript"}
                            \/ ~Assigns(dest, source)
<1> DEFINE assigns == Assigns(dest, source)
           typed == Typed(dest) /\ Typed(source)
           d == IF assigns THEN Solve(dest) ELSE dest
           ty == IF assigns THEN dest.ty ELSE NoType
           r == AssignExpr(ty, d, source)
           err == \/ typed /\ (~assigns \/ ~Mutable(dest))
                  \/ assigns /\ Folds(dest) /\ OutOfBounds(dest)
           oddities == Found("stray target", d.kind \notin {"Identifier", "Subscript"})
                 \union Found("array element", d.kind = "Subscript" /\ isRefType(dest.ty))
                 \union Found("past the end", PastTheEnd(dest))
<1>1. /\ v.node = [r EXCEPT !.was = r.lets] /\ v.odd = oddities
      /\ v.err <=> err
      /\ v.sema = IF assigns /\ PastTheEnd(dest) THEN {"crash"} ELSE {"ok"}
  BY DEF visitAssignExpr, Verdict
<1>4. d = IF assigns THEN Solve(dest) ELSE dest
  OBVIOUS
<1>3. oddities = {} => /\ d.kind \in {"Identifier", "Subscript"} /\ ~PastTheEnd(dest)
                       /\ ~(d.kind = "Subscript" /\ isRefType(dest.ty))
  BY DEF Found
<1>17. ty = IF assigns THEN dest.ty ELSE NoType
  OBVIOUS
<1> HIDE DEF d, ty
<1>2. /\ IsNode(r) /\ r.kind = "Assign" /\ r.ty = ty /\ r.val = 0 /\ r.items = <<>>
      /\ r.ir = IF LValue(d) # Bad /\ source.ir = LValue(d) THEN source.ir ELSE Bad
      /\ r.lets = AnyLets(<<d, source>>)
      /\ r.root = source.root
      /\ r.written = d.written \o source.written \o <<"store">>
      /\ r.emitted = d.emitted \o source.emitted \o <<"store">>
  BY DEF AssignExpr, Node, IsNode, Fields
<1> HIDE DEF r, oddities
<1>5. Formed(decls, es, dest) /\ Formed(decls, es, source)
  BY DEF Basis
<1>6. r.lets \/ ~source.lets
  <2>1. AnyLets(<<d, source>>) \/ ~source.lets
    BY DEF AnyLets
  <2> QED
    BY <1>2, <2>1
<1>7. <<>> \in Seq(es) /\ 0 \in Nat
  OBVIOUS
<1>8. Formed(decls, es, r)
  BY <1>2, <1>5, <1>6, <1>7 DEF Formed, Folds, isLiteral
<1>9. Proper(dest) => Proper(r)
  BY <1>2, <1>17 DEF Proper
<1>10. ASSUME oddities = {}, ~err, Value(dest), \A e \in es : Fits(e)
       PROVE  Fits(r)
  <2>1. assigns
    BY <1>10, FittingIs
  <2>2. dest.ty = source.ty /\ ~isLiteral(dest)
    BY <2>1 DEF Assigns, Equals
  <2>3. IsData(dest.ty) /\ source.ir = Emitted(dest.ty) /\ Emitted(dest.ty) # Bad
    BY <1>10, <2>2, FittingIs, EmittedIs DEF Value
  <2>4. d = Solve(dest) /\ d.kind \in {"Identifier", "Subscript"}
    BY <1>3, <1>4, <1>10, <2>1
  <2>5. d = dest
    <3>1. ASSUME /\ dest.kind = "Identifier" /\ dest.name \in DOMAIN decls
                 /\ isLiteral(decls[dest.name].value)
                 /\ Solve(dest) = [decls[dest.name].value EXCEPT
                                !.was = dest.lets, !.root = {<<q[1], "copy">> : q \in dest.root},
                                !.written = <<>>]
          PROVE  FALSE
      <4> DEFINE x == decls[dest.name].value
                 root == {<<q[1], "copy">> : q \in dest.root}
      <4>1. x \in es /\ isLiteral(x)
        BY <3>1 DEF Basis, IsDecl
      <4>2. IsNode(x)
        BY <4>1 DEF Basis, Formed
      <4>3. d = [x EXCEPT !.was = dest.lets, !.root = root, !.written = <<>>]
        BY <2>4, <3>1
      <4> HIDE DEF x, root
      <4>4. d.kind = x.kind
        BY <4>2, <4>3 DEF IsNode, Fields
      <4> QED
        BY <2>4, <4>1, <4>4 DEF isLiteral
    <3>2. ASSUME /\ Folds(dest) /\ Index(dest) < Length(dest)
                 /\ Solve(dest) = [dest.items[1].items[Index(dest) + 1] EXCEPT
                                !.was = dest.lets, !.root = dest.root, !.written = dest.written]
          PROVE  FALSE
      <4> DEFINE a == dest.items[1]
                 x == dest.items[1].items[Index(dest) + 1]
      <4>1. x \in es /\ a \in es /\ a.kind = "Array" /\ Index(dest) + 1 \in DOMAIN a.items
        BY <1>5, <3>2, FoldedItem
      <4>2. x.const
        BY <1>10, <4>1 DEF Fits
      <4>3. IsNode(x) /\ Fits(x)
        BY <1>10, <4>1 DEF Basis, Formed
      <4>4. d = [x EXCEPT !.was = dest.lets, !.root = dest.root, !.written = dest.written]
        BY <2>4, <3>2
      <4> HIDE DEF x, a
      <4>5. d.kind = x.kind
        BY <4>3, <4>4 DEF IsNode, Fields
      <4> QED
        BY <2>4, <4>2, <4>3, <4>5 DEF Fits
    <3> QED
      BY <2>4, <3>1, <3>2, SolvedCases
  <2>6. LValue(d) = Emitted(dest.ty)
    <3>1. CASE dest.kind = "Identifier"
      BY <1>10, <2>5, <3>1 DEF LValue, Fits, Value
    <3>2. CASE dest.kind = "Subscript"
      <4>1. ~isRefType(dest.ty)
        BY <1>3, <1>10, <2>5, <3>2
      <4>2. LValue(d) = codegenType(dest.ty)
        BY <1>10, <2>5, <3>2 DEF LValue, Fits
      <4> QED
        BY <4>1, <4>2 DEF Emitted
    <3> QED
      BY <2>4, <2>5, <3>1, <3>2
  <2>7. r.ir = Emitted(r.ty) /\ r.ty = dest.ty
    BY <1>2, <1>17, <2>1, <2>3, <2>6
  <2>8. /\ d.written \in Seq(Effect) /\ source.written \in Seq(Effect) /\ "store" \in Effect
        /\ d.emitted = d.written /\ source.emitted = source.written
    BY <1>10, <2>5 DEF Fits, Effect
  <2>9. r.emitted = r.written /\ r.written \in Seq(Effect)
    BY <1>2, <2>8
  <2> QED
    BY <1>2, <2>3, <2>7, <2>9 DEF Fits
<1>11. Formed(decls, es, v.node) /\ (Fits(r) => Fits(v.node)) /\ v.node.ty = r.ty
  BY <1>1, <1>8, MarkedIsFormed
<1>12. v.odd = {} => v.sema = {"ok"}
  BY <1>1, <1>3
<1>13. ~v.err => (Typed(dest) /\ Typed(source) => Mutable(dest))
  BY <1>1
<1>14. v.odd = {} => Solve(dest).kind \in {"Identifier", "Subscript"} \/ ~Assigns(dest, source)
  BY <1>1, <1>3, <1>4
<1> HIDE DEF err
<1>15. v.odd = {} /\ ~v.err /\ Value(dest) /\ (\A e \in es : Fits(e)) => Fits(v.node)
  BY <1>1, <1>10, <1>11
<1>16. Proper(dest) => Proper(v.node)
  BY <1>9, <1>11 DEF Proper
<1> QED
  BY <1>11, <1>12, <1>13, <1>14, <1>15, <1>16

(* Effects one after the other are effects. *)
LEMMA EffectSequences ==
    ASSUME NEW p \in Seq(Effect), NEW q \in Seq(Effect)
    PROVE  p \o q \in Seq(Effect)
  OBVIOUS

(* visitInfixExpr: Ints for Ints. *)
LEMMA InfixIs ==
    ASSUME NEW es, Basis(es), NEW l \in es, NEW r \in es, NEW v, v = visitInfixExpr(l, r)
    PROVE  /\ Formed(decls, es, v.node) /\ v.sema = {"ok"} /\ Proper(v.node)
           /\ Fits(l) /\ Fits(r) /\ ~v.err => Fits(v.node)
<1> DEFINE ints == Equals(l.ty, IntTy) /\ Equals(r.ty, IntTy)
           ty == IF ints THEN IntTy ELSE NoType
           e == InfixExpr(ty, l, r)
<1>1. /\ v.node = [e EXCEPT !.was = e.lets] /\ v.sema = {"ok"}
      /\ v.err <=> Typed(l) /\ Typed(r) /\ ~ints
  BY DEF visitInfixExpr, Verdict
<1>2. (ints => ty = IntTy) /\ (ty = IntTy \/ ty = NoType)
  OBVIOUS
<1>3. ints => l.ty = IntTy /\ r.ty = IntTy
  BY DEF Equals
<1> HIDE DEF ty
<1>4. /\ IsNode(e) /\ e.kind = "Infix" /\ e.ty = ty /\ e.val = 0 /\ e.items = <<>>
      /\ e.ir = IF l.ir = IntTy /\ r.ir = IntTy THEN IntTy ELSE Bad
      /\ e.root = {}
      /\ e.written = l.written \o r.written /\ e.emitted = l.emitted \o r.emitted
  BY DEF InfixExpr, Node, IsNode, Fields
<1> HIDE DEF e
<1>5. <<>> \in Seq(es) /\ 0 \in Nat
  OBVIOUS
<1>6. Formed(decls, es, e)
  BY <1>4, <1>5 DEF Formed, Folds, Clean, isLiteral
<1>7. Proper(e)
  BY <1>2, <1>4, Scalars DEF Proper
<1>8. ASSUME Fits(l), Fits(r), ints PROVE Fits(e)
  <2>1. Value(l) /\ Value(r)
    BY <1>3, <1>8 DEF Value, KindOf, IntTy, Con, NoType
  <2>2. l.ir = IntTy /\ r.ir = IntTy
    BY <1>3, <1>8, <2>1, FittingIs, EmittedScalar
  <2>3. l.written \in Seq(Effect) /\ r.written \in Seq(Effect)
        /\ l.emitted = l.written /\ r.emitted = r.written
    BY <1>8, FittingIs
  <2>4. e.emitted = e.written /\ e.written \in Seq(Effect)
    BY <1>4, <2>3, EffectSequences
  <2> QED
    BY <1>2, <1>4, <1>8, <2>2, <2>4, EmittedScalar, Scalars DEF Fits
<1>9. Fits(l) /\ Fits(r) /\ ~v.err => ints
  BY <1>1, FittingIs
<1>10. Formed(decls, es, v.node) /\ (Fits(e) => Fits(v.node)) /\ v.node.ty = e.ty
  BY <1>1, <1>6, MarkedIsFormed
<1>11. Proper(v.node)
  BY <1>7, <1>10 DEF Proper
<1> QED
  BY <1>1, <1>8, <1>9, <1>10, <1>11

(* visitPrefixExpr: an Int for an Int. *)
LEMMA PrefixIs ==
    ASSUME NEW es, Basis(es), NEW dest \in es, NEW v, v = visitPrefixExpr(dest)
    PROVE  /\ Formed(decls, es, v.node) /\ v.sema = {"ok"} /\ Proper(v.node)
           /\ v.odd = {} /\ Fits(dest) => Fits(v.node)
<1> DEFINE ints == KindOf(dest.ty) = "Int"
           ty == IF ints THEN IntTy ELSE NoType
           e == PrefixExpr(ty, dest)
           operand == Found("prefix operand", KindOf(dest.ty) \notin {"Int", "null"})
<1>1. v = Verdict(e, FALSE, operand)
  BY DEF visitPrefixExpr
<1>2. operand = {} => KindOf(dest.ty) \in {"Int", "null"}
  BY DEF Found
<1>3. (ints => ty = IntTy) /\ (ty = IntTy \/ ty = NoType)
  OBVIOUS
<1> HIDE DEF ty, operand
<1>4. /\ IsNode(e) /\ e.kind = "Prefix" /\ e.ty = ty /\ e.val = 0 /\ e.items = <<>>
      /\ e.ir = IF dest.ir = IntTy THEN IntTy ELSE Bad
      /\ e.root = {} /\ e.written = dest.written /\ e.emitted = dest.emitted
  BY DEF PrefixExpr, Node, IsNode, Fields
<1> HIDE DEF e
<1>5. v.node = [e EXCEPT !.was = e.lets] /\ v.sema = {"ok"} /\ v.odd = operand
  BY <1>1 DEF Verdict
<1>6. <<>> \in Seq(es) /\ 0 \in Nat
  OBVIOUS
<1>7. Formed(decls, es, e)
  BY <1>4, <1>6 DEF Formed, Folds, Clean, isLiteral
<1>8. Proper(e)
  BY <1>3, <1>4, Scalars DEF Proper
<1>9. ASSUME operand = {}, Fits(dest) PROVE Fits(e)
  <2>1. KindOf(dest.ty) # "null"
    <3>1. CASE IsData(dest.ty)
      BY <3>1, DataIsTyped
    <3>2. CASE dest.ty \in FunctionTypes
      BY <3>2, FunctionKind DEF FunctionTypes
    <3> QED
      BY <1>9, <3>1, <3>2 DEF Fits
  <2>2. ints
    BY <1>2, <1>9, <2>1
  <2>3. IsData(dest.ty) /\ dest.ir = Emitted(dest.ty)
    BY <1>9, <2>2, FittingIs DEF Value
  <2>4. dest.ty = IntTy
    <3>1. ~isRefType(dest.ty)
      BY <2>2 DEF isRefType
    <3>2. KindOf(VoidTy) = "Void"
      BY DEF KindOf, VoidTy, Con, NoType
    <3> QED
      BY <2>2, <2>3, <3>1, <3>2, ScalarTypes
  <2>5. dest.ir = IntTy
    BY <2>3, <2>4, EmittedScalar
  <2>6. dest.written \in Seq(Effect) /\ dest.emitted = dest.written
    BY <1>9, FittingIs
  <2> QED
    BY <1>3, <1>4, <2>2, <2>5, <2>6, EmittedScalar, Scalars DEF Fits
<1>10. Formed(decls, es, v.node) /\ (Fits(e) => Fits(v.node)) /\ v.node.ty = e.ty
  BY <1>5, <1>7, MarkedIsFormed
<1>11. Proper(v.node)
  BY <1>8, <1>10 DEF Proper
<1> QED
  BY <1>5, <1>9, <1>10, <1>11

(* visitSubscriptExpr: the address of the element is one of its LLVM type. *)
LEMMA SubscriptIs ==
    ASSUME NEW es, Basis(es), NEW base \in es, NEW index \in es,
           NEW v, v = visitSubscriptExpr(base, index)
    PROVE  /\ Formed(decls, es, v.node) /\ v.sema = {"ok"}
           /\ Proper(base) => Proper(v.node)
           /\ v.odd = {} /\ ~v.err /\ Fits(base) /\ Fits(index) => Fits(v.node)
<1>1. CASE KindOf(base.ty) # "Array"
  <2> DEFINE none == Node("Subscript", NoType)
  <2>1. Formed(decls, es, none) /\ none.ty = NoType
    <3>1. none.ty = NoType
      BY DEF Node
    <3> QED
      BY <3>1, UntypedIsFormed
  <2>2. v = Verdict(none, Typed(base), {})
    BY <1>1 DEF visitSubscriptExpr
  <2> HIDE DEF none
  <2>3. v.node = [none EXCEPT !.was = none.lets] /\ v.sema = {"ok"} /\ (v.err <=> Typed(base))
    BY <2>2 DEF Verdict
  <2>4. Formed(decls, es, v.node) /\ v.node.ty = NoType
    BY <2>1, <2>3, MarkedIsFormed
  <2> QED
    BY <2>3, <2>4, FittingIs DEF Proper
<1>2. CASE KindOf(base.ty) = "Array"
  <2> DEFINE ty == BaseOf(base.ty)
             e == SubscriptExpr(ty, base, index)
             element == ElementOf(base.ir, index.ir)
             of == Found("index type", ~Equals(index.ty, IntTy))
  <2>1. v = Verdict(e, FALSE, of)
    BY <1>2 DEF visitSubscriptExpr
  <2>2. of = {} => index.ty = IntTy
    BY DEF Found, Equals
  <2> HIDE DEF of
  <2>3. IsData(base.ty) =>
            IsData(ty) /\ ElementOf(Emitted(base.ty), IntTy) = codegenType(ty) /\ codegenType(ty) # Bad
    BY <1>2, EmittedElement
  <2> HIDE DEF ty
  <2>4. /\ IsNode(e) /\ e.kind = "Subscript" /\ e.ty = ty /\ e.val = 0
        /\ e.items = IF base.kind = "Array" /\ index.kind = "Number"
                     THEN <<base, index>> ELSE <<>>
        /\ e.ir = IF element # Bad /\ isRefType(ty) THEN Pointer(element) ELSE element
        /\ e.slot = element /\ e.lets = base.lets /\ e.root = base.root /\ e.const = FALSE
        /\ e.written = base.written \o index.written
        /\ e.emitted = base.emitted \o index.emitted
    BY DEF SubscriptExpr, Node, IsNode, Fields
  <2> HIDE DEF e
  <2>5. v.node = [e EXCEPT !.was = e.lets] /\ v.sema = {"ok"} /\ v.odd = of
    BY <2>1 DEF Verdict
  <2>6. <<>> \in Seq(es) /\ 0 \in Nat /\ <<base, index>> \in Seq(es)
        /\ Len(<<base, index>>) = 2 /\ <<base, index>>[1] = base
    OBVIOUS
  <2>7. Formed(decls, es, base)
    BY DEF Basis
  <2>8. Folds(e) => base.kind = "Array" /\ e.items = <<base, index>>
    BY <2>4 DEF Folds
  <2>9. Formed(decls, es, e)
    BY <2>4, <2>6, <2>7, <2>8 DEF Formed, isLiteral
  <2>10. Proper(base) => Proper(e)
    <3>1. isRefType(base.ty)
      BY <1>2 DEF isRefType
    <3> QED
      BY <2>3, <2>4, <3>1, ProperKinds DEF Proper
  <2>11. ASSUME of = {}, Fits(base), Fits(index) PROVE Fits(e)
    <3>1. IsData(base.ty) /\ base.ir = Emitted(base.ty)
      BY <1>2, <2>11, FittingIs DEF Value
    <3>2. index.ir = IntTy
      <4>1. Value(index)
        BY <2>2, <2>11 DEF Value, KindOf, IntTy, Con, NoType
      <4> QED
        BY <2>2, <2>11, <4>1, FittingIs, EmittedScalar
    <3>3. element = codegenType(ty) /\ element # Bad /\ IsData(ty)
      BY <2>3, <3>1, <3>2
    <3>4. e.ir = Emitted(ty)
      BY <2>4, <3>3 DEF Emitted
    <3>5. base.written \in Seq(Effect) /\ index.written \in Seq(Effect)
          /\ base.emitted = base.written /\ index.emitted = index.written
      BY <2>11, FittingIs
    <3>6. e.emitted = e.written /\ e.written \in Seq(Effect)
      BY <2>4, <3>5, EffectSequences
    <3> QED
      BY <2>4, <3>3, <3>4, <3>6 DEF Fits
  <2>12. Formed(decls, es, v.node) /\ (Fits(e) => Fits(v.node)) /\ v.node.ty = e.ty
    BY <2>5, <2>9, MarkedIsFormed
  <2>13. Proper(base) => Proper(v.node)
    BY <2>10, <2>12 DEF Proper
  <2> QED
    BY <2>5, <2>11, <2>12, <2>13
<1> QED
  BY <1>1, <1>2

(* A signature with its types resolved *)
LEMMA DeclaredIs ==
    ASSUME NEW i \in DOMAIN Sig
    PROVE  /\ Declared(i).args \in Seq(Range(Declared(i).args))
           /\ Declared(i).ret = NoType \/ IsData(Declared(i).ret)
           /\ FuncType(i).args \in Seq(Range(FuncType(i).args))
           /\ Sig[i].name \in Effect
<1> DEFINE Function == [name : STRING, args : Seq(Repr), ret : Repr, visited : BOOLEAN]
<1>1. Sig \in Seq(Function)
  BY TypesAssumption
<1> HIDE DEF Function
<1>2. Sig[i] \in Function
  BY <1>1
<1>3. Sig[i].args \in Seq(Repr) /\ Sig[i].ret \in Repr
  BY <1>2 DEF Function
<1>4. Declared(i) = [args |-> [k \in DOMAIN Sig[i].args |-> Checked(Sig[i].args[k])],
                     ret |-> Checked(Sig[i].ret)]
  BY DEF Declared, Signature
<1>5. \/ FuncType(i) = Declared(i)
      \/ FuncType(i) = [args |-> [k \in DOMAIN Sig[i].args |-> Forward(Sig[i].args[k])],
                        ret |-> Forward(Sig[i].ret)]
  BY DEF FuncType, Declared, Signature
<1>6. ASSUME NEW f, DOMAIN f = DOMAIN Sig[i].args, f = [k \in DOMAIN f |-> f[k]]
      PROVE  f \in Seq(Range(f))
  BY <1>3, <1>6 DEF Range
<1>7. Declared(i).args \in Seq(Range(Declared(i).args))
  BY <1>4, <1>6
<1>8. FuncType(i).args \in Seq(Range(FuncType(i).args))
  BY <1>5, <1>6, <1>7
<1>9. Declared(i).ret = NoType \/ IsData(Declared(i).ret)
  BY <1>3, <1>4, CheckedIs
<1>10. Sig[i].name \in Effect
  BY DEF Effect
<1> QED
  BY <1>7, <1>8, <1>9, <1>10

(* visitCallExpr: where the type checker found the arguments equal, they   *)
(* have the LLVM types of the parameters.                                  *)
LEMMA CallIs ==
    ASSUME NEW es, Basis(es), NEW callee \in es, NEW args \in Seq(es),
           NEW v, v = visitCallExpr(callee, args)
    PROVE  /\ Formed(decls, es, v.node)
           /\ Proper(callee) /\ v.odd = {} => v.sema = {"ok"} /\ Proper(v.node)
           /\ v.odd = {} /\ ~v.err /\ Fits(callee)
                 /\ (\A k \in DOMAIN args : Fits(args[k]) /\ Value(args[k])) => Fits(v.node)
<1> DEFINE none == Node("Call", NoType)
           i == callee.ty[1].n
           sig == FuncType(i)
           equal == ItemsEqual(sig.args, ArgTypes(args))
           ty == IF equal THEN sig.ret ELSE NoType
           e == CallExpr(ty, i, callee, args)
           oddities == Found("computed callee", callee.kind # "Identifier")
                       \union Found("unknown type", ~Resolves(sig))
                       \union Found("early call", sig # Declared(i))
<1>1. Formed(decls, es, none) /\ none.ty = NoType
  <2>1. none.ty = NoType
    BY DEF Node
  <2> QED
    BY <2>1, UntypedIsFormed
<1>2. CASE KindOf(callee.ty) # "Func"
  <2> DEFINE value == Found("callee no function", Typed(callee))
  <2>1. v = Verdict(none, FALSE, value)
    BY <1>2 DEF visitCallExpr
  <2>2. value = {} => ~Typed(callee)
    BY DEF Found
  <2> HIDE DEF none, value
  <2>3. v.node = [none EXCEPT !.was = none.lets] /\ v.sema = {"ok"} /\ v.odd = value
    BY <2>1 DEF Verdict
  <2>4. Formed(decls, es, v.node) /\ v.node.ty = NoType
    BY <1>1, <2>3, MarkedIsFormed
  <2> QED
    BY <2>2, <2>3, <2>4, FittingIs DEF Proper
<1>3. CASE KindOf(callee.ty) = "Func" /\ \E k \in DOMAIN args : ~Typed(args[k])
  <2>1. v = Verdict(none, FALSE, {})
    BY <1>3 DEF visitCallExpr
  <2> HIDE DEF none
  <2>2. v.node = [none EXCEPT !.was = none.lets] /\ v.sema = {"ok"}
    BY <2>1 DEF Verdict
  <2>3. Formed(decls, es, v.node) /\ v.node.ty = NoType
    BY <1>1, <2>2, MarkedIsFormed
  <2> QED
    BY <1>3, <2>2, <2>3, FittingIs DEF Proper
<1>4. CASE KindOf(callee.ty) = "Func" /\ \A k \in DOMAIN args : Typed(args[k])
  <2> DEFINE crashes == ItemsCrash(sig.args, ArgTypes(args))
  <2>1. v = [Verdict(e, ~equal, oddities) EXCEPT !.sema = IF crashes THEN {"crash"} ELSE {"ok"}]
    BY <1>4 DEF visitCallExpr, Verdict
  <2>2. oddities = {} => callee.kind = "Identifier" /\ Resolves(sig) /\ sig = Declared(i)
    BY DEF Found
  <2>3. ty = sig.ret \/ ty = NoType
    OBVIOUS
  <2>4. equal => ty = sig.ret
    OBVIOUS
  <2> HIDE DEF ty, oddities
  <2>5. /\ IsNode(e) /\ e.kind = "Call" /\ e.ty = ty /\ e.val = 0 /\ e.items = <<>>
        /\ e.root = {} /\ e.const = FALSE
        /\ e.written = callee.written \o Written(args) \o <<Sig[i].name>>
        /\ e.emitted = Emissions(args) \o <<Sig[i].name>>
    BY DEF CallExpr, Node, IsNode, Fields
  <2>6. ASSUME callee.kind = "Identifier", Len(args) = Len(Declared(i).args),
               \A k \in DOMAIN args : args[k].ir = Emitted(Declared(i).args[k])
        PROVE  e.ir = Emitted(Declared(i).ret)
    BY <2>6 DEF CallExpr, Node, IsNode, Fields
  <2> HIDE DEF e, equal, crashes
  <2>7. /\ v.node = [e EXCEPT !.was = e.lets] /\ v.odd = oddities
        /\ v.err <=> ~equal
        /\ v.sema = IF crashes THEN {"crash"} ELSE {"ok"}
    BY <2>1 DEF Verdict
  <2>8. <<>> \in Seq(es) /\ 0 \in Nat
    OBVIOUS
  <2>9. Formed(decls, es, e)
    BY <2>5, <2>8 DEF Formed, Folds, Clean, isLiteral
  <2>10. Formed(decls, es, v.node) /\ (Fits(e) => Fits(v.node)) /\ v.node.ty = e.ty
    BY <2>7, <2>9, MarkedIsFormed
  <2>11. ASSUME Proper(callee), oddities = {}
         PROVE  /\ i \in DOMAIN Sig
                /\ sig.args \in Seq(Range(sig.args)) /\ Len(sig.args) \in Nat
                /\ DOMAIN sig.args = 1 .. Len(sig.args)
                /\ IsData(sig.ret)
    <3>1. i \in DOMAIN Sig
      BY <1>4, <2>11, ProperKinds DEF Value
    <3>2. sig.args \in Seq(Range(sig.args))
      BY <3>1, DeclaredIs
    <3>3. sig.ret # NoType
      BY <2>2, <2>11 DEF Resolves
    <3> HIDE DEF i, sig
    <3>4. IsData(sig.ret)
      BY <2>2, <2>11, <3>1, <3>3, DeclaredIs
    <3> QED
      BY <3>1, <3>2, <3>4
  <2>12. DOMAIN args = 1 .. Len(args) /\ Len(args) \in Nat
    OBVIOUS
  <2> HIDE DEF i, sig
  <2>13. /\ ArgTypes(args) = [k \in 1 .. Len(args) |-> args[k].ty]
         /\ Len(ArgTypes(args)) = Len(args)
    BY <2>12 DEF ArgTypes
  <2>14. ASSUME Proper(callee), oddities = {} PROVE ~crashes
    <3>1. \A k \in DOMAIN sig.args : sig.args[k] # NoType
      BY <2>2, <2>14 DEF Resolves, Range
    <3>2. ASSUME Len(sig.args) = Len(args), NEW k \in DOMAIN sig.args
          PROVE  ~EqualsCrashes(sig.args[k], ArgTypes(args)[k])
      <4>1. k \in DOMAIN args /\ ArgTypes(args)[k] = args[k].ty
        BY <2>11, <2>12, <2>13, <2>14, <3>2
      <4>2. ArgTypes(args)[k] # NoType
        BY <1>4, <4>1 DEF Typed
      <4> QED
        BY <3>1, <3>2, <4>2 DEF EqualsCrashes
    <3> QED
      BY <2>13, <3>2 DEF crashes, ItemsCrash
  <2>15. ASSUME Proper(callee), oddities = {} PROVE Proper(e)
    BY <2>3, <2>5, <2>11, <2>15 DEF Proper
  <2>16. ASSUME oddities = {}, equal, Fits(callee),
                \A k \in DOMAIN args : Fits(args[k]) /\ Value(args[k])
         PROVE  Fits(e)
    <3>1. Proper(callee) /\ sig = Declared(i) /\ callee.kind = "Identifier"
      BY <2>2, <2>16, FittingIs
    <3>2. /\ i \in DOMAIN Sig /\ IsData(sig.ret) /\ Len(sig.args) \in Nat
          /\ DOMAIN sig.args = 1 .. Len(sig.args)
      BY <2>11, <2>16, <3>1
    <3>3. Len(sig.args) = Len(args) /\ \A k \in DOMAIN sig.args : sig.args[k] = ArgTypes(args)[k]
      BY <2>13, <2>16 DEF equal, ItemsEqual, Equals
    <3>4. ASSUME NEW k \in DOMAIN args PROVE args[k].ir = Emitted(sig.args[k])
      <4>1. k \in DOMAIN sig.args /\ ArgTypes(args)[k] = args[k].ty
        BY <2>12, <2>13, <3>2, <3>3
      <4>2. args[k].ir = Emitted(args[k].ty)
        BY <2>16, FittingIs
      <4> QED
        BY <3>3, <4>1, <4>2
    <3>5. e.ir = Emitted(sig.ret) /\ e.ty = sig.ret
      BY <2>4, <2>5, <2>6, <2>16, <3>1, <3>3, <3>4
    <3>6. callee.written = <<>>
      BY <2>16, <3>1 DEF Fits
    <3>7. Written(args) \in Seq(Effect) /\ Emissions(args) = Written(args)
      BY <2>16, EffectsOfFitting
    <3>8. Sig[i].name \in Effect
      BY <3>2, DeclaredIs
    <3>9. \A q \in Seq(Effect), x \in Effect :
              <<>> \o q \o <<x>> = q \o <<x>> /\ q \o <<x>> \in Seq(Effect)
      OBVIOUS
    <3>10. e.emitted = e.written /\ e.written \in Seq(Effect)
      BY <2>5, <3>6, <3>7, <3>8, <3>9
    <3> QED
      BY <2>5, <3>2, <3>5, <3>10 DEF Fits
  <2>17. Proper(callee) /\ v.odd = {} => v.sema = {"ok"} /\ Proper(v.node)
    BY <2>7, <2>10, <2>14, <2>15 DEF Proper
  <2> QED
    BY <2>7, <2>10, <2>16, <2>17
<1> QED
  BY <1>2, <1>3, <1>4

-----------------------------------------------------------------------------
(* The frames *)

(* The kinds of frames *)
Kinds == Statement \union
    {"Array", "InOut", "Paren", "Assign", "Infix", "Prefix", "Call", "Subscript", "Size"}

(* The types that a declaration or a return statement can have *)
FrameTypes == {NoType, None} \union {t \in Seq(Constructor) : IsData(t)}

FrameIn(es) == [kind : Kinds, kids : Seq(es), ty : FrameTypes]

(* The visitor of f has not come to its last child. *)
Open(f) == Len(f.kids) < Arity(f.kind)

(* A statement, and the nodes in it down to the one that is visited; their *)
(* children are in es.                                                     *)
Shaped(fs, es) ==
    /\ fs \in Seq(FrameIn(es))
    /\ \A i \in DOMAIN fs :
          /\ (i = 1) <=> (fs[i].kind \in Statement)
          /\ Len(fs[i].kids) <= Arity(fs[i].kind)
          /\ i < Len(fs) => Open(fs[i])

(* A function is no value, but it may be called. *)
Placed(fs) ==
    \A i \in DOMAIN fs : \A j \in DOMAIN fs[i].kids :
        Value(fs[i].kids[j]) \/ fs[i].kind = "Paren" \/ (fs[i].kind = "Call" /\ j = 1)

(* Every kind of frame has a number of children. *)
LEMMA ArityIs ==
    ASSUME NEW kind \in Kinds
    PROVE  Arity(kind) \in Nat /\ (kind # "Array" => Arity(kind) > 0)
  BY ExprAssumption DEF Kinds, Statement, Arity

(* The fields of a frame. *)
LEMMA FrameIs ==
    ASSUME NEW es, NEW f \in FrameIn(es)
    PROVE  /\ f = [kind |-> f.kind, kids |-> f.kids, ty |-> f.ty]
           /\ f.kind \in Kinds /\ f.kids \in Seq(es) /\ f.ty \in FrameTypes
           /\ Len(f.kids) \in Nat /\ DOMAIN f.kids = 1 .. Len(f.kids)
<1>1. /\ f = [kind |-> f.kind, kids |-> f.kids, ty |-> f.ty]
      /\ f.kind \in Kinds /\ f.kids \in Seq(es) /\ f.ty \in FrameTypes
  BY DEF FrameIn
<1> QED
  BY <1>1

(* The innermost frame, and its children. *)
LEMMA TopIs ==
    ASSUME NEW es, Shaped(frames, es), frames # <<>>
    PROVE  /\ Len(frames) \in DOMAIN frames /\ Len(frames) \in Nat
           /\ Top = frames[Len(frames)] /\ Top \in FrameIn(es)
           /\ Top.kids \in Seq(es) /\ Top.kind \in Kinds /\ Top.ty \in FrameTypes
           /\ Len(Top.kids) \in Nat /\ DOMAIN Top.kids = 1 .. Len(Top.kids)
           /\ \A j \in DOMAIN Top.kids : Top.kids[j] \in es
           /\ Len(Top.kids) <= Arity(Top.kind)
<1>1. frames \in Seq(FrameIn(es))
  BY DEF Shaped
<1>2. Len(frames) \in DOMAIN frames /\ Len(frames) \in Nat
  BY <1>1
<1>3. Top = frames[Len(frames)]
  BY DEF Top
<1> DEFINE f == Top
<1>4. f \in FrameIn(es)
  BY <1>1, <1>2, <1>3
<1>5. Len(f.kids) <= Arity(f.kind)
  BY <1>2, <1>3 DEF Shaped
<1> HIDE DEF f
<1>6. /\ f.kind \in Kinds /\ f.kids \in Seq(es) /\ f.ty \in FrameTypes
      /\ Len(f.kids) \in Nat /\ DOMAIN f.kids = 1 .. Len(f.kids)
  BY <1>4, FrameIs
<1>7. \A j \in DOMAIN f.kids : f.kids[j] \in es
  BY <1>6
<1> QED
  BY <1>2, <1>3, <1>4, <1>5, <1>6, <1>7 DEF f

(* The frames around it are waiting for another child. *)
LEMMA RestIs ==
    ASSUME NEW es, Shaped(frames, es), frames # <<>>, Top.kind \notin Statement
    PROVE  /\ Shaped(Rest, es) /\ Rest # <<>> /\ Open(Rest[Len(Rest)])
           /\ Placed(frames) => Placed(Rest)
<1>1. frames \in Seq(FrameIn(es))
  BY DEF Shaped
<1>2. Len(frames) \in DOMAIN frames /\ Len(frames) \in Nat /\ Top = frames[Len(frames)]
  BY TopIs
<1>3. Len(frames) # 1
  BY <1>2 DEF Shaped
<1> DEFINE k == Len(frames)
           l == k - 1
<1>a. k \in Nat /\ k # 1 /\ k > 0
  BY <1>1, <1>2, <1>3
<1>b. l \in Nat /\ l > 0 /\ k = l + 1
  <2> HIDE DEF k
  <2> QED
    BY <1>a
<1>4. l \in Nat /\ l > 0 /\ Len(frames) = l + 1
  BY <1>b
<1> HIDE DEF l, k
<1>5. Rest = SubSeq(frames, 1, l)
  BY <1>4 DEF Rest, Front
<1>6. /\ Rest \in Seq(FrameIn(es)) /\ Len(Rest) = l /\ DOMAIN Rest = 1 .. l
      /\ \A i \in 1 .. l : Rest[i] = frames[i] /\ i \in DOMAIN frames
  BY <1>1, <1>4, <1>5
<1>7. \A i \in 1 .. l : i < Len(frames)
  BY <1>4
<1> HIDE DEF Rest
<1>8. Shaped(Rest, es)
  BY <1>4, <1>6, <1>7 DEF Shaped
<1>9. l \in 1 .. l
  BY <1>4
<1>10. Rest # <<>> /\ Open(Rest[Len(Rest)])
  BY <1>4, <1>6, <1>7, <1>9 DEF Shaped
<1>11. Placed(frames) => Placed(Rest)
  BY <1>6 DEF Placed
<1> QED
  BY <1>8, <1>10, <1>11

(* Frames keep their shape when nodes are added. *)
LEMMA GrownShape ==
    ASSUME NEW fs, NEW es, NEW et, es \subseteq et, Shaped(fs, es)
    PROVE  Shaped(fs, et)
<1>1. \A q : q \in Seq(es) => q \in Seq(et)
  OBVIOUS
<1>2. FrameIn(es) \subseteq FrameIn(et)
  BY <1>1 DEF FrameIn
<1>3. \A q : q \in Seq(FrameIn(es)) => q \in Seq(FrameIn(et))
  BY <1>2
<1> QED
  BY <1>3 DEF Shaped

(* The visitor of a node with children comes to the first. *)
LEMMA PushedShape ==
    ASSUME NEW es, Shaped(frames, es), frames # <<>>, Open(Top),
           NEW kind \in Kinds \ Statement
    PROVE  /\ Shaped(Append(frames, Frame(kind)), es)
           /\ Placed(frames) => Placed(Append(frames, Frame(kind)))
<1> DEFINE f == Frame(kind)
           fs == Append(frames, f)
           l == Len(frames)
<1>1. f.kind = kind /\ f.kids = <<>> /\ f \in FrameIn(es) /\ Len(f.kids) = 0
  BY DEF Frame, FrameIn, FrameTypes
<1>2. Arity(kind) \in Nat
  BY ArityIs
<1>3. frames \in Seq(FrameIn(es)) /\ l \in Nat /\ l > 0
  BY DEF Shaped
<1>4. Top = frames[l]
  BY DEF Top
<1> HIDE DEF f
<1>5. /\ fs \in Seq(FrameIn(es)) /\ Len(fs) = l + 1 /\ DOMAIN fs = 1 .. l + 1
      /\ fs[l + 1] = f /\ \A i \in 1 .. l : fs[i] = frames[i] /\ i \in DOMAIN frames
  BY <1>1, <1>3
<1> HIDE DEF fs
<1>6. ASSUME NEW i \in DOMAIN fs
      PROVE  /\ (i = 1) <=> (fs[i].kind \in Statement)
             /\ Len(fs[i].kids) <= Arity(fs[i].kind)
             /\ i < Len(fs) => Open(fs[i])
  <2>1. CASE i = l + 1
    BY <2>1, <1>1, <1>2, <1>3, <1>5
  <2>2. CASE i \in 1 .. l
    <3>1. fs[i] = frames[i] /\ i \in DOMAIN frames
      BY <1>5, <2>2
    <3>2. i = l \/ i < l
      BY <1>3, <2>2
    <3>3. Open(fs[i])
      BY <1>4, <3>1, <3>2 DEF Shaped
    <3> HIDE DEF l
    <3> QED
      BY <3>1, <3>3 DEF Shaped
  <2> QED
    BY <2>1, <2>2, <1>3, <1>5
<1>7. Shaped(fs, es)
  BY <1>5, <1>6 DEF Shaped
<1>8. DOMAIN f.kids = {}
  BY <1>1
<1>9. Placed(frames) => Placed(fs)
  <2> HIDE DEF l
  <2>1. \A i \in DOMAIN fs : i = l + 1 \/ i \in 1 .. l
    BY <1>3, <1>5
  <2> QED
    BY <1>5, <1>8, <2>1 DEF Placed
<1> QED
  BY <1>7, <1>9 DEF fs, f

(* It has not more children than there are. *)
Within(f) == Len(f.kids) <= Arity(f.kind)

(* A frame with another child. *)
LEMMA FilledFrame ==
    ASSUME NEW es, NEW f \in FrameIn(es), Open(f), NEW r \in es,
           NEW g, g = [f EXCEPT !.kids = Append(f.kids, r)]
    PROVE  /\ g \in FrameIn(es) /\ g.kind = f.kind /\ Within(g)
           /\ Len(f.kids) \in Nat
           /\ \A j \in DOMAIN g.kids : \/ j = Len(f.kids) + 1 /\ g.kids[j] = r
                                       \/ j \in DOMAIN f.kids /\ g.kids[j] = f.kids[j]
<1>3. Len(f.kids) < Arity(f.kind)
  BY DEF Open
<1>4. /\ f = [kind |-> f.kind, kids |-> f.kids, ty |-> f.ty]
      /\ f.kind \in Kinds /\ f.kids \in Seq(es) /\ f.ty \in FrameTypes
      /\ Len(f.kids) \in Nat /\ DOMAIN f.kids = 1 .. Len(f.kids)
  BY FrameIs
<1>5. /\ Append(f.kids, r) \in Seq(es) /\ Len(Append(f.kids, r)) = Len(f.kids) + 1
      /\ DOMAIN Append(f.kids, r) = 1 .. Len(f.kids) + 1
      /\ Append(f.kids, r)[Len(f.kids) + 1] = r
      /\ \A j \in 1 .. Len(f.kids) : Append(f.kids, r)[j] = f.kids[j]
  BY <1>4
<1>6. Arity(f.kind) \in Nat
  BY <1>4, ArityIs
<1>7. /\ g.kind = f.kind /\ g.kids = Append(f.kids, r) /\ g \in FrameIn(es)
  BY <1>4, <1>5 DEF FrameIn
<1>8. Within(g)
  BY <1>3, <1>4, <1>5, <1>6, <1>7 DEF Within
<1> QED
  BY <1>4, <1>5, <1>7, <1>8

(* A sequence with another last element. *)
LEMMA LastReplaced ==
    ASSUME NEW X, NEW fs \in Seq(X), NEW l \in Nat, l = Len(fs), l > 0, NEW g \in X,
           NEW gs, gs = [fs EXCEPT ![l] = g]
    PROVE  /\ gs \in Seq(X) /\ Len(gs) = l /\ DOMAIN gs = 1 .. l /\ DOMAIN fs = 1 .. l
           /\ l \in 1 .. l /\ gs[l] = g /\ \A i \in 1 .. l : i # l => gs[i] = fs[i]
<1>1. DOMAIN fs = 1 .. l /\ \A i \in 1 .. l : fs[i] \in X
  OBVIOUS
<1>2. DOMAIN gs = 1 .. l /\ \A i \in 1 .. l : gs[i] = IF i = l THEN g ELSE fs[i]
  BY <1>1
<1>3. l \in 1 .. l
  OBVIOUS
<1>4. \A i \in 1 .. l : gs[i] \in X
  BY <1>1, <1>2
<1>5. gs \in [1 .. l -> X]
  <2>1. gs = [i \in 1 .. l |-> gs[i]]
    BY <1>1
  <2> QED
    BY <2>1, <1>4
<1>6. gs \in Seq(X) /\ Len(gs) = l
  BY <1>5
<1> QED
  BY <1>1, <1>2, <1>3, <1>6

(* The frames fs with another child in the innermost *)
Filled(fs, r) == [fs EXCEPT ![Len(fs)].kids = Append(@, r)]

(* The innermost frame gets a child that may stand there. *)
LEMMA FilledShape ==
    ASSUME NEW es, NEW fs, Shaped(fs, es), fs # <<>>, Open(Last(fs)), NEW r \in es
    PROVE  /\ Shaped(Filled(fs, r), es)
           /\ Placed(fs) /\ (Value(r) \/ Last(fs).kind = "Paren"
                          \/ (Last(fs).kind = "Call" /\ Last(fs).kids = <<>>))
                 => Placed(Filled(fs, r))
<1>1. PICK l \in Nat : l = Len(fs) /\ l > 0 /\ l \in DOMAIN fs
  BY DEF Shaped
<1>f. PICK f : f = Last(fs) /\ f = fs[l]
  BY <1>1 DEF Last
<1>2. fs \in Seq(FrameIn(es)) /\ f \in FrameIn(es) /\ Open(f)
  BY <1>1, <1>f DEF Shaped
<1>3. PICK g : g = [f EXCEPT !.kids = Append(f.kids, r)]
  OBVIOUS
<1>g. PICK gs : gs = Filled(fs, r)
  OBVIOUS
<1>4. gs = [fs EXCEPT ![l] = g]
  BY <1>1, <1>3, <1>f, <1>g DEF Filled
<1>5. ((l = 1) <=> (f.kind \in Statement))
  BY <1>1, <1>f DEF Shaped
<1>5a. g \in FrameIn(es) /\ g.kind = f.kind
  BY <1>2, <1>3, FilledFrame
<1>5b. Len(f.kids) \in Nat
  BY <1>2, FrameIs
<1>5d. Within(g)
  BY <1>2, <1>3, FilledFrame
<1>5c. ASSUME NEW j \in DOMAIN g.kids
       PROVE  \/ j = Len(f.kids) + 1 /\ g.kids[j] = r
              \/ j \in DOMAIN f.kids /\ g.kids[j] = f.kids[j]
  BY <1>2, <1>3, FilledFrame
<1>6. /\ g \in FrameIn(es) /\ g.kind = f.kind /\ Len(g.kids) <= Arity(g.kind)
      /\ Len(f.kids) \in Nat
      /\ \A j \in DOMAIN g.kids : \/ j = Len(f.kids) + 1 /\ g.kids[j] = r
                                  \/ j \in DOMAIN f.kids /\ g.kids[j] = f.kids[j]
  BY <1>5a, <1>5b, <1>5c, <1>5d DEF Within
<1>7. \A i \in DOMAIN fs : /\ (i = 1) <=> (fs[i].kind \in Statement)
                           /\ Len(fs[i].kids) <= Arity(fs[i].kind)
                           /\ i < l => Open(fs[i])
  BY <1>1 DEF Shaped
<1>10. /\ gs \in Seq(FrameIn(es)) /\ Len(gs) = l /\ DOMAIN gs = 1 .. l /\ DOMAIN fs = 1 .. l
       /\ gs[l] = g /\ \A i \in 1 .. l : i # l => gs[i] = fs[i]
  BY <1>1, <1>2, <1>4, <1>6, LastReplaced
<1>12. Shaped(gs, es)
  <2>1. ASSUME NEW i \in DOMAIN gs
        PROVE  /\ (i = 1) <=> (gs[i].kind \in Statement)
               /\ Len(gs[i].kids) <= Arity(gs[i].kind)
               /\ i < l => Open(gs[i])
    <3>1. CASE i = l
      BY <3>1, <1>1, <1>5, <1>6, <1>10
    <3>2. CASE i # l
      BY <3>2, <1>1, <1>7, <1>10
    <3> QED
      BY <3>1, <3>2
  <2> QED
    BY <1>10, <2>1 DEF Shaped
<1>13. ASSUME Placed(fs), Value(r) \/ f.kind = "Paren" \/ (f.kind = "Call" /\ f.kids = <<>>)
       PROVE  Placed(gs)
  <2>1. ASSUME NEW j \in DOMAIN g.kids
        PROVE  Value(g.kids[j]) \/ g.kind = "Paren" \/ (g.kind = "Call" /\ j = 1)
    <3>1. CASE j = Len(f.kids) + 1 /\ g.kids[j] = r
      <4>1. f.kids = <<>> => j = 1
        BY <3>1
      <4> QED
        BY <3>1, <4>1, <1>6, <1>13
    <3>2. CASE j \in DOMAIN f.kids /\ g.kids[j] = f.kids[j]
      <4>1. Value(f.kids[j]) \/ f.kind = "Paren" \/ (f.kind = "Call" /\ j = 1)
        BY <3>2, <1>1, <1>f, <1>13 DEF Placed
      <4> QED
        BY <3>2, <4>1, <1>6
    <3> QED
      BY <3>1, <3>2, <1>6
  <2>2. ASSUME NEW i \in DOMAIN gs, i # l
        PROVE  gs[i] = fs[i] /\ i \in DOMAIN fs
    BY <2>2, <1>1, <1>10
  <2>3. ASSUME NEW i \in DOMAIN gs, NEW j \in DOMAIN gs[i].kids
        PROVE  Value(gs[i].kids[j]) \/ gs[i].kind = "Paren" \/ (gs[i].kind = "Call" /\ j = 1)
    <3>1. CASE i = l
      BY <3>1, <2>1, <1>10
    <3>2. CASE i # l
      BY <3>2, <2>2, <1>13 DEF Placed
    <3> QED
      BY <3>1, <3>2
  <2> QED
    BY <2>3 DEF Placed
<1>14. Shaped(Filled(fs, r), es)
  BY <1>12, <1>g
<1>15. ASSUME Placed(fs), Value(r) \/ Last(fs).kind = "Paren"
                       \/ (Last(fs).kind = "Call" /\ Last(fs).kids = <<>>)
       PROVE  Placed(Filled(fs, r))
  <2>1. Value(r) \/ f.kind = "Paren" \/ (f.kind = "Call" /\ f.kids = <<>>)
    BY <1>15, <1>f
  <2>2. Placed(gs)
    BY <2>1, <1>13, <1>15
  <2> QED
    BY <2>2, <1>g
<1> QED
  BY <1>14, <1>15

-----------------------------------------------------------------------------
(* typeCheckExpr returns to the innermost frame *)

(* The solver keeps types proper. *)
LEMMA SolvedIsProper ==
    ASSUME NEW es, Basis(es), \A x \in es : Proper(x),
           NEW e, Formed(decls, es, e), Proper(e)
    PROVE  Proper(Solve(e))
<1>1. CASE Solve(e) = e
  BY <1>1
<1>2. ASSUME NEW x \in es, Solve(e).ty = x.ty
      PROVE  Proper(Solve(e))
  BY <1>2 DEF Proper
<1>4. CASE /\ e.kind = "Identifier" /\ e.name \in DOMAIN decls
           /\ isLiteral(decls[e.name].value)
           /\ Solve(e) = [decls[e.name].value EXCEPT
                             !.was = e.lets, !.root = {<<r[1], "copy">> : r \in e.root},
                             !.written = <<>>]
  <2>1. decls[e.name].value \in es
    BY <1>4 DEF Basis, IsDecl
  <2>2. PICK x \in es : x = decls[e.name].value
    BY <2>1
  <2>3. IsNode(x)
    BY DEF Basis, Formed
  <2>4. PICK root : root = {<<r[1], "copy">> : r \in e.root}
    OBVIOUS
  <2>5. Solve(e) = [x EXCEPT !.was = e.lets, !.root = root, !.written = <<>>]
    BY <1>4, <2>2, <2>4
  <2>6. Solve(e).ty = x.ty
    BY <2>3, <2>5 DEF IsNode, Fields
  <2> QED
    BY <1>2, <2>6
<1>5. CASE /\ Folds(e) /\ Index(e) < Length(e)
           /\ Solve(e) = [e.items[1].items[Index(e) + 1] EXCEPT
                             !.was = e.lets, !.root = e.root, !.written = e.written]
  <2>1. PICK x \in es : x = e.items[1].items[Index(e) + 1]
    BY <1>5, FoldedItem
  <2>2. IsNode(x)
    BY DEF Basis, Formed
  <2>3. Solve(e) = [x EXCEPT !.was = e.lets, !.root = e.root, !.written = e.written]
    BY <1>5, <2>1
  <2>4. Solve(e).ty = x.ty
    BY <2>2, <2>3 DEF IsNode, Fields
  <2> QED
    BY <1>2, <2>4
<1> QED
  BY <1>1, <1>4, <1>5, SolvedCases

(* What typeCheckExpr leaves in the frames fs for v *)
Follows(fs, v, r) ==
    /\ frames' = Filled(fs, r)
    /\ ~error' => ~error /\ ~v.err
    /\ odd' = {} => odd = {} /\ v.odd = {} /\ PlaceOdd(Last(fs), r) = {}
    /\ odd \subseteq odd'
    /\ error' \in BOOLEAN
    /\ odd' = {} /\ v.sema = {"ok"} => sema' = "ok"
    /\ sema' \in {"crash"} \union v.sema

(* Nothing is odd about the place: a value, or a function where it is      *)
(* called.                                                                 *)
LEMMA PlacedWell ==
    ASSUME NEW f, NEW r, PlaceOdd(f, r) = {}
    PROVE  Value(r) \/ f.kind = "Paren" \/ (f.kind = "Call" /\ f.kids = <<>>)
<1>1. "function as value" \notin PlaceOdd(f, r)
  OBVIOUS
<1> QED
  BY <1>1 DEF PlaceOdd, Value

(* Deliver gives the innermost frame a child that is formed, and that fits *)
(* if the visitor's node did and nothing is odd.                           *)
LEMMA DeliverIs ==
    ASSUME NEW es, Basis(es), NEW fs, NEW v, Formed(decls, es, v.node), Deliver(fs, v)
    PROVE  \E r :
              /\ Follows(fs, v, r)
              /\ Formed(decls, es, r)
              /\ (Proper(v.node) /\ \A x \in es : Proper(x)) => Proper(r)
              /\ (odd' = {} /\ Fits(v.node) /\ \A x \in es : Fits(x)) => Fits(r)
<1>1. PICK f, e : f = Last(fs) /\ e = v.node
  OBVIOUS
<1>2. PICK solved \in BOOLEAN : solved <=> (Typed(e) /\ ~(f.kind = "Assign" /\ f.kids = <<>>))
  OBVIOUS
<1>3. PICK r : r = IF solved THEN Solve(e) ELSE e
  OBVIOUS
<1>4. /\ frames' = [fs EXCEPT ![Len(fs)].kids = Append(@, r)]
      /\ error' = (error \/ v.err \/ (solved /\ Folds(e) /\ OutOfBounds(e)))
      /\ sema' \in IF solved /\ PastTheEnd(e) THEN {"crash"} ELSE v.sema
      /\ odd' = odd \union v.odd \union PlaceOdd(f, r)
                    \union (IF solved THEN SolveOdd(e) ELSE {})
  BY <1>1, <1>2, <1>3 DEF Deliver, Last
<1>5. odd' = {} => odd = {} /\ v.odd = {} /\ PlaceOdd(f, r) = {}
                   /\ (solved => SolveOdd(e) = {})
  BY <1>4
<1>6. SolveOdd(e) = {} => ~PastTheEnd(e)
  BY DEF SolveOdd
<1>7. odd' = {} /\ v.sema = {"ok"} => sema' = "ok"
  BY <1>4, <1>5, <1>6
<1>8. Follows(fs, v, r)
  BY <1>1, <1>4, <1>5, <1>7 DEF Follows, Filled
<1>9. Formed(decls, es, r)
  BY <1>1, <1>3, SolvedIsFormed
<1>10. (Proper(v.node) /\ \A x \in es : Proper(x)) => Proper(r)
  BY <1>1, <1>3, SolvedIsProper
<1>11. (odd' = {} /\ Fits(v.node) /\ \A x \in es : Fits(x)) => Fits(r)
  BY <1>1, <1>3, <1>5, SolvedFits
<1> QED
  BY <1>8, <1>9, <1>10, <1>11

-----------------------------------------------------------------------------
(* The body so far is made of the nodes es *)

(* The size of a dimension is visited for a type of data. *)
Sizes(fs) == \A i, k \in DOMAIN fs : i = k + 1 /\ fs[i].kind = "Size" => IsData(fs[k].ty)

BodyOf(es) ==
    /\ Shaped(frames, es) /\ Sizes(frames) /\ Basis(es)
    /\ odd = {} => /\ \A e \in es : Proper(e)
                   /\ \A n \in DOMAIN decls : IsData(decls[n].ty)
                   /\ Placed(frames)
    /\ Accepted => \A e \in es : Fits(e)

(* What a step may do to the declarations *)
DeclsKept(es) ==
    /\ DOMAIN decls \subseteq DOMAIN decls'
    /\ \A n \in DOMAIN decls : decls'[n].let = decls[n].let
    /\ \A n \in DOMAIN decls' : IsDecl(decls', es, decls'[n])
    /\ odd' = {} => \A n \in DOMAIN decls' : IsData(decls'[n].ty)

(* A declaration stays one when nodes and declarations are added. *)
LEMMA DeclGrows ==
    ASSUME NEW ds, NEW es, NEW dt, NEW et, NEW d, IsDecl(ds, es, d),
           es \subseteq et, DOMAIN ds \subseteq DOMAIN dt
    PROVE  IsDecl(dt, et, d)
<1>1. Origins(ds) \subseteq Origins(dt)
  BY DEF Origins
<1>2. d.root \subseteq Origins(dt)
  BY <1>1 DEF IsDecl
<1>3. /\ d = Decl(d.let, d.ty, d.value, d.root) /\ d.let \in BOOLEAN
      /\ (~d.let => Clean(d.root)) /\ (isLiteral(d.value) => d.value \in et)
  BY DEF IsDecl
<1> QED
  BY <1>2, <1>3 DEF IsDecl

(* A step that leaves the declarations alone keeps them. *)
LEMMA SameDecls ==
    ASSUME NEW es, BodyOf(es), UNCHANGED decls, odd' = {} => odd = {}
    PROVE  DeclsKept(es)
  BY DEF BodyOf, Basis, DeclsKept

(* A step that adds good nodes, and keeps the shape of the frames, keeps   *)
(* the body good.                                                          *)
LEMMA BodyStep ==
    ASSUME NEW es, BodyOf(es), Running, NEW et, es \subseteq et,
           Shaped(frames', et), Sizes(frames'), DeclsKept(es),
           \A e \in et : e \in es \/ Formed(decls, es, e),
           ~error' => ~error, odd' = {} => odd = {},
           odd' = {} => Placed(frames') /\ \A e \in et : e \in es \/ Proper(e),
           Accepted' => \A e \in et : e \in es \/ Fits(e)
    PROVE  BodyOf(et)'
<1>1. ASSUME NEW e \in et
      PROVE  Formed(decls', et, e)
  <2>1. Formed(decls, es, e)
    BY DEF BodyOf, Basis
  <2> QED
    BY <2>1, FormedGrows DEF DeclsKept
<1>2. ASSUME NEW n \in DOMAIN decls'
      PROVE  IsDecl(decls', et, decls'[n])
  <2>1. IsDecl(decls', es, decls'[n])
    BY DEF DeclsKept
  <2> QED
    BY <2>1, DeclGrows
<1>3. Basis(et)'
  BY <1>1, <1>2 DEF Basis
<1>4. odd' = {} => /\ \A e \in et : Proper(e)
                   /\ \A n \in DOMAIN decls' : IsData(decls'[n].ty)
                   /\ Placed(frames')
  BY DEF BodyOf, DeclsKept
<1>5. Accepted' => Accepted
  BY DEF Accepted, Running
<1>6. Accepted' => \A e \in et : Fits(e)
  BY <1>5 DEF BodyOf
<1> QED
  BY <1>3, <1>4, <1>6 DEF BodyOf

(* A child changes no type that a size is for. *)
LEMMA FilledSizes ==
    ASSUME NEW es, NEW fs, Shaped(fs, es), fs # <<>>, Sizes(fs), NEW r
    PROVE  Sizes(Filled(fs, r))
<1>1. fs \in Seq(FrameIn(es)) /\ Len(fs) \in DOMAIN fs
  BY DEF Shaped
<1>2. /\ DOMAIN Filled(fs, r) = DOMAIN fs
      /\ Filled(fs, r)[Len(fs)] = [fs[Len(fs)] EXCEPT !.kids = Append(@, r)]
      /\ \A i \in DOMAIN fs : i # Len(fs) => Filled(fs, r)[i] = fs[i]
  BY <1>1 DEF Filled
<1>3. fs[Len(fs)] \in FrameIn(es)
  BY <1>1
<1>4. /\ Filled(fs, r)[Len(fs)].kind = fs[Len(fs)].kind
      /\ Filled(fs, r)[Len(fs)].ty = fs[Len(fs)].ty
  BY <1>2, <1>3 DEF FrameIn
<1>5. \A i \in DOMAIN fs : /\ Filled(fs, r)[i].kind = fs[i].kind
                           /\ Filled(fs, r)[i].ty = fs[i].ty
  BY <1>2, <1>4
<1> QED
  BY <1>2, <1>5 DEF Sizes

(* What is known of the body when the visitor with the verdict v returns *)
Returned(v) ==
    /\ ~error' => ~error /\ ~v.err
    /\ odd' = {} => odd = {} /\ v.odd = {} /\ sema' = "ok"
    /\ error' \in BOOLEAN
    /\ sema' \in {"crash"} \union v.sema

(* A visitor whose node is good returns to a body that is good. *)
LEMMA Delivered ==
    ASSUME NEW es, BodyOf(es), Running,
           NEW fs, Shaped(fs, es), Sizes(fs), Placed(frames) => Placed(fs), fs # <<>>,
           Open(Last(fs)),
           NEW v, Formed(decls, es, v.node), Deliver(fs, v), DeclsKept(es),
           odd = {} /\ v.odd = {} => v.sema = {"ok"} /\ Proper(v.node),
           Accepted /\ v.odd = {} /\ ~v.err => Fits(v.node)
    PROVE  (\E et : BodyOf(et)') /\ Returned(v)
<1>1. Basis(es)
  BY DEF BodyOf
<1>2. PICK r :
         /\ Follows(fs, v, r)
         /\ Formed(decls, es, r)
         /\ (Proper(v.node) /\ \A x \in es : Proper(x)) => Proper(r)
         /\ (odd' = {} /\ Fits(v.node) /\ \A x \in es : Fits(x)) => Fits(r)
  BY <1>1, DeliverIs
<1>3. Returned(v)
  BY <1>2 DEF Follows, Returned
<1>4. PICK et : et = es \union {r}
  OBVIOUS
<1>5. es \subseteq et /\ r \in et /\ \A e \in et : e \in es \/ e = r
  BY <1>4
<1>6. Shaped(fs, et)
  BY <1>5, GrownShape
<1>7. frames' = Filled(fs, r)
  BY <1>2 DEF Follows
<1>8. Shaped(frames', et) /\ Sizes(frames')
  BY <1>5, <1>6, <1>7, FilledShape, FilledSizes
<1>9. odd' = {} => odd = {} /\ v.odd = {} /\ PlaceOdd(Last(fs), r) = {}
  BY <1>2 DEF Follows
<1>10. odd' = {} => Proper(r)
  BY <1>2, <1>9 DEF BodyOf
<1>11. ASSUME odd' = {}
       PROVE  Placed(frames')
  <2>1. Placed(fs)
    BY <1>9, <1>11 DEF BodyOf
  <2>2. Value(r) \/ Last(fs).kind = "Paren"
                 \/ (Last(fs).kind = "Call" /\ Last(fs).kids = <<>>)
    BY <1>9, <1>11, PlacedWell
  <2> QED
    BY <2>1, <2>2, <1>5, <1>6, <1>7, FilledShape
<1>12. ASSUME Accepted'
       PROVE  Fits(r)
  <2>1. Accepted /\ odd' = {} /\ ~v.err /\ v.odd = {}
    BY <1>3, <1>9, <1>12 DEF Accepted, Returned, Running
  <2> QED
    BY <2>1, <1>2 DEF BodyOf
<1>13. /\ \A e \in et : e \in es \/ Formed(decls, es, e)
       /\ ~error' => ~error
       /\ odd' = {} => odd = {}
       /\ odd' = {} => Placed(frames') /\ \A e \in et : e \in es \/ Proper(e)
       /\ Accepted' => \A e \in et : e \in es \/ Fits(e)
  BY <1>2, <1>3, <1>5, <1>9, <1>10, <1>11, <1>12 DEF Returned
<1>14. BodyOf(et)'
  BY <1>5, <1>8, <1>13, BodyStep
<1> QED
  BY <1>3, <1>14

-----------------------------------------------------------------------------
(* What can be odd, and how the visitors end *)

(* A verdict can end in these ways. *)
Ends(v) == v.odd \subseteq Odd /\ v.sema \subseteq {"ok", "crash"} /\ v.sema # {}

(* The ends of a verdict, *)
LEMMA VerdictEnds ==
    ASSUME NEW e, NEW err, NEW oddities \in SUBSET Odd
    PROVE  /\ Ends(Verdict(e, err, oddities))
           /\ \A s \in SUBSET {"ok", "crash"} :
                 s # {} => Ends([Verdict(e, err, oddities) EXCEPT !.sema = s])
  BY DEF Ends, Verdict

(* of what is found odd, *)
LEMMA FoundIs ==
    ASSUME NEW o \in Odd, NEW is
    PROVE  Found(o, is) \in SUBSET Odd
  BY DEF Found

(* and of the visitors that find something odd or may crash. *)
LEMMA ArrayEnds == ASSUME NEW kids PROVE Ends(visitArrayLiteralExpr(kids))
<1>1. {"undefined item"} \in SUBSET Odd /\ {"mixed items"} \in SUBSET Odd /\ {} \in SUBSET Odd
  BY DEF Odd
<1>2. \A is : Found("computed items", is) \in SUBSET Odd
  BY FoundIs DEF Odd
<1>3. \A e, err : Ends([Verdict(e, err, {"undefined item"}) EXCEPT !.sema = {"ok", "crash"}])
  BY <1>1, VerdictEnds
<1> QED
  BY <1>1, <1>2, <1>3, VerdictEnds DEF visitArrayLiteralExpr

(* A verdict with a crash in some cases. *)
LEMMA StoppedEnds ==
    ASSUME NEW e, NEW err, NEW o \in SUBSET Odd, NEW b,
           NEW v, v = [Verdict(e, err, o) EXCEPT !.sema = IF b THEN {"crash"} ELSE @]
    PROVE  Ends(v)
  BY DEF Ends, Verdict

(* visitAssignExpr *)
LEMMA AssignEnds == ASSUME NEW dest, NEW source PROVE Ends(visitAssignExpr(dest, source))
<1>1. "stray target" \in Odd /\ "array element" \in Odd /\ "past the end" \in Odd
  BY DEF Odd
<1> DEFINE assigns == Assigns(dest, source)
           typed == Typed(dest) /\ Typed(source)
           d == IF assigns THEN Solve(dest) ELSE dest
           o == Found("stray target", d.kind \notin {"Identifier", "Subscript"})
                \union Found("array element", d.kind = "Subscript" /\ isRefType(dest.ty))
                \union Found("past the end", PastTheEnd(dest))
           e == AssignExpr(IF assigns THEN dest.ty ELSE NoType, d, source)
           err == \/ typed /\ (~assigns \/ ~Mutable(dest))
                  \/ assigns /\ Folds(dest) /\ OutOfBounds(dest)
           b == assigns /\ PastTheEnd(dest)
           v == visitAssignExpr(dest, source)
<1>2. o \in SUBSET Odd
  BY <1>1 DEF Found
<1>3. v = [Verdict(e, err, o) EXCEPT !.sema = IF b THEN {"crash"} ELSE @]
  BY DEF visitAssignExpr
<1> HIDE DEF e, err, o, b, v
<1>4. Ends(v)
  BY <1>2, <1>3, StoppedEnds
<1> QED
  BY <1>4 DEF v

(* visitPrefixExpr *)
LEMMA PrefixEnds == ASSUME NEW dest PROVE Ends(visitPrefixExpr(dest))
<1>1. \A is : Found("prefix operand", is) \in SUBSET Odd
  BY FoundIs DEF Odd
<1> QED
  BY <1>1, VerdictEnds DEF visitPrefixExpr

(* visitSubscriptExpr *)
LEMMA SubscriptEnds == ASSUME NEW base, NEW index PROVE Ends(visitSubscriptExpr(base, index))
<1>1. {} \in SUBSET Odd /\ \A is : Found("index type", is) \in SUBSET Odd
  BY FoundIs DEF Odd
<1> QED
  BY <1>1, VerdictEnds DEF visitSubscriptExpr

(* visitCallExpr *)
LEMMA CallEnds == ASSUME NEW callee, NEW args PROVE Ends(visitCallExpr(callee, args))
<1>1. {} \in SUBSET Odd /\ Found("callee no function", Typed(callee)) \in SUBSET Odd
  BY DEF Odd, Found
<1> DEFINE i == callee.ty[1].n
           sig == FuncType(i)
           equal == ItemsEqual(sig.args, ArgTypes(args))
           o == Found("computed callee", callee.kind # "Identifier")
                \union Found("unknown type", ~Resolves(sig))
                \union Found("early call", sig # Declared(i))
           e == CallExpr(IF equal THEN sig.ret ELSE NoType, i, callee, args)
           b == ItemsCrash(sig.args, ArgTypes(args))
           v == visitCallExpr(callee, args)
<1>2. o \in SUBSET Odd
  BY DEF Found, Odd
<1>3. \/ v = Verdict(Node("Call", NoType), FALSE, Found("callee no function", Typed(callee)))
      \/ v = Verdict(Node("Call", NoType), FALSE, {})
      \/ v = [Verdict(e, ~equal, o) EXCEPT !.sema = IF b THEN {"crash"} ELSE @]
  BY DEF visitCallExpr
<1> HIDE DEF e, equal, o, b, v
<1>4. Ends(v)
  <2>1. CASE v = [Verdict(e, ~equal, o) EXCEPT !.sema = IF b THEN {"crash"} ELSE @]
    BY <1>2, <2>1, StoppedEnds
  <2>2. CASE v = Verdict(Node("Call", NoType), FALSE, {})
    BY <1>1, <2>2, VerdictEnds
  <2>3. CASE v = Verdict(Node("Call", NoType), FALSE, Found("callee no function", Typed(callee)))
    BY <1>1, <2>3, VerdictEnds
  <2> QED
    BY <1>3, <2>1, <2>2, <2>3
<1> QED
  BY <1>4 DEF v

(* The other visitors find nothing odd. *)
LEMMA SimpleEnds ==
    ASSUME NEW v, v.sema = {"ok"}, v.odd = {}
    PROVE  Ends(v)
  BY DEF Ends

(* What Deliver finds odd is in the list. *)
LEMMA DeliveredOdds ==
    ASSUME NEW fs, NEW v, Deliver(fs, v), odd \subseteq Odd, Ends(v)
    PROVE  odd' \subseteq Odd /\ odd \subseteq odd' /\ sema' \in {"ok", "crash"}
<1>1. \A f, e : PlaceOdd(f, e) \subseteq Odd
  BY DEF PlaceOdd, Odd
<1>2. \A e : SolveOdd(e) \subseteq Odd
  BY DEF SolveOdd, Odd
<1>3. \E f, e, r, solved :
        /\ odd' = odd \union v.odd \union PlaceOdd(f, r)
                      \union (IF solved THEN SolveOdd(e) ELSE {})
        /\ sema' \in {"crash"} \union v.sema
  BY DEF Deliver
<1> QED
  BY <1>1, <1>2, <1>3 DEF Ends

-----------------------------------------------------------------------------
(* The inductive invariant *)

(* There is a set of nodes of which the body is made. *)
Body == \E es : BodyOf(es)

(* The inductive invariant: the properties, and what makes them last *)
IInv ==
    /\ Body /\ TypeOK
    /\ Sound /\ Survives /\ EffectsKept /\ ConstantsKept

(* The invariant holds when a body begins. *)
LEMMA InitIInv == Init => IInv
<1> SUFFICES ASSUME Init PROVE IInv
  OBVIOUS
<1>1. decls = Given /\ frames = <<>> /\ odd = {} /\ sema = "ok" /\ error = FALSE
      /\ irgen = "ok" /\ mutated = {} /\ nodes = 0 /\ stmts = 0
      /\ last = [written |-> <<>>, emitted |-> <<>>]
  BY DEF Init
<1>2. Basis(Values)
  BY <1>1, ExprAssumption DEF Basis
<1>3. Shaped(frames, Values) /\ Sizes(frames) /\ Placed(frames)
  BY <1>1 DEF Shaped, Sizes, Placed
<1>4. \A e \in Values : Fits(e) /\ Proper(e)
  BY ExprAssumption, FittingIs
<1>5. \A n \in DOMAIN decls : IsData(decls[n].ty)
  BY <1>1, ExprAssumption
<1>6. BodyOf(Values)
  BY <1>2, <1>3, <1>4, <1>5 DEF BodyOf
<1>a. nodes \in Nat /\ stmts \in 0 .. MaxStmts
  BY <1>1, ExprAssumption
<1>b. DOMAIN frames = {}
  BY <1>1
<1>c. DOMAIN Given \subseteq DOMAIN decls /\ DOMAIN decls \subseteq DOMAIN Given \union Local
  BY <1>1
<1>7. TypeOK
  BY <1>1, <1>a, <1>b, <1>c DEF TypeOK
<1> QED
  BY <1>1, <1>6, <1>7 DEF IInv, Body, Sound, Survives, EffectsKept, ConstantsKept

(* What m records is memory of declarations *)
Recorded(m) == m \subseteq (DOMAIN decls) \X {"slot", "element", "copy", "alias", "inout"}

(* that is not written by its own name. *)
Spares(m) == \A p \in m : p[2] \notin {"slot", "element"}

(* A visitor that returns keeps the invariant if its node is good and it   *)
(* spares the constants.                                                   *)
LEMMA VisitStep ==
    ASSUME NEW es, BodyOf(es), IInv, Running,
           NEW fs, Shaped(fs, es), Sizes(fs), Placed(frames) => Placed(fs), fs # <<>>,
           Open(Last(fs)),
           NEW v, Formed(decls, es, v.node), Deliver(fs, v), DeclsKept(es), Ends(v),
           odd = {} /\ v.odd = {} => v.sema = {"ok"} /\ Proper(v.node),
           Accepted /\ v.odd = {} /\ ~v.err => Fits(v.node),
           DOMAIN decls' = DOMAIN decls, Recorded(mutated'),
           Accepted /\ ~v.err /\ v.odd = {} => Spares(mutated'),
           nodes' \in Nat, UNCHANGED <<stmts, last, irgen>>
    PROVE  IInv'
<1>1. (\E et : BodyOf(et)') /\ Returned(v)
  BY Delivered
<1>2. PICK et : BodyOf(et)'
  BY <1>1
<1>3. Shaped(frames, et)'
  BY <1>2 DEF BodyOf
<1>4. odd' \subseteq Odd /\ sema' \in {"ok", "crash"}
  BY DeliveredOdds DEF IInv, TypeOK
<1>5. error' \in BOOLEAN /\ (odd' = {} => sema' = "ok")
      /\ (odd' = {} => odd = {} /\ v.odd = {}) /\ (~error' => ~error /\ ~v.err)
  BY <1>1 DEF Returned
<1>6. Accepted' => Accepted /\ ~v.err /\ v.odd = {}
  BY <1>5 DEF Accepted, Running
<1>7. /\ \A i \in DOMAIN frames' : (i = 1) <=> (frames'[i].kind \in Statement)
      /\ \A i \in DOMAIN frames' : Len(frames'[i].kids) <= Arity(frames'[i].kind)
  BY <1>3 DEF Shaped
<1>8. TypeOK'
  BY <1>4, <1>5, <1>7 DEF TypeOK, IInv, Recorded
<1>9. Sound' /\ Survives' /\ EffectsKept'
  BY <1>5, <1>6 DEF Sound, Survives, EffectsKept, IInv, Running
<1>10. ConstantsKept'
  BY <1>6 DEF ConstantsKept, Spares
<1>11. Body'
  BY <1>2 DEF Body
<1> QED
  BY <1>8, <1>9, <1>10, <1>11 DEF IInv

(* What the invariant says of the constants. *)
LEMMA MutatedIs ==
    ASSUME IInv
    PROVE  Recorded(mutated) /\ (Accepted => Spares(mutated)) /\ nodes \in Nat
  BY DEF IInv, TypeOK, Recorded, Spares, ConstantsKept

(* The same for a node without children, *)
LEMMA LeafStep ==
    ASSUME NEW es, BodyOf(es), IInv, NEW v, Leaf(v),
           Formed(decls, es, v.node), Ends(v),
           odd = {} /\ v.odd = {} => v.sema = {"ok"} /\ Proper(v.node),
           Accepted /\ v.odd = {} /\ ~v.err => Fits(v.node)
    PROVE  IInv'
<1>1. /\ Running /\ frames # <<>> /\ Len(Top.kids) < Arity(Top.kind)
      /\ nodes' = nodes + 1 /\ Deliver(frames, v)
      /\ UNCHANGED <<decls, stmts, last, irgen, mutated>>
  BY DEF Leaf, Expects, outerVars
<1>2. Open(Last(frames))
  BY <1>1 DEF Open, Last, Top
<1>3. Shaped(frames, es) /\ Sizes(frames)
  BY DEF BodyOf
<1>4. odd' = {} => odd = {}
  BY <1>1, DeliveredOdds DEF IInv, TypeOK
<1>5. DeclsKept(es)
  BY <1>1, <1>4, SameDecls
<1>6. Recorded(mutated') /\ (Accepted => Spares(mutated')) /\ nodes' \in Nat
  BY <1>1, MutatedIs
<1> QED
  BY <1>1, <1>2, <1>3, <1>5, <1>6, VisitStep

(* for the frames below the innermost, *)
LEMMA RestSizes == ASSUME NEW es, Shaped(frames, es), frames # <<>>, Sizes(frames)
                   PROVE  Sizes(Rest)
<1>1. frames \in Seq(FrameIn(es)) /\ Len(frames) \in Nat /\ Len(frames) > 0
  BY DEF Shaped
<1>2. PICK l \in Nat : Len(frames) = l + 1
  BY <1>1
<1>3. Rest = SubSeq(frames, 1, l)
  BY <1>2 DEF Rest, Front
<1>4. DOMAIN Rest \subseteq DOMAIN frames /\ \A i \in DOMAIN Rest : Rest[i] = frames[i]
  BY <1>1, <1>2, <1>3
<1> QED
  BY <1>4 DEF Sizes

(* for a node with children, *)
LEMMA LeaveStep ==
    ASSUME NEW es, BodyOf(es), IInv, Running, frames # <<>>, Top.kind \notin Statement,
           NEW v, Formed(decls, es, v.node), Deliver(Rest, v), DeclsKept(es), Ends(v),
           odd = {} /\ v.odd = {} => v.sema = {"ok"} /\ Proper(v.node),
           Accepted /\ v.odd = {} /\ ~v.err => Fits(v.node),
           DOMAIN decls' = DOMAIN decls, Recorded(mutated'),
           Accepted /\ ~v.err /\ v.odd = {} => Spares(mutated'),
           UNCHANGED <<nodes, stmts, last, irgen>>
    PROVE  IInv'
<1>1. Shaped(frames, es) /\ Sizes(frames)
  BY DEF BodyOf
<1>2. /\ Shaped(Rest, es) /\ Rest # <<>> /\ Open(Rest[Len(Rest)])
      /\ Placed(frames) => Placed(Rest)
  BY <1>1, RestIs
<1>3. Open(Last(Rest)) /\ Sizes(Rest)
  BY <1>1, <1>2, RestSizes DEF Last
<1>4. nodes' \in Nat
  BY MutatedIs
<1> QED
  BY <1>2, <1>3, <1>4, VisitStep

(* and where no declaration changes. *)
LEMMA LeaveSame ==
    ASSUME NEW es, BodyOf(es), IInv, Running, frames # <<>>, Top.kind \notin Statement,
           NEW v, Leave(v), Formed(decls, es, v.node), Ends(v),
           odd = {} /\ v.odd = {} => v.sema = {"ok"} /\ Proper(v.node),
           Accepted /\ v.odd = {} /\ ~v.err => Fits(v.node),
           Recorded(mutated'), Accepted => Spares(mutated')
    PROVE  IInv'
<1>1. Deliver(Rest, v) /\ UNCHANGED <<decls, nodes, stmts, last, irgen>>
  BY DEF Leave, outerVars
<1>2. odd' = {} => odd = {}
  BY <1>1, DeliveredOdds DEF IInv, TypeOK
<1>3. DeclsKept(es)
  BY <1>1, <1>2, SameDecls
<1> QED
  BY <1>1, <1>3, LeaveStep

-----------------------------------------------------------------------------
(* The steps that visit a node *)

(* The children of a full frame are nodes of the body: *)
LEMMA KidsAre ==
    ASSUME NEW es, BodyOf(es), NEW kind \in Kinds, Full(kind)
    PROVE  /\ Running /\ frames # <<>> /\ Top.kind = kind
           /\ Top.kids \in Seq(es) /\ Len(Top.kids) = Arity(kind) /\ Top.ty \in FrameTypes
           /\ \A i \in 1 .. Len(Top.kids) : Top.kids[i] \in es
<1>1. Shaped(frames, es) /\ frames # <<>>
  BY DEF BodyOf, Full, Visiting
<1>2. /\ Top.kids \in Seq(es) /\ Top.ty \in FrameTypes
      /\ DOMAIN Top.kids = 1 .. Len(Top.kids)
      /\ \A j \in DOMAIN Top.kids : Top.kids[j] \in es
  BY <1>1, TopIs
<1> QED
  BY <1>1, <1>2 DEF Full, Visiting

(* one, *)
LEMMA OneChild ==
    ASSUME NEW es, BodyOf(es),
           NEW kind \in {"InOut", "Paren", "Prefix", "Size", "Expr", "Cond"}, Full(kind)
    PROVE  /\ Running /\ frames # <<>> /\ Top.kind = kind
           /\ Top.kids \in Seq(es) /\ Len(Top.kids) = 1 /\ Top.kids[1] \in es
<1>1. Arity(kind) = 1
  BY DEF Arity
<1>2. kind \in Kinds
  BY DEF Kinds, Statement
<1>3. /\ Running /\ frames # <<>> /\ Top.kind = kind
      /\ Top.kids \in Seq(es) /\ Len(Top.kids) = 1
      /\ \A i \in 1 .. Len(Top.kids) : Top.kids[i] \in es
  BY <1>1, <1>2, KidsAre
<1> QED
  BY <1>3

(* or two. *)
LEMMA TwoChildren ==
    ASSUME NEW es, BodyOf(es),
           NEW kind \in {"Infix", "Assign", "Subscript", "Range"}, Full(kind)
    PROVE  /\ Running /\ frames # <<>> /\ Top.kind = kind
           /\ Top.kids \in Seq(es) /\ Len(Top.kids) = 2
           /\ Top.kids[1] \in es /\ Top.kids[2] \in es
<1>1. Arity(kind) = 2
  BY DEF Arity
<1>2. kind \in Kinds
  BY DEF Kinds, Statement
<1>3. /\ Running /\ frames # <<>> /\ Top.kind = kind
      /\ Top.kids \in Seq(es) /\ Len(Top.kids) = 2
      /\ \A i \in 1 .. Len(Top.kids) : Top.kids[i] \in es
  BY <1>1, <1>2, KidsAre
<1> QED
  BY <1>3

(* They are values, but for parentheses and callees. *)
LEMMA ValuesAre ==
    ASSUME NEW es, BodyOf(es), frames # <<>>, odd = {}, Top.kind # "Paren",
           NEW i \in 1 .. Len(Top.kids), Top.kind = "Call" => i # 1
    PROVE  Value(Top.kids[i])
<1>1. Shaped(frames, es) /\ Placed(frames)
  BY DEF BodyOf
<1>2. Len(frames) \in DOMAIN frames /\ Top = frames[Len(frames)]
      /\ i \in DOMAIN Top.kids
  BY <1>1, TopIs
<1> QED
  BY <1>1, <1>2 DEF Placed

(* What is known of any node of the body. *)
LEMMA NodesAre ==
    ASSUME NEW es, BodyOf(es), NEW e \in es
    PROVE  /\ Basis(es) /\ Formed(decls, es, e)
           /\ odd = {} => Proper(e)
           /\ Accepted => Fits(e)
  BY DEF BodyOf, Basis

(* VisitNumberLiteral keeps the invariant. *)
LEMMA NumberStep ==
    ASSUME IInv, NEW n \in Number, VisitNumberLiteral(n)
    PROVE  IInv'
<1>1. PICK es : BodyOf(es)
  BY DEF IInv, Body
<1>2. PICK e : e = NumberLiteralExpr(n)
  OBVIOUS
<1>3. PICK v : v = Verdict(e, FALSE, {})
  OBVIOUS
<1>4. Leaf(v)
  BY <1>2, <1>3 DEF VisitNumberLiteral
<1>5. v.node = [e EXCEPT !.was = e.lets] /\ v.sema = {"ok"} /\ v.odd = {}
  BY <1>3 DEF Verdict
<1>6. Formed(decls, es, e) /\ Fits(e)
  BY <1>2, NumberIs
<1>7. Formed(decls, es, v.node) /\ Fits(v.node)
  BY <1>5, <1>6, MarkedIsFormed
<1>8. Proper(v.node)
  BY <1>7, FittingIs
<1> QED
  BY <1>1, <1>4, <1>5, <1>7, <1>8, SimpleEnds, LeafStep

(* VisitIdentifier keeps the invariant. *)
LEMMA IdentifierStep ==
    ASSUME IInv, NEW n, VisitIdentifier(n)
    PROVE  IInv'
<1>1. PICK es : BodyOf(es)
  BY DEF IInv, Body
<1>2. PICK v : v = visitIdentifierExpr(n)
  OBVIOUS
<1>3. Leaf(v)
  BY <1>2 DEF VisitIdentifier
<1>4. Basis(es) /\ (odd = {} => \A m \in DOMAIN decls : IsData(decls[m].ty))
  BY <1>1 DEF BodyOf
<1>5. /\ Formed(decls, es, v.node) /\ v.sema = {"ok"} /\ v.odd = {}
      /\ (\A m \in DOMAIN decls : IsData(decls[m].ty)) => Proper(v.node)
      /\ (\A m \in DOMAIN decls : IsData(decls[m].ty)) /\ ~v.err => Fits(v.node)
  BY <1>2, <1>4, IdentifierIs
<1>6. /\ odd = {} => Proper(v.node)
      /\ Accepted /\ ~v.err => Fits(v.node)
  BY <1>4, <1>5 DEF Accepted
<1> QED
  BY <1>1, <1>3, <1>5, <1>6, SimpleEnds, LeafStep

(* VisitArrayLiteral keeps the invariant. *)
LEMMA ArrayStep ==
    ASSUME IInv, VisitArrayLiteral
    PROVE  IInv'
<1>1. PICK es : BodyOf(es)
  BY DEF IInv, Body
<1>2. PICK kids : kids = Top.kids
  OBVIOUS
<1>3. PICK v : v = visitArrayLiteralExpr(kids)
  OBVIOUS
<1>4. Running /\ frames # <<>> /\ Top.kind = "Array" /\ Leave(v) /\ UNCHANGED mutated
  BY <1>2, <1>3 DEF VisitArrayLiteral, Visiting
<1>5. Shaped(frames, es)
  BY <1>1 DEF BodyOf
<1>6. kids \in Seq(es) /\ DOMAIN kids = 1 .. Len(kids) /\ \A i \in DOMAIN kids : kids[i] \in es
  BY <1>2, <1>4, <1>5, TopIs
<1>7. Ends(v)
  BY <1>3, ArrayEnds
<1>8. /\ Formed(decls, es, v.node)
      /\ v.odd = {} => v.sema = {"ok"}
      /\ v.odd = {} /\ (\A i \in DOMAIN kids : Proper(kids[i]) /\ Value(kids[i]))
            => Proper(v.node)
      /\ v.odd = {} /\ ~v.err /\ (\A i \in DOMAIN kids : Fits(kids[i]) /\ Value(kids[i]))
            => Fits(v.node)
  BY <1>3, <1>6, ArrayIs
<1>9. ASSUME odd = {}
      PROVE  \A i \in DOMAIN kids : Value(kids[i])
  BY <1>1, <1>2, <1>4, <1>6, <1>9, ValuesAre
<1>10. /\ odd = {} => \A i \in DOMAIN kids : Proper(kids[i])
       /\ Accepted => \A i \in DOMAIN kids : Fits(kids[i])
  BY <1>1, <1>6, NodesAre
<1>11. odd = {} /\ v.odd = {} => v.sema = {"ok"} /\ Proper(v.node)
  BY <1>8, <1>9, <1>10
<1>12. Accepted /\ v.odd = {} /\ ~v.err => Fits(v.node)
  BY <1>8, <1>9, <1>10 DEF Accepted
<1>13. Recorded(mutated') /\ (Accepted => Spares(mutated'))
  BY <1>4, MutatedIs
<1>14. Top.kind \notin Statement
  BY <1>4 DEF Statement
<1> QED
  BY <1>1, <1>4, <1>7, <1>8, <1>11, <1>12, <1>13, <1>14, LeaveSame

(* VisitInOut keeps the invariant. *)
LEMMA InOutStep ==
    ASSUME IInv, VisitInOut
    PROVE  IInv'
<1>1. PICK es : BodyOf(es)
  BY DEF IInv, Body
<1>2. PICK e : e = Top.kids[1]
  OBVIOUS
<1>3. PICK v : v = visitInOutExpr(e)
  OBVIOUS
<1>4. Leave(v) /\ UNCHANGED mutated /\ Full("InOut")
  BY <1>2, <1>3 DEF VisitInOut
<1>5. Running /\ frames # <<>> /\ Top.kind = "InOut" /\ Len(Top.kids) = 1 /\ e \in es
  BY <1>1, <1>2, <1>4, OneChild
<1>6. Basis(es) /\ Formed(decls, es, e) /\ (odd = {} => Proper(e)) /\ (Accepted => Fits(e))
  BY <1>1, <1>5, NodesAre
<1>a. odd = {} => Value(e)
  BY <1>1, <1>2, <1>5, ValuesAre
<1>b. /\ Formed(decls, es, v.node) /\ v.sema = {"ok"} /\ v.odd = {}
      /\ Proper(e) => Proper(v.node)
      /\ Fits(e) /\ Value(e) => Fits(v.node)
  BY <1>3, <1>5, <1>6, InOutIs
<1>7. Formed(decls, es, v.node) /\ Ends(v)
  BY <1>b, SimpleEnds
<1>8. odd = {} /\ v.odd = {} => v.sema = {"ok"} /\ Proper(v.node)
  BY <1>6, <1>b
<1>9. Accepted /\ v.odd = {} /\ ~v.err => Fits(v.node)
  BY <1>6, <1>a, <1>b DEF Accepted
<1>10. Recorded(mutated') /\ (Accepted => Spares(mutated'))
  BY <1>4, MutatedIs
<1>11. Top.kind \notin Statement
  BY <1>5 DEF Statement
<1> QED
  BY <1>1, <1>4, <1>5, <1>7, <1>8, <1>9, <1>10, <1>11, LeaveSame

(* VisitParen keeps the invariant. *)
LEMMA ParenStep ==
    ASSUME IInv, VisitParen
    PROVE  IInv'
<1>1. PICK es : BodyOf(es)
  BY DEF IInv, Body
<1>2. PICK e : e = Top.kids[1]
  OBVIOUS
<1>3. PICK v : v = visitParenExpr(e)
  OBVIOUS
<1>4. Leave(v) /\ UNCHANGED mutated /\ Full("Paren")
  BY <1>2, <1>3 DEF VisitParen
<1>5. Running /\ frames # <<>> /\ Top.kind = "Paren" /\ Len(Top.kids) = 1 /\ e \in es
  BY <1>1, <1>2, <1>4, OneChild
<1>6. Basis(es) /\ Formed(decls, es, e) /\ (odd = {} => Proper(e)) /\ (Accepted => Fits(e))
  BY <1>1, <1>5, NodesAre
<1>b. v.node = e /\ v.sema = {"ok"} /\ v.odd = {}
  BY <1>3 DEF visitParenExpr
<1>7. Formed(decls, es, v.node) /\ Ends(v)
  BY <1>6, <1>b, SimpleEnds
<1>8. odd = {} /\ v.odd = {} => v.sema = {"ok"} /\ Proper(v.node)
  BY <1>6, <1>b
<1>9. Accepted /\ v.odd = {} /\ ~v.err => Fits(v.node)
  BY <1>6, <1>b
<1>10. Recorded(mutated') /\ (Accepted => Spares(mutated'))
  BY <1>4, MutatedIs
<1>11. Top.kind \notin Statement
  BY <1>5 DEF Statement
<1> QED
  BY <1>1, <1>4, <1>5, <1>7, <1>8, <1>9, <1>10, <1>11, LeaveSame

(* VisitPrefix keeps the invariant. *)
LEMMA PrefixStep ==
    ASSUME IInv, VisitPrefix
    PROVE  IInv'
<1>1. PICK es : BodyOf(es)
  BY DEF IInv, Body
<1>2. PICK e : e = Top.kids[1]
  OBVIOUS
<1>3. PICK v : v = visitPrefixExpr(e)
  OBVIOUS
<1>4. Leave(v) /\ UNCHANGED mutated /\ Full("Prefix")
  BY <1>2, <1>3 DEF VisitPrefix
<1>5. Running /\ frames # <<>> /\ Top.kind = "Prefix" /\ Len(Top.kids) = 1 /\ e \in es
  BY <1>1, <1>2, <1>4, OneChild
<1>6. Basis(es) /\ Formed(decls, es, e) /\ (odd = {} => Proper(e)) /\ (Accepted => Fits(e))
  BY <1>1, <1>5, NodesAre
<1>b. /\ Formed(decls, es, v.node) /\ v.sema = {"ok"} /\ Proper(v.node)
      /\ v.odd = {} /\ Fits(e) => Fits(v.node)
  BY <1>3, <1>5, <1>6, PrefixIs
<1>7. Formed(decls, es, v.node) /\ Ends(v)
  BY <1>3, <1>b, PrefixEnds
<1>8. odd = {} /\ v.odd = {} => v.sema = {"ok"} /\ Proper(v.node)
  BY <1>b
<1>9. Accepted /\ v.odd = {} /\ ~v.err => Fits(v.node)
  BY <1>6, <1>b
<1>10. Recorded(mutated') /\ (Accepted => Spares(mutated'))
  BY <1>4, MutatedIs
<1>11. Top.kind \notin Statement
  BY <1>5 DEF Statement
<1> QED
  BY <1>1, <1>4, <1>5, <1>7, <1>8, <1>9, <1>10, <1>11, LeaveSame

(* VisitInfix keeps the invariant. *)
LEMMA InfixStep ==
    ASSUME IInv, VisitInfix
    PROVE  IInv'
<1>1. PICK es : BodyOf(es)
  BY DEF IInv, Body
<1>2. PICK e, f : e = Top.kids[1] /\ f = Top.kids[2]
  OBVIOUS
<1>3. PICK v : v = visitInfixExpr(e, f)
  OBVIOUS
<1>4. Leave(v) /\ UNCHANGED mutated /\ Full("Infix")
  BY <1>2, <1>3 DEF VisitInfix
<1>5. Running /\ frames # <<>> /\ Top.kind = "Infix" /\ Len(Top.kids) = 2 /\ e \in es /\ f \in es
  BY <1>1, <1>2, <1>4, TwoChildren
<1>6. /\ Basis(es) /\ (odd = {} => Proper(e) /\ Proper(f))
      /\ (Accepted => Fits(e) /\ Fits(f))
  BY <1>1, <1>5, NodesAre
<1>b. /\ Formed(decls, es, v.node) /\ v.sema = {"ok"} /\ Proper(v.node)
      /\ Fits(e) /\ Fits(f) /\ ~v.err => Fits(v.node)
  BY <1>3, <1>5, <1>6, InfixIs
<1>c. v.odd = {}
  BY <1>3 DEF visitInfixExpr, Verdict
<1>7. Formed(decls, es, v.node) /\ Ends(v)
  BY <1>b, <1>c, SimpleEnds
<1>8. odd = {} /\ v.odd = {} => v.sema = {"ok"} /\ Proper(v.node)
  BY <1>b
<1>9. Accepted /\ v.odd = {} /\ ~v.err => Fits(v.node)
  BY <1>6, <1>b
<1>10. Recorded(mutated') /\ (Accepted => Spares(mutated'))
  BY <1>4, MutatedIs
<1>11. Top.kind \notin Statement
  BY <1>5 DEF Statement
<1> QED
  BY <1>1, <1>4, <1>5, <1>7, <1>8, <1>9, <1>10, <1>11, LeaveSame

(* VisitSubscript keeps the invariant. *)
LEMMA SubscriptStep ==
    ASSUME IInv, VisitSubscript
    PROVE  IInv'
<1>1. PICK es : BodyOf(es)
  BY DEF IInv, Body
<1>2. PICK e, f : e = Top.kids[1] /\ f = Top.kids[2]
  OBVIOUS
<1>3. PICK v : v = visitSubscriptExpr(e, f)
  OBVIOUS
<1>4. Leave(v) /\ UNCHANGED mutated /\ Full("Subscript")
  BY <1>2, <1>3 DEF VisitSubscript
<1>5. Running /\ frames # <<>> /\ Top.kind = "Subscript" /\ Len(Top.kids) = 2 /\ e \in es /\ f \in es
  BY <1>1, <1>2, <1>4, TwoChildren
<1>6. /\ Basis(es) /\ (odd = {} => Proper(e) /\ Proper(f))
      /\ (Accepted => Fits(e) /\ Fits(f))
  BY <1>1, <1>5, NodesAre
<1>b. /\ Formed(decls, es, v.node) /\ v.sema = {"ok"}
      /\ Proper(e) => Proper(v.node)
      /\ v.odd = {} /\ ~v.err /\ Fits(e) /\ Fits(f) => Fits(v.node)
  BY <1>3, <1>5, <1>6, SubscriptIs
<1>7. Formed(decls, es, v.node) /\ Ends(v)
  BY <1>3, <1>b, SubscriptEnds
<1>8. odd = {} /\ v.odd = {} => v.sema = {"ok"} /\ Proper(v.node)
  BY <1>6, <1>b
<1>9. Accepted /\ v.odd = {} /\ ~v.err => Fits(v.node)
  BY <1>6, <1>b
<1>10. Recorded(mutated') /\ (Accepted => Spares(mutated'))
  BY <1>4, MutatedIs
<1>11. Top.kind \notin Statement
  BY <1>5 DEF Statement
<1> QED
  BY <1>1, <1>4, <1>5, <1>7, <1>8, <1>9, <1>10, <1>11, LeaveSame

(* VisitCall keeps it; arrays that are passed `inout' are recorded, not as *)
(* written by name.                                                        *)
LEMMA CallStep ==
    ASSUME IInv, VisitCall
    PROVE  IInv'
<1>1. PICK es : BodyOf(es)
  BY DEF IInv, Body
<1>2. PICK kids, callee, args :
        kids = Top.kids /\ callee = Head(Top.kids) /\ args = Tail(Top.kids)
  OBVIOUS
<1>3. PICK v : v = visitCallExpr(callee, args)
  OBVIOUS
<1>4. /\ Running /\ frames # <<>> /\ Top.kind = "Call" /\ kids # <<>> /\ Leave(v)
      /\ mutated' = mutated \union
           {<<r[1], "inout">> : r \in UNION {e.root : e \in {a \in Range(args) :
                                                             KindOf(a.ty) = "InOut"}}}
  BY <1>2, <1>3 DEF VisitCall, Visiting
<1>5. Shaped(frames, es)
  BY <1>1 DEF BodyOf
<1>6. kids \in Seq(es) /\ \A i \in 1 .. Len(kids) : kids[i] \in es
  BY <1>2, <1>4, <1>5, TopIs
<1>7. /\ callee \in es /\ args \in Seq(es)
      /\ \A k \in DOMAIN args : args[k] \in es /\ args[k] = kids[k + 1]
                                /\ k + 1 \in 1 .. Len(kids) /\ k + 1 # 1
  <2>1. callee = Head(kids) /\ args = Tail(kids) /\ Len(kids) \in Nat /\ Len(kids) # 0
    BY <1>2, <1>4, <1>6
  <2> QED
    BY <2>1, <1>6
<1>8. Basis(es) /\ (odd = {} => Proper(callee)) /\ (Accepted => Fits(callee))
  BY <1>1, <1>7, NodesAre
<1>9. Accepted => \A k \in DOMAIN args : Fits(args[k])
  BY <1>1, <1>7, NodesAre
<1>10. ASSUME odd = {}, NEW k \in DOMAIN args
       PROVE  Value(args[k])
  <2>1. k + 1 \in 1 .. Len(Top.kids) /\ k + 1 # 1 /\ args[k] = Top.kids[k + 1]
    BY <1>2, <1>7
  <2>2. PICK j : j = k + 1
    OBVIOUS
  <2>3. Value(Top.kids[j])
    BY <1>1, <1>4, <1>10, <2>1, <2>2, ValuesAre
  <2> QED
    BY <2>1, <2>2, <2>3
<1>11. Ends(v)
  BY <1>3, CallEnds
<1>12. /\ Formed(decls, es, v.node)
       /\ Proper(callee) /\ v.odd = {} => v.sema = {"ok"} /\ Proper(v.node)
       /\ v.odd = {} /\ ~v.err /\ Fits(callee)
             /\ (\A k \in DOMAIN args : Fits(args[k]) /\ Value(args[k])) => Fits(v.node)
  BY <1>3, <1>7, <1>8, CallIs
<1>13. odd = {} /\ v.odd = {} => v.sema = {"ok"} /\ Proper(v.node)
  BY <1>8, <1>12
<1>14. Accepted /\ v.odd = {} /\ ~v.err => Fits(v.node)
  BY <1>8, <1>9, <1>10, <1>12 DEF Accepted
<1>15. decls' = decls
  BY <1>4 DEF Leave, outerVars
<1>16. ASSUME NEW m \in mutated', m \notin mutated
       PROVE  m \in (DOMAIN decls) \X {"inout"}
  <2>1. PICK a \in Range(args) : KindOf(a.ty) = "InOut" /\ \E r \in a.root : m = <<r[1], "inout">>
    BY <1>4, <1>16
  <2>2. a \in es
    BY <1>7 DEF Range
  <2>3. a.root \subseteq Origins(decls)
    BY <1>1, <2>2, NodesAre DEF Formed
  <2> QED
    BY <2>1, <2>3 DEF Origins
<1>17. Recorded(mutated') /\ (Accepted => Spares(mutated'))
  BY <1>15, <1>16, MutatedIs DEF Recorded, Spares
<1>18. Top.kind \notin Statement
  BY <1>4 DEF Statement
<1> QED
  BY <1>1, <1>4, <1>11, <1>12, <1>13, <1>14, <1>17, <1>18, LeaveSame

(* The aliases of an array value are not its own name. *)
LEMMA AliasIs ==
    ASSUME NEW ds, NEW es, NEW e, Formed(ds, es, e)
    PROVE  Alias(e) \subseteq Origins(ds) /\ Clean(Alias(e))
<1>1. e.root \in SUBSET Origins(ds) /\ {q \in e.root : q[2] # "copy"} \in SUBSET e.root
  BY DEF Formed
<1>2. /\ {<<r[1], "alias">> : r \in {q \in e.root : q[2] # "copy"}} \subseteq Origins(ds)
      /\ Clean({<<r[1], "alias">> : r \in {q \in e.root : q[2] # "copy"}})
  BY <1>1, CopiesAreOrigins
<1>3. {} \subseteq Origins(ds) /\ Clean({})
  BY DEF Clean
<1> QED
  BY <1>2, <1>3 DEF Alias

(* An array that is assigned to a variable may be reached by the variable. *)
LEMMA RootGrows ==
    ASSUME NEW es, BodyOf(es), NEW n \in DOMAIN decls,
           NEW more \in SUBSET Origins(decls), Clean(more), odd' = {} => odd = {},
           decls' = [decls EXCEPT ![n].root = @ \union more]
    PROVE  DeclsKept(es) /\ DOMAIN decls' = DOMAIN decls
<1>1. /\ DOMAIN decls' = DOMAIN decls
      /\ decls'[n] = [decls[n] EXCEPT !.root = @ \union more]
      /\ \A m \in DOMAIN decls : m # n => decls'[m] = decls[m]
  OBVIOUS
<1>2. \A m \in DOMAIN decls : IsDecl(decls, es, decls[m])
  BY DEF BodyOf, Basis
<1>3. PICK d : d = decls[n]
  OBVIOUS
<1>4. /\ d = Decl(d.let, d.ty, d.value, d.root) /\ d.let \in BOOLEAN
      /\ d.root \subseteq Origins(decls) /\ (~d.let => Clean(d.root))
      /\ (isLiteral(d.value) => d.value \in es)
  BY <1>2, <1>3 DEF IsDecl
<1>5. PICK c : c = decls'[n]
  OBVIOUS
<1>6. c = Decl(d.let, d.ty, d.value, d.root \union more)
  BY <1>1, <1>3, <1>4, <1>5 DEF Decl
<1>7. c.let = d.let /\ c.ty = d.ty /\ c.value = d.value /\ c.root = d.root \union more
  BY <1>6 DEF Decl
<1>8. ~c.let => Clean(c.root)
  BY <1>4, <1>7 DEF Clean
<1>9. Origins(decls') = Origins(decls)
  BY <1>1 DEF Origins
<1>10. IsDecl(decls', es, c)
  BY <1>4, <1>6, <1>7, <1>8, <1>9 DEF IsDecl
<1>11. ASSUME NEW m \in DOMAIN decls
       PROVE  /\ decls'[m].let = decls[m].let /\ decls'[m].ty = decls[m].ty
              /\ IsDecl(decls', es, decls'[m])
  <2>1. CASE m = n
    BY <2>1, <1>3, <1>5, <1>7, <1>10
  <2>2. CASE m # n
    BY <2>2, <1>1, <1>2, <1>9 DEF IsDecl
  <2> QED
    BY <2>1, <2>2
<1>12. odd' = {} => \A m \in DOMAIN decls' : IsData(decls'[m].ty)
  BY <1>1, <1>11 DEF BodyOf
<1> QED
  BY <1>1, <1>11, <1>12 DEF DeclsKept

(* VisitAssign keeps it: ensureMutable has found no constant in the        *)
(* destination, so that it is not the name of one and reaches none.        *)
LEMMA AssignStep ==
    ASSUME IInv, VisitAssign
    PROVE  IInv'
<1>1. PICK es : BodyOf(es)
  BY DEF IInv, Body
<1>2. PICK dest, source : dest = Top.kids[1] /\ source = Top.kids[2]
  OBVIOUS
<1>3. PICK v : v = visitAssignExpr(dest, source)
  OBVIOUS
<1>4. /\ Full("Assign") /\ Deliver(Rest, v) /\ UNCHANGED <<nodes, stmts, last, irgen>>
      /\ IF ~Assigns(dest, source) \/ KindOf(dest.ty) = "Func"
         THEN UNCHANGED <<decls, mutated>>
         ELSE IF dest.kind = "Identifier"
         THEN /\ mutated' = mutated \union {<<n, "slot">> : n \in {m \in {dest.name} : decls[m].let}}
              /\ decls' = [decls EXCEPT ![dest.name].root = @ \union Alias(source)]
         ELSE mutated' = mutated \union dest.root /\ UNCHANGED decls
  BY <1>2, <1>3 DEF VisitAssign
<1>5. /\ Running /\ frames # <<>> /\ Top.kind = "Assign" /\ Len(Top.kids) = 2
      /\ dest \in es /\ source \in es
  BY <1>1, <1>2, <1>4, TwoChildren
<1>6. /\ Basis(es) /\ Formed(decls, es, dest) /\ Formed(decls, es, source)
      /\ (odd = {} => Proper(dest)) /\ (Accepted => \A e \in es : Fits(e))
  BY <1>1, <1>5, NodesAre
<1>7. odd = {} => Value(dest)
  BY <1>1, <1>2, <1>5, ValuesAre
<1>8. /\ Formed(decls, es, v.node)
      /\ v.odd = {} => v.sema = {"ok"}
      /\ Proper(dest) => Proper(v.node)
      /\ v.odd = {} /\ ~v.err /\ Value(dest) /\ (\A e \in es : Fits(e)) => Fits(v.node)
      /\ ~v.err => (Typed(dest) /\ Typed(source) => Mutable(dest))
  BY <1>3, <1>5, <1>6, AssignIs
<1>9. Ends(v)
  BY <1>3, AssignEnds
<1>10. odd = {} /\ v.odd = {} => v.sema = {"ok"} /\ Proper(v.node)
  BY <1>6, <1>8
<1>11. Accepted /\ v.odd = {} /\ ~v.err => Fits(v.node)
  BY <1>6, <1>7, <1>8 DEF Accepted
<1>12. odd' = {} => odd = {}
  BY <1>4, <1>9, DeliveredOdds DEF IInv, TypeOK
<1>13. /\ Alias(source) \in SUBSET Origins(decls) /\ Clean(Alias(source))
  BY <1>6, AliasIs
<1>14. Top.kind \notin Statement
  BY <1>5 DEF Statement
<1>15. Recorded(mutated) /\ (Accepted => Spares(mutated))
  BY MutatedIs
<1>16. Assigns(dest, source) /\ ~v.err => ~dest.lets /\ Clean(dest.root)
  BY <1>6, <1>8 DEF Assigns, Mutable, Formed
<1>17. /\ DeclsKept(es) /\ DOMAIN decls' = DOMAIN decls /\ Recorded(mutated')
       /\ Accepted /\ ~v.err /\ v.odd = {} => Spares(mutated')
  <2>1. CASE ~Assigns(dest, source) \/ KindOf(dest.ty) = "Func"
    <3>1. UNCHANGED <<decls, mutated>>
      BY <1>4, <2>1
    <3>2. DeclsKept(es)
      BY <3>1, <1>1, <1>12, SameDecls
    <3> QED
      BY <3>1, <3>2, <1>15 DEF Recorded
  <2>2. CASE Assigns(dest, source) /\ KindOf(dest.ty) # "Func" /\ dest.kind = "Identifier"
    <3>1. /\ mutated' = mutated \union {<<n, "slot">> : n \in {m \in {dest.name} : decls[m].let}}
          /\ decls' = [decls EXCEPT ![dest.name].root = @ \union Alias(source)]
      BY <1>4, <2>2
    <3>2. dest.name \in DOMAIN decls /\ decls[dest.name].let = dest.lets
      BY <1>6, <2>2 DEF Formed, Assigns
    <3>3. DeclsKept(es) /\ DOMAIN decls' = DOMAIN decls
      BY <3>1, <3>2, <1>1, <1>12, <1>13, RootGrows
    <3>4. Recorded(mutated')
      BY <3>1, <3>2, <3>3, <1>15 DEF Recorded
    <3>5. ~v.err => mutated' = mutated
      BY <3>1, <3>2, <1>16, <2>2
    <3> QED
      BY <3>3, <3>4, <3>5, <1>15
  <2>3. CASE Assigns(dest, source) /\ KindOf(dest.ty) # "Func" /\ dest.kind # "Identifier"
    <3>1. mutated' = mutated \union dest.root /\ UNCHANGED decls
      BY <1>4, <2>3
    <3>2. DeclsKept(es)
      BY <3>1, <1>1, <1>12, SameDecls
    <3>3. dest.root \subseteq Origins(decls)
      BY <1>6 DEF Formed
    <3>4. Recorded(mutated')
      BY <3>1, <3>3, <1>15 DEF Recorded, Origins
    <3>5. \A r \in dest.root : r[2] \in {"element", "copy", "alias"}
      BY <3>3 DEF Origins
    <3>6. Accepted /\ ~v.err => Spares(mutated')
      BY <3>1, <3>5, <1>15, <1>16, <2>3 DEF Spares, Clean
    <3> QED
      BY <3>1, <3>2, <3>4, <3>6
  <2> QED
    BY <2>1, <2>2, <2>3
<1> QED
  BY <1>1, <1>4, <1>5, <1>8, <1>9, <1>10, <1>11, <1>14, <1>17, LeaveStep

-----------------------------------------------------------------------------
(* The steps that open and close the frames of statements and types *)

(* A step that adds no node keeps the invariant if the code that it makes  *)
(* is good.                                                                *)
LEMMA OtherStep ==
    ASSUME NEW es, BodyOf(es), IInv, Running,
           Shaped(frames', es), Sizes(frames'), odd' = {} => Placed(frames'),
           DeclsKept(es), DOMAIN decls' \subseteq DOMAIN Given \union Local,
           error' \in BOOLEAN, ~error' => ~error, odd \subseteq odd', odd' \subseteq Odd,
           sema' \in {"ok", "crash"}, odd' = {} => sema' = "ok",
           irgen' \in {"ok", "bad"},
           Accepted' => irgen' = "ok" /\ last'.emitted = last'.written,
           mutated' = mutated, nodes' \in Nat, stmts' \in 0 .. MaxStmts
    PROVE  IInv'
<1>1. odd' = {} => odd = {}
  OBVIOUS
<1>2. BodyOf(es)'
  BY <1>1, BodyStep
<1>3. DOMAIN decls \subseteq DOMAIN decls'
  BY DEF DeclsKept
<1>4. mutated' \subseteq (DOMAIN decls') \X {"slot", "element", "copy", "alias", "inout"}
  BY <1>3 DEF IInv, TypeOK
<1>5. /\ \A i \in DOMAIN frames' : (i = 1) <=> (frames'[i].kind \in Statement)
      /\ \A i \in DOMAIN frames' : Len(frames'[i].kids) <= Arity(frames'[i].kind)
  BY DEF Shaped
<1>6. DOMAIN Given \subseteq DOMAIN decls'
  BY <1>3 DEF IInv, TypeOK
<1>7. TypeOK'
  BY <1>4, <1>5, <1>6 DEF TypeOK
<1>8. Accepted' => Accepted
  BY <1>1 DEF Accepted, Running
<1>9. Sound' /\ Survives' /\ EffectsKept'
  BY DEF Sound, Survives, EffectsKept
<1>10. ConstantsKept'
  BY <1>8 DEF ConstantsKept, IInv
<1> QED
  BY <1>2, <1>7, <1>9, <1>10 DEF IInv, Body

(* The passes are where they were. *)
LEMMA QuietStep ==
    ASSUME NEW es, BodyOf(es), IInv, Running,
           Shaped(frames', es), Sizes(frames'), odd = {} => Placed(frames'),
           UNCHANGED <<decls, sema, irgen, mutated, odd>>,
           error' \in BOOLEAN, ~error' => ~error,
           last' = last \/ last'.emitted = last'.written,
           nodes' \in Nat, stmts' \in 0 .. MaxStmts
    PROVE  IInv'
<1>1. DeclsKept(es)
  BY SameDecls
<1>2. DOMAIN decls' \subseteq DOMAIN Given \union Local /\ odd' \subseteq Odd
      /\ sema' = "ok" /\ irgen' = "ok"
  BY DEF IInv, TypeOK, Running
<1>3. Accepted' => Accepted
  BY DEF Accepted
<1>4. Accepted' => last'.emitted = last'.written
  BY <1>3 DEF EffectsKept, IInv
<1> QED
  BY <1>1, <1>2, <1>4, OtherStep

(* A size is for a type. *)
LEMMA PushedSizes ==
    ASSUME NEW es, Shaped(frames, es), frames # <<>>, Sizes(frames), NEW f,
           f.kind = "Size" => IsData(Top.ty)
    PROVE  Sizes(Append(frames, f))
<1>1. PICK l \in Nat : l = Len(frames) /\ Top = frames[l]
  BY DEF Shaped, Top
<1>2. PICK fs : fs = Append(frames, f)
  OBVIOUS
<1>3. /\ DOMAIN fs = 1 .. l + 1 /\ DOMAIN frames = 1 .. l
      /\ fs[l + 1] = f /\ \A i \in 1 .. l : fs[i] = frames[i]
  BY <1>1, <1>2 DEF Shaped
<1>4. ASSUME NEW i \in DOMAIN fs, NEW k \in DOMAIN fs, i = k + 1, fs[i].kind = "Size"
      PROVE  IsData(fs[k].ty)
  <2>1. k \in 1 .. l /\ fs[k] = frames[k] /\ k \in DOMAIN frames
    BY <1>1, <1>3, <1>4
  <2>2. CASE i = l + 1
    <3>1. k = l
      BY <1>1, <1>3, <1>4, <2>2
    <3> QED
      BY <1>1, <1>3, <1>4, <2>1, <2>2, <3>1
  <2>3. CASE i # l + 1
    <3>1. i \in 1 .. l /\ fs[i] = frames[i]
      BY <1>1, <1>3, <1>4, <2>3
    <3> QED
      BY <1>3, <1>4, <2>1, <3>1 DEF Sizes
  <2> QED
    BY <2>2, <2>3
<1>5. Sizes(fs)
  BY <1>4 DEF Sizes
<1> QED
  BY <1>2, <1>5

(* Enter keeps the invariant. *)
LEMMA EnterStep ==
    ASSUME IInv, NEW kind \in Kinds \ Statement, Enter(kind),
           kind = "Size" => IsData(Top.ty)
    PROVE  IInv'
<1>1. PICK es : BodyOf(es)
  BY DEF IInv, Body
<1>2. /\ Running /\ frames # <<>> /\ Len(Top.kids) < Arity(Top.kind)
      /\ nodes' = nodes + 1 /\ frames' = Append(frames, Frame(kind))
      /\ UNCHANGED <<decls, stmts, last, error, sema, irgen, mutated, odd>>
  BY DEF Enter, Expects, outerVars
<1>3. Open(Top) /\ Shaped(frames, es) /\ Sizes(frames)
  BY <1>1, <1>2 DEF Open, BodyOf
<1>4. Shaped(frames', es) /\ (Placed(frames) => Placed(frames'))
  BY <1>2, <1>3, PushedShape
<1>5. Frame(kind).kind = kind
  BY DEF Frame
<1>6. Sizes(frames')
  BY <1>2, <1>3, <1>5, PushedSizes
<1>7. odd = {} => Placed(frames')
  BY <1>1, <1>4 DEF BodyOf
<1>8. nodes' \in Nat /\ stmts' \in 0 .. MaxStmts /\ error' \in BOOLEAN
  BY <1>2 DEF IInv, TypeOK
<1> QED
  BY <1>1, <1>2, <1>4, <1>6, <1>7, <1>8, QuietStep

(* EnterSize keeps the invariant. *)
LEMMA SizeStep ==
    ASSUME IInv, EnterSize
    PROVE  IInv'
<1>1. PICK es : BodyOf(es)
  BY DEF IInv, Body
<1>2. Enter("Size") /\ frames # <<>> /\ Top.ty \notin {None, NoType}
  BY DEF EnterSize, Enter, Expects
<1>3. Top.ty \in FrameTypes
  BY <1>1, <1>2, TopIs DEF BodyOf
<1>4. IsData(Top.ty)
  BY <1>2, <1>3 DEF FrameTypes
<1>5. "Size" \in Kinds \ Statement
  BY DEF Kinds, Statement
<1> QED
  BY <1>2, <1>4, <1>5, EnterStep

(* The frame of a statement. *)
LEMMA FirstFrame ==
    ASSUME NEW es, NEW kind \in Statement, NEW ty \in FrameTypes,
           NEW fs, fs = <<[Frame(kind) EXCEPT !.ty = ty]>>
    PROVE  Shaped(fs, es) /\ Sizes(fs) /\ Placed(fs)
<1>1. PICK f : f = [kind |-> kind, kids |-> <<>>, ty |-> ty]
  OBVIOUS
<1>2. fs = <<f>>
  BY <1>1 DEF Frame
<1>3. kind \in Kinds
  BY DEF Kinds
<1>4. f \in FrameIn(es) /\ f.kind = kind /\ f.kids = <<>> /\ Len(f.kids) = 0
  BY <1>1, <1>3 DEF FrameIn
<1>5. Arity(kind) \in Nat
  BY <1>3, ArityIs
<1>6. fs \in Seq(FrameIn(es)) /\ DOMAIN fs = {1} /\ fs[1] = f /\ Len(fs) = 1
  BY <1>2, <1>4
<1>7. Len(f.kids) <= Arity(kind)
  BY <1>4, <1>5
<1>8. Shaped(fs, es)
  BY <1>4, <1>6, <1>7 DEF Shaped
<1>9. Sizes(fs)
  BY <1>6 DEF Sizes
<1>10. DOMAIN f.kids = {}
  BY <1>4
<1>11. Placed(fs)
  BY <1>6, <1>10 DEF Placed
<1> QED
  BY <1>8, <1>9, <1>11

(* A statement begins, *)
LEMMA BeginStep ==
    ASSUME IInv, NEW kind \in Statement, NEW ty \in FrameTypes, NEW err \in BOOLEAN,
           Begin(kind, ty, err)
    PROVE  IInv'
<1>1. PICK es : BodyOf(es)
  BY DEF IInv, Body
<1>2. /\ Running /\ stmts < MaxStmts /\ frames' = <<[Frame(kind) EXCEPT !.ty = ty]>>
      /\ error' = (error \/ err) /\ stmts' = stmts + 1
      /\ last' = [written |-> <<>>, emitted |-> <<>>]
      /\ UNCHANGED <<decls, nodes, sema, irgen, mutated, odd>>
  BY DEF Begin
<1>3. Shaped(frames', es) /\ Sizes(frames') /\ Placed(frames')
  BY <1>2, FirstFrame
<1>4. nodes' \in Nat /\ stmts \in 0 .. MaxStmts /\ error' \in BOOLEAN
  BY <1>2 DEF IInv, TypeOK
<1>5. stmts' \in 0 .. MaxStmts
  BY <1>2, <1>4, ExprAssumption
<1>6. last'.emitted = last'.written /\ (~error' => ~error)
  BY <1>2
<1> QED
  BY <1>1, <1>2, <1>3, <1>4, <1>5, <1>6, QuietStep

(* Types that a frame can have. *)
LEMMA DataIsFrameType ==
    ASSUME NEW ty, ty = NoType \/ IsData(ty)
    PROVE  ty \in FrameTypes
  BY DEF FrameTypes, IsData

(* of any kind. *)
LEMMA BeginsStep ==
    ASSUME IInv, BeginPlain \/ BeginVarDecl \/ BeginReturn
    PROVE  IInv'
<1>1. None \in FrameTypes /\ NoType \in FrameTypes
  BY DEF FrameTypes
<1>2. CASE BeginPlain
  <2>1. PICK kind \in {"Expr", "Cond", "Range"} : Begin(kind, None, FALSE)
    BY <1>2 DEF BeginPlain
  <2>2. kind \in Statement
    BY DEF Statement
  <2> QED
    BY <1>1, <2>1, <2>2, BeginStep
<1>3. CASE BeginVarDecl
  <2>1. PICK kind \in {"Var", "Let"} :
          \/ Begin(kind, None, FALSE)
          \/ \E name \in {"Int", "Void", "Foo"} : Begin(kind, Named(name), Named(name) = NoType)
          \/ Begin(kind, NoType, TRUE)
    BY <1>3 DEF BeginVarDecl
  <2>2. kind \in Statement
    BY DEF Statement
  <2>3. CASE Begin(kind, None, FALSE)
    BY <1>1, <2>2, <2>3, BeginStep
  <2>4. CASE \E name \in {"Int", "Void", "Foo"} : Begin(kind, Named(name), Named(name) = NoType)
    <3>1. PICK name : Begin(kind, Named(name), Named(name) = NoType)
      BY <2>4
    <3>2. Named(name) \in FrameTypes
      BY NamedIs, DataIsFrameType
    <3>3. PICK ty, err : ty = Named(name) /\ err = (Named(name) = NoType) /\ err \in BOOLEAN
      OBVIOUS
    <3> QED
      BY <2>2, <3>1, <3>2, <3>3, BeginStep
  <2>5. CASE Begin(kind, NoType, TRUE)
    BY <1>1, <2>2, <2>5, BeginStep
  <2> QED
    BY <2>1, <2>3, <2>4, <2>5
<1>4. CASE BeginReturn
  <2>1. PICK repr \in Returns : Begin("Return", Checked(repr), Checked(repr) = NoType)
    BY <1>4 DEF BeginReturn
  <2>2. Checked(repr) \in FrameTypes
    BY CheckedIs, DataIsFrameType, ExprAssumption
  <2>3. PICK ty, err : ty = Checked(repr) /\ err = (Checked(repr) = NoType) /\ err \in BOOLEAN
    OBVIOUS
  <2>4. "Return" \in Statement
    BY DEF Statement
  <2> QED
    BY <2>1, <2>2, <2>3, <2>4, BeginStep
<1> QED
  BY <1>2, <1>3, <1>4

(* The frames fs with another type in the innermost *)
Retyped(fs, ty) == [fs EXCEPT ![Len(fs)].ty = ty]

(* The innermost frame gets another type. *)
LEMMA RetypedShape ==
    ASSUME NEW es, NEW fs, Shaped(fs, es), fs # <<>>, Sizes(fs), NEW ty \in FrameTypes
    PROVE  /\ Shaped(Retyped(fs, ty), es) /\ Sizes(Retyped(fs, ty))
           /\ Placed(fs) => Placed(Retyped(fs, ty))
<1>g. PICK gs : gs = Retyped(fs, ty)
  OBVIOUS
<1>1. PICK l \in Nat : l = Len(fs) /\ l > 0 /\ l \in DOMAIN fs
  BY DEF Shaped
<1>2. PICK f : f = fs[l]
  OBVIOUS
<1>3. fs \in Seq(FrameIn(es)) /\ f \in FrameIn(es)
  BY <1>1, <1>2 DEF Shaped
<1>4. PICK g : g = [f EXCEPT !.ty = ty]
  OBVIOUS
<1>5. gs = [fs EXCEPT ![l] = g]
  BY <1>1, <1>2, <1>4, <1>g DEF Retyped
<1>6. g \in FrameIn(es) /\ g.kind = f.kind /\ g.kids = f.kids
  BY <1>3, <1>4 DEF FrameIn
<1>7. /\ gs \in Seq(FrameIn(es)) /\ Len(gs) = l /\ DOMAIN gs = 1 .. l /\ DOMAIN fs = 1 .. l
      /\ gs[l] = g /\ \A i \in 1 .. l : i # l => gs[i] = fs[i]
  BY <1>1, <1>3, <1>5, <1>6, LastReplaced
<1>8. \A i \in 1 .. l : gs[i].kind = fs[i].kind /\ gs[i].kids = fs[i].kids
  BY <1>2, <1>6, <1>7
<1>9. Shaped(gs, es)
  <2>1. \A i \in DOMAIN fs : /\ (i = 1) <=> (fs[i].kind \in Statement)
                             /\ Len(fs[i].kids) <= Arity(fs[i].kind)
                             /\ i < l => Open(fs[i])
    BY <1>1 DEF Shaped
  <2>2. \A i \in DOMAIN gs : /\ (i = 1) <=> (gs[i].kind \in Statement)
                             /\ Len(gs[i].kids) <= Arity(gs[i].kind)
                             /\ i < l => Open(gs[i])
    BY <2>1, <1>7, <1>8 DEF Open
  <2> QED
    BY <2>2, <1>7 DEF Shaped
<1>10. Sizes(gs)
  <2>1. \A i, k \in 1 .. l : i = k + 1 => k # l
    BY <1>1
  <2> QED
    BY <2>1, <1>7, <1>8 DEF Sizes
<1>11. Placed(fs) => Placed(gs)
  BY <1>7, <1>8 DEF Placed
<1> QED
  BY <1>9, <1>10, <1>11, <1>g

(* The declaration around a size has a type. *)
LEMMA SizedIs ==
    ASSUME NEW es, Shaped(frames, es), frames # <<>>, Sizes(frames), Top.kind = "Size"
    PROVE  IsData(Rest[Len(Rest)].ty)
<1>1. /\ frames \in Seq(FrameIn(es)) /\ Len(frames) \in Nat /\ Len(frames) \in DOMAIN frames
      /\ Top = frames[Len(frames)]
  BY TopIs DEF Shaped
<1>2. Len(frames) # 1
  BY <1>1 DEF Shaped, Statement
<1>3. PICK l \in Nat : Len(frames) = l + 1 /\ l # 0
  <2>a. Len(frames) > 0
    BY <1>1
  <2>1. PICK m \in Nat : m = Len(frames) /\ m > 0 /\ m # 1
    BY <2>a, <1>1, <1>2
  <2>2. m - 1 \in Nat /\ m = (m - 1) + 1 /\ m - 1 # 0
    BY <2>1
  <2> QED
    BY <2>1, <2>2
<1>4. Rest = SubSeq(frames, 1, l)
  BY <1>3 DEF Rest, Front
<1>5. Len(Rest) = l /\ Rest[l] = frames[l] /\ l \in DOMAIN frames /\ l + 1 \in DOMAIN frames
  BY <1>1, <1>3, <1>4
<1>6. frames[l + 1].kind = "Size"
  BY <1>1, <1>3
<1>7. IsData(frames[l].ty)
  <2>1. PICK i \in DOMAIN frames : i = l + 1
    BY <1>5
  <2> QED
    BY <2>1, <1>5, <1>6 DEF Sizes
<1> QED
  BY <1>5, <1>7

(* VisitArrayTypeRepr keeps the invariant. *)
LEMMA ArrayReprStep ==
    ASSUME IInv, VisitArrayTypeRepr
    PROVE  IInv'
<1>1. PICK es : BodyOf(es)
  BY DEF IInv, Body
<1>2. PICK base, size : base = Rest[Len(Rest)].ty /\ size = Top.kids[1]
  OBVIOUS
<1>3. PICK ty : ty = IF size.kind = "Number" THEN WithSize(base, size.val) ELSE NoType
  OBVIOUS
<1>4. /\ Full("Size") /\ frames' = [Rest EXCEPT ![Len(Rest)].ty = ty]
      /\ error' = (error \/ ty = NoType)
      /\ UNCHANGED <<decls, stmts, last, nodes, sema, irgen, mutated, odd>>
  BY <1>2, <1>3 DEF VisitArrayTypeRepr, outerVars
<1>5. Running /\ frames # <<>> /\ Top.kind = "Size" /\ size \in es
  BY <1>1, <1>2, <1>4, OneChild
<1>6. Shaped(frames, es) /\ Sizes(frames) /\ (odd = {} => Placed(frames))
  BY <1>1 DEF BodyOf
<1>7. Top.kind \notin Statement
  BY <1>5 DEF Statement
<1>8. Shaped(Rest, es) /\ Rest # <<>> /\ Sizes(Rest) /\ (Placed(frames) => Placed(Rest))
  BY <1>5, <1>6, <1>7, RestIs, RestSizes
<1>9. IsData(base)
  BY <1>2, <1>5, <1>6, SizedIs
<1>10. size.val \in Nat
  BY <1>1, <1>5, NodesAre DEF Formed
<1>11. ty \in FrameTypes
  BY <1>3, <1>9, <1>10, WithSizeIs, DataIsFrameType
<1>12. Shaped(frames', es) /\ Sizes(frames') /\ (odd = {} => Placed(frames'))
  <2>1. frames' = Retyped(Rest, ty)
    BY <1>4 DEF Retyped
  <2>2. /\ Shaped(Retyped(Rest, ty), es) /\ Sizes(Retyped(Rest, ty))
        /\ Placed(Rest) => Placed(Retyped(Rest, ty))
    BY <1>8, <1>11, RetypedShape
  <2> QED
    BY <1>6, <1>8, <2>1, <2>2
<1>13. nodes' \in Nat /\ stmts' \in 0 .. MaxStmts /\ error' \in BOOLEAN /\ (~error' => ~error)
  BY <1>4 DEF IInv, TypeOK
<1> QED
  BY <1>1, <1>4, <1>5, <1>12, <1>13, QuietStep

-----------------------------------------------------------------------------
(* The ends of the statements *)

(* Nothing is being visited. *)
LEMMA NoFrames ==
    ASSUME NEW es, NEW fs, fs = <<>>
    PROVE  Shaped(fs, es) /\ Sizes(fs) /\ Placed(fs)
  BY DEF Shaped, Sizes, Placed

(* What the statement around the expressions kids has besides them *)
LEMMA EndStep ==
    ASSUME NEW es, BodyOf(es), IInv, Running, NEW kids \in Seq(es), NEW emits \in BOOLEAN,
           NEW oddities \in SUBSET Odd, End(kids, emits, oddities), NEW fits, Generate(fits),
           DeclsKept(es), DOMAIN decls' \subseteq DOMAIN Given \union Local,
           error' \in BOOLEAN, ~error' => ~error,
           sema' \in {"ok", "crash"}, odd = {} /\ oddities = {} => sema' = "ok",
           Accepted /\ oddities = {} /\ ~error' => fits /\ (emits \/ Written(kids) = <<>>)
    PROVE  IInv'
<1>1. /\ frames' = <<>> /\ odd' = odd \union oddities /\ UNCHANGED <<nodes, stmts, mutated>>
      /\ last' = [written |-> Written(kids),
                  emitted |-> IF emits THEN Emissions(kids) ELSE <<>>]
      /\ irgen' = IF ~error' /\ sema' = "ok" /\ ~fits THEN "bad" ELSE irgen
  BY DEF End, Generate
<1>2. Shaped(frames', es) /\ Sizes(frames') /\ Placed(frames')
  BY <1>1, NoFrames
<1>3. odd \subseteq odd' /\ odd' \subseteq Odd /\ (odd' = {} => odd = {} /\ oddities = {})
  BY <1>1 DEF IInv, TypeOK
<1>4. irgen' \in {"ok", "bad"}
  BY <1>1 DEF IInv, TypeOK
<1>5. ASSUME Accepted'
      PROVE  irgen' = "ok" /\ last'.emitted = last'.written
  <2>1. Accepted /\ oddities = {} /\ ~error'
    BY <1>3, <1>5 DEF Accepted, Running
  <2>2. fits /\ (emits \/ Written(kids) = <<>>)
    BY <2>1
  <2>3. irgen' = "ok"
    BY <1>1, <2>2 DEF Running
  <2>4. \A i \in DOMAIN kids : Fits(kids[i])
    BY <2>1, NodesAre
  <2>5. Emissions(kids) = Written(kids)
    BY <2>4, EffectsOfFitting
  <2>6. last'.written = Written(kids) /\ last'.emitted = IF emits THEN Emissions(kids) ELSE <<>>
    BY <1>1
  <2> QED
    BY <2>2, <2>3, <2>5, <2>6
<1>6. nodes' \in Nat /\ stmts' \in 0 .. MaxStmts
  BY <1>1 DEF IInv, TypeOK
<1>7. odd' = {} => sema' = "ok"
  BY <1>3
<1> QED
  BY <1>1, <1>2, <1>3, <1>4, <1>5, <1>6, <1>7, OtherStep

(* VisitExprStmt keeps the invariant. *)
LEMMA ExprStmtStep ==
    ASSUME IInv, VisitExprStmt
    PROVE  IInv'
<1>1. PICK es : BodyOf(es)
  BY DEF IInv, Body
<1>2. PICK kids : kids = Top.kids
  OBVIOUS
<1>3. /\ Full("Expr") /\ End(kids, TRUE, {}) /\ UNCHANGED <<decls, error, sema>>
      /\ Generate(kids[1].ir # Bad)
  BY <1>2 DEF VisitExprStmt
<1>4. /\ Running /\ frames # <<>> /\ Top.kind = "Expr" /\ kids \in Seq(es)
      /\ Len(kids) = 1 /\ kids[1] \in es
  BY <1>1, <1>2, <1>3, OneChild
<1>5. odd = {} => Value(kids[1])
  BY <1>1, <1>2, <1>4, ValuesAre
<1>6. Accepted => Fits(kids[1])
  BY <1>1, <1>4, NodesAre
<1>7. Accepted => kids[1].ir # Bad
  <2> SUFFICES ASSUME Accepted PROVE kids[1].ir # Bad
    OBVIOUS
  <2>1. Fits(kids[1]) /\ Value(kids[1])
    BY <1>5, <1>6 DEF Accepted
  <2>2. IsData(kids[1].ty) /\ kids[1].ir = Emitted(kids[1].ty)
    BY <2>1, FittingIs
  <2> QED
    BY <2>2, EmittedIs
<1>8. odd' = odd
  BY <1>3 DEF End
<1>9. DeclsKept(es) /\ DOMAIN decls' \subseteq DOMAIN Given \union Local
  BY <1>1, <1>3, <1>8, SameDecls DEF IInv, TypeOK
<1>10. error' \in BOOLEAN /\ (~error' => ~error) /\ sema' = "ok"
  BY <1>3, <1>4 DEF IInv, TypeOK, Running
<1> QED
  BY <1>1, <1>3, <1>4, <1>7, <1>9, <1>10, EndStep

(* VisitCond keeps the invariant: the condition is an Int. *)
LEMMA CondStep ==
    ASSUME IInv, VisitCond
    PROVE  IInv'
<1>1. PICK es : BodyOf(es)
  BY DEF IInv, Body
<1>2. PICK kids, e : kids = Top.kids /\ e = Top.kids[1]
  OBVIOUS
<1>3. PICK oddities : oddities = Found("condition type", ~Equals(e.ty, IntTy))
  OBVIOUS
<1>4. /\ Full("Cond") /\ End(kids, TRUE, oddities) /\ UNCHANGED <<decls, error, sema>>
      /\ Generate(e.ir = IntTy)
  BY <1>2, <1>3 DEF VisitCond
<1>5. Running /\ frames # <<>> /\ kids \in Seq(es) /\ e \in es
  BY <1>1, <1>2, <1>4, OneChild
<1>6. oddities \in SUBSET Odd /\ (oddities = {} => e.ty = IntTy)
  BY <1>3 DEF Found, Odd, Equals
<1>7. Accepted => Fits(e)
  BY <1>1, <1>5, NodesAre
<1>8. Value(e) <=> KindOf(e.ty) # "Func"
  BY DEF Value
<1>9. e.ty = IntTy => Value(e)
  BY <1>8 DEF IntTy, Con, KindOf, NoType
<1>10. Accepted /\ oddities = {} => e.ir = IntTy
  <2> SUFFICES ASSUME Accepted, oddities = {} PROVE e.ir = IntTy
    OBVIOUS
  <2>1. e.ir = Emitted(IntTy)
    BY <1>6, <1>7, <1>9, FittingIs
  <2> QED
    BY <2>1, EmittedScalar
<1>11. odd' = {} => odd = {}
  BY <1>4 DEF End
<1>12. DeclsKept(es) /\ DOMAIN decls' \subseteq DOMAIN Given \union Local
  BY <1>1, <1>4, <1>11, SameDecls DEF IInv, TypeOK
<1>13. error' \in BOOLEAN /\ (~error' => ~error) /\ sema' = "ok"
  BY <1>4, <1>5 DEF IInv, TypeOK, Running
<1> QED
  BY <1>1, <1>4, <1>5, <1>6, <1>10, <1>12, <1>13, EndStep

(* VisitRange keeps it: the start and the end are Ints. *)
LEMMA RangeStep ==
    ASSUME IInv, VisitRange
    PROVE  IInv'
<1>1. PICK es : BodyOf(es)
  BY DEF IInv, Body
<1>2. PICK kids, start, end : kids = Top.kids /\ start = Top.kids[1] /\ end = Top.kids[2]
  OBVIOUS
<1>3. PICK oddities :
        oddities = Found("range type", {start.ty, end.ty} # {IntTy})
                   \union Found("undefined range", ~Typed(start) \/ ~Typed(end))
  OBVIOUS
<1>4. /\ Full("Range") /\ End(kids, TRUE, oddities) /\ UNCHANGED <<decls, error>>
      /\ sema' = IF EqualsCrashes(start.ty, end.ty) THEN "crash" ELSE "ok"
      /\ Generate(start.ir = IntTy /\ end.ir = IntTy)
  BY <1>2, <1>3 DEF VisitRange
<1>5. Running /\ frames # <<>> /\ kids \in Seq(es) /\ start \in es /\ end \in es
  BY <1>1, <1>2, <1>4, TwoChildren
<1>6. oddities \in SUBSET Odd
  BY <1>3 DEF Found, Odd
<1>7. oddities = {} => {start.ty, end.ty} = {IntTy} /\ Typed(start) /\ Typed(end)
  BY <1>3 DEF Found
<1>8. oddities = {} => start.ty = IntTy /\ end.ty = IntTy
  BY <1>7
<1>9. oddities = {} => sema' = "ok"
  BY <1>4, <1>7 DEF EqualsCrashes, Typed
<1>10. Accepted => Fits(start) /\ Fits(end)
  BY <1>1, <1>5, NodesAre
<1>11. \A e : e.ty = IntTy => Value(e)
  BY DEF Value, IntTy, Con, KindOf, NoType
<1>12. Accepted /\ oddities = {} => start.ir = IntTy /\ end.ir = IntTy
  <2> SUFFICES ASSUME Accepted, oddities = {} PROVE start.ir = IntTy /\ end.ir = IntTy
    OBVIOUS
  <2>1. Value(start) /\ Value(end)
    BY <1>8, <1>11
  <2>2. start.ir = Emitted(IntTy) /\ end.ir = Emitted(IntTy)
    BY <1>8, <1>10, <2>1, FittingIs
  <2> QED
    BY <2>2, EmittedScalar
<1>13. odd' = {} => odd = {}
  BY <1>4 DEF End
<1>14. DeclsKept(es) /\ DOMAIN decls' \subseteq DOMAIN Given \union Local
  BY <1>1, <1>4, <1>13, SameDecls DEF IInv, TypeOK
<1>15. error' \in BOOLEAN /\ (~error' => ~error) /\ sema' \in {"ok", "crash"}
  BY <1>4 DEF IInv, TypeOK
<1> QED
  BY <1>1, <1>4, <1>5, <1>6, <1>9, <1>12, <1>14, <1>15, EndStep

(* A declaration of a variable or a return statement may have a value. *)
LEMMA MayHaveValue ==
    ASSUME NEW es, BodyOf(es), frames # <<>>, Top.kind \in {"Var", "Let", "Return"}
    PROVE  /\ Top.kids \in Seq(es) /\ Top.ty \in FrameTypes
           /\ Top.kids # <<>> => Top.kids[1] \in es /\ (odd = {} => Value(Top.kids[1]))
<1>1. Shaped(frames, es)
  BY DEF BodyOf
<1>2. /\ Top.kids \in Seq(es) /\ Top.ty \in FrameTypes /\ DOMAIN Top.kids = 1 .. Len(Top.kids)
      /\ \A j \in DOMAIN Top.kids : Top.kids[j] \in es
  BY <1>1, TopIs
<1>3. Top.kids # <<>> => 1 \in 1 .. Len(Top.kids)
  BY <1>2
<1>4. Top.kids # <<>> /\ odd = {} => Value(Top.kids[1])
  BY <1>3, ValuesAre
<1> QED
  BY <1>2, <1>3, <1>4

(* VisitReturn keeps the invariant. *)
LEMMA ReturnStep ==
    ASSUME IInv, VisitReturn
    PROVE  IInv'
<1>1. PICK es : BodyOf(es)
  BY DEF IInv, Body
<1>2. PICK kids, ret, e : kids = Top.kids /\ ret = Top.ty /\ e = kids[1]
  OBVIOUS
<1>3. PICK typed : typed = (kids # <<>> /\ Typed(e))
  OBVIOUS
<1>4. PICK oddities :
        oddities = Found("return type", typed /\ ~Equals(ret, e.ty))
                   \union Found("void return", isVoidType(ret) /\ Written(kids) # <<>>)
                   \union Found("unknown result", ret = NoType)
  OBVIOUS
<1>5. PICK fits : fits = (isVoidType(ret) \/ (kids # <<>> /\ e.ir = Emitted(ret)))
  OBVIOUS
<1>6. /\ Running /\ frames # <<>> /\ Top.kind = "Return"
      /\ End(kids, ~isVoidType(ret), oddities)
      /\ error' = (error \/ MissesValue(kids, ret))
      /\ sema' = IF (kids = <<>> \/ typed) /\ ret = NoType THEN "crash" ELSE "ok"
      /\ Generate(fits) /\ UNCHANGED decls
  BY <1>2, <1>3, <1>4, <1>5 DEF VisitReturn
<1>7. kids \in Seq(es) /\ (kids # <<>> => e \in es /\ (odd = {} => Value(e)))
  BY <1>1, <1>2, <1>6, MayHaveValue
<1>8. oddities \in SUBSET Odd
  BY <1>4 DEF Found, Odd
<1>9. oddities = {} => /\ typed => ret = e.ty
                       /\ isVoidType(ret) => Written(kids) = <<>>
                       /\ ret # NoType
  BY <1>4 DEF Found, Equals
<1>10. oddities = {} => sema' = "ok"
  BY <1>6, <1>9
<1>11. Accepted /\ oddities = {} /\ ~error' =>
          fits /\ (~isVoidType(ret) \/ Written(kids) = <<>>)
  <2> SUFFICES ASSUME Accepted, oddities = {}, ~error'
               PROVE  fits /\ (~isVoidType(ret) \/ Written(kids) = <<>>)
    OBVIOUS
  <2>1. ~isVoidType(ret) \/ Written(kids) = <<>>
    BY <1>9
  <2>2. ~MissesValue(kids, ret)
    BY <1>6
  <2>3. CASE isVoidType(ret)
    BY <1>5, <2>1, <2>3
  <2>4. CASE ~isVoidType(ret)
    <3>1. kids # <<>>
      BY <2>2, <2>4 DEF MissesValue
    <3>2. Fits(e) /\ Value(e)
      BY <1>1, <1>7, <3>1, NodesAre DEF Accepted
    <3>3. Typed(e) /\ e.ir = Emitted(e.ty)
      BY <3>2, FittingIs
    <3>4. ret = e.ty
      BY <1>3, <1>9, <3>1, <3>3
    <3> QED
      BY <1>5, <2>1, <3>1, <3>3, <3>4
  <2> QED
    BY <2>3, <2>4
<1>12. odd' = {} => odd = {}
  BY <1>6 DEF End
<1>13. DeclsKept(es) /\ DOMAIN decls' \subseteq DOMAIN Given \union Local
  BY <1>1, <1>6, <1>12, SameDecls DEF IInv, TypeOK
<1>14. error' \in BOOLEAN /\ (~error' => ~error) /\ sema' \in {"ok", "crash"}
  BY <1>6 DEF IInv, TypeOK
<1>15. PICK emits \in BOOLEAN : emits = ~isVoidType(ret)
  OBVIOUS
<1> QED
  BY <1>1, <1>6, <1>7, <1>8, <1>10, <1>11, <1>13, <1>14, <1>15, EndStep

(* A new declaration of data keeps the others. *)
LEMMA DeclaresKept ==
    ASSUME NEW es, BodyOf(es), NEW n, n \notin DOMAIN decls, NEW let \in BOOLEAN, NEW ty,
           NEW value, isLiteral(value) => value \in es,
           NEW root \in SUBSET (Origins(decls) \union {<<n, "element">>}),
           ~let => Clean(root), odd' = {} => odd = {} /\ IsData(ty),
           decls' = Declare(n, Decl(let, ty, value, root))
    PROVE  DeclsKept(es) /\ DOMAIN decls' = DOMAIN decls \union {n}
<1>1. PICK d : d = Decl(let, ty, value, root)
  OBVIOUS
<1>2. d.let = let /\ d.ty = ty /\ d.value = value /\ d.root = root
  BY <1>1 DEF Decl
<1>3. /\ DOMAIN decls' = DOMAIN decls \union {n} /\ decls'[n] = d
      /\ \A m \in DOMAIN decls : decls'[m] = decls[m]
  BY <1>1 DEF Declare
<1>4. Origins(decls) \union {<<n, "element">>} \subseteq Origins(decls')
  BY <1>3 DEF Origins
<1>5. IsDecl(decls', es, d)
  BY <1>1, <1>2, <1>4 DEF IsDecl
<1>6. ASSUME NEW m \in DOMAIN decls
      PROVE  IsDecl(decls', es, decls[m])
  <2>1. IsDecl(decls, es, decls[m])
    BY DEF BodyOf, Basis
  <2> QED
    BY <2>1, <1>3, DeclGrows
<1>7. \A m \in DOMAIN decls' : m = n \/ m \in DOMAIN decls
  BY <1>3
<1>8. \A m \in DOMAIN decls' : IsDecl(decls', es, decls'[m])
  BY <1>3, <1>5, <1>6, <1>7
<1>9. odd' = {} => \A m \in DOMAIN decls' : IsData(decls'[m].ty)
  BY <1>2, <1>3, <1>7 DEF BodyOf
<1> QED
  BY <1>3, <1>8, <1>9 DEF DeclsKept

(* VisitVarDecl keeps the invariant: the variable's memory is of the LLVM  *)
(* type of the value that is stored in it.                                 *)
LEMMA VarDeclStep ==
    ASSUME IInv, NEW n \in Local, VisitVarDecl(n)
    PROVE  IInv'
<1>1. PICK es : BodyOf(es)
  BY DEF IInv, Body
<1>2. PICK f, kids : f = Top /\ kids = f.kids
  OBVIOUS
<1>3. PICK value : value = IF kids = <<>> THEN NoValue ELSE kids[1]
  OBVIOUS
<1>4. PICK ty : ty = IF kids = <<>> THEN f.ty ELSE value.ty
  OBVIOUS
<1>5. PICK declares \in BOOLEAN : declares <=> DeclaresVar(f, ty)
  OBVIOUS
<1>6. PICK let \in BOOLEAN : let <=> f.kind = "Let"
  OBVIOUS
<1>7. PICK root, own :
        /\ own = IF let /\ isRefType(ty) THEN {<<n, "element">>} ELSE {}
        /\ root = own \union Alias(value)
  OBVIOUS
<1>8. PICK oddities : oddities = Found("void variable", declares /\ isVoidType(ty))
  OBVIOUS
<1>9. PICK fits : fits = (/\ declares /\ ~isVoidType(ty)
                          /\ kids # <<>> => value.ir = Emitted(ty))
  OBVIOUS
<1>10. /\ Running /\ frames # <<>> /\ f.kind \in {"Var", "Let"}
       /\ End(kids, TRUE, oddities) /\ Generate(fits) /\ sema' = sema
  BY <1>2, <1>3, <1>4, <1>5, <1>8, <1>9 DEF VisitVarDecl
<1>11. error' = \/ error
                \/ declares /\ (n \in DOMAIN decls \/ ~KeepsConstant(f))
                \/ ~declares /\ (kids # <<>> => Typed(value))
  BY <1>2, <1>3, <1>4, <1>5 DEF VisitVarDecl
<1>12. decls' = IF declares /\ n \notin DOMAIN decls
                THEN Declare(n, Decl(let, ty, value, root)) ELSE decls
  BY <1>2, <1>3, <1>4, <1>5, <1>6, <1>7 DEF VisitVarDecl
<1>13. /\ kids \in Seq(es) /\ f.ty \in FrameTypes
       /\ kids # <<>> => kids[1] \in es /\ (odd = {} => Value(kids[1]))
  BY <1>1, <1>2, <1>10, MayHaveValue
<1>14. oddities \in SUBSET Odd /\ (oddities = {} => ~(declares /\ isVoidType(ty)))
  BY <1>8 DEF Found, Odd
<1>15. odd' = {} => odd = {}
  BY <1>10 DEF End
<1>16. kids = <<>> => value = NoValue
  BY <1>3
<1>17. kids # <<>> => value \in es /\ ty = value.ty /\ (odd = {} => Value(value))
  BY <1>3, <1>4, <1>13
<1>18. Formed(decls, es, value) /\ (isLiteral(value) => value \in es)
  <2>1. CASE kids = <<>>
    <3>1. Formed(decls, es, NoValue)
      BY UntypedIsFormed DEF NoValue
    <3>2. ~isLiteral(NoValue)
      BY DEF NoValue, Node, isLiteral
    <3> QED
      BY <1>16, <2>1, <3>1, <3>2
  <2>2. CASE kids # <<>>
    BY <1>1, <1>17, <2>2, NodesAre
  <2> QED
    BY <2>1, <2>2
<1>19. /\ root \in SUBSET (Origins(decls) \union {<<n, "element">>})
       /\ ~let => Clean(root)
  BY <1>7, <1>18, AliasIs
<1>20. declares /\ odd = {} => IsData(ty)
  <2> SUFFICES ASSUME declares, odd = {} PROVE IsData(ty)
    OBVIOUS
  <2>1. ty \notin {None, NoType}
    BY <1>5 DEF DeclaresVar
  <2>2. CASE kids = <<>>
    BY <1>4, <1>13, <2>1, <2>2 DEF FrameTypes
  <2>3. CASE kids # <<>>
    <3>1. Proper(value) /\ Value(value) /\ Typed(value)
      BY <1>1, <1>17, <2>1, <2>3, NodesAre DEF Typed
    <3> QED
      BY <1>17, <2>3, <3>1, ProperKinds
  <2> QED
    BY <2>2, <2>3
<1>21. DeclsKept(es) /\ DOMAIN decls' \subseteq DOMAIN Given \union Local
  <2>1. DOMAIN decls \subseteq DOMAIN Given \union Local
    BY DEF IInv, TypeOK
  <2>2. CASE declares /\ n \notin DOMAIN decls
    <3>1. decls' = Declare(n, Decl(let, ty, value, root))
      BY <1>12, <2>2
    <3>2. odd' = {} => odd = {} /\ IsData(ty)
      BY <1>15, <1>20, <2>2
    <3>3. DeclsKept(es) /\ DOMAIN decls' = DOMAIN decls \union {n}
      BY <1>1, <1>18, <1>19, <2>2, <3>1, <3>2, DeclaresKept
    <3> QED
      BY <2>1, <3>3
  <2>3. CASE ~(declares /\ n \notin DOMAIN decls)
    <3>1. decls' = decls
      BY <1>12, <2>3
    <3> QED
      BY <1>1, <1>15, <2>1, <3>1, SameDecls
  <2> QED
    BY <2>2, <2>3
<1>22. ASSUME Accepted, oddities = {}, ~error'
       PROVE  fits
  <2>1. declares
    <3>1. kids # <<>> => Typed(value)
      BY <1>1, <1>17, <1>22, NodesAre, FittingIs
    <3> QED
      BY <1>11, <1>22, <3>1
  <2>2. ~isVoidType(ty)
    BY <1>14, <1>22, <2>1
  <2>3. ASSUME kids # <<>>
        PROVE  value.ir = Emitted(ty)
    <3>1. Fits(value) /\ Value(value)
      BY <1>1, <1>17, <1>22, <2>3, NodesAre DEF Accepted
    <3> QED
      BY <1>17, <2>3, <3>1, FittingIs
  <2> QED
    BY <1>9, <2>1, <2>2, <2>3
<1>23. error' \in BOOLEAN /\ (~error' => ~error) /\ sema' = "ok"
  BY <1>10, <1>11 DEF Running, IInv, TypeOK
<1> QED
  BY <1>1, <1>10, <1>13, <1>14, <1>21, <1>22, <1>23, EndStep

-----------------------------------------------------------------------------
(* The theorems *)

(* Every step keeps the invariant. *)
LEMMA NextIInv == IInv /\ [Next]_vars => IInv'
<1> SUFFICES ASSUME IInv, [Next]_vars PROVE IInv'
  OBVIOUS
<1>1. CASE UNCHANGED vars
  <2>1. /\ UNCHANGED <<decls, frames, nodes, stmts, error, sema, irgen, last, mutated, odd>>
    BY <1>1 DEF vars
  <2>2. PICK es : BodyOf(es)
    BY DEF IInv, Body
  <2>3. BodyOf(es)'
    BY <2>1, <2>2 DEF BodyOf, Basis, Accepted
  <2>4. TypeOK' /\ Sound' /\ Survives' /\ EffectsKept' /\ ConstantsKept'
    BY <2>1 DEF IInv, TypeOK, Sound, Survives, EffectsKept, ConstantsKept, Accepted
  <2> QED
    BY <2>3, <2>4 DEF IInv, Body
<1>2. ASSUME NEW n \in Number, VisitNumberLiteral(n) PROVE IInv'
  BY <1>2, NumberStep
<1>3. ASSUME NEW n \in Names, VisitIdentifier(n) PROVE IInv'
  BY <1>3, IdentifierStep
<1>4. ASSUME NEW kind \in {"Array", "InOut", "Paren", "Assign", "Infix", "Prefix", "Call",
                           "Subscript"},
             Enter(kind)
      PROVE  IInv'
  <2>1. kind \in Kinds \ Statement /\ kind # "Size"
    BY DEF Kinds, Statement
  <2> QED
    BY <1>4, <2>1, EnterStep
<1>5. CASE VisitArrayLiteral
  BY <1>5, ArrayStep
<1>6. CASE VisitInOut
  BY <1>6, InOutStep
<1>7. CASE VisitParen
  BY <1>7, ParenStep
<1>8. CASE VisitAssign
  BY <1>8, AssignStep
<1>9. CASE VisitInfix
  BY <1>9, InfixStep
<1>10. CASE VisitPrefix
  BY <1>10, PrefixStep
<1>11. CASE VisitCall
  BY <1>11, CallStep
<1>12. CASE VisitSubscript
  BY <1>12, SubscriptStep
<1>13. CASE BeginPlain \/ BeginVarDecl \/ BeginReturn
  BY <1>13, BeginsStep
<1>14. CASE EnterSize
  BY <1>14, SizeStep
<1>15. CASE VisitArrayTypeRepr
  BY <1>15, ArrayReprStep
<1>16. CASE VisitExprStmt
  BY <1>16, ExprStmtStep
<1>17. ASSUME NEW n \in Local, VisitVarDecl(n) PROVE IInv'
  BY <1>17, VarDeclStep
<1>18. CASE VisitReturn
  BY <1>18, ReturnStep
<1>19. CASE VisitCond
  BY <1>19, CondStep
<1>20. CASE VisitRange
  BY <1>20, RangeStep
<1> QED
  BY <1>1, <1>2, <1>3, <1>4, <1>5, <1>6, <1>7, <1>8, <1>9, <1>10, <1>11, <1>12, <1>13,
     <1>14, <1>15, <1>16, <1>17, <1>18, <1>19, <1>20 DEF Next

(* The nodes of a body that is accepted all fit, those in the frames among *)
(* them.                                                                   *)
LEMMA IInvIsWellTyped == IInv => WellTyped
<1> SUFFICES ASSUME IInv PROVE WellTyped
  OBVIOUS
<1>1. TypeOK
  BY DEF IInv
<1>2. ASSUME Accepted, NEW i \in DOMAIN frames, NEW j \in DOMAIN frames[i].kids
      PROVE  LET e == frames[i].kids[j] IN
             Typed(e) /\ (KindOf(e.ty) = "Func" \/ e.ir = Emitted(e.ty))
  <2>1. PICK es : BodyOf(es)
    BY DEF IInv, Body
  <2>2. frames \in Seq(FrameIn(es))
    BY <2>1 DEF BodyOf, Shaped
  <2>3. frames[i] \in FrameIn(es)
    BY <2>2
  <2>4. frames[i].kids \in Seq(es)
    BY <2>3 DEF FrameIn
  <2>5. PICK e \in es : e = frames[i].kids[j]
    BY <2>4
  <2>6. Fits(e)
    BY <1>2, <2>1, <2>5, NodesAre
  <2>7. Typed(e) /\ (Value(e) => e.ir = Emitted(e.ty))
    BY <2>6, FittingIs
  <2> QED
    BY <2>5, <2>7 DEF Value
<1> QED
  BY <1>1, <1>2 DEF WellTyped

(* The invariant holds in every state. *)
THEOREM Invariant == Spec => []IInv
  BY InitIInv, NextIInv, PTL DEF Spec

(* WellTyped: in a body that is accepted, every expression that the        *)
(* visitors of ExprChecker have left has a type, and RValueEmitter emits   *)
(* a value of the LLVM type that stands for it.                            *)
THEOREM TypesAgree == Spec => []WellTyped
  BY Invariant, IInvIsWellTyped, PTL

(* Sound: GenFunc comes through every statement that the type checker      *)
(* accepts, and emits well-typed instructions for it.                      *)
THEOREM CodeIsSound == Spec => []Sound
<1>1. IInv => Sound
  BY DEF IInv
<1> QED
  BY <1>1, Invariant, PTL

(* Survives: the type checker asks a null type for its kind in none of the *)
(* bodies it accepts or refuses, but for those that are odd.               *)
THEOREM CheckerSurvives == Spec => []Survives
<1>1. IInv => Survives
  BY DEF IInv
<1> QED
  BY <1>1, Invariant, PTL

(* EffectsKept: the calls and assignments that are emitted for an accepted *)
(* statement are those of its source, whatever ExprSolver put in place of  *)
(* its constants and subscripts.                                           *)
THEOREM EffectsAreKept == Spec => []EffectsKept
<1>1. IInv => EffectsKept
  BY DEF IInv
<1> QED
  BY <1>1, Invariant, PTL

(* ConstantsKept: what an accepted body assigns to is no constant and no   *)
(* element that is reached by the name of one: ensureMutable sees enough.  *)
THEOREM ConstantsAreSpared == Spec => []ConstantsKept
<1>1. IInv => ConstantsKept
  BY DEF IInv
<1> QED
  BY <1>1, Invariant, PTL

=============================================================================
