-------------------------- MODULE NameLookupProofs --------------------------
(***************************************************************************)
(* For every set of names and declarations and every depth: the symbol     *)
(* table is well typed, a local never hides a function, lookups are        *)
(* complete, and a table whose declareLet is not called implements         *)
(* LexicalEnv.                                                             *)
(***************************************************************************)
EXTENDS NameLookup, WellFoundedInduction, TLAPS

-----------------------------------------------------------------------------
(* The nearest entry of a chain *)

(* A nonempty set of layers has an innermost one. *)
LEMMA InnermostExists ==
    ASSUME NEW i \in Nat, NEW S, S \subseteq 1 .. i, S # {}
    PROVE  Innermost(S) \in S /\ \A k \in S : k <= Innermost(S)
<1> DEFINE T == {i - j : j \in S}
<1>1. T \subseteq Nat /\ T # {}
  <2>1. \A j \in S : i - j \in Nat
    OBVIOUS
  <2> QED
    BY <2>1
<1>2. PICK t \in T : \A u \in T : ~(<<u, t>> \in OpToRel(<, Nat))
  BY <1>1, NatLessThanWellFounded, WFMin
<1>3. \A u \in T : ~(u < t)
  BY <1>1, <1>2 DEF OpToRel
<1>4. PICK m \in S : t = i - m
  BY <1>2
<1>5. \A k \in S : k <= m
  <2> SUFFICES ASSUME NEW k \in S
               PROVE  k <= m
    OBVIOUS
  <2>1. i - k \in T /\ ~(i - k < t)
    BY <1>3
  <2> QED
    BY <1>4, <2>1
<1> QED
  BY <1>5 DEF Innermost

(* Chains that agree on a name up to layer i have the same nearest entry. *)
LEMMA NearestSame ==
    ASSUME NEW ls1, NEW ls2, NEW m, NEW n, NEW i \in Nat,
           \A j \in 1 .. i : ls1[j][m][n] = ls2[j][m][n]
    PROVE  Nearest(ls1, m, i, n) = Nearest(ls2, m, i, n)
<1>1. Holding(ls1, m, i, n) = Holding(ls2, m, i, n)
  BY DEF Holding
<1>2. CASE Holding(ls1, m, i, n) = {}
  BY <1>1, <1>2 DEF Nearest
<1>3. CASE Holding(ls1, m, i, n) # {}
  <2>1. Innermost(Holding(ls1, m, i, n)) \in 1 .. i
    BY <1>3, InnermostExists DEF Holding
  <2> QED
    BY <1>1, <1>3, <2>1 DEF Nearest
<1> QED
  BY <1>2, <1>3

(* A layer without the name is passed over. *)
LEMMA NearestPasses ==
    ASSUME NEW ls, NEW m, NEW n, NEW i \in Nat,
           ls[i + 1][m][n] = NoDecl
    PROVE  Nearest(ls, m, i + 1, n) = Nearest(ls, m, i, n)
<1>1. Holding(ls, m, i + 1, n) = Holding(ls, m, i, n)
  BY DEF Holding
<1> QED
  BY <1>1 DEF Nearest

(* A layer with the name is where the walk stops. *)
LEMMA NearestStops ==
    ASSUME NEW ls, NEW m, NEW n, NEW i \in Nat \ {0},
           ls[i][m][n] # NoDecl
    PROVE  Nearest(ls, m, i, n) = ls[i][m][n]
<1> DEFINE S == Holding(ls, m, i, n)
<1>1. i \in S /\ S \subseteq 1 .. i
  BY DEF Holding
<1>2. Innermost(S) \in S /\ i <= Innermost(S)
  BY <1>1, InnermostExists
<1>3. Innermost(S) = i
  BY <1>1, <1>2
<1> QED
  BY <1>1, <1>3 DEF Nearest

(* The nearest entry is an entry of some layer, if there is any. *)
LEMMA NearestIsEntry ==
    ASSUME NEW ls, NEW m, NEW n, NEW i \in Nat
    PROVE  \/ Nearest(ls, m, i, n) = NoDecl
           \/ \E j \in 1 .. i : Nearest(ls, m, i, n) = ls[j][m][n]
<1>1. CASE Holding(ls, m, i, n) = {}
  BY <1>1 DEF Nearest
<1>2. CASE Holding(ls, m, i, n) # {}
  <2>1. Innermost(Holding(ls, m, i, n)) \in 1 .. i
    BY <1>2, InnermostExists DEF Holding
  <2> QED
    BY <1>2, <2>1 DEF Nearest
<1> QED
  BY <1>1, <1>2

-----------------------------------------------------------------------------
(* Type correctness *)

LEMMA EmptyLayerOK ==
    /\ EmptyLayer \in Layer
    /\ \A n \in Name : EmptyLayer.Vars[n] = NoDecl /\ EmptyLayer.Consts[n] = NoDecl
BY DEF EmptyLayer, NoDecls, Layer

LEMMA PushOK ==
    ASSUME NEW ls, ChainOK(ls)
    PROVE  /\ ChainOK(Append(ls, EmptyLayer))
           /\ Len(Append(ls, EmptyLayer)) = Len(ls) + 1
<1> DEFINE new == Append(ls, EmptyLayer)
<1>1. ls \in Seq(Layer)
  BY DEF ChainOK
<1>2. /\ new \in Seq(Layer) /\ Len(new) = Len(ls) + 1
      /\ \A i \in 1 .. Len(ls) : new[i] = ls[i]
      /\ new[Len(ls) + 1] = EmptyLayer
  BY <1>1, EmptyLayerOK
<1>3. \A i \in 1 .. Len(new), n \in Name :
        /\ new[i].Vars[n] \in OptionalDecl(VarDecl, n)
        /\ new[i].Consts[n] \in OptionalDecl(LetDecl, n)
  <2> SUFFICES ASSUME NEW i \in 1 .. Len(new), NEW n \in Name
               PROVE  /\ new[i].Vars[n] \in OptionalDecl(VarDecl, n)
                      /\ new[i].Consts[n] \in OptionalDecl(LetDecl, n)
    OBVIOUS
  <2>1. CASE i = Len(ls) + 1
    BY <1>2, <2>1, EmptyLayerOK DEF OptionalDecl
  <2>2. CASE i # Len(ls) + 1
    BY <1>1, <1>2, <2>2 DEF ChainOK
  <2> QED
    BY <2>1, <2>2
<1> QED
  BY <1>2, <1>3 DEF ChainOK

LEMMA PopOK ==
    ASSUME NEW ls, ChainOK(ls), Len(ls) > 1
    PROVE  /\ ChainOK(SubSeq(ls, 1, Len(ls) - 1))
           /\ Len(SubSeq(ls, 1, Len(ls) - 1)) = Len(ls) - 1
<1> DEFINE new == SubSeq(ls, 1, Len(ls) - 1)
<1>1. ls \in Seq(Layer)
  BY DEF ChainOK
<1>2. /\ new \in Seq(Layer) /\ Len(new) = Len(ls) - 1
      /\ \A i \in 1 .. Len(new) : new[i] = ls[i]
  BY <1>1
<1> QED
  BY <1>1, <1>2 DEF ChainOK

(* An entry is added to the map m of the innermost layer. *)
LEMMA DeclareOK ==
    ASSUME NEW ls, ChainOK(ls), Len(ls) >= 1, NEW m, NEW d,
           \/ m = "Vars" /\ d \in VarDecl
           \/ m = "Consts" /\ d \in LetDecl
    PROVE  /\ ChainOK(WithEntry(ls, m, d))
           /\ Len(WithEntry(ls, m, d)) = Len(ls)
           /\ WithEntry(ls, m, d)[Len(ls)][m][NameOf(d)] = d
           /\ \A i \in 1 .. Len(ls), k \in {"Vars", "Consts"}, n \in Name :
                ~(i = Len(ls) /\ k = m /\ n = NameOf(d))
                    => WithEntry(ls, m, d)[i][k][n] = ls[i][k][n]
<1> DEFINE new == WithEntry(ls, m, d)
           last == [ls[Len(ls)] EXCEPT ![m][NameOf(d)] = d]
<1>1. ls \in Seq(Layer) /\ Len(ls) \in 1 .. Len(ls) /\ ls[Len(ls)] \in Layer
  BY DEF ChainOK
<1>2. NameOf(d) \in Name
  BY DeclAssumption DEF Value
<1>3. /\ last \in Layer
      /\ last[m][NameOf(d)] = d
      /\ \A k \in {"Vars", "Consts"}, n \in Name :
            ~(k = m /\ n = NameOf(d)) => last[k][n] = ls[Len(ls)][k][n]
  <2>1. CASE m = "Vars" /\ d \in VarDecl
    BY <1>1, <1>2, <2>1 DEF Layer
  <2>2. CASE m = "Consts" /\ d \in LetDecl
    BY <1>1, <1>2, <2>2 DEF Layer
  <2> QED
    BY <2>1, <2>2
<1>4. /\ new \in Seq(Layer) /\ Len(new) = Len(ls)
      /\ new[Len(ls)] = last
      /\ \A i \in 1 .. Len(ls) : i # Len(ls) => new[i] = ls[i]
  BY <1>1, <1>3 DEF WithEntry
<1> HIDE DEF new
<1>5. \A i \in 1 .. Len(ls), k \in {"Vars", "Consts"}, n \in Name :
        ~(i = Len(ls) /\ k = m /\ n = NameOf(d)) => new[i][k][n] = ls[i][k][n]
  <2> SUFFICES ASSUME NEW i \in 1 .. Len(ls), NEW k \in {"Vars", "Consts"}, NEW n \in Name,
                      ~(i = Len(ls) /\ k = m /\ n = NameOf(d))
               PROVE  new[i][k][n] = ls[i][k][n]
    OBVIOUS
  <2>1. CASE i = Len(ls)
    BY <1>3, <1>4, <2>1
  <2>2. CASE i # Len(ls)
    BY <1>4, <2>2
  <2> QED
    BY <2>1, <2>2
<1>6. \A i \in 1 .. Len(new), n \in Name :
        /\ new[i].Vars[n] \in OptionalDecl(VarDecl, n)
        /\ new[i].Consts[n] \in OptionalDecl(LetDecl, n)
  <2> SUFFICES ASSUME NEW i \in 1 .. Len(ls), NEW n \in Name
               PROVE  /\ new[i]["Vars"][n] \in OptionalDecl(VarDecl, n)
                      /\ new[i]["Consts"][n] \in OptionalDecl(LetDecl, n)
    BY <1>4
  <2>1. /\ ls[i]["Vars"][n] \in OptionalDecl(VarDecl, n)
        /\ ls[i]["Consts"][n] \in OptionalDecl(LetDecl, n)
    BY DEF ChainOK
  <2>2. CASE i = Len(ls) /\ n = NameOf(d)
    BY <1>3, <1>4, <1>5, <2>1, <2>2 DEF OptionalDecl
  <2>3. CASE ~(i = Len(ls) /\ n = NameOf(d))
    BY <1>5, <2>1, <2>3
  <2> QED
    BY <2>2, <2>3
<1> QED
  BY <1>3, <1>4, <1>5, <1>6 DEF ChainOK, new

LEMMA GetIsDecl ==
    ASSUME NEW ls, ChainOK(ls), NEW i \in 0 .. Len(ls), NEW n \in Name
    PROVE  /\ Nearest(ls, "Vars", i, n) \in VarDecl \union {NoDecl}
           /\ Nearest(ls, "Consts", i, n) \in LetDecl \union {NoDecl}
           /\ ImplGet(ls, i, n) \in Value \union {NoDecl}
<1>1. Nearest(ls, "Vars", i, n) \in VarDecl \union {NoDecl}
  BY NearestIsEntry DEF ChainOK, OptionalDecl
<1>2. Nearest(ls, "Consts", i, n) \in LetDecl \union {NoDecl}
  BY NearestIsEntry DEF ChainOK, OptionalDecl
<1> QED
  BY <1>1, <1>2 DEF ImplGet, ImplGetVar, Value

(* No call leaves the table ill typed: the chain has one layer for each     *)
(* open scope and every map holds declarations under their own names.       *)
THEOREM TypeCorrect == Spec => []TypeOK
<1>1. Init => TypeOK
  <2> SUFFICES ASSUME Init
               PROVE  TypeOK
    OBVIOUS
  <2>1. layers \in Seq(Layer) /\ Len(layers) = 1 /\ layers[1] = EmptyLayer
    BY EmptyLayerOK DEF Init
  <2>2. ChainOK(layers)
    BY <2>1, EmptyLayerOK DEF ChainOK, OptionalDecl
  <2> QED
    BY <2>1, <2>2, DeclAssumption DEF Init, TypeOK, NoDecls, OptionalDecl
<1>2. TypeOK /\ [Next]_vars => TypeOK'
  <2> SUFFICES ASSUME TypeOK, [Next]_vars
               PROVE  TypeOK'
    OBVIOUS
  <2>0. layers \in Seq(Layer) /\ Len(layers) = Depth + 1 /\ top \in 1 .. Len(layers)
    BY DEF TypeOK, ChainOK, top
  <2>1. ASSUME NEW m, NEW d, DeclareIn(m, d),
               \/ m = "Vars" /\ d \in VarDecl
               \/ m = "Consts" /\ d \in LetDecl
        PROVE  TypeOK'
    <3>1. ChainOK(layers') /\ Len(layers') = Len(layers)
      <4>1. CASE Taken(NameOf(d))
        <5>1. layers' = layers
          BY <2>1, <4>1 DEF DeclareIn
        <5> QED
          BY <5>1 DEF TypeOK
      <4>2. CASE ~Taken(NameOf(d))
        <5>1. layers' = WithEntry(layers, m, d)
          BY <2>1, <4>2 DEF DeclareIn
        <5>2. ChainOK(layers) /\ Len(layers) >= 1
          BY <2>0 DEF TypeOK
        <5> QED
          BY <2>1, <5>1, <5>2, DeclareOK
      <4> QED
        BY <4>1, <4>2
    <3>2. NameOf(d) \in Name
      BY <2>1, DeclAssumption DEF Value
    <3>3. result' \in BOOLEAN
      BY <2>1 DEF DeclareIn
    <3> QED
      BY <2>1, <3>1, <3>2, <3>3 DEF DeclareIn, TypeOK
  <2>2. ASSUME NEW d \in VarDecl, declareVar(d)
        PROVE  TypeOK'
    BY <2>1, <2>2 DEF declareVar
  <2>3. ASSUME NEW d \in LetDecl, declareLet(d)
        PROVE  TypeOK'
    BY <2>1, <2>3 DEF declareLet
  <2>4. ASSUME NEW d \in FuncDecl, declareFunc(d)
        PROVE  TypeOK'
    <3>1. NameOf(d) \in Name
      BY DeclAssumption
    <3>2. result' \in BOOLEAN
      BY <2>4 DEF declareFunc
    <3> QED
      BY <2>4, <3>1, <3>2 DEF declareFunc, TypeOK, ChainOK, OptionalDecl
  <2>5. ASSUME NEW n \in Name, getVal(n)
        PROVE  TypeOK'
    BY <2>0, <2>5, GetIsDecl DEF getVal, TypeOK, ChainOK
  <2>6. ASSUME NEW n \in Name, getFunc(n)
        PROVE  TypeOK'
    BY <2>6 DEF getFunc, TypeOK, ChainOK
  <2>7. CASE push
    BY <2>0, <2>7, PushOK, DeclAssumption DEF push, Push, TypeOK
  <2>8. CASE pop
    BY <2>0, <2>8, PopOK, DeclAssumption DEF pop, Pop, TypeOK, top
  <2>9. CASE UNCHANGED vars
    BY <2>9 DEF vars, TypeOK, ChainOK
  <2> QED
    BY <2>2, <2>3, <2>4, <2>5, <2>6, <2>7, <2>8, <2>9 DEF Next
<1> QED
  BY <1>1, <1>2, PTL DEF Spec

-----------------------------------------------------------------------------
(* No local hides a function, at any depth and whatever is declared.        *)
THEOREM FunctionsNotHidden == Spec => []LocalsSpareFunctions
<1>1. Init => LocalsSpareFunctions
  BY DEF Init, LocalsSpareFunctions, top
<1>2. TypeOK /\ LocalsSpareFunctions /\ [Next]_vars => LocalsSpareFunctions'
  <2> SUFFICES ASSUME TypeOK, LocalsSpareFunctions, [Next]_vars,
                      NEW i \in 2 .. Len(layers'), NEW n \in Name,
                      Funcs'[n] # NoDecl
               PROVE  ~IsDeclared(layers'[i], n)
    BY DEF LocalsSpareFunctions, top
  <2>0. /\ layers \in Seq(Layer) /\ Len(layers) = Depth + 1
        /\ Len(layers) >= 1 /\ Depth \in Nat
        /\ \A j \in 2 .. Len(layers), k \in Name :
             Funcs[k] # NoDecl => ~IsDeclared(layers[j], k)
    BY DEF TypeOK, ChainOK, LocalsSpareFunctions, top
  <2>1. ASSUME NEW m, NEW d, DeclareIn(m, d),
               \/ m = "Vars" /\ d \in VarDecl
               \/ m = "Consts" /\ d \in LetDecl
        PROVE  ~IsDeclared(layers'[i], n)
    <3>1. CASE Taken(NameOf(d))
      BY <2>0, <2>1, <3>1 DEF DeclareIn
    <3>2. CASE ~Taken(NameOf(d))
      <4>1. n # NameOf(d)
        BY <2>1, <3>2 DEF Taken, Refused, DeclareIn
      <4>2. /\ Len(layers') = Len(layers)
            /\ layers'[i]["Vars"][n] = layers[i]["Vars"][n]
            /\ layers'[i]["Consts"][n] = layers[i]["Consts"][n]
        BY <2>0, <2>1, <3>2, <4>1, DeclareOK DEF DeclareIn, TypeOK, top
      <4> QED
        BY <2>0, <2>1, <4>2 DEF IsDeclared, DeclareIn
    <3> QED
      BY <3>1, <3>2
  <2>2. ASSUME NEW d \in VarDecl, declareVar(d)
        PROVE  ~IsDeclared(layers'[i], n)
    BY <2>1, <2>2 DEF declareVar
  <2>3. ASSUME NEW d \in LetDecl, declareLet(d)
        PROVE  ~IsDeclared(layers'[i], n)
    BY <2>1, <2>3 DEF declareLet
  <2>4. ASSUME NEW d \in FuncDecl, declareFunc(d)
        PROVE  ~IsDeclared(layers'[i], n)
    <3>1. Depth = 0 /\ layers' = layers
      BY <2>4 DEF declareFunc
    <3>2. Len(layers') = 1
      BY <2>0, <3>1
    <3> QED
      BY <3>2
  <2>5. ASSUME NEW k \in Name, getVal(k) \/ getFunc(k)
        PROVE  ~IsDeclared(layers'[i], n)
    BY <2>0, <2>5 DEF getVal, getFunc
  <2>6. CASE push
    <3>1. CASE i = Len(layers) + 1
      BY <2>0, <2>6, <3>1, EmptyLayerOK DEF push, Push, IsDeclared
    <3>2. CASE i # Len(layers) + 1
      BY <2>0, <2>6, <3>2, PushOK, EmptyLayerOK DEF push, Push, TypeOK
    <3> QED
      BY <3>1, <3>2
  <2>7. CASE pop
    BY <2>0, <2>7, PopOK DEF pop, Pop, top, TypeOK
  <2>8. CASE UNCHANGED vars
    BY <2>0, <2>8 DEF vars
  <2> QED
    BY <2>2, <2>3, <2>4, <2>5, <2>6, <2>7, <2>8 DEF Next
<1> QED
  BY <1>1, <1>2, TypeCorrect, PTL DEF Spec

-----------------------------------------------------------------------------
(* Visibility *)

(* A walk meets an entry when there is one, and it is an entry. *)
LEMMA NearestFinds ==
    ASSUME NEW ls, NEW m, NEW n, NEW i \in Nat,
           \E j \in 1 .. i : ls[j][m][n] # NoDecl
    PROVE  /\ Nearest(ls, m, i, n) # NoDecl
           /\ \E j \in 1 .. i : Nearest(ls, m, i, n) = ls[j][m][n]
<1> DEFINE S == Holding(ls, m, i, n)
<1>1. S # {} /\ S \subseteq 1 .. i
  BY DEF Holding
<1>2. Innermost(S) \in S
  BY <1>1, InnermostExists
<1>3. Innermost(S) \in 1 .. i /\ ls[Innermost(S)][m][n] # NoDecl
  BY <1>2 DEF Holding
<1> QED
  BY <1>1, <1>3 DEF Nearest

(* Nothing else is needed for get to be complete. *)
LEMMA GetFinds ==
    ASSUME NEW ls, NEW n, NEW i \in Nat
    PROVE  IF \E j \in 1 .. i : IsDeclared(ls[j], n)
           THEN /\ ImplGet(ls, i, n) # NoDecl
                /\ \E j \in 1 .. i : ImplGet(ls, i, n) \in {ls[j].Vars[n], ls[j].Consts[n]}
           ELSE ImplGet(ls, i, n) = NoDecl
<1>1. CASE \E j \in 1 .. i : ls[j]["Vars"][n] # NoDecl
  BY <1>1, NearestFinds DEF ImplGet, ImplGetVar, IsDeclared
<1>2. CASE ~\E j \in 1 .. i : ls[j]["Vars"][n] # NoDecl
  <2>1. Nearest(ls, "Vars", i, n) = NoDecl
    BY <1>2, NearestIsEntry
  <2>2. CASE \E j \in 1 .. i : ls[j]["Consts"][n] # NoDecl
    BY <2>1, <2>2, NearestFinds DEF ImplGet, ImplGetVar, IsDeclared
  <2>3. CASE ~\E j \in 1 .. i : ls[j]["Consts"][n] # NoDecl
    <3>1. Nearest(ls, "Consts", i, n) = NoDecl
      BY <2>3, NearestIsEntry
    <3> QED
      BY <1>2, <2>1, <2>3, <3>1 DEF ImplGet, ImplGetVar, IsDeclared
  <2> QED
    BY <2>2, <2>3
<1> QED
  BY <1>1, <1>2

(* A scope keeps a name in one of its maps only: a declaration is refused   *)
(* where either map has it.                                                 *)
LEMMA OneMapInvariant == Spec => []OneMapPerName
<1>1. Init => OneMapPerName
  <2> SUFFICES ASSUME Init, NEW i \in 1 .. Len(layers), NEW n \in Name
               PROVE  layers[i].Vars[n] = NoDecl
    BY DEF OneMapPerName, top
  <2>1. layers = <<EmptyLayer>> /\ i = 1
    BY DEF Init
  <2> QED
    BY <2>1, EmptyLayerOK
<1>2. TypeOK /\ OneMapPerName /\ [Next]_vars => OneMapPerName'
  <2> SUFFICES ASSUME TypeOK, OneMapPerName, [Next]_vars,
                      NEW i \in 1 .. Len(layers'), NEW n \in Name
               PROVE  layers'[i]["Vars"][n] = NoDecl \/ layers'[i]["Consts"][n] = NoDecl
    BY DEF OneMapPerName, top
  <2>0. /\ layers \in Seq(Layer) /\ Len(layers) = Depth + 1
        /\ Len(layers) >= 1 /\ Depth \in Nat
        /\ \A j \in 1 .. Len(layers), k \in Name :
             layers[j]["Vars"][k] = NoDecl \/ layers[j]["Consts"][k] = NoDecl
    BY DEF TypeOK, ChainOK, OneMapPerName, top
  <2>1. ASSUME NEW m, NEW d, DeclareIn(m, d),
               \/ m = "Vars" /\ d \in VarDecl
               \/ m = "Consts" /\ d \in LetDecl
        PROVE  layers'[i]["Vars"][n] = NoDecl \/ layers'[i]["Consts"][n] = NoDecl
    <3>1. CASE Taken(NameOf(d))
      BY <2>0, <2>1, <3>1 DEF DeclareIn
    <3>2. CASE ~Taken(NameOf(d))
      <4>1. /\ layers[Len(layers)]["Vars"][NameOf(d)] = NoDecl
            /\ layers[Len(layers)]["Consts"][NameOf(d)] = NoDecl
        BY <3>2 DEF Taken, Refused, IsDeclared, top
      <4>2. /\ Len(layers') = Len(layers)
            /\ \A j \in 1 .. Len(layers), k \in {"Vars", "Consts"}, x \in Name :
                 ~(j = Len(layers) /\ k = m /\ x = NameOf(d))
                     => layers'[j][k][x] = layers[j][k][x]
        <5>1. layers' = WithEntry(layers, m, d)
          BY <2>1, <3>2 DEF DeclareIn
        <5>2. ChainOK(layers) /\ Len(layers) >= 1
          BY <2>0 DEF TypeOK
        <5> QED
          BY <2>1, <5>1, <5>2, DeclareOK
      <4>3. CASE i = Len(layers) /\ n = NameOf(d)
        BY <2>0, <2>1, <4>1, <4>2, <4>3
      <4>4. CASE ~(i = Len(layers) /\ n = NameOf(d))
        BY <2>0, <4>2, <4>4
      <4> QED
        BY <4>3, <4>4
    <3> QED
      BY <3>1, <3>2
  <2>2. ASSUME NEW d \in VarDecl, declareVar(d)
        PROVE  layers'[i]["Vars"][n] = NoDecl \/ layers'[i]["Consts"][n] = NoDecl
    BY <2>1, <2>2 DEF declareVar
  <2>3. ASSUME NEW d \in LetDecl, declareLet(d)
        PROVE  layers'[i]["Vars"][n] = NoDecl \/ layers'[i]["Consts"][n] = NoDecl
    BY <2>1, <2>3 DEF declareLet
  <2>4. ASSUME layers' = layers
        PROVE  layers'[i]["Vars"][n] = NoDecl \/ layers'[i]["Consts"][n] = NoDecl
    BY <2>0, <2>4
  <2>5. CASE push
    <3>1. CASE i = Len(layers) + 1
      BY <2>0, <2>5, <3>1, EmptyLayerOK DEF push, Push
    <3>2. CASE i # Len(layers) + 1
      BY <2>0, <2>5, <3>2, PushOK, EmptyLayerOK DEF push, Push, TypeOK
    <3> QED
      BY <3>1, <3>2
  <2>6. CASE pop
    BY <2>0, <2>6, PopOK DEF pop, Pop, TypeOK
  <2> QED
    BY <2>2, <2>3, <2>4, <2>5, <2>6
       DEF Next, vars, declareFunc, getVal, getFunc
<1> QED
  BY <1>1, <1>2, TypeCorrect, PTL DEF Spec

(* Lookups miss nothing and invent nothing, with declareLet in use as well: *)
(* a name resolves exactly when an open scope declares it.                  *)
THEOREM LookupsComplete == Spec => []FindsVisible
<1>1. TypeOK /\ OneMapPerName => FindsVisible
  <2> SUFFICES ASSUME TypeOK, OneMapPerName, NEW n \in Name
               PROVE  LET d == ImplGet(layers, top, n)
                      IN  IF \E i \in 1 .. top : IsDeclared(layers[i], n)
                          THEN /\ \E i \in 1 .. top :
                                    d \in {layers[i].Vars[n], layers[i].Consts[n]} \ {NoDecl}
                               /\ Contains(n)
                          ELSE d = NoDecl
    BY DEF FindsVisible
  <2>1. top \in Nat
    BY DEF TypeOK, ChainOK, top
  <2> QED
    BY <2>1, GetFinds DEF Contains
<1> QED
  BY <1>1, TypeCorrect, OneMapInvariant, PTL

-----------------------------------------------------------------------------
(* Without constants in their own map the table implements LexicalEnv. *)

Meaning == [Name -> Value \union {NoDecl}]

LEMMA AppendIs ==
    ASSUME NEW S, NEW k \in Nat, NEW f \in [1 .. k -> S], NEW e \in S,
           NEW g \in [1 .. k + 1 -> S],
           \A i \in 1 .. k : g[i] = f[i], g[k + 1] = e
    PROVE  g = Append(f, e)
<1>1. f \in Seq(S) /\ Len(f) = k /\ g \in Seq(S) /\ Len(g) = k + 1
  OBVIOUS
<1>2. Append(f, e) \in Seq(S) /\ Len(Append(f, e)) = k + 1
  BY <1>1
<1>3. \A i \in 1 .. k + 1 : Append(f, e)[i] = g[i]
  BY <1>1
<1> QED
  BY <1>1, <1>2, <1>3

LEMMA FrontIs ==
    ASSUME NEW S, NEW k \in Nat \ {0}, NEW f \in [1 .. k -> S],
           NEW g \in [1 .. k - 1 -> S],
           \A i \in 1 .. k - 1 : g[i] = f[i]
    PROVE  g = SubSeq(f, 1, k - 1)
<1>1. f \in Seq(S) /\ Len(f) = k /\ g \in Seq(S) /\ Len(g) = k - 1
  OBVIOUS
<1>2. SubSeq(f, 1, k - 1) \in Seq(S) /\ Len(SubSeq(f, 1, k - 1)) = k - 1
  BY <1>1
<1>3. \A i \in 1 .. k - 1 : SubSeq(f, 1, k - 1)[i] = g[i]
  BY <1>1
<1> QED
  BY <1>1, <1>2, <1>3

LEMMA GetIsNearestVar ==
    ASSUME NEW ls, ChainOK(ls), NoConsts(ls), NEW i \in 0 .. Len(ls), NEW n \in Name
    PROVE  ImplGet(ls, i, n) = Nearest(ls, "Vars", i, n)
<1>1. \A j \in 1 .. i : ls[j]["Consts"][n] = NoDecl
  BY DEF NoConsts, ChainOK
<1>2. Nearest(ls, "Consts", i, n) = NoDecl
  BY <1>1, NearestIsEntry
<1> QED
  BY <1>2 DEF ImplGet, ImplGetVar

LEMMA EnvsOfType ==
    ASSUME NEW ls, ChainOK(ls)
    PROVE  /\ EnvsOf(ls) \in [1 .. Len(ls) -> Meaning]
           /\ DeclaredOf(ls) \in [1 .. Len(ls) -> SUBSET Name]
           /\ Len(ls) \in Nat
           /\ Len(EnvsOf(ls)) = Len(ls)
<1>1. Len(ls) \in Nat
  BY DEF ChainOK
<1>2. EnvsOf(ls) \in [1 .. Len(ls) -> Meaning]
  <2>1. \A i \in 1 .. Len(ls) : [n \in Name |-> ImplGet(ls, i, n)] \in Meaning
    <3>1. \A i \in 1 .. Len(ls), n \in Name : ImplGet(ls, i, n) \in Value \union {NoDecl}
      BY <1>1, GetIsDecl
    <3> QED
      BY <3>1 DEF Meaning
  <2> QED
    BY <2>1 DEF EnvsOf
<1>3. DeclaredOf(ls) \in [1 .. Len(ls) -> SUBSET Name]
  <2>1. \A i \in 1 .. Len(ls) : DeclaredNames(ls[i]) \in SUBSET Name
    BY DEF DeclaredNames
  <2> QED
    BY <2>1 DEF DeclaredOf
<1>4. Len(EnvsOf(ls)) = Len(ls)
  BY <1>1, <1>2
<1> QED
  BY <1>1, <1>2, <1>3, <1>4

(* Chains with the same layers up to i mean the same up to i. *)
LEMMA GetSame ==
    ASSUME NEW ls, ChainOK(ls), NoConsts(ls), NEW new, ChainOK(new), NoConsts(new),
           NEW i \in Nat, i <= Len(ls), i <= Len(new), NEW n \in Name,
           \A j \in 1 .. i : new[j]["Vars"][n] = ls[j]["Vars"][n]
    PROVE  ImplGet(new, i, n) = ImplGet(ls, i, n)
<1>1. Nearest(new, "Vars", i, n) = Nearest(ls, "Vars", i, n)
  BY NearestSame
<1>2. i \in 0 .. Len(ls) /\ i \in 0 .. Len(new)
  BY EnvsOfType
<1> QED
  BY <1>1, <1>2, GetIsNearestVar

(* An empty layer means what the layer below it means. *)
LEMMA EnvsOfPush ==
    ASSUME NEW ls, ChainOK(ls), NoConsts(ls), Len(ls) >= 1,
           NEW new, ChainOK(new), NoConsts(new), Len(new) = Len(ls) + 1,
           \A i \in 1 .. Len(ls) : new[i] = ls[i],
           new[Len(ls) + 1] = EmptyLayer
    PROVE  /\ EnvsOf(new) = Append(EnvsOf(ls), EnvsOf(ls)[Len(ls)])
           /\ DeclaredOf(new) = Append(DeclaredOf(ls), {})
<1>1. Len(ls) \in Nat
  BY EnvsOfType
<1>2. \A i \in 1 .. Len(ls), n \in Name : ImplGet(new, i, n) = ImplGet(ls, i, n)
  BY <1>1, GetSame
<1>3. \A n \in Name : ImplGet(new, Len(ls) + 1, n) = ImplGet(ls, Len(ls), n)
  <2> SUFFICES ASSUME NEW n \in Name
               PROVE  ImplGet(new, Len(ls) + 1, n) = ImplGet(ls, Len(ls), n)
    OBVIOUS
  <2>1. new[Len(ls) + 1]["Vars"][n] = NoDecl
    BY EmptyLayerOK
  <2>2. Nearest(new, "Vars", Len(ls) + 1, n) = Nearest(new, "Vars", Len(ls), n)
    BY <1>1, <2>1, NearestPasses
  <2>3. /\ ImplGet(new, Len(ls) + 1, n) = Nearest(new, "Vars", Len(ls) + 1, n)
        /\ ImplGet(new, Len(ls), n) = Nearest(new, "Vars", Len(ls), n)
    BY <1>1, GetIsNearestVar
  <2> QED
    BY <1>1, <1>2, <2>2, <2>3
<1>4. EnvsOf(new) = Append(EnvsOf(ls), EnvsOf(ls)[Len(ls)])
  <2>1. /\ EnvsOf(new) \in [1 .. Len(ls) + 1 -> Meaning]
        /\ EnvsOf(ls) \in [1 .. Len(ls) -> Meaning]
    BY EnvsOfType
  <2>2. EnvsOf(ls)[Len(ls)] \in Meaning
    BY <1>1, <2>1
  <2>3. \A i \in 1 .. Len(ls) : EnvsOf(new)[i] = EnvsOf(ls)[i]
    BY <1>1, <1>2 DEF EnvsOf
  <2>4. EnvsOf(new)[Len(ls) + 1] = EnvsOf(ls)[Len(ls)]
    BY <1>1, <1>3 DEF EnvsOf
  <2> QED
    BY <1>1, <2>1, <2>2, <2>3, <2>4, AppendIs
<1>5. DeclaredOf(new) = Append(DeclaredOf(ls), {})
  <2>1. /\ DeclaredOf(new) \in [1 .. Len(ls) + 1 -> SUBSET Name]
        /\ DeclaredOf(ls) \in [1 .. Len(ls) -> SUBSET Name]
    BY EnvsOfType
  <2>2. \A i \in 1 .. Len(ls) : DeclaredOf(new)[i] = DeclaredOf(ls)[i]
    BY <1>1 DEF DeclaredOf
  <2>3. DeclaredOf(new)[Len(ls) + 1] = {}
    <3>1. DeclaredOf(new)[Len(ls) + 1] = DeclaredNames(EmptyLayer)
      BY <1>1 DEF DeclaredOf
    <3> QED
      BY <3>1, EmptyLayerOK DEF DeclaredNames, IsDeclared
  <2> QED
    BY <1>1, <2>1, <2>2, <2>3, AppendIs
<1> QED
  BY <1>4, <1>5

(* The layers below the innermost mean the same without it. *)
LEMMA EnvsOfPop ==
    ASSUME NEW ls, ChainOK(ls), NoConsts(ls), Len(ls) > 1,
           NEW new, ChainOK(new), NoConsts(new), Len(new) = Len(ls) - 1,
           \A i \in 1 .. Len(new) : new[i] = ls[i]
    PROVE  /\ EnvsOf(new) = SubSeq(EnvsOf(ls), 1, Len(ls) - 1)
           /\ DeclaredOf(new) = SubSeq(DeclaredOf(ls), 1, Len(ls) - 1)
<1>1. Len(ls) \in Nat \ {0}
  BY EnvsOfType
<1>2. \A i \in 1 .. Len(ls) - 1, n \in Name : ImplGet(new, i, n) = ImplGet(ls, i, n)
  BY <1>1, GetSame
<1>3. EnvsOf(new) = SubSeq(EnvsOf(ls), 1, Len(ls) - 1)
  <2>1. /\ EnvsOf(new) \in [1 .. Len(ls) - 1 -> Meaning]
        /\ EnvsOf(ls) \in [1 .. Len(ls) -> Meaning]
    BY EnvsOfType
  <2>2. \A i \in 1 .. Len(ls) - 1 : EnvsOf(new)[i] = EnvsOf(ls)[i]
    BY <1>1, <1>2 DEF EnvsOf
  <2> QED
    BY <1>1, <2>1, <2>2, FrontIs
<1>4. DeclaredOf(new) = SubSeq(DeclaredOf(ls), 1, Len(ls) - 1)
  <2>1. /\ DeclaredOf(new) \in [1 .. Len(ls) - 1 -> SUBSET Name]
        /\ DeclaredOf(ls) \in [1 .. Len(ls) -> SUBSET Name]
    BY EnvsOfType
  <2>2. \A i \in 1 .. Len(ls) - 1 : DeclaredOf(new)[i] = DeclaredOf(ls)[i]
    BY <1>1 DEF DeclaredOf
  <2> QED
    BY <1>1, <2>1, <2>2, FrontIs
<1> QED
  BY <1>3, <1>4

(* A declaration changes the meaning of its name in the innermost scope.    *)
LEMMA EnvsOfDeclare ==
    ASSUME NEW ls, ChainOK(ls), NoConsts(ls), Len(ls) >= 1, NEW d \in VarDecl,
           NEW new, ChainOK(new), NoConsts(new), Len(new) = Len(ls),
           new[Len(ls)]["Vars"][NameOf(d)] = d,
           \A i \in 1 .. Len(ls), k \in {"Vars", "Consts"}, n \in Name :
               ~(i = Len(ls) /\ k = "Vars" /\ n = NameOf(d)) => new[i][k][n] = ls[i][k][n]
    PROVE  /\ EnvsOf(new) = [EnvsOf(ls) EXCEPT ![Len(ls)] =
                                [EnvsOf(ls)[Len(ls)] EXCEPT ![NameOf(d)] = d]]
           /\ DeclaredOf(new) = [DeclaredOf(ls) EXCEPT ![Len(ls)] =
                                    DeclaredOf(ls)[Len(ls)] \union {NameOf(d)}]
<1>1. /\ Len(ls) \in Nat \ {0} /\ NameOf(d) \in Name
      /\ d # NoDecl /\ d \in Value
  BY EnvsOfType, DeclAssumption DEF Value
<1>2. \A i \in 1 .. Len(ls) - 1, n \in Name : ImplGet(new, i, n) = ImplGet(ls, i, n)
  BY <1>1, GetSame
<1>3. \A n \in Name \ {NameOf(d)} : ImplGet(new, Len(ls), n) = ImplGet(ls, Len(ls), n)
  BY <1>1, GetSame
<1>4. ImplGet(new, Len(ls), NameOf(d)) = d
  <2>1. Nearest(new, "Vars", Len(ls), NameOf(d)) = d
    BY <1>1, NearestStops
  <2> QED
    BY <1>1, <2>1, GetIsNearestVar
<1>5. /\ EnvsOf(new) \in [1 .. Len(ls) -> Meaning]
      /\ EnvsOf(ls) \in [1 .. Len(ls) -> Meaning]
      /\ DeclaredOf(new) \in [1 .. Len(ls) -> SUBSET Name]
      /\ DeclaredOf(ls) \in [1 .. Len(ls) -> SUBSET Name]
  BY EnvsOfType
<1>6. EnvsOf(new)[Len(ls)] = [EnvsOf(ls)[Len(ls)] EXCEPT ![NameOf(d)] = d]
  <2>1. /\ EnvsOf(new)[Len(ls)] = [n \in Name |-> ImplGet(new, Len(ls), n)]
        /\ EnvsOf(ls)[Len(ls)] = [n \in Name |-> ImplGet(ls, Len(ls), n)]
    BY <1>1 DEF EnvsOf
  <2>2. /\ EnvsOf(new)[Len(ls)] \in Meaning
        /\ EnvsOf(ls)[Len(ls)] \in Meaning
    BY <1>1, <1>5
  <2>3. \A n \in Name : EnvsOf(new)[Len(ls)][n] =
            IF n = NameOf(d) THEN d ELSE EnvsOf(ls)[Len(ls)][n]
    <3>1. \A n \in Name : EnvsOf(new)[Len(ls)][n] = ImplGet(new, Len(ls), n)
      BY <2>1
    <3>2. \A n \in Name : EnvsOf(ls)[Len(ls)][n] = ImplGet(ls, Len(ls), n)
      BY <2>1
    <3> QED
      BY <1>3, <1>4, <3>1, <3>2
  <2> QED
    BY <1>1, <2>2, <2>3 DEF Meaning
<1>7. \A i \in 1 .. Len(ls) - 1 : EnvsOf(new)[i] = EnvsOf(ls)[i]
  BY <1>1, <1>2 DEF EnvsOf
<1>8. \A i \in 1 .. Len(ls), n \in Name :
        ~(i = Len(ls) /\ n = NameOf(d)) => (IsDeclared(new[i], n) <=> IsDeclared(ls[i], n))
  BY DEF IsDeclared
<1>9. IsDeclared(new[Len(ls)], NameOf(d))
  BY <1>1 DEF IsDeclared
<1>10. DeclaredOf(new)[Len(ls)] = DeclaredOf(ls)[Len(ls)] \union {NameOf(d)}
  <2>1. /\ DeclaredOf(new)[Len(ls)] = DeclaredNames(new[Len(ls)])
        /\ DeclaredOf(ls)[Len(ls)] = DeclaredNames(ls[Len(ls)])
    BY <1>1 DEF DeclaredOf
  <2> QED
    BY <1>1, <1>8, <1>9, <2>1 DEF DeclaredNames
<1>11. \A i \in 1 .. Len(ls) - 1 : DeclaredOf(new)[i] = DeclaredOf(ls)[i]
  <2>1. \A i \in 1 .. Len(ls) - 1 : DeclaredNames(new[i]) = DeclaredNames(ls[i])
    BY <1>1, <1>8 DEF DeclaredNames
  <2> QED
    BY <1>1, <2>1 DEF DeclaredOf
<1>12. EnvsOf(new) = [EnvsOf(ls) EXCEPT ![Len(ls)] =
                        [EnvsOf(ls)[Len(ls)] EXCEPT ![NameOf(d)] = d]]
  BY <1>1, <1>5, <1>6, <1>7
<1>13. DeclaredOf(new) = [DeclaredOf(ls) EXCEPT ![Len(ls)] =
                            DeclaredOf(ls)[Len(ls)] \union {NameOf(d)}]
  BY <1>1, <1>5, <1>10, <1>11
<1> QED
  BY <1>12, <1>13

(* Every call of the table is a step of LexicalEnv: whatever is pushed,     *)
(* popped, declared or refused, lookups answer for the innermost            *)
(* declaration and a popped scope leaves nothing behind.                    *)
THEOREM TableImplementsEnv == Spec => Implements
<1>1. Init => Env!Init
  <2> SUFFICES ASSUME Init
               PROVE  Env!Init
    OBVIOUS
  <2>1. layers \in Seq(Layer) /\ Len(layers) = 1 /\ layers[1] = EmptyLayer
    BY EmptyLayerOK DEF Init
  <2>2. ChainOK(layers)
    BY <2>1, EmptyLayerOK DEF ChainOK, OptionalDecl
  <2>3. \A n \in Name : ImplGet(layers, 1, n) = NoDecl
    <3>1. \A n \in Name : layers[1]["Vars"][n] = NoDecl
      BY <2>1, EmptyLayerOK
    <3>2. \A n \in Name : Nearest(layers, "Vars", 1, n) = NoDecl
      <4> SUFFICES ASSUME NEW n \in Name
                   PROVE  Nearest(layers, "Vars", 1, n) = NoDecl
        OBVIOUS
      <4> QED
        BY <3>1, NearestIsEntry
    <3>3. 1 \in 0 .. Len(layers)
      BY <2>1
    <3>4. NoConsts(layers)
      <4> SUFFICES ASSUME NEW i \in 1 .. Len(layers), NEW n \in Name
                   PROVE  layers[i]["Consts"][n] = NoDecl
        BY DEF NoConsts
      <4>1. i = 1
        BY <2>1
      <4> QED
        BY <2>1, <4>1, EmptyLayerOK
    <3> QED
      BY <2>2, <3>2, <3>3, <3>4, GetIsNearestVar
  <2>4. EnvsOf(layers) = <<[n \in Name |-> NoDecl]>>
    BY <2>1, <2>3 DEF EnvsOf
  <2>5. DeclaredOf(layers) = <<{}>>
    <3>1. DeclaredNames(layers[1]) = {}
      BY <2>1, EmptyLayerOK DEF DeclaredNames, IsDeclared
    <3>2. DeclaredOf(layers) \in Seq(SUBSET Name) /\ Len(DeclaredOf(layers)) = 1
      BY <2>1, <2>2, EnvsOfType
    <3>3. DeclaredOf(layers)[1] = {}
      BY <2>1, <3>1 DEF DeclaredOf
    <3> QED
      BY <3>2, <3>3
  <2> QED
    BY <2>4, <2>5 DEF Init, Env!Init, NoDecls
<1>2. TypeOK /\ TypeOK' /\ [Next]_vars
        => [NoConsts(layers) /\ NoConsts(layers') => Env!Next]_Env!vars
  <2> SUFFICES ASSUME TypeOK, TypeOK', [Next]_vars,
                      NoConsts(layers), NoConsts(layers')
               PROVE  [Env!Next]_Env!vars
    OBVIOUS
  <2>0. /\ ChainOK(layers) /\ ChainOK(layers')
        /\ Len(layers) = Depth + 1 /\ Len(layers) \in Nat \ {0}
        /\ Env!top = Len(layers) /\ top = Len(layers)
        /\ layers \in Seq(Layer)
    <3>1. ChainOK(layers) /\ ChainOK(layers') /\ Len(layers) = Depth + 1
      BY DEF TypeOK
    <3>2. Len(layers) \in Nat \ {0} /\ layers \in Seq(Layer)
      BY <3>1 DEF ChainOK, TypeOK
    <3>3. Len(EnvsOf(layers)) = Len(layers)
      BY <3>1, EnvsOfType
    <3> QED
      BY <3>1, <3>2, <3>3 DEF Env!top, top
  <2>1. ASSUME NEW d \in VarDecl, declareVar(d)
        PROVE  Env!Next
    <3>1. /\ DeclareIn("Vars", d) /\ NameOf(d) \in Name
          /\ d \in Value \union FuncDecl
      BY <2>1, DeclAssumption DEF declareVar, Value
    <3>2. IsDeclared(layers[top], NameOf(d)) <=> NameOf(d) \in DeclaredOf(layers)[Env!top]
      BY <2>0, <3>1 DEF DeclaredOf, DeclaredNames
    <3>3. CASE Taken(NameOf(d))
      <4>1. layers' = layers /\ Funcs' = Funcs /\ result' = FALSE
        BY <3>1, <3>3 DEF DeclareIn
      <4>2. Env!Refuse(d)
        BY <3>2, <3>3, <4>1 DEF Env!Refuse, Taken, Refused, top
      <4> QED
        BY <3>1, <4>2 DEF Env!Next
    <3>4. CASE ~Taken(NameOf(d))
      <4>1. /\ layers' = WithEntry(layers, "Vars", d)
            /\ Funcs' = Funcs /\ result' = TRUE
        BY <2>0, <3>1, <3>4 DEF DeclareIn
      <4>2. /\ EnvsOf(layers') = [EnvsOf(layers) EXCEPT ![Len(layers)] =
                    [EnvsOf(layers)[Len(layers)] EXCEPT ![NameOf(d)] = d]]
            /\ DeclaredOf(layers') = [DeclaredOf(layers) EXCEPT ![Len(layers)] =
                    DeclaredOf(layers)[Len(layers)] \union {NameOf(d)}]
        <5>1. /\ ChainOK(layers') /\ Len(layers') = Len(layers)
              /\ layers'[Len(layers)]["Vars"][NameOf(d)] = d
              /\ \A i \in 1 .. Len(layers), k \in {"Vars", "Consts"}, n \in Name :
                   ~(i = Len(layers) /\ k = "Vars" /\ n = NameOf(d))
                       => layers'[i][k][n] = layers[i][k][n]
          <6>1. ChainOK(layers) /\ Len(layers) >= 1
            BY <2>0
          <6> QED
            BY <4>1, <6>1, DeclareOK
        <5> QED
          BY <2>0, <5>1, EnvsOfDeclare
      <4>3. Env!Declare(d)
        BY <2>0, <3>2, <3>4, <4>1, <4>2 DEF Env!Declare, Taken, Refused, top
      <4> QED
        BY <3>1, <4>3 DEF Env!Next
    <3> QED
      BY <3>3, <3>4
  <2>2. ASSUME NEW d \in FuncDecl, declareFunc(d)
        PROVE  Env!Next
    <3>1. layers' = layers /\ Depth = 0
      BY <2>2 DEF declareFunc
    <3>2. Env!top = 1
      BY <2>0, <3>1
    <3>3. CASE Funcs[NameOf(d)] = NoDecl
      <4>1. Funcs' = [Funcs EXCEPT ![NameOf(d)] = d] /\ result' = TRUE
        BY <2>2, <3>3 DEF declareFunc
      <4>2. Env!DeclareFunction(d)
        BY <3>1, <3>2, <3>3, <4>1 DEF Env!DeclareFunction
      <4> QED
        BY <4>2 DEF Env!Next
    <3>4. CASE Funcs[NameOf(d)] # NoDecl
      <4>1. Funcs' = Funcs /\ result' = FALSE
        BY <2>2, <3>4 DEF declareFunc
      <4>2. Env!Refuse(d)
        BY <3>1, <3>4, <4>1 DEF Env!Refuse
      <4> QED
        BY <4>2 DEF Env!Next
    <3> QED
      BY <3>3, <3>4
  <2>3. ASSUME NEW n \in Name, getVal(n)
        PROVE  Env!Next
    <3>1. EnvsOf(layers)[Env!top][n] = ImplGet(layers, top, n)
      BY <2>0 DEF EnvsOf
    <3>2. Env!Resolve(n)
      BY <2>3, <3>1 DEF getVal, Env!Resolve
    <3> QED
      BY <3>2 DEF Env!Next
  <2>4. ASSUME NEW n \in Name, getFunc(n)
        PROVE  Env!Next
    <3>1. Env!ResolveFunction(n)
      BY <2>4 DEF getFunc, Env!ResolveFunction
    <3> QED
      BY <3>1 DEF Env!Next
  <2>5. CASE push
    <3>1. /\ layers' = Append(layers, EmptyLayer)
          /\ Len(layers') = Len(layers) + 1
          /\ \A i \in 1 .. Len(layers) : layers'[i] = layers[i]
          /\ layers'[Len(layers) + 1] = EmptyLayer
      BY <2>0, <2>5, EmptyLayerOK DEF push, Push
    <3>2. /\ EnvsOf(layers') = Append(EnvsOf(layers), EnvsOf(layers)[Len(layers)])
          /\ DeclaredOf(layers') = Append(DeclaredOf(layers), {})
      <4>1. ChainOK(layers) /\ Len(layers) >= 1 /\ ChainOK(layers')
        BY <2>0
      <4> QED
        BY <3>1, <4>1, EnvsOfPush
    <3>3. Env!Enter
      BY <2>0, <2>5, <3>2 DEF push, Push, Env!Enter
    <3> QED
      BY <3>3 DEF Env!Next
  <2>6. CASE pop
    <3>1. /\ Len(layers) > 1
          /\ Len(layers') = Len(layers) - 1
          /\ \A i \in 1 .. Len(layers') : layers'[i] = layers[i]
      BY <2>0, <2>6 DEF pop, Pop, TypeOK
    <3>2. Env!Leave
      BY <2>0, <2>6, <3>1, EnvsOfPop DEF pop, Pop, Env!Leave
    <3> QED
      BY <3>2 DEF Env!Next
  <2>7. CASE UNCHANGED vars
    BY <2>7 DEF vars, Env!vars
  <2>8. ASSUME NEW d \in LetDecl, declareLet(d)
        PROVE  Env!Next
    <3>1. /\ DeclareIn("Consts", d) /\ NameOf(d) \in Name
          /\ d \in Value \union FuncDecl /\ d # NoDecl /\ d \in Value
      BY <2>8, DeclAssumption DEF declareLet, Value
    <3>2. Taken(NameOf(d))
      <4> SUFFICES ASSUME ~Taken(NameOf(d))
                   PROVE  FALSE
        OBVIOUS
      <4>1. layers' = WithEntry(layers, "Consts", d)
        BY <3>1 DEF DeclareIn
      <4>2. /\ Len(layers') = Len(layers)
            /\ layers'[Len(layers)]["Consts"][NameOf(d)] = d
        BY <2>0, <2>8, <4>1, DeclareOK
      <4> QED
        BY <2>0, <3>1, <4>2 DEF NoConsts
    <3>3. layers' = layers /\ Funcs' = Funcs /\ result' = FALSE
      BY <3>1, <3>2 DEF DeclareIn
    <3>4. IsDeclared(layers[top], NameOf(d)) <=> NameOf(d) \in DeclaredOf(layers)[Env!top]
      BY <2>0, <3>1 DEF DeclaredOf, DeclaredNames
    <3>5. Env!Refuse(d)
      BY <3>2, <3>3, <3>4 DEF Env!Refuse, Taken, Refused, top
    <3> QED
      BY <3>1, <3>5 DEF Env!Next
  <2> QED
    BY <2>1, <2>2, <2>3, <2>4, <2>5, <2>6, <2>7, <2>8 DEF Next
<1> QED
  BY <1>1, <1>2, TypeCorrect, PTL DEF Spec, Implements

=============================================================================
