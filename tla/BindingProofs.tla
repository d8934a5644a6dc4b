---------------------------- MODULE BindingProofs ----------------------------
(***************************************************************************)
(* For every set of names and declarations, any number of functions and    *)
(* any depth: what the code generator uses for a name is in scope, and in  *)
(* the modules it is prepared for, it is the very declaration that the     *)
(* type checker meant.                                                     *)
(***************************************************************************)
EXTENDS Binding, WellFoundedInduction, TLAPS

-----------------------------------------------------------------------------
(* Chains of layers *)

(* A nonempty set of numbers up to i has a least and a greatest. *)
LEMMA LeastExists ==
    ASSUME NEW S, S \subseteq Nat, S # {}
    PROVE  \E m \in S : \A k \in S : m <= k
<1>1. PICK m \in S : \A k \in S : ~(<<k, m>> \in OpToRel(<, Nat))
  BY NatLessThanWellFounded, WFMin
<1>2. \A k \in S : ~(k < m)
  BY <1>1 DEF OpToRel
<1>3. \A k \in S : m <= k
  BY <1>2
<1> QED
  BY <1>3

LEMMA GreatestExists ==
    ASSUME NEW i \in Nat, NEW S, S \subseteq 0 .. i, S # {}
    PROVE  \E m \in S : \A k \in S : k <= m
<1> DEFINE T == {i - j : j \in S}
<1>1. T \subseteq Nat /\ T # {}
  <2>1. \A j \in S : i - j \in Nat
    OBVIOUS
  <2> QED
    BY <2>1
<1>2. PICK t \in T : \A u \in T : t <= u
  BY <1>1, LeastExists
<1>3. PICK m \in S : t = i - m
  BY <1>2
<1>4. ASSUME NEW k \in S
      PROVE  k <= m
  <2>1. i - k \in T /\ t <= i - k
    BY <1>2
  <2> QED
    BY <1>3, <2>1
<1> QED
  BY <1>4

(* The declarations in a chain, all from S, are under their own names. *)
ChainOf(ls, S) ==
    /\ ls \in Seq(Layer) /\ Len(ls) > 0
    /\ \A i \in 1 .. Len(ls), n \in Name :
        ls[i].Vars[n] \in {d \in S : NameOf(d) = n} \union {NoDecl}

LEMMA ChainEntry ==
    ASSUME NEW S, NEW ls, ChainOf(ls, S), NEW i \in 1 .. Len(ls), NEW n \in Name
    PROVE  \/ ls[i].Vars[n] = NoDecl
           \/ ls[i].Vars[n] \in S /\ NameOf(ls[i].Vars[n]) = n
BY DEF ChainOf

LEMMA ChainGrows ==
    ASSUME NEW S, NEW T, S \subseteq T, NEW ls, ChainOf(ls, S)
    PROVE  ChainOf(ls, T)
BY DEF ChainOf

LEMMA EmptyLayerIs ==
    /\ EmptyLayer \in Layer
    /\ \A n \in Name : EmptyLayer.Vars[n] = NoDecl /\ ~IsDeclared(EmptyLayer, n)
BY DEF EmptyLayer, NoDecls, Layer, IsDeclared

LEMMA PushIs ==
    ASSUME NEW S, NEW ls, ChainOf(ls, S)
    PROVE  /\ ChainOf(Push(ls), S)
           /\ Len(Push(ls)) = Len(ls) + 1
           /\ \A i \in 1 .. Len(ls) : Push(ls)[i] = ls[i]
           /\ Push(ls)[Len(ls) + 1] = EmptyLayer
<1> DEFINE new == Push(ls)
<1>1. ls \in Seq(Layer) /\ Len(ls) \in Nat
  BY DEF ChainOf
<1>2. /\ new \in Seq(Layer) /\ Len(new) = Len(ls) + 1
      /\ \A i \in 1 .. Len(ls) : new[i] = ls[i]
      /\ new[Len(ls) + 1] = EmptyLayer
  BY <1>1, EmptyLayerIs DEF Push
<1> HIDE DEF new
<1>3. ASSUME NEW i \in 1 .. Len(new), NEW n \in Name
      PROVE  new[i].Vars[n] \in {d \in S : NameOf(d) = n} \union {NoDecl}
  <2>1. CASE i = Len(ls) + 1
    BY <1>2, <2>1, EmptyLayerIs
  <2>2. CASE i # Len(ls) + 1
    <3>1. i \in 1 .. Len(ls)
      BY <1>1, <1>2, <2>2
    <3> QED
      BY <1>2, <3>1 DEF ChainOf
  <2> QED
    BY <2>1, <2>2
<1>4. ChainOf(new, S)
  BY <1>1, <1>2, <1>3 DEF ChainOf
<1> QED
  BY <1>2, <1>4 DEF new

LEMMA PopIs ==
    ASSUME NEW S, NEW ls, ChainOf(ls, S), Len(ls) > 1
    PROVE  /\ ChainOf(Pop(ls), S)
           /\ Len(Pop(ls)) = Len(ls) - 1
           /\ \A i \in 1 .. Len(ls) - 1 : Pop(ls)[i] = ls[i]
<1> DEFINE new == Pop(ls)
<1>1. ls \in Seq(Layer) /\ Len(ls) \in Nat
  BY DEF ChainOf
<1>2. /\ new \in Seq(Layer) /\ Len(new) = Len(ls) - 1
      /\ \A i \in 1 .. Len(ls) - 1 : new[i] = ls[i]
  BY <1>1 DEF Pop
<1> HIDE DEF new
<1>3. ASSUME NEW i \in 1 .. Len(new), NEW n \in Name
      PROVE  new[i].Vars[n] \in {d \in S : NameOf(d) = n} \union {NoDecl}
  <2>1. i \in 1 .. Len(ls) /\ new[i] = ls[i]
    BY <1>1, <1>2
  <2> QED
    BY <2>1 DEF ChainOf
<1>4. ChainOf(new, S)
  BY <1>1, <1>2, <1>3 DEF ChainOf
<1> QED
  BY <1>2, <1>4 DEF new

(* A declaration that is not refused is entered in the innermost layer. *)
LEMMA WithVarIs ==
    ASSUME NEW S, NEW ls, ChainOf(ls, S), NEW F, NEW d \in Value
    PROVE  /\ WithVar(ls, F, d) \in Seq(Layer) /\ Len(WithVar(ls, F, d)) = Len(ls)
           /\ \A i \in 1 .. Len(ls) - 1 : WithVar(ls, F, d)[i] = ls[i]
           /\ Refused(ls, F, NameOf(d)) => WithVar(ls, F, d) = ls
           /\ ~Refused(ls, F, NameOf(d)) =>
                /\ ls[Len(ls)].Vars[NameOf(d)] = NoDecl
                /\ WithVar(ls, F, d)[Len(ls)].Vars[NameOf(d)] = d
                /\ \A n \in Name : n # NameOf(d) =>
                     WithVar(ls, F, d)[Len(ls)].Vars[n] = ls[Len(ls)].Vars[n]
<1> DEFINE last == [ls[Len(ls)] EXCEPT !["Vars"][NameOf(d)] = d]
           new == WithEntry(ls, "Vars", d)
<1>1. CASE Refused(ls, F, NameOf(d))
  BY <1>1 DEF WithVar, ChainOf
<1>2. CASE ~Refused(ls, F, NameOf(d))
  <2>1. ls \in Seq(Layer) /\ Len(ls) \in 1 .. Len(ls) /\ ls[Len(ls)] \in Layer
    BY DEF ChainOf
  <2>2. NameOf(d) \in Name /\ d \in Value
    BY DeclAssumption
  <2>3. last \in Layer /\ last.Vars = [ls[Len(ls)].Vars EXCEPT ![NameOf(d)] = d]
    BY <2>1, <2>2 DEF Layer
  <2>4. /\ new \in Seq(Layer) /\ Len(new) = Len(ls)
        /\ new[Len(ls)] = last
        /\ \A i \in 1 .. Len(ls) : i # Len(ls) => new[i] = ls[i]
    BY <2>1, <2>3 DEF WithEntry
  <2>5. /\ last.Vars[NameOf(d)] = d
        /\ \A n \in Name : n # NameOf(d) => last.Vars[n] = ls[Len(ls)].Vars[n]
    BY <2>1, <2>2, <2>3 DEF Layer
  <2>6. ls[Len(ls)].Vars[NameOf(d)] = NoDecl
    BY <1>2 DEF Refused, IsDeclared
  <2>7. WithVar(ls, F, d) = new
    BY <1>2 DEF WithVar
  <2> HIDE DEF new, last
  <2>8. \A i \in 1 .. Len(ls) - 1 : new[i] = ls[i]
    BY <2>1, <2>4
  <2> QED
    BY <1>2, <2>4, <2>5, <2>6, <2>7, <2>8
<1> QED
  BY <1>1, <1>2

LEMMA WithVarChain ==
    ASSUME NEW S, NEW ls, ChainOf(ls, S), NEW F, NEW d \in Value
    PROVE  ChainOf(WithVar(ls, F, d), S \union {d})
<1> DEFINE new == WithVar(ls, F, d)
<1>1. CASE Refused(ls, F, NameOf(d))
  <2>1. new = ls
    BY <1>1, WithVarIs
  <2> QED
    BY <2>1, ChainGrows
<1>2. CASE ~Refused(ls, F, NameOf(d))
  <2>1. new \in Seq(Layer) /\ Len(new) = Len(ls)
    BY WithVarIs
  <2>2. \A i \in 1 .. Len(ls) - 1 : new[i] = ls[i]
    BY WithVarIs
  <2>3. /\ new[Len(ls)].Vars[NameOf(d)] = d
        /\ \A n \in Name : n # NameOf(d) => new[Len(ls)].Vars[n] = ls[Len(ls)].Vars[n]
    BY <1>2, WithVarIs
  <2> HIDE DEF new
  <2>4. ASSUME NEW i \in 1 .. Len(new), NEW n \in Name
        PROVE  new[i].Vars[n] \in {e \in S \union {d} : NameOf(e) = n} \union {NoDecl}
    <3>1. ls[i].Vars[n] \in {e \in S : NameOf(e) = n} \union {NoDecl}
      BY <2>1 DEF ChainOf
    <3>2. CASE i = Len(ls) /\ n = NameOf(d)
      BY <2>3, <3>2
    <3>3. CASE i = Len(ls) /\ n # NameOf(d)
      <4>1. new[i].Vars[n] = ls[i].Vars[n]
        BY <2>3, <3>3
      <4> QED
        BY <3>1, <4>1
    <3>4. CASE i # Len(ls)
      <4>1. new[i] = ls[i]
        BY <2>1, <2>2, <3>4
      <4> QED
        BY <3>1, <4>1
    <3> QED
      BY <3>2, <3>3, <3>4
  <2>5. Len(new) > 0
    BY <2>1 DEF ChainOf
  <2> QED
    BY <2>1, <2>4, <2>5 DEF ChainOf, new
<1> QED
  BY <1>1, <1>2

(* The walk to the outermost layer ends at the first entry. *)
LEMMA NearestAt ==
    ASSUME NEW ls, NEW i \in Nat, NEW n, NEW j \in 1 .. i,
           ls[j].Vars[n] # NoDecl,
           \A k \in 1 .. i : k > j => ls[k].Vars[n] = NoDecl
    PROVE  Nearest(ls, "Vars", i, n) = ls[j].Vars[n]
<1> DEFINE H == Holding(ls, "Vars", i, n)
<1>1. j \in H /\ \A k \in H : k <= j
  <2>1. H = {k \in 1 .. i : ls[k].Vars[n] # NoDecl}
    BY DEF Holding
  <2> QED
    BY <2>1
<1>2. H \subseteq Int
  BY DEF Holding
<1> HIDE DEF H
<1>3. Innermost(H) = j
  <2>1. \A x \in H : (\A k \in H : k <= x) => x = j
    <3> SUFFICES ASSUME NEW x \in H, \A k \in H : k <= x
                 PROVE  x = j
      OBVIOUS
    <3>1. x <= j /\ j <= x /\ x \in Int /\ j \in Int
      BY <1>1, <1>2
    <3> QED
      BY <3>1
  <2> QED
    BY <1>1, <2>1 DEF Innermost
<1>4. Nearest(ls, "Vars", i, n) = ls[Innermost(H)].Vars[n]
  BY <1>1 DEF Nearest, H
<1> QED
  BY <1>3, <1>4

LEMMA NearestNone ==
    ASSUME NEW ls, NEW i \in Nat, NEW n, NEW m, \A k \in 1 .. i : ls[k][m][n] = NoDecl
    PROVE  Nearest(ls, m, i, n) = NoDecl
BY DEF Nearest, Holding

(* There is an innermost entry, or none. *)
LEMMA EntryOrNone ==
    ASSUME NEW ls, NEW i \in Nat, NEW n
    PROVE  \/ \A k \in 1 .. i : ls[k].Vars[n] = NoDecl
           \/ \E j \in 1 .. i :
                /\ ls[j].Vars[n] # NoDecl
                /\ \A k \in 1 .. i : k > j => ls[k].Vars[n] = NoDecl
<1> DEFINE H == {k \in 1 .. i : ls[k].Vars[n] # NoDecl}
<1>1. CASE H = {}
  BY <1>1
<1>2. CASE H # {}
  <2>1. H \subseteq 0 .. i
    OBVIOUS
  <2>2. PICK j \in H : \A k \in H : k <= j
    BY <1>2, <2>1, GreatestExists
  <2>3. j \in 1 .. i /\ ls[j].Vars[n] # NoDecl
    OBVIOUS
  <2>4. ASSUME NEW k \in 1 .. i, k > j
        PROVE  ls[k].Vars[n] = NoDecl
    <3>1. k \notin H
      BY <2>2, <2>3, <2>4
    <3> QED
      BY <3>1
  <2> QED
    BY <2>3, <2>4
<1> QED
  BY <1>1, <1>2

(* The passes declare variables only, so Consts are searched in vain. *)
LEMMA GetIs ==
    ASSUME NEW S, NEW ls, ChainOf(ls, S), NEW n \in Name
    PROVE  /\ ImplGet(ls, Len(ls), n) = Nearest(ls, "Vars", Len(ls), n)
           /\ \/ ImplGet(ls, Len(ls), n) = NoDecl
              \/ \E j \in 1 .. Len(ls) : ImplGet(ls, Len(ls), n) = ls[j].Vars[n]
           /\ \/ ImplGet(ls, Len(ls), n) = NoDecl
              \/ /\ ImplGet(ls, Len(ls), n) \in S
                 /\ NameOf(ImplGet(ls, Len(ls), n)) = n
<1>1. ls \in Seq(Layer) /\ Len(ls) \in Nat
  BY DEF ChainOf
<1>2. \A k \in 1 .. Len(ls) : ls[k]["Consts"][n] = NoDecl
  <2> SUFFICES ASSUME NEW k \in 1 .. Len(ls)
               PROVE  ls[k].Consts[n] = NoDecl
    OBVIOUS
  <2>1. ls[k] \in Layer
    BY <1>1
  <2> QED
    BY <2>1 DEF Layer
<1>3. Nearest(ls, "Consts", Len(ls), n) = NoDecl
  BY <1>1, <1>2, NearestNone
<1>4. ImplGet(ls, Len(ls), n) = Nearest(ls, "Vars", Len(ls), n)
  BY <1>3 DEF ImplGet, ImplGetVar
<1>5. \/ Nearest(ls, "Vars", Len(ls), n) = NoDecl
      \/ \E j \in 1 .. Len(ls) : Nearest(ls, "Vars", Len(ls), n) = ls[j].Vars[n]
  <2>1. CASE \A k \in 1 .. Len(ls) : ls[k].Vars[n] = NoDecl
    BY <1>1, <2>1, NearestNone
  <2>2. CASE \E j \in 1 .. Len(ls) :
                /\ ls[j].Vars[n] # NoDecl
                /\ \A k \in 1 .. Len(ls) : k > j => ls[k].Vars[n] = NoDecl
    BY <1>1, <2>2, NearestAt
  <2> QED
    BY <1>1, <2>1, <2>2, EntryOrNone
<1> QED
  BY <1>4, <1>5, ChainEntry

-----------------------------------------------------------------------------
(* The statements the code generator goes into *)

LEMMA FrontIs ==
    ASSUME NEW S, NEW s \in Seq(S), Len(s) > 0, NEW u, u = SubSeq(s, 1, Len(s) - 1)
    PROVE  /\ u \in Seq(S)
           /\ Len(u) = Len(s) - 1
           /\ \A i \in 1 .. Len(s) - 1 : u[i] = s[i]
<1>1. u \in Seq(S)
  OBVIOUS
<1>2. Len(u) = Len(s) - 1
  <2>1. ASSUME NEW k \in Nat, k > 0, NEW v, v = SubSeq(s, 1, k - 1)
        PROVE  Len(v) = k - 1
    BY <2>1
  <2>2. Len(s) \in Nat
    OBVIOUS
  <2> QED
    BY <2>1, <2>2
<1>3. \A i \in 1 .. Len(s) - 1 : u[i] = s[i]
  OBVIOUS
<1> QED
  BY <1>1, <1>2, <1>3

(* The frames outside of the outermost local function *)
Depth(fs) ==
    LET skipped == {i \in 1 .. Len(fs) : fs[i].kind = "local-func"}
    IN  IF skipped = {} THEN Len(fs)
        ELSE (CHOOSE i \in skipped : \A j \in skipped : i <= j) - 1

(* d frames are generated, and the next one is a local function, if any. *)
IsDepth(fs, d) ==
    /\ d \in 0 .. Len(fs)
    /\ \A i \in 1 .. d : fs[i].kind # "local-func"
    /\ d = Len(fs) \/ fs[d + 1].kind = "local-func"

LEMMA DepthIs ==
    ASSUME NEW fs \in Seq(Frame)
    PROVE  /\ IsDepth(fs, Depth(fs))
           /\ \A d : IsDepth(fs, d) => d = Depth(fs)
<1> DEFINE skipped == {i \in 1 .. Len(fs) : fs[i].kind = "local-func"}
           first == CHOOSE i \in skipped : \A j \in skipped : i <= j
<1>1. Len(fs) \in Nat /\ skipped \subseteq Nat
  OBVIOUS
<1>2. CASE skipped = {}
  <2>1. Depth(fs) = Len(fs)
    BY <1>2 DEF Depth
  <2>2. \A i \in 1 .. Len(fs) : fs[i].kind # "local-func"
    BY <1>2
  <2>3. ASSUME NEW d, IsDepth(fs, d)
        PROVE  d = Len(fs)
    <3>1. d \in 0 .. Len(fs) /\ (d = Len(fs) \/ fs[d + 1].kind = "local-func")
      BY <2>3 DEF IsDepth
    <3>2. d # Len(fs) => d + 1 \in 1 .. Len(fs)
      BY <1>1, <3>1
    <3> QED
      BY <2>2, <3>1, <3>2
  <2> QED
    BY <1>1, <2>1, <2>2, <2>3 DEF IsDepth
<1>3. CASE skipped # {}
  <2>1. first \in skipped /\ \A j \in skipped : first <= j
    <3>1. \E m \in skipped : \A j \in skipped : m <= j
      BY <1>1, <1>3, LeastExists
    <3> QED
      BY <3>1
  <2>2. Depth(fs) = first - 1
    BY <1>3 DEF Depth
  <2> DEFINE m == first
  <2>3. m \in 1 .. Len(fs) /\ fs[m].kind = "local-func" /\ Depth(fs) = m - 1
    BY <2>1, <2>2
  <2>4. ASSUME NEW i \in 1 .. Len(fs), i < m
        PROVE  fs[i].kind # "local-func"
    <3>1. ~(m <= i)
      BY <2>3, <2>4
    <3> QED
      BY <2>1, <3>1
  <2> HIDE DEF m, first
  <2>5. m - 1 \in 0 .. Len(fs) /\ (m - 1) + 1 = m /\ \A i \in 1 .. m - 1 : i \in 1 .. Len(fs) /\ i < m
    BY <1>1, <2>3
  <2>6. IsDepth(fs, m - 1)
    BY <2>3, <2>4, <2>5 DEF IsDepth
  <2>7. ASSUME NEW d, IsDepth(fs, d)
        PROVE  d = m - 1
    <3>1. /\ d \in 0 .. Len(fs) /\ (d = Len(fs) \/ fs[d + 1].kind = "local-func")
          /\ \A i \in 1 .. d : fs[i].kind # "local-func"
      BY <2>7 DEF IsDepth
    <3>2. ~(m <= d)
      BY <2>3, <3>1
    <3>3. d + 1 \in 1 .. Len(fs) /\ ~(d + 1 < m)
      BY <1>1, <2>3, <2>4, <3>1, <3>2
    <3> QED
      BY <2>3, <3>1, <3>2, <3>3
  <2> QED
    BY <2>3, <2>6, <2>7
<1> QED
  BY <1>2, <1>3

LEMMA DepthGenerating ==
    ASSUME NEW fs \in Seq(Frame)
    PROVE  /\ Depth(fs) \in 0 .. Len(fs)
           /\ (\A i \in 1 .. Len(fs) : fs[i].kind # "local-func") <=> Depth(fs) = Len(fs)
<1>1. Len(fs) \in Nat
  OBVIOUS
<1>2. IsDepth(fs, Depth(fs))
  BY DepthIs
<1>3. Depth(fs) \in 0 .. Len(fs)
  BY <1>2 DEF IsDepth
<1>4. Depth(fs) # Len(fs) => Depth(fs) + 1 \in 1 .. Len(fs) /\ fs[Depth(fs) + 1].kind = "local-func"
  BY <1>1, <1>2, <1>3 DEF IsDepth
<1>5. Depth(fs) = Len(fs) => \A i \in 1 .. Len(fs) : fs[i].kind # "local-func"
  BY <1>2 DEF IsDepth
<1> QED
  BY <1>3, <1>4, <1>5

(* A statement is entered: a local function is not gone into. *)
LEMMA DepthPush ==
    ASSUME NEW fs \in Seq(Frame), NEW f \in Frame
    PROVE  /\ Append(fs, f) \in Seq(Frame) /\ Len(Append(fs, f)) = Len(fs) + 1
           /\ \A i \in 1 .. Len(fs) : Append(fs, f)[i] = fs[i]
           /\ Append(fs, f)[Len(fs) + 1] = f
           /\ Depth(Append(fs, f)) =
                IF Depth(fs) = Len(fs) /\ f.kind # "local-func" THEN Len(fs) + 1
                ELSE Depth(fs)
<1> DEFINE g == Append(fs, f)
           d == IF Depth(fs) = Len(fs) /\ f.kind # "local-func" THEN Len(fs) + 1
                ELSE Depth(fs)
<1>1. /\ Len(fs) \in Nat /\ g \in Seq(Frame) /\ Len(g) = Len(fs) + 1
      /\ \A i \in 1 .. Len(fs) : g[i] = fs[i]
      /\ g[Len(fs) + 1] = f
  OBVIOUS
<1> HIDE DEF g
<1>2. IsDepth(fs, Depth(fs)) /\ Depth(fs) \in 0 .. Len(fs)
  BY DepthIs, DepthGenerating
<1>3. CASE Depth(fs) = Len(fs) /\ f.kind # "local-func"
  <2>1. \A i \in 1 .. Len(fs) : fs[i].kind # "local-func"
    BY <1>3, DepthGenerating
  <2>2. ASSUME NEW i \in 1 .. Len(fs) + 1
        PROVE  g[i].kind # "local-func"
    <3>1. CASE i = Len(fs) + 1
      BY <1>1, <1>3, <3>1
    <3>2. CASE i # Len(fs) + 1
      <4>1. i \in 1 .. Len(fs)
        BY <1>1, <3>2
      <4> QED
        BY <1>1, <2>1, <4>1
    <3> QED
      BY <3>1, <3>2
  <2>3. IsDepth(g, Len(fs) + 1)
    BY <1>1, <2>2 DEF IsDepth
  <2> QED
    BY <1>1, <1>3, <2>3, DepthIs DEF g
<1>4. CASE ~(Depth(fs) = Len(fs) /\ f.kind # "local-func")
  <2>1. Depth(fs) \in 0 .. Len(g)
    BY <1>1, <1>2
  <2>2. \A i \in 1 .. Depth(fs) : g[i].kind # "local-func"
    <3> SUFFICES ASSUME NEW i \in 1 .. Depth(fs)
                 PROVE  g[i].kind # "local-func"
      OBVIOUS
    <3>1. i \in 1 .. Len(fs) /\ fs[i].kind # "local-func"
      BY <1>2 DEF IsDepth
    <3> QED
      BY <1>1, <3>1
  <2>3. g[Depth(fs) + 1].kind = "local-func"
    <3>1. CASE Depth(fs) = Len(fs)
      BY <1>1, <1>4, <3>1
    <3>2. CASE Depth(fs) # Len(fs)
      <4>1. Depth(fs) + 1 \in 1 .. Len(fs) /\ fs[Depth(fs) + 1].kind = "local-func"
        BY <1>1, <1>2, <3>2 DEF IsDepth
      <4> QED
        BY <1>1, <4>1
    <3> QED
      BY <3>1, <3>2
  <2>4. IsDepth(g, Depth(fs))
    BY <2>1, <2>2, <2>3 DEF IsDepth
  <2> QED
    BY <1>1, <1>4, <2>4, DepthIs DEF g
<1> QED
  BY <1>3, <1>4

(* A statement is left. *)
LEMMA DepthPop ==
    ASSUME NEW fs \in Seq(Frame), fs # <<>>, NEW g, g = SubSeq(fs, 1, Len(fs) - 1)
    PROVE  /\ g \in Seq(Frame) /\ Len(g) = Len(fs) - 1 /\ Len(fs) > 0
           /\ \A i \in 1 .. Len(g) : g[i] = fs[i]
           /\ Depth(g) = IF Depth(fs) = Len(fs) THEN Len(fs) - 1 ELSE Depth(fs)
<1>1. Len(fs) \in Nat /\ Len(fs) > 0
  OBVIOUS
<1>2. /\ g \in Seq(Frame) /\ Len(g) = Len(fs) - 1
      /\ \A i \in 1 .. Len(g) : g[i] = fs[i]
  BY <1>1, FrontIs
<1>3. IsDepth(fs, Depth(fs)) /\ Depth(fs) \in 0 .. Len(fs)
  BY DepthIs, DepthGenerating
<1>4. CASE Depth(fs) = Len(fs)
  <2>1. \A i \in 1 .. Len(g) : i \in 1 .. Len(fs) /\ g[i].kind # "local-func"
    BY <1>1, <1>2, <1>4, DepthGenerating
  <2>2. IsDepth(g, Len(fs) - 1)
    BY <1>1, <1>2, <2>1 DEF IsDepth
  <2> QED
    BY <1>1, <1>2, <1>4, <2>2, DepthIs
<1>5. CASE Depth(fs) # Len(fs)
  <2>1. Depth(fs) \in 0 .. Len(g) /\ fs[Depth(fs) + 1].kind = "local-func"
    BY <1>1, <1>2, <1>3, <1>5 DEF IsDepth
  <2>2. \A i \in 1 .. Depth(fs) : g[i].kind # "local-func"
    <3> SUFFICES ASSUME NEW i \in 1 .. Depth(fs)
                 PROVE  g[i].kind # "local-func"
      OBVIOUS
    <3>1. i \in 1 .. Len(g) /\ fs[i].kind # "local-func"
      BY <1>2, <1>3, <2>1 DEF IsDepth
    <3> QED
      BY <1>2, <3>1
  <2>3. Depth(fs) = Len(g) \/ g[Depth(fs) + 1].kind = "local-func"
    BY <1>2, <2>1
  <2>4. IsDepth(g, Depth(fs))
    BY <2>1, <2>2, <2>3 DEF IsDepth
  <2> QED
    BY <1>1, <1>2, <1>5, <2>4, DepthIs
<1> QED
  BY <1>4, <1>5

(* An if statement comes to its else block. *)
LEMMA DepthElse ==
    ASSUME NEW fs \in Seq(Frame), fs # <<>>, fs[Len(fs)].kind = "if",
           NEW g, g = [fs EXCEPT ![Len(fs)].kind = "else"]
    PROVE  /\ g \in Seq(Frame) /\ Len(g) = Len(fs) /\ Len(fs) > 0
           /\ \A i \in 1 .. Len(fs) - 1 : g[i] = fs[i]
           /\ g[Len(fs)].kind = "else"
           /\ Depth(g) = Depth(fs)
<1>1. Len(fs) \in Nat /\ Len(fs) > 0 /\ Len(fs) \in 1 .. Len(fs)
  OBVIOUS
<1> DEFINE f == [fs[Len(fs)] EXCEPT !.kind = "else"]
<1>2. f \in Frame /\ f.kind = "else"
  <2>1. fs[Len(fs)] \in Frame
    BY <1>1
  <2> QED
    BY <2>1 DEF Frame
<1> HIDE DEF f
<1>3. g = [fs EXCEPT ![Len(fs)] = f]
  BY DEF f
<1>4. /\ g \in Seq(Frame) /\ Len(g) = Len(fs) /\ g[Len(fs)] = f
      /\ \A i \in 1 .. Len(fs) : i # Len(fs) => g[i] = fs[i]
  BY <1>1, <1>2, <1>3
<1>5. \A i \in 1 .. Len(fs) : g[i].kind = "local-func" <=> fs[i].kind = "local-func"
  <2> SUFFICES ASSUME NEW i \in 1 .. Len(fs)
               PROVE  g[i].kind = "local-func" <=> fs[i].kind = "local-func"
    OBVIOUS
  <2>1. CASE i = Len(fs)
    BY <1>2, <1>4, <2>1
  <2>2. CASE i # Len(fs)
    BY <1>4, <2>2
  <2> QED
    BY <2>1, <2>2
<1>6. IsDepth(fs, Depth(fs))
  BY DepthIs
<1>7. IsDepth(g, Depth(fs))
  <2>1. Depth(fs) \in 0 .. Len(g) /\ \A i \in 1 .. Depth(fs) : i \in 1 .. Len(fs)
    BY <1>1, <1>4, <1>6 DEF IsDepth
  <2>2. \A i \in 1 .. Depth(fs) : g[i].kind # "local-func"
    BY <1>5, <1>6, <2>1 DEF IsDepth
  <2>3. Depth(fs) # Len(g) => Depth(fs) + 1 \in 1 .. Len(fs)
    BY <1>1, <1>4, <2>1
  <2>4. Depth(fs) = Len(g) \/ g[Depth(fs) + 1].kind = "local-func"
    BY <1>4, <1>5, <1>6, <2>3 DEF IsDepth
  <2> QED
    BY <2>1, <2>2, <2>4 DEF IsDepth
<1>8. \A i \in 1 .. Len(fs) - 1 : g[i] = fs[i]
  BY <1>1, <1>4
<1> QED
  BY <1>1, <1>2, <1>4, <1>7, <1>8, DepthIs

-----------------------------------------------------------------------------
(* The shape of both tables, in any module *)

ScopeFlags == {"fn", "break", "control", "block"}

Scope == [flags : SUBSET ScopeFlags, fnParent : BOOLEAN, breakParent : BOOLEAN]

LoopFrame == {"while", "for"}

(* A scope within a loop belongs to an open loop, or to what is in it. *)
Breakable(ss, fs) ==
    \A k \in 1 .. Len(ss) :
        Within("break", ss[k]) =>
            \E j \in 1 .. Len(fs) : 2 * j <= k /\ fs[j].kind \in LoopFrame

(* An if statement declares nothing but in its blocks. *)
IfEmpty(fs, s) ==
    \A i \in 1 .. Len(fs), n \in Name : fs[i].kind = "if" => s[2 * i].Vars[n] = NoDecl

Named(F) == \A n \in Name : F[n] # NoDecl => F[n] \in Func /\ NameOf(F[n]) = n

(* The i-th layer of g has nothing that is not in the layers that s has by *)
(* then.                                                                   *)
Covers(g, s) ==
    \A i \in 1 .. Len(g), n \in Name :
        \/ g[i].Vars[n] = NoDecl
        \/ \E j \in 1 .. 2 * i - 1 : s[j].Vars[n] = g[i].Vars[n]

(* What is in any layer of g is in some layer of s. *)
PartOf(g, s) ==
    \A i \in 1 .. Len(g), n \in Name :
        \/ g[i].Vars[n] = NoDecl
        \/ \E j \in 1 .. Len(s) : s[j].Vars[n] = g[i].Vars[n]

(* The pairs of rs are of one name, and the declaration used is in s. *)
RefsIn(rs, s) ==
    \A r \in rs :
        /\ r \in (Value \union Func) \X (Value \union Func \union {NoDecl})
        /\ r[2] \in Value =>
              /\ NameOf(r[2]) = NameOf(r[1])
              /\ \E i \in 1 .. Len(s) : s[i].Vars[NameOf(r[2])] = r[2]

SemaStates == {"ok", "no-type", "no-function"}

GenStates == {"ok", "redefinition", "no-address", "not-a-constant",
              "no-callee", "no-loop", "unexpected-node"}

AstInv ==
    /\ funcs \in FuncLists /\ next \in 0 .. Len(funcs) + 1
    /\ frames \in Seq(Frame) /\ Len(frames) <= MaxFrames
    /\ seen \subseteq Value

SemaInv ==
    /\ ChainOf(sl, seen) /\ Len(sl) = 2 * Len(frames) + 1
    /\ scopes \in Seq(Scope) /\ Len(scopes) = Len(sl)
    /\ Breakable(scopes, frames)
    /\ IfEmpty(frames, sl)
    /\ sF \in [Name -> Func \union {NoDecl}] /\ Named(sF)
    /\ literals \subseteq seen \intersect Let
    /\ error \in BOOLEAN /\ sema \in SemaStates

GenInv ==
    /\ ChainOf(gl, seen)
    /\ gF = sF
    /\ vals \subseteq seen
    /\ loops \in Seq(1 .. MaxFrames)
    /\ irgen \in GenStates
    /\ Accepted /\ irgen = "ok" => Len(gl) = Depth(frames) + 1 /\ Covers(gl, sl)

RefInv == RefsIn(refs, sl) /\ stored \in Value \union {NoDecl}

(* The inductive invariant of InScope: the code generator is in the         *)
(* statements the type checker is in, and knows nothing that the type       *)
(* checker does not.                                                        *)
ShapeInv == AstInv /\ SemaInv /\ GenInv /\ RefInv

(* Both go on while the type checker has no error. *)
LEMMA GeneratingIs ==
    ASSUME ShapeInv, Visiting, error => error'
    PROVE  /\ Generating =>
                /\ error' = FALSE /\ error = FALSE /\ sema' = "ok" /\ sema = "ok"
                /\ irgen = "ok"
                /\ Depth(frames) = Len(frames)
                /\ Len(gl) = Len(frames) + 1 /\ Covers(gl, sl)
           /\ ~Generating /\ ~error' /\ sema' = "ok" /\ irgen = "ok"
                => Depth(frames) # Len(frames)
<1>1. frames \in Seq(Frame) /\ error \in BOOLEAN
  BY DEF ShapeInv, AstInv, SemaInv
<1>2. (\A i \in 1 .. Len(frames) : frames[i].kind # "local-func") <=> Depth(frames) = Len(frames)
  BY <1>1, DepthGenerating
<1>3. ASSUME Generating
      PROVE  /\ error' = FALSE /\ error = FALSE /\ sema' = "ok" /\ sema = "ok"
             /\ irgen = "ok"
             /\ Depth(frames) = Len(frames)
             /\ Len(gl) = Len(frames) + 1 /\ Covers(gl, sl)
  <2>1. ~error' /\ sema' = "ok" /\ irgen = "ok" /\ Depth(frames) = Len(frames)
    BY <1>2, <1>3 DEF Generating
  <2>2. error = FALSE /\ sema = "ok"
    BY <1>1, <2>1 DEF Visiting
  <2> QED
    BY <2>1, <2>2 DEF ShapeInv, GenInv, Accepted
<1>4. ASSUME ~Generating, ~error', sema' = "ok", irgen = "ok"
      PROVE  Depth(frames) # Len(frames)
  BY <1>2, <1>4 DEF Generating
<1> QED
  BY <1>3, <1>4

(* In a local function the code generator waits. *)
LEMMA IdleGen ==
    ASSUME ShapeInv, Visiting, error => error', ~Generating,
           UNCHANGED <<gl, gF, vals, loops, irgen, sF>>,
           seen \subseteq seen',
           Depth(frames) # Len(frames) => Depth(frames') = Depth(frames),
           \A j \in 1 .. Len(sl) - 2 : sl'[j] = sl[j]
    PROVE  GenInv'
<1>1. ChainOf(gl, seen')
  BY ChainGrows DEF ShapeInv, GenInv
<1>2. ASSUME ~error', sema' = "ok", irgen = "ok"
      PROVE  Len(gl) = Depth(frames') + 1 /\ Covers(gl, sl')
  <2>1. Depth(frames) # Len(frames) /\ ~error /\ sema = "ok"
    BY <1>2, GeneratingIs DEF Visiting
  <2>2. Depth(frames') = Depth(frames) /\ Len(gl) = Depth(frames) + 1 /\ Covers(gl, sl)
    BY <1>2, <2>1 DEF ShapeInv, GenInv, Accepted
  <2>3. Len(frames) \in Nat /\ Depth(frames) \in 0 .. Len(frames) - 1 /\ Len(sl) = 2 * Len(frames) + 1
    BY <2>1, DepthGenerating DEF ShapeInv, AstInv, SemaInv
  <2>4. ASSUME NEW i \in 1 .. Len(gl), NEW n \in Name, gl[i].Vars[n] # NoDecl
        PROVE  \E j \in 1 .. 2 * i - 1 : sl'[j].Vars[n] = gl[i].Vars[n]
    <3>1. PICK j \in 1 .. 2 * i - 1 : sl[j].Vars[n] = gl[i].Vars[n]
      BY <2>2, <2>4 DEF Covers
    <3>2. j \in 1 .. Len(sl) - 2
      BY <2>2, <2>3
    <3> QED
      BY <3>1, <3>2
  <2> QED
    BY <2>2, <2>4 DEF Covers
<1>3. (ChainOf(gl, seen))' <=> ChainOf(gl, seen')
  BY DEF ChainOf
<1>4. (Len(gl) = Depth(frames) + 1 /\ Covers(gl, sl))' <=> Len(gl) = Depth(frames') + 1 /\ Covers(gl, sl')
  BY DEF Depth, Covers
<1> QED
  BY <1>1, <1>2, <1>3, <1>4 DEF ShapeInv, GenInv, Accepted

(* Nothing is opened, closed or declared. *)
LEMMA StraightOK ==
    ASSUME ShapeInv, UNCHANGED <<astVars, sF, sl, scopes, literals, gF, gl, vals, loops>>,
           error' \in BOOLEAN, error => error', sema' \in SemaStates, sema = "ok",
           irgen' \in GenStates, irgen' = "ok" => irgen = "ok",
           RefsIn(refs', sl), stored' \in Value \union {NoDecl}
    PROVE  ShapeInv'
<1>1. AstInv'
  BY DEF ShapeInv, AstInv, astVars
<1>2. SemaInv'
  BY DEF ShapeInv, SemaInv, astVars, ChainOf, Breakable, Within, IfEmpty, Named
<1>3. GenInv'
  <2>1. (Len(gl) = Depth(frames) + 1 /\ Covers(gl, sl))' <=> Len(gl) = Depth(frames) + 1 /\ Covers(gl, sl)
    BY DEF astVars, Depth, Covers
  <2>2. (ChainOf(gl, seen))' <=> ChainOf(gl, seen)
    BY DEF astVars, ChainOf
  <2>3. Accepted' => Accepted
    BY DEF Accepted
  <2>4. Accepted' /\ irgen' = "ok" => Len(gl) = Depth(frames) + 1 /\ Covers(gl, sl)
    BY <2>3 DEF ShapeInv, GenInv
  <2>5. /\ ChainOf(gl, seen) /\ gF' = sF' /\ vals' \subseteq seen'
        /\ loops' \in Seq(1 .. MaxFrames) /\ irgen' \in GenStates
    BY DEF ShapeInv, GenInv, astVars
  <2> QED
    BY <2>1, <2>2, <2>4, <2>5 DEF GenInv
<1>4. RefInv'
  <2>1. RefsIn(refs, sl)' <=> RefsIn(refs', sl)
    BY DEF RefsIn
  <2> QED
    BY <2>1 DEF RefInv
<1> QED
  BY <1>1, <1>2, <1>3, <1>4 DEF ShapeInv

LEMMA ResolveIs ==
    ASSUME NEW S, S \subseteq Value, NEW ls, ChainOf(ls, S), Named(sF), NEW n \in Name
    PROVE  /\ n # Literal
           /\ \/ Resolve(ls, n) = NoDecl /\ Undefined(ls, n)
              \/ Resolve(ls, n) \in Value \union Func /\ NameOf(Resolve(ls, n)) = n
<1>1. n # Literal
  BY DeclAssumption
<1>2. CASE ImplGet(ls, Len(ls), n) # NoDecl
  BY <1>1, <1>2, GetIs DEF Resolve
<1>3. CASE ImplGet(ls, Len(ls), n) = NoDecl
  BY <1>1, <1>3 DEF Resolve, Undefined, Named
<1> QED
  BY <1>1, <1>2, <1>3

(* What is left of accepted mentions *)
MentionsIn(left) ==
    \A q \in left :
        \E n \in Name, d \in Value \union Func : q = <<n, d>> /\ NameOf(d) = n

LEMMA LeftIs ==
    ASSUME NEW S, S \subseteq Value, NEW ls, ChainOf(ls, S), Named(sF),
           NEW ms, ms \subseteq Mention, \A m \in ms : ~Undefined(ls, m)
    PROVE  MentionsIn(Left(ls, ms))
<1> SUFFICES ASSUME NEW q \in Left(ls, ms)
             PROVE  \E n \in Name, d \in Value \union Func : q = <<n, d>> /\ NameOf(d) = n
  BY DEF MentionsIn
<1>1. PICK n \in ms : ~Solved(ls, n) /\ q = <<n, Resolve(ls, n)>>
  BY DEF Left
<1>2. n \in Name
  BY <1>1 DEF Solved, Mention
<1>3. Resolve(ls, n) \in Value \union Func /\ NameOf(Resolve(ls, n)) = n
  BY <1>2, ResolveIs
<1> QED
  BY <1>1, <1>2, <1>3

(* What is loaded for a mention is of its name, and in scope. *)
LEMMA LoadedIn ==
    ASSUME NEW S, S \subseteq Value, NEW ls, ChainOf(ls, S),
           NEW s, Len(s) \in Nat, PartOf(ls, s), NEW left, MentionsIn(left)
    PROVE  RefsIn(Loaded(ls, left), s)
<1> SUFFICES ASSUME NEW r \in Loaded(ls, left)
             PROVE  /\ r \in (Value \union Func) \X (Value \union Func \union {NoDecl})
                    /\ r[2] \in Value =>
                          /\ NameOf(r[2]) = NameOf(r[1])
                          /\ \E i \in 1 .. Len(s) : s[i].Vars[NameOf(r[2])] = r[2]
  BY DEF RefsIn
<1>1. PICK n \in Name, d \in Value \union Func :
        NameOf(d) = n /\ r = <<d, Address(ls, n)>>
  <2>1. PICK q \in left : r = <<q[2], Address(ls, q[1])>>
    BY DEF Loaded
  <2>2. PICK n \in Name, d \in Value \union Func : q = <<n, d>> /\ NameOf(d) = n
    BY DEF MentionsIn
  <2>3. q[1] = n /\ q[2] = d
    BY <2>2
  <2> QED
    BY <2>1, <2>2, <2>3
<1>2. 1 \in 1 .. Len(ls)
  BY DEF ChainOf
<1>3. Address(ls, n) = NoDecl \/ \E j \in 1 .. Len(ls) : Address(ls, n) = ls[j].Vars[n]
  BY <1>2, GetIs DEF Address
<1>4. \/ Address(ls, n) = NoDecl
      \/ /\ Address(ls, n) \in Value /\ NameOf(Address(ls, n)) = n
         /\ \E j \in 1 .. Len(s) : s[j].Vars[n] = Address(ls, n)
  BY <1>3, ChainEntry DEF PartOf
<1>5. NoDecl \notin Value
  BY DeclAssumption
<1> QED
  BY <1>1, <1>4, <1>5

-----------------------------------------------------------------------------
(* Expressions and jumps *)

LEMMA ShapeFacts ==
    ASSUME ShapeInv
    PROVE  /\ ChainOf(sl, seen) /\ ChainOf(gl, seen) /\ seen \subseteq Value /\ Named(sF)
           /\ gF = sF /\ sF \in [Name -> Func \union {NoDecl}]
           /\ Len(sl) = 2 * Len(frames) + 1 /\ Len(frames) \in Nat /\ frames \in Seq(Frame)
           /\ error \in BOOLEAN /\ irgen \in GenStates
           /\ NoDecl \notin Value /\ NoDecl \notin Func
BY DeclAssumption DEF ShapeInv, AstInv, SemaInv, GenInv

LEMMA NoRefs == \A s : RefsIn({}, s)
BY DEF RefsIn

(* What is in the code generator's layers is in those of the type checker. *)
LEMMA CoversAll ==
    ASSUME ShapeInv, Len(gl) = Len(frames) + 1, Covers(gl, sl)
    PROVE  PartOf(gl, sl)
<1> SUFFICES ASSUME NEW i \in 1 .. Len(gl), NEW n \in Name, gl[i].Vars[n] # NoDecl
             PROVE  \E j \in 1 .. Len(sl) : sl[j].Vars[n] = gl[i].Vars[n]
  BY DEF PartOf
<1>1. PICK j \in 1 .. 2 * i - 1 : sl[j].Vars[n] = gl[i].Vars[n]
  BY DEF Covers
<1>2. j \in 1 .. Len(sl)
  BY ShapeFacts
<1> QED
  BY <1>1, <1>2

(* Loads from the table as it is *)
LEMMA LoadsIn ==
    ASSUME ShapeInv, Len(gl) = Len(frames) + 1, Covers(gl, sl), NEW left, MentionsIn(left)
    PROVE  RefsIn(Loaded(gl, left), sl)
BY LoadedIn, CoversAll, ShapeFacts

LEMMA AddressIs ==
    ASSUME ShapeInv, NEW n \in Name
    PROVE  Address(gl, n) \in Value \union {NoDecl}
<1>1. 1 \in 1 .. Len(gl)
  BY ShapeFacts DEF ChainOf
<1> QED
  BY <1>1, ShapeFacts, GetIs, ChainEntry DEF Address

LEMMA UseShape == ASSUME ShapeInv, NEW n \in Name, VisitUse(n) PROVE ShapeInv'
<1>1. /\ Visiting /\ error' = (error \/ frames = <<>> \/ Undefined(sl, n))
      /\ UNCHANGED <<astVars, sF, sl, scopes, literals, sema>>
      /\ Generate(Load(gl, Left(sl, {n})) /\ UNCHANGED <<gl, vals, loops>>)
  BY DEF VisitUse, SemaExpr
<1>2. /\ UNCHANGED <<gF, gl, vals, loops>>
      /\ RefsIn(refs', sl) /\ stored' = NoDecl
      /\ irgen' \in {irgen, "no-address"}
  <2>1. CASE Generating
    <3>1. /\ refs' = Loaded(gl, Left(sl, {n})) /\ stored' = NoDecl
          /\ irgen' = (IF AllFound(refs') THEN irgen ELSE "no-address")
          /\ UNCHANGED <<gF, gl, vals, loops>>
      BY <1>1, <2>1 DEF Generate, Load
    <3>2. ~Undefined(sl, n) /\ Len(gl) = Len(frames) + 1 /\ Covers(gl, sl)
      BY <1>1, <2>1, GeneratingIs
    <3>3. MentionsIn(Left(sl, {n}))
      BY <3>2, ShapeFacts, LeftIs DEF Mention
    <3> QED
      BY <3>1, <3>2, <3>3, LoadsIn
  <2>2. CASE ~Generating
    BY <1>1, <2>2, NoRefs DEF Generate
  <2> QED
    BY <2>1, <2>2
<1>3. error' \in BOOLEAN /\ (error => error') /\ sema = "ok" /\ sema' = "ok"
  BY <1>1 DEF Visiting
<1> QED
  BY <1>1, <1>2, <1>3, StraightOK, ShapeFacts DEF SemaStates, GenStates

LEMMA CallShape == ASSUME ShapeInv, NEW n \in Name, VisitCall(n) PROVE ShapeInv'
<1>1. /\ Visiting /\ error' = (error \/ frames = <<>> \/ Undefined(sl, n))
      /\ UNCHANGED <<astVars, sF, sl, scopes, literals, sema>>
      /\ Generate(GenCall(n))
  BY DEF VisitCall, SemaExpr
<1>2. /\ UNCHANGED <<gF, gl, vals, loops>>
      /\ RefsIn(refs', sl) /\ stored' = NoDecl
      /\ irgen' \in {irgen, "no-callee"}
  <2>1. CASE Generating
    <3>1. /\ refs' = {<<Resolve(sl, n), gF[n]>>} /\ stored' = NoDecl
          /\ irgen' \in {irgen, "no-callee"}
          /\ UNCHANGED <<gF, gl, vals, loops>>
      BY <1>1, <2>1 DEF Generate, GenCall
    <3>2. ~Undefined(sl, n)
      BY <1>1, <2>1, GeneratingIs
    <3>3. Resolve(sl, n) \in Value \union Func
      BY <3>2, ShapeFacts, ResolveIs
    <3>4. gF[n] \in Func \union {NoDecl} /\ gF[n] \notin Value
      BY ShapeFacts, DeclAssumption
    <3> QED
      BY <3>1, <3>3, <3>4 DEF RefsIn
  <2>2. CASE ~Generating
    BY <1>1, <2>2, NoRefs DEF Generate
  <2> QED
    BY <2>1, <2>2
<1>3. error' \in BOOLEAN /\ (error => error') /\ sema = "ok" /\ sema' = "ok"
  BY <1>1 DEF Visiting
<1> QED
  BY <1>1, <1>2, <1>3, StraightOK, ShapeFacts DEF SemaStates, GenStates

LEMMA AssignShape ==
    ASSUME ShapeInv, NEW n \in Name, NEW m \in Mention, VisitAssign(n, m) PROVE ShapeInv'
<1> DEFINE left == {<<n, Resolve(sl, n)>>} \union Left(sl, {m})
<1>1. /\ Visiting
      /\ error' = (error \/ frames = <<>>
                      \/ (Undefined(sl, n) \/ Undefined(sl, m) \/ ~Assignable(n, m)))
      /\ UNCHANGED <<astVars, sF, sl, scopes, literals, sema>>
      /\ Generate(GenAssign(n, m))
  BY DEF VisitAssign, SemaExpr
<1>2. /\ UNCHANGED <<gF, gl, vals, loops>>
      /\ RefsIn(refs', sl) /\ stored' \in Value \union {NoDecl}
      /\ irgen' \in {irgen, "no-address"}
  <2>1. CASE Generating
    <3>1. /\ refs' = Loaded(gl, left) /\ stored' = Address(gl, n)
          /\ irgen' \in {irgen, "no-address"}
          /\ UNCHANGED <<gF, gl, vals, loops>>
      BY <1>1, <2>1 DEF Generate, GenAssign
    <3>2. /\ ~Undefined(sl, n) /\ ~Undefined(sl, m)
          /\ Len(gl) = Len(frames) + 1 /\ Covers(gl, sl)
      BY <1>1, <2>1, GeneratingIs
    <3>3. MentionsIn(Left(sl, {m}))
      BY <3>2, ShapeFacts, LeftIs
    <3>4. Resolve(sl, n) \in Value \union Func /\ NameOf(Resolve(sl, n)) = n
      BY <3>2, ShapeFacts, ResolveIs
    <3>5. MentionsIn(left)
      BY <3>3, <3>4 DEF MentionsIn
    <3> HIDE DEF left
    <3>6. RefsIn(Loaded(gl, left), sl)
      BY <3>2, <3>5, LoadsIn
    <3> QED
      BY <3>1, <3>6, AddressIs
  <2>2. CASE ~Generating
    BY <1>1, <2>2, NoRefs DEF Generate
  <2> QED
    BY <2>1, <2>2
<1>3. error' \in BOOLEAN /\ (error => error') /\ sema = "ok" /\ sema' = "ok"
  BY <1>1 DEF Visiting
<1> QED
  BY <1>1, <1>2, <1>3, StraightOK, ShapeFacts DEF SemaStates, GenStates

LEMMA BreakShape == ASSUME ShapeInv, VisitBreak PROVE ShapeInv'
<1>1. /\ Visiting /\ error' = (error \/ ~MayBreak)
      /\ UNCHANGED <<astVars, sF, sl, scopes, literals, sema>>
      /\ Generate(GenBreak)
  BY DEF VisitBreak
<1>2. /\ UNCHANGED <<gF, gl, vals, loops>>
      /\ refs' = {} /\ stored' = NoDecl
      /\ irgen' \in {irgen, "no-loop", "unexpected-node"}
  BY <1>1 DEF Generate, GenBreak
<1>3. error' \in BOOLEAN /\ (error => error') /\ sema = "ok" /\ sema' = "ok"
  BY <1>1 DEF Visiting
<1>4. irgen' \in GenStates /\ (irgen' = "ok" => irgen = "ok")
  BY <1>2, ShapeFacts DEF GenStates
<1>5. RefsIn(refs', sl)
  BY <1>2, NoRefs
<1> QED
  BY <1>1, <1>2, <1>3, <1>4, <1>5, StraightOK DEF SemaStates

LEMMA ReturnAtTopShape == ASSUME ShapeInv, VisitReturnAtTop PROVE ShapeInv'
<1>1. /\ Visiting /\ error' = TRUE /\ sema' = "no-function"
      /\ UNCHANGED <<astVars, sF, sl, scopes, literals>>
      /\ Generate(Silent /\ UNCHANGED <<gl, vals, loops>>)
  BY DEF VisitReturnAtTop
<1>2. /\ UNCHANGED <<gF, gl, vals, loops>>
      /\ refs' = {} /\ stored' = NoDecl /\ irgen' = irgen
  BY <1>1 DEF Generate, Silent
<1>3. RefsIn(refs', sl)
  BY <1>2, NoRefs
<1> QED
  BY <1>1, <1>2, <1>3, StraightOK, ShapeFacts DEF SemaStates, Visiting

LEMMA ReturnShape ==
    ASSUME ShapeInv, NEW m \in Mention \union {None}, VisitReturn(m) PROVE ShapeInv'
<1>1. /\ Visiting /\ error' = (error \/ IF m = None THEN ~InVoid ELSE Undefined(sl, m))
      /\ UNCHANGED <<astVars, sF, sl, scopes, literals, sema>>
      /\ Generate(GenReturn(m))
  BY DEF VisitReturn
<1>2. error' \in BOOLEAN /\ (error => error') /\ sema = "ok" /\ sema' = "ok"
  BY <1>1 DEF Visiting
<1>3. /\ UNCHANGED <<gF, gl, vals, loops>>
      /\ RefsIn(refs', sl) /\ stored' = NoDecl
      /\ irgen' \in {irgen, "no-address"}
  <2>1. CASE Generating /\ InVoid
    BY <1>1, <2>1, NoRefs DEF Generate, GenReturn, Silent
  <2>2. CASE Generating /\ ~InVoid
    <3>1. /\ refs' = Loaded(gl, Left(sl, {m})) /\ stored' = NoDecl
          /\ irgen' \in {irgen, "no-address"}
          /\ UNCHANGED <<gF, gl, vals, loops>>
      BY <1>1, <2>2 DEF Generate, GenReturn, Load
    <3>2. ~error' /\ Len(gl) = Len(frames) + 1 /\ Covers(gl, sl)
      BY <1>1, <1>2, <2>2, GeneratingIs
    <3>3. m # None /\ ~Undefined(sl, m)
      BY <1>1, <2>2, <3>2
    <3>4. MentionsIn(Left(sl, {m}))
      BY <3>3, ShapeFacts, LeftIs
    <3> QED
      BY <3>1, <3>2, <3>4, LoadsIn
  <2>3. CASE ~Generating
    BY <1>1, <2>3, NoRefs DEF Generate
  <2> QED
    BY <2>1, <2>2, <2>3
<1> QED
  BY <1>1, <1>2, <1>3, StraightOK, ShapeFacts DEF SemaStates, GenStates

-----------------------------------------------------------------------------
(* Declarations *)

(* The type checker has two layers where the code generator has one, after *)
(* the outermost.                                                          *)
TwoForOne(g, s) == Len(s) = 2 * Len(g) - 1

(* A declaration where the name was free hides nothing. *)
LEMMA DeclareCovers ==
    ASSUME NEW S, S \subseteq Value, NEW g, ChainOf(g, S), NEW s, ChainOf(s, S),
           NEW F, NEW d \in Value, Covers(g, s), TwoForOne(g, s),
           ~Refused(s, F, NameOf(d))
    PROVE  Covers(WithVar(g, F, d), WithVar(s, F, d))
<1> DEFINE h == WithVar(g, F, d)
           u == WithVar(s, F, d)
           n0 == NameOf(d)
<1>1. Len(h) = Len(g) /\ \A i \in 1 .. Len(g) - 1 : h[i] = g[i]
  BY WithVarIs
<1>2. /\ Len(u) = Len(s)
      /\ \A i \in 1 .. Len(s) - 1 : u[i] = s[i]
      /\ s[Len(s)].Vars[n0] = NoDecl /\ u[Len(s)].Vars[n0] = d
      /\ \A n \in Name : n # n0 => u[Len(s)].Vars[n] = s[Len(s)].Vars[n]
  BY WithVarIs
<1>3. Len(g) \in Nat /\ Len(g) > 0 /\ Len(s) \in Nat /\ Len(s) > 0 /\ Len(s) = 2 * Len(g) - 1
  BY DEF ChainOf, TwoForOne
<1>4. ASSUME NEW n \in Name
      PROVE  h[Len(g)].Vars[n] = g[Len(g)].Vars[n] \/ (n = n0 /\ h[Len(g)].Vars[n] = d)
  <2>1. Refused(g, F, n0) => h = g
    BY WithVarIs
  <2>2. ~Refused(g, F, n0) =>
          /\ h[Len(g)].Vars[n0] = d
          /\ n # n0 => h[Len(g)].Vars[n] = g[Len(g)].Vars[n]
    BY WithVarIs
  <2> HIDE DEF h, n0
  <2> QED
    BY <2>1, <2>2
<1> HIDE DEF h, u, n0
<1>5. \A j \in 1 .. Len(s), n \in Name :
        s[j].Vars[n] # NoDecl => u[j].Vars[n] = s[j].Vars[n]
  <2> SUFFICES ASSUME NEW j \in 1 .. Len(s), NEW n \in Name, s[j].Vars[n] # NoDecl
               PROVE  u[j].Vars[n] = s[j].Vars[n]
    OBVIOUS
  <2>1. CASE j = Len(s)
    BY <1>2, <2>1
  <2>2. CASE j # Len(s)
    <3>1. j \in 1 .. Len(s) - 1
      BY <1>3, <2>2
    <3> QED
      BY <1>2, <3>1
  <2> QED
    BY <2>1, <2>2
<1>6. ASSUME NEW i \in 1 .. Len(g), NEW n \in Name, h[i].Vars[n] # NoDecl
      PROVE  \E j \in 1 .. 2 * i - 1 : u[j].Vars[n] = h[i].Vars[n]
  <2>1. CASE h[i].Vars[n] = g[i].Vars[n]
    <3>1. PICK j \in 1 .. 2 * i - 1 : s[j].Vars[n] = g[i].Vars[n]
      BY <1>6, <2>1 DEF Covers
    <3>2. j \in 1 .. Len(s)
      BY <1>3
    <3> QED
      BY <1>5, <1>6, <2>1, <3>1, <3>2
  <2>2. CASE h[i].Vars[n] # g[i].Vars[n]
    <3>1. i = Len(g)
      <4>1. i # Len(g) => i \in 1 .. Len(g) - 1
        BY <1>3
      <4> QED
        BY <1>1, <2>2, <4>1
    <3>2. Len(s) \in 1 .. 2 * i - 1
      BY <1>3, <3>1
    <3>3. n = n0 /\ h[i].Vars[n] = d
      BY <1>4, <2>2, <3>1
    <3> QED
      BY <1>2, <3>2, <3>3
  <2> QED
    BY <2>1, <2>2
<1> QED
  BY <1>1, <1>6 DEF Covers, h, u

(* What a declaration does in the type checker *)
LEMMA SemaDeclares ==
    ASSUME ShapeInv, NEW d \in Value, NEW init \in Mention \union {None}, SemaVarDecl(d, init)
    PROVE  /\ sl' = WithVar(sl, sF, d) \/ sl' = sl
           /\ Len(sl') = Len(sl) /\ ChainOf(sl', seen \union {d})
           /\ \A i \in 1 .. Len(sl) - 1 : sl'[i] = sl[i]
           /\ error' \in BOOLEAN /\ (error => error')
           /\ ~error' => /\ sl' = WithVar(sl, sF, d) /\ ~Refused(sl, sF, NameOf(d))
                         /\ init # None => ~Undefined(sl, init) /\ ~IsFunction(sl, init)
           /\ literals' \subseteq (seen \union {d}) \intersect Let
           /\ UNCHANGED <<sF, scopes, sema>>
<1> DEFINE typed == IF init = None THEN d \in Var
                    ELSE ~Undefined(sl, init) /\ ~IsFunction(sl, init)
<1>1. /\ sl' = IF typed THEN WithVar(sl, sF, d) ELSE sl
      /\ error' = (error \/ ~typed \/ Refused(sl, sF, NameOf(d)))
      /\ literals' \in {literals, literals \union {d}}
      /\ literals' # literals => d \in Let
      /\ UNCHANGED <<sF, scopes, sema>>
  BY DEF SemaVarDecl
<1>2. /\ ChainOf(sl, seen \union {d})
      /\ ChainOf(WithVar(sl, sF, d), seen \union {d})
      /\ Len(WithVar(sl, sF, d)) = Len(sl)
      /\ \A i \in 1 .. Len(sl) - 1 : WithVar(sl, sF, d)[i] = sl[i]
  <2>1. ChainOf(sl, seen)
    BY ShapeFacts
  <2>2. ChainOf(sl, seen \union {d})
    BY <2>1, ChainGrows
  <2>3. ChainOf(WithVar(sl, sF, d), seen \union {d})
    BY <2>1, WithVarChain
  <2>4. /\ Len(WithVar(sl, sF, d)) = Len(sl)
        /\ \A i \in 1 .. Len(sl) - 1 : WithVar(sl, sF, d)[i] = sl[i]
    BY <2>1, WithVarIs
  <2> QED
    BY <2>2, <2>3, <2>4
<1>3. literals \subseteq seen \intersect Let
  BY DEF ShapeInv, SemaInv
<1>4. ~error' => typed /\ ~Refused(sl, sF, NameOf(d))
  BY <1>1
<1>5. error' \in BOOLEAN /\ (error => error')
  BY <1>1
<1> HIDE DEF typed
<1>6. /\ sl' = WithVar(sl, sF, d) \/ sl' = sl
      /\ Len(sl') = Len(sl) /\ ChainOf(sl', seen \union {d})
      /\ \A i \in 1 .. Len(sl) - 1 : sl'[i] = sl[i]
  BY <1>1, <1>2
<1>7. ~error' => sl' = WithVar(sl, sF, d)
  BY <1>1, <1>4
<1>8. literals' \subseteq (seen \union {d}) \intersect Let
  BY <1>1, <1>3
<1> QED
  BY <1>1, <1>4, <1>5, <1>6, <1>7, <1>8 DEF typed

(* and in the code generator *)
LEMMA GenDeclares ==
    ASSUME ShapeInv, Visiting, NEW d \in Value, NEW init \in Mention \union {None},
           SemaVarDecl(d, init), UNCHANGED frames,
           Generate(GenValDecl(d, IF init = None THEN {} ELSE Left(sl, {init})))
    PROVE  /\ gF' = gF /\ loops' = loops
           /\ ~Generating => UNCHANGED <<gl, vals, irgen>>
           /\ Generating => gl' = WithVar(gl, gF, d) /\ vals' = vals \union {d}
           /\ ChainOf(gl', seen \union {d})
           /\ irgen' \in {irgen, "no-address", "not-a-constant"}
           /\ Generating => Len(gl') = Len(frames) + 1 /\ Covers(gl', sl')
           /\ RefsIn(refs', sl') /\ stored' = NoDecl
<1>1. error => error'
  BY SemaDeclares
<1>2. CASE ~Generating
  <2>1. /\ gF' = gF /\ loops' = loops /\ UNCHANGED <<gl, vals, irgen>>
        /\ refs' = {} /\ stored' = NoDecl
    BY <1>2 DEF Generate
  <2> QED
    BY <1>2, <2>1, NoRefs, ChainGrows, ShapeFacts
<1>3. CASE Generating
  <2> DEFINE left == IF init = None THEN {} ELSE Left(sl, {init})
  <2>1. /\ gF' = gF /\ loops' = loops
        /\ gl' = WithVar(gl, gF, d) /\ vals' = vals \union {d}
        /\ IF frames = <<>> THEN GenGlobal(left) ELSE Load(gl', left)
    BY <1>3 DEF Generate, GenValDecl
  <2>2. /\ ~error' /\ Len(gl) = Len(frames) + 1 /\ Covers(gl, sl)
    BY <1>1, <1>3, GeneratingIs
  <2>3. /\ sl' = WithVar(sl, sF, d) /\ ~Refused(sl, sF, NameOf(d))
        /\ init # None => ~Undefined(sl, init)
        /\ Len(sl') = Len(sl)
    BY <2>2, SemaDeclares
  <2>4. ChainOf(gl', seen \union {d}) /\ Len(gl') = Len(gl)
    <3>1. ChainOf(gl, seen)
      BY ShapeFacts
    <3>2. ChainOf(gl', seen \union {d})
      BY <2>1, <3>1, WithVarChain
    <3>3. Len(gl') = Len(gl)
      BY <2>1, <3>1, WithVarIs
    <3> QED
      BY <3>2, <3>3
  <2>5. Len(sl) = 2 * Len(gl) - 1
    BY <2>2, ShapeFacts
  <2>6. Covers(gl', sl')
    <3>1. TwoForOne(gl, sl)
      BY <2>5 DEF TwoForOne
    <3> QED
      BY <2>1, <2>2, <2>3, <3>1, ShapeFacts, DeclareCovers
  <2>7. MentionsIn(left)
    <3>1. CASE init = None
      BY <3>1 DEF MentionsIn
    <3>2. CASE init # None
      BY <2>3, <3>2, ShapeFacts, LeftIs
    <3> QED
      BY <3>1, <3>2
  <2> HIDE DEF left
  <2>8. ASSUME NEW i \in 1 .. Len(gl'), NEW n \in Name, gl'[i].Vars[n] # NoDecl
        PROVE  \E j \in 1 .. Len(sl') : sl'[j].Vars[n] = gl'[i].Vars[n]
    <3>1. PICK j \in 1 .. 2 * i - 1 : sl'[j].Vars[n] = gl'[i].Vars[n]
      BY <2>6, <2>8 DEF Covers
    <3>2. j \in 1 .. Len(sl')
      BY <2>2, <2>3, <2>4, <2>5, ShapeFacts
    <3> QED
      BY <3>1, <3>2
  <2>9. seen \union {d} \subseteq Value /\ PartOf(gl', sl')
    BY <2>8, ShapeFacts DEF PartOf
  <2>10. Len(sl') \in Nat
    BY <2>3, ShapeFacts
  <2>11. RefsIn(Loaded(gl', left), sl')
    BY <2>4, <2>7, <2>9, <2>10, LoadedIn
  <2>12. RefsIn(refs', sl') /\ stored' = NoDecl /\ irgen' \in {irgen, "no-address", "not-a-constant"}
    BY <2>1, <2>11, NoRefs DEF GenGlobal, Load
  <2> QED
    BY <1>3, <2>1, <2>2, <2>4, <2>6, <2>12
<1> QED
  BY <1>2, <1>3

LEMMA VarDeclShape ==
    ASSUME ShapeInv, NEW d \in Value, NEW init \in Mention \union {None},
           VisitVarDecl(d, init)
    PROVE  ShapeInv'
<1>1. /\ Visiting /\ seen' = seen \union {d} /\ UNCHANGED <<funcs, next, frames>>
      /\ SemaVarDecl(d, init)
      /\ Generate(GenValDecl(d, IF init = None THEN {} ELSE Left(sl, {init})))
  BY DEF VisitVarDecl
<1>2. /\ Len(sl') = Len(sl) /\ ChainOf(sl', seen')
      /\ \A i \in 1 .. Len(sl) - 1 : sl'[i] = sl[i]
      /\ error' \in BOOLEAN /\ (error => error')
      /\ literals' \subseteq seen' \intersect Let
      /\ UNCHANGED <<sF, scopes, sema>>
  BY <1>1, SemaDeclares
<1>3. /\ gF' = gF /\ loops' = loops
      /\ ~Generating => UNCHANGED <<gl, vals, irgen>>
      /\ Generating => gl' = WithVar(gl, gF, d) /\ vals' = vals \union {d}
      /\ ChainOf(gl', seen')
      /\ irgen' \in {irgen, "no-address", "not-a-constant"}
      /\ Generating => Len(gl') = Len(frames) + 1 /\ Covers(gl', sl')
      /\ RefsIn(refs', sl') /\ stored' = NoDecl
  BY <1>1, GenDeclares
<1>4. AstInv'
  BY <1>1 DEF ShapeInv, AstInv
<1>5. SemaInv'
  <2>1. \A i \in 1 .. Len(frames) : 2 * i \in 1 .. Len(sl) - 1
    BY ShapeFacts
  <2>2. IfEmpty(frames, sl')
    BY <1>2, <2>1 DEF ShapeInv, SemaInv, IfEmpty
  <2>3. /\ (ChainOf(sl, seen))' <=> ChainOf(sl', seen')
        /\ (IfEmpty(frames, sl))' <=> IfEmpty(frames, sl')
        /\ (Breakable(scopes, frames))' <=> Breakable(scopes, frames)
        /\ Named(sF)' <=> Named(sF)
    BY <1>1, <1>2 DEF ChainOf, IfEmpty, Breakable, Within, Named
  <2> QED
    BY <1>1, <1>2, <2>2, <2>3 DEF ShapeInv, SemaInv
<1>6. GenInv'
  <2>1. CASE ~Generating
    <3>1. \A j \in 1 .. Len(sl) - 2 : sl'[j] = sl[j]
      BY <1>2, ShapeFacts
    <3> QED
      BY <1>1, <1>2, <1>3, <2>1, <3>1, IdleGen
  <2>2. CASE Generating
    <3>1. Depth(frames) = Len(frames)
      BY <1>1, <1>2, <2>2, GeneratingIs
    <3>2. /\ vals' \subseteq seen' /\ loops' \in Seq(1 .. MaxFrames) /\ irgen' \in GenStates
          /\ gF' = sF'
      BY <1>1, <1>2, <1>3, <2>2 DEF ShapeInv, GenInv, GenStates
    <3>3. (Len(gl) = Depth(frames) + 1 /\ Covers(gl, sl))'
      BY <1>1, <1>3, <2>2, <3>1 DEF Depth, Covers
    <3>4. (ChainOf(gl, seen))'
      BY <1>3 DEF ChainOf
    <3> QED
      BY <3>2, <3>3, <3>4 DEF GenInv
  <2> QED
    BY <2>1, <2>2
<1>7. RefInv'
  BY <1>3 DEF RefInv, RefsIn
<1> QED
  BY <1>4, <1>5, <1>6, <1>7 DEF ShapeInv

-----------------------------------------------------------------------------
(* Statements with blocks *)

LEMMA WithParamIs ==
    ASSUME NEW S, NEW ls, ChainOf(ls, S), NEW F, NEW p \in Let \union {None}
    PROVE  /\ Len(WithParam(ls, F, p)) = Len(ls) + 1
           /\ \A i \in 1 .. Len(ls) : WithParam(ls, F, p)[i] = ls[i]
           /\ \A n \in Name :
                WithParam(ls, F, p)[Len(ls) + 1].Vars[n] =
                    IF p # None /\ n = NameOf(p) /\ F[n] = NoDecl THEN p ELSE NoDecl
           /\ p # None => Refused(Push(ls), F, NameOf(p)) = (F[NameOf(p)] # NoDecl)
<1> DEFINE in == Push(ls)
           new == WithParam(ls, F, p)
<1>1. Len(ls) \in Nat /\ Len(ls) > 0
  BY DEF ChainOf
<1>2. /\ Len(in) = Len(ls) + 1 /\ in[Len(ls) + 1] = EmptyLayer
      /\ \A i \in 1 .. Len(ls) : in[i] = ls[i]
  BY PushIs
<1>3. CASE p = None
  <2>1. new = in
    BY <1>3 DEF WithParam
  <2> HIDE DEF new, in
  <2>2. \A n \in Name : new[Len(ls) + 1].Vars[n] = NoDecl
    BY <1>2, <2>1, EmptyLayerIs
  <2> QED
    BY <1>2, <1>3, <2>1, <2>2 DEF new
<1>4. CASE p # None
  <2>1. new = WithVar(in, F, p) /\ p \in Value /\ NameOf(p) \in Name
    BY <1>4, DeclAssumption DEF WithParam, Value
  <2>2. ChainOf(in, S)
    BY PushIs
  <2>3. Refused(in, F, NameOf(p)) = (F[NameOf(p)] # NoDecl)
    BY <1>2, <2>1, EmptyLayerIs DEF Refused
  <2> DEFINE n0 == NameOf(p)
  <2>4. /\ Len(new) = Len(in)
        /\ \A i \in 1 .. Len(in) - 1 : new[i] = in[i]
    BY <2>1, <2>2, WithVarIs
  <2>5. Refused(in, F, n0) => new = in
    BY <2>1, <2>2, WithVarIs
  <2>6. ~Refused(in, F, n0) =>
          /\ new[Len(in)].Vars[n0] = p
          /\ \A n \in Name : n # n0 => new[Len(in)].Vars[n] = in[Len(in)].Vars[n]
    BY <2>1, <2>2, WithVarIs
  <2>7. \A n \in Name : in[Len(in)].Vars[n] = NoDecl
    BY <1>2, EmptyLayerIs
  <2> HIDE DEF new, in, n0
  <2>8. ASSUME NEW n \in Name
        PROVE  new[Len(ls) + 1].Vars[n] = IF n = n0 /\ F[n] = NoDecl THEN p ELSE NoDecl
    <3>1. CASE F[n0] # NoDecl
      BY <1>2, <2>3, <2>5, <2>7, <3>1 DEF n0
    <3>2. CASE F[n0] = NoDecl
      BY <1>2, <2>3, <2>6, <2>7, <3>2 DEF n0
    <3> QED
      BY <3>1, <3>2
  <2>9. \A i \in 1 .. Len(ls) : new[i] = ls[i]
    BY <1>1, <1>2, <2>4
  <2> QED
    BY <1>2, <1>4, <2>3, <2>4, <2>8, <2>9 DEF new, in, n0
<1> QED
  BY <1>3, <1>4

LEMMA WithParamChain ==
    ASSUME NEW S, NEW T, S \subseteq T, NEW ls, ChainOf(ls, S), NEW F,
           NEW p \in Let \union {None}, p # None => p \in T
    PROVE  ChainOf(WithParam(ls, F, p), T)
<1>1. ChainOf(Push(ls), S)
  BY PushIs
<1>2. CASE p = None
  BY <1>1, <1>2, ChainGrows DEF WithParam
<1>3. CASE p # None
  <2>1. p \in Value
    BY <1>3 DEF Value
  <2>2. ChainOf(WithVar(Push(ls), F, p), S \union {p})
    BY <1>1, <2>1, WithVarChain
  <2>3. S \union {p} \subseteq T
    BY <1>3
  <2> QED
    BY <1>3, <2>2, <2>3, ChainGrows DEF WithParam
<1> QED
  BY <1>2, <1>3

(* The two scopes that a statement opens are within a loop if the one they *)
(* are in was, or if it is a loop.                                         *)
LEMMA PushScopeIs ==
    ASSUME NEW ss \in Seq(Scope), Len(ss) > 0, NEW flags \in SUBSET ScopeFlags
    PROVE  /\ PushScope(ss, flags) \in Seq(Scope)
           /\ Len(PushScope(ss, flags)) = Len(ss) + 1
           /\ \A i \in 1 .. Len(ss) : PushScope(ss, flags)[i] = ss[i]
           /\ Within("break", PushScope(ss, flags)[Len(ss) + 1]) =>
                "break" \in flags \/ Within("break", ss[Len(ss)])
<1> DEFINE parent == ss[Len(ss)]
           scope == [flags |-> flags,
                     fnParent |-> "fn" \in parent.flags \/ parent.fnParent,
                     breakParent |-> "break" \in parent.flags \/ parent.breakParent]
           new == PushScope(ss, flags)
<1>1. parent \in Scope /\ Len(ss) \in Nat
  OBVIOUS
<1>2. scope \in Scope
  BY <1>1 DEF Scope
<1>3. new = Append(ss, scope)
  BY DEF PushScope
<1>4. Within("break", scope) => "break" \in flags \/ Within("break", parent)
  BY DEF Within
<1> HIDE DEF scope, new, parent
<1>5. /\ new \in Seq(Scope) /\ Len(new) = Len(ss) + 1
      /\ \A i \in 1 .. Len(ss) : new[i] = ss[i]
      /\ new[Len(ss) + 1] = scope
  BY <1>1, <1>2, <1>3
<1> QED
  BY <1>4, <1>5 DEF new, parent

(* What every statement with a block does when it is opened *)
Opening(kind, void, p, flags) ==
    /\ Len(frames) < MaxFrames
    /\ OpenFrame(kind, void) /\ Declare(p)
    /\ SemaOpen(flags, WithParam(sl, sF, p))

LEMMA OpeningIs ==
    ASSUME ShapeInv, NEW kind, NEW void, NEW p \in Let \union {None}, NEW flags,
           [kind |-> kind, void |-> void] \in Frame, Opening(kind, void, p, flags)
    PROVE  /\ frames' \in Seq(Frame) /\ Len(frames') = Len(frames) + 1
           /\ \A i \in 1 .. Len(frames) : frames'[i] = frames[i]
           /\ frames'[Len(frames) + 1].kind = kind
           /\ Depth(frames') = IF Depth(frames) = Len(frames) /\ kind # "local-func"
                               THEN Len(frames) + 1 ELSE Depth(frames)
           /\ seen \subseteq seen' /\ seen' \subseteq Value /\ (p # None => p \in seen')
           /\ ChainOf(sl', seen') /\ Len(sl') = Len(sl) + 2
           /\ \A i \in 1 .. Len(sl) : sl'[i] = sl[i]
           /\ \A n \in Name :
                sl'[Len(sl) + 1].Vars[n] =
                    IF p # None /\ n = NameOf(p) /\ sF[n] = NoDecl THEN p ELSE NoDecl
           /\ \A n \in Name : sl'[Len(sl) + 2].Vars[n] = NoDecl
<1> DEFINE f == [kind |-> kind, void |-> void]
           in == WithParam(sl, sF, p)
<1>1. frames' = Append(frames, f) /\ f.kind = kind /\ frames \in Seq(Frame)
  BY ShapeFacts DEF Opening, OpenFrame
<1> HIDE DEF f
<1>2. /\ frames' \in Seq(Frame) /\ Len(frames') = Len(frames) + 1
      /\ \A i \in 1 .. Len(frames) : frames'[i] = frames[i]
      /\ frames'[Len(frames) + 1].kind = kind
      /\ Depth(frames') = IF Depth(frames) = Len(frames) /\ kind # "local-func"
                          THEN Len(frames) + 1 ELSE Depth(frames)
  BY <1>1, DepthPush DEF f
<1>3. seen \subseteq seen' /\ seen' \subseteq Value /\ (p # None => p \in seen')
  BY ShapeFacts DEF Opening, Declare, Value
<1>4. sl' = Push(in)
  BY DEF Opening, SemaOpen
<1>5. ChainOf(sl, seen) /\ Len(sl) \in Nat
  BY ShapeFacts
<1>6. ChainOf(in, seen')
  BY <1>3, <1>5, WithParamChain
<1>7. /\ Len(in) = Len(sl) + 1
      /\ \A i \in 1 .. Len(sl) : in[i] = sl[i]
      /\ \A n \in Name :
           in[Len(sl) + 1].Vars[n] =
               IF p # None /\ n = NameOf(p) /\ sF[n] = NoDecl THEN p ELSE NoDecl
  BY <1>5, WithParamIs
<1> HIDE DEF in
<1>8. ChainOf(sl', seen')
  BY <1>4, <1>6, PushIs
<1>9. /\ Len(sl') = Len(in) + 1 /\ sl'[Len(in) + 1] = EmptyLayer
      /\ \A i \in 1 .. Len(in) : sl'[i] = in[i]
  BY <1>4, <1>6, PushIs
<1>10. Len(sl') = Len(sl) + 2 /\ sl'[Len(sl) + 2] = EmptyLayer
  BY <1>5, <1>7, <1>9
<1>11. \A i \in 1 .. Len(sl) : sl'[i] = sl[i]
  BY <1>5, <1>7, <1>9
<1>12. sl'[Len(sl) + 1] = in[Len(sl) + 1]
  BY <1>5, <1>7, <1>9
<1>13. \A n \in Name : sl'[Len(sl) + 2].Vars[n] = NoDecl
  BY <1>10, EmptyLayerIs
<1> QED
  BY <1>2, <1>3, <1>7, <1>8, <1>10, <1>11, <1>12, <1>13

LEMMA OpeningBreakable ==
    ASSUME ShapeInv, NEW kind, NEW void, NEW p \in Let \union {None},
           NEW flags \in SUBSET ScopeFlags,
           [kind |-> kind, void |-> void] \in Frame, Opening(kind, void, p, flags),
           "break" \in flags => kind \in LoopFrame
    PROVE  /\ scopes' \in Seq(Scope) /\ Len(scopes') = Len(scopes) + 2
           /\ Breakable(scopes', frames')
<1> DEFINE own == PushScope(scopes, flags)
<1>1. /\ scopes \in Seq(Scope) /\ Len(scopes) = 2 * Len(frames) + 1 /\ Len(frames) \in Nat
      /\ Breakable(scopes, frames)
  BY ShapeFacts DEF ShapeInv, SemaInv
<1>2. scopes' = PushScope(own, {"block"}) /\ {"block"} \in SUBSET ScopeFlags
  BY DEF Opening, SemaOpen, ScopeFlags
<1>3. /\ own \in Seq(Scope) /\ Len(own) = Len(scopes) + 1
      /\ \A i \in 1 .. Len(scopes) : own[i] = scopes[i]
      /\ Within("break", own[Len(scopes) + 1]) =>
           "break" \in flags \/ Within("break", scopes[Len(scopes)])
  BY <1>1, PushScopeIs
<1> HIDE DEF own
<1>4. /\ scopes' \in Seq(Scope) /\ Len(scopes') = Len(own) + 1
      /\ \A i \in 1 .. Len(own) : scopes'[i] = own[i]
      /\ Within("break", scopes'[Len(own) + 1]) => Within("break", own[Len(own)])
  <2>1. Len(own) > 0
    BY <1>1, <1>3
  <2> QED
    BY <1>2, <1>3, <2>1, PushScopeIs
<1>5. /\ Len(frames') = Len(frames) + 1
      /\ \A i \in 1 .. Len(frames) : frames'[i] = frames[i]
      /\ frames'[Len(frames) + 1].kind = kind
  BY OpeningIs
<1>6. ASSUME NEW k \in 1 .. Len(scopes), Within("break", scopes[k])
      PROVE  \E j \in 1 .. Len(frames') : 2 * j <= k /\ frames'[j].kind \in LoopFrame
  <2>1. PICK j \in 1 .. Len(frames) : 2 * j <= k /\ frames[j].kind \in LoopFrame
    BY <1>1, <1>6 DEF Breakable
  <2>2. j \in 1 .. Len(frames') /\ frames'[j] = frames[j]
    BY <1>1, <1>5, <2>1
  <2> QED
    BY <2>1, <2>2
<1>7. ASSUME Within("break", own[Len(own)])
      PROVE  \E j \in 1 .. Len(frames') :
                2 * j <= Len(scopes) + 1 /\ frames'[j].kind \in LoopFrame
  <2>1. CASE "break" \in flags
    <3>1. /\ Len(frames) + 1 \in 1 .. Len(frames')
          /\ 2 * (Len(frames) + 1) <= Len(scopes) + 1
      BY <1>1, <1>5
    <3> QED
      BY <1>5, <2>1, <3>1
  <2>2. CASE Within("break", scopes[Len(scopes)])
    <3>1. Len(scopes) \in 1 .. Len(scopes)
      BY <1>1
    <3>2. PICK j \in 1 .. Len(frames') : 2 * j <= Len(scopes) /\ frames'[j].kind \in LoopFrame
      BY <1>6, <2>2, <3>1
    <3>3. 2 * j <= Len(scopes) + 1
      BY <1>1, <1>5, <3>2
    <3> QED
      BY <3>2, <3>3
  <2> QED
    BY <1>3, <1>7, <2>1, <2>2
<1>8. ASSUME NEW k \in 1 .. Len(scopes'), Within("break", scopes'[k])
      PROVE  \E j \in 1 .. Len(frames') : 2 * j <= k /\ frames'[j].kind \in LoopFrame
  <2>1. CASE k \in 1 .. Len(scopes)
    <3>1. scopes'[k] = scopes[k]
      BY <1>1, <1>3, <1>4, <2>1
    <3> QED
      BY <1>6, <1>8, <2>1, <3>1
  <2>2. CASE k \notin 1 .. Len(scopes)
    <3>1. k = Len(own) \/ k = Len(own) + 1
      BY <1>1, <1>3, <1>4, <2>2
    <3>2. Within("break", own[Len(own)])
      <4>1. Len(own) \in 1 .. Len(own)
        BY <1>1, <1>3
      <4> QED
        BY <1>4, <1>8, <3>1, <4>1
    <3>3. PICK j \in 1 .. Len(frames') :
            2 * j <= Len(scopes) + 1 /\ frames'[j].kind \in LoopFrame
      BY <1>7, <3>2
    <3>4. 2 * j <= k
      BY <1>1, <1>3, <1>5, <3>1, <3>3
    <3> QED
      BY <3>3, <3>4
  <2> QED
    BY <2>1, <2>2
<1>9. Len(scopes') = Len(scopes) + 2
  BY <1>1, <1>3, <1>4
<1> QED
  BY <1>4, <1>8, <1>9 DEF Breakable

LEMMA OpeningShape ==
    ASSUME ShapeInv, NEW kind, NEW void, NEW p \in Let \union {None},
           NEW flags \in SUBSET ScopeFlags,
           [kind |-> kind, void |-> void] \in Frame, Opening(kind, void, p, flags),
           "break" \in flags => kind \in LoopFrame,
           kind = "if" => p = None,
           UNCHANGED funcs, next' \in 0 .. Len(funcs) + 1,
           error' \in BOOLEAN, sema' \in SemaStates
    PROVE  AstInv' /\ SemaInv'
<1>1. /\ frames' \in Seq(Frame) /\ Len(frames') = Len(frames) + 1
      /\ \A i \in 1 .. Len(frames) : frames'[i] = frames[i]
      /\ frames'[Len(frames) + 1].kind = kind
      /\ seen \subseteq seen' /\ seen' \subseteq Value
      /\ ChainOf(sl', seen') /\ Len(sl') = Len(sl) + 2
      /\ \A i \in 1 .. Len(sl) : sl'[i] = sl[i]
      /\ \A n \in Name :
           sl'[Len(sl) + 1].Vars[n] =
               IF p # None /\ n = NameOf(p) /\ sF[n] = NoDecl THEN p ELSE NoDecl
  BY OpeningIs
<1>2. scopes' \in Seq(Scope) /\ Len(scopes') = Len(scopes) + 2 /\ Breakable(scopes', frames')
  BY OpeningBreakable
<1>3. AstInv'
  <2>1. Len(frames') <= MaxFrames
    BY <1>1, ShapeFacts, DeclAssumption DEF Opening
  <2> QED
    BY <1>1, <2>1 DEF ShapeInv, AstInv
<1>4. sF' = sF /\ literals' = literals
  BY DEF Opening, SemaOpen
<1>5. /\ Len(sl) = 2 * Len(frames) + 1 /\ Len(scopes) = Len(sl) /\ Len(frames) \in Nat
      /\ IfEmpty(frames, sl) /\ Named(sF) /\ sF \in [Name -> Func \union {NoDecl}]
      /\ literals \subseteq seen \intersect Let
  BY ShapeFacts DEF ShapeInv, SemaInv
<1>6. IfEmpty(frames', sl')
  <2> SUFFICES ASSUME NEW i \in 1 .. Len(frames'), NEW n \in Name, frames'[i].kind = "if"
               PROVE  sl'[2 * i].Vars[n] = NoDecl
    BY DEF IfEmpty
  <2>1. CASE i = Len(frames) + 1
    <3>1. p = None /\ 2 * i = Len(sl) + 1
      BY <1>1, <1>5, <2>1
    <3> QED
      BY <1>1, <3>1
  <2>2. CASE i # Len(frames) + 1
    <3>1. i \in 1 .. Len(frames) /\ 2 * i \in 1 .. Len(sl)
      BY <1>1, <1>5, <2>2
    <3> QED
      BY <1>1, <1>5, <3>1 DEF IfEmpty
  <2> QED
    BY <2>1, <2>2
<1>7. Len(sl') = 2 * Len(frames') + 1 /\ Len(scopes') = Len(sl')
  BY <1>1, <1>2, <1>5
<1>8. /\ (ChainOf(sl, seen))' <=> ChainOf(sl', seen')
      /\ (IfEmpty(frames, sl))' <=> IfEmpty(frames', sl')
      /\ (Breakable(scopes, frames))' <=> Breakable(scopes', frames')
      /\ (Named(sF))' <=> Named(sF)
  BY <1>4 DEF ChainOf, IfEmpty, Breakable, Within, Named
<1>9. literals' \subseteq seen' \intersect Let
  BY <1>1, <1>4, <1>5
<1>10. SemaInv'
  BY <1>1, <1>2, <1>4, <1>5, <1>6, <1>7, <1>8, <1>9 DEF SemaInv
<1> QED
  BY <1>3, <1>10

(* The code generator opens one layer with the same parameter. *)
LEMMA GenOpening ==
    ASSUME ShapeInv, NEW kind, NEW void, NEW p \in Let \union {None}, NEW flags,
           [kind |-> kind, void |-> void] \in Frame, Opening(kind, void, p, flags),
           Len(gl) = Len(frames) + 1, Covers(gl, sl),
           NEW in, in = WithParam(gl, gF, p)
    PROVE  /\ ChainOf(in, seen') /\ Len(in) = Len(frames) + 2 /\ Covers(in, sl')
           /\ PartOf(in, sl') /\ PartOf(gl, sl')
<1>1. /\ ChainOf(gl, seen) /\ Len(sl) = 2 * Len(frames) + 1 /\ Len(frames) \in Nat /\ gF = sF
  BY ShapeFacts
<1>2. /\ seen \subseteq seen' /\ (p # None => p \in seen')
      /\ Len(sl') = Len(sl) + 2
      /\ \A i \in 1 .. Len(sl) : sl'[i] = sl[i]
      /\ \A n \in Name :
           sl'[Len(sl) + 1].Vars[n] =
               IF p # None /\ n = NameOf(p) /\ sF[n] = NoDecl THEN p ELSE NoDecl
  BY OpeningIs
<1>3. ChainOf(in, seen')
  BY <1>1, <1>2, WithParamChain
<1>4. /\ Len(in) = Len(gl) + 1
      /\ \A i \in 1 .. Len(gl) : in[i] = gl[i]
      /\ \A n \in Name :
           in[Len(gl) + 1].Vars[n] =
               IF p # None /\ n = NameOf(p) /\ gF[n] = NoDecl THEN p ELSE NoDecl
  BY <1>1, WithParamIs
<1>5. Len(in) = Len(frames) + 2
  BY <1>1, <1>4
<1>6. ASSUME NEW i \in 1 .. Len(in), NEW n \in Name, in[i].Vars[n] # NoDecl
      PROVE  \E j \in 1 .. 2 * i - 1 : sl'[j].Vars[n] = in[i].Vars[n]
  <2>1. CASE i = Len(gl) + 1
    <3>1. in[i].Vars[n] = sl'[Len(sl) + 1].Vars[n]
      BY <1>1, <1>2, <1>4, <2>1
    <3>2. Len(sl) + 1 \in 1 .. 2 * i - 1
      BY <1>1, <2>1
    <3> QED
      BY <3>1, <3>2
  <2>2. CASE i # Len(gl) + 1
    <3>1. i \in 1 .. Len(gl) /\ in[i] = gl[i]
      BY <1>1, <1>4, <2>2
    <3>2. PICK j \in 1 .. 2 * i - 1 : sl[j].Vars[n] = gl[i].Vars[n]
      BY <1>6, <3>1 DEF Covers
    <3>3. j \in 1 .. Len(sl)
      BY <1>1, <3>1, <3>2
    <3> QED
      BY <1>2, <3>1, <3>2, <3>3
  <2> QED
    BY <2>1, <2>2
<1>7. ASSUME NEW i \in 1 .. Len(in)
      PROVE  \A j \in 1 .. 2 * i - 1 : j \in 1 .. Len(sl')
  BY <1>1, <1>2, <1>5
<1>8. \A i \in 1 .. Len(in), n \in Name :
        \/ in[i].Vars[n] = NoDecl
        \/ \E j \in 1 .. Len(sl') : sl'[j].Vars[n] = in[i].Vars[n]
  BY <1>6, <1>7
<1>9. \A i \in 1 .. Len(gl) : i \in 1 .. Len(in) /\ in[i] = gl[i]
  BY <1>1, <1>4
<1> QED
  BY <1>3, <1>5, <1>6, <1>8, <1>9 DEF Covers, PartOf

(* Every statement with a block but the local function, which the code   *)
(* generator does not enter                                              *)
LEMMA OpenedShape ==
    ASSUME ShapeInv, Visiting, error => error',
           NEW kind, NEW void, NEW p \in Let \union {None}, NEW flags \in SUBSET ScopeFlags,
           [kind |-> kind, void |-> void] \in Frame, kind # "local-func",
           Opening(kind, void, p, flags),
           "break" \in flags => kind \in LoopFrame,
           kind = "if" => p = None,
           UNCHANGED funcs, next' \in 0 .. Len(funcs) + 1,
           error' \in BOOLEAN, sema' \in SemaStates,
           gF' = gF,
           ~Generating => UNCHANGED <<gl, vals, loops, irgen>>,
           Generating => /\ gl' = WithParam(gl, gF, p)
                         /\ vals' \in {vals, vals \union ({p} \ {None})}
                         /\ loops' \in Seq(1 .. MaxFrames),
           irgen' \in GenStates,
           RefsIn(refs', sl'), stored' = NoDecl
    PROVE  ShapeInv'
<1>1. AstInv' /\ SemaInv'
  BY OpeningShape
<1>2. /\ Len(frames') = Len(frames) + 1
      /\ Depth(frames') = IF Depth(frames) = Len(frames) THEN Len(frames) + 1 ELSE Depth(frames)
      /\ seen \subseteq seen' /\ (p # None => p \in seen')
      /\ \A i \in 1 .. Len(sl) : sl'[i] = sl[i]
  BY OpeningIs
<1>3. sF' = sF
  BY DEF Opening, SemaOpen
<1>4. GenInv'
  <2>1. CASE ~Generating
    <3>1. \A j \in 1 .. Len(sl) - 2 : sl'[j] = sl[j]
      BY <1>2, ShapeFacts
    <3>2. Depth(frames) # Len(frames) => Depth(frames') = Depth(frames)
      BY <1>2
    <3> QED
      BY <1>2, <1>3, <2>1, <3>1, <3>2, IdleGen
  <2>2. CASE Generating
    <3>1. /\ Len(gl) = Len(frames) + 1 /\ Covers(gl, sl) /\ Depth(frames) = Len(frames)
          /\ Len(frames) \in Nat
      BY <2>2, ShapeFacts, GeneratingIs
    <3>2. ChainOf(gl', seen') /\ Len(gl') = Len(frames) + 2 /\ Covers(gl', sl')
      BY <2>2, <3>1, GenOpening
    <3>3. vals' \subseteq seen' /\ gF' = sF'
      <4>1. vals \subseteq seen /\ gF = sF
        BY DEF ShapeInv, GenInv
      <4> QED
        BY <1>2, <1>3, <2>2, <4>1
    <3>4. Len(gl') = Depth(frames') + 1
      BY <1>2, <3>1, <3>2
    <3>5. (Len(gl) = Depth(frames) + 1 /\ Covers(gl, sl))' <=>
              Len(gl') = Depth(frames') + 1 /\ Covers(gl', sl')
      BY DEF Depth, Covers
    <3>6. (ChainOf(gl, seen))' <=> ChainOf(gl', seen')
      BY DEF ChainOf
    <3> QED
      BY <2>2, <3>2, <3>3, <3>4, <3>5, <3>6 DEF GenInv
  <2> QED
    BY <2>1, <2>2
<1>5. RefInv'
  BY DEF RefInv, RefsIn
<1> QED
  BY <1>1, <1>4, <1>5 DEF ShapeInv

LEMMA OpenFuncShape ==
    ASSUME ShapeInv, NEW p \in Let \union {None}, NEW void \in BOOLEAN, OpenFunc(p, void)
    PROVE  ShapeInv'
<1>1. /\ Visiting /\ Opening("func", void, p, {"fn"}) /\ UNCHANGED <<funcs, sema>>
      /\ error' = (error \/ (p # None /\ Refused(Push(sl), sF, NameOf(p))))
      /\ next' = next + 1 /\ next <= Len(funcs)
      /\ Generate(GenFuncHeader(p))
  BY DEF OpenFunc, MayOpen, SemaFuncStmt, Opening
<1>2. error' \in BOOLEAN /\ (error => error') /\ sema' \in SemaStates
  BY <1>1 DEF SemaStates, Visiting
<1>3. next' \in 0 .. Len(funcs) + 1
  <2>1. next \in 0 .. Len(funcs) + 1 /\ Len(funcs) \in Nat
    BY DEF ShapeInv, AstInv, FuncLists
  <2> QED
    BY <1>1, <2>1
<1>4. [kind |-> "func", void |-> void] \in Frame /\ {"fn"} \in SUBSET ScopeFlags
  BY DEF Frame, ScopeFlags
<1>5. gF' = gF /\ refs' = {} /\ stored' = NoDecl /\ irgen' = irgen
  BY <1>1 DEF Generate, GenFuncHeader, Silent
<1>6. ~Generating => UNCHANGED <<gl, vals, loops, irgen>>
  BY <1>1 DEF Generate
<1>7. Generating => /\ gl' = WithParam(gl, gF, p)
                    /\ vals' \in {vals, vals \union ({p} \ {None})}
                    /\ loops' \in Seq(1 .. MaxFrames)
  BY <1>1 DEF Generate, GenFuncHeader
<1>8. RefsIn(refs', sl') /\ irgen' \in GenStates
  BY <1>5, NoRefs, ShapeFacts
<1> QED
  BY <1>1, <1>2, <1>3, <1>4, <1>5, <1>6, <1>7, <1>8, OpenedShape

LEMMA OpenLocalFuncShape ==
    ASSUME ShapeInv, NEW p \in Let \union {None}, NEW void \in BOOLEAN,
           OpenLocalFunc(p, void)
    PROVE  ShapeInv'
<1>1. /\ Visiting /\ Opening("local-func", void, p, {"fn"}) /\ UNCHANGED <<funcs, next, sema>>
      /\ error' = (error \/ (p # None /\ Refused(Push(sl), sF, NameOf(p))))
      /\ Generate(Silent /\ UNCHANGED <<gl, vals, loops>>)
  BY DEF OpenLocalFunc, MayOpen, SemaFuncStmt, Opening
<1>2. error' \in BOOLEAN /\ (error => error') /\ sema' = sema
  BY <1>1
<1>3. [kind |-> "local-func", void |-> void] \in Frame /\ {"fn"} \in SUBSET ScopeFlags
  BY DEF Frame, ScopeFlags
<1>4. /\ UNCHANGED <<gF, gl, vals, loops, irgen>>
      /\ refs' = {} /\ stored' = NoDecl
  BY <1>1 DEF Generate, Silent
<1>5. AstInv' /\ SemaInv'
  <2>1. next' \in 0 .. Len(funcs) + 1 /\ sema' \in SemaStates
    BY <1>1 DEF ShapeInv, AstInv, SemaInv
  <2> QED
    BY <1>1, <1>2, <1>3, <2>1, OpeningShape
<1>6. GenInv'
  <2>1. /\ Depth(frames') = Depth(frames)
        /\ seen \subseteq seen'
        /\ \A i \in 1 .. Len(sl) : sl'[i] = sl[i]
    BY <1>1, <1>3, OpeningIs
  <2>2. sF' = sF
    BY <1>1 DEF Opening, SemaOpen
  <2>3. ChainOf(gl, seen')
    BY <2>1, ShapeFacts, ChainGrows
  <2>4. ASSUME Accepted', irgen' = "ok"
        PROVE  Len(gl) = Depth(frames') + 1 /\ Covers(gl, sl')
    <3>1. Accepted /\ irgen = "ok"
      BY <1>2, <1>4, <2>4 DEF Accepted
    <3>2. Len(gl) = Depth(frames) + 1 /\ Covers(gl, sl)
      BY <3>1 DEF ShapeInv, GenInv
    <3>3. Len(sl) = 2 * Len(frames) + 1 /\ Depth(frames) \in 0 .. Len(frames) /\ Len(frames) \in Nat
      BY ShapeFacts, DepthGenerating
    <3>4. ASSUME NEW i \in 1 .. Len(gl), NEW n \in Name, gl[i].Vars[n] # NoDecl
          PROVE  \E j \in 1 .. 2 * i - 1 : sl'[j].Vars[n] = gl[i].Vars[n]
      <4>1. PICK j \in 1 .. 2 * i - 1 : sl[j].Vars[n] = gl[i].Vars[n]
        BY <3>2, <3>4 DEF Covers
      <4>2. j \in 1 .. Len(sl)
        BY <3>2, <3>3
      <4> QED
        BY <2>1, <4>1, <4>2
    <3> QED
      BY <2>1, <3>2, <3>4 DEF Covers
  <2>5. (Len(gl) = Depth(frames) + 1 /\ Covers(gl, sl))' <=>
            Len(gl) = Depth(frames') + 1 /\ Covers(gl, sl')
    BY <1>4 DEF Depth, Covers
  <2>6. (ChainOf(gl, seen))' <=> ChainOf(gl, seen')
    BY <1>4 DEF ChainOf
  <2>7. gF' = sF' /\ vals' \subseteq seen' /\ loops' \in Seq(1 .. MaxFrames) /\ irgen' \in GenStates
    BY <1>4, <2>1, <2>2 DEF ShapeInv, GenInv
  <2> QED
    BY <2>3, <2>4, <2>5, <2>6, <2>7 DEF GenInv
<1>7. RefInv'
  BY <1>4 DEF RefInv, RefsIn
<1> QED
  BY <1>5, <1>6, <1>7 DEF ShapeInv

LEMMA OpenIfShape == ASSUME ShapeInv, NEW m \in Mention, OpenIf(m) PROVE ShapeInv'
<1> DEFINE left == Left(sl, {m})
<1>1. /\ Visiting /\ Opening("if", FALSE, None, {"control"})
      /\ UNCHANGED <<funcs, next, sema>>
      /\ error' = (error \/ Undefined(sl, m))
      /\ Generate(GenIf(left))
  BY DEF OpenIf, MayOpenControl, MayOpen, Opening, Declare, WithParam
<1>2. error' \in BOOLEAN /\ (error => error') /\ sema' \in SemaStates
  BY <1>1 DEF SemaStates, Visiting
<1>3. next' \in 0 .. Len(funcs) + 1
  BY <1>1 DEF ShapeInv, AstInv
<1>4. [kind |-> "if", void |-> FALSE] \in Frame /\ {"control"} \in SUBSET ScopeFlags
  BY DEF Frame, ScopeFlags
<1>5. ~Generating => /\ UNCHANGED <<gF, gl, vals, loops, irgen>>
                     /\ refs' = {} /\ stored' = NoDecl
  BY <1>1 DEF Generate
<1>6. ASSUME Generating
      PROVE  /\ gF' = gF /\ gl' = WithParam(gl, gF, None) /\ UNCHANGED <<vals, loops>>
             /\ refs' \in {{}, Loaded(gl, left)} /\ stored' = NoDecl
             /\ irgen' \in {irgen, "no-address", "unexpected-node"}
  BY <1>1, <1>6 DEF Generate, GenIf, LoadInFunction, Load, WithParam
<1>7. ASSUME Generating
      PROVE  RefsIn(Loaded(gl, left), sl')
  <2>1. ~error' /\ Len(gl) = Len(frames) + 1 /\ Covers(gl, sl)
    BY <1>1, <1>2, <1>7, GeneratingIs
  <2>2. PartOf(gl, sl')
    BY <1>1, <1>4, <2>1, GenOpening
  <2>3. MentionsIn(left)
    BY <1>1, <2>1, ShapeFacts, LeftIs
  <2>4. Len(sl') \in Nat
    BY <1>1, <1>4, OpeningIs, ShapeFacts
  <2> HIDE DEF left
  <2> QED
    BY <2>2, <2>3, <2>4, LoadedIn, ShapeFacts
<1>8. RefsIn(refs', sl')
  BY <1>5, <1>6, <1>7, NoRefs
<1>9. loops \in Seq(1 .. MaxFrames) /\ irgen \in GenStates
  BY DEF ShapeInv, GenInv
<1>10. irgen' \in GenStates /\ gF' = gF /\ stored' = NoDecl
  BY <1>5, <1>6, <1>9 DEF GenStates
<1>11. Generating => /\ gl' = WithParam(gl, gF, None)
                     /\ vals' \in {vals, vals \union ({None} \ {None})}
                     /\ loops' \in Seq(1 .. MaxFrames)
  BY <1>6, <1>9
<1>12. ~Generating => UNCHANGED <<gl, vals, loops, irgen>>
  BY <1>5
<1> QED
  BY <1>1, <1>2, <1>3, <1>4, <1>8, <1>10, <1>11, <1>12, OpenedShape

(* A loop pushes itself on the LoopStack. *)
LEMMA LoopsGrow ==
    ASSUME ShapeInv, Len(frames) < MaxFrames
    PROVE  /\ loops \in Seq(1 .. MaxFrames)
           /\ Append(loops, Len(frames) + 1) \in Seq(1 .. MaxFrames)
<1>1. loops \in Seq(1 .. MaxFrames) /\ Len(frames) \in Nat /\ MaxFrames \in Nat
  BY ShapeFacts, DeclAssumption DEF ShapeInv, GenInv
<1>2. Len(frames) + 1 \in 1 .. MaxFrames
  BY <1>1
<1> HIDE DEF ShapeInv
<1> QED
  BY <1>1, <1>2

LEMMA OpenWhileShape == ASSUME ShapeInv, NEW m \in Mention, OpenWhile(m) PROVE ShapeInv'
<1> DEFINE left == Left(sl, {m})
           in == WithParam(gl, gF, None)
           flags == {"break", "control"}
<1>1. /\ Visiting /\ Opening("while", FALSE, None, flags)
      /\ UNCHANGED <<funcs, next, sema>>
      /\ error' = (error \/ Undefined(sl, m))
      /\ Generate(GenWhile(left))
      /\ Len(frames) < MaxFrames
  BY DEF OpenWhile, MayOpenControl, MayOpen, Opening, Declare, WithParam
<1>2. error' \in BOOLEAN /\ (error => error') /\ sema' \in SemaStates
  BY <1>1 DEF SemaStates, Visiting
<1>3. next' \in 0 .. Len(funcs) + 1
  BY <1>1 DEF ShapeInv, AstInv
<1>4. /\ [kind |-> "while", void |-> FALSE] \in Frame
      /\ flags \in SUBSET ScopeFlags /\ "while" \in LoopFrame
  BY DEF Frame, ScopeFlags, LoopFrame
<1> HIDE DEF flags
<1>5. ~Generating => /\ UNCHANGED <<gF, gl, vals, loops, irgen>>
                     /\ refs' = {} /\ stored' = NoDecl
  BY <1>1 DEF Generate
<1>6. ASSUME Generating
      PROVE  /\ gF' = gF /\ gl' = in /\ vals' = vals
             /\ loops' = Append(loops, Len(frames) + 1)
             /\ refs' \in {{}, Loaded(in, left)} /\ stored' = NoDecl
             /\ irgen' \in {irgen, "no-address", "unexpected-node"}
  BY <1>1, <1>6 DEF Generate, GenWhile, LoadInFunction, Load, WithParam
<1>7. ASSUME Generating
      PROVE  RefsIn(Loaded(in, left), sl')
  <2>1. ~error' /\ Len(gl) = Len(frames) + 1 /\ Covers(gl, sl)
    BY <1>1, <1>2, <1>7, GeneratingIs
  <2>2. ChainOf(in, seen') /\ PartOf(in, sl')
    <3>1. in = WithParam(gl, gF, None) /\ None \in Let \union {None}
      OBVIOUS
    <3> HIDE DEF in, left
    <3>2. Opening("while", FALSE, None, flags)
      BY <1>1
    <3>3. ChainOf(in, seen')
      BY <1>4, <2>1, <3>1, <3>2, GenOpening
    <3>4. PartOf(in, sl')
      BY <1>4, <2>1, <3>1, <3>2, GenOpening
    <3> QED
      BY <3>3, <3>4
  <2>3. MentionsIn(left)
    BY <1>1, <2>1, ShapeFacts, LeftIs
  <2>4. Len(sl') \in Nat /\ seen' \subseteq Value
    <3>1. Len(sl') = Len(sl) + 2 /\ seen' \subseteq Value
      BY <1>1, <1>4, OpeningIs
    <3>2. Len(sl) \in Nat
      BY ShapeFacts
    <3> QED
      BY <3>1, <3>2
  <2> HIDE DEF left, in
  <2> QED
    BY <2>2, <2>3, <2>4, LoadedIn
<1>8. RefsIn(refs', sl')
  BY <1>5, <1>6, <1>7, NoRefs
<1>9. irgen' \in GenStates /\ gF' = gF /\ stored' = NoDecl
  <2>1. irgen \in GenStates
    BY ShapeFacts
  <2> QED
    BY <1>5, <1>6, <2>1 DEF GenStates
<1>10. Generating => /\ gl' = in
                     /\ vals' \in {vals, vals \union ({None} \ {None})}
                     /\ loops' \in Seq(1 .. MaxFrames)
  BY <1>1, <1>6, LoopsGrow
<1>11. ~Generating => UNCHANGED <<gl, vals, loops, irgen>>
  BY <1>5
<1> QED
  BY <1>1, <1>2, <1>3, <1>4, <1>8, <1>9, <1>10, <1>11, OpenedShape

LEMMA OpenForShape ==
    ASSUME ShapeInv, NEW it \in Let, NEW start \in Mention, NEW end \in Mention,
           OpenFor(it, start, end)
    PROVE  ShapeInv'
<1> DEFINE ls == WithParam(sl, sF, it)
           left == Left(ls, {start, end})
           in == WithParam(gl, gF, it)
           flags == {"break", "control"}
<1>1. it # None /\ it \in Value
  BY DeclAssumption DEF Value
<1>2. WithParam(sl, sF, it) = WithVar(Push(sl), sF, it) /\ WithParam(gl, gF, it) = WithVar(Push(gl), gF, it)
  BY <1>1 DEF WithParam
<1>3. /\ Visiting /\ Opening("for", FALSE, it, flags)
      /\ UNCHANGED <<funcs, next>>
      /\ error' = (error \/ Refused(Push(sl), sF, NameOf(it))
                         \/ Undefined(ls, start) \/ Undefined(ls, end))
      /\ sema' \in {sema, "no-type"}
      /\ Generate(GenForStmt(it, left))
      /\ Len(frames) < MaxFrames
  BY <1>2 DEF OpenFor, MayOpenControl, MayOpen, Opening, SemaForStmt
<1>4. error' \in BOOLEAN /\ (error => error') /\ sema' \in SemaStates
  BY <1>3 DEF SemaStates, Visiting
<1>5. next' \in 0 .. Len(funcs) + 1
  BY <1>3 DEF ShapeInv, AstInv
<1>6. /\ [kind |-> "for", void |-> FALSE] \in Frame
      /\ flags \in SUBSET ScopeFlags /\ "for" \in LoopFrame
  BY DEF Frame, ScopeFlags, LoopFrame
<1> HIDE DEF flags
<1>7. ~Generating => /\ UNCHANGED <<gF, gl, vals, loops, irgen>>
                     /\ refs' = {} /\ stored' = NoDecl
  BY <1>3 DEF Generate
<1>8. ASSUME Generating
      PROVE  /\ gF' = gF /\ gl' = in /\ vals' = vals \union {it}
             /\ loops' = Append(loops, Len(frames) + 1)
             /\ refs' \in {{}, Loaded(Push(gl), left)} /\ stored' = NoDecl
             /\ irgen' \in {irgen, "no-address", "unexpected-node"}
  BY <1>2, <1>3, <1>8 DEF Generate, GenForStmt, LoadInFunction, Load
<1>9. ASSUME Generating
      PROVE  RefsIn(refs', sl')
  <2>1. ~error' /\ Len(gl) = Len(frames) + 1 /\ Covers(gl, sl)
    BY <1>3, <1>4, <1>9, GeneratingIs
  <2>2. PartOf(gl, sl')
    BY <1>3, <1>6, <2>1, GenOpening
  <2>3. /\ Len(sl') \in Nat /\ seen' \subseteq Value /\ seen \subseteq seen' /\ it \in seen'
    <3>1. /\ Len(sl') = Len(sl) + 2
          /\ seen \subseteq seen' /\ seen' \subseteq Value /\ it \in seen'
      BY <1>1, <1>3, <1>6, OpeningIs
    <3>2. Len(sl) \in Nat
      BY ShapeFacts
    <3> QED
      BY <3>1, <3>2
  <2>4. MentionsIn(left)
    <3>1. ChainOf(ls, seen')
      BY <2>3, ShapeFacts, WithParamChain
    <3>2. \A m \in {start, end} : ~Undefined(ls, m)
      BY <1>3, <2>1
    <3>3. Named(sF) /\ {start, end} \subseteq Mention
      BY ShapeFacts
    <3> HIDE DEF ls
    <3> QED
      BY <2>3, <3>1, <3>2, <3>3, LeftIs
  <2> DEFINE outer == Push(gl)
  <2>5. /\ ChainOf(outer, seen)
        /\ Len(outer) = Len(gl) + 1 /\ outer[Len(gl) + 1] = EmptyLayer
        /\ \A i \in 1 .. Len(gl) : outer[i] = gl[i]
    BY ShapeFacts, PushIs
  <2> HIDE DEF left, outer
  <2>6. ASSUME NEW i \in 1 .. Len(outer), NEW n \in Name, outer[i].Vars[n] # NoDecl
        PROVE  \E j \in 1 .. Len(sl') : sl'[j].Vars[n] = outer[i].Vars[n]
    <3>1. i # Len(gl) + 1
      BY <2>5, <2>6, EmptyLayerIs
    <3>2. i \in 1 .. Len(gl)
      BY <2>1, <2>5, <3>1, ShapeFacts
    <3> QED
      BY <2>2, <2>5, <2>6, <3>2 DEF PartOf
  <2>7. PartOf(outer, sl')
    BY <2>6 DEF PartOf
  <2>8. RefsIn(Loaded(outer, left), sl')
    BY <2>3, <2>4, <2>5, <2>7, LoadedIn, ShapeFacts
  <2> QED
    BY <1>8, <1>9, <2>8, NoRefs DEF outer
<1>10. RefsIn(refs', sl')
  BY <1>7, <1>9, NoRefs
<1>11. irgen' \in GenStates /\ gF' = gF /\ stored' = NoDecl
  <2>1. irgen \in GenStates
    BY ShapeFacts
  <2> QED
    BY <1>7, <1>8, <2>1 DEF GenStates
<1>12. Generating => /\ gl' = in
                     /\ vals' \in {vals, vals \union ({it} \ {None})}
                     /\ loops' \in Seq(1 .. MaxFrames)
  BY <1>1, <1>3, <1>8, LoopsGrow
<1>13. ~Generating => UNCHANGED <<gl, vals, loops, irgen>>
  BY <1>7
<1> QED
  BY <1>3, <1>4, <1>5, <1>6, <1>10, <1>11, <1>12, <1>13, OpenedShape

(* One block ends and another one begins. *)
LEMMA NextBlockIs ==
    ASSUME NEW S, NEW ls, ChainOf(ls, S), Len(ls) > 1
    PROVE  /\ ChainOf(NextBlock(ls), S)
           /\ Len(NextBlock(ls)) = Len(ls)
           /\ \A i \in 1 .. Len(ls) - 1 : NextBlock(ls)[i] = ls[i]
           /\ NextBlock(ls)[Len(ls)] = EmptyLayer
<1> DEFINE u == Pop(ls)
           new == NextBlock(ls)
<1>1. Len(ls) \in Nat
  BY DEF ChainOf
<1>2. ChainOf(u, S) /\ Len(u) = Len(ls) - 1 /\ \A i \in 1 .. Len(ls) - 1 : u[i] = ls[i]
  BY PopIs
<1>3. new = Push(u)
  BY DEF NextBlock
<1> HIDE DEF u, new
<1>4. ChainOf(new, S)
  BY <1>2, <1>3, PushIs
<1>5. /\ Len(new) = Len(u) + 1 /\ new[Len(u) + 1] = EmptyLayer
      /\ \A i \in 1 .. Len(u) : new[i] = u[i]
  BY <1>2, <1>3, PushIs
<1>6. Len(new) = Len(ls) /\ new[Len(ls)] = EmptyLayer /\ \A i \in 1 .. Len(ls) - 1 : new[i] = ls[i]
  BY <1>1, <1>2, <1>5
<1> QED
  BY <1>4, <1>6 DEF new

LEMMA ElseShape == ASSUME ShapeInv, VisitElse PROVE ShapeInv'
<1>1. /\ Visiting /\ frames # <<>> /\ frames[Len(frames)].kind = "if"
      /\ frames' = [frames EXCEPT ![Len(frames)].kind = "else"]
      /\ sl' = NextBlock(sl)
      /\ UNCHANGED <<funcs, next, seen, sF, scopes, literals, error, sema>>
      /\ Generate(Silent /\ gl' = NextBlock(gl) /\ UNCHANGED <<vals, loops>>)
  BY DEF VisitElse, TopFrame, ReplaceFrame
<1>2. /\ frames' \in Seq(Frame) /\ Len(frames') = Len(frames) /\ Len(frames) > 0
      /\ \A i \in 1 .. Len(frames) - 1 : frames'[i] = frames[i]
      /\ frames'[Len(frames)].kind = "else"
      /\ Depth(frames') = Depth(frames)
  BY <1>1, ShapeFacts, DepthElse
<1>3. Len(sl) = 2 * Len(frames) + 1 /\ Len(frames) \in Nat /\ Len(sl) > 1 /\ ChainOf(sl, seen)
  BY <1>2, ShapeFacts
<1>4. /\ ChainOf(sl', seen) /\ Len(sl') = Len(sl)
      /\ \A i \in 1 .. Len(sl) - 1 : sl'[i] = sl[i]
  BY <1>1, <1>3, NextBlockIs
<1>5. AstInv'
  BY <1>1, <1>2 DEF ShapeInv, AstInv
<1>6. SemaInv'
  <2>1. /\ scopes \in Seq(Scope) /\ Len(scopes) = Len(sl)
        /\ Breakable(scopes, frames) /\ IfEmpty(frames, sl) /\ Named(sF)
        /\ sF \in [Name -> Func \union {NoDecl}]
        /\ literals \subseteq seen \intersect Let
        /\ error \in BOOLEAN /\ sema \in SemaStates
    BY DEF ShapeInv, SemaInv
  <2>2. \A i \in 1 .. Len(frames) : frames[i].kind \in LoopFrame => frames'[i].kind \in LoopFrame
    <3> SUFFICES ASSUME NEW i \in 1 .. Len(frames), frames[i].kind \in LoopFrame
                 PROVE  frames'[i].kind \in LoopFrame
      OBVIOUS
    <3>1. i # Len(frames)
      BY <1>1 DEF LoopFrame
    <3>2. i \in 1 .. Len(frames) - 1
      BY <1>3, <3>1
    <3> QED
      BY <1>2, <3>2
  <2>3. Breakable(scopes, frames')
    BY <1>2, <2>1, <2>2 DEF Breakable
  <2>4. IfEmpty(frames', sl')
    <3> SUFFICES ASSUME NEW i \in 1 .. Len(frames'), NEW n \in Name, frames'[i].kind = "if"
                 PROVE  sl'[2 * i].Vars[n] = NoDecl
      BY DEF IfEmpty
    <3>1. i # Len(frames)
      BY <1>2
    <3>2. i \in 1 .. Len(frames) - 1 /\ i \in 1 .. Len(frames) /\ 2 * i \in 1 .. Len(sl) - 1
      BY <1>2, <1>3, <3>1
    <3>3. frames[i].kind = "if" /\ sl'[2 * i] = sl[2 * i]
      BY <1>2, <1>4, <3>2
    <3> QED
      BY <2>1, <3>2, <3>3 DEF IfEmpty
  <2>5. /\ (ChainOf(sl, seen))' <=> ChainOf(sl', seen)
        /\ (IfEmpty(frames, sl))' <=> IfEmpty(frames', sl')
        /\ (Breakable(scopes, frames))' <=> Breakable(scopes, frames')
        /\ (Named(sF))' <=> Named(sF)
    BY <1>1 DEF ChainOf, IfEmpty, Breakable, Within, Named
  <2>6. Len(sl') = 2 * Len(frames') + 1
    BY <1>2, <1>3, <1>4
  <2> QED
    BY <1>1, <1>4, <2>1, <2>3, <2>4, <2>5, <2>6 DEF SemaInv
<1>7. GenInv'
  <2>1. CASE ~Generating
    <3>1. \A j \in 1 .. Len(sl) - 2 : sl'[j] = sl[j]
      BY <1>3, <1>4
    <3>2. UNCHANGED <<gl, gF, vals, loops, irgen>>
      BY <1>1, <2>1 DEF Generate
    <3> QED
      BY <1>1, <1>2, <2>1, <3>1, <3>2, IdleGen
  <2>2. CASE Generating
    <3>1. /\ gl' = NextBlock(gl) /\ gF' = gF /\ vals' = vals /\ loops' = loops /\ irgen' = irgen
      BY <1>1, <2>2 DEF Generate, Silent
    <3>2. Len(gl) = Len(frames) + 1 /\ Covers(gl, sl) /\ Depth(frames) = Len(frames)
      BY <1>1, <2>2, GeneratingIs
    <3>3. /\ ChainOf(gl', seen) /\ Len(gl') = Len(gl)
          /\ \A i \in 1 .. Len(gl) - 1 : gl'[i] = gl[i]
          /\ gl'[Len(gl)] = EmptyLayer
      <4>1. ChainOf(gl, seen) /\ Len(gl) > 1
        BY <1>2, <1>3, <3>2, ShapeFacts
      <4> QED
        BY <3>1, <4>1, NextBlockIs
    <3>4. ASSUME NEW i \in 1 .. Len(gl'), NEW n \in Name, gl'[i].Vars[n] # NoDecl
          PROVE  \E j \in 1 .. 2 * i - 1 : sl'[j].Vars[n] = gl'[i].Vars[n]
      <4>1. i # Len(gl)
        BY <3>3, <3>4, EmptyLayerIs
      <4>2. i \in 1 .. Len(gl) - 1 /\ i \in 1 .. Len(gl) /\ gl'[i] = gl[i]
        BY <1>3, <3>2, <3>3, <4>1
      <4>3. PICK j \in 1 .. 2 * i - 1 : sl[j].Vars[n] = gl[i].Vars[n]
        BY <3>2, <3>4, <4>2 DEF Covers
      <4>4. j \in 1 .. Len(sl) - 1
        BY <1>3, <3>2, <4>2
      <4> QED
        BY <1>4, <4>2, <4>3, <4>4
    <3>5. Len(gl') = Depth(frames') + 1 /\ Covers(gl', sl')
      BY <1>2, <3>2, <3>3, <3>4 DEF Covers
    <3>6. /\ (Len(gl) = Depth(frames) + 1 /\ Covers(gl, sl))' <=>
               Len(gl') = Depth(frames') + 1 /\ Covers(gl', sl')
          /\ (ChainOf(gl, seen))' <=> ChainOf(gl', seen)
      BY <1>1 DEF Depth, Covers, ChainOf
    <3>7. /\ gF' = sF' /\ vals' \subseteq seen' /\ loops' \in Seq(1 .. MaxFrames)
          /\ irgen' \in GenStates
      BY <1>1, <3>1 DEF ShapeInv, GenInv
    <3> QED
      BY <3>3, <3>5, <3>6, <3>7 DEF GenInv
  <2> QED
    BY <2>1, <2>2
<1>8. RefInv'
  <2>1. refs' = {} /\ stored' = NoDecl
    BY <1>1 DEF Generate, Silent
  <2> QED
    BY <2>1 DEF RefInv, RefsIn
<1> QED
  BY <1>5, <1>6, <1>7, <1>8 DEF ShapeInv

(* What every statement with a block does when it is closed *)
Closing ==
    /\ Visiting /\ frames # <<>>
    /\ CloseFrame /\ SemaClose
    /\ UNCHANGED <<funcs, next, seen>>

LEMMA ClosingIs ==
    ASSUME ShapeInv, Closing
    PROVE  /\ frames' \in Seq(Frame) /\ Len(frames') = Len(frames) - 1 /\ Len(frames) > 0
           /\ \A i \in 1 .. Len(frames') : frames'[i] = frames[i]
           /\ Depth(frames') = IF Depth(frames) = Len(frames) THEN Len(frames) - 1
                               ELSE Depth(frames)
           /\ ChainOf(sl', seen) /\ Len(sl') = Len(sl) - 2
           /\ \A i \in 1 .. Len(sl) - 2 : sl'[i] = sl[i]
           /\ scopes' \in Seq(Scope) /\ Len(scopes') = Len(scopes) - 2
           /\ \A i \in 1 .. Len(scopes) - 2 : scopes'[i] = scopes[i]
<1>1. /\ frames # <<>> /\ frames' = SubSeq(frames, 1, Len(frames) - 1)
      /\ sl' = Pop(Pop(sl)) /\ scopes' = SubSeq(scopes, 1, Len(scopes) - 2)
  BY DEF Closing, CloseFrame, SemaClose
<1>2. /\ frames' \in Seq(Frame) /\ Len(frames') = Len(frames) - 1 /\ Len(frames) > 0
      /\ \A i \in 1 .. Len(frames') : frames'[i] = frames[i]
      /\ Depth(frames') = IF Depth(frames) = Len(frames) THEN Len(frames) - 1
                          ELSE Depth(frames)
  BY <1>1, ShapeFacts, DepthPop
<1>3. /\ Len(sl) = 2 * Len(frames) + 1 /\ Len(frames) \in Nat /\ Len(sl) > 2
      /\ ChainOf(sl, seen) /\ scopes \in Seq(Scope) /\ Len(scopes) = Len(sl)
  BY <1>2, ShapeFacts DEF ShapeInv, SemaInv
<1> DEFINE u == Pop(sl)
<1>4. ChainOf(u, seen) /\ Len(u) = Len(sl) - 1 /\ \A i \in 1 .. Len(sl) - 1 : u[i] = sl[i]
  <2>1. ChainOf(sl, seen) /\ Len(sl) > 1
    BY <1>3
  <2> QED
    BY <2>1, PopIs
<1>5. sl' = Pop(u)
  BY <1>1
<1> HIDE DEF u
<1>6. /\ ChainOf(sl', seen) /\ Len(sl') = Len(u) - 1
      /\ \A i \in 1 .. Len(u) - 1 : sl'[i] = u[i]
  <2>1. Len(u) > 1
    BY <1>3, <1>4
  <2> QED
    BY <1>4, <1>5, <2>1, PopIs
<1>7. Len(sl') = Len(sl) - 2 /\ \A i \in 1 .. Len(sl) - 2 : sl'[i] = sl[i]
  BY <1>3, <1>4, <1>6
<1>8. /\ scopes' \in Seq(Scope) /\ Len(scopes') = Len(scopes) - 2
      /\ \A i \in 1 .. Len(scopes) - 2 : scopes'[i] = scopes[i]
  <2>1. ASSUME NEW k \in Nat, k > 1, k <= Len(scopes), NEW v, v = SubSeq(scopes, 1, k - 2)
        PROVE  v \in Seq(Scope) /\ Len(v) = k - 2 /\ \A i \in 1 .. k - 2 : v[i] = scopes[i]
    BY <1>3, <2>1
  <2>2. Len(scopes) \in Nat /\ Len(scopes) > 1 /\ Len(scopes) <= Len(scopes)
    BY <1>3
  <2> HIDE DEF ShapeInv
  <2> QED
    BY <1>1, <2>1, <2>2
<1> QED
  BY <1>2, <1>6, <1>7, <1>8

LEMMA ClosingShape ==
    ASSUME ShapeInv, Closing,
           gF' = gF, vals' = vals,
           ~Generating => UNCHANGED <<gl, loops, irgen>>,
           Generating => gl' = Pop(gl) /\ irgen' = irgen /\ loops' \in Seq(1 .. MaxFrames),
           refs' = {}, stored' = NoDecl
    PROVE  ShapeInv'
<1>1. /\ Visiting /\ frames # <<>>
      /\ UNCHANGED <<funcs, next, seen, sF, literals, error, sema>>
  BY DEF Closing, SemaClose
<1>2. /\ frames' \in Seq(Frame) /\ Len(frames') = Len(frames) - 1 /\ Len(frames) > 0
      /\ \A i \in 1 .. Len(frames') : frames'[i] = frames[i]
      /\ Depth(frames') = IF Depth(frames) = Len(frames) THEN Len(frames) - 1
                          ELSE Depth(frames)
      /\ ChainOf(sl', seen) /\ Len(sl') = Len(sl) - 2
      /\ \A i \in 1 .. Len(sl) - 2 : sl'[i] = sl[i]
      /\ scopes' \in Seq(Scope) /\ Len(scopes') = Len(scopes) - 2
      /\ \A i \in 1 .. Len(scopes) - 2 : scopes'[i] = scopes[i]
  BY ClosingIs
<1>3. /\ Len(sl) = 2 * Len(frames) + 1 /\ Len(frames) \in Nat /\ Len(scopes) = Len(sl)
      /\ Breakable(scopes, frames) /\ IfEmpty(frames, sl)
  BY ShapeFacts DEF ShapeInv, SemaInv
<1>4. AstInv'
  <2>1. Len(frames) <= MaxFrames
    BY DEF ShapeInv, AstInv
  <2>2. Len(frames') <= MaxFrames
    BY <1>2, <1>3, <2>1, DeclAssumption
  <2> QED
    BY <1>1, <1>2, <2>2 DEF ShapeInv, AstInv
<1>5. SemaInv'
  <2>1. Breakable(scopes', frames')
    <3> SUFFICES ASSUME NEW k \in 1 .. Len(scopes'), Within("break", scopes'[k])
                 PROVE  \E j \in 1 .. Len(frames') : 2 * j <= k /\ frames'[j].kind \in LoopFrame
      BY DEF Breakable
    <3>1. k \in 1 .. Len(scopes) - 2 /\ k \in 1 .. Len(scopes)
      BY <1>2, <1>3
    <3>2. scopes'[k] = scopes[k]
      BY <1>2, <3>1
    <3>3. PICK j \in 1 .. Len(frames) : 2 * j <= k /\ frames[j].kind \in LoopFrame
      BY <1>3, <3>1, <3>2 DEF Breakable
    <3>4. j \in 1 .. Len(frames')
      BY <1>2, <1>3, <3>1, <3>3
    <3> QED
      BY <1>2, <3>3, <3>4
  <2>2. IfEmpty(frames', sl')
    <3> SUFFICES ASSUME NEW i \in 1 .. Len(frames'), NEW n \in Name, frames'[i].kind = "if"
                 PROVE  sl'[2 * i].Vars[n] = NoDecl
      BY DEF IfEmpty
    <3>1. i \in 1 .. Len(frames) /\ 2 * i \in 1 .. Len(sl) - 2
      BY <1>2, <1>3
    <3>2. frames[i].kind = "if" /\ sl'[2 * i] = sl[2 * i]
      BY <1>2, <3>1
    <3> QED
      BY <1>3, <3>1, <3>2 DEF IfEmpty
  <2>3. Len(sl') = 2 * Len(frames') + 1 /\ Len(scopes') = Len(sl')
    BY <1>2, <1>3
  <2>4. /\ (ChainOf(sl, seen))' <=> ChainOf(sl', seen)
        /\ (IfEmpty(frames, sl))' <=> IfEmpty(frames', sl')
        /\ (Breakable(scopes, frames))' <=> Breakable(scopes', frames')
        /\ (Named(sF))' <=> Named(sF)
    BY <1>1 DEF ChainOf, IfEmpty, Breakable, Within, Named
  <2>5. /\ Named(sF) /\ sF \in [Name -> Func \union {NoDecl}]
        /\ literals \subseteq seen \intersect Let
        /\ error \in BOOLEAN /\ sema \in SemaStates
    BY DEF ShapeInv, SemaInv
  <2> QED
    BY <1>1, <1>2, <2>1, <2>2, <2>3, <2>4, <2>5 DEF SemaInv
<1>6. GenInv'
  <2>1. CASE ~Generating
    <3>1. Depth(frames) # Len(frames) => Depth(frames') = Depth(frames)
      BY <1>2
    <3>2. UNCHANGED <<gl, gF, vals, loops, irgen, sF>>
      BY <1>1, <2>1
    <3> QED
      BY <1>1, <1>2, <2>1, <3>1, <3>2, IdleGen
  <2>2. CASE Generating
    <3>1. gl' = Pop(gl) /\ irgen' = irgen /\ loops' \in Seq(1 .. MaxFrames)
      BY <2>2
    <3>2. Len(gl) = Len(frames) + 1 /\ Covers(gl, sl) /\ Depth(frames) = Len(frames)
      BY <1>1, <2>2, GeneratingIs
    <3>3. /\ ChainOf(gl', seen) /\ Len(gl') = Len(gl) - 1
          /\ \A i \in 1 .. Len(gl) - 1 : gl'[i] = gl[i]
      <4>1. ChainOf(gl, seen) /\ Len(gl) > 1
        BY <1>2, <1>3, <3>2, ShapeFacts
      <4> QED
        BY <3>1, <4>1, PopIs
    <3>4. ASSUME NEW i \in 1 .. Len(gl'), NEW n \in Name, gl'[i].Vars[n] # NoDecl
          PROVE  \E j \in 1 .. 2 * i - 1 : sl'[j].Vars[n] = gl'[i].Vars[n]
      <4>1. i \in 1 .. Len(gl) - 1 /\ i \in 1 .. Len(gl)
        BY <1>3, <3>2, <3>3
      <4>2. gl'[i] = gl[i]
        BY <3>3, <4>1
      <4>3. PICK j \in 1 .. 2 * i - 1 : sl[j].Vars[n] = gl[i].Vars[n]
        BY <3>2, <3>4, <4>1, <4>2 DEF Covers
      <4>4. j \in 1 .. Len(sl) - 2
        BY <1>3, <3>2, <4>1
      <4> QED
        BY <1>2, <4>2, <4>3, <4>4
    <3>5. Len(gl') = Depth(frames') + 1
      BY <1>2, <1>3, <3>2, <3>3
    <3>6. Covers(gl', sl')
      BY <3>4 DEF Covers
    <3>7. /\ (Len(gl) = Depth(frames) + 1 /\ Covers(gl, sl))' <=>
               Len(gl') = Depth(frames') + 1 /\ Covers(gl', sl')
          /\ (ChainOf(gl, seen))' <=> ChainOf(gl', seen)
      BY <1>1 DEF Depth, Covers, ChainOf
    <3>8. /\ gF' = sF' /\ vals' \subseteq seen' /\ loops' \in Seq(1 .. MaxFrames)
          /\ irgen' \in GenStates
      BY <1>1, <3>1 DEF ShapeInv, GenInv
    <3> QED
      BY <3>3, <3>5, <3>6, <3>7, <3>8 DEF GenInv
  <2> QED
    BY <2>1, <2>2
<1>7. RefInv'
  BY DEF RefInv, RefsIn
<1> QED
  BY <1>4, <1>5, <1>6, <1>7 DEF ShapeInv

LEMMA CloseIfShape == ASSUME ShapeInv, CloseIf PROVE ShapeInv'
<1>1. Closing /\ Generate(GenCloseIf)
  BY DEF CloseIf, Closing
<1>2. /\ gF' = gF /\ vals' = vals /\ refs' = {} /\ stored' = NoDecl
      /\ ~Generating => UNCHANGED <<gl, loops, irgen>>
      /\ Generating => gl' = Pop(gl) /\ irgen' = irgen /\ loops' = loops
  BY <1>1 DEF Generate, GenCloseIf, Silent
<1>3. loops \in Seq(1 .. MaxFrames)
  BY DEF ShapeInv, GenInv
<1> QED
  BY <1>1, <1>2, <1>3, ClosingShape

LEMMA CloseFuncShape == ASSUME ShapeInv, CloseFunc PROVE ShapeInv'
<1>1. Closing /\ Generate(Silent /\ gl' = Pop(gl) /\ UNCHANGED <<vals, loops>>)
  BY DEF CloseFunc, Closing
<1>2. /\ gF' = gF /\ vals' = vals /\ refs' = {} /\ stored' = NoDecl
      /\ ~Generating => UNCHANGED <<gl, loops, irgen>>
      /\ Generating => gl' = Pop(gl) /\ irgen' = irgen /\ loops' = loops
  BY <1>1 DEF Generate, Silent
<1>3. loops \in Seq(1 .. MaxFrames)
  BY DEF ShapeInv, GenInv
<1> QED
  BY <1>1, <1>2, <1>3, ClosingShape

LEMMA PopAgain == ASSUME NEW S, NEW s \in Seq(S) PROVE Pop(s) \in Seq(S)
<1>1. CASE Len(s) = 0
  BY <1>1 DEF Pop
<1>2. CASE Len(s) # 0
  <2>1. Len(s) \in Nat
    OBVIOUS
  <2>2. Len(s) > 0
    BY <1>2, <2>1
  <2> QED
    BY <2>2, FrontIs DEF Pop
<1> QED
  BY <1>1, <1>2

LEMMA CloseLoopShape == ASSUME ShapeInv, CloseLoop PROVE ShapeInv'
<1>1. /\ Closing
      /\ Generate(Silent /\ gl' = Pop(gl) /\ loops' = Pop(loops) /\ UNCHANGED vals)
  BY DEF CloseLoop, Closing
<1>2. /\ gF' = gF /\ vals' = vals /\ refs' = {} /\ stored' = NoDecl
      /\ ~Generating => UNCHANGED <<gl, loops, irgen>>
      /\ Generating => gl' = Pop(gl) /\ irgen' = irgen /\ loops' = Pop(loops)
  BY <1>1 DEF Generate, Silent
<1>3. Pop(loops) \in Seq(1 .. MaxFrames)
  <2>1. loops \in Seq(1 .. MaxFrames)
    BY DEF ShapeInv, GenInv
  <2> QED
    BY <2>1, PopAgain
<1> QED
  BY <1>1, <1>2, <1>3, ClosingShape

-----------------------------------------------------------------------------
(* The functions of the module *)

LEMMA ForwardIs ==
    ASSUME funcs \in FuncLists
    PROVE  /\ Forward \in 0 .. Len(funcs) /\ Distinct(Forward)
           /\ Forward = Len(funcs) \/ ~Distinct(Forward + 1)
           /\ Distinct(Len(funcs)) => Forward = Len(funcs)
<1> DEFINE S == {k \in 0 .. Len(funcs) : Distinct(k)}
           P(k) == Distinct(k) /\ (k = Len(funcs) \/ ~Distinct(k + 1))
<1>1. Len(funcs) \in Nat
  BY DEF FuncLists
<1>2. S \subseteq 0 .. Len(funcs) /\ 0 \in S
  BY <1>1 DEF Distinct
<1>3. PICK m \in S : \A k \in S : k <= m
  BY <1>1, <1>2, GreatestExists
<1>4. m \in 0 .. Len(funcs) /\ Distinct(m)
  BY <1>3
<1>5. m = Len(funcs) \/ ~Distinct(m + 1)
  <2> SUFFICES ASSUME m # Len(funcs), Distinct(m + 1)
               PROVE  FALSE
    OBVIOUS
  <2>1. m + 1 \in S
    BY <1>1, <1>4
  <2>2. m + 1 <= m
    BY <1>3, <2>1
  <2> QED
    BY <1>4, <2>2
<1>6. Forward = CHOOSE k \in 0 .. Len(funcs) : P(k)
  BY DEF Forward
<1>7. Forward \in 0 .. Len(funcs) /\ P(Forward)
  BY <1>4, <1>5, <1>6
<1>8. ASSUME Distinct(Len(funcs)), Forward # Len(funcs)
      PROVE  FALSE
  <2>1. ~Distinct(Forward + 1) /\ Forward + 1 \in 0 .. Len(funcs)
    BY <1>1, <1>7, <1>8
  <2>2. Distinct(Forward + 1)
    BY <1>1, <1>8, <2>1 DEF Distinct
  <2> QED
    BY <2>1, <2>2
<1> QED
  BY <1>7, <1>8

LEMMA FuncTableIs ==
    ASSUME funcs \in FuncLists, NEW k \in 0 .. Len(funcs)
    PROVE  FuncTable(k) \in [Name -> Func \union {NoDecl}] /\ Named(FuncTable(k))
<1>1. \A i \in 1 .. Len(funcs) : funcs[i] \in Func
  BY DEF FuncLists
<1>2. Len(funcs) \in Nat
  BY DEF FuncLists
<1>3. ASSUME NEW n \in Name
      PROVE  /\ FuncTable(k)[n] \in Func \union {NoDecl}
             /\ FuncTable(k)[n] # NoDecl => NameOf(FuncTable(k)[n]) = n
  <2>1. CASE \E i \in 1 .. k : NameOf(funcs[i]) = n
    <3> DEFINE i == CHOOSE j \in 1 .. k : NameOf(funcs[j]) = n
    <3>1. i \in 1 .. k /\ NameOf(funcs[i]) = n
      BY <2>1
    <3>2. FuncTable(k)[n] = funcs[i]
      BY <2>1 DEF FuncTable
    <3> HIDE DEF i
    <3>3. i \in 1 .. Len(funcs)
      BY <1>2, <3>1
    <3> QED
      BY <1>1, <3>1, <3>2, <3>3
  <2>2. CASE ~\E i \in 1 .. k : NameOf(funcs[i]) = n
    BY <2>2 DEF FuncTable
  <2> QED
    BY <2>1, <2>2
<1>4. FuncTable(k) = [n \in Name |-> FuncTable(k)[n]]
  BY DEF FuncTable
<1>5. \A n \in Name : FuncTable(k)[n] \in Func \union {NoDecl}
  BY <1>3
<1>6. FuncTable(k) \in [Name -> Func \union {NoDecl}]
  BY <1>4, <1>5
<1> QED
  BY <1>3, <1>6 DEF Named

LEMMA DeclareFuncsShape == ASSUME ShapeInv, DeclareFuncs PROVE ShapeInv'
<1>1. /\ next' = 1 /\ sF' = FuncTable(Forward) /\ gF' = sF'
      /\ irgen' \in {irgen, "redefinition"}
      /\ UNCHANGED <<funcs, frames, seen, sl, scopes, literals, error, sema,
                     gl, vals, loops, refs, stored>>
  BY DEF DeclareFuncs
<1>2. funcs \in FuncLists /\ Len(funcs) \in Nat
  BY DEF ShapeInv, AstInv, FuncLists
<1>3. sF' \in [Name -> Func \union {NoDecl}] /\ Named(sF')
  BY <1>1, <1>2, ForwardIs, FuncTableIs
<1>4. AstInv'
  BY <1>1, <1>2 DEF ShapeInv, AstInv
<1>5. SemaInv'
  <2>1. /\ (ChainOf(sl, seen))' <=> ChainOf(sl, seen)
        /\ (IfEmpty(frames, sl))' <=> IfEmpty(frames, sl)
        /\ (Breakable(scopes, frames))' <=> Breakable(scopes, frames)
        /\ (Named(sF))' <=> Named(sF')
    BY <1>1 DEF ChainOf, IfEmpty, Breakable, Within, Named
  <2> QED
    BY <1>1, <1>3, <2>1 DEF ShapeInv, SemaInv
<1>6. GenInv'
  <2>1. /\ (Len(gl) = Depth(frames) + 1 /\ Covers(gl, sl))' <=>
             Len(gl) = Depth(frames) + 1 /\ Covers(gl, sl)
        /\ (ChainOf(gl, seen))' <=> ChainOf(gl, seen)
    BY <1>1 DEF Depth, Covers, ChainOf
  <2>2. irgen' \in GenStates /\ (irgen' = "ok" => irgen = "ok")
    BY <1>1, ShapeFacts DEF GenStates
  <2>3. Accepted' <=> Accepted
    BY <1>1 DEF Accepted
  <2>4. Accepted' /\ irgen' = "ok" => Len(gl) = Depth(frames) + 1 /\ Covers(gl, sl)
    BY <2>2, <2>3 DEF ShapeInv, GenInv
  <2>5. ChainOf(gl, seen) /\ vals' \subseteq seen' /\ loops' \in Seq(1 .. MaxFrames)
    BY <1>1 DEF ShapeInv, GenInv
  <2> QED
    BY <1>1, <2>1, <2>2, <2>4, <2>5 DEF GenInv
<1>7. RefInv'
  BY <1>1 DEF ShapeInv, RefInv, RefsIn
<1> QED
  BY <1>4, <1>5, <1>6, <1>7 DEF ShapeInv

-----------------------------------------------------------------------------

LEMMA InitialChain == ChainOf(<<EmptyLayer>>, {})
<1>1. <<EmptyLayer>> \in Seq(Layer) /\ Len(<<EmptyLayer>>) = 1 /\ <<EmptyLayer>>[1] = EmptyLayer
  BY EmptyLayerIs
<1> QED
  BY <1>1, EmptyLayerIs DEF ChainOf

LEMMA InitShape == Init => ShapeInv
<1> SUFFICES ASSUME Init
             PROVE  ShapeInv
  OBVIOUS
<1>1. /\ funcs \in FuncLists
      /\ next = 0 /\ frames = <<>> /\ seen = {}
      /\ sF = NoDecls /\ sl = <<EmptyLayer>>
      /\ scopes = <<[flags |-> {}, fnParent |-> FALSE, breakParent |-> FALSE]>>
      /\ literals = {} /\ error = FALSE /\ sema = "ok"
      /\ gF = NoDecls /\ gl = <<EmptyLayer>> /\ vals = {} /\ loops = <<>>
      /\ irgen = "ok" /\ refs = {} /\ stored = NoDecl
  BY DEF Init
<1>2. frames \in Seq(Frame) /\ Len(frames) = 0 /\ loops \in Seq(1 .. MaxFrames)
  BY <1>1
<1>3. AstInv
  <2>1. Len(funcs) \in Nat
    BY <1>1 DEF FuncLists
  <2> QED
    BY <1>1, <1>2, <2>1, DeclAssumption DEF AstInv
<1>4. sF \in [Name -> Func \union {NoDecl}] /\ Named(sF)
  BY <1>1 DEF NoDecls, Named
<1>5. ChainOf(sl, seen) /\ ChainOf(gl, seen) /\ Len(sl) = 1 /\ Len(gl) = 1
  BY <1>1, InitialChain
<1> DEFINE scope == [flags |-> {}, fnParent |-> FALSE, breakParent |-> FALSE]
<1>6. scope \in Scope /\ ~Within("break", scope)
  BY DEF Scope, Within
<1> HIDE DEF scope
<1>7. scopes \in Seq(Scope) /\ Len(scopes) = 1 /\ scopes[1] = scope
  BY <1>1, <1>6 DEF scope
<1>8. Breakable(scopes, frames)
  BY <1>2, <1>6, <1>7 DEF Breakable
<1>9. IfEmpty(frames, sl)
  BY <1>2 DEF IfEmpty
<1>10. SemaInv
  <2>1. Len(sl) = 2 * Len(frames) + 1 /\ Len(scopes) = Len(sl)
    BY <1>2, <1>5, <1>7
  <2>2. /\ literals \subseteq seen \intersect Let
        /\ error \in BOOLEAN /\ sema \in SemaStates
    BY <1>1 DEF SemaStates
  <2> QED
    BY <1>4, <1>5, <1>7, <1>8, <1>9, <2>1, <2>2 DEF SemaInv
<1>11. Depth(frames) = 0
  <2>1. Depth(frames) \in 0 .. Len(frames)
    BY <1>2, DepthGenerating
  <2> QED
    BY <1>2, <2>1
<1>12. Covers(gl, sl)
  <2> SUFFICES ASSUME NEW i \in 1 .. Len(gl), NEW n \in Name
               PROVE  gl[i].Vars[n] = NoDecl
    BY DEF Covers
  <2>1. i = 1 /\ gl[1] = EmptyLayer
    BY <1>1, <1>5
  <2> QED
    BY <2>1, EmptyLayerIs
<1>13. GenInv
  BY <1>1, <1>2, <1>5, <1>11, <1>12 DEF GenInv, GenStates
<1>14. RefInv
  BY <1>1 DEF RefInv, RefsIn
<1> QED
  BY <1>3, <1>10, <1>13, <1>14 DEF ShapeInv

LEMMA StutterShape == ASSUME ShapeInv, UNCHANGED vars PROVE ShapeInv'
<1>1. /\ UNCHANGED <<astVars, sF, sl, scopes, literals, gF, gl, vals, loops>>
      /\ UNCHANGED <<error, sema, irgen, refs, stored, funcs, next, frames, seen>>
  BY DEF vars, astVars, semaVars, genVars
<1>2. AstInv'
  BY <1>1 DEF ShapeInv, AstInv
<1>3. SemaInv'
  BY <1>1 DEF ShapeInv, SemaInv, ChainOf, Breakable, Within, IfEmpty, Named
<1>4. GenInv'
  BY <1>1 DEF ShapeInv, GenInv, ChainOf, Depth, Covers, Accepted
<1>5. RefInv'
  BY <1>1 DEF ShapeInv, RefInv, RefsIn
<1> QED
  BY <1>2, <1>3, <1>4, <1>5 DEF ShapeInv

LEMMA NextShape == ASSUME ShapeInv, [Next]_vars PROVE ShapeInv'
<1>1. CASE DeclareFuncs
  BY <1>1, DeclareFuncsShape
<1>2. CASE \E d \in Value, init \in Mention \union {None} : VisitVarDecl(d, init)
  BY <1>2, VarDeclShape
<1>3. CASE \E n \in Name : VisitUse(n) \/ VisitCall(n)
  BY <1>3, UseShape, CallShape
<1>4. CASE \E n \in Name, m \in Mention : VisitAssign(n, m)
  BY <1>4, AssignShape
<1>5. CASE VisitBreak
  BY <1>5, BreakShape
<1>6. CASE VisitReturnAtTop
  BY <1>6, ReturnAtTopShape
<1>7. CASE \E m \in Mention \union {None} : VisitReturn(m)
  BY <1>7, ReturnShape
<1>8. CASE \E p \in Let \union {None}, void \in BOOLEAN :
              OpenFunc(p, void) \/ OpenLocalFunc(p, void)
  BY <1>8, OpenFuncShape, OpenLocalFuncShape
<1>9. CASE \E m \in Mention : OpenIf(m) \/ OpenWhile(m)
  BY <1>9, OpenIfShape, OpenWhileShape
<1>10. CASE \E it \in Let, start, end \in Mention : OpenFor(it, start, end)
  BY <1>10, OpenForShape
<1>11. CASE VisitElse
  BY <1>11, ElseShape
<1>12. CASE CloseIf
  BY <1>12, CloseIfShape
<1>13. CASE CloseLoop
  BY <1>13, CloseLoopShape
<1>14. CASE CloseFunc
  BY <1>14, CloseFuncShape
<1>15. CASE UNCHANGED vars
  BY <1>15, StutterShape
<1> QED
  BY <1>1, <1>2, <1>3, <1>4, <1>5, <1>6, <1>7, <1>8, <1>9, <1>10, <1>11, <1>12,
     <1>13, <1>14, <1>15 DEF Next

(* The walk of the code generator has the shape of that of the type checker, *)
(* whatever the module.                                                      *)
LEMMA ShapeInvariant == Spec => []ShapeInv
<1> QED
  BY InitShape, NextShape, PTL DEF Spec

(* Whatever declaration the code generator uses for a name, in whatever      *)
(* module and with whatever oddities, is a declaration of that name that is  *)
(* in scope where the name is mentioned (NameLookup.cpp, IRGenModule.cpp).   *)
THEOREM UsesAreInScope == Spec => []InScope
<1>1. ShapeInv => InScope
  BY DEF ShapeInv, RefInv, RefsIn, InScope
<1> QED
  BY <1>1, ShapeInvariant, PTL

-----------------------------------------------------------------------------
(* Modules that the code is prepared for: what both passes find *)

(* For n, the chain h is the chain g with layers that do not mention it. *)
SameFor(g, h, n) ==
    /\ Len(g) <= Len(h)
    /\ \A i \in 1 .. Len(g) : h[i].Vars[n] = g[i].Vars[n]
    /\ \A i \in 1 .. Len(h) : i > Len(g) => h[i].Vars[n] = NoDecl

LEMMA SameLookup ==
    ASSUME NEW S, NEW g, ChainOf(g, S), NEW T, NEW h, ChainOf(h, T), NEW n \in Name,
           SameFor(g, h, n)
    PROVE  ImplGet(h, Len(h), n) = ImplGet(g, Len(g), n)
<1>1. /\ ImplGet(g, Len(g), n) = Nearest(g, "Vars", Len(g), n)
      /\ ImplGet(h, Len(h), n) = Nearest(h, "Vars", Len(h), n)
  BY GetIs
<1>2. Len(g) \in Nat /\ Len(h) \in Nat /\ Len(g) <= Len(h)
  BY DEF ChainOf, SameFor
<1>3. \A i \in 1 .. Len(g) : h[i].Vars[n] = g[i].Vars[n]
  BY DEF SameFor
<1>4. \A i \in 1 .. Len(h) : i > Len(g) => h[i].Vars[n] = NoDecl
  BY DEF SameFor
<1>5. CASE \A k \in 1 .. Len(g) : g[k].Vars[n] = NoDecl
  <2>1. Nearest(g, "Vars", Len(g), n) = NoDecl
    BY <1>2, <1>5, NearestNone
  <2>2. \A k \in 1 .. Len(h) : h[k].Vars[n] = NoDecl
    <3> SUFFICES ASSUME NEW k \in 1 .. Len(h)
                 PROVE  h[k].Vars[n] = NoDecl
      OBVIOUS
    <3>1. k > Len(g) \/ k \in 1 .. Len(g)
      BY <1>2
    <3> QED
      BY <1>3, <1>4, <1>5, <3>1
  <2>3. Nearest(h, "Vars", Len(h), n) = NoDecl
    BY <1>2, <2>2, NearestNone
  <2> QED
    BY <1>1, <2>1, <2>3
<1>6. CASE \E j \in 1 .. Len(g) :
             /\ g[j].Vars[n] # NoDecl
             /\ \A k \in 1 .. Len(g) : k > j => g[k].Vars[n] = NoDecl
  <2>1. PICK j \in 1 .. Len(g) :
          /\ g[j].Vars[n] # NoDecl
          /\ \A k \in 1 .. Len(g) : k > j => g[k].Vars[n] = NoDecl
    BY <1>6
  <2>2. Nearest(g, "Vars", Len(g), n) = g[j].Vars[n]
    BY <1>2, <2>1, NearestAt
  <2>3. j \in 1 .. Len(h) /\ h[j].Vars[n] = g[j].Vars[n]
    BY <1>2, <1>3
  <2>4. \A k \in 1 .. Len(h) : k > j => h[k].Vars[n] = NoDecl
    <3> SUFFICES ASSUME NEW k \in 1 .. Len(h), k > j
                 PROVE  h[k].Vars[n] = NoDecl
      OBVIOUS
    <3>1. k > Len(g) \/ k \in 1 .. Len(g)
      BY <1>2
    <3> QED
      BY <1>3, <1>4, <2>1, <3>1
  <2>5. Nearest(h, "Vars", Len(h), n) = h[j].Vars[n]
    BY <1>2, <2>1, <2>3, <2>4, NearestAt
  <2> QED
    BY <1>1, <2>2, <2>3, <2>5
<1> QED
  BY <1>2, <1>5, <1>6, EntryOrNone

(* What the two layers that the type checker has for the i-th open statement *)
(* say of n                                                                  *)
Merged(s, i, n) ==
    IF s[2 * i + 1].Vars[n] # NoDecl THEN s[2 * i + 1].Vars[n] ELSE s[2 * i].Vars[n]

(* LayersMatch, of any two chains *)
Matches(g, s, d) ==
    /\ g[1] = s[1]
    /\ \A i \in 1 .. d, n \in Name : g[i + 1].Vars[n] = Merged(s, i, n)

(* d statements are open in both. *)
Aligned(g, s, d) == d \in Nat /\ Len(g) = d + 1 /\ Len(s) = 2 * d + 1

(* Chains that match give the same meaning to every name. *)
LEMMA MatchLookup ==
    ASSUME NEW S, NEW g, ChainOf(g, S), NEW s, ChainOf(s, S), NEW d,
           Aligned(g, s, d), Matches(g, s, d), NEW n \in Name
    PROVE  ImplGet(g, Len(g), n) = ImplGet(s, Len(s), n)
<1>1. /\ ImplGet(g, Len(g), n) = Nearest(g, "Vars", Len(g), n)
      /\ ImplGet(s, Len(s), n) = Nearest(s, "Vars", Len(s), n)
  BY GetIs
<1>2. d \in Nat /\ Len(g) = d + 1 /\ Len(s) = 2 * d + 1 /\ Len(g) \in Nat /\ Len(s) \in Nat
  BY DEF Aligned, ChainOf
<1>3. g[1] = s[1] /\ \A i \in 1 .. d : g[i + 1].Vars[n] = Merged(s, i, n)
  BY DEF Matches
<1>4. CASE \A k \in 1 .. Len(s) : s[k].Vars[n] = NoDecl
  <2>1. Nearest(s, "Vars", Len(s), n) = NoDecl
    <3>1. Len(s) \in Nat
      BY <1>2
    <3> QED
      BY <1>4, <3>1, NearestNone
  <2>2. \A k \in 1 .. Len(g) : g[k].Vars[n] = NoDecl
    <3> SUFFICES ASSUME NEW k \in 1 .. Len(g)
                 PROVE  g[k].Vars[n] = NoDecl
      OBVIOUS
    <3>1. CASE k = 1
      <4>1. 1 \in 1 .. Len(s)
        BY <1>2
      <4> QED
        BY <1>3, <1>4, <3>1, <4>1
    <3>2. CASE k # 1
      <4>1. PICK i \in 1 .. d : k = i + 1
        <5>1. k - 1 \in 1 .. d /\ k = (k - 1) + 1
          BY <1>2, <3>2
        <5> QED
          BY <5>1
      <4>2. 2 * i + 1 \in 1 .. Len(s) /\ 2 * i \in 1 .. Len(s)
        BY <1>2
      <4> QED
        BY <1>3, <1>4, <4>1, <4>2 DEF Merged
    <3> QED
      BY <3>1, <3>2
  <2>3. Nearest(g, "Vars", Len(g), n) = NoDecl
    BY <1>2, <2>2, NearestNone
  <2> QED
    BY <1>1, <2>1, <2>3
<1>5. CASE \E j \in 1 .. Len(s) :
             /\ s[j].Vars[n] # NoDecl
             /\ \A k \in 1 .. Len(s) : k > j => s[k].Vars[n] = NoDecl
  <2>1. PICK j \in 1 .. Len(s) :
          /\ s[j].Vars[n] # NoDecl
          /\ \A k \in 1 .. Len(s) : k > j => s[k].Vars[n] = NoDecl
    BY <1>5
  <2>2. Nearest(s, "Vars", Len(s), n) = s[j].Vars[n]
    BY <1>2, <2>1, NearestAt
  <2>3. PICK i \in 0 .. d : j = 2 * i \/ j = 2 * i + 1
    <3>1. /\ j \div 2 \in 0 .. d
          /\ j = 2 * (j \div 2) \/ j = 2 * (j \div 2) + 1
      BY <1>2
    <3> QED
      BY <3>1
  <2>4. g[i + 1].Vars[n] = s[j].Vars[n]
    <3>1. CASE i = 0
      <4>1. j = 1
        BY <2>3, <3>1
      <4> QED
        BY <1>3, <3>1, <4>1
    <3>2. CASE i # 0
      <4>1. i \in 1 .. d /\ 2 * i + 1 \in 1 .. Len(s)
        BY <1>2, <3>2
      <4>2. CASE j = 2 * i
        <5>1. s[2 * i + 1].Vars[n] = NoDecl
          BY <2>1, <4>1, <4>2
        <5> QED
          BY <1>3, <4>1, <4>2, <5>1 DEF Merged
      <4>3. CASE j = 2 * i + 1
        BY <1>3, <2>1, <4>1, <4>3 DEF Merged
      <4> QED
        BY <2>3, <4>2, <4>3
    <3> QED
      BY <3>1, <3>2
  <2>5. ASSUME NEW k \in 1 .. Len(g), k > i + 1
        PROVE  g[k].Vars[n] = NoDecl
    <3>1. PICK m \in 1 .. d : k = m + 1 /\ m > i
      <4>1. k - 1 \in 1 .. d /\ k = (k - 1) + 1 /\ k - 1 > i
        BY <1>2, <2>5
      <4> QED
        BY <4>1
    <3>2. /\ 2 * m + 1 \in 1 .. Len(s) /\ 2 * m \in 1 .. Len(s)
          /\ 2 * m + 1 > j /\ 2 * m > j
      BY <1>2, <2>3, <3>1
    <3>3. s[2 * m + 1].Vars[n] = NoDecl /\ s[2 * m].Vars[n] = NoDecl
      BY <2>1, <3>2
    <3> QED
      BY <1>3, <3>1, <3>3 DEF Merged
  <2>6. i + 1 \in 1 .. Len(g) /\ Len(g) \in Nat
    BY <1>2
  <2> DEFINE k == i + 1
  <2>7. Nearest(g, "Vars", Len(g), n) = g[k].Vars[n]
    <3>1. k \in 1 .. Len(g) /\ g[k].Vars[n] # NoDecl
      BY <2>1, <2>4, <2>6
    <3>2. \A m \in 1 .. Len(g) : m > k => g[m].Vars[n] = NoDecl
      BY <2>5
    <3> HIDE DEF k
    <3> QED
      BY <2>6, <3>1, <3>2, NearestAt
  <2> QED
    BY <1>1, <2>2, <2>4, <2>7
<1> QED
  BY <1>2, <1>4, <1>5, EntryOrNone

(* LoopStack holds the loops among the first d open statements, in order. *)
LoopsAre(ls, fs, d) ==
    /\ \A i \in 1 .. Len(ls) : ls[i] \in 1 .. d /\ fs[ls[i]].kind \in LoopFrame
    /\ \A i, j \in 1 .. Len(ls) : i < j => ls[i] < ls[j]
    /\ \A k \in 1 .. d : fs[k].kind \in LoopFrame => \E i \in 1 .. Len(ls) : ls[i] = k

(* Every declaration in the chain g has its storage. *)
Stored(g) == \A i \in 1 .. Len(g), n \in Name : g[i].Vars[n] # NoDecl => g[i].Vars[n] \in vals

(* The inductive invariant of LayersMatch, Agree, NoCrash and ConstantsKept *)
(* for the modules without the oddities                                     *)
MatchInv ==
    /\ Distinct(Len(funcs))
    /\ sema = "ok" /\ Agree /\ stored \notin Let
    /\ ~error => /\ irgen = "ok"
                 /\ Matches(gl, sl, Depth(frames))
                 /\ Stored(gl)
                 /\ LoopsAre(loops, frames, Depth(frames))

-----------------------------------------------------------------------------
(* Uses of values *)

LEMMA SameSelf == ASSUME NEW S, NEW g, ChainOf(g, S), NEW n \in Name PROVE SameFor(g, g, n)
BY DEF ChainOf, SameFor

LEMMA SameWithParam ==
    ASSUME NEW S, NEW ls, ChainOf(ls, S), NEW F, NEW p \in Let \union {None}, NEW n \in Name,
           p # None => n # NameOf(p)
    PROVE  SameFor(ls, WithParam(ls, F, p), n)
<1> DEFINE h == WithParam(ls, F, p)
<1>1. Len(ls) \in Nat
  BY DEF ChainOf
<1>2. /\ Len(h) = Len(ls) + 1
      /\ \A i \in 1 .. Len(ls) : h[i] = ls[i]
      /\ h[Len(ls) + 1].Vars[n] = NoDecl
  <2>1. /\ Len(h) = Len(ls) + 1
        /\ \A i \in 1 .. Len(ls) : h[i] = ls[i]
    BY WithParamIs
  <2>2. h[Len(ls) + 1].Vars[n] =
            IF p # None /\ n = NameOf(p) /\ F[n] = NoDecl THEN p ELSE NoDecl
    BY WithParamIs
  <2> HIDE DEF h
  <2> QED
    BY <2>1, <2>2
<1> HIDE DEF h
<1>3. \A i \in 1 .. Len(h) : i > Len(ls) => i = Len(ls) + 1
  BY <1>1, <1>2
<1>4. Len(ls) <= Len(h)
  BY <1>1, <1>2
<1> QED
  BY <1>2, <1>3, <1>4 DEF SameFor, h

LEMMA SameWithVar ==
    ASSUME NEW S, NEW ls, ChainOf(ls, S), NEW F, NEW d \in Value, NEW n \in Name,
           n # NameOf(d)
    PROVE  SameFor(ls, WithVar(ls, F, d), n)
<1> DEFINE h == WithVar(ls, F, d)
<1>1. Len(ls) \in Nat
  BY DEF ChainOf
<1>2. Len(h) = Len(ls) /\ \A i \in 1 .. Len(ls) - 1 : h[i] = ls[i]
  BY WithVarIs
<1>3. h[Len(ls)].Vars[n] = ls[Len(ls)].Vars[n]
  <2>1. Refused(ls, F, NameOf(d)) => h = ls
    BY WithVarIs
  <2>2. ~Refused(ls, F, NameOf(d)) => h[Len(ls)].Vars[n] = ls[Len(ls)].Vars[n]
    BY WithVarIs
  <2> HIDE DEF h
  <2> QED
    BY <2>1, <2>2
<1> HIDE DEF h
<1>4. ASSUME NEW i \in 1 .. Len(ls)
      PROVE  h[i].Vars[n] = ls[i].Vars[n]
  <2>1. i = Len(ls) \/ i \in 1 .. Len(ls) - 1
    BY <1>1
  <2> QED
    BY <1>2, <1>3, <2>1
<1>5. Len(ls) <= Len(h) /\ \A i \in 1 .. Len(h) : ~(i > Len(ls))
  BY <1>1, <1>2
<1> QED
  BY <1>4, <1>5 DEF SameFor, h

(* Both passes are in the same statements, and no error was found. *)
InStep == ~error /\ Depth(frames) = Len(frames) /\ Len(gl) = Len(frames) + 1

LEMMA InStepIs ==
    ASSUME ShapeInv, MatchInv, Visiting, error => error', Generating
    PROVE  /\ InStep /\ Aligned(gl, sl, Len(frames))
           /\ irgen = "ok" /\ Matches(gl, sl, Len(frames)) /\ Stored(gl)
           /\ LoopsAre(loops, frames, Len(frames))
           /\ error' = FALSE
<1>1. /\ ~error' /\ error = FALSE /\ irgen = "ok"
      /\ Depth(frames) = Len(frames) /\ Len(gl) = Len(frames) + 1
  BY GeneratingIs
<1>2. Len(sl) = 2 * Len(frames) + 1 /\ Len(frames) \in Nat
  BY ShapeFacts
<1>3. error' = FALSE
  BY GeneratingIs
<1> QED
  BY <1>1, <1>2, <1>3 DEF InStep, Aligned, MatchInv

(* The code generator finds the storage of the declaration meant. *)
LEMMA AddressMatches ==
    ASSUME ShapeInv, MatchInv, InStep, NEW n \in Name, Resolve(sl, n) \in Value,
           NEW T, NEW h, ChainOf(h, T), SameFor(gl, h, n)
    PROVE  Address(h, n) = Resolve(sl, n)
<1>1. /\ ChainOf(sl, seen) /\ ChainOf(gl, seen) /\ NoDecl \notin Value
      /\ sF \in [Name -> Func \union {NoDecl}] /\ Value \intersect Func = {}
  BY ShapeFacts, DeclAssumption
<1>2. Aligned(gl, sl, Len(frames)) /\ Matches(gl, sl, Len(frames)) /\ Stored(gl)
  BY ShapeFacts DEF InStep, MatchInv, Aligned
<1>3. ImplGet(gl, Len(gl), n) = ImplGet(sl, Len(sl), n)
  BY <1>1, <1>2, MatchLookup
<1>4. ImplGet(sl, Len(sl), n) = Resolve(sl, n)
  <2>1. sF[n] \notin Value
    BY <1>1
  <2> QED
    BY <2>1 DEF Resolve
<1>5. ImplGet(h, Len(h), n) = ImplGet(gl, Len(gl), n)
  BY <1>1, SameLookup
<1>6. Resolve(sl, n) \in vals
  <2>1. \E j \in 1 .. Len(gl) : ImplGet(gl, Len(gl), n) = gl[j].Vars[n]
    BY <1>1, <1>3, <1>4, GetIs
  <2> QED
    BY <1>1, <1>2, <1>3, <1>4, <2>1 DEF Stored
<1> QED
  BY <1>3, <1>4, <1>5, <1>6 DEF Address

(* The mentions are of values, which h has where the table has them. *)
Findable(left, h) ==
    \A q \in left : \E n \in Name :
        q = <<n, Resolve(sl, n)>> /\ Resolve(sl, n) \in Value /\ SameFor(gl, h, n)

Found(rs) == \A r \in rs : r[1] = r[2] /\ r[2] # NoDecl

LEMMA LoadsMatch ==
    ASSUME ShapeInv, MatchInv, InStep, NEW T, NEW h, ChainOf(h, T),
           NEW left, Findable(left, h)
    PROVE  Found(Loaded(h, left))
<1> SUFFICES ASSUME NEW r \in Loaded(h, left)
             PROVE  r[1] = r[2] /\ r[2] # NoDecl
  BY DEF Found
<1>1. PICK q \in left : r = <<q[2], Address(h, q[1])>>
  BY DEF Loaded
<1>2. PICK n \in Name :
        q = <<n, Resolve(sl, n)>> /\ Resolve(sl, n) \in Value /\ SameFor(gl, h, n)
  BY DEF Findable
<1>3. Address(h, n) = Resolve(sl, n)
  BY <1>2, AddressMatches
<1>4. r = <<Resolve(sl, n), Resolve(sl, n)>>
  BY <1>1, <1>2, <1>3
<1> QED
  BY <1>2, <1>4, ShapeFacts

(* What is left of mentions that are neither undefined nor functions *)
LEMMA LeftFindable ==
    ASSUME ShapeInv, NEW T, T \subseteq Value, NEW ls, ChainOf(ls, T), NEW h,
           NEW ms, ms \subseteq Mention,
           \A m \in ms : ~Undefined(ls, m) /\ ~IsFunction(ls, m),
           \A m \in ms : ~Solved(ls, m) => SameFor(sl, ls, m) /\ SameFor(gl, h, m)
    PROVE  Findable(Left(ls, ms), h)
<1> SUFFICES ASSUME NEW q \in Left(ls, ms)
             PROVE  \E n \in Name :
                       q = <<n, Resolve(sl, n)>> /\ Resolve(sl, n) \in Value /\ SameFor(gl, h, n)
  BY DEF Findable
<1>1. PICK n \in ms : ~Solved(ls, n) /\ q = <<n, Resolve(ls, n)>>
  BY DEF Left
<1>2. n \in Name /\ n # Literal
  BY <1>1 DEF Solved, Mention
<1>3. SameFor(sl, ls, n) /\ SameFor(gl, h, n)
  BY <1>1
<1>4. Resolve(ls, n) = Resolve(sl, n)
  <2>1. ImplGet(ls, Len(ls), n) = ImplGet(sl, Len(sl), n)
    BY <1>2, <1>3, ShapeFacts, SameLookup
  <2> QED
    BY <2>1 DEF Resolve
<1>5. Resolve(ls, n) \in Value
  <2>1. Resolve(ls, n) \in Value \union Func
    BY <1>2, ShapeFacts, ResolveIs
  <2>2. Resolve(ls, n) \notin Func
    BY <1>2 DEF IsFunction
  <2> QED
    BY <2>1, <2>2
<1> QED
  BY <1>1, <1>2, <1>3, <1>4, <1>5

-----------------------------------------------------------------------------
(* Expressions and jumps *)

(* Nothing is opened, closed or declared. *)
LEMMA StraightMatch ==
    ASSUME MatchInv, UNCHANGED <<astVars, sl, gl, vals, loops>>, sema' = "ok",
           error => error', ~error' /\ ~error => irgen' = "ok",
           Found(refs'), stored' \notin Let
    PROVE  MatchInv'
<1>1. (Distinct(Len(funcs)))' <=> Distinct(Len(funcs))
  BY DEF Distinct, astVars
<1>2. Agree'
  BY DEF Agree, Found
<1>3. ~error' => ~error /\ irgen' = "ok"
  OBVIOUS
<1>4. /\ (Matches(gl, sl, Depth(frames)))' <=> Matches(gl, sl, Depth(frames))
      /\ (Stored(gl))' <=> Stored(gl)
      /\ (LoopsAre(loops, frames, Depth(frames)))' <=> LoopsAre(loops, frames, Depth(frames))
  BY DEF astVars, Matches, Merged, Depth, Stored, LoopsAre
<1> QED
  BY <1>1, <1>2, <1>3, <1>4 DEF MatchInv

LEMMA NothingFound == NoDecl \notin Let /\ Found({})
BY DeclAssumption DEF Found, Value

LEMMA FoundAll == \A rs : Found(rs) => AllFound(rs)
BY DEF Found, AllFound

LEMMA UseMatch ==
    ASSUME Odd = {}, ShapeInv, MatchInv, NEW n \in Name, VisitUse(n) PROVE MatchInv'
<1>1. /\ Visiting /\ error' = (error \/ frames = <<>> \/ Undefined(sl, n)) /\ Uses(sl, {n})
      /\ UNCHANGED <<astVars, sF, sl, scopes, literals, sema>>
      /\ Generate(Load(gl, Left(sl, {n})) /\ UNCHANGED <<gl, vals, loops>>)
  BY DEF VisitUse, SemaExpr
<1>2. sema' = "ok" /\ (error => error')
  BY <1>1 DEF Visiting
<1>3. CASE Generating
  <2>1. /\ refs' = Loaded(gl, Left(sl, {n})) /\ stored' = NoDecl
        /\ irgen' = (IF AllFound(refs') THEN irgen ELSE "no-address")
        /\ UNCHANGED <<gl, vals, loops>>
    BY <1>1, <1>3 DEF Generate, Load
  <2>2. InStep /\ irgen = "ok" /\ ~error'
    BY <1>1, <1>2, <1>3, InStepIs
  <2>3. ~Undefined(sl, n) /\ ~IsFunction(sl, n)
    BY <1>1, <2>2 DEF Uses
  <2>4. SameFor(sl, sl, n) /\ SameFor(gl, gl, n)
    BY ShapeFacts, SameSelf
  <2>5. Findable(Left(sl, {n}), gl)
    BY <2>3, <2>4, ShapeFacts, LeftFindable DEF Mention
  <2>6. Found(refs')
    BY <2>1, <2>2, <2>5, ShapeFacts, LoadsMatch
  <2>7. irgen' = "ok"
    BY <2>1, <2>2, <2>6, FoundAll
  <2> QED
    BY <1>1, <1>2, <2>1, <2>6, <2>7, StraightMatch, NothingFound
<1>4. CASE ~Generating
  <2>1. refs' = {} /\ stored' = NoDecl /\ UNCHANGED <<gl, vals, loops, irgen>>
    BY <1>1, <1>4 DEF Generate
  <2>2. ~error => irgen = "ok"
    BY DEF MatchInv
  <2> QED
    BY <1>1, <1>2, <2>1, <2>2, StraightMatch, NothingFound
<1> QED
  BY <1>3, <1>4

LEMMA CallMatch ==
    ASSUME Odd = {}, ShapeInv, MatchInv, NEW n \in Name, VisitCall(n) PROVE MatchInv'
<1>1. /\ Visiting /\ error' = (error \/ frames = <<>> \/ Undefined(sl, n))
      /\ Resolve(sl, n) \notin Value
      /\ UNCHANGED <<astVars, sF, sl, scopes, literals, sema>>
      /\ Generate(GenCall(n))
  BY DEF VisitCall, SemaExpr
<1>2. sema' = "ok" /\ (error => error')
  BY <1>1 DEF Visiting
<1>3. CASE Generating
  <2>1. /\ refs' = {<<Resolve(sl, n), gF[n]>>} /\ stored' = NoDecl
        /\ irgen' = (IF gF[n] = NoDecl THEN "no-callee" ELSE irgen)
        /\ UNCHANGED <<gl, vals, loops>>
    BY <1>1, <1>3 DEF Generate, GenCall
  <2>2. irgen = "ok" /\ ~error'
    BY <1>1, <1>2, <1>3, InStepIs
  <2>3. ImplGet(sl, Len(sl), n) = NoDecl
    <3>1. \/ ImplGet(sl, Len(sl), n) = NoDecl
          \/ ImplGet(sl, Len(sl), n) \in Value
      BY ShapeFacts, GetIs
    <3> QED
      BY <1>1, <3>1 DEF Resolve
  <2>4. Resolve(sl, n) = gF[n]
    BY <2>3, ShapeFacts DEF Resolve
  <2>5. gF[n] # NoDecl
    <3>1. ~Undefined(sl, n) /\ n # Literal
      BY <1>1, <2>2, DeclAssumption
    <3> QED
      BY <2>4, <3>1 DEF Undefined
  <2>6. Found(refs')
    BY <2>1, <2>4, <2>5 DEF Found
  <2> QED
    BY <1>1, <1>2, <2>1, <2>2, <2>5, <2>6, StraightMatch, NothingFound
<1>4. CASE ~Generating
  <2>1. refs' = {} /\ stored' = NoDecl /\ UNCHANGED <<gl, vals, loops, irgen>>
    BY <1>1, <1>4 DEF Generate
  <2>2. ~error => irgen = "ok"
    BY DEF MatchInv
  <2> QED
    BY <1>1, <1>2, <2>1, <2>2, StraightMatch, NothingFound
<1> QED
  BY <1>3, <1>4

LEMMA AssignMatch ==
    ASSUME Odd = {}, ShapeInv, MatchInv, NEW n \in Name, NEW m \in Mention, VisitAssign(n, m)
    PROVE  MatchInv'
<1> DEFINE left == {<<n, Resolve(sl, n)>>} \union Left(sl, {m})
<1>1. /\ Visiting
      /\ ~(IsFunction(sl, n) /\ IsFunction(sl, m))
      /\ error' = (error \/ frames = <<>>
                      \/ (Undefined(sl, n) \/ Undefined(sl, m) \/ ~Assignable(n, m)))
      /\ UNCHANGED <<astVars, sF, sl, scopes, literals, sema>>
      /\ Generate(GenAssign(n, m))
  BY DEF VisitAssign, SemaExpr
<1>2. sema' = "ok" /\ (error => error')
  BY <1>1 DEF Visiting
<1>3. CASE Generating
  <2>1. /\ refs' = Loaded(gl, left) /\ stored' = Address(gl, n)
        /\ irgen' = (IF AllFound(refs') THEN irgen ELSE "no-address")
        /\ UNCHANGED <<gl, vals, loops>>
    BY <1>1, <1>3 DEF Generate, GenAssign
  <2>2. InStep /\ irgen = "ok" /\ ~error'
    BY <1>1, <1>2, <1>3, InStepIs
  <2>3. /\ ~Undefined(sl, n) /\ ~Undefined(sl, m) /\ Resolve(sl, n) \notin Let
        /\ ~IsFunction(sl, n) /\ ~IsFunction(sl, m)
    BY <1>1, <2>2 DEF Assignable
  <2>4. \A x \in Name : SameFor(sl, sl, x) /\ SameFor(gl, gl, x)
    BY ShapeFacts, SameSelf
  <2>5. Findable(Left(sl, {m}), gl)
    <3>1. ~Solved(sl, m) => m \in Name
      BY DEF Solved, Mention
    <3> QED
      BY <2>3, <2>4, <3>1, ShapeFacts, LeftFindable
  <2>6. Resolve(sl, n) \in Value
    <3>1. n # Literal /\ Resolve(sl, n) \in Value \union Func
      BY <2>3, ShapeFacts, ResolveIs
    <3>2. Resolve(sl, n) \notin Func
      BY <2>3, <3>1 DEF IsFunction
    <3> QED
      BY <3>1, <3>2
  <2>7. Findable(left, gl)
    BY <2>4, <2>5, <2>6 DEF Findable
  <2>8. Address(gl, n) = Resolve(sl, n)
    BY <2>2, <2>4, <2>6, ShapeFacts, AddressMatches
  <2> HIDE DEF left
  <2>9. Found(refs')
    BY <2>1, <2>2, <2>7, ShapeFacts, LoadsMatch
  <2>10. irgen' = "ok"
    BY <2>1, <2>2, <2>9, FoundAll
  <2>11. stored' \notin Let
    BY <2>1, <2>3, <2>8
  <2> QED
    BY <1>1, <1>2, <2>1, <2>9, <2>10, <2>11, StraightMatch
<1>4. CASE ~Generating
  <2>1. refs' = {} /\ stored' = NoDecl /\ UNCHANGED <<gl, vals, loops, irgen>>
    BY <1>1, <1>4 DEF Generate
  <2>2. ~error => irgen = "ok"
    BY DEF MatchInv
  <2> QED
    BY <1>1, <1>2, <2>1, <2>2, StraightMatch, NothingFound
<1> QED
  BY <1>3, <1>4

(* A break that the type checker lets through is in a loop of LoopStack. *)
LEMMA BreakMatch == ASSUME ShapeInv, MatchInv, VisitBreak PROVE MatchInv'
<1>1. /\ Visiting /\ error' = (error \/ ~MayBreak)
      /\ UNCHANGED <<astVars, sF, sl, scopes, literals, sema>>
      /\ Generate(GenBreak)
  BY DEF VisitBreak
<1>2. sema' = "ok" /\ (error => error')
  BY <1>1 DEF Visiting
<1>3. refs' = {} /\ stored' = NoDecl /\ UNCHANGED <<gl, vals, loops>>
  BY <1>1 DEF Generate, GenBreak
<1>4. ~error' /\ ~error => irgen' = "ok"
  <2>1. CASE Generating
    <3>1. /\ irgen = "ok" /\ ~error' /\ LoopsAre(loops, frames, Len(frames))
      BY <1>1, <1>2, <2>1, InStepIs
    <3>2. Within("break", scopes[Len(scopes)])
      BY <1>1, <3>1 DEF MayBreak
    <3>3. Len(scopes) \in 1 .. Len(scopes) /\ Breakable(scopes, frames)
      BY ShapeFacts DEF ShapeInv, SemaInv
    <3>4. PICK j \in 1 .. Len(frames) : frames[j].kind \in LoopFrame
      BY <3>2, <3>3 DEF Breakable
    <3>5. frames # <<>> /\ loops # <<>>
      <4>1. \E i \in 1 .. Len(loops) : loops[i] = j
        BY <3>1, <3>4 DEF LoopsAre
      <4>2. frames # <<>>
        BY <3>4
      <4>3. loops # <<>>
        BY <4>1
      <4> QED
        BY <4>2, <4>3
    <3> QED
      BY <1>1, <2>1, <3>1, <3>5 DEF Generate, GenBreak
  <2>2. CASE ~Generating
    BY <1>1, <2>2 DEF Generate, MatchInv
  <2> QED
    BY <2>1, <2>2
<1> QED
  BY <1>1, <1>2, <1>3, <1>4, StraightMatch, NothingFound

LEMMA ReturnMatch ==
    ASSUME Odd = {}, ShapeInv, MatchInv, NEW m \in Mention \union {None}, VisitReturn(m)
    PROVE  MatchInv'
<1>1. /\ Visiting /\ error' = (error \/ IF m = None THEN ~InVoid ELSE Undefined(sl, m))
      /\ m # None => Uses(sl, {m})
      /\ UNCHANGED <<astVars, sF, sl, scopes, literals, sema>>
      /\ Generate(GenReturn(m))
  BY DEF VisitReturn
<1>2. sema' = "ok" /\ (error => error')
  BY <1>1 DEF Visiting
<1>3. CASE Generating /\ ~InVoid
  <2>1. /\ refs' = Loaded(gl, Left(sl, {m})) /\ stored' = NoDecl
        /\ irgen' = (IF AllFound(refs') THEN irgen ELSE "no-address")
        /\ UNCHANGED <<gl, vals, loops>>
    BY <1>1, <1>3 DEF Generate, GenReturn, Load
  <2>2. InStep /\ irgen = "ok" /\ ~error'
    BY <1>1, <1>2, <1>3, InStepIs
  <2>3. m # None
    BY <1>1, <1>3, <2>2
  <2>4. m \in Mention /\ ~Undefined(sl, m) /\ ~IsFunction(sl, m)
    BY <1>1, <2>2, <2>3 DEF Uses
  <2>5. ~Solved(sl, m) => SameFor(sl, sl, m) /\ SameFor(gl, gl, m)
    <3>1. ~Solved(sl, m) => m \in Name
      BY <2>4 DEF Solved, Mention
    <3> QED
      BY <3>1, ShapeFacts, SameSelf
  <2>6. Findable(Left(sl, {m}), gl)
    BY <2>4, <2>5, ShapeFacts, LeftFindable
  <2>7. Found(refs')
    BY <2>1, <2>2, <2>6, ShapeFacts, LoadsMatch
  <2>8. irgen' = "ok"
    BY <2>1, <2>2, <2>7, FoundAll
  <2> QED
    BY <1>1, <1>2, <2>1, <2>7, <2>8, StraightMatch, NothingFound
<1>4. CASE ~(Generating /\ ~InVoid)
  <2>1. refs' = {} /\ stored' = NoDecl /\ UNCHANGED <<gl, vals, loops, irgen>>
    BY <1>1, <1>4 DEF Generate, GenReturn, Silent
  <2>2. ~error => irgen = "ok"
    BY DEF MatchInv
  <2> QED
    BY <1>1, <1>2, <2>1, <2>2, StraightMatch, NothingFound
<1> QED
  BY <1>3, <1>4

-----------------------------------------------------------------------------
(* Declarations and statements with blocks *)

LEMMA MatchesKept ==
    ASSUME NEW g, NEW h, NEW s, NEW u, NEW d \in Nat, Matches(g, s, d),
           \A i \in 1 .. d + 1 : h[i] = g[i],
           \A j \in 1 .. 2 * d + 1 : u[j] = s[j]
    PROVE  Matches(h, u, d)
<1>1. h[1] = u[1]
  <2>1. 1 \in 1 .. d + 1 /\ 1 \in 1 .. 2 * d + 1
    OBVIOUS
  <2> QED
    BY <2>1 DEF Matches
<1>2. ASSUME NEW i \in 1 .. d, NEW n \in Name
      PROVE  h[i + 1].Vars[n] = Merged(u, i, n)
  <2>1. i + 1 \in 1 .. d + 1 /\ 2 * i + 1 \in 1 .. 2 * d + 1 /\ 2 * i \in 1 .. 2 * d + 1
    OBVIOUS
  <2>2. h[i + 1] = g[i + 1] /\ u[2 * i + 1] = s[2 * i + 1] /\ u[2 * i] = s[2 * i]
    BY <2>1
  <2> QED
    BY <2>2 DEF Matches, Merged
<1> QED
  BY <1>1, <1>2 DEF Matches

LEMMA LoopsKept ==
    ASSUME NEW ls, NEW fs, NEW gs, NEW d, LoopsAre(ls, fs, d),
           \A i \in 1 .. d : gs[i].kind = fs[i].kind
    PROVE  LoopsAre(ls, gs, d)
BY DEF LoopsAre

(* The parts of MatchInv' that concern the tables *)
MatchNow(d) ==
    /\ irgen' = "ok"
    /\ Matches(gl', sl', d)
    /\ \A i \in 1 .. Len(gl'), n \in Name : gl'[i].Vars[n] # NoDecl => gl'[i].Vars[n] \in vals'
    /\ LoopsAre(loops', frames', d)

LEMMA MatchNext ==
    ASSUME MatchInv, UNCHANGED funcs, sema' = "ok", Found(refs'), stored' \notin Let,
           ~error' => MatchNow(Depth(frames'))
    PROVE  MatchInv'
<1>1. (Distinct(Len(funcs)))' <=> Distinct(Len(funcs))
  BY DEF Distinct
<1>2. Agree'
  BY DEF Agree, Found
<1>3. /\ (Matches(gl, sl, Depth(frames)))' <=> Matches(gl', sl', Depth(frames'))
      /\ (Stored(gl))' <=> \A i \in 1 .. Len(gl'), n \in Name :
                              gl'[i].Vars[n] # NoDecl => gl'[i].Vars[n] \in vals'
      /\ (LoopsAre(loops, frames, Depth(frames)))' <=> LoopsAre(loops', frames', Depth(frames'))
  BY DEF Matches, Merged, Depth, Stored, LoopsAre
<1> QED
  BY <1>1, <1>2, <1>3 DEF MatchInv, MatchNow

(* In a local function the code generator waits. *)
LEMMA IdleMatch ==
    ASSUME ShapeInv, MatchInv, Visiting, error => error', ~Generating,
           UNCHANGED <<funcs, gl, vals, loops, irgen>>,
           sema' = "ok", refs' = {}, stored' = NoDecl,
           Depth(frames) # Len(frames) => Depth(frames') = Depth(frames),
           \A i \in 1 .. Len(frames) - 1 : frames'[i] = frames[i],
           \A j \in 1 .. Len(sl) - 2 : sl'[j] = sl[j]
    PROVE  MatchInv'
<1>1. ASSUME ~error'
      PROVE  MatchNow(Depth(frames'))
  <2>1. /\ ~error /\ irgen = "ok" /\ Stored(gl)
        /\ Matches(gl, sl, Depth(frames)) /\ LoopsAre(loops, frames, Depth(frames))
    BY <1>1 DEF MatchInv
  <2>2. Depth(frames) # Len(frames)
    BY <1>1, <2>1, GeneratingIs
  <2>3. /\ Depth(frames) \in 0 .. Len(frames) /\ Len(sl) = 2 * Len(frames) + 1
        /\ Len(frames) \in Nat
    BY ShapeFacts, DepthGenerating
  <2> DEFINE d == Depth(frames)
  <2>4. d \in Nat /\ d < Len(frames)
    BY <2>2, <2>3
  <2> HIDE DEF d
  <2>5. Matches(gl, sl', d)
    <3>1. \A j \in 1 .. 2 * d + 1 : sl'[j] = sl[j]
      BY <2>3, <2>4
    <3>2. Matches(gl, sl, d)
      BY <2>1 DEF d
    <3> QED
      BY <2>4, <3>1, <3>2, MatchesKept
  <2>6. LoopsAre(loops, frames', d)
    <3>1. \A i \in 1 .. d : frames'[i].kind = frames[i].kind
      BY <2>3, <2>4
    <3>2. LoopsAre(loops, frames, d)
      BY <2>1 DEF d
    <3> QED
      BY <3>1, <3>2, LoopsKept
  <2>7. Depth(frames') = d
    BY <2>2 DEF d
  <2> QED
    BY <2>1, <2>5, <2>6, <2>7 DEF MatchNow, Stored
<1> QED
  BY <1>1, MatchNext, NothingFound

LEMMA VarDeclMatch ==
    ASSUME Odd = {}, ShapeInv, MatchInv, NEW d \in Value, NEW init \in Mention \union {None},
           VisitVarDecl(d, init)
    PROVE  MatchInv'
<1> DEFINE left == IF init = None THEN {} ELSE Left(sl, {init})
           n0 == NameOf(d)
<1>1. /\ Visiting /\ seen' = seen \union {d} /\ UNCHANGED <<funcs, next, frames>>
      /\ SemaVarDecl(d, init)
      /\ Generate(GenValDecl(d, left))
  BY DEF VisitVarDecl
<1>2. /\ ~(init = NameOf(d) /\ frames # <<>> /\ ~Solved(sl, init))
      /\ ~(init \in Name /\ frames = <<>> /\ ~Solved(sl, init))
      /\ ~(frames # <<>> /\ sl[Len(sl) - 1].Vars[n0] # NoDecl)
  BY DEF VisitVarDecl
<1>3. /\ Len(sl') = Len(sl)
      /\ \A i \in 1 .. Len(sl) - 1 : sl'[i] = sl[i]
      /\ error => error'
      /\ ~error' => /\ sl' = WithVar(sl, sF, d) /\ ~Refused(sl, sF, n0)
                    /\ init # None => ~Undefined(sl, init) /\ ~IsFunction(sl, init)
      /\ sema' = sema
  BY <1>1, SemaDeclares
<1>4. sema' = "ok"
  BY <1>1, <1>3 DEF Visiting
<1>5. CASE ~Generating
  <2>1. refs' = {} /\ stored' = NoDecl /\ UNCHANGED <<gl, vals, loops, irgen>>
    BY <1>1, <1>5 DEF Generate
  <2>2. \A j \in 1 .. Len(sl) - 2 : sl'[j] = sl[j]
    BY <1>3, ShapeFacts
  <2>3. Depth(frames') = Depth(frames)
    BY <1>1
  <2> QED
    BY <1>1, <1>3, <1>4, <1>5, <2>1, <2>2, <2>3, IdleMatch
<1>6. CASE Generating
  <2>1. /\ gl' = WithVar(gl, gF, d) /\ vals' = vals \union {d} /\ loops' = loops
        /\ IF frames = <<>> THEN GenGlobal(left) ELSE Load(gl', left)
    BY <1>1, <1>6 DEF Generate, GenValDecl
  <2>2. /\ InStep /\ Aligned(gl, sl, Len(frames)) /\ irgen = "ok" /\ ~error'
        /\ Matches(gl, sl, Len(frames)) /\ Stored(gl) /\ LoopsAre(loops, frames, Len(frames))
    BY <1>1, <1>3, <1>6, InStepIs
  <2>3. /\ sl' = WithVar(sl, sF, d) /\ ~Refused(sl, sF, n0)
        /\ init # None => ~Undefined(sl, init) /\ ~IsFunction(sl, init)
    BY <1>3, <2>2
  <2>4. /\ Len(sl) = 2 * Len(frames) + 1 /\ Len(gl) = Len(frames) + 1 /\ Len(frames) \in Nat
        /\ ChainOf(sl, seen) /\ ChainOf(gl, seen) /\ gF = sF /\ n0 \in Name
    BY <2>2, ShapeFacts, DeclAssumption DEF Aligned
  <2> DEFINE k == Len(frames)
  <2>5. /\ sl[Len(sl)].Vars[n0] = NoDecl /\ sl'[Len(sl)].Vars[n0] = d
        /\ \A n \in Name : n # n0 => sl'[Len(sl)].Vars[n] = sl[Len(sl)].Vars[n]
    BY <2>3, <2>4, WithVarIs
  <2>6. gl[Len(gl)].Vars[n0] = NoDecl
    <3>1. CASE frames = <<>>
      <4>1. Len(gl) = 1 /\ Len(sl) = 1
        BY <2>4, <3>1
      <4> QED
        BY <2>2, <2>5, <4>1 DEF Matches
    <3>2. CASE frames # <<>>
      <4>1. k \in 1 .. k
        BY <2>4, <3>2
      <4>2. gl[k + 1].Vars[n0] = Merged(sl, k, n0)
        BY <2>2, <2>4, <4>1 DEF Matches
      <4>3. sl[2 * k + 1].Vars[n0] = NoDecl /\ sl[2 * k].Vars[n0] = NoDecl
        <5>1. Len(sl) - 1 = 2 * k
          BY <2>4
        <5> QED
          BY <1>2, <2>4, <2>5, <3>2, <5>1
      <4> QED
        BY <2>4, <4>2, <4>3 DEF Merged
    <3> QED
      BY <3>1, <3>2
  <2>7. ~Refused(gl, gF, n0)
    <3>1. gl[Len(gl)] \in Layer
      BY <2>4 DEF ChainOf
    <3>2. gl[Len(gl)].Consts[n0] = NoDecl
      BY <2>4, <3>1 DEF Layer
    <3>3. sF[n0] = NoDecl
      BY <2>3 DEF Refused
    <3> QED
      BY <2>4, <2>6, <3>2, <3>3 DEF Refused, IsDeclared
  <2>8. /\ gl'[Len(gl)].Vars[n0] = d /\ Len(gl') = Len(gl)
        /\ \A n \in Name : n # n0 => gl'[Len(gl)].Vars[n] = gl[Len(gl)].Vars[n]
        /\ \A i \in 1 .. Len(gl) - 1 : gl'[i] = gl[i]
    BY <2>1, <2>4, <2>7, WithVarIs
  <2>9. Found(refs') /\ irgen' = "ok" /\ stored' = NoDecl
    <3>1. CASE frames = <<>>
      <4>1. left = {}
        <5>1. init = None \/ Solved(sl, init)
          BY <1>2, <3>1 DEF Mention, Solved
        <5> QED
          BY <5>1 DEF Left
      <4> QED
        BY <2>1, <2>2, <3>1, <4>1, NothingFound DEF GenGlobal
    <3>2. CASE frames # <<>>
      <4>1. Findable(left, gl')
        <5>1. CASE init = None
          BY <5>1 DEF Findable
        <5>2. CASE init # None
          <6>1. ~Solved(sl, init) => init \in Name /\ init # n0
            BY <1>2, <3>2, <5>2 DEF Solved, Mention
          <6>2. ~Solved(sl, init) => SameFor(sl, sl, init) /\ SameFor(gl, gl', init)
            BY <2>1, <2>4, <6>1, SameSelf, SameWithVar
          <6>3. {init} \subseteq Mention
            BY <5>2
          <6>4. Findable(Left(sl, {init}), gl')
            BY <2>3, <5>2, <6>2, <6>3, ShapeFacts, LeftFindable
          <6> QED
            BY <5>2, <6>4
        <5> QED
          BY <5>1, <5>2
      <4>2. ChainOf(gl', seen \union {d})
        BY <2>1, <2>4, WithVarChain
      <4> HIDE DEF left
      <4>3. refs' = Loaded(gl', left) /\ stored' = NoDecl
            /\ irgen' = (IF AllFound(refs') THEN irgen ELSE "no-address")
        BY <2>1, <3>2 DEF Load
      <4>4. Found(refs')
        BY <2>2, <4>1, <4>2, <4>3, LoadsMatch
      <4> QED
        BY <2>2, <4>3, <4>4, FoundAll
    <3> QED
      BY <3>1, <3>2
  <2>10. Matches(gl', sl', k)
    <3>1. CASE k = 0
      <4>1. gl[1] = sl[1] /\ Len(gl) = 1 /\ Len(sl) = 1
        BY <2>2, <2>4, <3>1 DEF Matches
      <4>2. gl' = WithEntry(gl, "Vars", d) /\ sl' = WithEntry(sl, "Vars", d)
        BY <2>1, <2>3, <2>7 DEF WithVar
      <4>3. gl'[1] = sl'[1]
        BY <2>4, <4>1, <4>2 DEF WithEntry, ChainOf
      <4> QED
        BY <3>1, <4>3 DEF Matches
    <3>2. CASE k # 0
      <4>1. gl'[1] = sl'[1]
        <5>1. 1 \in 1 .. Len(gl) - 1 /\ 1 \in 1 .. Len(sl) - 1
          BY <2>4, <3>2
        <5> QED
          BY <1>3, <2>2, <2>8, <5>1 DEF Matches
      <4>2. ASSUME NEW i \in 1 .. k, NEW n \in Name
            PROVE  gl'[i + 1].Vars[n] = Merged(sl', i, n)
        <5>1. gl[i + 1].Vars[n] = Merged(sl, i, n)
          BY <2>2 DEF Matches
        <5>2. 2 * i \in 1 .. Len(sl) - 1
          BY <2>4
        <5>3. sl'[2 * i] = sl[2 * i]
          BY <1>3, <5>2
        <5>4. CASE i # k
          <6>1. i + 1 \in 1 .. Len(gl) - 1 /\ 2 * i + 1 \in 1 .. Len(sl) - 1
            BY <2>4, <5>4
          <6> QED
            BY <1>3, <2>8, <5>1, <5>3, <6>1 DEF Merged
        <5>5. CASE i = k
          <6>1. i + 1 = Len(gl) /\ 2 * i + 1 = Len(sl)
            BY <2>4, <5>5
          <6>2. CASE n = n0
            BY <2>5, <2>8, <6>1, <6>2, ShapeFacts DEF Merged
          <6>3. CASE n # n0
            BY <2>5, <2>8, <5>1, <5>3, <6>1, <6>3 DEF Merged
          <6> QED
            BY <6>2, <6>3
        <5> QED
          BY <5>4, <5>5
      <4> QED
        BY <4>1, <4>2 DEF Matches
    <3> QED
      BY <3>1, <3>2
  <2>11. ASSUME NEW i \in 1 .. Len(gl'), NEW n \in Name, gl'[i].Vars[n] # NoDecl
         PROVE  gl'[i].Vars[n] \in vals'
    <3>1. CASE i = Len(gl) /\ n = n0
      BY <2>1, <2>8, <3>1
    <3>2. CASE ~(i = Len(gl) /\ n = n0)
      <4>1. i \in 1 .. Len(gl) /\ (i # Len(gl) => i \in 1 .. Len(gl) - 1)
        BY <2>4, <2>8
      <4>2. gl'[i].Vars[n] = gl[i].Vars[n]
        BY <2>8, <3>2, <4>1
      <4> QED
        BY <2>1, <2>2, <2>11, <4>1, <4>2 DEF Stored
    <3> QED
      BY <3>1, <3>2
  <2>12. Depth(frames') = k /\ frames' = frames
    BY <1>1, <2>2 DEF InStep
  <2>13. MatchNow(Depth(frames'))
    BY <2>1, <2>2, <2>9, <2>10, <2>11, <2>12 DEF MatchNow
  <2> QED
    BY <1>1, <1>4, <2>9, <2>13, MatchNext, NothingFound
<1> QED
  BY <1>5, <1>6

LEMMA OpeningMatches ==
    ASSUME ShapeInv, MatchInv, InStep,
           NEW kind, NEW void, NEW p \in Let \union {None}, NEW flags,
           [kind |-> kind, void |-> void] \in Frame, Opening(kind, void, p, flags),
           NEW in, in = WithParam(gl, gF, p)
    PROVE  /\ Matches(in, sl', Len(frames) + 1)
           /\ \A i \in 1 .. Len(in), n \in Name :
                in[i].Vars[n] # NoDecl => in[i].Vars[n] \in vals \union ({p} \ {None})
<1>1. /\ Len(sl) = 2 * Len(frames) + 1 /\ Len(gl) = Len(frames) + 1 /\ Len(frames) \in Nat
      /\ ChainOf(gl, seen) /\ gF = sF
  BY ShapeFacts DEF InStep
<1>2. /\ Matches(gl, sl, Len(frames)) /\ Stored(gl)
  BY DEF InStep, MatchInv
<1>3. /\ \A i \in 1 .. Len(sl) : sl'[i] = sl[i]
      /\ \A n \in Name :
           sl'[Len(sl) + 1].Vars[n] =
               IF p # None /\ n = NameOf(p) /\ sF[n] = NoDecl THEN p ELSE NoDecl
      /\ \A n \in Name : sl'[Len(sl) + 2].Vars[n] = NoDecl
  BY OpeningIs
<1>4. /\ Len(in) = Len(gl) + 1
      /\ \A i \in 1 .. Len(gl) : in[i] = gl[i]
      /\ \A n \in Name :
           in[Len(gl) + 1].Vars[n] =
               IF p # None /\ n = NameOf(p) /\ gF[n] = NoDecl THEN p ELSE NoDecl
  BY <1>1, WithParamIs
<1> DEFINE k == Len(frames)
<1>5. Matches(in, sl', k)
  <2>1. /\ \A i \in 1 .. k + 1 : in[i] = gl[i]
        /\ \A j \in 1 .. 2 * k + 1 : sl'[j] = sl[j]
    BY <1>1, <1>3, <1>4
  <2>2. k \in Nat /\ Matches(gl, sl, k)
    BY <1>1, <1>2
  <2> HIDE DEF k
  <2> QED
    BY <2>1, <2>2, MatchesKept
<1>6. \A n \in Name : in[k + 2].Vars[n] = Merged(sl', k + 1, n)
  <2>1. /\ 2 * (k + 1) + 1 = Len(sl) + 2 /\ 2 * (k + 1) = Len(sl) + 1
        /\ k + 2 = Len(gl) + 1
    BY <1>1
  <2> QED
    BY <1>1, <1>3, <1>4, <2>1 DEF Merged
<1>7. Matches(in, sl', k + 1)
  <2> SUFFICES ASSUME NEW i \in 1 .. k + 1, NEW n \in Name
               PROVE  in[i + 1].Vars[n] = Merged(sl', i, n)
    BY <1>5 DEF Matches
  <2>1. CASE i = k + 1
    <3>1. i + 1 = k + 2
      BY <1>1, <2>1
    <3> QED
      BY <1>6, <2>1, <3>1
  <2>2. CASE i # k + 1
    <3>1. i \in 1 .. k
      BY <1>1, <2>2
    <3> QED
      BY <1>5, <3>1 DEF Matches
  <2> QED
    BY <2>1, <2>2
<1>8. ASSUME NEW i \in 1 .. Len(in), NEW n \in Name, in[i].Vars[n] # NoDecl
      PROVE  in[i].Vars[n] \in vals \union ({p} \ {None})
  <2>1. CASE i = Len(gl) + 1
    BY <1>4, <1>8, <2>1
  <2>2. CASE i # Len(gl) + 1
    <3>1. i \in 1 .. Len(gl)
      BY <1>1, <1>4, <2>2
    <3> QED
      BY <1>2, <1>4, <1>8, <3>1 DEF Stored
  <2> QED
    BY <2>1, <2>2
<1> QED
  BY <1>7, <1>8

(* The statement opened is the innermost loop, or none. *)
LEMMA OpeningLoops ==
    ASSUME ShapeInv, MatchInv, InStep,
           NEW kind, NEW void, NEW p \in Let \union {None}, NEW flags,
           [kind |-> kind, void |-> void] \in Frame, Opening(kind, void, p, flags)
    PROVE  /\ kind \notin LoopFrame => LoopsAre(loops, frames', Len(frames) + 1)
           /\ kind \in LoopFrame =>
                LoopsAre(Append(loops, Len(frames) + 1), frames', Len(frames) + 1)
<1> DEFINE k == Len(frames)
           more == Append(loops, k + 1)
<1>1. loops \in Seq(1 .. MaxFrames) /\ LoopsAre(loops, frames, k) /\ k \in Nat
  BY ShapeFacts DEF InStep, MatchInv, ShapeInv, GenInv
<1>2. /\ \A i \in 1 .. k : frames'[i] = frames[i]
      /\ frames'[k + 1].kind = kind
  BY OpeningIs
<1>3. LoopsAre(loops, frames', k)
  <2>1. \A i \in 1 .. k : frames'[i].kind = frames[i].kind
    BY <1>2
  <2> HIDE DEF k
  <2> QED
    BY <1>1, <2>1, LoopsKept
<1>4. Len(loops) \in Nat
  BY <1>1
<1> HIDE DEF k
<1>5. CASE kind \notin LoopFrame
  <2>1. \A i \in 1 .. k + 1 : frames'[i].kind \in LoopFrame => i \in 1 .. k
    <3> SUFFICES ASSUME NEW i \in 1 .. k + 1, frames'[i].kind \in LoopFrame
                 PROVE  i \in 1 .. k
      OBVIOUS
    <3>1. i # k + 1
      BY <1>2, <1>5
    <3> QED
      BY <1>1, <3>1
  <2>2. \A x \in 1 .. k : x \in 1 .. k + 1
    BY <1>1
  <2>3. LoopsAre(loops, frames', k + 1)
    BY <1>3, <2>1, <2>2 DEF LoopsAre
  <2> QED
    BY <1>5, <2>3 DEF k
<1>6. CASE kind \in LoopFrame
  <2>1. /\ Len(more) = Len(loops) + 1 /\ more[Len(loops) + 1] = k + 1
        /\ \A i \in 1 .. Len(loops) : more[i] = loops[i]
    BY <1>1
  <2> HIDE DEF more
  <2>2. \A i \in 1 .. Len(more) : i = Len(loops) + 1 \/ i \in 1 .. Len(loops)
    BY <1>4, <2>1
  <2>3. ASSUME NEW i \in 1 .. Len(more)
        PROVE  more[i] \in 1 .. k + 1 /\ frames'[more[i]].kind \in LoopFrame
    <3>1. CASE i = Len(loops) + 1
      BY <1>1, <1>2, <1>6, <2>1, <3>1
    <3>2. CASE i \in 1 .. Len(loops)
      <4>1. more[i] \in 1 .. k /\ frames'[more[i]].kind \in LoopFrame
        BY <1>3, <2>1, <3>2 DEF LoopsAre
      <4> QED
        BY <1>1, <4>1
    <3> QED
      BY <2>2, <3>1, <3>2
  <2>4. ASSUME NEW i \in 1 .. Len(more), NEW j \in 1 .. Len(more), i < j
        PROVE  more[i] < more[j]
    <3>1. i \in 1 .. Len(loops)
      BY <1>4, <2>1, <2>4
    <3>2. CASE j \in 1 .. Len(loops)
      BY <1>3, <2>1, <2>4, <3>1, <3>2 DEF LoopsAre
    <3>3. CASE j = Len(loops) + 1
      <4>1. more[i] \in 1 .. k
        BY <1>3, <2>1, <3>1 DEF LoopsAre
      <4> QED
        BY <1>1, <2>1, <3>3, <4>1
    <3> QED
      BY <2>2, <3>2, <3>3
  <2>5. ASSUME NEW x \in 1 .. k + 1, frames'[x].kind \in LoopFrame
        PROVE  \E i \in 1 .. Len(more) : more[i] = x
    <3>1. CASE x = k + 1
      <4>1. Len(loops) + 1 \in 1 .. Len(more)
        BY <1>4, <2>1
      <4> QED
        BY <2>1, <3>1, <4>1
    <3>2. CASE x # k + 1
      <4>1. x \in 1 .. k
        BY <1>1, <3>2
      <4>2. PICK i \in 1 .. Len(loops) : loops[i] = x
        BY <1>3, <2>5, <4>1 DEF LoopsAre
      <4>3. i \in 1 .. Len(more) /\ more[i] = x
        BY <1>4, <2>1, <4>2
      <4> QED
        BY <4>3
    <3> QED
      BY <3>1, <3>2
  <2>6. LoopsAre(more, frames', k + 1)
    BY <2>3, <2>4, <2>5 DEF LoopsAre
  <2> QED
    BY <1>6, <2>6 DEF more, k
<1> QED
  BY <1>5, <1>6

(* Every statement with a block but the local function *)
LEMMA OpenedMatch ==
    ASSUME ShapeInv, MatchInv, Visiting, error => error',
           NEW kind, NEW void, NEW p \in Let \union {None}, NEW flags,
           [kind |-> kind, void |-> void] \in Frame, kind # "local-func",
           Opening(kind, void, p, flags),
           UNCHANGED funcs, sema' = "ok",
           ~Generating => UNCHANGED <<gl, vals, loops, irgen>> /\ refs' = {},
           Generating =>
              /\ gl' = WithParam(gl, gF, p) /\ vals' = vals \union ({p} \ {None})
              /\ irgen' = "ok" /\ Found(refs')
              /\ kind \notin LoopFrame => loops' = loops
              /\ kind \in LoopFrame => loops' = Append(loops, Len(frames) + 1),
           stored' = NoDecl
    PROVE  MatchInv'
<1>1. CASE ~Generating
  <2>1. /\ \A i \in 1 .. Len(frames) : frames'[i] = frames[i]
        /\ Depth(frames') = IF Depth(frames) = Len(frames) THEN Len(frames) + 1 ELSE Depth(frames)
        /\ \A i \in 1 .. Len(sl) : sl'[i] = sl[i]
    BY OpeningIs
  <2>2. /\ \A i \in 1 .. Len(frames) - 1 : frames'[i] = frames[i]
        /\ \A j \in 1 .. Len(sl) - 2 : sl'[j] = sl[j]
    BY <2>1, ShapeFacts
  <2> QED
    BY <1>1, <2>1, <2>2, IdleMatch
<1>2. CASE Generating
  <2>1. InStep
    BY <1>2, InStepIs
  <2>2. Depth(frames') = Len(frames) + 1
    <3>1. Depth(frames') = IF Depth(frames) = Len(frames) /\ kind # "local-func"
                           THEN Len(frames) + 1 ELSE Depth(frames)
      BY OpeningIs
    <3> QED
      BY <2>1, <3>1 DEF InStep
  <2>3. /\ Matches(gl', sl', Len(frames) + 1)
        /\ \A i \in 1 .. Len(gl'), n \in Name : gl'[i].Vars[n] # NoDecl => gl'[i].Vars[n] \in vals'
    BY <1>2, <2>1, OpeningMatches
  <2>4. LoopsAre(loops', frames', Len(frames) + 1)
    BY <1>2, <2>1, OpeningLoops
  <2>5. MatchNow(Depth(frames'))
    BY <1>2, <2>2, <2>3, <2>4 DEF MatchNow
  <2> QED
    BY <1>2, <2>5, MatchNext, NothingFound
<1> QED
  BY <1>1, <1>2

(* The LoopStack of a function begins empty, as the one before it ended. *)
LEMMA OpenFuncMatch ==
    ASSUME ShapeInv, MatchInv, NEW p \in Let \union {None}, NEW void \in BOOLEAN,
           OpenFunc(p, void)
    PROVE  MatchInv'
<1>1. /\ Visiting /\ Opening("func", void, p, {"fn"}) /\ UNCHANGED <<funcs, sema>>
      /\ error' = (error \/ (p # None /\ Refused(Push(sl), sF, NameOf(p))))
      /\ frames = <<>>
      /\ Generate(GenFuncHeader(p))
  BY DEF OpenFunc, MayOpen, SemaFuncStmt, Opening
<1>2. (error => error') /\ sema' = "ok"
  BY <1>1 DEF Visiting
<1>3. [kind |-> "func", void |-> void] \in Frame /\ "func" \notin LoopFrame
  BY DEF Frame, LoopFrame
<1>4. /\ refs' = {} /\ stored' = NoDecl
      /\ ~Generating => UNCHANGED <<gl, vals, loops, irgen>>
  BY <1>1 DEF Generate, GenFuncHeader, Silent
<1>5. ASSUME Generating
      PROVE  /\ gl' = WithParam(gl, gF, p) /\ vals' = vals \union ({p} \ {None})
             /\ irgen' = "ok" /\ loops' = loops
  <2>1. /\ gl' = WithParam(gl, gF, p) /\ loops' = <<>> /\ irgen' = irgen
        /\ vals' = (IF p = None THEN vals ELSE vals \union {p})
    BY <1>1, <1>5 DEF Generate, GenFuncHeader, Silent
  <2>2. vals' = vals \union ({p} \ {None})
    BY <2>1
  <2>3. irgen = "ok" /\ LoopsAre(loops, frames, Len(frames))
    BY <1>1, <1>2, <1>5, InStepIs
  <2>4. loops \in Seq(1 .. MaxFrames)
    BY DEF ShapeInv, GenInv
  <2>5. Len(loops) = 0
    <3>1. Len(frames) = 0 /\ Len(loops) \in Nat
      BY <1>1, <2>4
    <3>2. \A i \in 1 .. Len(loops) : loops[i] \in 1 .. 0
      BY <2>3, <3>1 DEF LoopsAre
    <3> QED
      BY <3>1, <3>2
  <2>6. loops = <<>>
    BY <2>4, <2>5
  <2> QED
    BY <2>1, <2>2, <2>3, <2>6
<1>6. Found({})
  BY NothingFound
<1> QED
  BY <1>1, <1>2, <1>3, <1>4, <1>5, <1>6, OpenedMatch

LEMMA OpenLocalFuncMatch ==
    ASSUME ShapeInv, MatchInv, NEW p \in Let \union {None}, NEW void \in BOOLEAN,
           OpenLocalFunc(p, void)
    PROVE  MatchInv'
<1>1. /\ Visiting /\ Opening("local-func", void, p, {"fn"}) /\ UNCHANGED <<funcs, sema>>
      /\ error' = (error \/ (p # None /\ Refused(Push(sl), sF, NameOf(p))))
      /\ Generate(Silent /\ UNCHANGED <<gl, vals, loops>>)
  BY DEF OpenLocalFunc, MayOpen, SemaFuncStmt, Opening
<1>2. (error => error') /\ sema' = "ok"
  BY <1>1 DEF Visiting
<1>3. [kind |-> "local-func", void |-> void] \in Frame
  BY DEF Frame
<1>4. UNCHANGED <<gl, vals, loops, irgen>> /\ refs' = {} /\ stored' = NoDecl
  BY <1>1 DEF Generate, Silent
<1>5. /\ Depth(frames') = Depth(frames)
      /\ \A i \in 1 .. Len(frames) : frames'[i] = frames[i]
      /\ \A i \in 1 .. Len(sl) : sl'[i] = sl[i]
  BY <1>1, <1>3, OpeningIs
<1>6. ASSUME ~error'
      PROVE  MatchNow(Depth(frames'))
  <2> DEFINE d == Depth(frames)
  <2>1. /\ irgen = "ok" /\ Stored(gl)
        /\ Matches(gl, sl, d) /\ LoopsAre(loops, frames, d)
    BY <1>2, <1>6 DEF MatchInv
  <2>2. /\ d \in 0 .. Len(frames) /\ Len(frames) \in Nat /\ Len(sl) = 2 * Len(frames) + 1
        /\ Depth(frames') = d
    BY <1>5, ShapeFacts, DepthGenerating
  <2> HIDE DEF d
  <2>3. Matches(gl, sl', d)
    <3>1. d \in Nat /\ \A j \in 1 .. 2 * d + 1 : sl'[j] = sl[j]
      BY <1>5, <2>2
    <3> QED
      BY <2>1, <3>1, MatchesKept
  <2>4. LoopsAre(loops, frames', d)
    <3>1. \A i \in 1 .. d : frames'[i].kind = frames[i].kind
      BY <1>5, <2>2
    <3> QED
      BY <2>1, <3>1, LoopsKept
  <2> QED
    BY <1>4, <2>1, <2>2, <2>3, <2>4 DEF MatchNow, Stored
<1> QED
  BY <1>1, <1>2, <1>4, <1>6, MatchNext, NothingFound

(* Conditions and ranges are loaded from the layers that the statement found *)
(* or from its own, which is empty yet.                                      *)
LEMMA OpenIfMatch ==
    ASSUME Odd = {}, ShapeInv, MatchInv, NEW m \in Mention, OpenIf(m) PROVE MatchInv'
<1> DEFINE left == Left(sl, {m})
<1>1. /\ Visiting /\ Opening("if", FALSE, None, {"control"})
      /\ UNCHANGED <<funcs, sema>>
      /\ error' = (error \/ Undefined(sl, m)) /\ Uses(sl, {m}) /\ frames # <<>>
      /\ Generate(GenIf(left))
  BY DEF OpenIf, MayOpenControl, MayOpen, Opening, Declare, WithParam
<1>2. (error => error') /\ sema' = "ok"
  BY <1>1 DEF Visiting
<1>3. [kind |-> "if", void |-> FALSE] \in Frame /\ "if" \notin LoopFrame
  BY DEF Frame, LoopFrame
<1>4. ~Generating => /\ UNCHANGED <<gl, vals, loops, irgen>>
                     /\ refs' = {} /\ stored' = NoDecl
  BY <1>1 DEF Generate
<1>5. ASSUME Generating
      PROVE  /\ gl' = WithParam(gl, gF, None) /\ UNCHANGED <<vals, loops>>
             /\ irgen' = "ok" /\ Found(refs') /\ stored' = NoDecl
  <2>1. /\ gl' = WithParam(gl, gF, None) /\ UNCHANGED <<vals, loops>>
        /\ refs' = Loaded(gl, left) /\ stored' = NoDecl
        /\ irgen' = (IF AllFound(refs') THEN irgen ELSE "no-address")
    BY <1>1, <1>5 DEF Generate, GenIf, LoadInFunction, Load, WithParam
  <2>2. InStep /\ irgen = "ok" /\ ~error'
    BY <1>1, <1>2, <1>5, InStepIs
  <2>3. ~Undefined(sl, m) /\ ~IsFunction(sl, m)
    BY <1>1, <2>2 DEF Uses
  <2>4. ~Solved(sl, m) => SameFor(sl, sl, m) /\ SameFor(gl, gl, m)
    <3>1. ~Solved(sl, m) => m \in Name
      BY DEF Solved, Mention
    <3> QED
      BY <3>1, ShapeFacts, SameSelf
  <2>5. Findable(left, gl)
    BY <2>3, <2>4, ShapeFacts, LeftFindable
  <2> HIDE DEF left
  <2>6. Found(refs')
    BY <2>1, <2>2, <2>5, ShapeFacts, LoadsMatch
  <2> QED
    BY <2>1, <2>2, <2>6, FoundAll
<1>6. vals = vals \union ({None} \ {None})
  OBVIOUS
<1>7. None \in Let \union {None}
  OBVIOUS
<1> QED
  BY <1>1, <1>2, <1>3, <1>4, <1>5, <1>6, <1>7, OpenedMatch

LEMMA OpenWhileMatch ==
    ASSUME Odd = {}, ShapeInv, MatchInv, NEW m \in Mention, OpenWhile(m) PROVE MatchInv'
<1> DEFINE left == Left(sl, {m})
           in == WithParam(gl, gF, None)
           flags == {"break", "control"}
<1>1. /\ Visiting /\ Opening("while", FALSE, None, flags)
      /\ UNCHANGED <<funcs, sema>>
      /\ error' = (error \/ Undefined(sl, m)) /\ Uses(sl, {m}) /\ frames # <<>>
      /\ Generate(GenWhile(left))
  BY DEF OpenWhile, MayOpenControl, MayOpen, Opening, Declare, WithParam
<1> HIDE DEF flags
<1>2. (error => error') /\ sema' = "ok"
  BY <1>1 DEF Visiting
<1>3. [kind |-> "while", void |-> FALSE] \in Frame /\ "while" \in LoopFrame
  BY DEF Frame, LoopFrame
<1>4. ~Generating => /\ UNCHANGED <<gl, vals, loops, irgen>>
                     /\ refs' = {} /\ stored' = NoDecl
  BY <1>1 DEF Generate
<1>5. ASSUME Generating
      PROVE  /\ gl' = in /\ vals' = vals /\ loops' = Append(loops, Len(frames) + 1)
             /\ irgen' = "ok" /\ Found(refs') /\ stored' = NoDecl
  <2>1. /\ gl' = in /\ vals' = vals /\ loops' = Append(loops, Len(frames) + 1)
        /\ refs' = Loaded(in, left) /\ stored' = NoDecl
        /\ irgen' = (IF AllFound(refs') THEN irgen ELSE "no-address")
    BY <1>1, <1>5 DEF Generate, GenWhile, LoadInFunction, Load, WithParam
  <2>2. InStep /\ irgen = "ok" /\ ~error'
    BY <1>1, <1>2, <1>5, InStepIs
  <2>3. ~Undefined(sl, m) /\ ~IsFunction(sl, m)
    BY <1>1, <2>2 DEF Uses
  <2>4. ~Solved(sl, m) => SameFor(sl, sl, m) /\ SameFor(gl, in, m)
    <3>1. ~Solved(sl, m) => m \in Name
      BY DEF Solved, Mention
    <3> QED
      BY <3>1, ShapeFacts, SameSelf, SameWithParam
  <2>5. ChainOf(in, seen)
    <3>1. None \in Let \union {None} /\ ChainOf(gl, seen) /\ seen \subseteq seen
      BY ShapeFacts
    <3> QED
      BY <3>1, WithParamChain
  <2> HIDE DEF in
  <2>6. Findable(left, in)
    BY <2>3, <2>4, ShapeFacts, LeftFindable
  <2> HIDE DEF left
  <2>7. Found(refs')
    BY <2>1, <2>2, <2>5, <2>6, LoadsMatch
  <2> QED
    BY <2>1, <2>2, <2>7, FoundAll
<1>6. vals = vals \union ({None} \ {None})
  OBVIOUS
<1>7. None \in Let \union {None}
  OBVIOUS
<1> QED
  BY <1>1, <1>2, <1>3, <1>4, <1>5, <1>6, <1>7, OpenedMatch

LEMMA OpenForMatch ==
    ASSUME Odd = {}, ShapeInv, MatchInv,
           NEW it \in Let, NEW start \in Mention, NEW end \in Mention,
           OpenFor(it, start, end)
    PROVE  MatchInv'
<1> DEFINE ls == WithParam(sl, sF, it)
           ms == {start, end}
           left == Left(ls, ms)
           in == WithParam(gl, gF, it)
           outer == WithParam(gl, gF, None)
           flags == {"break", "control"}
<1>1. it # None /\ it \in Value
  BY DeclAssumption DEF Value
<1>2. ls = WithVar(Push(sl), sF, it) /\ in = WithVar(Push(gl), gF, it) /\ outer = Push(gl)
  BY <1>1 DEF WithParam
<1>3. /\ Visiting /\ Opening("for", FALSE, it, flags)
      /\ UNCHANGED funcs /\ frames # <<>>
      /\ error' = (error \/ Refused(Push(sl), sF, NameOf(it))
                         \/ Undefined(ls, start) \/ Undefined(ls, end))
      /\ Uses(ls, ms) /\ NameOf(it) \notin ms /\ ~Undefined(ls, start)
      /\ sema' = (IF ~Undefined(ls, start) /\ (start # Literal => Resolve(ls, start) # it)
                  THEN sema ELSE "no-type")
      /\ Generate(GenForStmt(it, left))
  BY <1>2 DEF OpenFor, MayOpenControl, MayOpen, Opening, SemaForStmt
<1> HIDE DEF flags
<1>4. ChainOf(ls, seen \union {it})
  BY ShapeFacts, WithParamChain
<1>5. seen \union {it} \subseteq Value
  BY <1>1, ShapeFacts
<1>6. start # Literal => Resolve(ls, start) # it
  <2> SUFFICES ASSUME start # Literal, Resolve(ls, start) = it
               PROVE  FALSE
    OBVIOUS
  <2>1. start \in Name /\ start # NameOf(it)
    BY <1>3 DEF Mention
  <2>2. Resolve(ls, start) # NoDecl
    BY <1>1, ShapeFacts
  <2> HIDE DEF ls
  <2>3. NameOf(Resolve(ls, start)) = start
    BY <1>4, <1>5, <2>1, <2>2, ShapeFacts, ResolveIs
  <2> QED
    BY <2>1, <2>3
<1>7. (error => error') /\ sema' = "ok"
  BY <1>3, <1>6 DEF Visiting
<1>8. [kind |-> "for", void |-> FALSE] \in Frame /\ "for" \in LoopFrame
  BY DEF Frame, LoopFrame
<1>9. ~Generating => /\ UNCHANGED <<gl, vals, loops, irgen>>
                     /\ refs' = {} /\ stored' = NoDecl
  BY <1>3 DEF Generate
<1>10. ASSUME Generating
       PROVE  /\ gl' = in /\ vals' = vals \union {it}
              /\ loops' = Append(loops, Len(frames) + 1)
              /\ irgen' = "ok" /\ Found(refs') /\ stored' = NoDecl
  <2>1. /\ gl' = in /\ vals' = vals \union {it} /\ loops' = Append(loops, Len(frames) + 1)
        /\ refs' = Loaded(outer, left) /\ stored' = NoDecl
        /\ irgen' = (IF AllFound(refs') THEN irgen ELSE "no-address")
    BY <1>2, <1>3, <1>10 DEF Generate, GenForStmt, LoadInFunction, Load
  <2>2. InStep /\ irgen = "ok" /\ ~error'
    BY <1>3, <1>7, <1>10, InStepIs
  <2>3. \A m \in ms : ~Undefined(ls, m) /\ ~IsFunction(ls, m)
    BY <1>3, <2>2 DEF Uses
  <2>4. \A m \in ms : ~Solved(ls, m) => m \in Name /\ m # NameOf(it)
    BY <1>3 DEF Solved, Mention
  <2>5. \A m \in ms : ~Solved(ls, m) => SameFor(sl, ls, m)
    BY <2>4, ShapeFacts, SameWithParam
  <2>6. \A m \in ms : ~Solved(ls, m) => SameFor(gl, outer, m)
    BY <2>4, ShapeFacts, SameWithParam
  <2>7. ChainOf(outer, seen)
    BY <1>2, ShapeFacts, PushIs
  <2>8. ms \subseteq Mention
    OBVIOUS
  <2> HIDE DEF in, outer, ls, ms
  <2>9. Findable(left, outer)
    BY <1>4, <1>5, <2>3, <2>5, <2>6, <2>8, LeftFindable
  <2> HIDE DEF left
  <2>10. Found(refs')
    BY <2>1, <2>2, <2>7, <2>9, LoadsMatch
  <2> QED
    BY <2>1, <2>2, <2>10, FoundAll
<1>11. vals \union {it} = vals \union ({it} \ {None})
  BY <1>1
<1> QED
  BY <1>3, <1>7, <1>8, <1>9, <1>10, <1>11, OpenedMatch

(* What matched d statements matches the outer ones. *)
LEMMA MatchesOuter ==
    ASSUME NEW g, NEW h, NEW s, NEW u, NEW d \in Nat, Matches(g, s, d), NEW e \in Nat, e <= d,
           \A i \in 1 .. e + 1 : h[i] = g[i],
           \A j \in 1 .. 2 * e + 1 : u[j] = s[j]
    PROVE  Matches(h, u, e)
<1>1. Matches(g, s, e)
  <2>1. \A i \in 1 .. e : i \in 1 .. d
    OBVIOUS
  <2> QED
    BY <2>1 DEF Matches
<1> QED
  BY <1>1, MatchesKept

(* The layer of the branch is empty in both again. *)
LEMMA ElseMatch == ASSUME ShapeInv, MatchInv, VisitElse PROVE MatchInv'
<1> DEFINE k == Len(frames)
<1>1. /\ Visiting /\ frames # <<>> /\ frames[k].kind = "if"
      /\ frames' = [frames EXCEPT ![k].kind = "else"]
      /\ sl' = NextBlock(sl)
      /\ UNCHANGED <<funcs, error, sema>>
      /\ Generate(Silent /\ gl' = NextBlock(gl) /\ UNCHANGED <<vals, loops>>)
  BY DEF VisitElse, TopFrame, ReplaceFrame
<1>2. /\ k > 0
      /\ \A i \in 1 .. k - 1 : frames'[i] = frames[i]
      /\ frames'[k].kind = "else"
      /\ Depth(frames') = Depth(frames)
  BY <1>1, ShapeFacts, DepthElse
<1>3. Len(sl) = 2 * k + 1 /\ k \in Nat /\ Len(sl) > 1 /\ ChainOf(sl, seen)
  BY <1>2, ShapeFacts
<1>4. /\ \A i \in 1 .. Len(sl) - 1 : sl'[i] = sl[i]
      /\ sl'[Len(sl)] = EmptyLayer
  BY <1>1, <1>3, NextBlockIs
<1>5. sema' = "ok" /\ (error => error') /\ refs' = {} /\ stored' = NoDecl
  BY <1>1 DEF Visiting, Generate, Silent
<1>6. CASE ~Generating
  <2>1. UNCHANGED <<gl, vals, loops, irgen>>
    BY <1>1, <1>6 DEF Generate
  <2>2. \A j \in 1 .. Len(sl) - 2 : sl'[j] = sl[j]
    BY <1>3, <1>4
  <2> QED
    BY <1>1, <1>2, <1>5, <1>6, <2>1, <2>2, IdleMatch
<1>7. CASE Generating
  <2>1. gl' = NextBlock(gl) /\ vals' = vals /\ loops' = loops /\ irgen' = irgen
    BY <1>1, <1>7 DEF Generate, Silent
  <2>2. /\ InStep /\ irgen = "ok" /\ Matches(gl, sl, k) /\ Stored(gl)
        /\ LoopsAre(loops, frames, k)
    BY <1>1, <1>5, <1>7, InStepIs
  <2>3. Len(gl) = k + 1 /\ Depth(frames') = k
    BY <1>2, <2>2 DEF InStep
  <2>4. /\ Len(gl') = Len(gl)
        /\ \A i \in 1 .. Len(gl) - 1 : gl'[i] = gl[i]
        /\ gl'[Len(gl)] = EmptyLayer
    <3>1. ChainOf(gl, seen) /\ Len(gl) > 1
      BY <1>2, <1>3, <2>3, ShapeFacts
    <3> QED
      BY <2>1, <3>1, NextBlockIs
  <2>5. \A n \in Name : gl'[k + 1].Vars[n] = Merged(sl', k, n)
    <3>1. k \in 1 .. k /\ 2 * k \in 1 .. Len(sl) - 1
      BY <1>2, <1>3
    <3>2. \A n \in Name : sl[2 * k].Vars[n] = NoDecl
      BY <1>1, <3>1 DEF ShapeInv, SemaInv, IfEmpty
    <3>3. gl'[k + 1] = EmptyLayer /\ sl'[2 * k + 1] = EmptyLayer /\ sl'[2 * k] = sl[2 * k]
      BY <1>3, <1>4, <2>3, <2>4, <3>1
    <3> QED
      BY <3>2, <3>3, EmptyLayerIs DEF Merged
  <2> HIDE DEF k
  <2>6. Matches(gl', sl', k)
    <3>1. k - 1 \in Nat /\ k - 1 <= k
      BY <1>2, <1>3
    <3>2. /\ \A i \in 1 .. (k - 1) + 1 : gl'[i] = gl[i]
          /\ \A j \in 1 .. 2 * (k - 1) + 1 : sl'[j] = sl[j]
      BY <1>3, <1>4, <2>3, <2>4
    <3>3. Matches(gl', sl', k - 1)
      BY <1>3, <2>2, <3>1, <3>2, MatchesOuter
    <3>4. \A i \in 1 .. k : i = k \/ i \in 1 .. k - 1
      BY <1>3
    <3> QED
      BY <2>5, <3>3, <3>4 DEF Matches
  <2>7. ASSUME NEW i \in 1 .. Len(gl'), NEW n \in Name, gl'[i].Vars[n] # NoDecl
        PROVE  gl'[i].Vars[n] \in vals'
    <3>1. i # Len(gl)
      BY <2>4, <2>7, EmptyLayerIs
    <3>2. i \in 1 .. Len(gl) - 1 /\ i \in 1 .. Len(gl)
      BY <1>3, <2>3, <2>4, <3>1
    <3> QED
      BY <2>1, <2>2, <2>4, <2>7, <3>2 DEF Stored
  <2>8. LoopsAre(loops, frames', k)
    <3>1. ASSUME NEW i \in 1 .. k
          PROVE  frames'[i].kind \in LoopFrame <=> frames[i].kind \in LoopFrame
      <4>1. CASE i = k
        BY <1>1, <1>2, <4>1 DEF LoopFrame, k
      <4>2. CASE i # k
        <5>1. i \in 1 .. k - 1
          BY <1>3, <4>2
        <5> QED
          BY <1>2, <5>1 DEF k
      <4> QED
        BY <4>1, <4>2
    <3> QED
      BY <2>2, <3>1 DEF LoopsAre
  <2>9. MatchNow(k)
    BY <2>1, <2>2, <2>6, <2>7, <2>8 DEF MatchNow
  <2> QED
    BY <1>1, <1>5, <2>3, <2>9, MatchNext, NothingFound
<1> QED
  BY <1>6, <1>7

LEMMA ClosingMatch ==
    ASSUME ShapeInv, MatchInv, Closing, vals' = vals,
           ~Generating => UNCHANGED <<gl, loops, irgen>>,
           Generating => /\ gl' = Pop(gl) /\ irgen' = irgen
                         /\ LoopsAre(loops', frames, Len(frames) - 1),
           refs' = {}, stored' = NoDecl
    PROVE  MatchInv'
<1> DEFINE k == Len(frames)
<1>1. Visiting /\ UNCHANGED <<funcs, error, sema>>
  BY DEF Closing, SemaClose
<1>2. /\ k > 0
      /\ \A i \in 1 .. Len(frames') : frames'[i] = frames[i]
      /\ Len(frames') = k - 1
      /\ Depth(frames') = IF Depth(frames) = k THEN k - 1 ELSE Depth(frames)
      /\ \A i \in 1 .. Len(sl) - 2 : sl'[i] = sl[i]
  BY ClosingIs
<1>3. Len(sl) = 2 * k + 1 /\ k \in Nat
  BY ShapeFacts
<1>4. sema' = "ok" /\ (error => error')
  BY <1>1 DEF Visiting
<1>5. CASE ~Generating
  <2>1. Depth(frames) # Len(frames) => Depth(frames') = Depth(frames)
    BY <1>2
  <2>2. \A i \in 1 .. Len(frames) - 1 : frames'[i] = frames[i]
    BY <1>2
  <2>3. UNCHANGED <<funcs, gl, vals, loops, irgen>>
    BY <1>1, <1>5
  <2> QED
    BY <1>1, <1>2, <1>4, <1>5, <2>1, <2>2, <2>3, IdleMatch
<1>6. CASE Generating
  <2>1. /\ InStep /\ irgen = "ok" /\ Matches(gl, sl, k) /\ Stored(gl)
    BY <1>1, <1>4, <1>6, InStepIs
  <2>2. Len(gl) = k + 1 /\ Depth(frames') = k - 1
    BY <1>2, <2>1 DEF InStep
  <2>3. Len(gl') = Len(gl) - 1 /\ \A i \in 1 .. Len(gl) - 1 : gl'[i] = gl[i]
    <3>1. ChainOf(gl, seen) /\ Len(gl) > 1
      BY <1>2, <1>3, <2>2, ShapeFacts
    <3> QED
      BY <1>6, <3>1, PopIs
  <2>4. LoopsAre(loops', frames', k - 1)
    <3>1. LoopsAre(loops', frames, k - 1) /\ \A i \in 1 .. k - 1 : frames'[i].kind = frames[i].kind
      BY <1>2, <1>6
    <3> HIDE DEF k
    <3> QED
      BY <3>1, LoopsKept
  <2>5. irgen' = "ok"
    BY <1>6, <2>1
  <2> HIDE DEF k
  <2>6. Matches(gl', sl', k - 1)
    <3>1. k - 1 \in Nat /\ k - 1 <= k
      BY <1>2, <1>3
    <3>2. /\ \A i \in 1 .. (k - 1) + 1 : gl'[i] = gl[i]
          /\ \A j \in 1 .. 2 * (k - 1) + 1 : sl'[j] = sl[j]
      BY <1>2, <1>3, <2>2, <2>3
    <3> QED
      BY <1>3, <2>1, <3>1, <3>2, MatchesOuter
  <2>7. ASSUME NEW i \in 1 .. Len(gl'), NEW n \in Name, gl'[i].Vars[n] # NoDecl
        PROVE  gl'[i].Vars[n] \in vals'
    <3>1. i \in 1 .. Len(gl) - 1 /\ i \in 1 .. Len(gl)
      BY <1>3, <2>2, <2>3
    <3> QED
      BY <2>1, <2>3, <2>7, <3>1 DEF Stored
  <2>8. MatchNow(k - 1)
    BY <2>4, <2>5, <2>6, <2>7 DEF MatchNow
  <2> QED
    BY <1>1, <1>4, <2>2, <2>8, MatchNext, NothingFound
<1> QED
  BY <1>5, <1>6

LEMMA NoLoopEnds ==
    ASSUME NEW ls, NEW fs, NEW k \in Nat, LoopsAre(ls, fs, k), fs[k].kind \notin LoopFrame
    PROVE  LoopsAre(ls, fs, k - 1)
<1>1. ASSUME NEW i \in 1 .. Len(ls)
      PROVE  ls[i] \in 1 .. k - 1 /\ fs[ls[i]].kind \in LoopFrame
  <2>1. ls[i] \in 1 .. k /\ fs[ls[i]].kind \in LoopFrame
    BY DEF LoopsAre
  <2>2. ls[i] # k
    BY <2>1
  <2> QED
    BY <2>1, <2>2
<1>2. \A x \in 1 .. k - 1 : x \in 1 .. k
  OBVIOUS
<1> QED
  BY <1>1, <1>2 DEF LoopsAre

(* The loop that ends is the one that was pushed last. *)
LEMMA LoopEnds ==
    ASSUME NEW S, NEW ls \in Seq(S), NEW fs, NEW k \in Nat, k > 0, LoopsAre(ls, fs, k),
           fs[k].kind \in LoopFrame
    PROVE  LoopsAre(Pop(ls), fs, k - 1)
<1> DEFINE u == Pop(ls)
           l == Len(ls)
<1>1. l \in Nat
  OBVIOUS
<1>2. PICK i \in 1 .. l : ls[i] = k
  <2>1. k \in 1 .. k
    OBVIOUS
  <2> QED
    BY <2>1 DEF LoopsAre
<1>3. l \in 1 .. l
  BY <1>1
<1>4. ls[l] = k
  <2>1. ls[l] \in 1 .. k
    BY <1>3 DEF LoopsAre
  <2>2. i < l => ls[i] < ls[l]
    BY <1>3 DEF LoopsAre
  <2>3. i < l \/ i = l
    BY <1>1
  <2> QED
    BY <1>2, <2>1, <2>2, <2>3
<1>5. Len(u) = l - 1 /\ \A j \in 1 .. l - 1 : u[j] = ls[j]
  <2>1. Len(ls) > 0
    BY <1>3
  <2> QED
    BY <2>1, FrontIs DEF Pop
<1> HIDE DEF u, l
<1>6. \A j \in 1 .. Len(u) : j \in 1 .. l /\ j < l /\ u[j] = ls[j]
  BY <1>1, <1>5
<1>7. ASSUME NEW j \in 1 .. Len(u)
      PROVE  u[j] \in 1 .. k - 1 /\ fs[u[j]].kind \in LoopFrame
  <2>1. ls[j] \in 1 .. k /\ fs[ls[j]].kind \in LoopFrame /\ ls[j] < ls[l]
    BY <1>3, <1>6 DEF LoopsAre, l
  <2>2. ls[j] \in 1 .. k - 1
    BY <1>4, <2>1
  <2> QED
    BY <1>6, <2>1, <2>2
<1>8. \A j, m \in 1 .. Len(u) : j < m => u[j] < u[m]
  BY <1>6 DEF LoopsAre, l
<1>9. ASSUME NEW x \in 1 .. k - 1, fs[x].kind \in LoopFrame
      PROVE  \E j \in 1 .. Len(u) : u[j] = x
  <2>1. PICK j \in 1 .. l : ls[j] = x
    <3>1. x \in 1 .. k
      OBVIOUS
    <3> QED
      BY <1>9, <3>1 DEF LoopsAre, l
  <2>2. j # l
    BY <1>4, <2>1
  <2>3. j \in 1 .. l - 1
    BY <1>1, <2>2
  <2> QED
    BY <1>5, <2>1, <2>3
<1> QED
  BY <1>7, <1>8, <1>9 DEF LoopsAre, u

LEMMA CloseMatch == ASSUME ShapeInv, MatchInv, CloseIf \/ CloseFunc PROVE MatchInv'
<1> DEFINE k == Len(frames)
<1>1. Closing /\ frames[k].kind \notin LoopFrame
  BY DEF CloseIf, CloseFunc, Closing, TopFrame, LoopFrame
<1>2. /\ vals' = vals /\ refs' = {} /\ stored' = NoDecl
      /\ ~Generating => UNCHANGED <<gl, loops, irgen>>
      /\ Generating => gl' = Pop(gl) /\ irgen' = irgen /\ loops' = loops
  BY DEF CloseIf, CloseFunc, Generate, GenCloseIf, Silent
<1>3. Visiting /\ (error => error')
  BY <1>1 DEF Closing, SemaClose
<1>4. ASSUME Generating
      PROVE  LoopsAre(loops', frames, k - 1)
  <2>1. LoopsAre(loops, frames, k) /\ k \in Nat
    BY <1>3, <1>4, InStepIs, ShapeFacts
  <2> HIDE DEF k
  <2>2. LoopsAre(loops, frames, k - 1)
    BY <1>1, <2>1, NoLoopEnds
  <2> QED
    BY <1>2, <1>4, <2>2
<1> QED
  BY <1>1, <1>2, <1>4, ClosingMatch

LEMMA CloseLoopMatch == ASSUME ShapeInv, MatchInv, CloseLoop PROVE MatchInv'
<1> DEFINE k == Len(frames)
<1>1. Closing /\ frames[k].kind \in LoopFrame
  BY DEF CloseLoop, Closing, TopFrame, LoopFrame
<1>2. /\ vals' = vals /\ refs' = {} /\ stored' = NoDecl
      /\ ~Generating => UNCHANGED <<gl, loops, irgen>>
      /\ Generating => gl' = Pop(gl) /\ irgen' = irgen /\ loops' = Pop(loops)
  BY DEF CloseLoop, Generate, Silent
<1>3. Visiting /\ (error => error')
  BY <1>1 DEF Closing, SemaClose
<1>4. ASSUME Generating
      PROVE  LoopsAre(loops', frames, k - 1)
  <2>1. LoopsAre(loops, frames, k)
    BY <1>3, <1>4, InStepIs
  <2>2. k \in Nat /\ k > 0 /\ loops \in Seq(1 .. MaxFrames)
    BY <1>1, ClosingIs, ShapeFacts DEF ShapeInv, GenInv
  <2> HIDE DEF k
  <2>3. LoopsAre(Pop(loops), frames, k - 1)
    BY <1>1, <2>1, <2>2, LoopEnds
  <2> QED
    BY <1>2, <1>4, <2>3
<1> QED
  BY <1>1, <1>2, <1>4, ClosingMatch

(* No function is redefined, so all of them are declared. *)
LEMMA DeclareFuncsMatch == ASSUME ShapeInv, MatchInv, DeclareFuncs PROVE MatchInv'
<1>1. Forward = Len(funcs)
  BY ForwardIs DEF ShapeInv, AstInv, MatchInv
<1>2. Len(funcs) \in Nat
  BY DEF ShapeInv, AstInv, FuncLists
<1>3. /\ irgen' = irgen
      /\ UNCHANGED <<funcs, frames, sl, error, sema, gl, vals, loops, refs, stored>>
  BY <1>1, <1>2 DEF DeclareFuncs
<1>4. /\ (Distinct(Len(funcs)))' <=> Distinct(Len(funcs))
      /\ Agree' <=> Agree
      /\ (Matches(gl, sl, Depth(frames)))' <=> Matches(gl, sl, Depth(frames))
      /\ (Stored(gl))' <=> Stored(gl)
      /\ (LoopsAre(loops, frames, Depth(frames)))' <=> LoopsAre(loops, frames, Depth(frames))
  BY <1>3 DEF Distinct, Agree, Matches, Merged, Depth, Stored, LoopsAre
<1> QED
  BY <1>3, <1>4 DEF MatchInv

LEMMA InitMatch == Odd = {} => (Init => MatchInv)
<1> SUFFICES ASSUME Odd = {}, Init
             PROVE  MatchInv
  OBVIOUS
<1>1. /\ Distinct(Len(funcs))
      /\ frames = <<>> /\ sl = <<EmptyLayer>> /\ sema = "ok"
      /\ gl = <<EmptyLayer>> /\ loops = <<>>
      /\ irgen = "ok" /\ refs = {} /\ stored = NoDecl
  BY DEF Init
<1>2. Depth(frames) = 0
  <2>1. frames \in Seq(Frame) /\ Len(frames) = 0
    BY <1>1
  <2>2. Depth(frames) \in 0 .. Len(frames)
    BY <2>1, DepthGenerating
  <2> QED
    BY <2>1, <2>2
<1>3. Matches(gl, sl, 0) /\ LoopsAre(loops, frames, 0)
  BY <1>1 DEF Matches, LoopsAre
<1>4. Stored(gl)
  <2> SUFFICES ASSUME NEW i \in 1 .. Len(gl), NEW n \in Name
               PROVE  gl[i].Vars[n] = NoDecl
    BY DEF Stored
  <2>1. i = 1
    BY <1>1
  <2> QED
    BY <1>1, <2>1, EmptyLayerIs
<1> QED
  BY <1>1, <1>2, <1>3, <1>4, NothingFound DEF MatchInv, Agree

LEMMA StutterMatch == ASSUME MatchInv, UNCHANGED vars PROVE MatchInv'
<1>1. UNCHANGED <<funcs, frames, sl, error, sema, gl, vals, loops, irgen, refs, stored>>
  BY DEF vars, astVars, semaVars, genVars
<1>2. /\ (Distinct(Len(funcs)))' <=> Distinct(Len(funcs))
      /\ Agree' <=> Agree
      /\ (Matches(gl, sl, Depth(frames)))' <=> Matches(gl, sl, Depth(frames))
      /\ (Stored(gl))' <=> Stored(gl)
      /\ (LoopsAre(loops, frames, Depth(frames)))' <=> LoopsAre(loops, frames, Depth(frames))
  BY <1>1 DEF Distinct, Agree, Matches, Merged, Depth, Stored, LoopsAre
<1> QED
  BY <1>1, <1>2 DEF MatchInv

LEMMA NextMatch == Odd = {} => (ShapeInv /\ MatchInv /\ [Next]_vars => MatchInv')
<1> SUFFICES ASSUME Odd = {}, ShapeInv, MatchInv, [Next]_vars
             PROVE  MatchInv'
  OBVIOUS
<1>1. CASE DeclareFuncs
  BY <1>1, DeclareFuncsMatch
<1>2. CASE \E d \in Value, init \in Mention \union {None} : VisitVarDecl(d, init)
  BY <1>2, VarDeclMatch
<1>3. CASE \E n \in Name : VisitUse(n) \/ VisitCall(n)
  BY <1>3, UseMatch, CallMatch
<1>4. CASE \E n \in Name, m \in Mention : VisitAssign(n, m)
  BY <1>4, AssignMatch
<1>5. CASE VisitBreak
  BY <1>5, BreakMatch
<1>6. CASE VisitReturnAtTop
  BY <1>6 DEF VisitReturnAtTop
<1>7. CASE \E m \in Mention \union {None} : VisitReturn(m)
  BY <1>7, ReturnMatch
<1>8. CASE \E p \in Let \union {None}, void \in BOOLEAN :
              OpenFunc(p, void) \/ OpenLocalFunc(p, void)
  BY <1>8, OpenFuncMatch, OpenLocalFuncMatch
<1>9. CASE \E m \in Mention : OpenIf(m) \/ OpenWhile(m)
  BY <1>9, OpenIfMatch, OpenWhileMatch
<1>10. CASE \E it \in Let, start, end \in Mention : OpenFor(it, start, end)
  BY <1>10, OpenForMatch
<1>11. CASE VisitElse
  BY <1>11, ElseMatch
<1>12. CASE CloseIf \/ CloseFunc
  BY <1>12, CloseMatch
<1>13. CASE CloseLoop
  BY <1>13, CloseLoopMatch
<1>14. CASE UNCHANGED vars
  BY <1>14, StutterMatch
<1> QED
  BY <1>1, <1>2, <1>3, <1>4, <1>5, <1>6, <1>7, <1>8, <1>9, <1>10, <1>11, <1>12,
     <1>13, <1>14 DEF Next

LEMMA MatchInvariant == Odd = {} => (Spec => [](ShapeInv /\ MatchInv))
<1> SUFFICES ASSUME Odd = {}
             PROVE  Spec => [](ShapeInv /\ MatchInv)
  OBVIOUS
<1>1. Init => ShapeInv /\ MatchInv
  BY InitShape, InitMatch
<1>2. (ShapeInv /\ MatchInv) /\ [Next]_vars => (ShapeInv /\ MatchInv)'
  BY NextShape, NextMatch
<1> QED
  BY <1>1, <1>2, PTL DEF Spec

-----------------------------------------------------------------------------
(* What the invariant says of accepted modules *)

(* In a module without the oddities, the type checker and the code generator *)
(* give every use the same declaration (ExprChecker::visitIdentifierExpr,    *)
(* IRGenModule::getVal).                                                     *)
THEOREM PassesAgree == Odd = {} => (Spec => []Agree)
<1>1. MatchInv => Agree
  BY DEF MatchInv
<1> QED
  BY <1>1, MatchInvariant, PTL

(* In such a module no pass comes to an assertion or to a null pointer. *)
THEOREM NoPassCrashes == Odd = {} => (Spec => []NoCrash)
<1>1. MatchInv => NoCrash
  BY DEF MatchInv, NoCrash
<1> QED
  BY <1>1, MatchInvariant, PTL

(* In such a module no accepted assignment writes a constant, a parameter *)
(* or an iterator (ensureMutable, GenFunc::emitAssign).                   *)
THEOREM ConstantsAreKept == Odd = {} => (Spec => []ConstantsKept)
<1>1. MatchInv => ConstantsKept
  BY DEF MatchInv, ConstantsKept
<1> QED
  BY <1>1, MatchInvariant, PTL

(* The shape of the invariant is that of TypeOK. *)
LEMMA TypesHold == ShapeInv => TypeOK
<1> SUFFICES ASSUME ShapeInv
             PROVE  TypeOK
  OBVIOUS
<1>1. /\ funcs \in FuncLists /\ next \in 0 .. Len(funcs) + 1
      /\ frames \in Seq(Frame) /\ Len(frames) <= MaxFrames
      /\ seen \subseteq Value
  BY DEF ShapeInv, AstInv
<1>2. Chain(sl) /\ Chain(gl)
  BY ShapeFacts DEF ChainOf, Chain
<1>3. /\ Len(sl) = 2 * Len(frames) + 1 /\ Len(scopes) = Len(sl)
      /\ sF \in [Name -> Func \union {NoDecl}]
      /\ literals \subseteq seen \intersect Let
      /\ error \in BOOLEAN
  BY DEF ShapeInv, SemaInv
<1>4. sema \in {"ok", "no-type", "no-function"}
  BY DEF ShapeInv, SemaInv, SemaStates
<1>5. /\ gF = sF /\ vals \subseteq seen /\ loops \in Seq(1 .. MaxFrames)
      /\ Accepted /\ irgen = "ok" => Len(gl) = GenDepth + 1
  BY DEF ShapeInv, GenInv, Depth, GenDepth
<1>6. irgen \in {"ok", "redefinition", "no-address", "not-a-constant",
                  "no-callee", "no-loop", "unexpected-node"}
  BY DEF ShapeInv, GenInv, GenStates
<1>7. /\ \A r \in refs : r \in (Value \union Func) \X (Value \union Func \union {NoDecl})
      /\ stored \in Value \union {NoDecl}
  BY DEF ShapeInv, RefInv, RefsIn
<1>8. {sF, gF} \subseteq [Name -> Func \union {NoDecl}]
  BY <1>3, <1>5
<1> QED
  BY <1>1, <1>2, <1>3, <1>4, <1>5, <1>6, <1>7, <1>8 DEF TypeOK

(* In such a module the one layer that the code generator has for a         *)
(* statement holds what the two of the type checker hold, name by name, so  *)
(* that they agree on names that nobody has mentioned yet.                  *)
THEOREM TablesMatch == Odd = {} => (Spec => []LayersMatch)
<1>1. ShapeInv /\ MatchInv => LayersMatch
  <2> SUFFICES ASSUME ShapeInv, MatchInv
               PROVE  LayersMatch
    OBVIOUS
  <2>1. TypeOK
    BY TypesHold
  <2>2. ASSUME Accepted
        PROVE  Matches(gl, sl, GenDepth) /\ gF = sF
    <3>1. GenDepth = Depth(frames)
      BY DEF GenDepth, Depth
    <3> QED
      BY <2>2, <3>1, ShapeFacts DEF MatchInv, Accepted
  <2> QED
    BY <2>1, <2>2 DEF LayersMatch, Matches, Merged
<1> QED
  BY <1>1, MatchInvariant, PTL

=============================================================================
