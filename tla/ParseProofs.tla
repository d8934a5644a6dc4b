---------------------------- MODULE ParseProofs ----------------------------
(***************************************************************************)
(* Theorems about the parser, for files of any length: it reads nothing    *)
(* but files of the grammar (Implements), what it accepts has all its      *)
(* parts, it does not refuse in silence, and it refuses a token only where *)
(* the grammar does or in the places listed (RefusesOnlyErrors).           *)
(*                                                                         *)
(* What the calls still have to read is the concatenation of what each of  *)
(* them has (Expected), so the first part is about FlattenSeq.  A step of  *)
(* the parser only replaces the innermost call; the second part is about   *)
(* the shapes such a step has, and the third goes through the methods.     *)
(*                                                                         *)
(* The last theorem is about single tokens: which begin a symbol (Begins), *)
(* which begin the rest of a method (Starts), and which may come behind it *)
(* (MayFollow); the methods are gone through once more with these.         *)
(***************************************************************************)
EXTENDS Parse, SequenceTheorems, WellFoundedInduction, TLAPS

-----------------------------------------------------------------------------
(* A set of numbers has a least one: the induction that is possible here. *)
LEMMA LeastExists ==
    ASSUME NEW S, S \subseteq Nat, S # {}
    PROVE  \E m \in S : \A k \in S : m <= k
<1>1. PICK m \in S : \A k \in S : ~(<<k, m>> \in OpToRel(<, Nat))
  BY NatLessThanWellFounded, WFMin
<1>2. \A k \in S : ~(k < m)
  BY <1>1 DEF OpToRel
<1> QED
  BY <1>2

(* f is what FlattenSeq computes of the first n sequences of s. *)
Joins(s, n, f) ==
    f = [i \in 1 .. n |-> IF i = 1 THEN s[i] ELSE f[i - 1] \o s[i]]

(* FlattenSeq takes its function by CHOOSE: there is one, and what is true *)
(* of any is true of all.                                                  *)
LEMMA JoinsExist ==
    ASSUME NEW s, NEW n \in Nat
    PROVE  \E f : Joins(s, n, f)
<1> DEFINE Bad == {k \in Nat : ~\E f : Joins(s, k, f)}
<1>1. SUFFICES Bad = {}
  OBVIOUS
<1>2. SUFFICES ASSUME Bad # {} PROVE FALSE
  OBVIOUS
<1>3. PICK k \in Bad : \A j \in Bad : k <= j
  <2> HIDE DEF Bad
  <2>1. Bad \subseteq Nat
    BY DEF Bad
  <2> QED
    BY <1>2, <2>1, LeastExists
<1>4. k # 0
  <2>1. Joins(s, 0, <<>>)
    BY DEF Joins
  <2> QED
    BY <2>1
<1>5. PICK f : Joins(s, k - 1, f)
  BY <1>3, <1>4
<1> DEFINE g == [i \in 1 .. k |-> IF i # k THEN f[i]
                                  ELSE IF i = 1 THEN s[i] ELSE f[i - 1] \o s[i]]
<1>6. \A i \in 1 .. k : g[i] = IF i = 1 THEN s[i] ELSE g[i - 1] \o s[i]
  <2>1. \A i \in 1 .. k - 1 : f[i] = IF i = 1 THEN s[i] ELSE f[i - 1] \o s[i]
    BY <1>5 DEF Joins
  <2>2. \A i \in 1 .. k : i # 1 => i - 1 \in 1 .. k - 1 /\ i - 1 # k
    OBVIOUS
  <2>3. \A i \in 1 .. k : i # k => i \in 1 .. k - 1
    OBVIOUS
  <2> QED
    BY <2>1, <2>2, <2>3
<1>7. Joins(s, k, g)
  BY <1>6 DEF Joins
<1> QED
  BY <1>3, <1>7

LEMMA FlattenIs ==
    ASSUME NEW s, Len(s) \in Nat, Len(s) # 0
    PROVE  \E f : Joins(s, Len(s), f) /\ FlattenSeq(s) = f[Len(s)]
<1>1. PICK f : Joins(s, Len(s), f)
  BY JoinsExist
<1> QED
  BY <1>1 DEF FlattenSeq, Joins

LEMMA JoinsAt ==
    ASSUME NEW s, NEW n, NEW f, Joins(s, n, f), NEW i \in 1 .. n
    PROVE  f[i] = IF i = 1 THEN s[i] ELSE f[i - 1] \o s[i]
BY DEF Joins

LEMMA JoinsAgree ==
    ASSUME NEW s, NEW t, NEW n \in Nat, NEW m \in Nat, n <= m,
           NEW f, Joins(s, n, f), NEW g, Joins(t, m, g),
           \A i \in 1 .. n : s[i] = t[i]
    PROVE  \A i \in 1 .. n : f[i] = g[i]
<1> DEFINE Bad == {i \in 1 .. n : f[i] # g[i]}
<1>1. SUFFICES ASSUME Bad # {} PROVE FALSE
  OBVIOUS
<1>2. PICK i \in Bad : \A j \in Bad : i <= j
  <2>1. Bad \subseteq Nat
    OBVIOUS
  <2> HIDE DEF Bad
  <2> QED
    BY <1>1, <2>1, LeastExists
<1>3. f[i] = (IF i = 1 THEN s[i] ELSE f[i - 1] \o s[i])
  BY JoinsAt
<1>4. g[i] = (IF i = 1 THEN t[i] ELSE g[i - 1] \o t[i])
  <2>1. i \in 1 .. m
    OBVIOUS
  <2> HIDE DEF Bad
  <2> QED
    BY ONLY Joins(t, m, g), <2>1, JoinsAt
<1>5. i # 1 => f[i - 1] = g[i - 1]
  <2>1. i # 1 => i - 1 \in 1 .. n /\ ~(i <= i - 1)
    OBVIOUS
  <2> QED
    BY <1>2, <2>1
<1> QED
  BY <1>2, <1>3, <1>4, <1>5

LEMMA JoinsType ==
    ASSUME NEW S, NEW n \in Nat, NEW s, \A i \in 1 .. n : s[i] \in Seq(S),
           NEW f, Joins(s, n, f)
    PROVE  \A i \in 1 .. n : f[i] \in Seq(S)
<1> DEFINE Bad == {i \in 1 .. n : f[i] \notin Seq(S)}
<1>1. SUFFICES ASSUME Bad # {} PROVE FALSE
  OBVIOUS
<1>2. PICK i \in Bad : \A j \in Bad : i <= j
  <2>1. Bad \subseteq Nat
    OBVIOUS
  <2> HIDE DEF Bad
  <2> QED
    BY <1>1, <2>1, LeastExists
<1>3. f[i] = (IF i = 1 THEN s[i] ELSE f[i - 1] \o s[i])
  BY JoinsAt
<1>4. i # 1 => f[i - 1] \in Seq(S)
  <2>1. i # 1 => i - 1 \in 1 .. n /\ ~(i <= i - 1)
    OBVIOUS
  <2> QED
    BY <1>2, <2>1
<1>5. i # 1 => f[i - 1] \o s[i] \in Seq(S)
  BY <1>4, ConcatProperties
<1> QED
  BY <1>2, <1>3, <1>5

(* FlattenSeq of none, one and two sequences of sequences *)
LEMMA FlattenNone == FlattenSeq(<<>>) = <<>>
BY DEF FlattenSeq

LEMMA FlattenType ==
    ASSUME NEW S, NEW s \in Seq(Seq(S))
    PROVE  FlattenSeq(s) \in Seq(S)
<1>1. CASE Len(s) = 0
  <2>1. s = <<>>
    BY <1>1, EmptySeq
  <2> QED
    BY <2>1, FlattenNone, EmptySeq
<1>2. CASE Len(s) # 0
  <2>1. Len(s) \in Nat /\ \A i \in 1 .. Len(s) : s[i] \in Seq(S)
    BY LenProperties, ElementOfSeq
  <2>2. PICK f : Joins(s, Len(s), f) /\ FlattenSeq(s) = f[Len(s)]
    BY <1>2, <2>1, FlattenIs
  <2>3. \A i \in 1 .. Len(s) : f[i] \in Seq(S)
    BY <2>1, <2>2, JoinsType
  <2> QED
    BY <1>2, <2>1, <2>2, <2>3
<1> QED
  BY <1>1, <1>2

LEMMA FlattenOne ==
    ASSUME NEW s, Len(s) = 1
    PROVE  FlattenSeq(s) = s[1]
<1>1. Len(s) \in Nat /\ Len(s) # 0
  OBVIOUS
<1>2. PICK f : Joins(s, Len(s), f) /\ FlattenSeq(s) = f[Len(s)]
  BY <1>1, FlattenIs
<1>3. 1 \in 1 .. Len(s)
  OBVIOUS
<1>4. f[1] = s[1]
  BY <1>2, <1>3, JoinsAt
<1> QED
  BY <1>2, <1>4

(* u is made of the first m sequences of s and the first n of t. *)
Prefix(s, u, m) == \A i \in 1 .. m : s[i] = u[i]

Suffix(t, u, m, n) == \A i \in 1 .. n : u[m + i] = t[i]

OfSeqs(s, m, S) == \A i \in 1 .. m : s[i] \in Seq(S)

LengthIs(k, m, n) == k = m + n

(* The sequence h has computed at m + i. *)
Joined(f, g, h, m, i) == h[m + i] = f[m] \o g[i]

LEMMA JoinsStart ==
    ASSUME NEW m \in Nat \ {0}, NEW k \in Nat, m <= k,
           NEW s, NEW u, Prefix(s, u, m),
           NEW f, Joins(s, m, f), NEW h, Joins(u, k, h)
    PROVE  h[m] = f[m]
<1>1. \A i \in 1 .. m : s[i] = u[i]
  BY DEF Prefix
<1>2. \A i \in 1 .. m : f[i] = h[i]
  BY <1>1, JoinsAgree
<1> QED
  BY <1>2

LEMMA Regroup ==
    ASSUME NEW S, NEW a, a \in Seq(S), NEW b, b \in Seq(S), NEW c, c \in Seq(S)
    PROVE  (a \o b) \o c = a \o (b \o c)
BY ConcatAssociative

LEMMA JoinsGoesOn ==
    ASSUME NEW S, NEW m \in Nat \ {0}, NEW n \in Nat \ {0}, NEW k, LengthIs(k, m, n),
           NEW t, OfSeqs(t, n, S), NEW u, Suffix(t, u, m, n),
           NEW f, f[m] \in Seq(S), NEW g, Joins(t, n, g), NEW h, Joins(u, k, h),
           h[m] = f[m], NEW i \in 1 .. n, i = 1 \/ Joined(f, g, h, m, i - 1)
    PROVE  Joined(f, g, h, m, i)
<1>1. k = m + n
  BY DEF LengthIs
<1>2. PICK j \in 1 .. k : j = m + i /\ j # 1 /\ j - 1 = m + (i - 1)
  BY <1>1
<1>3. ASSUME NEW a, a = h[j - 1], NEW b, b = u[j]
      PROVE  h[j] = a \o b
  <2>1. j # 1 /\ j \in 1 .. k
    BY <1>2
  <2>2. Joins(u, k, h)
    OBVIOUS
  <2> QED
    BY ONLY <1>3, <2>1, <2>2 DEF Joins
<1>4. u[j] = t[i]
  BY <1>2 DEF Suffix
<1>5. g[i] = IF i = 1 THEN t[i] ELSE g[i - 1] \o t[i]
  BY JoinsAt
<1>6. SUFFICES h[j] = f[m] \o g[i]
  BY <1>2 DEF Joined
<1>7. CASE i = 1
  <2>1. h[j - 1] = f[m]
    BY <1>2, <1>7
  <2> QED
    BY <1>3, <1>4, <1>5, <1>7, <2>1
<1>8. CASE i # 1
  <2>1. i - 1 \in 1 .. n
    BY <1>8
  <2>2. PICK a \in Seq(S) : a = f[m]
    OBVIOUS
  <2>3. PICK b \in Seq(S) : b = g[i - 1]
    BY <2>1, JoinsType DEF OfSeqs
  <2>4. PICK c \in Seq(S) : c = t[i]
    BY DEF OfSeqs
  <2>5. h[j - 1] = a \o b
    BY <1>2, <1>8, <2>2, <2>3 DEF Joined
  <2>6. h[j] = (a \o b) \o c
    BY <1>3, <1>4, <2>4, <2>5
  <2>7. (a \o b) \o c = a \o (b \o c)
    BY ConcatAssociative
  <2>8. g[i] = b \o c
    BY <1>5, <1>8, <2>3, <2>4
  <2> QED
    BY <2>2, <2>6, <2>7, <2>8
<1> QED
  BY <1>7, <1>8

LEMMA FlattenConcat ==
    ASSUME NEW S, NEW s \in Seq(Seq(S)), NEW t \in Seq(Seq(S))
    PROVE  FlattenSeq(s \o t) = FlattenSeq(s) \o FlattenSeq(t)
<1>1. PICK m \in Nat : m = Len(s)
  BY LenProperties
<1>2. PICK n \in Nat : n = Len(t)
  BY LenProperties
<1>3. PICK u \in Seq(Seq(S)) : u = s \o t
  BY ConcatProperties
<1>4. PICK k \in Nat : k = Len(u)
  BY LenProperties
<1>5. LengthIs(k, m, n) /\ Prefix(s, u, m) /\ Suffix(t, u, m, n)
  <2>1. k = m + n
    BY <1>1, <1>2, <1>3, <1>4, ConcatProperties
  <2>2. \A i \in 1 .. m + n : u[i] = IF i <= m THEN s[i] ELSE t[i - m]
    BY <1>1, <1>2, <1>3, <1>4, ConcatProperties
  <2>3. ASSUME NEW i \in 1 .. m
        PROVE  s[i] = u[i]
    <3>1. i \in 1 .. m + n /\ i <= m
      OBVIOUS
    <3> QED
      BY <2>2, <3>1
  <2>4. ASSUME NEW i \in 1 .. n
        PROVE  u[m + i] = t[i]
    <3>1. m + i \in 1 .. m + n /\ ~(m + i <= m) /\ m + i - m = i
      OBVIOUS
    <3> QED
      BY <2>2, <3>1
  <2> QED
    BY <2>1, <2>3, <2>4 DEF LengthIs, Prefix, Suffix
<1>6. FlattenSeq(s) \in Seq(S) /\ FlattenSeq(t) \in Seq(S)
  BY FlattenType
<1>7. OfSeqs(s, m, S) /\ OfSeqs(t, n, S)
  BY <1>1, <1>2, ElementOfSeq DEF OfSeqs
<1>8. CASE m = 0
  <2>1. s = <<>>
    BY <1>1, <1>8, EmptySeq
  <2> QED
    BY <2>1, <1>6, FlattenNone, ConcatEmptySeq
<1>9. CASE n = 0
  <2>1. t = <<>>
    BY <1>2, <1>9, EmptySeq
  <2> QED
    BY <2>1, <1>6, FlattenNone, ConcatEmptySeq
<1>10. CASE m # 0 /\ n # 0
  <2>1. k # 0
    BY <1>5, <1>10 DEF LengthIs
  <2>2. PICK f : Joins(s, m, f) /\ FlattenSeq(s) = f[m]
    BY <1>1, <1>10, FlattenIs
  <2>3. PICK g : Joins(t, n, g) /\ FlattenSeq(t) = g[n]
    BY <1>2, <1>10, FlattenIs
  <2>4. PICK h : Joins(u, k, h) /\ FlattenSeq(u) = h[k]
    BY <1>4, <2>1, FlattenIs
  <2>5. h[m] = f[m]
    <3>1. m <= k
      BY <1>5 DEF LengthIs
    <3> QED
      BY <1>5, <1>10, <2>2, <2>4, <3>1, JoinsStart
  <2>6. f[m] \in Seq(S)
    BY <1>6, <2>2
  <2> DEFINE Bad == {i \in 1 .. n : ~Joined(f, g, h, m, i)}
  <2>7. Bad = {}
    <3>1. SUFFICES ASSUME Bad # {} PROVE FALSE
      OBVIOUS
    <3>2. PICK i \in Bad : \A j \in Bad : i <= j
      <4>1. Bad \subseteq Nat
        OBVIOUS
      <4> HIDE DEF Bad
      <4> QED
        BY <3>1, <4>1, LeastExists
    <3>3. i = 1 \/ Joined(f, g, h, m, i - 1)
      <4>1. i # 1 => i - 1 \in 1 .. n /\ ~(i <= i - 1)
        OBVIOUS
      <4> QED
        BY <3>2, <4>1
    <3>4. i \in 1 .. n /\ m \in Nat \ {0} /\ n \in Nat \ {0}
      BY <1>10
    <3>5. Joined(f, g, h, m, i)
      BY <1>5, <1>7, <2>2, <2>3, <2>4, <2>5, <2>6, <3>3, <3>4, JoinsGoesOn
    <3> QED
      BY <3>2, <3>5
  <2>8. h[m + n] = f[m] \o g[n]
    <3>1. n \in 1 .. n
      BY <1>10
    <3>2. Joined(f, g, h, m, n)
      BY <2>7, <3>1
    <3> QED
      BY <3>2 DEF Joined
  <2>9. h[k] = f[m] \o g[n]
    BY <1>5, <2>8 DEF LengthIs
  <2> QED
    BY <1>3, <2>2, <2>3, <2>4, <2>9
<1> QED
  BY <1>8, <1>9, <1>10

-----------------------------------------------------------------------------
(* Concatenations of tuples that are written out *)
Makes(x, y, z) ==
    /\ Len(z) = Len(x) + Len(y)
    /\ \A i \in 1 .. Len(z) : z[i] = IF i <= Len(x) THEN x[i] ELSE y[i - Len(x)]

LEMMA ConcatMakes ==
    ASSUME NEW S, NEW x, x \in Seq(S), NEW y, y \in Seq(S), NEW z, z \in Seq(S),
           Makes(x, y, z)
    PROVE  x \o y = z
<1>1. PICK u \in Seq(S) : u = x \o y
  BY ConcatProperties
<1>2. /\ Len(u) = Len(x) + Len(y)
      /\ \A i \in 1 .. Len(x) + Len(y) : u[i] = IF i <= Len(x) THEN x[i] ELSE y[i - Len(x)]
  BY <1>1, ConcatProperties
<1>3. Len(u) = Len(z) /\ \A i \in 1 .. Len(u) : u[i] = z[i]
  BY <1>2 DEF Makes
<1>4. u = z
  BY <1>3, SeqEqual
<1> QED
  BY <1>1, <1>4

LEMMA Cat01 ==
    ASSUME NEW a
    PROVE  <<>> \o <<a>> = <<a>>
<1> DEFINE S == {a}
           x == <<>>
           y == <<a>>
           z == <<a>>
<1>1. x \in Seq(S) /\ y \in Seq(S) /\ z \in Seq(S)
  OBVIOUS
<1>2. Makes(x, y, z)
  BY DEF Makes
<1>3. SUFFICES x \o y = z
  OBVIOUS
<1> HIDE DEF S, x, y, z
<1> QED
  BY <1>1, <1>2, ConcatMakes

LEMMA Cat10 ==
    ASSUME NEW a
    PROVE  <<a>> \o <<>> = <<a>>
<1> DEFINE S == {a}
           x == <<a>>
           y == <<>>
           z == <<a>>
<1>1. x \in Seq(S) /\ y \in Seq(S) /\ z \in Seq(S)
  OBVIOUS
<1>2. Makes(x, y, z)
  BY DEF Makes
<1>3. SUFFICES x \o y = z
  OBVIOUS
<1> HIDE DEF S, x, y, z
<1> QED
  BY <1>1, <1>2, ConcatMakes

LEMMA Cat11 ==
    ASSUME NEW a, NEW b
    PROVE  <<a>> \o <<b>> = <<a, b>>
<1> DEFINE S == {a, b}
           x == <<a>>
           y == <<b>>
           z == <<a, b>>
<1>1. x \in Seq(S) /\ y \in Seq(S) /\ z \in Seq(S)
  OBVIOUS
<1>2. Makes(x, y, z)
  BY DEF Makes
<1>3. SUFFICES x \o y = z
  OBVIOUS
<1> HIDE DEF S, x, y, z
<1> QED
  BY <1>1, <1>2, ConcatMakes

LEMMA Cat12 ==
    ASSUME NEW a, NEW b, NEW c
    PROVE  <<a>> \o <<b, c>> = <<a, b, c>>
<1> DEFINE S == {a, b, c}
           x == <<a>>
           y == <<b, c>>
           z == <<a, b, c>>
<1>1. x \in Seq(S) /\ y \in Seq(S) /\ z \in Seq(S)
  OBVIOUS
<1>2. Makes(x, y, z)
  BY DEF Makes
<1>3. SUFFICES x \o y = z
  OBVIOUS
<1> HIDE DEF S, x, y, z
<1> QED
  BY <1>1, <1>2, ConcatMakes

LEMMA Cat13 ==
    ASSUME NEW a, NEW b, NEW c, NEW d
    PROVE  <<a>> \o <<b, c, d>> = <<a, b, c, d>>
<1> DEFINE S == {a, b, c, d}
           x == <<a>>
           y == <<b, c, d>>
           z == <<a, b, c, d>>
<1>1. x \in Seq(S) /\ y \in Seq(S) /\ z \in Seq(S)
  OBVIOUS
<1>2. Makes(x, y, z)
  BY DEF Makes
<1>3. SUFFICES x \o y = z
  OBVIOUS
<1> HIDE DEF S, x, y, z
<1> QED
  BY <1>1, <1>2, ConcatMakes

LEMMA Cat14 ==
    ASSUME NEW a, NEW b, NEW c, NEW d, NEW e
    PROVE  <<a>> \o <<b, c, d, e>> = <<a, b, c, d, e>>
<1> DEFINE S == {a, b, c, d, e}
           x == <<a>>
           y == <<b, c, d, e>>
           z == <<a, b, c, d, e>>
<1>1. x \in Seq(S) /\ y \in Seq(S) /\ z \in Seq(S)
  OBVIOUS
<1>2. Makes(x, y, z)
  BY DEF Makes
<1>3. SUFFICES x \o y = z
  OBVIOUS
<1> HIDE DEF S, x, y, z
<1> QED
  BY <1>1, <1>2, ConcatMakes

LEMMA Cat15 ==
    ASSUME NEW a, NEW b, NEW c, NEW d, NEW e, NEW f
    PROVE  <<a>> \o <<b, c, d, e, f>> = <<a, b, c, d, e, f>>
<1> DEFINE S == {a, b, c, d, e, f}
           x == <<a>>
           y == <<b, c, d, e, f>>
           z == <<a, b, c, d, e, f>>
<1>1. x \in Seq(S) /\ y \in Seq(S) /\ z \in Seq(S)
  OBVIOUS
<1>2. Makes(x, y, z)
  BY DEF Makes
<1>3. SUFFICES x \o y = z
  OBVIOUS
<1> HIDE DEF S, x, y, z
<1> QED
  BY <1>1, <1>2, ConcatMakes

LEMMA Cat16 ==
    ASSUME NEW a, NEW b, NEW c, NEW d, NEW e, NEW f, NEW g
    PROVE  <<a>> \o <<b, c, d, e, f, g>> = <<a, b, c, d, e, f, g>>
<1> DEFINE S == {a, b, c, d, e, f, g}
           x == <<a>>
           y == <<b, c, d, e, f, g>>
           z == <<a, b, c, d, e, f, g>>
<1>1. x \in Seq(S) /\ y \in Seq(S) /\ z \in Seq(S)
  OBVIOUS
<1>2. Makes(x, y, z)
  BY DEF Makes
<1>3. SUFFICES x \o y = z
  OBVIOUS
<1> HIDE DEF S, x, y, z
<1> QED
  BY <1>1, <1>2, ConcatMakes

LEMMA Cat21 ==
    ASSUME NEW a, NEW b, NEW c
    PROVE  <<a, b>> \o <<c>> = <<a, b, c>>
<1> DEFINE S == {a, b, c}
           x == <<a, b>>
           y == <<c>>
           z == <<a, b, c>>
<1>1. x \in Seq(S) /\ y \in Seq(S) /\ z \in Seq(S)
  OBVIOUS
<1>2. Makes(x, y, z)
  BY DEF Makes
<1>3. SUFFICES x \o y = z
  OBVIOUS
<1> HIDE DEF S, x, y, z
<1> QED
  BY <1>1, <1>2, ConcatMakes

LEMMA Cat31 ==
    ASSUME NEW a, NEW b, NEW c, NEW d
    PROVE  <<a, b, c>> \o <<d>> = <<a, b, c, d>>
<1> DEFINE S == {a, b, c, d}
           x == <<a, b, c>>
           y == <<d>>
           z == <<a, b, c, d>>
<1>1. x \in Seq(S) /\ y \in Seq(S) /\ z \in Seq(S)
  OBVIOUS
<1>2. Makes(x, y, z)
  BY DEF Makes
<1>3. SUFFICES x \o y = z
  OBVIOUS
<1> HIDE DEF S, x, y, z
<1> QED
  BY <1>1, <1>2, ConcatMakes


-----------------------------------------------------------------------------
(* Symbols of the grammar, and what the tables of Syntax and Parse hold *)
Sym == Nonterminal \union Kind \union {"Operator", "Ellipsis"}

LEMMA TerminalsAre ==
    /\ "Ellipsis" \in Sym /\ "Operator" \in Sym /\ "arrow" \in Sym /\ "assign" \in Sym
    /\ "colon" \in Sym /\ "comma" \in Sym /\ "identifier" \in Sym /\ "inout" \in Sym
    /\ "kw_break" \in Sym /\ "kw_else" \in Sym /\ "kw_for" \in Sym /\ "kw_func" \in Sym
    /\ "kw_if" \in Sym /\ "kw_in" \in Sym /\ "kw_inout" \in Sym /\ "kw_let" \in Sym
    /\ "kw_return" \in Sym /\ "kw_var" \in Sym /\ "kw_while" \in Sym
    /\ "l_brace" \in Sym /\ "l_bracket" \in Sym /\ "l_paren" \in Sym /\ "lnot" \in Sym
    /\ "minus" \in Sym /\ "number_literal" \in Sym /\ "r_brace" \in Sym
    /\ "r_bracket" \in Sym /\ "r_paren" \in Sym /\ "semi" \in Sym
BY DEF Sym, Kind, Keyword, BinaryOperator

LEMMA NonterminalsAre ==
    /\ "ArrayType" \in Sym /\ "Block" \in Sym /\ "BreakStmt" \in Sym
    /\ "DeclValue" \in Sym /\ "ElseStmt" \in Sym /\ "Expr" \in Sym /\ "ExprStmt" \in Sym
    /\ "ForStmt" \in Sym /\ "FuncDecl" \in Sym /\ "FuncStmt" \in Sym
    /\ "FuncType" \in Sym /\ "IdentType" \in Sym /\ "IfStmt" \in Sym /\ "Items" \in Sym
    /\ "MoreItems" \in Sym /\ "MoreParams" \in Sym /\ "Node" \in Sym /\ "Nodes" \in Sym
    /\ "Operands" \in Sym /\ "ParamDecl" \in Sym /\ "Params" \in Sym
    /\ "Postfix" \in Sym /\ "Primary" \in Sym /\ "ReturnStmt" \in Sym
    /\ "ReturnValue" \in Sym /\ "Statement" \in Sym /\ "TypeRepr" \in Sym
    /\ "ValType" \in Sym /\ "VarDecl" \in Sym /\ "WhileStmt" \in Sym
BY DEF Sym, Nonterminal, Rule

LEMMA RuleType ==
    ASSUME NEW X \in Nonterminal, NEW q \in Rule[X]
    PROVE  q \in Seq(Sym)
<1>1. ASSUME X = "Nodes"
      PROVE  q \in Seq(Sym)
  <2>1. /\ <<>> \in Seq(Sym)
        /\ <<"Node", "Nodes">> \in Seq(Sym)
    BY TerminalsAre, NonterminalsAre
  <2> QED
    BY <1>1, <2>1 DEF Rule
<1>2. ASSUME X = "Node"
      PROVE  q \in Seq(Sym)
  <2>1. /\ <<>> \in Seq(Sym)
        /\ <<"VarDecl">> \in Seq(Sym)
        /\ <<"Statement">> \in Seq(Sym)
    BY TerminalsAre, NonterminalsAre
  <2> QED
    BY <1>2, <2>1 DEF Rule
<1>3. ASSUME X = "Statement"
      PROVE  q \in Seq(Sym)
  <2>1. /\ <<>> \in Seq(Sym)
        /\ <<"semi", "Statement">> \in Seq(Sym)
        /\ <<"ExprStmt">> \in Seq(Sym)
        /\ <<"BreakStmt">> \in Seq(Sym)
        /\ <<"ReturnStmt">> \in Seq(Sym)
        /\ <<"FuncStmt">> \in Seq(Sym)
        /\ <<"ForStmt">> \in Seq(Sym)
        /\ <<"IfStmt">> \in Seq(Sym)
        /\ <<"WhileStmt">> \in Seq(Sym)
    BY TerminalsAre, NonterminalsAre
  <2> QED
    BY <1>3, <2>1 DEF Rule
<1>4. ASSUME X = "ExprStmt"
      PROVE  q \in Seq(Sym)
  <2>1. <<"Expr", "semi">> \in Seq(Sym)
    BY TerminalsAre, NonterminalsAre
  <2> QED
    BY <1>4, <2>1 DEF Rule
<1>5. ASSUME X = "BreakStmt"
      PROVE  q \in Seq(Sym)
  <2>1. <<"kw_break", "semi">> \in Seq(Sym)
    BY TerminalsAre, NonterminalsAre
  <2> QED
    BY <1>5, <2>1 DEF Rule
<1>6. ASSUME X = "ReturnStmt"
      PROVE  q \in Seq(Sym)
  <2>1. <<"kw_return", "ReturnValue", "semi">> \in Seq(Sym)
    BY TerminalsAre, NonterminalsAre
  <2> QED
    BY <1>6, <2>1 DEF Rule
<1>7. ASSUME X = "ReturnValue"
      PROVE  q \in Seq(Sym)
  <2>1. /\ <<>> \in Seq(Sym)
        /\ <<"Expr">> \in Seq(Sym)
    BY TerminalsAre, NonterminalsAre
  <2> QED
    BY <1>7, <2>1 DEF Rule
<1>8. ASSUME X = "Block"
      PROVE  q \in Seq(Sym)
  <2>1. <<"l_brace", "Node", "Nodes", "r_brace">> \in Seq(Sym)
    BY TerminalsAre, NonterminalsAre
  <2> QED
    BY <1>8, <2>1 DEF Rule
<1>9. ASSUME X = "ForStmt"
      PROVE  q \in Seq(Sym)
  <2>1. <<"kw_for", "identifier", "kw_in", "Expr", "Ellipsis", "Expr", "Block">> \in Seq(Sym)
    BY TerminalsAre, NonterminalsAre
  <2> QED
    BY <1>9, <2>1 DEF Rule
<1>10. ASSUME X = "WhileStmt"
      PROVE  q \in Seq(Sym)
  <2>1. <<"kw_while", "Expr", "Block">> \in Seq(Sym)
    BY TerminalsAre, NonterminalsAre
  <2> QED
    BY <1>10, <2>1 DEF Rule
<1>11. ASSUME X = "IfStmt"
      PROVE  q \in Seq(Sym)
  <2>1. <<"kw_if", "Expr", "Block", "ElseStmt">> \in Seq(Sym)
    BY TerminalsAre, NonterminalsAre
  <2> QED
    BY <1>11, <2>1 DEF Rule
<1>12. ASSUME X = "ElseStmt"
      PROVE  q \in Seq(Sym)
  <2>1. /\ <<>> \in Seq(Sym)
        /\ <<"kw_else", "Block">> \in Seq(Sym)
    BY TerminalsAre, NonterminalsAre
  <2> QED
    BY <1>12, <2>1 DEF Rule
<1>13. ASSUME X = "FuncStmt"
      PROVE  q \in Seq(Sym)
  <2>1. <<"FuncDecl", "Block">> \in Seq(Sym)
    BY TerminalsAre, NonterminalsAre
  <2> QED
    BY <1>13, <2>1 DEF Rule
<1>14. ASSUME X = "FuncDecl"
      PROVE  q \in Seq(Sym)
  <2>1. <<"kw_func", "identifier", "l_paren", "Params", "r_paren", "FuncType">> \in Seq(Sym)
    BY TerminalsAre, NonterminalsAre
  <2> QED
    BY <1>14, <2>1 DEF Rule
<1>15. ASSUME X = "FuncType"
      PROVE  q \in Seq(Sym)
  <2>1. /\ <<>> \in Seq(Sym)
        /\ <<"arrow", "TypeRepr">> \in Seq(Sym)
    BY TerminalsAre, NonterminalsAre
  <2> QED
    BY <1>15, <2>1 DEF Rule
<1>16. ASSUME X = "Params"
      PROVE  q \in Seq(Sym)
  <2>1. /\ <<>> \in Seq(Sym)
        /\ <<"ParamDecl", "MoreParams">> \in Seq(Sym)
    BY TerminalsAre, NonterminalsAre
  <2> QED
    BY <1>16, <2>1 DEF Rule
<1>17. ASSUME X = "MoreParams"
      PROVE  q \in Seq(Sym)
  <2>1. /\ <<>> \in Seq(Sym)
        /\ <<"comma", "ParamDecl", "MoreParams">> \in Seq(Sym)
    BY TerminalsAre, NonterminalsAre
  <2> QED
    BY <1>17, <2>1 DEF Rule
<1>18. ASSUME X = "ParamDecl"
      PROVE  q \in Seq(Sym)
  <2>1. <<"identifier", "colon", "TypeRepr">> \in Seq(Sym)
    BY TerminalsAre, NonterminalsAre
  <2> QED
    BY <1>18, <2>1 DEF Rule
<1>19. ASSUME X = "VarDecl"
      PROVE  q \in Seq(Sym)
  <2>1. /\ <<"kw_let", "identifier", "ValType", "DeclValue">> \in Seq(Sym)
        /\ <<"kw_var", "identifier", "ValType", "DeclValue">> \in Seq(Sym)
    BY TerminalsAre, NonterminalsAre
  <2> QED
    BY <1>19, <2>1 DEF Rule
<1>20. ASSUME X = "ValType"
      PROVE  q \in Seq(Sym)
  <2>1. /\ <<>> \in Seq(Sym)
        /\ <<"colon", "TypeRepr">> \in Seq(Sym)
    BY TerminalsAre, NonterminalsAre
  <2> QED
    BY <1>20, <2>1 DEF Rule
<1>21. ASSUME X = "DeclValue"
      PROVE  q \in Seq(Sym)
  <2>1. /\ <<"semi">> \in Seq(Sym)
        /\ <<"assign", "Expr", "semi">> \in Seq(Sym)
    BY TerminalsAre, NonterminalsAre
  <2> QED
    BY <1>21, <2>1 DEF Rule
<1>22. ASSUME X = "TypeRepr"
      PROVE  q \in Seq(Sym)
  <2>1. /\ <<"kw_inout", "IdentType">> \in Seq(Sym)
        /\ <<"IdentType">> \in Seq(Sym)
    BY TerminalsAre, NonterminalsAre
  <2> QED
    BY <1>22, <2>1 DEF Rule
<1>23. ASSUME X = "IdentType"
      PROVE  q \in Seq(Sym)
  <2>1. <<"identifier", "ArrayType">> \in Seq(Sym)
    BY TerminalsAre, NonterminalsAre
  <2> QED
    BY <1>23, <2>1 DEF Rule
<1>24. ASSUME X = "ArrayType"
      PROVE  q \in Seq(Sym)
  <2>1. /\ <<>> \in Seq(Sym)
        /\ <<"l_bracket", "Expr", "r_bracket", "ArrayType">> \in Seq(Sym)
    BY TerminalsAre, NonterminalsAre
  <2> QED
    BY <1>24, <2>1 DEF Rule
<1>25. ASSUME X = "Expr"
      PROVE  q \in Seq(Sym)
  <2>1. <<"Primary", "Operands">> \in Seq(Sym)
    BY TerminalsAre, NonterminalsAre
  <2> QED
    BY <1>25, <2>1 DEF Rule
<1>26. ASSUME X = "Operands"
      PROVE  q \in Seq(Sym)
  <2>1. /\ <<>> \in Seq(Sym)
        /\ <<"Operator", "Primary", "Operands">> \in Seq(Sym)
    BY TerminalsAre, NonterminalsAre
  <2> QED
    BY <1>26, <2>1 DEF Rule
<1>27. ASSUME X = "Primary"
      PROVE  q \in Seq(Sym)
  <2>1. /\ <<"l_paren", "Expr", "r_paren">> \in Seq(Sym)
        /\ <<"number_literal">> \in Seq(Sym)
        /\ <<"identifier", "Postfix">> \in Seq(Sym)
        /\ <<"l_bracket", "Items", "r_bracket", "Postfix">> \in Seq(Sym)
        /\ <<"minus", "Primary">> \in Seq(Sym)
        /\ <<"lnot", "Primary">> \in Seq(Sym)
        /\ <<"inout", "Primary">> \in Seq(Sym)
    BY TerminalsAre, NonterminalsAre
  <2> QED
    BY <1>27, <2>1 DEF Rule
<1>28. ASSUME X = "Postfix"
      PROVE  q \in Seq(Sym)
  <2>1. /\ <<>> \in Seq(Sym)
        /\ <<"l_paren", "Items", "r_paren", "Postfix">> \in Seq(Sym)
        /\ <<"l_bracket", "Expr", "r_bracket", "Postfix">> \in Seq(Sym)
    BY TerminalsAre, NonterminalsAre
  <2> QED
    BY <1>28, <2>1 DEF Rule
<1>29. ASSUME X = "Items"
      PROVE  q \in Seq(Sym)
  <2>1. /\ <<>> \in Seq(Sym)
        /\ <<"Expr", "MoreItems">> \in Seq(Sym)
    BY TerminalsAre, NonterminalsAre
  <2> QED
    BY <1>29, <2>1 DEF Rule
<1>30. ASSUME X = "MoreItems"
      PROVE  q \in Seq(Sym)
  <2>1. /\ <<>> \in Seq(Sym)
        /\ <<"comma", "Expr", "MoreItems">> \in Seq(Sym)
    BY TerminalsAre, NonterminalsAre
  <2> QED
    BY <1>30, <2>1 DEF Rule
<1> QED
  BY <1>1, <1>2, <1>3, <1>4, <1>5, <1>6, <1>7, <1>8, <1>9, <1>10, <1>11, <1>12, <1>13,
     <1>14, <1>15, <1>16, <1>17, <1>18, <1>19, <1>20, <1>21, <1>22, <1>23, <1>24, <1>25,
     <1>26, <1>27, <1>28, <1>29, <1>30 DEF Nonterminal, Rule

LEMMA RestType ==
    ASSUME NEW p \in Point
    PROVE  RestOf(p) \in Seq(Sym)
<1>1. CASE p \in DOMAIN Rest
  <2>1. /\ Rest["StmtEnd"] \in Seq(Sym)
        /\ Rest["Semi"] \in Seq(Sym)
        /\ Rest["Built"] \in Seq(Sym)
        /\ Rest["BlockNodes"] \in Seq(Sym)
        /\ Rest["RBrace"] \in Seq(Sym)
        /\ Rest["FuncBody"] \in Seq(Sym)
        /\ Rest["ForBody"] \in Seq(Sym)
        /\ Rest["ForName"] \in Seq(Sym)
    BY TerminalsAre, NonterminalsAre DEF Rest
  <2>2. /\ Rest["ForIn"] \in Seq(Sym)
        /\ Rest["RangeOp"] \in Seq(Sym)
        /\ Rest["DeclName"] \in Seq(Sym)
        /\ Rest["ValType"] \in Seq(Sym)
        /\ Rest["DeclInit"] \in Seq(Sym)
        /\ Rest["FuncName"] \in Seq(Sym)
        /\ Rest["VarPattern"] \in Seq(Sym)
        /\ Rest["ResultType"] \in Seq(Sym)
    BY TerminalsAre, NonterminalsAre DEF Rest
  <2>3. /\ Rest["ParamType"] \in Seq(Sym)
        /\ Rest["AnotherParam"] \in Seq(Sym)
        /\ Rest["AnotherItem"] \in Seq(Sym)
        /\ Rest["InOutBase"] \in Seq(Sym)
        /\ Rest["ArraySize"] \in Seq(Sym)
        /\ Rest["Operators"] \in Seq(Sym)
        /\ Rest["RParen"] \in Seq(Sym)
        /\ Rest["RBracket"] \in Seq(Sym)
    BY TerminalsAre, NonterminalsAre DEF Rest
  <2>4. DOMAIN Rest =
          {"StmtEnd", "Semi", "Built", "BlockNodes", "RBrace", "FuncBody", "ForBody", "ForName",
           "ForIn", "RangeOp", "DeclName", "ValType", "DeclInit", "FuncName", "VarPattern",
           "ResultType", "ParamType", "AnotherParam", "AnotherItem", "InOutBase", "ArraySize",
           "Operators", "RParen", "RBracket"}
    BY DEF Rest
  <2>5. Rest[p] \in Seq(Sym)
    BY <1>1, <2>1, <2>2, <2>3, <2>4
  <2> QED
    BY <1>1, <2>5 DEF RestOf
<1>2. CASE p \notin DOMAIN Rest
  <2>1. p \in Nonterminal /\ RestOf(p) = <<p>>
    BY <1>2 DEF Point, RestOf
  <2> QED
    BY <2>1 DEF Sym
<1> QED
  BY <1>1, <1>2

(* Expected, of a stack without calls, with one, and of two parts of one *)
LEMMA ExpectedIs ==
    ASSUME NEW ps \in Seq(Point)
    PROVE  \E s \in Seq(Seq(Sym)) :
             /\ Expected(ps) = FlattenSeq(s)
             /\ Len(s) = Len(ps) /\ \A i \in 1 .. Len(ps) : s[i] = RestOf(ps[i])
<1> DEFINE s == [i \in DOMAIN ps |-> RestOf(ps[i])]
<1>1. DOMAIN ps = 1 .. Len(ps) /\ Len(ps) \in Nat
  BY LenProperties
<1>2. \A i \in 1 .. Len(ps) : RestOf(ps[i]) \in Seq(Sym)
  BY ElementOfSeq, RestType
<1>3. s \in Seq(Seq(Sym)) /\ Len(s) = Len(ps)
  BY <1>1, <1>2
<1>4. Expected(ps) = FlattenSeq(s)
  BY DEF Expected
<1> QED
  BY <1>1, <1>3, <1>4

LEMMA ExpectedType ==
    ASSUME NEW ps \in Seq(Point)
    PROVE  Expected(ps) \in Seq(Sym)
BY ExpectedIs, FlattenType

LEMMA ExpectedNone == Expected(<<>>) = <<>>
<1>1. PICK s \in Seq(Seq(Sym)) : Expected(<<>>) = FlattenSeq(s) /\ Len(s) = 0
  BY ExpectedIs, EmptySeq
<1>2. s = <<>>
  BY <1>1, EmptySeq
<1> QED
  BY <1>1, <1>2, FlattenNone

LEMMA ExpectedOne ==
    ASSUME NEW p \in Point
    PROVE  Expected(<<p>>) = RestOf(p)
<1> DEFINE ps == <<p>>
<1>1. ps \in Seq(Point) /\ Len(ps) = 1 /\ ps[1] = p
  OBVIOUS
<1>2. SUFFICES Expected(ps) = RestOf(p)
  OBVIOUS
<1> HIDE DEF ps
<1>3. PICK s \in Seq(Seq(Sym)) :
        Expected(ps) = FlattenSeq(s) /\ Len(s) = 1 /\ s[1] = RestOf(p)
  BY <1>1, ExpectedIs
<1> QED
  BY <1>3, FlattenOne

LEMMA ExpectedConcat ==
    ASSUME NEW ps, ps \in Seq(Point), NEW qs, qs \in Seq(Point)
    PROVE  Expected(ps \o qs) = Expected(ps) \o Expected(qs)
<1>1. PICK rs \in Seq(Point) : rs = ps \o qs
  BY ConcatProperties
<1>2. /\ Len(rs) = Len(ps) + Len(qs)
      /\ \A i \in 1 .. Len(ps) + Len(qs) : rs[i] = IF i <= Len(ps) THEN ps[i] ELSE qs[i - Len(ps)]
  BY <1>1, ConcatProperties
<1>3. PICK s \in Seq(Seq(Sym)) : /\ Expected(ps) = FlattenSeq(s) /\ Len(s) = Len(ps)
                                 /\ \A i \in 1 .. Len(ps) : s[i] = RestOf(ps[i])
  BY ExpectedIs
<1>4. PICK t \in Seq(Seq(Sym)) : /\ Expected(qs) = FlattenSeq(t) /\ Len(t) = Len(qs)
                                 /\ \A i \in 1 .. Len(qs) : t[i] = RestOf(qs[i])
  BY ExpectedIs
<1>5. PICK u \in Seq(Seq(Sym)) : /\ Expected(rs) = FlattenSeq(u) /\ Len(u) = Len(rs)
                                 /\ \A i \in 1 .. Len(rs) : u[i] = RestOf(rs[i])
  BY ExpectedIs
<1>6. Makes(s, t, u)
  <2>1. Len(ps) \in Nat /\ Len(qs) \in Nat
    BY LenProperties
  <2>2. ASSUME NEW i \in 1 .. Len(u)
        PROVE  u[i] = IF i <= Len(s) THEN s[i] ELSE t[i - Len(s)]
    <3>1. u[i] = RestOf(rs[i]) /\ i \in 1 .. Len(ps) + Len(qs)
      BY <1>2, <1>5
    <3>2. CASE i <= Len(ps)
      <4>1. i \in 1 .. Len(ps) /\ rs[i] = ps[i]
        BY <1>2, <2>1, <3>1, <3>2
      <4> QED
        BY <1>3, <3>1, <3>2, <4>1
    <3>3. CASE ~(i <= Len(ps))
      <4>1. PICK j \in 1 .. Len(qs) : j = i - Len(ps)
        <5>1. i - Len(ps) \in 1 .. Len(qs)
          BY ONLY <2>1, <3>1, <3>3
        <5> QED
          BY <5>1
      <4>2. rs[i] = qs[j]
        BY <1>2, <3>1, <3>3, <4>1
      <4> QED
        BY <1>3, <1>4, <3>1, <3>3, <4>1, <4>2
    <3> QED
      BY <3>2, <3>3
  <2> QED
    BY <1>2, <1>3, <1>4, <1>5, <2>2 DEF Makes
<1>7. s \o t = u
  BY <1>6, ConcatMakes
<1>8. FlattenSeq(s \o t) = FlattenSeq(s) \o FlattenSeq(t)
  BY FlattenConcat
<1> QED
  BY <1>1, <1>3, <1>4, <1>5, <1>7, <1>8

LEMMA ExpectedCons ==
    ASSUME NEW p \in Point, NEW qs, qs \in Seq(Point), NEW rs, rs = <<p>> \o qs
    PROVE  Expected(rs) = RestOf(p) \o Expected(qs)
<1>1. <<p>> \in Seq(Point)
  OBVIOUS
<1>2. Expected(<<p>> \o qs) = Expected(<<p>>) \o Expected(qs)
  BY <1>1, ExpectedConcat
<1> QED
  BY <1>2, ExpectedOne

-----------------------------------------------------------------------------
(* The calls that may return null where nothing was wrong; they are from   *)
(* parseModule() or from the loop of parseBlock(). *)
Listed == {"Node", "Statement"}

(* The loop goes on, or the module ends, where such a call returns. *)
Callers(points) ==
    \A i \in DOMAIN points :
        points[i] \in Listed => i = Len(points) \/ points[i + 1] = "BlockNodes"

Listing(points) == points = <<>> \/ Head(points) = "BlockNodes"

(* Who has been told null may be in a loop over nodes, or an error was *)
(* recorded.                                                           *)
ParseInv ==
    /\ TypeOK
    /\ Callers(stack)
    /\ ret = "null" /\ ~error => Listing(stack)
    /\ hole => error
    /\ verdict = "accepted" => ~error
    /\ Tok = "unknown" => reported

Plain == Point \ Listed

LEMMA CallersOfTail ==
    ASSUME NEW s \in Seq(Point), s # <<>>, Callers(s)
    PROVE  /\ Tail(s) \in Seq(Point) /\ Callers(Tail(s))
           /\ Head(s) \in Listed => Listing(Tail(s))
<1>1. PICK t \in Seq(Point) : t = Tail(s)
  BY HeadTailProperties
<1>2. Len(t) = Len(s) - 1 /\ \A i \in 1 .. Len(t) : t[i] = s[i + 1]
  BY <1>1, HeadTailProperties
<1>3. Len(s) \in Nat /\ Len(s) # 0 /\ DOMAIN s = 1 .. Len(s) /\ DOMAIN t = 1 .. Len(t)
  BY LenProperties, EmptySeq
<1>4. ASSUME NEW i \in DOMAIN t, t[i] \in Listed
      PROVE  i = Len(t) \/ t[i + 1] = "BlockNodes"
  <2>1. i + 1 \in DOMAIN s /\ s[i + 1] \in Listed
    BY <1>2, <1>3, <1>4
  <2>2. i + 1 = Len(s) \/ s[i + 1 + 1] = "BlockNodes"
    BY <2>1 DEF Callers
  <2>3. i + 1 # Len(s) => i + 1 \in 1 .. Len(t)
    BY <1>2, <1>3
  <2> QED
    BY <1>2, <1>3, <2>2, <2>3
<1>5. ASSUME Head(s) \in Listed, t # <<>>
      PROVE  Head(t) = "BlockNodes"
  <2>1. Len(t) \in Nat /\ Len(t) # 0 /\ 1 \in DOMAIN s /\ s[1] \in Listed
    BY <1>3, <1>5, EmptySeq
  <2>2. s[1 + 1] = "BlockNodes"
    BY <1>2, <1>3, <2>1 DEF Callers
  <2> QED
    BY <1>2, <1>5, <2>1, <2>2
<1> QED
  BY <1>1, <1>4, <1>5 DEF Callers, Listing

(* qs is pushed in the place of the first of the calls. *)
LEMMA CallersOfPlain ==
    ASSUME NEW ps, ps \in Seq(Plain), NEW t, t \in Seq(Point), Callers(t)
    PROVE  Callers(ps \o t)
<1>1. ps \in Seq(Point) /\ \A i \in 1 .. Len(ps) : ps[i] \notin Listed
  BY SeqMonotonic, ElementOfSeq DEF Plain
<1>2. PICK u \in Seq(Point) : u = ps \o t
  BY <1>1, ConcatProperties
<1>3. PICK m \in Nat : m = Len(ps)
  BY LenProperties
<1>4. PICK n \in Nat : n = Len(t)
  BY LenProperties
<1>5. Len(u) = m + n /\ \A i \in 1 .. m + n : u[i] = IF i <= m THEN ps[i] ELSE t[i - m]
  BY <1>1, <1>2, <1>3, <1>4, ConcatProperties
<1>6. DOMAIN u = 1 .. m + n /\ DOMAIN t = 1 .. n
  BY <1>4, <1>5, LenProperties
<1>7. ASSUME NEW i \in DOMAIN u, u[i] \in Listed
      PROVE  i = Len(u) \/ u[i + 1] = "BlockNodes"
  <2>1. ~(i <= m)
    BY <1>1, <1>3, <1>5, <1>6, <1>7
  <2>2. PICK j \in 1 .. n : j = i - m
    BY <1>6, <2>1
  <2>3. t[j] \in Listed
    BY <1>5, <1>6, <1>7, <2>1, <2>2
  <2>4. j = n \/ t[j + 1] = "BlockNodes"
    BY <1>4, <1>6, <2>3 DEF Callers
  <2>5. CASE j = n
    <3>1. i = m + n
      BY <1>6, <2>2, <2>5
    <3> QED
      BY ONLY <1>5, <3>1
  <2>6. CASE j # n
    <3>1. i + 1 \in 1 .. m + n /\ ~(i + 1 <= m) /\ i + 1 - m = j + 1
      BY <1>6, <2>1, <2>2, <2>6
    <3> QED
      BY <1>5, <2>4, <2>6, <3>1
  <2> QED
    BY <2>5, <2>6
<1> QED
  BY <1>2, <1>7 DEF Callers

LEMMA CallersOfStatement ==
    ASSUME NEW p \in Listed, NEW t, t \in Seq(Point), Callers(t), Listing(t)
    PROVE  Callers(<<p>> \o t)
<1>1. p \in Point
  BY DEF Listed, Point, Rest, Nonterminal, Rule
<1>2. <<p>> \in Seq(Point) /\ Len(<<p>>) = 1
  BY <1>1
<1>3. PICK u \in Seq(Point) : u = <<p>> \o t
  BY <1>2, ConcatProperties
<1>4. PICK n \in Nat : n = Len(t)
  BY LenProperties
<1>5. Len(u) = 1 + n /\ \A i \in 1 .. 1 + n : u[i] = IF i <= 1 THEN <<p>>[i] ELSE t[i - 1]
  BY <1>2, <1>3, <1>4, ConcatProperties
<1>6. DOMAIN u = 1 .. 1 + n /\ DOMAIN t = 1 .. n
  BY <1>4, <1>5, LenProperties
<1>7. ASSUME NEW i \in DOMAIN u, u[i] \in Listed
      PROVE  i = Len(u) \/ u[i + 1] = "BlockNodes"
  <2>1. CASE i = 1 /\ n = 0
    BY <1>5, <2>1
  <2>2. CASE i = 1 /\ n # 0
    <3>1. t # <<>>
      BY <1>4, <2>2, EmptySeq
    <3>2. t[1] = "BlockNodes"
      BY <3>1 DEF Listing
    <3>3. 2 \in 1 .. 1 + n /\ ~(2 <= 1) /\ 2 - 1 = 1
      BY <2>2
    <3>4. u[2] = t[1]
      BY <1>5, <3>3
    <3> QED
      BY ONLY <2>2, <3>2, <3>4
  <2>3. CASE i # 1
    <3>1. PICK j \in 1 .. n : j = i - 1
      BY <1>6, <2>3
    <3>2. t[j] \in Listed
      BY <1>5, <1>6, <1>7, <2>3, <3>1
    <3>3. j = n \/ t[j + 1] = "BlockNodes"
      BY <1>4, <1>6, <3>2 DEF Callers
    <3>4. CASE j = n
      BY <1>5, <1>6, <3>1, <3>4
    <3>5. CASE j # n
      <4>1. i + 1 \in 1 .. 1 + n /\ ~(i + 1 <= 1) /\ i + 1 - 1 = j + 1
        BY <1>6, <2>3, <3>1, <3>5
      <4> QED
        BY <1>5, <3>3, <3>5, <4>1
    <3> QED
      BY <3>4, <3>5
  <2> QED
    BY <2>1, <2>2, <2>3
<1> QED
  BY <1>3, <1>7 DEF Callers

LEMMA TokenConsumed ==
    ASSUME ParseInv, consumeToken
    PROVE  /\ Tok' \in Kind /\ ahead' \in Seq(Kind \ {"eof"}) /\ left' \in 0 .. MaxTokens
           /\ Tok' = "eof" => ahead' = <<>> /\ left' = 0
           /\ Tok # "eof"
<1>1. /\ ahead \in Seq(Kind \ {"eof"}) /\ left \in 0 .. MaxTokens
      /\ Supply \subseteq Kind \ {"eof"} /\ MaxTokens \in Nat /\ "eof" \in Kind
  BY SupplyAssumption DEF ParseInv, TypeOK, Kind
<1>2. CASE ahead # <<>> /\ Tok' = Head(ahead) /\ ahead' = Tail(ahead) /\ UNCHANGED left
  <2>1. Head(ahead) \in Kind \ {"eof"} /\ Tail(ahead) \in Seq(Kind \ {"eof"})
    BY <1>1, <1>2, HeadTailProperties
  <2> QED
    BY <1>1, <1>2, <2>1 DEF consumeToken
<1>3. CASE ahead = <<>> /\ left > 0 /\ Tok' \in Supply /\ left' = left - 1 /\ UNCHANGED ahead
  BY <1>1, <1>3 DEF consumeToken
<1>4. CASE ahead = <<>> /\ Tok' = "eof" /\ left' = 0 /\ UNCHANGED ahead
  BY <1>1, <1>4 DEF consumeToken
<1> QED
  BY <1>2, <1>3, <1>4 DEF consumeToken

(* The token is consumed or kept. *)
LEMMA TokenTaken ==
    ASSUME ParseInv, Take \/ Stay
    PROVE  /\ Tok' \in Kind /\ ahead' \in Seq(Kind \ {"eof"}) /\ left' \in 0 .. MaxTokens
           /\ Tok' = "eof" => ahead' = <<>> /\ left' = 0
           /\ reported' \in BOOLEAN
           /\ Tok' = "unknown" => reported'
           /\ reported => reported'
<1>1. CASE Take
  <2>1. consumeToken /\ reported' = (reported \/ Tok' = "unknown") /\ reported \in BOOLEAN
    BY <1>1 DEF Take, ParseInv, TypeOK
  <2> QED
    BY <2>1, TokenConsumed
<1>2. CASE Stay
  BY <1>2 DEF Stay, Position, ParseInv, TypeOK
<1> QED
  BY <1>1, <1>2

(* TypeOK and ParseInv of the next state, from their parts *)
LEMMA TypeNext ==
    ASSUME Tok' \in Kind, ahead' \in Seq(Kind \ {"eof"}), left' \in 0 .. MaxTokens,
           Tok' = "eof" => ahead' = <<>> /\ left' = 0, stack' \in Seq(Point),
           ret' \in {"node", "null", "absent"}, error' \in BOOLEAN, reported' \in BOOLEAN,
           hole' \in BOOLEAN, verdict' = "open"
    PROVE  TypeOK'
<1>1. ({error, reported, hole} \subseteq BOOLEAN)'
  BY Zenon
<1>2. (verdict \in {"open", "accepted", "rejected", "aborted"})'
  OBVIOUS
<1>3. (verdict \in {"accepted", "rejected"} => stack = <<>>)'
  OBVIOUS
<1>4. (Tok = "eof" => ahead = <<>> /\ left = 0)'
  OBVIOUS
<1> QED
  BY <1>1, <1>2, <1>3, <1>4 DEF TypeOK

LEMMA InvNext ==
    ASSUME TypeOK', Callers(stack'), ret' = "null" /\ ~error' => Listing(stack'),
           hole' => error', verdict' = "open", Tok' = "unknown" => reported'
    PROVE  ParseInv'
<1>1. (Callers(stack))' /\ (ret = "null" /\ ~error => Listing(stack))'
  OBVIOUS
<1>2. (hole => error)' /\ (verdict = "accepted" => ~error)' /\ (Tok = "unknown" => reported)'
  OBVIOUS
<1> QED
  BY <1>1, <1>2 DEF ParseInv

(* The methods of a call, for the types: what is pushed and returned *)
LEMMA PushInv ==
    ASSUME ParseInv, NEW p, At(p), Tok \in Kind, Take \/ Stay, NoError,
           NEW ps, Then(ps), ps \in Seq(Point), Callers(ps \o Tail(stack))
    PROVE  ParseInv'
<1>1. stack \in Seq(Point) /\ stack # <<>> /\ verdict = "open"
  BY DEF ParseInv, TypeOK, At
<1>2. Tail(stack) \in Seq(Point)
  BY <1>1, HeadTailProperties
<1>3. stack' = ps \o Tail(stack) /\ ret' = "node"
  BY DEF Then
<1>4. stack' \in Seq(Point) /\ Callers(stack')
  BY <1>2, <1>3, ConcatProperties
<1>5. verdict' = "open"
  BY <1>1 DEF NoError
<1>6. /\ Tok' \in Kind /\ ahead' \in Seq(Kind \ {"eof"}) /\ left' \in 0 .. MaxTokens
      /\ Tok' = "eof" => ahead' = <<>> /\ left' = 0
      /\ reported' \in BOOLEAN
      /\ Tok' = "unknown" => reported'
  BY TokenTaken
<1>7. error' \in BOOLEAN /\ hole' \in BOOLEAN /\ (hole' => error')
  <2>1. error' = error /\ hole' = hole
    BY DEF Then, NoError
  <2> QED
    BY <2>1 DEF ParseInv, TypeOK
<1>8. TypeOK'
  BY <1>3, <1>4, <1>5, <1>6, <1>7, TypeNext
<1> QED
  BY <1>3, <1>4, <1>5, <1>6, <1>7, <1>8, InvNext

LEMMA ReturnInv ==
    ASSUME ParseInv, NEW p, At(p), Take \/ Stay, NoError,
           NEW v \in {"node", "null", "absent"}, Return(v),
           v = "null" => error \/ p \in Listed
    PROVE  ParseInv'
<1>1. stack \in Seq(Point) /\ stack # <<>> /\ verdict = "open" /\ Head(stack) = p /\ Callers(stack)
  BY DEF ParseInv, TypeOK, At
<1>2. PICK t \in Seq(Point) : t = Tail(stack) /\ Callers(t) /\ (p \in Listed => Listing(t))
  BY <1>1, CallersOfTail
<1>3. stack' = t /\ ret' = v
      /\ hole' = (hole \/ (v = "null" /\ Len(stack) > 1 /\ stack[2] \notin ChecksNull))
  BY <1>2 DEF Return
<1>4. error' = error
  BY DEF NoError
<1>5. /\ Tok' \in Kind /\ ahead' \in Seq(Kind \ {"eof"}) /\ left' \in 0 .. MaxTokens
      /\ Tok' = "eof" => ahead' = <<>> /\ left' = 0
      /\ reported' \in BOOLEAN
      /\ Tok' = "unknown" => reported'
  BY TokenTaken
<1>6. ret' = "null" /\ ~error' => Listing(stack')
  BY <1>2, <1>3, <1>4
<1>7. hole' \in BOOLEAN /\ error' \in BOOLEAN /\ (hole' => error')
  <2>1. ASSUME v = "null", Len(stack) > 1, ~error
        PROVE  stack[2] \in ChecksNull
    <3>1. Len(t) = Len(stack) - 1 /\ Len(stack) \in Nat /\ Len(t) \in Nat
          /\ \A i \in 1 .. Len(t) : t[i] = stack[i + 1]
      BY <1>1, <1>2, HeadTailProperties, LenProperties
    <3>2. t[1] = stack[2] /\ Len(t) # 0
      BY <2>1, <3>1
    <3>3. t # <<>>
      BY <3>2, EmptySeq
    <3>4. t[1] = "BlockNodes"
      BY <1>3, <1>4, <1>6, <2>1, <3>3 DEF Listing
    <3> QED
      BY <3>2, <3>4 DEF ChecksNull
  <2> QED
    BY <1>3, <1>4, <2>1 DEF ParseInv, TypeOK
<1>8. verdict' = "open"
  BY <1>1 DEF NoError
<1>9. Callers(stack') /\ stack' \in Seq(Point)
  BY <1>2, <1>3
<1>10. TypeOK'
  BY <1>3, <1>5, <1>7, <1>8, <1>9, TypeNext
<1> QED
  BY <1>5, <1>6, <1>7, <1>8, <1>9, <1>10, InvNext

(* The step that records an error *)
Refuses == error' = TRUE /\ verdict' = verdict /\ verdict = "open"

LEMMA FailInv ==
    ASSUME ParseInv, NEW p, NEW K, NEW id, NEW v \in {"node", "null", "absent"},
           Fail(p, K, id, v) \/ EatFail(p, K, v)
    PROVE  ParseInv' /\ Refuses
<1>1. stack \in Seq(Point) /\ stack # <<>> /\ verdict = "open" /\ Callers(stack)
  BY DEF ParseInv, TypeOK, At, Fail, EatFail
<1>2. PICK t \in Seq(Point) : t = Tail(stack) /\ Callers(t)
  BY <1>1, CallersOfTail
<1>3. stack' = t /\ ret' = v
      /\ hole' = (hole \/ (v = "null" /\ Len(stack) > 1 /\ stack[2] \notin ChecksNull))
  BY <1>2 DEF Return, Fail, EatFail
<1>4. error' = TRUE /\ verdict' = "open"
  BY <1>1 DEF Fail, EatFail, Diagnose
<1>5. /\ Tok' \in Kind /\ ahead' \in Seq(Kind \ {"eof"}) /\ left' \in 0 .. MaxTokens
      /\ Tok' = "eof" => ahead' = <<>> /\ left' = 0
      /\ reported' \in BOOLEAN
      /\ Tok' = "unknown" => reported'
  <2>1. CASE Fail(p, K, id, v)
    <3>1. Tok' = Tok /\ ahead' = ahead /\ left' = left
      BY <2>1 DEF Fail, Position
    <3>2. reported' \in BOOLEAN /\ (reported => reported')
      BY <2>1 DEF Fail, Diagnose, ParseInv, TypeOK
    <3> QED
      BY <3>1, <3>2 DEF ParseInv, TypeOK
  <2>2. CASE EatFail(p, K, v)
    <3>1. consumeToken
      BY <2>2 DEF EatFail
    <3>2. reported' \in BOOLEAN /\ (Tok' = "unknown" => reported')
      BY <2>2 DEF EatFail, Diagnose, ParseInv, TypeOK
    <3> QED
      BY <3>1, <3>2, TokenConsumed
  <2> QED
    BY <2>1, <2>2
<1>6. hole' \in BOOLEAN
  BY <1>3 DEF ParseInv, TypeOK
<1>7. TypeOK'
  BY <1>2, <1>3, <1>4, <1>5, <1>6, TypeNext
<1>8. ParseInv'
  BY <1>2, <1>3, <1>4, <1>5, <1>7, InvNext
<1> QED
  BY <1>1, <1>4, <1>8 DEF Refuses

-----------------------------------------------------------------------------
(* A step of the parser is one of Grammar, or none. *)
Step == ~NamesInout => Reading!Next \/ UNCHANGED Reading!vars

(* An error that is new is reported, except at an unknown token. *)
Reports == ~error /\ error' => reported' \/ Tok' \in Unknown

(* What is proved of every step *)
Advances == ParseInv' /\ Step /\ Reports

(* In r a production may take the place of the first symbol, for f. *)
Derives(r, f) ==
    \/ f = r
    \/ \E X \in Nonterminal, rest \in Seq(Sym) : \E q \in Rule[X] :
          q \in Seq(Sym) /\ r = <<X>> \o rest /\ f = q \o rest

(* Head and tail, of a sequence and of what is in front of one *)
LEMMA ConsIs ==
    ASSUME NEW S, NEW x, <<x>> \in Seq(S), NEW s, s \in Seq(S)
    PROVE  Head(<<x>> \o s) = x /\ Tail(<<x>> \o s) = s /\ <<x>> \o s # <<>>
<1>1. PICK u \in Seq(S) : u = <<x>> \o s
  BY ConcatProperties
<1>2. PICK n \in Nat : n = Len(s)
  BY LenProperties
<1>3. Len(<<x>>) = 1 /\ <<x>>[1] = x
  OBVIOUS
<1>4. Len(u) = 1 + n /\ \A i \in 1 .. 1 + n : u[i] = IF i <= 1 THEN <<x>>[i] ELSE s[i - 1]
  BY <1>1, <1>2, <1>3, ConcatProperties
<1>5. u # <<>> /\ u[1] = x
  <2>1. u[1] = <<x>>[1]
    BY <1>4
  <2> QED
    BY <1>3, <1>4, <2>1, EmptySeq
<1>6. PICK t \in Seq(S) : t = Tail(u)
  BY <1>5, HeadTailProperties
<1>7. Len(t) = n /\ \A i \in 1 .. n : t[i] = u[i + 1]
  BY <1>4, <1>5, <1>6, HeadTailProperties
<1>8. ASSUME NEW i \in 1 .. n
      PROVE  t[i] = s[i]
  <2>1. i + 1 \in 1 .. 1 + n /\ ~(i + 1 <= 1) /\ i + 1 - 1 = i
    OBVIOUS
  <2>2. u[i + 1] = s[i]
    BY <1>4, <2>1
  <2> QED
    BY <1>7, <2>2
<1>9. t = s
  BY <1>2, <1>7, <1>8, SeqEqual
<1> QED
  BY <1>1, <1>5, <1>6, <1>9

LEMMA ConsOfHead ==
    ASSUME NEW S, NEW s, s \in Seq(S), s # <<>>
    PROVE  s = <<Head(s)>> \o Tail(s)
<1>1. PICK x \in S : x = Head(s)
  BY HeadTailProperties
<1>2. PICK t \in Seq(S) : t = Tail(s)
  BY HeadTailProperties
<1>3. <<x>> \in Seq(S)
  OBVIOUS
<1>4. Makes(<<x>>, t, s)
  <2>1. PICK n \in Nat : n = Len(s) /\ n # 0
    BY LenProperties, EmptySeq
  <2>2. Len(t) = n - 1 /\ \A i \in 1 .. Len(t) : t[i] = s[i + 1]
    BY <1>2, <2>1, HeadTailProperties
  <2>3. Len(<<x>>) = 1 /\ <<x>>[1] = x /\ s[1] = x
    BY <1>1
  <2>4. ASSUME NEW i \in 1 .. n
        PROVE  s[i] = IF i <= 1 THEN <<x>>[i] ELSE t[i - 1]
    <3>1. CASE i = 1
      BY <2>3, <3>1
    <3>2. CASE i # 1
      <4>1. i - 1 \in 1 .. n - 1 /\ ~(i <= 1) /\ i - 1 + 1 = i
        BY <3>2
      <4> QED
        BY <2>2, <4>1
    <3> QED
      BY <3>1, <3>2
  <2> QED
    BY <2>1, <2>2, <2>3, <2>4 DEF Makes
<1>5. <<x>> \o t = s
  BY <1>3, <1>4, ConcatMakes
<1> QED
  BY <1>1, <1>2, <1>5

LEMMA DerivesExpansion ==
    ASSUME NEW r, NEW f, Derives(r, f), NEW t, t \in Seq(Sym)
    PROVE  f \o t \in Expansions(r \o t)
<1>1. CASE f = r
  BY <1>1 DEF Expansions
<1>2. CASE f # r
  <2>1. PICK X \in Nonterminal, rest \in Seq(Sym) :
          \E q \in Rule[X] : q \in Seq(Sym) /\ r = <<X>> \o rest /\ f = q \o rest
    BY <1>2 DEF Derives
  <2>2. PICK q \in Rule[X] : q \in Seq(Sym) /\ r = <<X>> \o rest /\ f = q \o rest
    BY <2>1
  <2>3. <<X>> \in Seq(Sym)
    BY DEF Sym
  <2>4. PICK u \in Seq(Sym) : u = rest \o t
    BY ConcatProperties
  <2>5. r \o t = <<X>> \o u
    BY <2>2, <2>3, <2>4, Regroup
  <2>6. f \o t = q \o u
    BY <2>2, <2>4, Regroup
  <2>7. Head(<<X>> \o u) = X /\ Tail(<<X>> \o u) = u /\ <<X>> \o u # <<>>
    BY <2>3, ConsIs
  <2>8. q \o u \in Expansions(<<X>> \o u)
    BY <2>7 DEF Expansions
  <2> QED
    BY <2>5, <2>6, <2>8
<1> QED
  BY <1>1, <1>2

(* Grammar has the rules, its own by the INSTANCE. *)
LEMMA SameRules == Reading!Rule = Rule /\ Reading!Nonterminal = Nonterminal
BY DEF Reading!Rule, Rule, Reading!Nonterminal, Nonterminal

LEMMA SameKind == Reading!Kind = Kind
BY DEF Reading!Kind, Kind, Reading!Keyword, Keyword, Reading!BinaryOperator, BinaryOperator,
   Reading!Ellipsis, Ellipsis, Reading!Unknown, Unknown

LEMMA SameReads ==
    ASSUME NEW t
    PROVE  Reading!Reads(t) = Reads(t)
BY DEF Reading!Reads, Reads, Reading!BinaryOperator, BinaryOperator, Reading!Ellipsis, Ellipsis

LEMMA SameExpansions ==
    ASSUME NEW f
    PROVE  Reading!Expansions(f) = Expansions(f)
BY SameRules DEF Reading!Expansions, Expansions

(* What is expected in the state, and in the next one *)
Others == Expected(Tail(stack)) \o <<"Nodes">>

LEMMA OthersType ==
    ASSUME ParseInv, stack # <<>>
    PROVE  Tail(stack) \in Seq(Point) /\ Expected(Tail(stack)) \in Seq(Sym) /\ Others \in Seq(Sym)
<1>1. Tail(stack) \in Seq(Point)
  BY HeadTailProperties DEF ParseInv, TypeOK
<1>2. Expected(Tail(stack)) \in Seq(Sym)
  BY <1>1, ExpectedType
<1>3. <<"Nodes">> \in Seq(Sym)
  BY NonterminalsAre
<1> QED
  BY <1>1, <1>2, <1>3, ConcatProperties DEF Others

LEMMA FormAt ==
    ASSUME ParseInv, NEW p, At(p), ~error
    PROVE  /\ p \in Point /\ judged = "open" /\ look = Tok
           /\ form = RestOf(p) \o Others
<1>1. stack \in Seq(Point) /\ stack # <<>> /\ Head(stack) = p /\ verdict = "open"
  BY DEF ParseInv, TypeOK, At
<1>2. p \in Point /\ Tail(stack) \in Seq(Point)
  BY <1>1, HeadTailProperties
<1>3. judged = "open" /\ look = Tok /\ form = Expected(stack) \o <<"Nodes">>
  BY <1>1 DEF judged, look, form
<1>4. stack = <<p>> \o Tail(stack)
  BY <1>1, ConsOfHead
<1>5. Expected(stack) = RestOf(p) \o Expected(Tail(stack))
  BY <1>2, <1>4, ExpectedCons
<1>6. /\ <<"Nodes">> \in Seq(Sym)
      /\ Expected(Tail(stack)) \in Seq(Sym) /\ RestOf(p) \in Seq(Sym)
  <2>1. <<"Nodes">> \in Seq(Sym)
    BY NonterminalsAre
  <2> QED
    BY <1>2, <2>1, ExpectedType, RestType
<1>7. (RestOf(p) \o Expected(Tail(stack))) \o <<"Nodes">> = RestOf(p) \o Others
  BY <1>6, Regroup DEF Others
<1> QED
  BY <1>2, <1>3, <1>5, <1>7

LEMMA FormThen ==
    ASSUME ParseInv, stack # <<>>, error' = FALSE, verdict' = "open",
           NEW ps, ps \in Seq(Point), stack' = ps \o Tail(stack)
    PROVE  judged' = "open" /\ look' = Tok' /\ form' = Expected(ps) \o Others
<1>1. (judged = "open")' /\ (look = Tok)' /\ (form = Expected(stack) \o <<"Nodes">>)'
  BY DEF judged, look, form
<1>2. /\ Tail(stack) \in Seq(Point) /\ Expected(Tail(stack)) \in Seq(Sym)
      /\ <<"Nodes">> \in Seq(Sym) /\ Expected(ps) \in Seq(Sym)
  BY OthersType, NonterminalsAre, ExpectedType
<1>3. Expected(ps \o Tail(stack)) = Expected(ps) \o Expected(Tail(stack))
  BY <1>2, ExpectedConcat
<1>4. (Expected(ps) \o Expected(Tail(stack))) \o <<"Nodes">> = Expected(ps) \o Others
  BY <1>2, Regroup DEF Others
<1>5. (Expected(stack))' = Expected(stack')
  BY DEF Expected, RestOf, Rest
<1> QED
  BY <1>1, <1>3, <1>4, <1>5

(* A step that records an error, or comes after one; one that goes on with *)
(* the token, and one that reads it                                        *)
LEMMA RefusalStep ==
    ASSUME ParseInv, verdict = "open", error' = TRUE \/ verdict' = "aborted"
    PROVE  Step
<1>1. (judged = "rejected" /\ form = <<>> /\ look = "eof")'
  BY DEF judged, form, look
<1>2. CASE error
  <2>1. judged = "rejected" /\ form = <<>> /\ look = "eof"
    BY <1>2 DEF judged, form, look
  <2> QED
    BY <1>1, <2>1 DEF Step, Reading!vars
<1>3. CASE ~error
  <2>1. judged = "open"
    BY <1>3 DEF judged
  <2> QED
    BY <1>1, <2>1 DEF Step, Reading!Next, Reading!Reject
<1> QED
  BY <1>2, <1>3

LEMMA DeriveStep ==
    ASSUME ParseInv, NEW p, At(p), ~error, error' = FALSE, verdict' = "open", Stay,
           NEW ps, ps \in Seq(Point), stack' = ps \o Tail(stack),
           Derives(RestOf(p), Expected(ps))
    PROVE  Step
<1>1. stack # <<>>
  BY DEF At
<1>2. judged = "open" /\ look = Tok /\ form = RestOf(p) \o Others
  BY FormAt
<1>3. judged' = "open" /\ look' = Tok' /\ form' = Expected(ps) \o Others
  BY <1>1, FormThen
<1>4. form' \in Expansions(form)
  BY <1>1, <1>2, <1>3, OthersType, DerivesExpansion
<1>5. UNCHANGED <<look, judged>>
  BY <1>2, <1>3 DEF Stay, Position
<1> QED
  BY <1>2, <1>4, <1>5, SameExpansions DEF Step, Reading!Next, Reading!Derive

LEMMA ReadStep ==
    ASSUME ParseInv, NEW p, At(p), ~error, error' = FALSE, verdict' = "open", Take,
           NEW ps, ps \in Seq(Point), stack' = ps \o Tail(stack),
           NEW t \in Sym, NamesInout \/ Tok \in Reads(t),
           Derives(RestOf(p), <<t>> \o Expected(ps))
    PROVE  Step
<1>1. stack # <<>>
  BY DEF At
<1>2. judged = "open" /\ look = Tok /\ form = RestOf(p) \o Others
  BY FormAt
<1>3. judged' = "open" /\ look' = Tok' /\ form' = Expected(ps) \o Others
  BY <1>1, FormThen
<1>4. <<t>> \in Seq(Sym) /\ Expected(ps) \in Seq(Sym) /\ Others \in Seq(Sym)
  BY <1>1, ExpectedType, OthersType
<1>5. (<<t>> \o Expected(ps)) \o Others \in Expansions(form)
  BY <1>2, <1>4, DerivesExpansion
<1>6. PICK u \in Seq(Sym) : u = Expected(ps) \o Others
  BY <1>4, ConcatProperties
<1>7. (<<t>> \o Expected(ps)) \o Others = <<t>> \o u
  BY <1>4, <1>6, Regroup
<1>8. Head(<<t>> \o u) = t /\ Tail(<<t>> \o u) = u /\ <<t>> \o u # <<>>
  BY <1>4, ConsIs
<1>9. look # "eof" /\ look' \in Kind /\ judged' = judged
  <2>1. consumeToken
    BY DEF Take
  <2> QED
    BY <1>2, <1>3, <2>1, TokenConsumed
<1>10. CASE NamesInout
  BY <1>10 DEF Step
<1>11. CASE Tok \in Reads(t)
  <2>1. \E f \in Expansions(form) :
           f # <<>> /\ look \in Reads(Head(f)) /\ form' = Tail(f)
    BY <1>2, <1>3, <1>5, <1>6, <1>7, <1>8, <1>11
  <2> QED
    BY <1>2, <1>9, <2>1, SameExpansions, SameReads, SameKind DEF Step, Reading!Next, Reading!Read
<1> QED
  BY <1>10, <1>11

-----------------------------------------------------------------------------
(* The shapes of the steps, with what they leave of a method's rest *)
Pushed(ps, f) == ps \in Seq(Plain) /\ Expected(ps) = f

LEMMA PlainPush ==
    ASSUME ParseInv, stack # <<>>, NEW ps, NEW f, Pushed(ps, f)
    PROVE  ps \in Seq(Point) /\ Callers(ps \o Tail(stack)) /\ Expected(ps) = f
<1>1. ps \in Seq(Point)
  BY SeqMonotonic DEF Pushed, Plain
<1>2. Tail(stack) \in Seq(Point) /\ Callers(Tail(stack))
  BY CallersOfTail DEF ParseInv, TypeOK
<1> QED
  BY <1>1, <1>2, CallersOfPlain DEF Pushed

LEMMA GoStep ==
    ASSUME ParseInv, NEW p, At(p), NEW ps, Then(ps), NoError, ps \in Seq(Point), Stay,
           Derives(RestOf(p), Expected(ps))
    PROVE  Step
<1>1. verdict = "open" /\ verdict' = "open" /\ error' = error /\ stack' = ps \o Tail(stack)
  BY DEF At, NoError, Then
<1>2. CASE error
  BY <1>1, <1>2, RefusalStep
<1>3. CASE ~error
  <2>1. error' = FALSE
    BY <1>1, <1>3 DEF ParseInv, TypeOK
  <2> QED
    BY <1>1, <1>3, <2>1, DeriveStep
<1> QED
  BY <1>2, <1>3

LEMMA EatStep ==
    ASSUME ParseInv, NEW p, At(p), NEW ps, Then(ps), NoError, ps \in Seq(Point), Take,
           NEW t \in Sym, NamesInout \/ Tok \in Reads(t),
           Derives(RestOf(p), <<t>> \o Expected(ps))
    PROVE  Step
<1>1. verdict = "open" /\ verdict' = "open" /\ error' = error /\ stack' = ps \o Tail(stack)
  BY DEF At, NoError, Then
<1>2. CASE error
  BY <1>1, <1>2, RefusalStep
<1>3. CASE ~error
  <2>1. error' = FALSE
    BY <1>1, <1>3 DEF ParseInv, TypeOK
  <2> QED
    BY <1>1, <1>3, <2>1, ReadStep
<1> QED
  BY <1>2, <1>3

(* The next four are used for the alternatives of the methods, with *)
(* Failing.                                                         *)
LEMMA GoTo ==
    ASSUME ParseInv, NEW p, NEW K, NEW ps, Go(p, K, ps), NEW f, ps \in Seq(Point),
           Callers(ps \o Tail(stack)), Expected(ps) = f, Derives(RestOf(p), f)
    PROVE  Advances
<1>1. At(p) /\ Tok \in Kind /\ Stay /\ Then(ps) /\ NoError /\ stack # <<>>
  BY DEF Go, At, ParseInv, TypeOK
<1>2. ParseInv'
  BY <1>1, PushInv
<1>3. Step
  BY <1>1, GoStep
<1>4. Reports
  BY <1>1 DEF NoError, Reports
<1> QED
  BY <1>2, <1>3, <1>4 DEF Advances

LEMMA EatTo ==
    ASSUME ParseInv, NEW p, NEW K, NEW ps, Eat(p, K, ps), NEW f, ps \in Seq(Point),
           Callers(ps \o Tail(stack)), Expected(ps) = f,
           NEW t \in Sym, NamesInout \/ Tok \in Reads(t), Derives(RestOf(p), <<t>> \o f)
    PROVE  Advances
<1>1. At(p) /\ Tok \in Kind /\ Take /\ Then(ps) /\ NoError /\ stack # <<>>
  BY DEF Eat, At, ParseInv, TypeOK
<1>2. ParseInv'
  BY <1>1, PushInv
<1>3. Step
  BY <1>1, EatStep
<1>4. Reports
  BY <1>1 DEF NoError, Reports
<1> QED
  BY <1>2, <1>3, <1>4 DEF Advances

LEMMA GoOn ==
    ASSUME ParseInv, NEW p, NEW K, NEW ps, Go(p, K, ps),
           NEW f, Pushed(ps, f), Derives(RestOf(p), f)
    PROVE  Advances
<1>1. stack # <<>>
  BY DEF Go, At
<1> QED
  BY <1>1, PlainPush, GoTo

LEMMA EatOn ==
    ASSUME ParseInv, NEW p, NEW K, NEW ps, Eat(p, K, ps), NEW f, Pushed(ps, f),
           NEW t \in Sym, NamesInout \/ Tok \in Reads(t), Derives(RestOf(p), <<t>> \o f)
    PROVE  Advances
<1>1. stack # <<>>
  BY DEF Eat, At
<1> QED
  BY <1>1, PlainPush, EatTo

LEMMA NothingPushed ==
    ASSUME ParseInv, stack # <<>>
    PROVE  Tail(stack) = <<>> \o Tail(stack) /\ <<>> \in Seq(Point)
<1>1. Tail(stack) \in Seq(Point)
  BY OthersType
<1> QED
  BY <1>1, ConcatEmptySeq, EmptySeq

LEMMA GoBack ==
    ASSUME ParseInv, NEW p, NEW K, NEW v \in {"node", "null", "absent"}, GoReturn(p, K, v),
           v = "null" => error \/ p \in Listed, error \/ Derives(RestOf(p), <<>>)
    PROVE  Advances
<1>1. At(p) /\ Stay /\ Return(v) /\ NoError /\ verdict = "open"
  BY DEF GoReturn, At
<1>2. ParseInv'
  BY <1>1, ReturnInv
<1>3. verdict' = "open" /\ error' = error
  BY <1>1 DEF NoError
<1>4. Reports
  BY <1>3 DEF Reports
<1>5. CASE error
  BY <1>1, <1>2, <1>3, <1>5, <1>4, RefusalStep DEF Advances
<1>6. CASE ~error
  <2>1. error' = FALSE
    BY <1>3, <1>6 DEF ParseInv, TypeOK
  <2>2. stack' = <<>> \o Tail(stack) /\ <<>> \in Seq(Point)
    BY <1>1, NothingPushed DEF Return, At
  <2> DEFINE ps == <<>>
  <2>3. ps \in Seq(Point) /\ stack' = ps \o Tail(stack) /\ Derives(RestOf(p), Expected(ps))
    BY <1>6, <2>2, ExpectedNone
  <2> HIDE DEF ps
  <2>4. Step
    BY <1>1, <1>3, <1>6, <2>1, <2>3, DeriveStep
  <2> QED
    BY <1>2, <1>4, <2>4 DEF Advances
<1> QED
  BY <1>5, <1>6

LEMMA EatBack ==
    ASSUME ParseInv, NEW p, NEW K, NEW v \in {"node", "null", "absent"}, EatReturn(p, K, v),
           v = "null" => error,
           NEW t \in Sym, Tok \in Reads(t), Derives(RestOf(p), <<t>>)
    PROVE  Advances
<1>1. At(p) /\ Take /\ Return(v) /\ NoError /\ verdict = "open"
  BY DEF EatReturn, At
<1>2. ParseInv'
  BY <1>1, ReturnInv
<1>3. verdict' = "open" /\ error' = error
  BY <1>1 DEF NoError
<1>4. Reports
  BY <1>3 DEF Reports
<1>5. CASE error
  BY <1>1, <1>2, <1>3, <1>5, <1>4, RefusalStep DEF Advances
<1>6. CASE ~error
  <2>1. error' = FALSE
    BY <1>3, <1>6 DEF ParseInv, TypeOK
  <2>2. stack' = <<>> \o Tail(stack) /\ <<>> \in Seq(Point)
    BY <1>1, NothingPushed DEF Return, At
  <2>3. <<t>> \o <<>> = <<t>>
    <3>1. <<t>> \in Seq(Sym)
      OBVIOUS
    <3> QED
      BY <3>1, ConcatEmptySeq
  <2> DEFINE ps == <<>>
  <2>4. /\ ps \in Seq(Point) /\ stack' = ps \o Tail(stack)
        /\ Derives(RestOf(p), <<t>> \o Expected(ps))
    BY <2>2, <2>3, ExpectedNone
  <2> HIDE DEF ps
  <2>5. Step
    BY <1>1, <1>3, <1>6, <2>1, <2>4, ReadStep
  <2> QED
    BY <1>2, <1>4, <2>5 DEF Advances
<1> QED
  BY <1>5, <1>6

LEMMA Failing ==
    ASSUME ParseInv, NEW p, NEW K, NEW id, NEW v \in {"node", "null", "absent"},
           Fail(p, K, id, v) \/ EatFail(p, K, v)
    PROVE  Advances
<1>1. ParseInv' /\ Refuses
  BY FailInv
<1>2. Reports
  <2>1. CASE Fail(p, K, id, v)
    BY <2>1 DEF Fail, Diagnose, Position, Reports
  <2>2. CASE EatFail(p, K, v)
    BY <2>2 DEF EatFail, Diagnose, Reports
  <2> QED
    BY <2>1, <2>2
<1> QED
  BY <1>1, <1>2, RefusalStep DEF Refuses, Advances

(* What may be left to read of a method: its rest itself, its production *)
LEMMA Same ==
    ASSUME NEW f
    PROVE  Derives(f, f)
BY DEF Derives

LEMMA Produces ==
    ASSUME NEW X \in Nonterminal, NEW q \in Rule[X]
    PROVE  Derives(<<X>>, q)
<1>1. <<X>> \in Seq(Sym) /\ <<>> \in Seq(Sym) /\ q \in Seq(Sym)
  BY EmptySeq, RuleType DEF Sym
<1>2. <<X>> = <<X>> \o <<>> /\ q = q \o <<>>
  BY <1>1, ConcatEmptySeq
<1> QED
  BY <1>1, <1>2 DEF Derives

LEMMA Entry ==
    ASSUME NEW p \in Nonterminal, p \notin DOMAIN Rest, NEW q \in Rule[p]
    PROVE  Derives(RestOf(p), q)
BY Produces DEF RestOf

LEMMA Produces2 ==
    ASSUME NEW X \in Nonterminal, NEW q \in Rule[X], NEW Y \in Sym
    PROVE  Derives(<<X, Y>>, q \o <<Y>>)
<1>1. <<Y>> \in Seq(Sym) /\ q \in Seq(Sym)
  BY RuleType
<1>2. <<X, Y>> = <<X>> \o <<Y>>
  BY Cat11
<1> QED
  BY <1>1, <1>2 DEF Derives

(* The points that a method pushes, and what they have to read *)
LEMMA PushedOne ==
    ASSUME NEW p \in Plain
    PROVE  Pushed(<<p>>, RestOf(p))
<1>1. p \in Point /\ <<p>> \in Seq(Plain)
  BY DEF Plain
<1> QED
  BY <1>1, ExpectedOne DEF Pushed

LEMMA PushedCons ==
    ASSUME NEW p \in Plain, NEW qs, NEW f, Pushed(qs, f), NEW ps, ps = <<p>> \o qs
    PROVE  Pushed(ps, RestOf(p) \o f)
<1>1. /\ p \in Point /\ <<p>> \in Seq(Plain) /\ qs \in Seq(Plain) /\ qs \in Seq(Point)
      /\ Expected(qs) = f
  BY SeqMonotonic DEF Plain, Pushed
<1>2. ps \in Seq(Plain)
  BY <1>1, ConcatProperties
<1>3. Expected(ps) = RestOf(p) \o f
  BY <1>1, ExpectedCons
<1> QED
  BY <1>2, <1>3 DEF Pushed

LEMMA PushedTwo ==
    ASSUME NEW p \in Plain, NEW q \in Plain
    PROVE  Pushed(<<p, q>>, RestOf(p) \o RestOf(q))
<1>1. <<p, q>> = <<p>> \o <<q>>
  BY Cat11
<1> QED
  BY <1>1, PushedOne, PushedCons

LEMMA PushedThree ==
    ASSUME NEW p \in Plain, NEW q \in Plain, NEW r \in Plain
    PROVE  Pushed(<<p, q, r>>, RestOf(p) \o (RestOf(q) \o RestOf(r)))
<1>1. <<p, q, r>> = <<p>> \o <<q, r>>
  BY Cat12
<1> QED
  BY <1>1, PushedTwo, PushedCons

LEMMA PushedFour ==
    ASSUME NEW p \in Plain, NEW q \in Plain, NEW r \in Plain, NEW s \in Plain
    PROVE  Pushed(<<p, q, r, s>>, RestOf(p) \o (RestOf(q) \o (RestOf(r) \o RestOf(s))))
<1>1. <<p, q, r, s>> = <<p>> \o <<q, r, s>>
  BY Cat13
<1> QED
  BY <1>1, PushedThree, PushedCons

LEMMA PlainAre ==
    {"AnotherItem", "AnotherParam", "ArraySize", "ArrayType", "Block", "BreakStmt",
      "Built", "DeclInit", "DeclName", "DeclValue", "ElseStmt", "Expr", "ExprStmt",
      "ForBody", "ForIn", "ForName", "ForStmt", "FuncBody", "FuncDecl", "FuncName",
      "FuncStmt", "FuncType", "IdentType", "IfStmt", "InOutBase", "Items", "MoreItems",
      "MoreParams", "Operators", "ParamDecl", "ParamType", "Params", "Postfix", "Primary",
      "RBrace", "RBracket", "RParen", "RangeOp", "ResultType", "ReturnStmt", "ReturnValue",
      "Semi", "StmtEnd", "TypeRepr", "ValType", "VarDecl", "VarPattern", "WhileStmt"}
      \subseteq Plain
BY DEF Plain, Listed, Point, Rest, Nonterminal, Rule

(* A node or a statement is pushed, where the caller expects its null. *)
LEMMA ListedPush ==
    ASSUME ParseInv, NEW p \in Listed, At(p), NEW q \in Listed
    PROVE  /\ <<q>> \in Seq(Point) /\ Callers(<<q>> \o Tail(stack))
           /\ Expected(<<q>>) = RestOf(q)
<1>1. stack \in Seq(Point) /\ stack # <<>> /\ Head(stack) = p /\ Callers(stack)
  BY DEF ParseInv, TypeOK, At
<1>2. Tail(stack) \in Seq(Point) /\ Callers(Tail(stack)) /\ Listing(Tail(stack))
  BY <1>1, CallersOfTail
<1>3. q \in Point
  BY DEF Listed, Point, Rest, Nonterminal, Rule
<1>4. <<q>> \in Seq(Point) /\ Expected(<<q>>) = RestOf(q)
  BY <1>3, ExpectedOne
<1> QED
  BY <1>2, <1>4, CallersOfStatement

LEMMA BlockPush ==
    ASSUME ParseInv, stack # <<>>
    PROVE  /\ <<"Node", "BlockNodes">> \in Seq(Point)
           /\ Callers(<<"Node", "BlockNodes">> \o Tail(stack))
           /\ Expected(<<"Node", "BlockNodes">>) = <<"Node", "Nodes", "r_brace">>
<1>1. PICK t \in Seq(Point) : t = Tail(stack) /\ Callers(t)
  BY CallersOfTail DEF ParseInv, TypeOK
<1>2. "Node" \in Point /\ "Node" \in Listed /\ "BlockNodes" \in Plain /\ "BlockNodes" \in Point
  BY DEF Plain, Listed, Point, Rest, Nonterminal, Rule
<1>3. /\ <<"BlockNodes">> \in Seq(Plain) /\ <<"BlockNodes">> \in Seq(Point)
      /\ <<"Node">> \in Seq(Point)
  BY <1>2
<1>4. PICK u \in Seq(Point) : u = <<"BlockNodes">> \o t
  BY <1>1, <1>3, ConcatProperties
<1>5. Callers(u) /\ Head(u) = "BlockNodes"
  BY <1>1, <1>3, <1>4, CallersOfPlain, ConsIs
<1>6. Callers(<<"Node">> \o u)
  BY <1>2, <1>4, <1>5, CallersOfStatement DEF Listing
<1>7. <<"Node", "BlockNodes">> = <<"Node">> \o <<"BlockNodes">>
  BY Cat11
<1>8. <<"Node", "BlockNodes">> \o t = <<"Node">> \o u
  BY <1>1, <1>3, <1>4, <1>7, Regroup
<1>9. <<"Node", "BlockNodes">> \in Seq(Point)
  BY <1>2
<1>10. Expected(<<"Node", "BlockNodes">>) = <<"Node", "Nodes", "r_brace">>
  <2>1. Expected(<<"BlockNodes">>) = <<"Nodes", "r_brace">>
    BY <1>2, ExpectedOne DEF RestOf, Rest
  <2>2. RestOf("Node") = <<"Node">>
    BY DEF RestOf, Rest
  <2>3. <<"Node">> \o <<"Nodes", "r_brace">> = <<"Node", "Nodes", "r_brace">>
    BY Cat12
  <2> QED
    BY <1>2, <1>3, <1>7, <2>1, <2>2, <2>3, ExpectedCons
<1> QED
  BY <1>1, <1>6, <1>8, <1>9, <1>10

-----------------------------------------------------------------------------
(* The methods of the parser: one lemma for each, one case for each of its *)
(* alternatives                                                            *)
LEMMA ParseNodeStep ==
    ASSUME ParseInv, ParseNode
    PROVE  Advances
<1>1. CASE Go("Node", {"kw_var", "kw_let"}, <<"VarDecl">>)
  <2>1. Pushed(<<"VarDecl">>, <<"VarDecl">>)
    BY PlainAre, PushedOne DEF RestOf, Rest
  <2>2. Derives(RestOf("Node"), <<"VarDecl">>)
    BY Entry DEF Nonterminal, Rule, Rest
  <2> QED
    BY <1>1, <2>1, <2>2, GoOn
<1>2. CASE GoReturn("Node", {"kw_inout"}, "null")
  <2>1. Derives(RestOf("Node"), <<>>)
    BY Entry DEF Nonterminal, Rule, Rest
  <2> QED
    BY <1>2, <2>1, GoBack DEF Listed
<1>3. CASE Go("Node", StatementToken, <<"Statement">>)
  <2>1. <<"Statement">> \in Seq(Point) /\ Callers(<<"Statement">> \o Tail(stack))
        /\ Expected(<<"Statement">>) = <<"Statement">>
    BY <1>3, ListedPush DEF Go, Listed, RestOf, Rest
  <2>2. Derives(RestOf("Node"), <<"Statement">>)
    BY Entry DEF Nonterminal, Rule, Rest
  <2> QED
    BY <1>3, <2>1, <2>2, GoTo
<1>4. CASE GoReturn("Node", {"eof", "r_brace"}, "null")
  <2>1. Derives(RestOf("Node"), <<>>)
    BY Entry DEF Nonterminal, Rule, Rest
  <2> QED
    BY <1>4, <2>1, GoBack DEF Listed
<1>5. CASE EatFail("Node", Keyword \union StatementToken \union {"r_brace"}, "null")
  BY <1>5, Failing
<1> QED
  BY <1>1, <1>2, <1>3, <1>4, <1>5 DEF ParseNode

LEMMA ParseStatementStep ==
    ASSUME ParseInv, ParseStatement
    PROVE  Advances
<1>1. CASE Eat("Statement", {"semi"}, <<"Statement">>)
  <2>1. <<"Statement">> \in Seq(Point) /\ Callers(<<"Statement">> \o Tail(stack))
        /\ Expected(<<"Statement">>) = <<"Statement">>
    BY <1>1, ListedPush DEF Eat, Listed, RestOf, Rest
  <2>2. <<"semi">> \o <<"Statement">> = <<"semi", "Statement">>
    BY Cat11
  <2>3. Derives(RestOf("Statement"), <<"semi">> \o <<"Statement">>)
    BY <2>2, Entry DEF Nonterminal, Rule, Rest
  <2>4. "semi" \in Sym /\ Tok \in Reads("semi")
    BY <1>1, TerminalsAre DEF Eat, Reads
  <2> QED
    BY <1>1, <2>1, <2>3, <2>4, EatTo
<1>2. CASE Tok \in DOMAIN StatementOf /\ Go("Statement", {Tok}, <<StatementOf[Tok]>>)
  <2>1. PICK X \in {"BreakStmt", "ReturnStmt", "FuncStmt", "ForStmt", "IfStmt", "WhileStmt",
                    "ExprStmt"} : X = StatementOf[Tok]
    BY <1>2 DEF StatementOf
  <2>2. Pushed(<<X>>, <<X>>)
    <3>1. X \in Plain /\ RestOf(X) = <<X>>
      BY <2>1, PlainAre DEF RestOf, Rest
    <3> QED
      BY <3>1, PushedOne
  <2>3. Derives(RestOf("Statement"), <<X>>)
    BY <2>1, Entry DEF Nonterminal, Rule, Rest
  <2> QED
    BY <1>2, <2>1, <2>2, <2>3, GoOn
<1>3. CASE GoReturn("Statement", Kind \ ({"semi"} \union DOMAIN StatementOf), "null")
  <2>1. Derives(RestOf("Statement"), <<>>)
    BY Entry DEF Nonterminal, Rule, Rest
  <2> QED
    BY <1>3, <2>1, GoBack DEF Listed
<1> QED
  BY <1>1, <1>2, <1>3 DEF ParseStatement

LEMMA ParseExprStmtStep ==
    ASSUME ParseInv, ParseExprStmt
    PROVE  Advances
<1>1. CASE Go("ExprStmt", Kind, <<"Expr", "StmtEnd">>)
  <2>1. RestOf("Expr") \o RestOf("StmtEnd") = <<"Expr", "semi">>
    BY Cat11 DEF RestOf, Rest
  <2>2. Pushed(<<"Expr", "StmtEnd">>, <<"Expr", "semi">>)
    BY <2>1, PlainAre, PushedTwo
  <2>3. Derives(RestOf("ExprStmt"), <<"Expr", "semi">>)
    BY Entry DEF Nonterminal, Rule, Rest
  <2> QED
    BY <1>1, <2>2, <2>3, GoOn
<1>2. CASE EatReturn("StmtEnd", {"semi"}, ret)
  <2>1. Derives(RestOf("StmtEnd"), <<"semi">>)
    BY Same DEF RestOf, Rest
  <2>2. "semi" \in Sym /\ Tok \in Reads("semi")
    BY <1>2, TerminalsAre DEF EatReturn, Reads
  <2>3. ret = "null" => error
    BY <1>2 DEF EatReturn, At, ParseInv, Listing
  <2>4. ret \in {"node", "null", "absent"}
    BY DEF ParseInv, TypeOK
  <2> QED
    BY <1>2, <2>1, <2>2, <2>3, <2>4, EatBack
<1>3. CASE Fail("StmtEnd", {"semi"}, "expected_semicolon", "null")
  BY <1>3, Failing
<1> QED
  BY <1>1, <1>2, <1>3 DEF ParseExprStmt

LEMMA ParseBreakStmtStep ==
    ASSUME ParseInv, ParseBreakStmt
    PROVE  Advances
<1>1. CASE Eat("BreakStmt", {"kw_break"}, <<"Semi">>)
  <2>1. Pushed(<<"Semi">>, <<"semi">>)
    BY PlainAre, PushedOne DEF RestOf, Rest
  <2>2. <<"kw_break">> \o <<"semi">> = <<"kw_break", "semi">>
    BY Cat11
  <2>3. Derives(RestOf("BreakStmt"), <<"kw_break">> \o <<"semi">>)
    BY <2>2, Entry DEF Nonterminal, Rule, Rest
  <2>4. "kw_break" \in Sym /\ Tok \in Reads("kw_break")
    BY <1>1, TerminalsAre DEF Eat, Reads
  <2> QED
    BY <1>1, <2>1, <2>3, <2>4, EatOn
<1>2. CASE EatReturn("Semi", {"semi"}, "node")
  <2>1. Derives(RestOf("Semi"), <<"semi">>)
    BY Same DEF RestOf, Rest
  <2>2. "semi" \in Sym /\ Tok \in Reads("semi")
    BY <1>2, TerminalsAre DEF EatReturn, Reads
  <2> QED
    BY <1>2, <2>1, <2>2, EatBack
<1>3. CASE Fail("Semi", {"semi"}, "expected_semicolon", "null")
  BY <1>3, Failing
<1> QED
  BY <1>1, <1>2, <1>3 DEF ParseBreakStmt

LEMMA ParseReturnStmtStep ==
    ASSUME ParseInv, ParseReturnStmt
    PROVE  Advances
<1>1. CASE Eat("ReturnStmt", {"kw_return"}, <<"ReturnValue", "Semi">>)
  <2>1. RestOf("ReturnValue") \o RestOf("Semi") = <<"ReturnValue", "semi">>
    BY Cat11 DEF RestOf, Rest
  <2>2. Pushed(<<"ReturnValue", "Semi">>, <<"ReturnValue", "semi">>)
    BY <2>1, PlainAre, PushedTwo
  <2>3. <<"kw_return">> \o <<"ReturnValue", "semi">>
          = <<"kw_return", "ReturnValue", "semi">>
    BY Cat12
  <2>4. Derives(RestOf("ReturnStmt"), <<"kw_return">> \o <<"ReturnValue", "semi">>)
    BY <2>3, Entry DEF Nonterminal, Rule, Rest
  <2>5. "kw_return" \in Sym /\ Tok \in Reads("kw_return")
    BY <1>1, TerminalsAre DEF Eat, Reads
  <2> QED
    BY <1>1, <2>2, <2>4, <2>5, EatOn
<1>2. CASE Go("ReturnValue", ReturnedExpr, <<"Expr">>)
  <2>1. Pushed(<<"Expr">>, <<"Expr">>)
    BY PlainAre, PushedOne DEF RestOf, Rest
  <2>2. Derives(RestOf("ReturnValue"), <<"Expr">>)
    BY Entry DEF Nonterminal, Rule, Rest
  <2> QED
    BY <1>2, <2>1, <2>2, GoOn
<1>3. CASE GoReturn("ReturnValue", {"semi"}, "absent")
  <2>1. Derives(RestOf("ReturnValue"), <<>>)
    BY Entry DEF Nonterminal, Rule, Rest
  <2> QED
    BY <1>3, <2>1, GoBack
<1>4. CASE EatFail("ReturnValue", ReturnedExpr \union {"semi"}, "null")
  BY <1>4, Failing
<1>5. CASE Tok = "eof" /\ Fail("ReturnValue", {}, "unexpected_token", "null")
  BY <1>5, Failing
<1> QED
  BY <1>1, <1>2, <1>3, <1>4, <1>5 DEF ParseReturnStmt

LEMMA ParseBlockStep ==
    ASSUME ParseInv, ParseBlock
    PROVE  Advances
<1>1. CASE Eat("Block", {"l_brace"}, <<"Node", "BlockNodes">>)
  <2>1. stack # <<>> /\ "l_brace" \in Sym /\ Tok \in Reads("l_brace")
    BY <1>1, TerminalsAre DEF Eat, At, Reads
  <2>2. <<"l_brace">> \o <<"Node", "Nodes", "r_brace">>
          = <<"l_brace", "Node", "Nodes", "r_brace">>
    BY Cat13
  <2>3. Derives(RestOf("Block"), <<"l_brace">> \o <<"Node", "Nodes", "r_brace">>)
    BY <2>2, Entry DEF Nonterminal, Rule, Rest
  <2> QED
    BY <1>1, <2>1, <2>3, BlockPush, EatTo
<1>2. CASE ret = "node" /\ Go("BlockNodes", Kind, <<"Node", "BlockNodes">>)
  <2>1. stack # <<>>
    BY <1>2 DEF Go, At
  <2>2. Derives(RestOf("BlockNodes"), <<"Node", "Nodes", "r_brace">>)
    <3>1. RestOf("BlockNodes") = <<"Nodes", "r_brace">>
      BY DEF RestOf, Rest
    <3>2. "Nodes" \in Nonterminal /\ <<"Node", "Nodes">> \in Rule["Nodes"] /\ "r_brace" \in Sym
      BY TerminalsAre DEF Nonterminal, Rule
    <3>3. <<"Node", "Nodes">> \o <<"r_brace">> = <<"Node", "Nodes", "r_brace">>
      BY Cat21
    <3> QED
      BY <3>1, <3>2, <3>3, Produces2
  <2> QED
    BY <1>2, <2>1, <2>2, BlockPush, GoTo
<1>3. CASE ret # "node" /\ Go("BlockNodes", Kind, <<"RBrace">>)
  <2>1. Pushed(<<"RBrace">>, <<"r_brace">>)
    BY PlainAre, PushedOne DEF RestOf, Rest
  <2>2. <<>> \o <<"r_brace">> = <<"r_brace">>
    BY Cat01
  <2>3. <<>> \in Rule["Nodes"]
    BY DEF Rule
  <2>4. RestOf("BlockNodes") = <<"Nodes", "r_brace">>
    BY DEF RestOf, Rest
  <2>5. "Nodes" \in Nonterminal /\ "r_brace" \in Sym
    BY TerminalsAre, NonterminalsAre DEF Nonterminal, Rule
  <2>6. Derives(RestOf("BlockNodes"), <<"r_brace">>)
    BY <2>2, <2>3, <2>4, <2>5, Produces2
  <2> QED
    BY <1>3, <2>1, <2>6, GoOn
<1>4. CASE EatReturn("RBrace", {"r_brace"}, "node")
  <2>1. Derives(RestOf("RBrace"), <<"r_brace">>)
    BY Same DEF RestOf, Rest
  <2>2. "r_brace" \in Sym /\ Tok \in Reads("r_brace")
    BY <1>4, TerminalsAre DEF EatReturn, Reads
  <2> QED
    BY <1>4, <2>1, <2>2, EatBack
<1>5. CASE Fail("RBrace", {"r_brace"}, "expected_r_brace", "null")
  BY <1>5, Failing
<1> QED
  BY <1>1, <1>2, <1>3, <1>4, <1>5 DEF ParseBlock

LEMMA BuiltStep ==
    ASSUME ParseInv, Built
    PROVE  Advances
<1>1. CASE GoReturn("Built", Kind, "node")
  <2>1. Derives(RestOf("Built"), <<>>)
    BY Same DEF RestOf, Rest
  <2> QED
    BY <1>1, <2>1, GoBack
<1> QED
  BY <1>1 DEF Built

LEMMA ParseFuncStmtStep ==
    ASSUME ParseInv, ParseFuncStmt
    PROVE  Advances
<1>1. CASE Go("FuncStmt", {"kw_func"}, <<"FuncDecl", "FuncBody">>)
  <2>1. RestOf("FuncDecl") \o RestOf("FuncBody") = <<"FuncDecl", "Block">>
    BY Cat11 DEF RestOf, Rest
  <2>2. Pushed(<<"FuncDecl", "FuncBody">>, <<"FuncDecl", "Block">>)
    BY <2>1, PlainAre, PushedTwo
  <2>3. Derives(RestOf("FuncStmt"), <<"FuncDecl", "Block">>)
    BY Entry DEF Nonterminal, Rule, Rest
  <2> QED
    BY <1>1, <2>2, <2>3, GoOn
<1>2. CASE Go("FuncBody", {"l_brace"}, <<"Block", "Built">>)
  <2>1. RestOf("Block") \o RestOf("Built") = <<"Block">>
    BY Cat10 DEF RestOf, Rest
  <2>2. Pushed(<<"Block", "Built">>, <<"Block">>)
    BY <2>1, PlainAre, PushedTwo
  <2>3. Derives(RestOf("FuncBody"), <<"Block">>)
    BY Same DEF RestOf, Rest
  <2> QED
    BY <1>2, <2>2, <2>3, GoOn
<1>3. CASE Fail("FuncBody", {"l_brace"}, "expected_l_brace", "null")
  BY <1>3, Failing
<1> QED
  BY <1>1, <1>2, <1>3 DEF ParseFuncStmt

LEMMA ParseForStmtStep ==
    ASSUME ParseInv, ParseForStmt
    PROVE  Advances
<1>1. CASE Eat("ForStmt", {"kw_for"}, <<"ForName">>)
  <2>1. Pushed(<<"ForName">>,
               <<"identifier", "kw_in", "Expr", "Ellipsis", "Expr", "Block">>)
    BY PlainAre, PushedOne DEF RestOf, Rest
  <2>2. <<"kw_for">> \o <<"identifier", "kw_in", "Expr", "Ellipsis", "Expr", "Block">>
          = <<"kw_for", "identifier", "kw_in", "Expr", "Ellipsis", "Expr", "Block">>
    BY Cat16
  <2>3. Derives(RestOf("ForStmt"),
                <<"kw_for">> \o <<"identifier", "kw_in", "Expr", "Ellipsis", "Expr", "Block">>)
    BY <2>2, Entry DEF Nonterminal, Rule, Rest
  <2>4. "kw_for" \in Sym /\ Tok \in Reads("kw_for")
    BY <1>1, TerminalsAre DEF Eat, Reads
  <2> QED
    BY <1>1, <2>1, <2>3, <2>4, EatOn
<1>2. CASE Eat("ForName", {"identifier"}, <<"ForIn">>)
  <2>1. Pushed(<<"ForIn">>, <<"kw_in", "Expr", "Ellipsis", "Expr", "Block">>)
    BY PlainAre, PushedOne DEF RestOf, Rest
  <2>2. <<"identifier">> \o <<"kw_in", "Expr", "Ellipsis", "Expr", "Block">>
          = <<"identifier", "kw_in", "Expr", "Ellipsis", "Expr", "Block">>
    BY Cat15
  <2>3. Derives(RestOf("ForName"),
                <<"identifier">> \o <<"kw_in", "Expr", "Ellipsis", "Expr", "Block">>)
    BY <2>2, Same DEF RestOf, Rest
  <2>4. "identifier" \in Sym /\ Tok \in Reads("identifier")
    BY <1>2, TerminalsAre DEF Eat, Reads
  <2> QED
    BY <1>2, <2>1, <2>3, <2>4, EatOn
<1>3. CASE Fail("ForName", {"identifier"}, "expected_identifier", "null")
  BY <1>3, Failing
<1>4. CASE Eat("ForIn", {"kw_in"}, <<"Expr", "RangeOp", "ForBody">>)
  <2>1. RestOf("RangeOp") \o RestOf("ForBody") = <<"Ellipsis", "Expr", "Block">>
    BY Cat21 DEF RestOf, Rest
  <2>2. RestOf("Expr") \o <<"Ellipsis", "Expr", "Block">>
          = <<"Expr", "Ellipsis", "Expr", "Block">>
    BY Cat13 DEF RestOf, Rest
  <2>3. Pushed(<<"Expr", "RangeOp", "ForBody">>,
               RestOf("Expr") \o (RestOf("RangeOp") \o RestOf("ForBody")))
    BY PlainAre, PushedThree
  <2>4. Pushed(<<"Expr", "RangeOp", "ForBody">>, <<"Expr", "Ellipsis", "Expr", "Block">>)
    BY <2>1, <2>2, <2>3
  <2>5. <<"kw_in">> \o <<"Expr", "Ellipsis", "Expr", "Block">>
          = <<"kw_in", "Expr", "Ellipsis", "Expr", "Block">>
    BY Cat14
  <2>6. Derives(RestOf("ForIn"), <<"kw_in">> \o <<"Expr", "Ellipsis", "Expr", "Block">>)
    BY <2>5, Same DEF RestOf, Rest
  <2>7. "kw_in" \in Sym /\ Tok \in Reads("kw_in")
    BY <1>4, TerminalsAre DEF Eat, Reads
  <2> QED
    BY <1>4, <2>4, <2>6, <2>7, EatOn
<1>5. CASE Fail("ForIn", {"kw_in"}, "expected_in_kw", "null")
  BY <1>5, Failing
<1>6. CASE Go("ForBody", {"l_brace"}, <<"Block", "Built">>)
  <2>1. RestOf("Block") \o RestOf("Built") = <<"Block">>
    BY Cat10 DEF RestOf, Rest
  <2>2. Pushed(<<"Block", "Built">>, <<"Block">>)
    BY <2>1, PlainAre, PushedTwo
  <2>3. Derives(RestOf("ForBody"), <<"Block">>)
    BY Same DEF RestOf, Rest
  <2> QED
    BY <1>6, <2>2, <2>3, GoOn
<1>7. CASE Fail("ForBody", {"l_brace"}, "unexpected_token", "null")
  BY <1>7, Failing
<1> QED
  BY <1>1, <1>2, <1>3, <1>4, <1>5, <1>6, <1>7 DEF ParseForStmt

LEMMA ParseRangeStmtStep ==
    ASSUME ParseInv, ParseRangeStmt
    PROVE  Advances
<1>1. CASE Eat("RangeOp", Ellipsis, <<"Expr", "Built">>)
  <2>1. RestOf("Expr") \o RestOf("Built") = <<"Expr">>
    BY Cat10 DEF RestOf, Rest
  <2>2. Pushed(<<"Expr", "Built">>, <<"Expr">>)
    BY <2>1, PlainAre, PushedTwo
  <2>3. <<"Ellipsis">> \o <<"Expr">> = <<"Ellipsis", "Expr">>
    BY Cat11
  <2>4. Derives(RestOf("RangeOp"), <<"Ellipsis">> \o <<"Expr">>)
    BY <2>3, Same DEF RestOf, Rest
  <2>5. "Ellipsis" \in Sym /\ Tok \in Reads("Ellipsis")
    BY <1>1, TerminalsAre DEF Eat, Reads
  <2> QED
    BY <1>1, <2>2, <2>4, <2>5, EatOn
<1>2. CASE Fail("RangeOp", Ellipsis, "expected_ellipsis", "null")
  BY <1>2, Failing
<1> QED
  BY <1>1, <1>2 DEF ParseRangeStmt

LEMMA ParseWhileStmtStep ==
    ASSUME ParseInv, ParseWhileStmt
    PROVE  Advances
<1>1. CASE Eat("WhileStmt", {"kw_while"}, <<"Expr", "Block", "Built">>)
  <2>1. RestOf("Block") \o RestOf("Built") = <<"Block">>
    BY Cat10 DEF RestOf, Rest
  <2>2. RestOf("Expr") \o <<"Block">> = <<"Expr", "Block">>
    BY Cat11 DEF RestOf, Rest
  <2>3. Pushed(<<"Expr", "Block", "Built">>,
               RestOf("Expr") \o (RestOf("Block") \o RestOf("Built")))
    BY PlainAre, PushedThree
  <2>4. Pushed(<<"Expr", "Block", "Built">>, <<"Expr", "Block">>)
    BY <2>1, <2>2, <2>3
  <2>5. <<"kw_while">> \o <<"Expr", "Block">> = <<"kw_while", "Expr", "Block">>
    BY Cat12
  <2>6. Derives(RestOf("WhileStmt"), <<"kw_while">> \o <<"Expr", "Block">>)
    BY <2>5, Entry DEF Nonterminal, Rule, Rest
  <2>7. "kw_while" \in Sym /\ Tok \in Reads("kw_while")
    BY <1>1, TerminalsAre DEF Eat, Reads
  <2> QED
    BY <1>1, <2>4, <2>6, <2>7, EatOn
<1> QED
  BY <1>1 DEF ParseWhileStmt

LEMMA ParseIfStmtStep ==
    ASSUME ParseInv, ParseIfStmt
    PROVE  Advances
<1>1. CASE Eat("IfStmt", {"kw_if"}, <<"Expr", "Block", "ElseStmt", "Built">>)
  <2>1. RestOf("ElseStmt") \o RestOf("Built") = <<"ElseStmt">>
    BY Cat10 DEF RestOf, Rest
  <2>2. RestOf("Block") \o <<"ElseStmt">> = <<"Block", "ElseStmt">>
    BY Cat11 DEF RestOf, Rest
  <2>3. RestOf("Expr") \o <<"Block", "ElseStmt">> = <<"Expr", "Block", "ElseStmt">>
    BY Cat12 DEF RestOf, Rest
  <2>4. Pushed(<<"Expr", "Block", "ElseStmt", "Built">>,
               RestOf("Expr") \o (RestOf("Block") \o (RestOf("ElseStmt") \o RestOf("Built"))))
    BY PlainAre, PushedFour
  <2>5. Pushed(<<"Expr", "Block", "ElseStmt", "Built">>, <<"Expr", "Block", "ElseStmt">>)
    BY <2>1, <2>2, <2>3, <2>4
  <2>6. <<"kw_if">> \o <<"Expr", "Block", "ElseStmt">>
          = <<"kw_if", "Expr", "Block", "ElseStmt">>
    BY Cat13
  <2>7. Derives(RestOf("IfStmt"), <<"kw_if">> \o <<"Expr", "Block", "ElseStmt">>)
    BY <2>6, Entry DEF Nonterminal, Rule, Rest
  <2>8. "kw_if" \in Sym /\ Tok \in Reads("kw_if")
    BY <1>1, TerminalsAre DEF Eat, Reads
  <2> QED
    BY <1>1, <2>5, <2>7, <2>8, EatOn
<1> QED
  BY <1>1 DEF ParseIfStmt

LEMMA ParseElseStmtStep ==
    ASSUME ParseInv, ParseElseStmt
    PROVE  Advances
<1>1. CASE Eat("ElseStmt", {"kw_else"}, <<"Block">>)
  <2>1. Pushed(<<"Block">>, <<"Block">>)
    BY PlainAre, PushedOne DEF RestOf, Rest
  <2>2. <<"kw_else">> \o <<"Block">> = <<"kw_else", "Block">>
    BY Cat11
  <2>3. Derives(RestOf("ElseStmt"), <<"kw_else">> \o <<"Block">>)
    BY <2>2, Entry DEF Nonterminal, Rule, Rest
  <2>4. "kw_else" \in Sym /\ Tok \in Reads("kw_else")
    BY <1>1, TerminalsAre DEF Eat, Reads
  <2> QED
    BY <1>1, <2>1, <2>3, <2>4, EatOn
<1>2. CASE GoReturn("ElseStmt", Kind \ {"kw_else"}, "absent")
  <2>1. Derives(RestOf("ElseStmt"), <<>>)
    BY Entry DEF Nonterminal, Rule, Rest
  <2> QED
    BY <1>2, <2>1, GoBack
<1> QED
  BY <1>1, <1>2 DEF ParseElseStmt

LEMMA ParseVarDeclStep ==
    ASSUME ParseInv, ParseVarDecl
    PROVE  Advances
<1>1. CASE Eat("VarDecl", {"kw_var", "kw_let"}, <<"DeclName">>)
  <2>1. Pushed(<<"DeclName">>, <<"identifier", "ValType", "DeclValue">>)
    BY PlainAre, PushedOne DEF RestOf, Rest
  <2>2. CASE Tok = "kw_var"
    <3>1. <<"kw_var">> \o <<"identifier", "ValType", "DeclValue">>
            = <<"kw_var", "identifier", "ValType", "DeclValue">>
      BY Cat13
    <3>2. Derives(RestOf("VarDecl"),
                  <<"kw_var">> \o <<"identifier", "ValType", "DeclValue">>)
      BY <3>1, Entry DEF Nonterminal, Rule, Rest
    <3>3. "kw_var" \in Sym /\ Tok \in Reads("kw_var")
      BY <2>2, TerminalsAre DEF Reads
    <3> QED
      BY <1>1, <2>1, <3>2, <3>3, EatOn
  <2>3. CASE Tok = "kw_let"
    <3>1. <<"kw_let">> \o <<"identifier", "ValType", "DeclValue">>
            = <<"kw_let", "identifier", "ValType", "DeclValue">>
      BY Cat13
    <3>2. Derives(RestOf("VarDecl"),
                  <<"kw_let">> \o <<"identifier", "ValType", "DeclValue">>)
      BY <3>1, Entry DEF Nonterminal, Rule, Rest
    <3>3. "kw_let" \in Sym /\ Tok \in Reads("kw_let")
      BY <2>3, TerminalsAre DEF Reads
    <3> QED
      BY <1>1, <2>1, <3>2, <3>3, EatOn
  <2> QED
    BY <1>1, <2>2, <2>3 DEF Eat
<1>2. CASE Eat("DeclName", {"identifier"}, <<"ValType">>)
  <2>1. Pushed(<<"ValType">>, <<"ValType", "DeclValue">>)
    BY PlainAre, PushedOne DEF RestOf, Rest
  <2>2. <<"identifier">> \o <<"ValType", "DeclValue">>
          = <<"identifier", "ValType", "DeclValue">>
    BY Cat12
  <2>3. Derives(RestOf("DeclName"), <<"identifier">> \o <<"ValType", "DeclValue">>)
    BY <2>2, Same DEF RestOf, Rest
  <2>4. "identifier" \in Sym /\ Tok \in Reads("identifier")
    BY <1>2, TerminalsAre DEF Eat, Reads
  <2> QED
    BY <1>2, <2>1, <2>3, <2>4, EatOn
<1>3. CASE Fail("DeclName", {"identifier"}, "expected_identifier", "null")
  BY <1>3, Failing
<1>4. CASE Eat("ValType", {"colon"}, <<"TypeRepr", "DeclInit">>)
  <2>1. RestOf("TypeRepr") \o RestOf("DeclInit") = <<"TypeRepr", "DeclValue">>
    BY Cat11 DEF RestOf, Rest
  <2>2. Pushed(<<"TypeRepr", "DeclInit">>, <<"TypeRepr", "DeclValue">>)
    BY <2>1, PlainAre, PushedTwo
  <2>3. <<"colon">> \o <<"TypeRepr", "DeclValue">> = <<"colon", "TypeRepr", "DeclValue">>
    BY Cat12
  <2>4. <<"colon", "TypeRepr">> \o <<"DeclValue">> = <<"colon", "TypeRepr", "DeclValue">>
    BY Cat21
  <2>5. <<"colon", "TypeRepr">> \in Rule["ValType"]
    BY DEF Rule
  <2>6. RestOf("ValType") = <<"ValType", "DeclValue">>
    BY DEF RestOf, Rest
  <2>7. "ValType" \in Nonterminal /\ "DeclValue" \in Sym
    BY TerminalsAre, NonterminalsAre DEF Nonterminal, Rule
  <2>8. Derives(RestOf("ValType"), <<"colon">> \o <<"TypeRepr", "DeclValue">>)
    BY <2>3, <2>4, <2>5, <2>6, <2>7, Produces2
  <2>9. "colon" \in Sym /\ Tok \in Reads("colon")
    BY <1>4, TerminalsAre DEF Eat, Reads
  <2> QED
    BY <1>4, <2>2, <2>8, <2>9, EatOn
<1>5. CASE Go("ValType", Kind \ {"colon"}, <<"DeclValue", "Built">>)
  <2>1. RestOf("DeclValue") \o RestOf("Built") = <<"DeclValue">>
    BY Cat10 DEF RestOf, Rest
  <2>2. Pushed(<<"DeclValue", "Built">>, <<"DeclValue">>)
    BY <2>1, PlainAre, PushedTwo
  <2>3. <<>> \o <<"DeclValue">> = <<"DeclValue">>
    BY Cat01
  <2>4. <<>> \in Rule["ValType"]
    BY DEF Rule
  <2>5. RestOf("ValType") = <<"ValType", "DeclValue">>
    BY DEF RestOf, Rest
  <2>6. "ValType" \in Nonterminal /\ "DeclValue" \in Sym
    BY TerminalsAre, NonterminalsAre DEF Nonterminal, Rule
  <2>7. Derives(RestOf("ValType"), <<"DeclValue">>)
    BY <2>3, <2>4, <2>5, <2>6, Produces2
  <2> QED
    BY <1>5, <2>2, <2>7, GoOn
<1>6. CASE ret = "null" /\ GoReturn("DeclInit", Kind, "null")
  <2>1. error
    BY <1>6 DEF GoReturn, At, ParseInv, Listing
  <2> QED
    BY <1>6, <2>1, GoBack
<1>7. CASE ret # "null" /\ Go("DeclInit", Kind, <<"DeclValue", "Built">>)
  <2>1. RestOf("DeclValue") \o RestOf("Built") = <<"DeclValue">>
    BY Cat10 DEF RestOf, Rest
  <2>2. Pushed(<<"DeclValue", "Built">>, <<"DeclValue">>)
    BY <2>1, PlainAre, PushedTwo
  <2>3. Derives(RestOf("DeclInit"), <<"DeclValue">>)
    BY Same DEF RestOf, Rest
  <2> QED
    BY <1>7, <2>2, <2>3, GoOn
<1> QED
  BY <1>1, <1>2, <1>3, <1>4, <1>5, <1>6, <1>7 DEF ParseVarDecl

LEMMA ParseDeclValueStep ==
    ASSUME ParseInv, ParseDeclValue
    PROVE  Advances
<1>1. CASE EatReturn("DeclValue", {"semi"}, "absent")
  <2>1. Derives(RestOf("DeclValue"), <<"semi">>)
    BY Entry DEF Nonterminal, Rule, Rest
  <2>2. "semi" \in Sym /\ Tok \in Reads("semi")
    BY <1>1, TerminalsAre DEF EatReturn, Reads
  <2> QED
    BY <1>1, <2>1, <2>2, EatBack
<1>2. CASE Eat("DeclValue", {"assign"}, <<"Expr", "StmtEnd">>)
  <2>1. RestOf("Expr") \o RestOf("StmtEnd") = <<"Expr", "semi">>
    BY Cat11 DEF RestOf, Rest
  <2>2. Pushed(<<"Expr", "StmtEnd">>, <<"Expr", "semi">>)
    BY <2>1, PlainAre, PushedTwo
  <2>3. <<"assign">> \o <<"Expr", "semi">> = <<"assign", "Expr", "semi">>
    BY Cat12
  <2>4. Derives(RestOf("DeclValue"), <<"assign">> \o <<"Expr", "semi">>)
    BY <2>3, Entry DEF Nonterminal, Rule, Rest
  <2>5. "assign" \in Sym /\ Tok \in Reads("assign")
    BY <1>2, TerminalsAre DEF Eat, Reads
  <2> QED
    BY <1>2, <2>2, <2>4, <2>5, EatOn
<1>3. CASE Fail("DeclValue", {"semi", "assign"}, "expected_identifier", "null")
  BY <1>3, Failing
<1> QED
  BY <1>1, <1>2, <1>3 DEF ParseDeclValue

LEMMA ParseFuncDeclStep ==
    ASSUME ParseInv, ParseFuncDecl
    PROVE  Advances
<1>1. CASE Eat("FuncDecl", {"kw_func"}, <<"FuncName">>)
  <2>1. Pushed(<<"FuncName">>, <<"identifier", "l_paren", "Params", "r_paren", "FuncType">>)
    BY PlainAre, PushedOne DEF RestOf, Rest
  <2>2. <<"kw_func">> \o <<"identifier", "l_paren", "Params", "r_paren", "FuncType">>
          = <<"kw_func", "identifier", "l_paren", "Params", "r_paren", "FuncType">>
    BY Cat15
  <2>3. Derives(RestOf("FuncDecl"),
                <<"kw_func">> \o <<"identifier", "l_paren", "Params", "r_paren", "FuncType">>)
    BY <2>2, Entry DEF Nonterminal, Rule, Rest
  <2>4. "kw_func" \in Sym /\ Tok \in Reads("kw_func")
    BY <1>1, TerminalsAre DEF Eat, Reads
  <2> QED
    BY <1>1, <2>1, <2>3, <2>4, EatOn
<1>2. CASE Eat("FuncName", {"identifier"}, <<"VarPattern", "FuncType", "Built">>)
  <2>1. RestOf("FuncType") \o RestOf("Built") = <<"FuncType">>
    BY Cat10 DEF RestOf, Rest
  <2>2. RestOf("VarPattern") \o <<"FuncType">>
          = <<"l_paren", "Params", "r_paren", "FuncType">>
    BY Cat31 DEF RestOf, Rest
  <2>3. Pushed(<<"VarPattern", "FuncType", "Built">>,
               RestOf("VarPattern") \o (RestOf("FuncType") \o RestOf("Built")))
    BY PlainAre, PushedThree
  <2>4. Pushed(<<"VarPattern", "FuncType", "Built">>,
               <<"l_paren", "Params", "r_paren", "FuncType">>)
    BY <2>1, <2>2, <2>3
  <2>5. <<"identifier">> \o <<"l_paren", "Params", "r_paren", "FuncType">>
          = <<"identifier", "l_paren", "Params", "r_paren", "FuncType">>
    BY Cat14
  <2>6. Derives(RestOf("FuncName"),
                <<"identifier">> \o <<"l_paren", "Params", "r_paren", "FuncType">>)
    BY <2>5, Same DEF RestOf, Rest
  <2>7. "identifier" \in Sym /\ Tok \in Reads("identifier")
    BY <1>2, TerminalsAre DEF Eat, Reads
  <2> QED
    BY <1>2, <2>4, <2>6, <2>7, EatOn
<1>3. CASE Fail("FuncName", {"identifier"}, "expected_identifier", "null")
  BY <1>3, Failing
<1> QED
  BY <1>1, <1>2, <1>3 DEF ParseFuncDecl

LEMMA ParseFuncDeclTypeStep ==
    ASSUME ParseInv, ParseFuncDeclType
    PROVE  Advances
<1>1. CASE GoReturn("FuncType", {"l_brace", "semi"}, "absent")
  <2>1. Derives(RestOf("FuncType"), <<>>)
    BY Entry DEF Nonterminal, Rule, Rest
  <2> QED
    BY <1>1, <2>1, GoBack
<1>2. CASE Eat("FuncType", {"arrow"}, <<"ResultType">>)
  <2>1. Pushed(<<"ResultType">>, <<"TypeRepr">>)
    BY PlainAre, PushedOne DEF RestOf, Rest
  <2>2. <<"arrow">> \o <<"TypeRepr">> = <<"arrow", "TypeRepr">>
    BY Cat11
  <2>3. Derives(RestOf("FuncType"), <<"arrow">> \o <<"TypeRepr">>)
    BY <2>2, Entry DEF Nonterminal, Rule, Rest
  <2>4. "arrow" \in Sym /\ Tok \in Reads("arrow")
    BY <1>2, TerminalsAre DEF Eat, Reads
  <2> QED
    BY <1>2, <2>1, <2>3, <2>4, EatOn
<1>3. CASE Fail("FuncType", {"l_brace", "semi", "arrow"}, "expected_return_type", "null")
  BY <1>3, Failing
<1>4. CASE Go("ResultType", {"identifier"}, <<"TypeRepr">>)
  <2>1. Pushed(<<"TypeRepr">>, <<"TypeRepr">>)
    BY PlainAre, PushedOne DEF RestOf, Rest
  <2>2. Derives(RestOf("ResultType"), <<"TypeRepr">>)
    BY Same DEF RestOf, Rest
  <2> QED
    BY <1>4, <2>1, <2>2, GoOn
<1>5. CASE Fail("ResultType", {"identifier"}, "expected_type_specifier", "null")
  BY <1>5, Failing
<1> QED
  BY <1>1, <1>2, <1>3, <1>4, <1>5 DEF ParseFuncDeclType

LEMMA ParseParamDeclStep ==
    ASSUME ParseInv, ParseParamDecl
    PROVE  Advances
<1>1. CASE Eat("ParamDecl", {"identifier", "kw_inout"}, <<"ParamType">>)
  <2>1. Pushed(<<"ParamType">>, <<"colon", "TypeRepr">>)
    BY PlainAre, PushedOne DEF RestOf, Rest
  <2>2. <<"identifier">> \o <<"colon", "TypeRepr">> = <<"identifier", "colon", "TypeRepr">>
    BY Cat12
  <2>3. Derives(RestOf("ParamDecl"), <<"identifier">> \o <<"colon", "TypeRepr">>)
    BY <2>2, Entry DEF Nonterminal, Rule, Rest
  <2>4. "identifier" \in Sym /\ (NamesInout \/ Tok \in Reads("identifier"))
    BY <1>1, TerminalsAre DEF Eat, Reads, NamesInout
  <2> QED
    BY <1>1, <2>1, <2>3, <2>4, EatOn
<1>2. CASE Eat("ParamType", {"colon"}, <<"TypeRepr">>)
  <2>1. Pushed(<<"TypeRepr">>, <<"TypeRepr">>)
    BY PlainAre, PushedOne DEF RestOf, Rest
  <2>2. <<"colon">> \o <<"TypeRepr">> = <<"colon", "TypeRepr">>
    BY Cat11
  <2>3. Derives(RestOf("ParamType"), <<"colon">> \o <<"TypeRepr">>)
    BY <2>2, Same DEF RestOf, Rest
  <2>4. "colon" \in Sym /\ Tok \in Reads("colon")
    BY <1>2, TerminalsAre DEF Eat, Reads
  <2> QED
    BY <1>2, <2>1, <2>3, <2>4, EatOn
<1>3. CASE Fail("ParamType", {"colon"}, "expected_type_annotation", "null")
  BY <1>3, Failing
<1> QED
  BY <1>1, <1>2, <1>3 DEF ParseParamDecl

LEMMA ParseVarPatternStep ==
    ASSUME ParseInv, ParseVarPattern
    PROVE  Advances
<1>1. CASE Eat("VarPattern", {"l_paren"}, <<"Params", "RParen">>)
  <2>1. RestOf("Params") \o RestOf("RParen") = <<"Params", "r_paren">>
    BY Cat11 DEF RestOf, Rest
  <2>2. Pushed(<<"Params", "RParen">>, <<"Params", "r_paren">>)
    BY <2>1, PlainAre, PushedTwo
  <2>3. <<"l_paren">> \o <<"Params", "r_paren">> = <<"l_paren", "Params", "r_paren">>
    BY Cat12
  <2>4. Derives(RestOf("VarPattern"), <<"l_paren">> \o <<"Params", "r_paren">>)
    BY <2>3, Same DEF RestOf, Rest
  <2>5. "l_paren" \in Sym /\ Tok \in Reads("l_paren")
    BY <1>1, TerminalsAre DEF Eat, Reads
  <2> QED
    BY <1>1, <2>2, <2>4, <2>5, EatOn
<1> QED
  BY <1>1 DEF ParseVarPattern

LEMMA ParseVarPatternBodyStep ==
    ASSUME ParseInv, ParseVarPatternBody
    PROVE  Advances
<1>1. CASE GoReturn("Params", {"r_paren"}, "node")
  <2>1. Derives(RestOf("Params"), <<>>)
    BY Entry DEF Nonterminal, Rule, Rest
  <2> QED
    BY <1>1, <2>1, GoBack
<1>2. CASE Go("Params", {"identifier"}, <<"ParamDecl", "MoreParams">>)
  <2>1. RestOf("ParamDecl") \o RestOf("MoreParams") = <<"ParamDecl", "MoreParams">>
    BY Cat11 DEF RestOf, Rest
  <2>2. Pushed(<<"ParamDecl", "MoreParams">>, <<"ParamDecl", "MoreParams">>)
    BY <2>1, PlainAre, PushedTwo
  <2>3. Derives(RestOf("Params"), <<"ParamDecl", "MoreParams">>)
    BY Entry DEF Nonterminal, Rule, Rest
  <2> QED
    BY <1>2, <2>2, <2>3, GoOn
<1>3. CASE Fail("Params", {"r_paren", "identifier"}, "expected_comma_separator", "node")
  BY <1>3, Failing
<1>4. CASE ret = "null" /\ GoReturn("AnotherParam", Kind, "node")
  <2>1. error
    BY <1>4 DEF GoReturn, At, ParseInv, Listing
  <2> QED
    BY <1>4, <2>1, GoBack
<1>5. CASE ret # "null" /\ Go("AnotherParam", Kind, <<"MoreParams">>)
  <2>1. Pushed(<<"MoreParams">>, <<"MoreParams">>)
    BY PlainAre, PushedOne DEF RestOf, Rest
  <2>2. Derives(RestOf("AnotherParam"), <<"MoreParams">>)
    BY Same DEF RestOf, Rest
  <2> QED
    BY <1>5, <2>1, <2>2, GoOn
<1> QED
  BY <1>1, <1>2, <1>3, <1>4, <1>5 DEF ParseVarPatternBody

LEMMA ParseVarPatternItemStep ==
    ASSUME ParseInv, ParseVarPatternItem
    PROVE  Advances
<1>1. CASE GoReturn("MoreParams", {"r_paren"}, "node")
  <2>1. Derives(RestOf("MoreParams"), <<>>)
    BY Entry DEF Nonterminal, Rule, Rest
  <2> QED
    BY <1>1, <2>1, GoBack
<1>2. CASE Eat("MoreParams", {"comma"}, <<"ParamDecl", "AnotherParam">>)
  <2>1. RestOf("ParamDecl") \o RestOf("AnotherParam") = <<"ParamDecl", "MoreParams">>
    BY Cat11 DEF RestOf, Rest
  <2>2. Pushed(<<"ParamDecl", "AnotherParam">>, <<"ParamDecl", "MoreParams">>)
    BY <2>1, PlainAre, PushedTwo
  <2>3. <<"comma">> \o <<"ParamDecl", "MoreParams">>
          = <<"comma", "ParamDecl", "MoreParams">>
    BY Cat12
  <2>4. Derives(RestOf("MoreParams"), <<"comma">> \o <<"ParamDecl", "MoreParams">>)
    BY <2>3, Entry DEF Nonterminal, Rule, Rest
  <2>5. "comma" \in Sym /\ Tok \in Reads("comma")
    BY <1>2, TerminalsAre DEF Eat, Reads
  <2> QED
    BY <1>2, <2>2, <2>4, <2>5, EatOn
<1>3. CASE Fail("MoreParams", {"r_paren", "comma"}, "expected_comma_separator", "node")
  BY <1>3, Failing
<1> QED
  BY <1>1, <1>2, <1>3 DEF ParseVarPatternItem

LEMMA ClosingStep ==
    ASSUME ParseInv, Closing
    PROVE  Advances
<1>1. CASE EatReturn("RParen", {"r_paren"}, "node")
  <2>1. Derives(RestOf("RParen"), <<"r_paren">>)
    BY Same DEF RestOf, Rest
  <2>2. "r_paren" \in Sym /\ Tok \in Reads("r_paren")
    BY <1>1, TerminalsAre DEF EatReturn, Reads
  <2> QED
    BY <1>1, <2>1, <2>2, EatBack
<1>2. CASE Fail("RParen", {"r_paren"}, "expected_r_paren", "null")
  BY <1>2, Failing
<1>3. CASE EatReturn("RBracket", {"r_bracket"}, "node")
  <2>1. Derives(RestOf("RBracket"), <<"r_bracket">>)
    BY Same DEF RestOf, Rest
  <2>2. "r_bracket" \in Sym /\ Tok \in Reads("r_bracket")
    BY <1>3, TerminalsAre DEF EatReturn, Reads
  <2> QED
    BY <1>3, <2>1, <2>2, EatBack
<1>4. CASE Fail("RBracket", {"r_bracket"}, "expected_r_bracket", "null")
  BY <1>4, Failing
<1> QED
  BY <1>1, <1>2, <1>3, <1>4 DEF Closing

LEMMA ParseTypeReprStep ==
    ASSUME ParseInv, ParseTypeRepr
    PROVE  Advances
<1>1. CASE Eat("TypeRepr", {"kw_inout"}, <<"InOutBase">>)
  <2>1. Pushed(<<"InOutBase">>, <<"IdentType">>)
    BY PlainAre, PushedOne DEF RestOf, Rest
  <2>2. <<"kw_inout">> \o <<"IdentType">> = <<"kw_inout", "IdentType">>
    BY Cat11
  <2>3. Derives(RestOf("TypeRepr"), <<"kw_inout">> \o <<"IdentType">>)
    BY <2>2, Entry DEF Nonterminal, Rule, Rest
  <2>4. "kw_inout" \in Sym /\ Tok \in Reads("kw_inout")
    BY <1>1, TerminalsAre DEF Eat, Reads
  <2> QED
    BY <1>1, <2>1, <2>3, <2>4, EatOn
<1>2. CASE Go("TypeRepr", {"identifier"}, <<"IdentType">>)
  <2>1. Pushed(<<"IdentType">>, <<"IdentType">>)
    BY PlainAre, PushedOne DEF RestOf, Rest
  <2>2. Derives(RestOf("TypeRepr"), <<"IdentType">>)
    BY Entry DEF Nonterminal, Rule, Rest
  <2> QED
    BY <1>2, <2>1, <2>2, GoOn
<1>3. CASE Fail("TypeRepr", {"kw_inout", "identifier"}, "unexpected_token", "null")
  BY <1>3, Failing
<1>4. CASE Go("InOutBase", {"identifier"}, <<"IdentType", "Built">>)
  <2>1. RestOf("IdentType") \o RestOf("Built") = <<"IdentType">>
    BY Cat10 DEF RestOf, Rest
  <2>2. Pushed(<<"IdentType", "Built">>, <<"IdentType">>)
    BY <2>1, PlainAre, PushedTwo
  <2>3. Derives(RestOf("InOutBase"), <<"IdentType">>)
    BY Same DEF RestOf, Rest
  <2> QED
    BY <1>4, <2>2, <2>3, GoOn
<1>5. CASE Fail("InOutBase", {"identifier"}, "unexpected_token", "null")
  BY <1>5, Failing
<1> QED
  BY <1>1, <1>2, <1>3, <1>4, <1>5 DEF ParseTypeRepr

LEMMA ParseIdentTypeStep ==
    ASSUME ParseInv, ParseIdentType
    PROVE  Advances
<1>1. CASE Eat("IdentType", {"identifier"}, <<"ArrayType">>)
  <2>1. Pushed(<<"ArrayType">>, <<"ArrayType">>)
    BY PlainAre, PushedOne DEF RestOf, Rest
  <2>2. <<"identifier">> \o <<"ArrayType">> = <<"identifier", "ArrayType">>
    BY Cat11
  <2>3. Derives(RestOf("IdentType"), <<"identifier">> \o <<"ArrayType">>)
    BY <2>2, Entry DEF Nonterminal, Rule, Rest
  <2>4. "identifier" \in Sym /\ Tok \in Reads("identifier")
    BY <1>1, TerminalsAre DEF Eat, Reads
  <2> QED
    BY <1>1, <2>1, <2>3, <2>4, EatOn
<1> QED
  BY <1>1 DEF ParseIdentType

LEMMA ParseArrayTypeStep ==
    ASSUME ParseInv, ParseArrayType
    PROVE  Advances
<1>1. CASE GoReturn("ArrayType", AfterType, "node")
  <2>1. Derives(RestOf("ArrayType"), <<>>)
    BY Entry DEF Nonterminal, Rule, Rest
  <2> QED
    BY <1>1, <2>1, GoBack
<1>2. CASE Eat("ArrayType", {"l_bracket"}, <<"Expr", "ArraySize">>)
  <2>1. RestOf("Expr") \o RestOf("ArraySize") = <<"Expr", "r_bracket", "ArrayType">>
    BY Cat12 DEF RestOf, Rest
  <2>2. Pushed(<<"Expr", "ArraySize">>, <<"Expr", "r_bracket", "ArrayType">>)
    BY <2>1, PlainAre, PushedTwo
  <2>3. <<"l_bracket">> \o <<"Expr", "r_bracket", "ArrayType">>
          = <<"l_bracket", "Expr", "r_bracket", "ArrayType">>
    BY Cat13
  <2>4. Derives(RestOf("ArrayType"),
                <<"l_bracket">> \o <<"Expr", "r_bracket", "ArrayType">>)
    BY <2>3, Entry DEF Nonterminal, Rule, Rest
  <2>5. "l_bracket" \in Sym /\ Tok \in Reads("l_bracket")
    BY <1>2, TerminalsAre DEF Eat, Reads
  <2> QED
    BY <1>2, <2>2, <2>4, <2>5, EatOn
<1>3. CASE Eat("ArraySize", {"r_bracket"}, <<"ArrayType">>)
  <2>1. Pushed(<<"ArrayType">>, <<"ArrayType">>)
    BY PlainAre, PushedOne DEF RestOf, Rest
  <2>2. <<"r_bracket">> \o <<"ArrayType">> = <<"r_bracket", "ArrayType">>
    BY Cat11
  <2>3. Derives(RestOf("ArraySize"), <<"r_bracket">> \o <<"ArrayType">>)
    BY <2>2, Same DEF RestOf, Rest
  <2>4. "r_bracket" \in Sym /\ Tok \in Reads("r_bracket")
    BY <1>3, TerminalsAre DEF Eat, Reads
  <2> QED
    BY <1>3, <2>1, <2>3, <2>4, EatOn
<1>4. CASE Fail("ArraySize", {"r_bracket"}, "expected_r_bracket", "null")
  BY <1>4, Failing
<1> QED
  BY <1>1, <1>2, <1>3, <1>4 DEF ParseArrayType

LEMMA ParseExprStep ==
    ASSUME ParseInv, ParseExpr
    PROVE  Advances
<1>1. CASE Go("Expr", Kind, <<"Primary", "Operators">>)
  <2>1. RestOf("Primary") \o RestOf("Operators") = <<"Primary", "Operands">>
    BY Cat11 DEF RestOf, Rest
  <2>2. Pushed(<<"Primary", "Operators">>, <<"Primary", "Operands">>)
    BY <2>1, PlainAre, PushedTwo
  <2>3. Derives(RestOf("Expr"), <<"Primary", "Operands">>)
    BY Entry DEF Nonterminal, Rule, Rest
  <2> QED
    BY <1>1, <2>2, <2>3, GoOn
<1>2. CASE ret = "null" /\ GoReturn("Operators", Kind, "null")
  <2>1. error
    BY <1>2 DEF GoReturn, At, ParseInv, Listing
  <2> QED
    BY <1>2, <2>1, GoBack
<1>3. CASE ret # "null" /\ Eat("Operators", BinaryOperator, <<"Primary", "Operators">>)
  <2>1. RestOf("Primary") \o RestOf("Operators") = <<"Primary", "Operands">>
    BY Cat11 DEF RestOf, Rest
  <2>2. Pushed(<<"Primary", "Operators">>, <<"Primary", "Operands">>)
    BY <2>1, PlainAre, PushedTwo
  <2>3. <<"Operator">> \o <<"Primary", "Operands">> = <<"Operator", "Primary", "Operands">>
    BY Cat12
  <2>4. Derives(RestOf("Operators"), <<"Operator">> \o <<"Primary", "Operands">>)
    BY <2>3, Produces DEF RestOf, Rest, Nonterminal, Rule
  <2>5. "Operator" \in Sym /\ Tok \in Reads("Operator")
    BY <1>3, TerminalsAre DEF Eat, Reads
  <2> QED
    BY <1>3, <2>2, <2>4, <2>5, EatOn
<1>4. CASE ret # "null" /\ GoReturn("Operators", Kind \ BinaryOperator, "node")
  <2>1. Derives(RestOf("Operators"), <<>>)
    BY Produces DEF RestOf, Rest, Nonterminal, Rule
  <2> QED
    BY <1>4, <2>1, GoBack
<1> QED
  BY <1>1, <1>2, <1>3, <1>4 DEF ParseExpr

LEMMA ParsePrimaryExprStep ==
    ASSUME ParseInv, ParsePrimaryExpr
    PROVE  Advances
<1>1. CASE Eat("Primary", {"identifier"}, <<"Postfix">>)
  <2>1. Pushed(<<"Postfix">>, <<"Postfix">>)
    BY PlainAre, PushedOne DEF RestOf, Rest
  <2>2. <<"identifier">> \o <<"Postfix">> = <<"identifier", "Postfix">>
    BY Cat11
  <2>3. Derives(RestOf("Primary"), <<"identifier">> \o <<"Postfix">>)
    BY <2>2, Entry DEF Nonterminal, Rule, Rest
  <2>4. "identifier" \in Sym /\ Tok \in Reads("identifier")
    BY <1>1, TerminalsAre DEF Eat, Reads
  <2> QED
    BY <1>1, <2>1, <2>3, <2>4, EatOn
<1>2. CASE Fail("Primary", PrimaryToken, "expected_expression", "null")
  BY <1>2, Failing
<1> QED
  BY <1>1, <1>2 DEF ParsePrimaryExpr

LEMMA ParseParenExprStep ==
    ASSUME ParseInv, ParseParenExpr
    PROVE  Advances
<1>1. CASE Eat("Primary", {"l_paren"}, <<"Expr", "RParen">>)
  <2>1. RestOf("Expr") \o RestOf("RParen") = <<"Expr", "r_paren">>
    BY Cat11 DEF RestOf, Rest
  <2>2. Pushed(<<"Expr", "RParen">>, <<"Expr", "r_paren">>)
    BY <2>1, PlainAre, PushedTwo
  <2>3. <<"l_paren">> \o <<"Expr", "r_paren">> = <<"l_paren", "Expr", "r_paren">>
    BY Cat12
  <2>4. Derives(RestOf("Primary"), <<"l_paren">> \o <<"Expr", "r_paren">>)
    BY <2>3, Entry DEF Nonterminal, Rule, Rest
  <2>5. "l_paren" \in Sym /\ Tok \in Reads("l_paren")
    BY <1>1, TerminalsAre DEF Eat, Reads
  <2> QED
    BY <1>1, <2>2, <2>4, <2>5, EatOn
<1> QED
  BY <1>1 DEF ParseParenExpr

LEMMA ParseNumberLiteralExprStep ==
    ASSUME ParseInv, ParseNumberLiteralExpr
    PROVE  Advances
<1>1. CASE EatReturn("Primary", {"number_literal"}, "node")
  <2>1. Derives(RestOf("Primary"), <<"number_literal">>)
    BY Entry DEF Nonterminal, Rule, Rest
  <2>2. "number_literal" \in Sym /\ Tok \in Reads("number_literal")
    BY <1>1, TerminalsAre DEF EatReturn, Reads
  <2> QED
    BY <1>1, <2>1, <2>2, EatBack
<1> QED
  BY <1>1 DEF ParseNumberLiteralExpr

LEMMA ParseArrayLiteralExprStep ==
    ASSUME ParseInv, ParseArrayLiteralExpr
    PROVE  Advances
<1>1. CASE Eat("Primary", {"l_bracket"}, <<"Items", "RBracket", "Postfix">>)
  <2>1. RestOf("RBracket") \o RestOf("Postfix") = <<"r_bracket", "Postfix">>
    BY Cat11 DEF RestOf, Rest
  <2>2. RestOf("Items") \o <<"r_bracket", "Postfix">> = <<"Items", "r_bracket", "Postfix">>
    BY Cat12 DEF RestOf, Rest
  <2>3. Pushed(<<"Items", "RBracket", "Postfix">>,
               RestOf("Items") \o (RestOf("RBracket") \o RestOf("Postfix")))
    BY PlainAre, PushedThree
  <2>4. Pushed(<<"Items", "RBracket", "Postfix">>, <<"Items", "r_bracket", "Postfix">>)
    BY <2>1, <2>2, <2>3
  <2>5. <<"l_bracket">> \o <<"Items", "r_bracket", "Postfix">>
          = <<"l_bracket", "Items", "r_bracket", "Postfix">>
    BY Cat13
  <2>6. Derives(RestOf("Primary"), <<"l_bracket">> \o <<"Items", "r_bracket", "Postfix">>)
    BY <2>5, Entry DEF Nonterminal, Rule, Rest
  <2>7. "l_bracket" \in Sym /\ Tok \in Reads("l_bracket")
    BY <1>1, TerminalsAre DEF Eat, Reads
  <2> QED
    BY <1>1, <2>4, <2>6, <2>7, EatOn
<1> QED
  BY <1>1 DEF ParseArrayLiteralExpr

LEMMA ParseUnaryExprStep ==
    ASSUME ParseInv, ParseUnaryExpr
    PROVE  Advances
<1>1. CASE Eat("Primary", {"minus", "lnot", "inout"}, <<"Primary", "Built">>)
  <2>1. RestOf("Primary") \o RestOf("Built") = <<"Primary">>
    BY Cat10 DEF RestOf, Rest
  <2>2. Pushed(<<"Primary", "Built">>, <<"Primary">>)
    BY <2>1, PlainAre, PushedTwo
  <2>3. CASE Tok = "minus"
    <3>1. <<"minus">> \o <<"Primary">> = <<"minus", "Primary">>
      BY Cat11
    <3>2. Derives(RestOf("Primary"), <<"minus">> \o <<"Primary">>)
      BY <3>1, Entry DEF Nonterminal, Rule, Rest
    <3>3. "minus" \in Sym /\ Tok \in Reads("minus")
      BY <2>3, TerminalsAre DEF Reads
    <3> QED
      BY <1>1, <2>2, <3>2, <3>3, EatOn
  <2>4. CASE Tok = "lnot"
    <3>1. <<"lnot">> \o <<"Primary">> = <<"lnot", "Primary">>
      BY Cat11
    <3>2. Derives(RestOf("Primary"), <<"lnot">> \o <<"Primary">>)
      BY <3>1, Entry DEF Nonterminal, Rule, Rest
    <3>3. "lnot" \in Sym /\ Tok \in Reads("lnot")
      BY <2>4, TerminalsAre DEF Reads
    <3> QED
      BY <1>1, <2>2, <3>2, <3>3, EatOn
  <2>5. CASE Tok = "inout"
    <3>1. <<"inout">> \o <<"Primary">> = <<"inout", "Primary">>
      BY Cat11
    <3>2. Derives(RestOf("Primary"), <<"inout">> \o <<"Primary">>)
      BY <3>1, Entry DEF Nonterminal, Rule, Rest
    <3>3. "inout" \in Sym /\ Tok \in Reads("inout")
      BY <2>5, TerminalsAre DEF Reads
    <3> QED
      BY <1>1, <2>2, <3>2, <3>3, EatOn
  <2> QED
    BY <1>1, <2>3, <2>4, <2>5 DEF Eat
<1> QED
  BY <1>1 DEF ParseUnaryExpr

LEMMA ParsePrimaryExprRHSStep ==
    ASSUME ParseInv, ParsePrimaryExprRHS
    PROVE  Advances
<1>1. CASE GoReturn("Postfix", AfterPostfix, ret)
  <2>1. Derives(RestOf("Postfix"), <<>>)
    BY Entry DEF Nonterminal, Rule, Rest
  <2>2. ret = "null" => error
    BY <1>1 DEF GoReturn, At, ParseInv, Listing
  <2>3. ret \in {"node", "null", "absent"}
    BY DEF ParseInv, TypeOK
  <2> QED
    BY <1>1, <2>1, <2>2, <2>3, GoBack
<1>2. CASE Fail("Postfix", AfterPostfix \union {"l_paren", "l_bracket"},
            "unexpected_token", "null")
  BY <1>2, Failing
<1> QED
  BY <1>1, <1>2 DEF ParsePrimaryExprRHS

LEMMA ParseCallExprStep ==
    ASSUME ParseInv, ParseCallExpr
    PROVE  Advances
<1>1. CASE Eat("Postfix", {"l_paren"}, <<"Items", "RParen", "Built", "Postfix">>)
  <2>1. RestOf("Built") \o RestOf("Postfix") = <<"Postfix">>
    BY Cat01 DEF RestOf, Rest
  <2>2. RestOf("RParen") \o <<"Postfix">> = <<"r_paren", "Postfix">>
    BY Cat11 DEF RestOf, Rest
  <2>3. RestOf("Items") \o <<"r_paren", "Postfix">> = <<"Items", "r_paren", "Postfix">>
    BY Cat12 DEF RestOf, Rest
  <2>4. Pushed(<<"Items", "RParen", "Built", "Postfix">>,
               RestOf("Items") \o (RestOf("RParen") \o (RestOf("Built") \o RestOf("Postfix"))))
    BY PlainAre, PushedFour
  <2>5. Pushed(<<"Items", "RParen", "Built", "Postfix">>, <<"Items", "r_paren", "Postfix">>)
    BY <2>1, <2>2, <2>3, <2>4
  <2>6. <<"l_paren">> \o <<"Items", "r_paren", "Postfix">>
          = <<"l_paren", "Items", "r_paren", "Postfix">>
    BY Cat13
  <2>7. Derives(RestOf("Postfix"), <<"l_paren">> \o <<"Items", "r_paren", "Postfix">>)
    BY <2>6, Entry DEF Nonterminal, Rule, Rest
  <2>8. "l_paren" \in Sym /\ Tok \in Reads("l_paren")
    BY <1>1, TerminalsAre DEF Eat, Reads
  <2> QED
    BY <1>1, <2>5, <2>7, <2>8, EatOn
<1> QED
  BY <1>1 DEF ParseCallExpr

LEMMA ParseSubscriptExprStep ==
    ASSUME ParseInv, ParseSubscriptExpr
    PROVE  Advances
<1>1. CASE Eat("Postfix", {"l_bracket"}, <<"Expr", "RBracket", "Built", "Postfix">>)
  <2>1. RestOf("Built") \o RestOf("Postfix") = <<"Postfix">>
    BY Cat01 DEF RestOf, Rest
  <2>2. RestOf("RBracket") \o <<"Postfix">> = <<"r_bracket", "Postfix">>
    BY Cat11 DEF RestOf, Rest
  <2>3. RestOf("Expr") \o <<"r_bracket", "Postfix">> = <<"Expr", "r_bracket", "Postfix">>
    BY Cat12 DEF RestOf, Rest
  <2>4. Pushed(<<"Expr", "RBracket", "Built", "Postfix">>,
               RestOf("Expr") \o (RestOf("RBracket") \o (RestOf("Built") \o RestOf("Postfix"))))
    BY PlainAre, PushedFour
  <2>5. Pushed(<<"Expr", "RBracket", "Built", "Postfix">>,
               <<"Expr", "r_bracket", "Postfix">>)
    BY <2>1, <2>2, <2>3, <2>4
  <2>6. <<"l_bracket">> \o <<"Expr", "r_bracket", "Postfix">>
          = <<"l_bracket", "Expr", "r_bracket", "Postfix">>
    BY Cat13
  <2>7. Derives(RestOf("Postfix"), <<"l_bracket">> \o <<"Expr", "r_bracket", "Postfix">>)
    BY <2>6, Entry DEF Nonterminal, Rule, Rest
  <2>8. "l_bracket" \in Sym /\ Tok \in Reads("l_bracket")
    BY <1>1, TerminalsAre DEF Eat, Reads
  <2> QED
    BY <1>1, <2>5, <2>7, <2>8, EatOn
<1> QED
  BY <1>1 DEF ParseSubscriptExpr

LEMMA ParseExprPatternBodyStep ==
    ASSUME ParseInv, ParseExprPatternBody
    PROVE  Advances
<1>1. CASE GoReturn("Items", {"r_paren", "r_bracket"}, "node")
  <2>1. Derives(RestOf("Items"), <<>>)
    BY Entry DEF Nonterminal, Rule, Rest
  <2> QED
    BY <1>1, <2>1, GoBack
<1>2. CASE Go("Items", PrimaryToken, <<"Expr", "MoreItems">>)
  <2>1. RestOf("Expr") \o RestOf("MoreItems") = <<"Expr", "MoreItems">>
    BY Cat11 DEF RestOf, Rest
  <2>2. Pushed(<<"Expr", "MoreItems">>, <<"Expr", "MoreItems">>)
    BY <2>1, PlainAre, PushedTwo
  <2>3. Derives(RestOf("Items"), <<"Expr", "MoreItems">>)
    BY Entry DEF Nonterminal, Rule, Rest
  <2> QED
    BY <1>2, <2>2, <2>3, GoOn
<1>3. CASE Fail("Items", {"r_paren", "r_bracket"} \union PrimaryToken, "unexpected_token",
            "node")
  BY <1>3, Failing
<1>4. CASE ret = "null" /\ GoReturn("AnotherItem", Kind, "node")
  <2>1. error
    BY <1>4 DEF GoReturn, At, ParseInv, Listing
  <2> QED
    BY <1>4, <2>1, GoBack
<1>5. CASE ret # "null" /\ Go("AnotherItem", Kind, <<"MoreItems">>)
  <2>1. Pushed(<<"MoreItems">>, <<"MoreItems">>)
    BY PlainAre, PushedOne DEF RestOf, Rest
  <2>2. Derives(RestOf("AnotherItem"), <<"MoreItems">>)
    BY Same DEF RestOf, Rest
  <2> QED
    BY <1>5, <2>1, <2>2, GoOn
<1> QED
  BY <1>1, <1>2, <1>3, <1>4, <1>5 DEF ParseExprPatternBody

LEMMA ParseExprPatternItemStep ==
    ASSUME ParseInv, ParseExprPatternItem
    PROVE  Advances
<1>1. CASE GoReturn("MoreItems", {"r_paren", "r_bracket"}, "node")
  <2>1. Derives(RestOf("MoreItems"), <<>>)
    BY Entry DEF Nonterminal, Rule, Rest
  <2> QED
    BY <1>1, <2>1, GoBack
<1>2. CASE Eat("MoreItems", {"comma"}, <<"Expr", "AnotherItem">>)
  <2>1. RestOf("Expr") \o RestOf("AnotherItem") = <<"Expr", "MoreItems">>
    BY Cat11 DEF RestOf, Rest
  <2>2. Pushed(<<"Expr", "AnotherItem">>, <<"Expr", "MoreItems">>)
    BY <2>1, PlainAre, PushedTwo
  <2>3. <<"comma">> \o <<"Expr", "MoreItems">> = <<"comma", "Expr", "MoreItems">>
    BY Cat12
  <2>4. Derives(RestOf("MoreItems"), <<"comma">> \o <<"Expr", "MoreItems">>)
    BY <2>3, Entry DEF Nonterminal, Rule, Rest
  <2>5. "comma" \in Sym /\ Tok \in Reads("comma")
    BY <1>2, TerminalsAre DEF Eat, Reads
  <2> QED
    BY <1>2, <2>2, <2>4, <2>5, EatOn
<1>3. CASE Fail("MoreItems", {"r_paren", "r_bracket", "comma"}, "expected_comma_separator",
            "node")
  BY <1>3, Failing
<1> QED
  BY <1>1, <1>2, <1>3 DEF ParseExprPatternItem

(* The loop of parseModule, and the ends *)
LEMMA ParseModuleStep ==
    ASSUME ParseInv, ParseModule
    PROVE  Advances
<1>1. /\ verdict = "open" /\ stack = <<>> /\ ~error /\ stack' = <<"Node">> /\ ret' = "node"
      /\ Stay /\ NoError /\ hole' = hole
  BY DEF ParseModule
<1>2. verdict' = "open" /\ error' = FALSE
  BY <1>1 DEF NoError, ParseInv, TypeOK
<1>3. "Node" \in Point
  BY DEF Point, Rest, Nonterminal, Rule
<1>4. stack' \in Seq(Point) /\ Callers(stack')
  BY <1>1, <1>3 DEF Callers
<1>5. /\ Tok' \in Kind /\ ahead' \in Seq(Kind \ {"eof"}) /\ left' \in 0 .. MaxTokens
      /\ Tok' = "eof" => ahead' = <<>> /\ left' = 0
      /\ reported' \in BOOLEAN
      /\ Tok' = "unknown" => reported'
  BY <1>1, TokenTaken
<1>6. hole' \in BOOLEAN /\ error' \in BOOLEAN /\ (hole' => error')
  BY <1>1, <1>2 DEF ParseInv, TypeOK
<1>7. TypeOK'
  BY <1>1, <1>2, <1>4, <1>5, <1>6, TypeNext
<1>8. ParseInv'
  BY <1>1, <1>2, <1>4, <1>5, <1>6, <1>7, InvNext
<1>9. Step
  <2>1. judged = "open" /\ look = Tok /\ form = Expected(<<>>) \o <<"Nodes">>
    BY <1>1 DEF judged, look, form
  <2>2. (judged = "open" /\ look = Tok /\ form = Expected(stack) \o <<"Nodes">>)'
    BY <1>2 DEF judged, look, form
  <2>3. Expected(<<>>) = <<>> /\ <<>> \o <<"Nodes">> = <<"Nodes">>
    BY ExpectedNone, Cat01
  <2>4. (Expected(stack))' = Expected(<<"Node">>)
    BY <1>1 DEF Expected, RestOf, Rest
  <2>5. Expected(<<"Node">>) = <<"Node">>
    BY <1>3, ExpectedOne DEF RestOf, Rest
  <2>6. <<"Node">> \o <<"Nodes">> = <<"Node", "Nodes">>
    BY Cat11
  <2>7. form = <<"Nodes">> /\ form' = <<"Node", "Nodes">>
    BY <2>1, <2>2, <2>3, <2>4, <2>5, <2>6
  <2>8. Derives(<<"Nodes">>, <<"Node", "Nodes">>)
    <3>1. "Nodes" \in Nonterminal /\ <<"Node", "Nodes">> \in Rule["Nodes"]
      BY DEF Nonterminal, Rule
    <3> QED
      BY <3>1, Produces
  <2>9. <<"Node", "Nodes">> \in Expansions(<<"Nodes">>)
    <3>1. <<"Nodes">> \in Seq(Sym) /\ <<"Node", "Nodes">> \in Seq(Sym) /\ <<>> \in Seq(Sym)
      BY NonterminalsAre, EmptySeq
    <3>2. <<"Nodes">> \o <<>> = <<"Nodes">> /\ <<"Node", "Nodes">> \o <<>> = <<"Node", "Nodes">>
      BY <3>1, ConcatEmptySeq
    <3> QED
      BY <2>8, <3>1, <3>2, DerivesExpansion
  <2>10. UNCHANGED <<look, judged>>
    BY <1>1, <2>1, <2>2 DEF Stay, Position
  <2> QED
    BY <2>1, <2>7, <2>9, <2>10, SameExpansions DEF Step, Reading!Next, Reading!Derive
<1>10. Reports
  BY <1>1 DEF NoError, Reports
<1> QED
  BY <1>8, <1>9, <1>10 DEF Advances

(* The state is final. *)
LEMMA Ended ==
    ASSUME ParseInv, Stay, UNCHANGED <<stack, ret, error, hole>>,
           verdict' \in {"accepted", "rejected", "aborted"},
           verdict' # "aborted" => stack = <<>>, verdict' = "accepted" => ~error
    PROVE  ParseInv' /\ Reports
<1>1. /\ Tok' = Tok /\ ahead' = ahead /\ left' = left /\ reported' = reported
      /\ stack' = stack /\ ret' = ret /\ error' = error /\ hole' = hole
  BY DEF Stay, Position
<1>2. TypeOK'
  BY <1>1 DEF ParseInv, TypeOK
<1>3. (Callers(stack))' /\ (ret = "null" /\ ~error => Listing(stack))'
  BY <1>1 DEF ParseInv, Callers, Listing
<1>4. (hole => error)' /\ (verdict = "accepted" => ~error)' /\ (Tok = "unknown" => reported)'
  BY <1>1 DEF ParseInv
<1>5. Reports
  BY <1>1 DEF Reports
<1> QED
  BY <1>2, <1>3, <1>4, <1>5 DEF ParseInv

LEMMA EndModuleStep ==
    ASSUME ParseInv, EndModule
    PROVE  Advances
<1>1. /\ verdict = "open" /\ stack = <<>> /\ Stay /\ UNCHANGED <<stack, ret, error, hole>>
      /\ verdict' = IF error THEN "rejected" ELSE "accepted"
      /\ Tok = "eof" \/ error
  BY DEF EndModule
<1>2. ParseInv' /\ Reports
  <2>1. /\ verdict' \in {"accepted", "rejected", "aborted"}
        /\ verdict' = "accepted" => ~error
    BY <1>1
  <2> QED
    BY <1>1, <2>1, Ended
<1>3. CASE error
  <2>1. error' = TRUE
    BY <1>1, <1>3 DEF ParseInv, TypeOK
  <2> QED
    BY <1>1, <1>2, <2>1, RefusalStep DEF Advances
<1>4. CASE ~error
  <2>1. judged = "open" /\ look = "eof" /\ form = Expected(<<>>) \o <<"Nodes">>
    BY <1>1, <1>4 DEF judged, look, form
  <2>2. Expected(<<>>) = <<>> /\ <<>> \o <<"Nodes">> = <<"Nodes">>
    BY ExpectedNone, Cat01
  <2>3. form = <<"Nodes">>
    BY <2>1, <2>2
  <2>4. verdict' = "accepted" /\ ~error' /\ Tok' = Tok /\ look = Tok
    BY <1>1, <1>4, <2>1 DEF Stay, Position, look, judged
  <2>5. judged' = "accepted" /\ look' = look /\ form' = <<>>
    BY <2>4 DEF judged, look, form
  <2>6. Reading!Accept
    BY <2>1, <2>3, <2>5 DEF Reading!Accept
  <2> QED
    BY <1>2, <2>6 DEF Advances, Step, Reading!Next
<1> QED
  BY <1>3, <1>4

LEMMA AbortStep ==
    ASSUME ParseInv, Abort
    PROVE  Advances
<1>1. verdict = "open" /\ verdict' = "aborted" /\ Stay /\ UNCHANGED <<stack, ret, error, hole>>
  BY DEF Abort, At
<1>2. ParseInv' /\ Reports
  BY <1>1, Ended
<1> QED
  BY <1>1, <1>2, RefusalStep DEF Advances

-----------------------------------------------------------------------------
LEMMA InitInv ==
    ASSUME Init
    PROVE  ParseInv /\ Reading!Init
<1>1. /\ stack = <<>> /\ ret = "node" /\ error = FALSE /\ reported = (Tok = "unknown")
      /\ hole = FALSE /\ verdict = "open"
  BY DEF Init
<1>2. Tok \in Kind /\ ahead \in Seq(Kind \ {"eof"}) /\ left \in 0 .. MaxTokens
      /\ (Tok = "eof" => ahead = <<>> /\ left = 0)
  <2>1. PICK file \in Openings :
          \/ file # <<>> /\ Tok = Head(file) /\ ahead = Tail(file) /\ left = MaxTokens
          \/ /\ file = <<>> /\ ahead = <<>>
             /\ \/ MaxTokens > 0 /\ Tok \in Supply /\ left = MaxTokens - 1
                \/ Tok = "eof" /\ left = 0
    BY DEF Init
  <2>2. /\ file \in Seq(Kind \ {"eof"}) /\ MaxTokens \in Nat /\ Supply \subseteq Kind \ {"eof"}
        /\ "eof" \in Kind
    BY SupplyAssumption DEF Kind
  <2>3. CASE file # <<>> /\ Tok = Head(file) /\ ahead = Tail(file) /\ left = MaxTokens
    <3>1. Head(file) \in Kind \ {"eof"} /\ Tail(file) \in Seq(Kind \ {"eof"})
      BY <2>2, <2>3, HeadTailProperties
    <3> QED
      BY <2>2, <2>3, <3>1
  <2>4. CASE ahead = <<>> /\ MaxTokens > 0 /\ Tok \in Supply /\ left = MaxTokens - 1
    BY <2>2, <2>4, EmptySeq
  <2>5. CASE ahead = <<>> /\ Tok = "eof" /\ left = 0
    BY <2>2, <2>5, EmptySeq
  <2> QED
    BY <2>1, <2>3, <2>4, <2>5
<1>3. TypeOK
  <2>1. {error, reported, hole} \subseteq BOOLEAN
    BY <1>1
  <2>2. stack \in Seq(Point)
    BY <1>1, EmptySeq
  <2> QED
    BY <1>1, <1>2, <2>1, <2>2 DEF TypeOK
<1>4. ParseInv
  <2>1. Callers(stack)
    <3>1. DOMAIN stack = {}
      BY <1>1, EmptySeq
    <3> QED
      BY <3>1 DEF Callers
  <2> QED
    BY <1>1, <1>3, <2>1 DEF ParseInv
<1>5. Reading!Init
  <2>1. judged = "open" /\ look = Tok /\ form = Expected(<<>>) \o <<"Nodes">>
    BY <1>1 DEF judged, look, form
  <2>2. Expected(<<>>) = <<>> /\ <<>> \o <<"Nodes">> = <<"Nodes">>
    BY ExpectedNone, Cat01
  <2> QED
    BY <1>2, <2>1, <2>2, SameKind DEF Reading!Init
<1> QED
  BY <1>4, <1>5

LEMMA NextStep ==
    ASSUME ParseInv, [Next]_vars
    PROVE  Advances
<1>1. CASE UNCHANGED vars
  <2>1. ParseInv'
    BY <1>1 DEF ParseInv, TypeOK, Callers, Listing, vars
  <2>2. UNCHANGED <<form, look, judged>>
    BY <1>1 DEF vars, form, look, judged, Expected, RestOf, Rest
  <2> QED
    BY <1>1, <2>1, <2>2 DEF Advances, Step, Reports, Reading!vars, vars
<1>2. CASE Next
  BY <1>2, ParseModuleStep, EndModuleStep, AbortStep, ParseNodeStep, ParseStatementStep,
     ParseExprStmtStep, ParseBreakStmtStep, ParseReturnStmtStep, ParseBlockStep,
     BuiltStep, ParseFuncStmtStep, ParseForStmtStep, ParseRangeStmtStep,
     ParseWhileStmtStep, ParseIfStmtStep, ParseElseStmtStep, ParseVarDeclStep,
     ParseDeclValueStep, ParseFuncDeclStep, ParseFuncDeclTypeStep, ParseParamDeclStep,
     ParseVarPatternStep, ParseVarPatternBodyStep, ParseVarPatternItemStep, ClosingStep,
     ParseTypeReprStep, ParseIdentTypeStep, ParseArrayTypeStep, ParseExprStep,
     ParsePrimaryExprStep, ParseParenExprStep, ParseNumberLiteralExprStep,
     ParseArrayLiteralExprStep, ParseUnaryExprStep, ParsePrimaryExprRHSStep,
     ParseCallExprStep, ParseSubscriptExprStep, ParseExprPatternBodyStep,
     ParseExprPatternItemStep DEF Next
<1> QED
  BY <1>1, <1>2

-----------------------------------------------------------------------------
(* What is accepted has all its parts and has been read to the last call:   *)
(* no method has taken the null that ends a list, or that an error left     *)
(* behind, for a part (Parser.cpp, ParseStmt.cpp, ParseExpr.cpp).           *)
THEOREM AcceptedAreWhole == Spec => []NoHole
<1>1. Init => ParseInv
  BY InitInv
<1>2. ParseInv /\ [Next]_vars => ParseInv'
  BY NextStep DEF Advances
<1>3. ParseInv => NoHole
  BY DEF ParseInv, NoHole
<1> QED
  BY <1>1, <1>2, <1>3, PTL DEF Spec

(* The first error is reported when it is recorded, by diagnose() or, of an  *)
(* unknown token, by the lexer before, unless the token is a bar.           *)
THEOREM RefusalsAreReported == Spec => ErrorReported
<1>1. Init => ParseInv
  BY InitInv
<1>2. ParseInv /\ [Next]_vars => ParseInv'
  BY NextStep DEF Advances
<1>3. ParseInv /\ ParseInv' /\ [Next]_vars
        => [~error /\ error' /\ Tok' # "bar" => reported']_vars
  <2> SUFFICES ASSUME ParseInv, ParseInv', [Next]_vars, ~error, error', Tok' # "bar"
               PROVE  reported'
    OBVIOUS
  <2> QED
    BY NextStep DEF Advances, Reports, ParseInv, Unknown
<1> QED
  BY <1>1, <1>2, <1>3, PTL DEF Spec, ErrorReported

(* As long as there is no error, what has been read of a file and what the  *)
(* calls still have to read make a file of the grammar, for files of any    *)
(* length and nesting: nothing else is accepted, save parameters that are   *)
(* named inout.                                                             *)
THEOREM ReadsTheGrammar == Spec => Implements
<1>1. Init => ParseInv /\ Reading!Init
  BY InitInv
<1>2. ParseInv /\ [Next]_vars => ParseInv' /\ [~NamesInout => Reading!Next]_(Reading!vars)
  BY NextStep DEF Advances, Step
<1> QED
  BY <1>1, <1>2, PTL DEF Spec, Implements

-----------------------------------------------------------------------------
(* Which tokens may come first in a form: those of its first symbol and, as *)
(* long as nothing may be derived of what is in front, of the next ones     *)
Vanishes(f) == \A i \in DOMAIN f : f[i] \in Nullable

LEMMA ComesFirst ==
    ASSUME NEW f, NEW of, NEW t
    PROVE  t \in FirstIn(f, of) <=>
             \E i \in DOMAIN f : t \in of[f[i]] /\ \A k \in 1 .. i - 1 : f[k] \in Nullable
<1> DEFINE Fronts == {j \in DOMAIN f : \A k \in 1 .. j - 1 : f[k] \in Nullable}
<1>1. FirstIn(f, of) = UNION {of[f[i]] : i \in Fronts}
  BY DEF FirstIn
<1>2. t \in UNION {of[f[i]] : i \in Fronts} <=> \E i \in Fronts : t \in of[f[i]]
  <2> HIDE DEF Fronts
  <2> QED
    OBVIOUS
<1> QED
  BY <1>1, <1>2

LEMMA FirstOfNone ==
    ASSUME NEW of
    PROVE  FirstIn(<<>>, of) = {} /\ Vanishes(<<>>)
<1>1. DOMAIN <<>> = {}
  BY EmptySeq
<1>2. \A t : t \notin FirstIn(<<>>, of)
  BY <1>1, ComesFirst
<1> QED
  BY <1>1, <1>2 DEF Vanishes

LEMMA FirstOfHead ==
    ASSUME NEW f \in Seq(Sym), f # <<>>, f[1] \notin Nullable, NEW of
    PROVE  FirstIn(f, of) = of[f[1]] /\ ~Vanishes(f)
<1>1. DOMAIN f = 1 .. Len(f) /\ Len(f) \in Nat /\ Len(f) # 0
  BY LenProperties, EmptySeq
<1>2. 1 \in DOMAIN f
  BY <1>1
<1>3. ASSUME NEW t
      PROVE  t \in FirstIn(f, of) <=> t \in of[f[1]]
  <2>1. ASSUME NEW i \in DOMAIN f, t \in of[f[i]], \A k \in 1 .. i - 1 : f[k] \in Nullable
        PROVE  t \in of[f[1]]
    <3>1. i # 1 => 1 \in 1 .. i - 1
      BY <1>1
    <3> QED
      BY <2>1, <3>1
  <2>2. \A k \in 1 .. 1 - 1 : f[k] \in Nullable
    OBVIOUS
  <2> QED
    BY <1>2, <2>1, <2>2, ComesFirst
<1> QED
  BY <1>2, <1>3 DEF Vanishes

LEMMA FirstOfOne ==
    ASSUME NEW x \in Sym, NEW of
    PROVE  FirstIn(<<x>>, of) = of[x] /\ (Vanishes(<<x>>) <=> x \in Nullable)
<1>0. <<x>> \in Seq(Sym)
  OBVIOUS
<1>1. PICK f \in Seq(Sym) : f = <<x>>
  BY <1>0
<1>2. DOMAIN f = {1} /\ f[1] = x
  BY <1>1
<1>3. \A t : t \in FirstIn(f, of) <=> t \in of[x]
  BY <1>2, ComesFirst
<1> QED
  BY <1>1, <1>2, <1>3 DEF Vanishes

LEMMA FirstOfJoin ==
    ASSUME NEW f, f \in Seq(Sym), NEW g, g \in Seq(Sym), NEW of
    PROVE  /\ \A t : t \in FirstIn(f \o g, of) <=>
                       t \in FirstIn(f, of) \/ (Vanishes(f) /\ t \in FirstIn(g, of))
           /\ Vanishes(f \o g) <=> Vanishes(f) /\ Vanishes(g)
<1>1. PICK u \in Seq(Sym) : u = f \o g
  BY ConcatProperties
<1>2. PICK m \in Nat : m = Len(f) /\ DOMAIN f = 1 .. m
  BY LenProperties
<1>3. PICK n \in Nat : n = Len(g) /\ DOMAIN g = 1 .. n
  BY LenProperties
<1>4. Len(u) = m + n /\ DOMAIN u = 1 .. m + n
  BY <1>1, <1>2, <1>3, ConcatProperties, LenProperties
<1>5. \A i \in 1 .. m : i \in 1 .. m + n /\ u[i] = f[i]
  BY <1>1, <1>2, <1>3, ConcatProperties
<1>6. \A j \in 1 .. n : m + j \in 1 .. m + n /\ u[m + j] = g[j]
  <2>1. ASSUME NEW j \in 1 .. n
        PROVE  m + j \in 1 .. m + n /\ ~(m + j <= m) /\ m + j - m = j
    OBVIOUS
  <2> QED
    BY <1>1, <1>2, <1>3, <2>1, ConcatProperties
<1>7. \A i \in 1 .. m + n : i \in 1 .. m \/ \E j \in 1 .. n : i = m + j
  <2>1. ASSUME NEW i \in 1 .. m + n, i \notin 1 .. m
        PROVE  i - m \in 1 .. n /\ i = m + (i - m)
    BY <2>1
  <2> QED
    BY <2>1
<1>8. Vanishes(u) <=> Vanishes(f) /\ Vanishes(g)
  <2>1. ASSUME Vanishes(u) PROVE Vanishes(f)
    BY <1>2, <1>4, <1>5, <2>1 DEF Vanishes
  <2>2. ASSUME Vanishes(u) PROVE Vanishes(g)
    <3>1. ASSUME NEW j \in 1 .. n PROVE g[j] \in Nullable
      BY <1>4, <1>6, <2>2, <3>1 DEF Vanishes
    <3> QED
      BY <1>3, <3>1 DEF Vanishes
  <2>3. ASSUME Vanishes(f), Vanishes(g) PROVE Vanishes(u)
    <3>1. ASSUME NEW i \in 1 .. m + n PROVE u[i] \in Nullable
      <4>1. CASE i \in 1 .. m
        BY <1>2, <1>5, <2>3, <4>1 DEF Vanishes
      <4>2. CASE \E j \in 1 .. n : i = m + j
        BY <1>3, <1>6, <2>3, <4>2 DEF Vanishes
      <4> QED
        BY <1>7, <4>1, <4>2
    <3> QED
      BY <1>4, <3>1 DEF Vanishes
  <2> QED
    BY <2>1, <2>2, <2>3
<1>9. ASSUME NEW t, t \in FirstIn(f, of)
      PROVE  t \in FirstIn(u, of)
  <2>1. PICK i \in 1 .. m : t \in of[f[i]] /\ \A k \in 1 .. i - 1 : f[k] \in Nullable
    BY <1>2, <1>9, ComesFirst
  <2>2. \A k \in 1 .. i - 1 : k \in 1 .. m
    OBVIOUS
  <2>3. i \in DOMAIN u /\ t \in of[u[i]] /\ \A k \in 1 .. i - 1 : u[k] \in Nullable
    BY <1>4, <1>5, <2>1, <2>2
  <2> QED
    BY <2>3, ComesFirst
<1>10. ASSUME NEW t, t \in FirstIn(g, of), Vanishes(f)
       PROVE  t \in FirstIn(u, of)
  <2>1. PICK j \in 1 .. n : t \in of[g[j]] /\ \A k \in 1 .. j - 1 : g[k] \in Nullable
    BY <1>3, <1>10, ComesFirst
  <2>2. ASSUME NEW k \in 1 .. (m + j) - 1
        PROVE  u[k] \in Nullable
    <3>1. CASE k \in 1 .. m
      BY <1>2, <1>5, <1>10, <3>1 DEF Vanishes
    <3>2. CASE k \notin 1 .. m
      <4>1. PICK l \in 1 .. j - 1 : k = m + l
        <5>1. k - m \in 1 .. j - 1 /\ k = m + (k - m)
          BY <3>2
        <5> QED
          BY <5>1
      <4>2. l \in 1 .. n
        OBVIOUS
      <4> QED
        BY <1>6, <2>1, <4>1, <4>2
    <3> QED
      BY <3>1, <3>2
  <2>3. m + j \in DOMAIN u /\ t \in of[u[m + j]]
    BY <1>4, <1>6, <2>1
  <2> QED
    BY <2>2, <2>3, ComesFirst
<1>11. ASSUME NEW t, t \in FirstIn(u, of)
       PROVE  t \in FirstIn(f, of) \/ (Vanishes(f) /\ t \in FirstIn(g, of))
  <2>1. PICK i \in 1 .. m + n : t \in of[u[i]] /\ \A k \in 1 .. i - 1 : u[k] \in Nullable
    BY <1>4, <1>11, ComesFirst
  <2>2. CASE i \in 1 .. m
    <3>1. \A k \in 1 .. i - 1 : k \in 1 .. m
      BY <2>2
    <3>2. i \in DOMAIN f /\ t \in of[f[i]] /\ \A k \in 1 .. i - 1 : f[k] \in Nullable
      BY <1>2, <1>5, <2>1, <2>2, <3>1
    <3> QED
      BY <3>2, ComesFirst
  <2>3. CASE i \notin 1 .. m
    <3>1. PICK j \in 1 .. n : i = m + j
      BY <1>7, <2>3
    <3>2. \A k \in 1 .. m : k \in 1 .. i - 1
      BY <3>1
    <3>3. Vanishes(f)
      BY <1>2, <1>5, <2>1, <3>2 DEF Vanishes
    <3>4. \A k \in 1 .. j - 1 : m + k \in 1 .. i - 1 /\ k \in 1 .. n
      BY <3>1
    <3>5. j \in DOMAIN g /\ t \in of[g[j]] /\ \A k \in 1 .. j - 1 : g[k] \in Nullable
      BY <1>3, <1>6, <2>1, <3>1, <3>4
    <3> QED
      BY <3>3, <3>5, ComesFirst
  <2> QED
    BY <2>2, <2>3
<1> QED
  BY <1>1, <1>8, <1>9, <1>10, <1>11

LEMMA NextOfJoin ==
    ASSUME NEW f, f \in Seq(Sym), NEW g, g \in Seq(Sym), NEW t
    PROVE  MayComeNext(t, f \o g) <=>
             t \in FirstIn(f, First) \/ (Vanishes(f) /\ MayComeNext(t, g))
<1>1. \A h : MayComeNext(t, h) <=> t \in FirstIn(h, First) \/ (t = "eof" /\ Vanishes(h))
  BY DEF MayComeNext, Vanishes
<1> QED
  BY <1>1, FirstOfJoin

-----------------------------------------------------------------------------
(* The tokens that begin each nonterminal, as a table; First agrees with it. *)
OfStatement == PrimaryToken \union {"semi", "kw_break", "kw_return", "kw_func", "kw_for",
                                    "kw_if", "kw_while"}

OfNode == OfStatement \union {"kw_var", "kw_let"}

Begins ==
    [Nodes |-> OfNode, Node |-> OfNode, Statement |-> OfStatement,
     ExprStmt |-> PrimaryToken, BreakStmt |-> {"kw_break"}, ReturnStmt |-> {"kw_return"},
     ReturnValue |-> PrimaryToken, Block |-> {"l_brace"}, ForStmt |-> {"kw_for"},
     WhileStmt |-> {"kw_while"}, IfStmt |-> {"kw_if"}, ElseStmt |-> {"kw_else"},
     FuncStmt |-> {"kw_func"}, FuncDecl |-> {"kw_func"}, FuncType |-> {"arrow"},
     Params |-> {"identifier"}, MoreParams |-> {"comma"}, ParamDecl |-> {"identifier"},
     VarDecl |-> {"kw_let", "kw_var"}, ValType |-> {"colon"},
     DeclValue |-> {"semi", "assign"}, TypeRepr |-> {"kw_inout", "identifier"},
     IdentType |-> {"identifier"}, ArrayType |-> {"l_bracket"}, Expr |-> PrimaryToken,
     Operands |-> BinaryOperator, Primary |-> PrimaryToken,
     Postfix |-> {"l_paren", "l_bracket"}, Items |-> PrimaryToken, MoreItems |-> {"comma"}]

LEMMA NonterminalIs ==
    Nonterminal =
        {"Nodes", "Node", "Statement", "ExprStmt", "BreakStmt", "ReturnStmt",
         "ReturnValue", "Block", "ForStmt", "WhileStmt", "IfStmt", "ElseStmt",
         "FuncStmt", "FuncDecl", "FuncType", "Params", "MoreParams", "ParamDecl",
         "VarDecl", "ValType", "DeclValue", "TypeRepr", "IdentType", "ArrayType",
         "Expr", "Operands", "Primary", "Postfix", "Items", "MoreItems"}
BY DEF Nonterminal, Rule

LEMMA NullableIs ==
    Nullable = {"Nodes", "Node", "Statement", "ReturnValue", "ElseStmt", "FuncType",
                "Params", "MoreParams", "ValType", "ArrayType", "Operands",
                "Postfix", "Items", "MoreItems"}
<1>1. <<>> \in Rule["Nodes"] /\ <<>> \in Rule["Node"] /\
      <<>> \in Rule["Statement"] /\ <<>> \in Rule["ReturnValue"] /\
      <<>> \in Rule["ElseStmt"] /\ <<>> \in Rule["FuncType"] /\
      <<>> \in Rule["Params"] /\ <<>> \in Rule["MoreParams"] /\
      <<>> \in Rule["ValType"] /\ <<>> \in Rule["ArrayType"] /\
      <<>> \in Rule["Operands"] /\ <<>> \in Rule["Postfix"] /\
      <<>> \in Rule["Items"] /\ <<>> \in Rule["MoreItems"]
  BY DEF Rule
<1>2. <<>> \notin Rule["ExprStmt"]
  BY DEF Rule
<1>3. <<>> \notin Rule["BreakStmt"]
  BY DEF Rule
<1>4. <<>> \notin Rule["ReturnStmt"]
  BY DEF Rule
<1>5. <<>> \notin Rule["Block"]
  BY DEF Rule
<1>6. <<>> \notin Rule["ForStmt"]
  BY DEF Rule
<1>7. <<>> \notin Rule["WhileStmt"]
  BY DEF Rule
<1>8. <<>> \notin Rule["IfStmt"]
  BY DEF Rule
<1>9. <<>> \notin Rule["FuncStmt"]
  BY DEF Rule
<1>10. <<>> \notin Rule["FuncDecl"]
  BY DEF Rule
<1>11. <<>> \notin Rule["ParamDecl"]
  BY DEF Rule
<1>12. <<>> \notin Rule["VarDecl"]
  BY DEF Rule
<1>13. <<>> \notin Rule["DeclValue"]
  BY DEF Rule
<1>14. <<>> \notin Rule["TypeRepr"]
  BY DEF Rule
<1>15. <<>> \notin Rule["IdentType"]
  BY DEF Rule
<1>16. <<>> \notin Rule["Expr"]
  BY DEF Rule
<1>17. <<>> \notin Rule["Primary"]
  BY DEF Rule
<1> QED
  BY <1>1, <1>2, <1>3, <1>4, <1>5, <1>6, <1>7, <1>8, <1>9, <1>10, <1>11, <1>12,
     <1>13, <1>14, <1>15, <1>16, <1>17, NonterminalIs DEF Nullable

LEMMA RoundOf ==
    ASSUME NEW of
    PROVE  /\ \A X \in Nonterminal : Round(of)[X] = UNION {FirstIn(p, of) : p \in Rule[X]}
           /\ \A t \in Kind \union {"Operator", "Ellipsis"} : Round(of)[t] = Reads(t)
<1>1. \A t \in Kind \union {"Operator", "Ellipsis"} : t \notin Nonterminal
  BY NonterminalIs DEF Kind, Keyword, BinaryOperator, Ellipsis, Unknown
<1> QED
  BY <1>1 DEF Round, Symbol

LEMMA RuleFirst ==
    ASSUME NEW X \in Nonterminal, NEW q \in Rule[X], q # <<>>, q[1] \notin Nullable, NEW of
    PROVE  FirstIn(q, of) = of[q[1]]
BY RuleType, FirstOfHead

(* What a round finds of a nonterminal, production by production *)
LEMMA RoundIs ==
    ASSUME NEW of
    PROVE  /\ Round(of)["Nodes"] = of["Node"] \union of["Nodes"]
           /\ Round(of)["Node"] = of["VarDecl"] \union of["Statement"]
           /\ Round(of)["Statement"] = of["semi"] \union of["ExprStmt"] \union
                          of["BreakStmt"] \union of["ReturnStmt"] \union
                          of["FuncStmt"] \union of["ForStmt"] \union
                          of["IfStmt"] \union of["WhileStmt"]
           /\ Round(of)["ExprStmt"] = of["Expr"]
           /\ Round(of)["BreakStmt"] = of["kw_break"]
           /\ Round(of)["ReturnStmt"] = of["kw_return"]
           /\ Round(of)["ReturnValue"] = of["Expr"]
           /\ Round(of)["Block"] = of["l_brace"]
           /\ Round(of)["ForStmt"] = of["kw_for"]
           /\ Round(of)["WhileStmt"] = of["kw_while"]
           /\ Round(of)["IfStmt"] = of["kw_if"]
           /\ Round(of)["ElseStmt"] = of["kw_else"]
           /\ Round(of)["FuncStmt"] = of["FuncDecl"]
           /\ Round(of)["FuncDecl"] = of["kw_func"]
           /\ Round(of)["FuncType"] = of["arrow"]
           /\ Round(of)["Params"] = of["ParamDecl"]
           /\ Round(of)["MoreParams"] = of["comma"]
           /\ Round(of)["ParamDecl"] = of["identifier"]
           /\ Round(of)["VarDecl"] = of["kw_let"] \union of["kw_var"]
           /\ Round(of)["ValType"] = of["colon"]
           /\ Round(of)["DeclValue"] = of["semi"] \union of["assign"]
           /\ Round(of)["TypeRepr"] = of["kw_inout"] \union of["IdentType"]
           /\ Round(of)["IdentType"] = of["identifier"]
           /\ Round(of)["ArrayType"] = of["l_bracket"]
           /\ Round(of)["Expr"] = of["Primary"]
           /\ Round(of)["Operands"] = of["Operator"]
           /\ Round(of)["Primary"] = of["l_paren"] \union of["number_literal"] \union
                          of["identifier"] \union of["l_bracket"] \union
                          of["minus"] \union of["lnot"] \union of["inout"]
           /\ Round(of)["Postfix"] = of["l_paren"] \union of["l_bracket"]
           /\ Round(of)["Items"] = of["Expr"]
           /\ Round(of)["MoreItems"] = of["comma"]
<1>1. Round(of)["Nodes"] = of["Node"] \union of["Nodes"]
  <2>1. Round(of)["Nodes"] = UNION {FirstIn(p, of) : p \in Rule["Nodes"]}
    BY NonterminalIs, RoundOf
  <2>2. Rule["Nodes"] = {<<>>, <<"Node", "Nodes">>}
    BY DEF Rule
  <2>3. FirstIn(<<>>, of) = {}
    BY FirstOfNone
  <2>4. FirstIn(<<"Node", "Nodes">>, of) = of["Node"] \union of["Nodes"]
    <3>1. <<"Node">> \in Seq(Sym) /\ <<"Nodes">> \in Seq(Sym)
      BY NonterminalsAre
    <3>2. <<"Node", "Nodes">> = <<"Node">> \o <<"Nodes">>
      BY Cat11
    <3>3. /\ FirstIn(<<"Node">>, of) = of["Node"] /\ Vanishes(<<"Node">>)
          /\ FirstIn(<<"Nodes">>, of) = of["Nodes"]
      BY NonterminalsAre, NullableIs, FirstOfOne
    <3>4. \A t : t \in FirstIn(<<"Node">> \o <<"Nodes">>, of)
                  <=> t \in FirstIn(<<"Node">>, of) \/ t \in FirstIn(<<"Nodes">>, of)
      BY <3>1, <3>3, FirstOfJoin
    <3>5. \A t : t \in FirstIn(<<"Node", "Nodes">>, of) <=> t \in of["Node"] \union of["Nodes"]
      BY <3>2, <3>3, <3>4
    <3> QED
      BY <3>5
  <2> QED
    BY <2>1, <2>2, <2>3, <2>4
<1>2. Round(of)["Node"] = of["VarDecl"] \union of["Statement"]
  <2>1. Round(of)["Node"] = UNION {FirstIn(p, of) : p \in Rule["Node"]}
    BY NonterminalIs, RoundOf
  <2>2. Rule["Node"] = {<<>>, <<"VarDecl">>, <<"Statement">>}
    BY DEF Rule
  <2>3. FirstIn(<<>>, of) = {}
    BY FirstOfNone
  <2>4. FirstIn(<<"VarDecl">>, of) = of["VarDecl"]
    BY <2>2, NonterminalIs, NullableIs, RuleFirst
  <2>5. FirstIn(<<"Statement">>, of) = of["Statement"]
    BY NonterminalsAre, FirstOfOne
  <2> QED
    BY <2>1, <2>2, <2>3, <2>4, <2>5
<1>3. Round(of)["Statement"] = of["semi"] \union of["ExprStmt"] \union
                          of["BreakStmt"] \union of["ReturnStmt"] \union
                          of["FuncStmt"] \union of["ForStmt"] \union
                          of["IfStmt"] \union of["WhileStmt"]
  <2>1. Round(of)["Statement"] = UNION {FirstIn(p, of) : p \in Rule["Statement"]}
    BY NonterminalIs, RoundOf
  <2>2. Rule["Statement"] = {<<>>, <<"semi", "Statement">>, <<"ExprStmt">>, <<"BreakStmt">>,
                <<"ReturnStmt">>, <<"FuncStmt">>, <<"ForStmt">>, <<"IfStmt">>,
                <<"WhileStmt">>}
    BY DEF Rule
  <2>3. FirstIn(<<>>, of) = {}
    BY FirstOfNone
  <2>4. FirstIn(<<"semi", "Statement">>, of) = of["semi"]
    BY <2>2, NonterminalIs, NullableIs, RuleFirst
  <2>5. FirstIn(<<"ExprStmt">>, of) = of["ExprStmt"]
    BY <2>2, NonterminalIs, NullableIs, RuleFirst
  <2>6. FirstIn(<<"BreakStmt">>, of) = of["BreakStmt"]
    BY <2>2, NonterminalIs, NullableIs, RuleFirst
  <2>7. FirstIn(<<"ReturnStmt">>, of) = of["ReturnStmt"]
    BY <2>2, NonterminalIs, NullableIs, RuleFirst
  <2>8. FirstIn(<<"FuncStmt">>, of) = of["FuncStmt"]
    BY <2>2, NonterminalIs, NullableIs, RuleFirst
  <2>9. FirstIn(<<"ForStmt">>, of) = of["ForStmt"]
    BY <2>2, NonterminalIs, NullableIs, RuleFirst
  <2>10. FirstIn(<<"IfStmt">>, of) = of["IfStmt"]
    BY <2>2, NonterminalIs, NullableIs, RuleFirst
  <2>11. FirstIn(<<"WhileStmt">>, of) = of["WhileStmt"]
    BY <2>2, NonterminalIs, NullableIs, RuleFirst
  <2> QED
    BY <2>1, <2>2, <2>3, <2>4, <2>5, <2>6, <2>7, <2>8, <2>9, <2>10, <2>11
<1>4. Round(of)["ExprStmt"] = of["Expr"]
  <2>1. Round(of)["ExprStmt"] = UNION {FirstIn(p, of) : p \in Rule["ExprStmt"]}
    BY NonterminalIs, RoundOf
  <2>2. Rule["ExprStmt"] = {<<"Expr", "semi">>}
    BY DEF Rule
  <2>3. FirstIn(<<"Expr", "semi">>, of) = of["Expr"]
    BY <2>2, NonterminalIs, NullableIs, RuleFirst
  <2> QED
    BY <2>1, <2>2, <2>3
<1>5. Round(of)["BreakStmt"] = of["kw_break"]
  <2>1. Round(of)["BreakStmt"] = UNION {FirstIn(p, of) : p \in Rule["BreakStmt"]}
    BY NonterminalIs, RoundOf
  <2>2. Rule["BreakStmt"] = {<<"kw_break", "semi">>}
    BY DEF Rule
  <2>3. FirstIn(<<"kw_break", "semi">>, of) = of["kw_break"]
    BY <2>2, NonterminalIs, NullableIs, RuleFirst
  <2> QED
    BY <2>1, <2>2, <2>3
<1>6. Round(of)["ReturnStmt"] = of["kw_return"]
  <2>1. Round(of)["ReturnStmt"] = UNION {FirstIn(p, of) : p \in Rule["ReturnStmt"]}
    BY NonterminalIs, RoundOf
  <2>2. Rule["ReturnStmt"] = {<<"kw_return", "ReturnValue", "semi">>}
    BY DEF Rule
  <2>3. FirstIn(<<"kw_return", "ReturnValue", "semi">>, of) = of["kw_return"]
    BY <2>2, NonterminalIs, NullableIs, RuleFirst
  <2> QED
    BY <2>1, <2>2, <2>3
<1>7. Round(of)["ReturnValue"] = of["Expr"]
  <2>1. Round(of)["ReturnValue"] = UNION {FirstIn(p, of) : p \in Rule["ReturnValue"]}
    BY NonterminalIs, RoundOf
  <2>2. Rule["ReturnValue"] = {<<>>, <<"Expr">>}
    BY DEF Rule
  <2>3. FirstIn(<<>>, of) = {}
    BY FirstOfNone
  <2>4. FirstIn(<<"Expr">>, of) = of["Expr"]
    BY <2>2, NonterminalIs, NullableIs, RuleFirst
  <2> QED
    BY <2>1, <2>2, <2>3, <2>4
<1>8. Round(of)["Block"] = of["l_brace"]
  <2>1. Round(of)["Block"] = UNION {FirstIn(p, of) : p \in Rule["Block"]}
    BY NonterminalIs, RoundOf
  <2>2. Rule["Block"] = {<<"l_brace", "Node", "Nodes", "r_brace">>}
    BY DEF Rule
  <2>3. FirstIn(<<"l_brace", "Node", "Nodes", "r_brace">>, of) = of["l_brace"]
    BY <2>2, NonterminalIs, NullableIs, RuleFirst
  <2> QED
    BY <2>1, <2>2, <2>3
<1>9. Round(of)["ForStmt"] = of["kw_for"]
  <2>1. Round(of)["ForStmt"] = UNION {FirstIn(p, of) : p \in Rule["ForStmt"]}
    BY NonterminalIs, RoundOf
  <2>2. Rule["ForStmt"] = {<<"kw_for", "identifier", "kw_in", "Expr", "Ellipsis", "Expr", "Block">>}
    BY DEF Rule
  <2>3. FirstIn(<<"kw_for", "identifier", "kw_in", "Expr", "Ellipsis", "Expr", "Block">>, of)
          = of["kw_for"]
    BY <2>2, NonterminalIs, NullableIs, RuleFirst
  <2> QED
    BY <2>1, <2>2, <2>3
<1>10. Round(of)["WhileStmt"] = of["kw_while"]
  <2>1. Round(of)["WhileStmt"] = UNION {FirstIn(p, of) : p \in Rule["WhileStmt"]}
    BY NonterminalIs, RoundOf
  <2>2. Rule["WhileStmt"] = {<<"kw_while", "Expr", "Block">>}
    BY DEF Rule
  <2>3. FirstIn(<<"kw_while", "Expr", "Block">>, of) = of["kw_while"]
    BY <2>2, NonterminalIs, NullableIs, RuleFirst
  <2> QED
    BY <2>1, <2>2, <2>3
<1>11. Round(of)["IfStmt"] = of["kw_if"]
  <2>1. Round(of)["IfStmt"] = UNION {FirstIn(p, of) : p \in Rule["IfStmt"]}
    BY NonterminalIs, RoundOf
  <2>2. Rule["IfStmt"] = {<<"kw_if", "Expr", "Block", "ElseStmt">>}
    BY DEF Rule
  <2>3. FirstIn(<<"kw_if", "Expr", "Block", "ElseStmt">>, of) = of["kw_if"]
    BY <2>2, NonterminalIs, NullableIs, RuleFirst
  <2> QED
    BY <2>1, <2>2, <2>3
<1>12. Round(of)["ElseStmt"] = of["kw_else"]
  <2>1. Round(of)["ElseStmt"] = UNION {FirstIn(p, of) : p \in Rule["ElseStmt"]}
    BY NonterminalIs, RoundOf
  <2>2. Rule["ElseStmt"] = {<<>>, <<"kw_else", "Block">>}
    BY DEF Rule
  <2>3. FirstIn(<<>>, of) = {}
    BY FirstOfNone
  <2>4. FirstIn(<<"kw_else", "Block">>, of) = of["kw_else"]
    BY <2>2, NonterminalIs, NullableIs, RuleFirst
  <2> QED
    BY <2>1, <2>2, <2>3, <2>4
<1>13. Round(of)["FuncStmt"] = of["FuncDecl"]
  <2>1. Round(of)["FuncStmt"] = UNION {FirstIn(p, of) : p \in Rule["FuncStmt"]}
    BY NonterminalIs, RoundOf
  <2>2. Rule["FuncStmt"] = {<<"FuncDecl", "Block">>}
    BY DEF Rule
  <2>3. FirstIn(<<"FuncDecl", "Block">>, of) = of["FuncDecl"]
    BY <2>2, NonterminalIs, NullableIs, RuleFirst
  <2> QED
    BY <2>1, <2>2, <2>3
<1>14. Round(of)["FuncDecl"] = of["kw_func"]
  <2>1. Round(of)["FuncDecl"] = UNION {FirstIn(p, of) : p \in Rule["FuncDecl"]}
    BY NonterminalIs, RoundOf
  <2>2. Rule["FuncDecl"] = {<<"kw_func", "identifier", "l_paren", "Params", "r_paren", "FuncType">>}
    BY DEF Rule
  <2>3. FirstIn(<<"kw_func", "identifier", "l_paren", "Params", "r_paren", "FuncType">>, of)
          = of["kw_func"]
    BY <2>2, NonterminalIs, NullableIs, RuleFirst
  <2> QED
    BY <2>1, <2>2, <2>3
<1>15. Round(of)["FuncType"] = of["arrow"]
  <2>1. Round(of)["FuncType"] = UNION {FirstIn(p, of) : p \in Rule["FuncType"]}
    BY NonterminalIs, RoundOf
  <2>2. Rule["FuncType"] = {<<>>, <<"arrow", "TypeRepr">>}
    BY DEF Rule
  <2>3. FirstIn(<<>>, of) = {}
    BY FirstOfNone
  <2>4. FirstIn(<<"arrow", "TypeRepr">>, of) = of["arrow"]
    BY <2>2, NonterminalIs, NullableIs, RuleFirst
  <2> QED
    BY <2>1, <2>2, <2>3, <2>4
<1>16. Round(of)["Params"] = of["ParamDecl"]
  <2>1. Round(of)["Params"] = UNION {FirstIn(p, of) : p \in Rule["Params"]}
    BY NonterminalIs, RoundOf
  <2>2. Rule["Params"] = {<<>>, <<"ParamDecl", "MoreParams">>}
    BY DEF Rule
  <2>3. FirstIn(<<>>, of) = {}
    BY FirstOfNone
  <2>4. FirstIn(<<"ParamDecl", "MoreParams">>, of) = of["ParamDecl"]
    BY <2>2, NonterminalIs, NullableIs, RuleFirst
  <2> QED
    BY <2>1, <2>2, <2>3, <2>4
<1>17. Round(of)["MoreParams"] = of["comma"]
  <2>1. Round(of)["MoreParams"] = UNION {FirstIn(p, of) : p \in Rule["MoreParams"]}
    BY NonterminalIs, RoundOf
  <2>2. Rule["MoreParams"] = {<<>>, <<"comma", "ParamDecl", "MoreParams">>}
    BY DEF Rule
  <2>3. FirstIn(<<>>, of) = {}
    BY FirstOfNone
  <2>4. FirstIn(<<"comma", "ParamDecl", "MoreParams">>, of) = of["comma"]
    BY <2>2, NonterminalIs, NullableIs, RuleFirst
  <2> QED
    BY <2>1, <2>2, <2>3, <2>4
<1>18. Round(of)["ParamDecl"] = of["identifier"]
  <2>1. Round(of)["ParamDecl"] = UNION {FirstIn(p, of) : p \in Rule["ParamDecl"]}
    BY NonterminalIs, RoundOf
  <2>2. Rule["ParamDecl"] = {<<"identifier", "colon", "TypeRepr">>}
    BY DEF Rule
  <2>3. FirstIn(<<"identifier", "colon", "TypeRepr">>, of) = of["identifier"]
    BY <2>2, NonterminalIs, NullableIs, RuleFirst
  <2> QED
    BY <2>1, <2>2, <2>3
<1>19. Round(of)["VarDecl"] = of["kw_let"] \union of["kw_var"]
  <2>1. Round(of)["VarDecl"] = UNION {FirstIn(p, of) : p \in Rule["VarDecl"]}
    BY NonterminalIs, RoundOf
  <2>2. Rule["VarDecl"] = {<<"kw_let", "identifier", "ValType", "DeclValue">>,
                <<"kw_var", "identifier", "ValType", "DeclValue">>}
    BY DEF Rule
  <2>3. FirstIn(<<"kw_let", "identifier", "ValType", "DeclValue">>, of) = of["kw_let"]
    BY <2>2, NonterminalIs, NullableIs, RuleFirst
  <2>4. FirstIn(<<"kw_var", "identifier", "ValType", "DeclValue">>, of) = of["kw_var"]
    BY <2>2, NonterminalIs, NullableIs, RuleFirst
  <2> QED
    BY <2>1, <2>2, <2>3, <2>4
<1>20. Round(of)["ValType"] = of["colon"]
  <2>1. Round(of)["ValType"] = UNION {FirstIn(p, of) : p \in Rule["ValType"]}
    BY NonterminalIs, RoundOf
  <2>2. Rule["ValType"] = {<<>>, <<"colon", "TypeRepr">>}
    BY DEF Rule
  <2>3. FirstIn(<<>>, of) = {}
    BY FirstOfNone
  <2>4. FirstIn(<<"colon", "TypeRepr">>, of) = of["colon"]
    BY <2>2, NonterminalIs, NullableIs, RuleFirst
  <2> QED
    BY <2>1, <2>2, <2>3, <2>4
<1>21. Round(of)["DeclValue"] = of["semi"] \union of["assign"]
  <2>1. Round(of)["DeclValue"] = UNION {FirstIn(p, of) : p \in Rule["DeclValue"]}
    BY NonterminalIs, RoundOf
  <2>2. Rule["DeclValue"] = {<<"semi">>, <<"assign", "Expr", "semi">>}
    BY DEF Rule
  <2>3. FirstIn(<<"semi">>, of) = of["semi"]
    BY <2>2, NonterminalIs, NullableIs, RuleFirst
  <2>4. FirstIn(<<"assign", "Expr", "semi">>, of) = of["assign"]
    BY <2>2, NonterminalIs, NullableIs, RuleFirst
  <2> QED
    BY <2>1, <2>2, <2>3, <2>4
<1>22. Round(of)["TypeRepr"] = of["kw_inout"] \union of["IdentType"]
  <2>1. Round(of)["TypeRepr"] = UNION {FirstIn(p, of) : p \in Rule["TypeRepr"]}
    BY NonterminalIs, RoundOf
  <2>2. Rule["TypeRepr"] = {<<"kw_inout", "IdentType">>, <<"IdentType">>}
    BY DEF Rule
  <2>3. FirstIn(<<"kw_inout", "IdentType">>, of) = of["kw_inout"]
    BY <2>2, NonterminalIs, NullableIs, RuleFirst
  <2>4. FirstIn(<<"IdentType">>, of) = of["IdentType"]
    BY <2>2, NonterminalIs, NullableIs, RuleFirst
  <2> QED
    BY <2>1, <2>2, <2>3, <2>4
<1>23. Round(of)["IdentType"] = of["identifier"]
  <2>1. Round(of)["IdentType"] = UNION {FirstIn(p, of) : p \in Rule["IdentType"]}
    BY NonterminalIs, RoundOf
  <2>2. Rule["IdentType"] = {<<"identifier", "ArrayType">>}
    BY DEF Rule
  <2>3. FirstIn(<<"identifier", "ArrayType">>, of) = of["identifier"]
    BY <2>2, NonterminalIs, NullableIs, RuleFirst
  <2> QED
    BY <2>1, <2>2, <2>3
<1>24. Round(of)["ArrayType"] = of["l_bracket"]
  <2>1. Round(of)["ArrayType"] = UNION {FirstIn(p, of) : p \in Rule["ArrayType"]}
    BY NonterminalIs, RoundOf
  <2>2. Rule["ArrayType"] = {<<>>, <<"l_bracket", "Expr", "r_bracket", "ArrayType">>}
    BY DEF Rule
  <2>3. FirstIn(<<>>, of) = {}
    BY FirstOfNone
  <2>4. FirstIn(<<"l_bracket", "Expr", "r_bracket", "ArrayType">>, of) = of["l_bracket"]
    BY <2>2, NonterminalIs, NullableIs, RuleFirst
  <2> QED
    BY <2>1, <2>2, <2>3, <2>4
<1>25. Round(of)["Expr"] = of["Primary"]
  <2>1. Round(of)["Expr"] = UNION {FirstIn(p, of) : p \in Rule["Expr"]}
    BY NonterminalIs, RoundOf
  <2>2. Rule["Expr"] = {<<"Primary", "Operands">>}
    BY DEF Rule
  <2>3. FirstIn(<<"Primary", "Operands">>, of) = of["Primary"]
    BY <2>2, NonterminalIs, NullableIs, RuleFirst
  <2> QED
    BY <2>1, <2>2, <2>3
<1>26. Round(of)["Operands"] = of["Operator"]
  <2>1. Round(of)["Operands"] = UNION {FirstIn(p, of) : p \in Rule["Operands"]}
    BY NonterminalIs, RoundOf
  <2>2. Rule["Operands"] = {<<>>, <<"Operator", "Primary", "Operands">>}
    BY DEF Rule
  <2>3. FirstIn(<<>>, of) = {}
    BY FirstOfNone
  <2>4. FirstIn(<<"Operator", "Primary", "Operands">>, of) = of["Operator"]
    BY <2>2, NonterminalIs, NullableIs, RuleFirst
  <2> QED
    BY <2>1, <2>2, <2>3, <2>4
<1>27. Round(of)["Primary"] = of["l_paren"] \union of["number_literal"] \union
                          of["identifier"] \union of["l_bracket"] \union
                          of["minus"] \union of["lnot"] \union of["inout"]
  <2>1. Round(of)["Primary"] = UNION {FirstIn(p, of) : p \in Rule["Primary"]}
    BY NonterminalIs, RoundOf
  <2>2. Rule["Primary"] = {<<"l_paren", "Expr", "r_paren">>, <<"number_literal">>,
                <<"identifier", "Postfix">>,
                <<"l_bracket", "Items", "r_bracket", "Postfix">>,
                <<"minus", "Primary">>, <<"lnot", "Primary">>,
                <<"inout", "Primary">>}
    BY DEF Rule
  <2>3. FirstIn(<<"l_paren", "Expr", "r_paren">>, of) = of["l_paren"]
    BY <2>2, NonterminalIs, NullableIs, RuleFirst
  <2>4. FirstIn(<<"number_literal">>, of) = of["number_literal"]
    BY <2>2, NonterminalIs, NullableIs, RuleFirst
  <2>5. FirstIn(<<"identifier", "Postfix">>, of) = of["identifier"]
    BY <2>2, NonterminalIs, NullableIs, RuleFirst
  <2>6. FirstIn(<<"l_bracket", "Items", "r_bracket", "Postfix">>, of) = of["l_bracket"]
    BY <2>2, NonterminalIs, NullableIs, RuleFirst
  <2>7. FirstIn(<<"minus", "Primary">>, of) = of["minus"]
    BY <2>2, NonterminalIs, NullableIs, RuleFirst
  <2>8. FirstIn(<<"lnot", "Primary">>, of) = of["lnot"]
    BY <2>2, NonterminalIs, NullableIs, RuleFirst
  <2>9. FirstIn(<<"inout", "Primary">>, of) = of["inout"]
    BY <2>2, NonterminalIs, NullableIs, RuleFirst
  <2> QED
    BY <2>1, <2>2, <2>3, <2>4, <2>5, <2>6, <2>7, <2>8, <2>9
<1>28. Round(of)["Postfix"] = of["l_paren"] \union of["l_bracket"]
  <2>1. Round(of)["Postfix"] = UNION {FirstIn(p, of) : p \in Rule["Postfix"]}
    BY NonterminalIs, RoundOf
  <2>2. Rule["Postfix"] = {<<>>, <<"l_paren", "Items", "r_paren", "Postfix">>,
                <<"l_bracket", "Expr", "r_bracket", "Postfix">>}
    BY DEF Rule
  <2>3. FirstIn(<<>>, of) = {}
    BY FirstOfNone
  <2>4. FirstIn(<<"l_paren", "Items", "r_paren", "Postfix">>, of) = of["l_paren"]
    BY <2>2, NonterminalIs, NullableIs, RuleFirst
  <2>5. FirstIn(<<"l_bracket", "Expr", "r_bracket", "Postfix">>, of) = of["l_bracket"]
    BY <2>2, NonterminalIs, NullableIs, RuleFirst
  <2> QED
    BY <2>1, <2>2, <2>3, <2>4, <2>5
<1>29. Round(of)["Items"] = of["Expr"]
  <2>1. Round(of)["Items"] = UNION {FirstIn(p, of) : p \in Rule["Items"]}
    BY NonterminalIs, RoundOf
  <2>2. Rule["Items"] = {<<>>, <<"Expr", "MoreItems">>}
    BY DEF Rule
  <2>3. FirstIn(<<>>, of) = {}
    BY FirstOfNone
  <2>4. FirstIn(<<"Expr", "MoreItems">>, of) = of["Expr"]
    BY <2>2, NonterminalIs, NullableIs, RuleFirst
  <2> QED
    BY <2>1, <2>2, <2>3, <2>4
<1>30. Round(of)["MoreItems"] = of["comma"]
  <2>1. Round(of)["MoreItems"] = UNION {FirstIn(p, of) : p \in Rule["MoreItems"]}
    BY NonterminalIs, RoundOf
  <2>2. Rule["MoreItems"] = {<<>>, <<"comma", "Expr", "MoreItems">>}
    BY DEF Rule
  <2>3. FirstIn(<<>>, of) = {}
    BY FirstOfNone
  <2>4. FirstIn(<<"comma", "Expr", "MoreItems">>, of) = of["comma"]
    BY <2>2, NonterminalIs, NullableIs, RuleFirst
  <2> QED
    BY <2>1, <2>2, <2>3, <2>4
<1> QED
  BY <1>1, <1>2, <1>3, <1>4, <1>5, <1>6, <1>7, <1>8, <1>9, <1>10, <1>11, <1>12,
     <1>13, <1>14, <1>15, <1>16, <1>17, <1>18, <1>19, <1>20, <1>21, <1>22, <1>23,
     <1>24, <1>25, <1>26, <1>27, <1>28, <1>29, <1>30

(* What rounds find never exceeds the table, and a round finds all of it for *)
(* the symbols whose productions begin with those that the round before had. *)
Bounded(of) ==
    /\ \A X \in Nonterminal : of[X] \subseteq Begins[X]
    /\ \A t \in Kind \union {"Operator", "Ellipsis"} : of[t] \subseteq Reads(t)

LEMMA ReadsOf ==
    /\ \A t \in Kind : Reads(t) = {t}
    /\ Reads("Operator") = BinaryOperator
BY DEF Reads, Kind, Keyword, BinaryOperator, Ellipsis, Unknown

LEMMA TokensAre ==
    {"identifier", "number_literal", "l_paren", "l_bracket", "minus", "lnot", "inout", "semi",
     "kw_break", "kw_return", "kw_func", "kw_for", "kw_if", "kw_while", "kw_var", "kw_let",
     "l_brace", "kw_else", "arrow", "comma", "colon", "assign", "kw_inout", "eof", "r_brace"}
      \subseteq Kind
BY DEF Kind, Keyword, BinaryOperator

LEMMA RoundBounded ==
    ASSUME NEW of, Bounded(of)
    PROVE  Bounded(Round(of))
<1>1. \A t \in Kind \union {"Operator", "Ellipsis"} : Round(of)[t] \subseteq Reads(t)
  BY RoundOf
<1>2. /\ \A t \in Kind : of[t] \subseteq {t}
      /\ of["Operator"] \subseteq BinaryOperator
  BY ReadsOf DEF Bounded
<1>3. Round(of)["BreakStmt"] \subseteq Begins["BreakStmt"]
  BY <1>2, RoundIs, TokensAre DEF Begins, PrimaryToken
<1>4. Round(of)["ReturnStmt"] \subseteq Begins["ReturnStmt"]
  BY <1>2, RoundIs, TokensAre DEF Begins, PrimaryToken
<1>5. Round(of)["Block"] \subseteq Begins["Block"]
  BY <1>2, RoundIs, TokensAre DEF Begins, PrimaryToken
<1>6. Round(of)["ForStmt"] \subseteq Begins["ForStmt"]
  BY <1>2, RoundIs, TokensAre DEF Begins, PrimaryToken
<1>7. Round(of)["WhileStmt"] \subseteq Begins["WhileStmt"]
  BY <1>2, RoundIs, TokensAre DEF Begins, PrimaryToken
<1>8. Round(of)["IfStmt"] \subseteq Begins["IfStmt"]
  BY <1>2, RoundIs, TokensAre DEF Begins, PrimaryToken
<1>9. Round(of)["ElseStmt"] \subseteq Begins["ElseStmt"]
  BY <1>2, RoundIs, TokensAre DEF Begins, PrimaryToken
<1>10. Round(of)["FuncDecl"] \subseteq Begins["FuncDecl"]
  BY <1>2, RoundIs, TokensAre DEF Begins, PrimaryToken
<1>11. Round(of)["FuncType"] \subseteq Begins["FuncType"]
  BY <1>2, RoundIs, TokensAre DEF Begins, PrimaryToken
<1>12. Round(of)["MoreParams"] \subseteq Begins["MoreParams"]
  BY <1>2, RoundIs, TokensAre DEF Begins, PrimaryToken
<1>13. Round(of)["ParamDecl"] \subseteq Begins["ParamDecl"]
  BY <1>2, RoundIs, TokensAre DEF Begins, PrimaryToken
<1>14. Round(of)["VarDecl"] \subseteq Begins["VarDecl"]
  BY <1>2, RoundIs, TokensAre DEF Begins, PrimaryToken
<1>15. Round(of)["ValType"] \subseteq Begins["ValType"]
  BY <1>2, RoundIs, TokensAre DEF Begins, PrimaryToken
<1>16. Round(of)["DeclValue"] \subseteq Begins["DeclValue"]
  BY <1>2, RoundIs, TokensAre DEF Begins, PrimaryToken
<1>17. Round(of)["IdentType"] \subseteq Begins["IdentType"]
  BY <1>2, RoundIs, TokensAre DEF Begins, PrimaryToken
<1>18. Round(of)["ArrayType"] \subseteq Begins["ArrayType"]
  BY <1>2, RoundIs, TokensAre DEF Begins, PrimaryToken
<1>19. Round(of)["Operands"] \subseteq Begins["Operands"]
  BY <1>2, RoundIs, TokensAre DEF Begins, PrimaryToken
<1>20. Round(of)["Primary"] \subseteq Begins["Primary"]
  BY <1>2, RoundIs, TokensAre DEF Begins, PrimaryToken
<1>21. Round(of)["Postfix"] \subseteq Begins["Postfix"]
  BY <1>2, RoundIs, TokensAre DEF Begins, PrimaryToken
<1>22. Round(of)["MoreItems"] \subseteq Begins["MoreItems"]
  BY <1>2, RoundIs, TokensAre DEF Begins, PrimaryToken
<1>23. Round(of)["FuncStmt"] \subseteq Begins["FuncStmt"]
  <2>1. /\ of["FuncDecl"] \subseteq Begins["FuncDecl"]
    BY NonterminalIs DEF Bounded
  <2> QED
    BY <1>2, <2>1, RoundIs, TokensAre DEF Begins, OfNode, OfStatement, PrimaryToken
<1>24. Round(of)["Params"] \subseteq Begins["Params"]
  <2>1. /\ of["ParamDecl"] \subseteq Begins["ParamDecl"]
    BY NonterminalIs DEF Bounded
  <2> QED
    BY <1>2, <2>1, RoundIs, TokensAre DEF Begins, OfNode, OfStatement, PrimaryToken
<1>25. Round(of)["TypeRepr"] \subseteq Begins["TypeRepr"]
  <2>1. /\ of["IdentType"] \subseteq Begins["IdentType"]
    BY NonterminalIs DEF Bounded
  <2> QED
    BY <1>2, <2>1, RoundIs, TokensAre DEF Begins, OfNode, OfStatement, PrimaryToken
<1>26. Round(of)["Expr"] \subseteq Begins["Expr"]
  <2>1. /\ of["Primary"] \subseteq Begins["Primary"]
    BY NonterminalIs DEF Bounded
  <2> QED
    BY <1>2, <2>1, RoundIs, TokensAre DEF Begins, OfNode, OfStatement, PrimaryToken
<1>27. Round(of)["ExprStmt"] \subseteq Begins["ExprStmt"]
  <2>1. /\ of["Expr"] \subseteq Begins["Expr"]
    BY NonterminalIs DEF Bounded
  <2> QED
    BY <1>2, <2>1, RoundIs, TokensAre DEF Begins, OfNode, OfStatement, PrimaryToken
<1>28. Round(of)["ReturnValue"] \subseteq Begins["ReturnValue"]
  <2>1. /\ of["Expr"] \subseteq Begins["Expr"]
    BY NonterminalIs DEF Bounded
  <2> QED
    BY <1>2, <2>1, RoundIs, TokensAre DEF Begins, OfNode, OfStatement, PrimaryToken
<1>29. Round(of)["Items"] \subseteq Begins["Items"]
  <2>1. /\ of["Expr"] \subseteq Begins["Expr"]
    BY NonterminalIs DEF Bounded
  <2> QED
    BY <1>2, <2>1, RoundIs, TokensAre DEF Begins, OfNode, OfStatement, PrimaryToken
<1>30. Round(of)["Statement"] \subseteq Begins["Statement"]
  <2>1. /\ of["ExprStmt"] \subseteq Begins["ExprStmt"]
        /\ of["BreakStmt"] \subseteq Begins["BreakStmt"]
        /\ of["ReturnStmt"] \subseteq Begins["ReturnStmt"]
        /\ of["FuncStmt"] \subseteq Begins["FuncStmt"]
        /\ of["ForStmt"] \subseteq Begins["ForStmt"]
        /\ of["IfStmt"] \subseteq Begins["IfStmt"]
        /\ of["WhileStmt"] \subseteq Begins["WhileStmt"]
    BY NonterminalIs DEF Bounded
  <2> QED
    BY <1>2, <2>1, RoundIs, TokensAre DEF Begins, OfNode, OfStatement, PrimaryToken
<1>31. Round(of)["Node"] \subseteq Begins["Node"]
  <2>1. /\ of["VarDecl"] \subseteq Begins["VarDecl"]
        /\ of["Statement"] \subseteq Begins["Statement"]
    BY NonterminalIs DEF Bounded
  <2> QED
    BY <1>2, <2>1, RoundIs, TokensAre DEF Begins, OfNode, OfStatement, PrimaryToken
<1>32. Round(of)["Nodes"] \subseteq Begins["Nodes"]
  <2>1. /\ of["Node"] \subseteq Begins["Node"]
        /\ of["Nodes"] \subseteq Begins["Nodes"]
    BY NonterminalIs DEF Bounded
  <2> QED
    BY <1>2, <2>1, RoundIs, TokensAre DEF Begins, OfNode, OfStatement, PrimaryToken
<1> QED
  BY <1>1, <1>3, <1>4, <1>5, <1>6, <1>7, <1>8, <1>9, <1>10, <1>11, <1>12, <1>13,
     <1>14, <1>15, <1>16, <1>17, <1>18, <1>19, <1>20, <1>21, <1>22, <1>23, <1>24,
     <1>25, <1>26, <1>27, <1>28, <1>29, <1>30, <1>31, <1>32, NonterminalIs DEF Bounded

LEMMA RoundOne ==
    ASSUME NEW of
    PROVE  /\ \A t \in Kind : Round(of)[t] = {t}
           /\ Round(of)["Operator"] = BinaryOperator
BY RoundOf, ReadsOf

LEMMA RoundTwo ==
    ASSUME NEW of
    PROVE  /\ Round(Round(of))["BreakStmt"] = Begins["BreakStmt"]
           /\ Round(Round(of))["ReturnStmt"] = Begins["ReturnStmt"]
           /\ Round(Round(of))["Block"] = Begins["Block"]
           /\ Round(Round(of))["ForStmt"] = Begins["ForStmt"]
           /\ Round(Round(of))["WhileStmt"] = Begins["WhileStmt"]
           /\ Round(Round(of))["IfStmt"] = Begins["IfStmt"]
           /\ Round(Round(of))["ElseStmt"] = Begins["ElseStmt"]
           /\ Round(Round(of))["FuncDecl"] = Begins["FuncDecl"]
           /\ Round(Round(of))["FuncType"] = Begins["FuncType"]
           /\ Round(Round(of))["MoreParams"] = Begins["MoreParams"]
           /\ Round(Round(of))["ParamDecl"] = Begins["ParamDecl"]
           /\ Round(Round(of))["VarDecl"] = Begins["VarDecl"]
           /\ Round(Round(of))["ValType"] = Begins["ValType"]
           /\ Round(Round(of))["DeclValue"] = Begins["DeclValue"]
           /\ Round(Round(of))["IdentType"] = Begins["IdentType"]
           /\ Round(Round(of))["ArrayType"] = Begins["ArrayType"]
           /\ Round(Round(of))["Operands"] = Begins["Operands"]
           /\ Round(Round(of))["Primary"] = Begins["Primary"]
           /\ Round(Round(of))["Postfix"] = Begins["Postfix"]
           /\ Round(Round(of))["MoreItems"] = Begins["MoreItems"]
<1> DEFINE found == Round(of)
<1>1. /\ \A t \in Kind : found[t] = {t}
      /\ found["Operator"] = BinaryOperator
  BY RoundOne
<1> HIDE DEF found
<1>2. Round(found)["BreakStmt"] = Begins["BreakStmt"]
  BY <1>1, RoundIs, TokensAre DEF Begins, PrimaryToken
<1>3. Round(found)["ReturnStmt"] = Begins["ReturnStmt"]
  BY <1>1, RoundIs, TokensAre DEF Begins, PrimaryToken
<1>4. Round(found)["Block"] = Begins["Block"]
  BY <1>1, RoundIs, TokensAre DEF Begins, PrimaryToken
<1>5. Round(found)["ForStmt"] = Begins["ForStmt"]
  BY <1>1, RoundIs, TokensAre DEF Begins, PrimaryToken
<1>6. Round(found)["WhileStmt"] = Begins["WhileStmt"]
  BY <1>1, RoundIs, TokensAre DEF Begins, PrimaryToken
<1>7. Round(found)["IfStmt"] = Begins["IfStmt"]
  BY <1>1, RoundIs, TokensAre DEF Begins, PrimaryToken
<1>8. Round(found)["ElseStmt"] = Begins["ElseStmt"]
  BY <1>1, RoundIs, TokensAre DEF Begins, PrimaryToken
<1>9. Round(found)["FuncDecl"] = Begins["FuncDecl"]
  BY <1>1, RoundIs, TokensAre DEF Begins, PrimaryToken
<1>10. Round(found)["FuncType"] = Begins["FuncType"]
  BY <1>1, RoundIs, TokensAre DEF Begins, PrimaryToken
<1>11. Round(found)["MoreParams"] = Begins["MoreParams"]
  BY <1>1, RoundIs, TokensAre DEF Begins, PrimaryToken
<1>12. Round(found)["ParamDecl"] = Begins["ParamDecl"]
  BY <1>1, RoundIs, TokensAre DEF Begins, PrimaryToken
<1>13. Round(found)["VarDecl"] = Begins["VarDecl"]
  BY <1>1, RoundIs, TokensAre DEF Begins, PrimaryToken
<1>14. Round(found)["ValType"] = Begins["ValType"]
  BY <1>1, RoundIs, TokensAre DEF Begins, PrimaryToken
<1>15. Round(found)["DeclValue"] = Begins["DeclValue"]
  BY <1>1, RoundIs, TokensAre DEF Begins, PrimaryToken
<1>16. Round(found)["IdentType"] = Begins["IdentType"]
  BY <1>1, RoundIs, TokensAre DEF Begins, PrimaryToken
<1>17. Round(found)["ArrayType"] = Begins["ArrayType"]
  BY <1>1, RoundIs, TokensAre DEF Begins, PrimaryToken
<1>18. Round(found)["Operands"] = Begins["Operands"]
  BY <1>1, RoundIs, TokensAre DEF Begins, PrimaryToken
<1>19. Round(found)["Primary"] = Begins["Primary"]
  BY <1>1, RoundIs, TokensAre DEF Begins, PrimaryToken
<1>20. Round(found)["Postfix"] = Begins["Postfix"]
  BY <1>1, RoundIs, TokensAre DEF Begins, PrimaryToken
<1>21. Round(found)["MoreItems"] = Begins["MoreItems"]
  BY <1>1, RoundIs, TokensAre DEF Begins, PrimaryToken
<1> QED
  BY <1>2, <1>3, <1>4, <1>5, <1>6, <1>7, <1>8, <1>9, <1>10, <1>11, <1>12, <1>13,
     <1>14, <1>15, <1>16, <1>17, <1>18, <1>19, <1>20, <1>21 DEF found

LEMMA RoundThree ==
    ASSUME NEW of
    PROVE  /\ Round(Round(Round(of)))["FuncStmt"] = Begins["FuncStmt"]
           /\ Round(Round(Round(of)))["Params"] = Begins["Params"]
           /\ Round(Round(Round(of)))["TypeRepr"] = Begins["TypeRepr"]
           /\ Round(Round(Round(of)))["Expr"] = Begins["Expr"]
<1> DEFINE found == Round(Round(of))
<1>1. /\ found["FuncDecl"] = Begins["FuncDecl"]
      /\ found["ParamDecl"] = Begins["ParamDecl"]
      /\ found["IdentType"] = Begins["IdentType"]
      /\ found["Primary"] = Begins["Primary"]
  BY RoundTwo
<1>2. \A t \in Kind : found[t] = {t}
  BY RoundOne
<1> HIDE DEF found
<1>3. Round(found)["FuncStmt"] = Begins["FuncStmt"]
  BY <1>1, <1>2, RoundIs, TokensAre DEF Begins, OfNode, OfStatement, PrimaryToken
<1>4. Round(found)["Params"] = Begins["Params"]
  BY <1>1, <1>2, RoundIs, TokensAre DEF Begins, OfNode, OfStatement, PrimaryToken
<1>5. Round(found)["TypeRepr"] = Begins["TypeRepr"]
  BY <1>1, <1>2, RoundIs, TokensAre DEF Begins, OfNode, OfStatement, PrimaryToken
<1>6. Round(found)["Expr"] = Begins["Expr"]
  BY <1>1, <1>2, RoundIs, TokensAre DEF Begins, OfNode, OfStatement, PrimaryToken
<1> QED
  BY <1>3, <1>4, <1>5, <1>6 DEF found

LEMMA RoundFour ==
    ASSUME NEW of
    PROVE  /\ Round(Round(Round(Round(of))))["ExprStmt"] = Begins["ExprStmt"]
           /\ Round(Round(Round(Round(of))))["ReturnValue"] = Begins["ReturnValue"]
           /\ Round(Round(Round(Round(of))))["Items"] = Begins["Items"]
<1> DEFINE found == Round(Round(Round(of)))
<1>1. /\ found["Expr"] = Begins["Expr"]
  BY RoundThree
<1>2. \A t \in Kind : found[t] = {t}
  BY RoundOne
<1> HIDE DEF found
<1>3. Round(found)["ExprStmt"] = Begins["ExprStmt"]
  BY <1>1, <1>2, RoundIs, TokensAre DEF Begins, OfNode, OfStatement, PrimaryToken
<1>4. Round(found)["ReturnValue"] = Begins["ReturnValue"]
  BY <1>1, <1>2, RoundIs, TokensAre DEF Begins, OfNode, OfStatement, PrimaryToken
<1>5. Round(found)["Items"] = Begins["Items"]
  BY <1>1, <1>2, RoundIs, TokensAre DEF Begins, OfNode, OfStatement, PrimaryToken
<1> QED
  BY <1>3, <1>4, <1>5 DEF found

LEMMA RoundFive ==
    ASSUME NEW of
    PROVE  /\ Round(Round(Round(Round(Round(of)))))["Statement"] = Begins["Statement"]
<1> DEFINE found == Round(Round(Round(Round(of))))
<1>1. /\ found["ExprStmt"] = Begins["ExprStmt"]
      /\ found["BreakStmt"] = Begins["BreakStmt"]
      /\ found["ReturnStmt"] = Begins["ReturnStmt"]
      /\ found["FuncStmt"] = Begins["FuncStmt"]
      /\ found["ForStmt"] = Begins["ForStmt"]
      /\ found["IfStmt"] = Begins["IfStmt"]
      /\ found["WhileStmt"] = Begins["WhileStmt"]
  BY RoundTwo, RoundThree, RoundFour
<1>2. \A t \in Kind : found[t] = {t}
  BY RoundOne
<1> HIDE DEF found
<1>3. Round(found)["Statement"] = Begins["Statement"]
  BY <1>1, <1>2, RoundIs, TokensAre DEF Begins, OfNode, OfStatement, PrimaryToken
<1> QED
  BY <1>3 DEF found

LEMMA RoundSix ==
    ASSUME NEW of
    PROVE  /\ Round(Round(Round(Round(Round(Round(of))))))["Node"] = Begins["Node"]
<1> DEFINE found == Round(Round(Round(Round(Round(of)))))
<1>1. /\ found["VarDecl"] = Begins["VarDecl"]
      /\ found["Statement"] = Begins["Statement"]
  BY RoundTwo, RoundFive
<1>2. \A t \in Kind : found[t] = {t}
  BY RoundOne
<1> HIDE DEF found
<1>3. Round(found)["Node"] = Begins["Node"]
  BY <1>1, <1>2, RoundIs, TokensAre DEF Begins, OfNode, OfStatement, PrimaryToken
<1> QED
  BY <1>3 DEF found

LEMMA RoundSeven ==
    ASSUME NEW of, Bounded(of)
    PROVE  \A X \in Nonterminal :
               Round(Round(Round(Round(Round(Round(Round(of)))))))[X] = Begins[X]
<1> DEFINE found == Round(Round(Round(Round(Round(Round(of))))))
           F == Round(found)
<1>1. F["Nodes"] = Begins["Nodes"]
  <2>1. Round(found)["Nodes"] = found["Node"] \union found["Nodes"]
    BY RoundIs
  <2>2. found["Node"] = Begins["Node"]
    BY RoundSix
  <2>3. found["Nodes"] \subseteq Begins["Nodes"]
    <3>1. Bounded(found)
      BY RoundBounded
    <3> QED
      BY <3>1, NonterminalIs DEF Bounded
  <2>4. Begins["Node"] = Begins["Nodes"]
    BY DEF Begins
  <2> QED
    BY <2>1, <2>2, <2>3, <2>4
<1>2. F["Node"] = Begins["Node"]
  BY RoundSix
<1>3. F["Statement"] = Begins["Statement"]
  BY RoundFive
<1>4. /\ F["ExprStmt"] = Begins["ExprStmt"]
      /\ F["ReturnValue"] = Begins["ReturnValue"]
      /\ F["Items"] = Begins["Items"]
  BY RoundFour
<1>5. /\ F["FuncStmt"] = Begins["FuncStmt"]
      /\ F["Params"] = Begins["Params"]
      /\ F["TypeRepr"] = Begins["TypeRepr"]
      /\ F["Expr"] = Begins["Expr"]
  BY RoundThree
<1>6. /\ F["BreakStmt"] = Begins["BreakStmt"]
      /\ F["ReturnStmt"] = Begins["ReturnStmt"]
      /\ F["Block"] = Begins["Block"]
      /\ F["ForStmt"] = Begins["ForStmt"]
      /\ F["WhileStmt"] = Begins["WhileStmt"]
      /\ F["IfStmt"] = Begins["IfStmt"]
      /\ F["ElseStmt"] = Begins["ElseStmt"]
      /\ F["FuncDecl"] = Begins["FuncDecl"]
      /\ F["FuncType"] = Begins["FuncType"]
      /\ F["MoreParams"] = Begins["MoreParams"]
      /\ F["ParamDecl"] = Begins["ParamDecl"]
      /\ F["VarDecl"] = Begins["VarDecl"]
      /\ F["ValType"] = Begins["ValType"]
      /\ F["DeclValue"] = Begins["DeclValue"]
      /\ F["IdentType"] = Begins["IdentType"]
      /\ F["ArrayType"] = Begins["ArrayType"]
      /\ F["Operands"] = Begins["Operands"]
      /\ F["Primary"] = Begins["Primary"]
      /\ F["Postfix"] = Begins["Postfix"]
      /\ F["MoreItems"] = Begins["MoreItems"]
  BY RoundTwo
<1> HIDE DEF F
<1>7. \A X \in Nonterminal : F[X] = Begins[X]
  BY <1>1, <1>2, <1>3, <1>4, <1>5, <1>6, NonterminalIs
<1> QED
  BY <1>7 DEF F

LEMMA NoTokensBounded == Bounded(NoTokens)
BY DEF Bounded, NoTokens, Symbol

LEMMA FirstIs ==
    /\ \A X \in Nonterminal : First[X] = Begins[X]
    /\ \A t \in Kind : First[t] = {t}
    /\ First["Ellipsis"] = Ellipsis
<1> DEFINE found == Round(Round(Round(Round(Round(Round(NoTokens))))))
<1>1. First = Round(found)
  BY DEF First
<1>2. \A t \in Kind : First[t] = {t}
  BY <1>1, RoundOne
<1>3. First["Ellipsis"] = Ellipsis
  BY <1>1, RoundOf DEF Reads
<1>4. \A X \in Nonterminal : First[X] = Begins[X]
  BY NoTokensBounded, RoundSeven DEF First
<1> QED
  BY <1>2, <1>3, <1>4

(* The seven rounds are enough: another one finds nothing. *)
LEMMA FirstSettles == Round(First) = First
<1> DEFINE found == Round(Round(Round(Round(Round(Round(NoTokens))))))
<1>1. First = Round(found)
  BY DEF First
<1>2. \A t \in Kind \union {"Operator", "Ellipsis"} : Round(First)[t] = First[t]
  BY <1>1, RoundOf
<1>3. \A X \in Nonterminal : Round(First)[X] = First[X]
  <2>1. Bounded(Round(NoTokens))
    BY NoTokensBounded, RoundBounded
  <2>2. \A X \in Nonterminal : Round(First)[X] = Begins[X]
    BY <2>1, RoundSeven DEF First
  <2> QED
    BY <2>2, FirstIs
<1>4. /\ Round(First) = [s \in Symbol |-> Round(First)[s]]
      /\ First = [s \in Symbol |-> First[s]]
  BY <1>1 DEF Round
<1> QED
  BY <1>2, <1>3, <1>4 DEF Symbol

-----------------------------------------------------------------------------
(* What a point may begin with, and whether it may be left with nothing read *)
Starts(p) == FirstIn(RestOf(p), First)

Skips(p) == Vanishes(RestOf(p))

LEMMA StartsWithHead ==
    ASSUME NEW p \in Point, NEW f, RestOf(p) = f, f # <<>>, f[1] \notin Nullable
    PROVE  Starts(p) = First[f[1]] /\ ~Skips(p)
BY RestType, FirstOfHead DEF Starts, Skips

LEMMA StartsWithOne ==
    ASSUME NEW p \in Point, NEW x \in Nonterminal, RestOf(p) = <<x>>
    PROVE  Starts(p) = Begins[x] /\ (Skips(p) <=> x \in Nullable)
BY FirstOfOne, FirstIs DEF Starts, Skips, Sym

LEMMA EntryStarts ==
    ASSUME NEW p \in Nonterminal, p \notin {"ValType", "Nodes", "Operands"}
    PROVE  p \in Point /\ Starts(p) = Begins[p] /\ (Skips(p) <=> p \in Nullable)
<1>1. p \notin DOMAIN Rest
  BY NonterminalIs DEF Rest
<1>2. p \in Point
  BY DEF Point
<1>3. RestOf(p) = <<p>>
  BY <1>1 DEF RestOf
<1> QED
  BY <1>2, <1>3, StartsWithOne

LEMMA PointsAre ==
    {"StmtEnd", "Semi", "Built", "BlockNodes", "RBrace", "FuncBody", "ForBody", "ForName",
     "ForIn", "RangeOp", "DeclName", "ValType", "DeclInit", "FuncName", "VarPattern",
     "ResultType", "ParamType", "AnotherParam", "AnotherItem", "InOutBase", "ArraySize",
     "Operators", "RParen", "RBracket"} \subseteq Point
BY DEF Point, Rest

LEMMA EndsStart ==
    /\ Starts("StmtEnd") = {"semi"} /\ ~Skips("StmtEnd")
    /\ Starts("Semi") = {"semi"} /\ ~Skips("Semi")
    /\ Starts("RBrace") = {"r_brace"} /\ ~Skips("RBrace")
    /\ Starts("ForName") = {"identifier"} /\ ~Skips("ForName")
    /\ Starts("ForIn") = {"kw_in"} /\ ~Skips("ForIn")
    /\ Starts("RangeOp") = Ellipsis /\ ~Skips("RangeOp")
    /\ Starts("DeclName") = {"identifier"} /\ ~Skips("DeclName")
    /\ Starts("FuncName") = {"identifier"} /\ ~Skips("FuncName")
    /\ Starts("VarPattern") = {"l_paren"} /\ ~Skips("VarPattern")
    /\ Starts("ParamType") = {"colon"} /\ ~Skips("ParamType")
    /\ Starts("ArraySize") = {"r_bracket"} /\ ~Skips("ArraySize")
    /\ Starts("RParen") = {"r_paren"} /\ ~Skips("RParen")
    /\ Starts("RBracket") = {"r_bracket"} /\ ~Skips("RBracket")
<1>1. /\ RestOf("StmtEnd") = <<"semi">> /\ RestOf("Semi") = <<"semi">>
      /\ RestOf("RBrace") = <<"r_brace">>
      /\ RestOf("ForName") = <<"identifier", "kw_in", "Expr", "Ellipsis", "Expr", "Block">>
      /\ RestOf("ForIn") = <<"kw_in", "Expr", "Ellipsis", "Expr", "Block">>
      /\ RestOf("RangeOp") = <<"Ellipsis", "Expr">>
      /\ RestOf("DeclName") = <<"identifier", "ValType", "DeclValue">>
      /\ RestOf("FuncName") = <<"identifier", "l_paren", "Params", "r_paren", "FuncType">>
      /\ RestOf("VarPattern") = <<"l_paren", "Params", "r_paren">>
      /\ RestOf("ParamType") = <<"colon", "TypeRepr">>
      /\ RestOf("ArraySize") = <<"r_bracket", "ArrayType">>
      /\ RestOf("RParen") = <<"r_paren">> /\ RestOf("RBracket") = <<"r_bracket">>
  BY DEF RestOf, Rest
<1>2. {"semi", "r_brace", "identifier", "kw_in", "l_paren", "colon", "r_bracket", "r_paren"}
        \subseteq Kind
  BY DEF Kind, Keyword
<1>3. /\ "semi" \notin Nullable /\ "r_brace" \notin Nullable /\ "identifier" \notin Nullable
      /\ "kw_in" \notin Nullable /\ "Ellipsis" \notin Nullable /\ "l_paren" \notin Nullable
      /\ "colon" \notin Nullable /\ "r_bracket" \notin Nullable /\ "r_paren" \notin Nullable
  BY NullableIs
<1>4. /\ First["semi"] = {"semi"} /\ First["r_brace"] = {"r_brace"} 
      /\ First["identifier"] = {"identifier"} /\ First["kw_in"] = {"kw_in"}
      /\ First["l_paren"] = {"l_paren"} /\ First["colon"] = {"colon"}
      /\ First["r_bracket"] = {"r_bracket"} /\ First["r_paren"] = {"r_paren"}
      /\ First["Ellipsis"] = Ellipsis
  BY <1>2, FirstIs
<1>5. /\ Starts("StmtEnd") = First["semi"] /\ ~Skips("StmtEnd")
      /\ Starts("Semi") = First["semi"] /\ ~Skips("Semi")
      /\ Starts("RBrace") = First["r_brace"] /\ ~Skips("RBrace")
  BY <1>1, <1>3, PointsAre, StartsWithHead
<1>6. Starts("ForName") = First["identifier"] /\ ~Skips("ForName")
  BY <1>1, <1>3, PointsAre, StartsWithHead
<1>7. Starts("ForIn") = First["kw_in"] /\ ~Skips("ForIn")
  BY <1>1, <1>3, PointsAre, StartsWithHead
<1>8. Starts("RangeOp") = First["Ellipsis"] /\ ~Skips("RangeOp")
  BY <1>1, <1>3, PointsAre, StartsWithHead
<1>9. Starts("DeclName") = First["identifier"] /\ ~Skips("DeclName")
  BY <1>1, <1>3, PointsAre, StartsWithHead
<1>10. Starts("FuncName") = First["identifier"] /\ ~Skips("FuncName")
  BY <1>1, <1>3, PointsAre, StartsWithHead
<1>11. Starts("VarPattern") = First["l_paren"] /\ ~Skips("VarPattern")
  BY <1>1, <1>3, PointsAre, StartsWithHead
<1>12. Starts("ParamType") = First["colon"] /\ ~Skips("ParamType")
  BY <1>1, <1>3, PointsAre, StartsWithHead
<1>13. Starts("ArraySize") = First["r_bracket"] /\ ~Skips("ArraySize")
  BY <1>1, <1>3, PointsAre, StartsWithHead
<1>14. /\ Starts("RParen") = First["r_paren"] /\ ~Skips("RParen")
       /\ Starts("RBracket") = First["r_bracket"] /\ ~Skips("RBracket")
  BY <1>1, <1>3, PointsAre, StartsWithHead
<1> QED
  BY <1>4, <1>5, <1>6, <1>7, <1>8, <1>9, <1>10, <1>11, <1>12, <1>13, <1>14

LEMMA PartsStart ==
    /\ Starts("FuncBody") = {"l_brace"} /\ ~Skips("FuncBody")
    /\ Starts("ForBody") = {"l_brace"} /\ ~Skips("ForBody")
    /\ Starts("DeclInit") = {"semi", "assign"} /\ ~Skips("DeclInit")
    /\ Starts("ResultType") = {"kw_inout", "identifier"} /\ ~Skips("ResultType")
    /\ Starts("AnotherParam") = {"comma"} /\ Skips("AnotherParam")
    /\ Starts("AnotherItem") = {"comma"} /\ Skips("AnotherItem")
    /\ Starts("InOutBase") = {"identifier"} /\ ~Skips("InOutBase")
    /\ Starts("Operators") = BinaryOperator /\ Skips("Operators")
<1>1. /\ RestOf("FuncBody") = <<"Block">> /\ RestOf("ForBody") = <<"Block">>
      /\ RestOf("DeclInit") = <<"DeclValue">> /\ RestOf("ResultType") = <<"TypeRepr">>
      /\ RestOf("AnotherParam") = <<"MoreParams">> /\ RestOf("AnotherItem") = <<"MoreItems">>
      /\ RestOf("InOutBase") = <<"IdentType">> /\ RestOf("Operators") = <<"Operands">>
  BY DEF RestOf, Rest
<1>2. {"Block", "DeclValue", "TypeRepr", "MoreParams", "MoreItems", "IdentType", "Operands"}
        \subseteq Nonterminal
  BY NonterminalIs
<1>3. /\ Starts("FuncBody") = Begins["Block"] /\ ~Skips("FuncBody")
      /\ Starts("ForBody") = Begins["Block"] /\ ~Skips("ForBody")
  BY <1>1, <1>2, PointsAre, NullableIs, StartsWithOne
<1>4. Starts("DeclInit") = Begins["DeclValue"] /\ ~Skips("DeclInit")
  BY <1>1, <1>2, PointsAre, NullableIs, StartsWithOne
<1>5. Starts("ResultType") = Begins["TypeRepr"] /\ ~Skips("ResultType")
  BY <1>1, <1>2, PointsAre, NullableIs, StartsWithOne
<1>6. Starts("AnotherParam") = Begins["MoreParams"] /\ Skips("AnotherParam")
  BY <1>1, <1>2, PointsAre, NullableIs, StartsWithOne
<1>7. Starts("AnotherItem") = Begins["MoreItems"] /\ Skips("AnotherItem")
  BY <1>1, <1>2, PointsAre, NullableIs, StartsWithOne
<1>8. Starts("InOutBase") = Begins["IdentType"] /\ ~Skips("InOutBase")
  BY <1>1, <1>2, PointsAre, NullableIs, StartsWithOne
<1>9. Starts("Operators") = Begins["Operands"] /\ Skips("Operators")
  BY <1>1, <1>2, PointsAre, NullableIs, StartsWithOne
<1> QED
  BY <1>3, <1>4, <1>5, <1>6, <1>7, <1>8, <1>9 DEF Begins

LEMMA ListsStart ==
    /\ Starts("Built") = {} /\ Skips("Built")
    /\ Starts("BlockNodes") = OfNode \union {"r_brace"} /\ ~Skips("BlockNodes")
    /\ Starts("ValType") = {"colon", "semi", "assign"} /\ ~Skips("ValType")
<1>1. RestOf("Built") = <<>> /\ Starts("Built") = {} /\ Skips("Built")
  <2>1. RestOf("Built") = <<>>
    BY DEF RestOf, Rest
  <2> QED
    BY <2>1, FirstOfNone DEF Starts, Skips
<1>2. /\ First["Nodes"] = OfNode /\ First["ValType"] = {"colon"}
      /\ First["DeclValue"] = {"semi", "assign"} /\ First["r_brace"] = {"r_brace"}
  BY FirstIs, NonterminalIs, TokensAre DEF Begins
<1>3. /\ <<"Nodes">> \in Seq(Sym) /\ <<"r_brace">> \in Seq(Sym)
      /\ <<"ValType">> \in Seq(Sym) /\ <<"DeclValue">> \in Seq(Sym)
  BY NonterminalsAre, TerminalsAre
<1>4. /\ FirstIn(<<"Nodes">>, First) = OfNode /\ Vanishes(<<"Nodes">>)
      /\ FirstIn(<<"r_brace">>, First) = {"r_brace"} /\ ~Vanishes(<<"r_brace">>)
      /\ FirstIn(<<"ValType">>, First) = {"colon"} /\ Vanishes(<<"ValType">>)
      /\ FirstIn(<<"DeclValue">>, First) = {"semi", "assign"} /\ ~Vanishes(<<"DeclValue">>)
  BY <1>2, NonterminalsAre, TerminalsAre, NullableIs, FirstOfOne
<1>5. Starts("BlockNodes") = OfNode \union {"r_brace"} /\ ~Skips("BlockNodes")
  <2>1. RestOf("BlockNodes") = <<"Nodes">> \o <<"r_brace">>
    BY Cat11 DEF RestOf, Rest
  <2>2. \A t : t \in FirstIn(<<"Nodes">> \o <<"r_brace">>, First)
               <=> t \in OfNode \/ t \in {"r_brace"}
    BY <1>3, <1>4, FirstOfJoin
  <2>3. ~Vanishes(<<"Nodes">> \o <<"r_brace">>)
    BY <1>3, <1>4, FirstOfJoin
  <2>4. \A t : t \in Starts("BlockNodes") <=> t \in OfNode \union {"r_brace"}
    BY <2>1, <2>2 DEF Starts
  <2> QED
    BY <2>1, <2>3, <2>4 DEF Skips
<1>6. Starts("ValType") = {"colon", "semi", "assign"} /\ ~Skips("ValType")
  <2>1. RestOf("ValType") = <<"ValType">> \o <<"DeclValue">>
    BY Cat11 DEF RestOf, Rest
  <2>2. \A t : t \in FirstIn(<<"ValType">> \o <<"DeclValue">>, First)
               <=> t \in {"colon"} \/ t \in {"semi", "assign"}
    BY <1>3, <1>4, FirstOfJoin
  <2>3. ~Vanishes(<<"ValType">> \o <<"DeclValue">>)
    BY <1>3, <1>4, FirstOfJoin
  <2>4. \A t : t \in Starts("ValType") <=> t \in {"colon", "semi", "assign"}
    BY <2>1, <2>2 DEF Starts
  <2> QED
    BY <2>1, <2>3, <2>4 DEF Skips
<1> QED
  BY <1>1, <1>5, <1>6

(* The tokens that the calls of a stack may read next *)
Can(t, s) == MayComeNext(t, Expected(s) \o <<"Nodes">>)

LEMMA CanEnd ==
    ASSUME NEW t
    PROVE  Can(t, <<>>) <=> t \in OfNode \/ t = "eof"
<1>1. Expected(<<>>) \o <<"Nodes">> = <<"Nodes">>
  BY ExpectedNone, Cat01
<1>2. FirstIn(<<"Nodes">>, First) = OfNode /\ Vanishes(<<"Nodes">>)
  <2>1. First["Nodes"] = OfNode
    BY FirstIs, NonterminalIs DEF Begins
  <2> QED
    BY <2>1, NonterminalsAre, NullableIs, FirstOfOne
<1>3. MayComeNext(t, <<"Nodes">>) <=> t \in OfNode \/ t = "eof"
  BY <1>2 DEF MayComeNext, Vanishes
<1> QED
  BY <1>1, <1>3 DEF Can

LEMMA CanCons ==
    ASSUME NEW p \in Point, NEW s, s \in Seq(Point), NEW t
    PROVE  Can(t, <<p>> \o s) <=> t \in Starts(p) \/ (Skips(p) /\ Can(t, s))
<1>1. Expected(<<p>> \o s) = RestOf(p) \o Expected(s)
  BY ExpectedCons
<1>2. RestOf(p) \in Seq(Sym) /\ Expected(s) \in Seq(Sym) /\ <<"Nodes">> \in Seq(Sym)
  BY RestType, ExpectedType, NonterminalsAre
<1>3. (RestOf(p) \o Expected(s)) \o <<"Nodes">> = RestOf(p) \o (Expected(s) \o <<"Nodes">>)
  BY <1>2, Regroup
<1>4. PICK g \in Seq(Sym) : g = Expected(s) \o <<"Nodes">>
  BY <1>2, ConcatProperties
<1> QED
  BY <1>1, <1>2, <1>3, <1>4, NextOfJoin DEF Can, Starts, Skips

-----------------------------------------------------------------------------
(* The tokens that may come behind a method, from a point of it; and the    *)
(* methods that may return "absent", where their caller has nothing to test *)
MayFollow(p) ==
    IF p \in {"Expr", "Primary", "Operators", "Postfix"} THEN AfterPostfix
    ELSE IF p \in {"TypeRepr", "IdentType", "ArrayType", "InOutBase", "ArraySize",
                   "ResultType", "ParamType", "ParamDecl"} THEN AfterType
    ELSE IF p \in {"FuncType", "FuncDecl", "FuncName", "RangeOp"} THEN {"l_brace"}
    ELSE IF p \in {"Params", "MoreParams", "AnotherParam"} THEN {"r_paren"}
    ELSE IF p \in {"Items", "MoreItems", "AnotherItem"} THEN {"r_paren", "r_bracket"}
    ELSE IF p = "ReturnValue" THEN {"semi"}
    ELSE IF p \in Listed THEN OfNode \union {"r_brace", "eof"}
    ELSE Kind

Optional == {"DeclValue", "ReturnValue", "ElseStmt", "FuncType"}

Ends == {"Built", "Semi"}

Within(s, F) == \A t \in Kind : Can(t, s) => t \in F

Follows(p, s) ==
    /\ Within(s, MayFollow(p))
    /\ p \in Optional => s # <<>> /\ Head(s) \in Ends

(* Behind each call of the stack come the tokens that may. *)
Followed(s) ==
    \A u \in Seq(Point), v \in Seq(Point), p \in Point :
        s = u \o (<<p>> \o v) => Follows(p, v)

LEMMA Consed ==
    ASSUME NEW p \in Point, NEW s, s \in Seq(Point)
    PROVE  \E w \in Seq(Point) : w = <<p>> \o s /\ w # <<>> /\ Head(w) = p /\ Tail(w) = s
<1>1. <<p>> \in Seq(Point)
  OBVIOUS
<1>2. <<p>> \o s \in Seq(Point)
  BY <1>1, ConcatProperties
<1> QED
  BY <1>1, <1>2, ConsIs

LEMMA FollowedNone == Followed(<<>>)
<1> SUFFICES ASSUME NEW u \in Seq(Point), NEW v \in Seq(Point), NEW p \in Point,
                    <<>> = u \o (<<p>> \o v)
             PROVE  FALSE
  BY DEF Followed
<1>1. PICK w \in Seq(Point) : w = <<p>> \o v /\ w # <<>>
  BY Consed
<1>2. Len(w) \in Nat /\ Len(w) # 0
  BY <1>1, LenProperties, EmptySeq
<1>3. Len(u \o w) = Len(u) + Len(w) /\ Len(u) \in Nat
  BY ConcatProperties, LenProperties
<1> QED
  BY <1>1, <1>2, <1>3

LEMMA FollowedTail ==
    ASSUME NEW s, s \in Seq(Point), s # <<>>, Followed(s)
    PROVE  /\ Tail(s) \in Seq(Point) /\ Head(s) \in Point /\ s = <<Head(s)>> \o Tail(s)
           /\ Followed(Tail(s)) /\ Follows(Head(s), Tail(s))
<1>1. Tail(s) \in Seq(Point) /\ Head(s) \in Point
  BY HeadTailProperties
<1>2. s = <<Head(s)>> \o Tail(s)
  BY <1>1, ConsOfHead
<1>3. Follows(Head(s), Tail(s))
  <2>1. <<Head(s)>> \in Seq(Point)
    BY <1>1
  <2>2. PICK w \in Seq(Point) : w = <<Head(s)>> \o Tail(s)
    BY <1>1, <2>1, ConcatProperties
  <2>3. <<>> \o w = w /\ <<>> \in Seq(Point)
    BY ConcatEmptySeq, EmptySeq
  <2>4. s = <<>> \o (<<Head(s)>> \o Tail(s))
    BY <1>2, <2>2, <2>3
  <2> QED
    BY <1>1, <2>3, <2>4 DEF Followed
<1>4. ASSUME NEW u \in Seq(Point), NEW v \in Seq(Point), NEW p \in Point,
             Tail(s) = u \o (<<p>> \o v)
      PROVE  Follows(p, v)
  <2>1. <<Head(s)>> \in Seq(Point) /\ <<p>> \in Seq(Point)
    BY <1>1
  <2>2. PICK w \in Seq(Point) : w = <<p>> \o v
    BY <2>1, ConcatProperties
  <2>3. PICK x \in Seq(Point) : x = <<Head(s)>> \o u
    BY <2>1, ConcatProperties
  <2>4. (<<Head(s)>> \o u) \o w = <<Head(s)>> \o (u \o w)
    BY <2>1, Regroup
  <2>5. s = x \o (<<p>> \o v)
    BY <1>2, <1>4, <2>2, <2>3, <2>4
  <2> QED
    BY <2>5 DEF Followed
<1> QED
  BY <1>1, <1>2, <1>3, <1>4 DEF Followed

LEMMA FollowedCons ==
    ASSUME NEW p \in Point, NEW s, s \in Seq(Point), Followed(s), Follows(p, s)
    PROVE  Followed(<<p>> \o s)
<1> SUFFICES ASSUME NEW u \in Seq(Point), NEW v \in Seq(Point), NEW q \in Point,
                    <<p>> \o s = u \o (<<q>> \o v)
             PROVE  Follows(q, v)
  BY DEF Followed
<1>1. <<p>> \in Seq(Point) /\ <<q>> \in Seq(Point)
  OBVIOUS
<1>2. Head(<<p>> \o s) = p /\ Tail(<<p>> \o s) = s
  BY <1>1, ConsIs
<1>3. PICK w \in Seq(Point) : w = <<q>> \o v /\ Head(w) = q /\ Tail(w) = v
  BY Consed
<1>4. CASE u = <<>>
  <2>1. <<>> \o w = w
    BY ConcatEmptySeq
  <2>2. <<p>> \o s = w
    BY <1>3, <1>4, <2>1
  <2> QED
    BY <1>2, <1>3, <2>2
<1>5. CASE u # <<>>
  <2>1. /\ Tail(u) \in Seq(Point) /\ Head(u) \in Point /\ <<Head(u)>> \in Seq(Point)
        /\ u = <<Head(u)>> \o Tail(u)
    <3>1. Tail(u) \in Seq(Point) /\ Head(u) \in Point
      BY <1>5, HeadTailProperties
    <3> QED
      BY <1>5, <3>1, ConsOfHead
  <2>2. (<<Head(u)>> \o Tail(u)) \o w = <<Head(u)>> \o (Tail(u) \o w)
    BY <2>1, Regroup
  <2>3. PICK x \in Seq(Point) : x = Tail(u) \o w
    BY <2>1, ConcatProperties
  <2>4. Tail(<<Head(u)>> \o x) = x
    BY <2>1, <2>3, ConsIs
  <2>5. s = Tail(u) \o (<<q>> \o v)
    BY <1>2, <1>3, <2>1, <2>2, <2>3, <2>4
  <2> QED
    BY <2>1, <2>5 DEF Followed
<1> QED
  BY <1>4, <1>5

(* What comes first of a point and, where it may be left, of F behind it *)
Ahead(p, F) == Starts(p) \union (IF Skips(p) THEN F ELSE {})

Fits(s, F) == s \in Seq(Point) /\ Followed(s) /\ Within(s, F)

LEMMA FitsCons ==
    ASSUME NEW p \in Point, NEW s, NEW F, Fits(s, F), F \subseteq MayFollow(p),
           p \in Optional => s # <<>> /\ Head(s) \in Ends
    PROVE  Fits(<<p>> \o s, Ahead(p, F))
<1>1. <<p>> \o s \in Seq(Point)
  <2>1. <<p>> \in Seq(Point)
    OBVIOUS
  <2> QED
    BY <2>1, ConcatProperties DEF Fits
<1>2. Followed(<<p>> \o s)
  <2>1. Follows(p, s)
    BY DEF Fits, Follows, Within
  <2> QED
    BY <2>1, FollowedCons DEF Fits
<1>3. Within(<<p>> \o s, Ahead(p, F))
  <2> SUFFICES ASSUME NEW t \in Kind, Can(t, <<p>> \o s)
               PROVE  t \in Ahead(p, F)
    BY DEF Within
  <2>1. t \in Starts(p) \/ (Skips(p) /\ Can(t, s))
    BY CanCons DEF Fits
  <2> QED
    BY <2>1 DEF Ahead, Fits, Within
<1> QED
  BY <1>1, <1>2, <1>3 DEF Fits

(* Calls pushed on a stack that F may follow *)
LEMMA FitsOne ==
    ASSUME NEW s, NEW F, Fits(s, F), NEW q \in Point, F \subseteq MayFollow(q), q \notin Optional
    PROVE  <<q>> \in Seq(Point) /\ Followed(<<q>> \o s)
<1>1. Fits(<<q>> \o s, Ahead(q, F))
  BY FitsCons
<1>2. <<q>> \in Seq(Point)
  OBVIOUS
<1> QED
  BY <1>1, <1>2 DEF Fits

LEMMA FitsTwo ==
    ASSUME NEW s, NEW F, Fits(s, F), NEW p \in Point, NEW q \in Point,
           F \subseteq MayFollow(q), q \notin Optional,
           Ahead(q, F) \subseteq MayFollow(p), p \in Optional => q \in Ends
    PROVE  <<p, q>> \in Seq(Point) /\ Followed(<<p, q>> \o s) 
           /\ <<p, q>> \o s = <<p>> \o (<<q>> \o s)
<1>1. s \in Seq(Point)
  BY DEF Fits
<1>2. Fits(<<q>> \o s, Ahead(q, F))
  BY FitsCons
<1>3. PICK u \in Seq(Point) : u = <<q>> \o s /\ u # <<>> /\ Head(u) = q
  BY <1>1, Consed
<1>4. Fits(<<p>> \o u, Ahead(p, Ahead(q, F)))
  BY <1>2, <1>3, FitsCons
<1>5. <<p, q>> = <<p>> \o <<q>>
  BY Cat11
<1>6. <<p>> \in Seq(Point) /\ <<q>> \in Seq(Point) /\ <<p, q>> \in Seq(Point)
  OBVIOUS
<1>7. (<<p>> \o <<q>>) \o s = <<p>> \o (<<q>> \o s)
  BY <1>1, <1>6, Regroup
<1>8. <<p, q>> \o s = <<p>> \o u
  BY <1>3, <1>5, <1>7
<1>9. Followed(<<p, q>> \o s)
  BY <1>4, <1>8 DEF Fits
<1> QED
  BY <1>3, <1>6, <1>8, <1>9

LEMMA FitsThree ==
    ASSUME NEW s, NEW F, Fits(s, F), NEW p \in Point, NEW q \in Point, NEW r \in Point,
           F \subseteq MayFollow(r), r \notin Optional,
           Ahead(r, F) \subseteq MayFollow(q), q \in Optional => r \in Ends,
           Ahead(q, Ahead(r, F)) \subseteq MayFollow(p), p \notin Optional
    PROVE  <<p, q, r>> \in Seq(Point) /\ Followed(<<p, q, r>> \o s)
<1>1. s \in Seq(Point)
  BY DEF Fits
<1>2. Fits(<<r>> \o s, Ahead(r, F))
  BY FitsCons
<1>3. PICK u \in Seq(Point) : u = <<r>> \o s /\ u # <<>> /\ Head(u) = r
  BY <1>1, Consed
<1>4. Fits(<<q>> \o u, Ahead(q, Ahead(r, F)))
  BY <1>2, <1>3, FitsCons
<1>5. <<q>> \o u = <<q, r>> \o s
  <2>1. <<q>> \in Seq(Point) /\ <<r>> \in Seq(Point)
    OBVIOUS
  <2>2. (<<q>> \o <<r>>) \o s = <<q>> \o (<<r>> \o s)
    BY <1>1, <2>1, Regroup
  <2>3. <<q, r>> = <<q>> \o <<r>>
    BY Cat11
  <2> QED
    BY <1>3, <2>2, <2>3
<1>6. Fits(<<p>> \o (<<q, r>> \o s), Ahead(p, Ahead(q, Ahead(r, F))))
  BY <1>4, <1>5, FitsCons
<1>7. <<p, q, r>> = <<p>> \o <<q, r>>
  BY Cat12
<1>8. <<p>> \in Seq(Point) /\ <<q, r>> \in Seq(Point)
  OBVIOUS
<1>9. (<<p>> \o <<q, r>>) \o s = <<p>> \o (<<q, r>> \o s)
  BY <1>1, <1>8, Regroup
<1>10. Followed(<<p, q, r>> \o s)
  BY <1>6, <1>7, <1>9 DEF Fits
<1>11. <<p, q, r>> \in Seq(Point)
  OBVIOUS
<1> QED
  BY <1>10, <1>11

LEMMA FitsFour ==
    ASSUME NEW s, NEW F, Fits(s, F), NEW o \in Point, NEW p \in Point, NEW q \in Point,
           NEW r \in Point, F \subseteq MayFollow(r), r \notin Optional,
           Ahead(r, F) \subseteq MayFollow(q), q \in Optional => r \in Ends,
           Ahead(q, Ahead(r, F)) \subseteq MayFollow(p), p \in Optional => q \in Ends,
           Ahead(p, Ahead(q, Ahead(r, F))) \subseteq MayFollow(o), o \notin Optional
    PROVE  <<o, p, q, r>> \in Seq(Point) /\ Followed(<<o, p, q, r>> \o s)
<1>1. s \in Seq(Point)
  BY DEF Fits
<1>2. Fits(<<r>> \o s, Ahead(r, F))
  BY FitsCons
<1>3. PICK u \in Seq(Point) : u = <<r>> \o s /\ u # <<>> /\ Head(u) = r
  BY <1>1, Consed
<1>4. Fits(<<q>> \o u, Ahead(q, Ahead(r, F)))
  BY <1>2, <1>3, FitsCons
<1>5. PICK v \in Seq(Point) : v = <<q>> \o u /\ v # <<>> /\ Head(v) = q
  BY <1>1, Consed
<1>6. Fits(<<p>> \o v, Ahead(p, Ahead(q, Ahead(r, F))))
  BY <1>4, <1>5, FitsCons
<1>7. PICK w \in Seq(Point) : w = <<p>> \o v
  BY Consed
<1>8. Fits(<<o>> \o w, Ahead(o, Ahead(p, Ahead(q, Ahead(r, F)))))
  BY <1>6, <1>7, FitsCons
<1>9. <<o, p, q, r>> \o s = <<o>> \o w
  <2>1. /\ <<o>> \in Seq(Point) /\ <<p>> \in Seq(Point) /\ <<q>> \in Seq(Point)
        /\ <<r>> \in Seq(Point)
    OBVIOUS
  <2>2. <<q, r>> \in Seq(Point) /\ <<p, q, r>> \in Seq(Point)
    OBVIOUS
  <2>3. (<<q>> \o <<r>>) \o s = <<q>> \o (<<r>> \o s)
    BY <1>1, <2>1, Regroup
  <2>4. <<q, r>> \o s = v
    <3>1. <<q, r>> = <<q>> \o <<r>>
      BY Cat11
    <3> QED
      BY <1>3, <1>5, <2>3, <3>1
  <2>5. (<<p>> \o <<q, r>>) \o s = <<p>> \o (<<q, r>> \o s)
    BY <1>1, <2>1, <2>2, Regroup
  <2>6. <<p, q, r>> \o s = w
    <3>1. <<p, q, r>> = <<p>> \o <<q, r>>
      BY Cat12
    <3> QED
      BY <1>7, <2>4, <2>5, <3>1
  <2>7. (<<o>> \o <<p, q, r>>) \o s = <<o>> \o (<<p, q, r>> \o s)
    BY <1>1, <2>1, <2>2, Regroup
  <2>8. <<o, p, q, r>> = <<o>> \o <<p, q, r>>
    BY Cat13
  <2> QED
    BY <2>6, <2>7, <2>8
<1>10. Followed(<<o, p, q, r>> \o s)
  BY <1>8, <1>9 DEF Fits
<1>11. <<o, p, q, r>> \in Seq(Point)
  OBVIOUS
<1> QED
  BY <1>10, <1>11

-----------------------------------------------------------------------------
(* What begins a statement that parseStatement() knows *)
Known == {"semi"} \union DOMAIN StatementOf

(* As long as there is no error, behind each call comes what may; "absent"  *)
(* is only returned to one that does not test it; and a loop over the nodes *)
(* of a block was not told null where a statement begins.                   *)
LeadInv ==
    /\ ParseInv
    /\ ~error => Followed(stack)
    /\ ~error /\ ret = "absent" => stack # <<>> /\ Head(stack) \in Ends
    /\ ~error /\ At("BlockNodes") /\ ret # "node" => Tok \notin Known

(* The token may come next, and this is no place where it is refused. *)
Due == judged = "open" /\ MayComeNext(Tok, form) /\ ~KnownRefusal

(* The step does not refuse it, or leave the path that it is on. *)
Leads ==
    Due => /\ judged' # "rejected"
           /\ judged' = "open" /\ UNCHANGED Position => MayComeNext(Tok, form')

(* What is proved of every step, with ParseInv' *)
Goes ==
    /\ ~error' => Followed(stack')
    /\ ~error' /\ ret' = "absent" => stack' # <<>> /\ Head(stack') \in Ends
    /\ ~error' /\ verdict' = "open" /\ stack' # <<>> /\ Head(stack') = "BlockNodes"
         /\ ret' # "node" => Tok' \notin Known
    /\ Leads

LEMMA FormIs ==
    ASSUME judged = "open"
    PROVE  ~error /\ verdict = "open" /\ (MayComeNext(Tok, form) <=> Can(Tok, stack))
BY DEF judged, form, Can

LEMMA NextFormIs ==
    ASSUME judged' = "open"
    PROVE  MayComeNext(Tok, form') <=> Can(Tok, stack')
<1>1. (form = Expected(stack) \o <<"Nodes">>)'
  BY DEF judged, form
<1>2. (Expected(stack))' = Expected(stack')
  BY DEF Expected, RestOf, Rest
<1> QED
  BY <1>1, <1>2 DEF Can

(* At a point, the token begins its rest or, if it may be left so, may come *)
(* behind.                                                                  *)
LEMMA DueAt ==
    ASSUME LeadInv, NEW p, At(p), Due
    PROVE  /\ ~error /\ ~KnownRefusal
           /\ Tok \in Starts(p) \/ (Skips(p) /\ Tok \in MayFollow(p) /\ Can(Tok, Tail(stack)))
<1>1. ~error /\ verdict = "open" /\ Can(Tok, stack) /\ ~KnownRefusal
  BY FormIs DEF Due
<1>2. stack \in Seq(Point) /\ stack # <<>> /\ Head(stack) = p /\ Followed(stack) /\ Tok \in Kind
  BY <1>1 DEF LeadInv, ParseInv, TypeOK, At
<1>3. /\ Tail(stack) \in Seq(Point) /\ p \in Point /\ stack = <<p>> \o Tail(stack)
      /\ Follows(p, Tail(stack))
  BY <1>2, FollowedTail
<1>4. Tok \in Starts(p) \/ (Skips(p) /\ Can(Tok, Tail(stack)))
  BY <1>1, <1>3, CanCons
<1> QED
  BY <1>1, <1>2, <1>3, <1>4 DEF Follows, Within

LEMMA TailFits ==
    ASSUME LeadInv, NEW p, At(p), ~error
    PROVE  /\ Fits(Tail(stack), MayFollow(p))
           /\ p \in Optional => Tail(stack) # <<>> /\ Head(Tail(stack)) \in Ends
<1>1. stack \in Seq(Point) /\ stack # <<>> /\ Head(stack) = p /\ Followed(stack)
  BY DEF LeadInv, ParseInv, TypeOK, At
<1> QED
  BY <1>1, FollowedTail DEF Follows, Fits

(* Where the token is consumed, the position is another one. *)
LEMMA Moves ==
    ASSUME ParseInv, consumeToken
    PROVE  ~UNCHANGED Position
<1> SUFFICES ASSUME Tok' = Tok, ahead' = ahead, left' = left
             PROVE  FALSE
  BY DEF Position
<1>1. ahead \in Seq(Kind \ {"eof"}) /\ left \in Nat /\ Tok # "eof"
  <2>1. left \in 0 .. MaxTokens /\ MaxTokens \in Nat
    BY SupplyAssumption DEF ParseInv, TypeOK
  <2> QED
    BY <2>1 DEF ParseInv, TypeOK, consumeToken
<1>2. CASE ahead # <<>> /\ ahead' = Tail(ahead)
  <2>1. Len(Tail(ahead)) = Len(ahead) - 1 /\ Len(ahead) \in Nat
    BY <1>1, <1>2, HeadTailProperties, LenProperties
  <2>2. Tail(ahead) = ahead
    BY <1>2
  <2>3. Len(ahead) = Len(ahead) - 1
    BY ONLY <2>1, <2>2
  <2> QED
    BY <2>1, <2>3
<1>3. CASE left' = left - 1
  BY <1>1, <1>3
<1>4. CASE Tok' = "eof"
  BY <1>1, <1>4
<1> QED
  BY <1>2, <1>3, <1>4 DEF consumeToken

(* The shapes of the steps again *)
LEMMA GoLeads ==
    ASSUME LeadInv, NEW p, NEW K, NEW ps, Go(p, K, ps),
           ~error => Followed(ps \o Tail(stack)),
           Due => Can(Tok, ps \o Tail(stack))
    PROVE  Goes
<1>1. /\ error' = error /\ verdict' = verdict /\ stack' = ps \o Tail(stack) /\ ret' = "node"
      /\ verdict = "open"
  BY DEF Go, At, Then, NoError
<1>2. ~error' => Followed(stack')
  BY <1>1
<1>3. Leads
  <2> SUFFICES ASSUME Due
               PROVE  judged' = "open" /\ MayComeNext(Tok, form')
    BY DEF Leads
  <2>1. ~error
    BY FormIs DEF Due
  <2>2. judged' = "open"
    BY <1>1, <2>1 DEF judged
  <2>3. Can(Tok, stack')
    BY <1>1
  <2> QED
    BY <2>2, <2>3, NextFormIs
<1> QED
  BY <1>1, <1>2, <1>3 DEF Goes

LEMMA EatLeads ==
    ASSUME LeadInv, NEW p, NEW K, NEW ps, Eat(p, K, ps), ~error => Followed(ps \o Tail(stack))
    PROVE  Goes
<1>1. /\ error' = error /\ verdict' = verdict /\ stack' = ps \o Tail(stack) /\ ret' = "node"
      /\ verdict = "open" /\ consumeToken
  BY DEF Eat, At, Then, NoError, Take
<1>2. ~error' => Followed(stack')
  BY <1>1
<1>3. Leads
  <2>1. ~UNCHANGED Position
    BY <1>1, Moves DEF LeadInv
  <2>2. Due => judged' = "open"
    BY <1>1, FormIs DEF Due, judged
  <2> QED
    BY <2>1, <2>2 DEF Leads
<1> QED
  BY <1>1, <1>2, <1>3 DEF Goes

LEMMA ReturnKeeps ==
    ASSUME LeadInv, NEW p, At(p), NEW v \in {"node", "null", "absent"}, Return(v), NoError, ~error,
           v = "null" => p \in Listed /\ Tok' \notin Known,
           v = "absent" => p \in Optional
    PROVE  /\ Followed(stack')
           /\ ret' = "absent" => stack' # <<>> /\ Head(stack') \in Ends
           /\ stack' # <<>> /\ Head(stack') = "BlockNodes" /\ ret' # "node" => Tok' \notin Known
<1>1. stack' = Tail(stack) /\ ret' = v
  BY DEF Return
<1>2. /\ Followed(Tail(stack))
      /\ p \in Optional => Tail(stack) # <<>> /\ Head(Tail(stack)) \in Ends
  BY TailFits DEF Fits
<1> QED
  BY <1>1, <1>2 DEF Ends

LEMMA GoBackLeads ==
    ASSUME LeadInv, NEW p, NEW K, NEW v \in {"node", "null", "absent"}, GoReturn(p, K, v),
           v = "null" /\ ~error => p \in Listed /\ Tok \notin Known,
           v = "absent" /\ ~error => p \in Optional,
           Due => Can(Tok, Tail(stack))
    PROVE  Goes
<1>1. /\ error' = error /\ verdict' = verdict /\ stack' = Tail(stack) /\ ret' = v
      /\ verdict = "open" /\ At(p) /\ Return(v) /\ NoError /\ Tok' = Tok
  BY DEF GoReturn, At, Return, NoError, Stay, Position
<1>2. CASE error
  <2>1. error'
    BY <1>1, <1>2
  <2>2. ~Due
    BY <1>2, FormIs DEF Due
  <2> QED
    BY <2>1, <2>2 DEF Goes, Leads
<1>3. CASE ~error
  <2>1. /\ Followed(stack')
        /\ ret' = "absent" => stack' # <<>> /\ Head(stack') \in Ends
        /\ stack' # <<>> /\ Head(stack') = "BlockNodes" /\ ret' # "node" => Tok' \notin Known
    BY <1>1, <1>3, ReturnKeeps
  <2>2. Leads
    <3> SUFFICES ASSUME Due
                 PROVE  judged' = "open" /\ MayComeNext(Tok, form')
      BY DEF Leads
    <3>1. judged' = "open"
      BY <1>1, <1>3 DEF judged
    <3>2. Can(Tok, stack')
      BY <1>1
    <3> QED
      BY <3>1, <3>2, NextFormIs
  <2> QED
    BY <2>1, <2>2 DEF Goes
<1> QED
  BY <1>2, <1>3

LEMMA EatBackLeads ==
    ASSUME LeadInv, NEW p, NEW K, NEW v \in {"node", "null", "absent"}, EatReturn(p, K, v),
           v = "null" => error, v = "absent" /\ ~error => p \in Optional
    PROVE  Goes
<1>1. /\ error' = error /\ verdict' = verdict /\ stack' = Tail(stack) /\ ret' = v
      /\ verdict = "open" /\ At(p) /\ Return(v) /\ NoError /\ consumeToken
  BY DEF EatReturn, At, Return, NoError, Take
<1>2. CASE error
  <2>1. error'
    BY <1>1, <1>2
  <2>2. ~Due
    BY <1>2, FormIs DEF Due
  <2> QED
    BY <2>1, <2>2 DEF Goes, Leads
<1>3. CASE ~error
  <2>1. /\ Followed(stack')
        /\ ret' = "absent" => stack' # <<>> /\ Head(stack') \in Ends
        /\ stack' # <<>> /\ Head(stack') = "BlockNodes" /\ ret' # "node" => Tok' \notin Known
    BY <1>1, <1>3, ReturnKeeps
  <2>2. ~UNCHANGED Position
    BY <1>1, Moves DEF LeadInv
  <2>3. judged' = "open"
    BY <1>1, <1>3 DEF judged
  <2> QED
    BY <2>1, <2>2, <2>3 DEF Goes, Leads
<1> QED
  BY <1>2, <1>3

(* An error is only recorded where the token is one. *)
LEMMA FailLeads ==
    ASSUME LeadInv, NEW p, NEW K, NEW id, NEW v, Fail(p, K, id, v) \/ EatFail(p, K, v),
           Tok \in Starts(p) => Tok \in K \/ KnownRefusal,
           Skips(p) /\ Tok \in MayFollow(p) => Tok \in K \/ KnownRefusal
    PROVE  Goes
<1>1. At(p) /\ Tok \notin K /\ error' = TRUE
  BY DEF Fail, EatFail, Diagnose
<1>2. ~Due
  BY <1>1, DueAt
<1> QED
  BY <1>1, <1>2 DEF Goes, Leads

(* A point that stands for the rest of its method's, alone or with another *)
LEMMA GoOneLeads ==
    ASSUME LeadInv, NEW p, NEW K, NEW q \in Point, Go(p, K, <<q>>),
           MayFollow(p) \subseteq MayFollow(q), q \notin Optional,
           ~error /\ Tok \in Starts(p) /\ ~KnownRefusal => Tok \in Starts(q),
           Skips(p) => Skips(q) \/ Tok \in Starts(q)
    PROVE  Goes
<1>1. At(p)
  BY DEF Go
<1>2. ~error => Followed(<<q>> \o Tail(stack))
  <2> SUFFICES ASSUME ~error
               PROVE  Followed(<<q>> \o Tail(stack))
    OBVIOUS
  <2> DEFINE F == MayFollow(p)
  <2>1. Fits(Tail(stack), F) /\ F \subseteq MayFollow(q)
    BY <1>1, TailFits
  <2> HIDE DEF F
  <2> QED
    BY <2>1, FitsOne
<1>3. Due => Can(Tok, <<q>> \o Tail(stack))
  <2> SUFFICES ASSUME Due
               PROVE  Can(Tok, <<q>> \o Tail(stack))
    OBVIOUS
  <2>1. Tok \in Starts(q) \/ (Skips(q) /\ Can(Tok, Tail(stack)))
    BY <1>1, DueAt
  <2>2. Tail(stack) \in Seq(Point)
    BY <1>1, TailFits, FormIs DEF Due, Fits
  <2> QED
    BY <2>1, <2>2, CanCons
<1> QED
  BY <1>2, <1>3, GoLeads

LEMMA GoTwoLeads ==
    ASSUME LeadInv, NEW p, NEW K, NEW q \in Point, NEW r \in Point, Go(p, K, <<q, r>>),
           MayFollow(p) \subseteq MayFollow(r), r \notin Optional,
           Ahead(r, MayFollow(p)) \subseteq MayFollow(q), q \in Optional => r \in Ends,
           ~error /\ Tok \in Starts(p) /\ ~KnownRefusal
             => Tok \in Starts(q) \/ (Skips(q) /\ Tok \in Starts(r)),
           Skips(p) => (Skips(q) /\ Skips(r)) \/ Tok \in Starts(q)
    PROVE  Goes
<1>1. At(p)
  BY DEF Go
<1>2. ~error => Followed(<<q, r>> \o Tail(stack))
  <2> SUFFICES ASSUME ~error
               PROVE  Followed(<<q, r>> \o Tail(stack))
    OBVIOUS
  <2> DEFINE F == MayFollow(p)
  <2>1. Fits(Tail(stack), F) /\ F \subseteq MayFollow(r) /\ Ahead(r, F) \subseteq MayFollow(q)
    BY <1>1, TailFits
  <2> HIDE DEF F
  <2> QED
    BY <2>1, FitsTwo
<1>3. Due => Can(Tok, <<q, r>> \o Tail(stack))
  <2> SUFFICES ASSUME Due
               PROVE  Can(Tok, <<q, r>> \o Tail(stack))
    OBVIOUS
  <2>1. \/ Tok \in Starts(q)
        \/ Skips(q) /\ (Tok \in Starts(r) \/ (Skips(r) /\ Can(Tok, Tail(stack))))
    BY <1>1, DueAt
  <2>2. Fits(Tail(stack), MayFollow(p)) /\ Tail(stack) \in Seq(Point)
    BY <1>1, TailFits, FormIs DEF Due, Fits
  <2>3. PICK w \in Seq(Point) : w = <<r>> \o Tail(stack)
    BY <2>2, Consed
  <2>4. Can(Tok, w) <=> Tok \in Starts(r) \/ (Skips(r) /\ Can(Tok, Tail(stack)))
    BY <2>2, <2>3, CanCons
  <2>5. Can(Tok, <<q>> \o w)
    BY <2>1, <2>4, CanCons
  <2>6. (<<q>> \o <<r>>) \o Tail(stack) = <<q>> \o (<<r>> \o Tail(stack))
    <3>1. <<q>> \in Seq(Point) /\ <<r>> \in Seq(Point)
      OBVIOUS
    <3> QED
      BY <2>2, <3>1, Regroup
  <2>7. <<q, r>> = <<q>> \o <<r>>
    BY Cat11
  <2> QED
    BY <2>3, <2>5, <2>6, <2>7
<1> QED
  BY <1>2, <1>3, GoLeads

(* Points pushed behind a token that was read *)
LEMMA EatOneLeads ==
    ASSUME LeadInv, NEW p, NEW K, NEW q \in Point, Eat(p, K, <<q>>),
           MayFollow(p) \subseteq MayFollow(q), q \notin Optional
    PROVE  Goes
<1>1. At(p)
  BY DEF Eat
<1>2. ASSUME ~error PROVE Followed(<<q>> \o Tail(stack))
  <2> DEFINE F == MayFollow(p)
  <2>1. Fits(Tail(stack), F) /\ F \subseteq MayFollow(q)
    BY <1>1, <1>2, TailFits
  <2> HIDE DEF F
  <2> QED
    BY <2>1, FitsOne
<1> QED
  BY <1>2, EatLeads

LEMMA EatTwoLeads ==
    ASSUME LeadInv, NEW p, NEW K, NEW q \in Point, NEW r \in Point, Eat(p, K, <<q, r>>),
           MayFollow(p) \subseteq MayFollow(r), r \notin Optional,
           Ahead(r, MayFollow(p)) \subseteq MayFollow(q), q \in Optional => r \in Ends
    PROVE  Goes
<1>1. At(p)
  BY DEF Eat
<1>2. ASSUME ~error PROVE Followed(<<q, r>> \o Tail(stack))
  <2> DEFINE F == MayFollow(p)
  <2>1. Fits(Tail(stack), F) /\ F \subseteq MayFollow(r) /\ Ahead(r, F) \subseteq MayFollow(q)
    BY <1>1, <1>2, TailFits
  <2> HIDE DEF F
  <2> QED
    BY <2>1, FitsTwo
<1> QED
  BY <1>2, EatLeads

LEMMA EatThreeLeads ==
    ASSUME LeadInv, NEW p, NEW K, NEW o \in Point, NEW q \in Point, NEW r \in Point,
           Eat(p, K, <<o, q, r>>),
           MayFollow(p) \subseteq MayFollow(r), r \notin Optional,
           Ahead(r, MayFollow(p)) \subseteq MayFollow(q), q \in Optional => r \in Ends,
           Ahead(q, Ahead(r, MayFollow(p))) \subseteq MayFollow(o), o \notin Optional
    PROVE  Goes
<1>1. At(p)
  BY DEF Eat
<1>2. ASSUME ~error PROVE Followed(<<o, q, r>> \o Tail(stack))
  <2> DEFINE F == MayFollow(p)
  <2>1. /\ Fits(Tail(stack), F) /\ F
             \subseteq MayFollow(r) /\ Ahead(r, F) \subseteq MayFollow(q)
        /\ Ahead(q, Ahead(r, F)) \subseteq MayFollow(o)
    BY <1>1, <1>2, TailFits
  <2> HIDE DEF F
  <2> QED
    BY <2>1, FitsThree
<1> QED
  BY <1>2, EatLeads

LEMMA EatFourLeads ==
    ASSUME LeadInv, NEW p, NEW K, NEW n \in Point, NEW o \in Point, NEW q \in Point,
           NEW r \in Point, Eat(p, K, <<n, o, q, r>>),
           MayFollow(p) \subseteq MayFollow(r), r \notin Optional,
           Ahead(r, MayFollow(p)) \subseteq MayFollow(q), q \in Optional => r \in Ends,
           Ahead(q, Ahead(r, MayFollow(p))) \subseteq MayFollow(o), o \in Optional => q \in Ends,
           Ahead(o, Ahead(q, Ahead(r, MayFollow(p)))) \subseteq MayFollow(n), n \notin Optional
    PROVE  Goes
<1>1. At(p)
  BY DEF Eat
<1>2. ASSUME ~error PROVE Followed(<<n, o, q, r>> \o Tail(stack))
  <2> DEFINE F == MayFollow(p)
  <2>1. /\ Fits(Tail(stack), F) /\ F
             \subseteq MayFollow(r) /\ Ahead(r, F) \subseteq MayFollow(q)
        /\ Ahead(q, Ahead(r, F)) \subseteq MayFollow(o)
        /\ Ahead(o, Ahead(q, Ahead(r, F))) \subseteq MayFollow(n)
    BY <1>1, <1>2, TailFits
  <2> HIDE DEF F
  <2> QED
    BY <2>1, FitsFour
<1> QED
  BY <1>2, EatLeads

-----------------------------------------------------------------------------
(* The same of the entries of the methods *)
LEMMA EntriesStart ==
    /\ "Node" \in Point /\ Starts("Node") = OfNode /\ Skips("Node")
    /\ "Statement" \in Point /\ Starts("Statement") = OfStatement /\ Skips("Statement")
    /\ "ExprStmt" \in Point /\ Starts("ExprStmt") = PrimaryToken /\ ~Skips("ExprStmt")
    /\ "BreakStmt" \in Point /\ Starts("BreakStmt") = {"kw_break"} /\ ~Skips("BreakStmt")
    /\ "ReturnStmt" \in Point /\ Starts("ReturnStmt") = {"kw_return"} /\ ~Skips("ReturnStmt")
    /\ "ReturnValue" \in Point /\ Starts("ReturnValue") = PrimaryToken /\ Skips("ReturnValue")
    /\ "Block" \in Point /\ Starts("Block") = {"l_brace"} /\ ~Skips("Block")
    /\ "ForStmt" \in Point /\ Starts("ForStmt") = {"kw_for"} /\ ~Skips("ForStmt")
    /\ "WhileStmt" \in Point /\ Starts("WhileStmt") = {"kw_while"} /\ ~Skips("WhileStmt")
    /\ "IfStmt" \in Point /\ Starts("IfStmt") = {"kw_if"} /\ ~Skips("IfStmt")
    /\ "ElseStmt" \in Point /\ Starts("ElseStmt") = {"kw_else"} /\ Skips("ElseStmt")
    /\ "FuncStmt" \in Point /\ Starts("FuncStmt") = {"kw_func"} /\ ~Skips("FuncStmt")
    /\ "FuncDecl" \in Point /\ Starts("FuncDecl") = {"kw_func"} /\ ~Skips("FuncDecl")
    /\ "FuncType" \in Point /\ Starts("FuncType") = {"arrow"} /\ Skips("FuncType")
    /\ "Params" \in Point /\ Starts("Params") = {"identifier"} /\ Skips("Params")
    /\ "MoreParams" \in Point /\ Starts("MoreParams") = {"comma"} /\ Skips("MoreParams")
    /\ "ParamDecl" \in Point /\ Starts("ParamDecl") = {"identifier"} /\ ~Skips("ParamDecl")
    /\ "VarDecl" \in Point /\ Starts("VarDecl") = {"kw_let", "kw_var"} /\ ~Skips("VarDecl")
    /\ "DeclValue" \in Point /\ Starts("DeclValue") = {"semi", "assign"} /\ ~Skips("DeclValue")
    /\ "TypeRepr" \in Point /\ Starts("TypeRepr") = {"kw_inout", "identifier"} /\ ~Skips("TypeRepr")
    /\ "IdentType" \in Point /\ Starts("IdentType") = {"identifier"} /\ ~Skips("IdentType")
    /\ "ArrayType" \in Point /\ Starts("ArrayType") = {"l_bracket"} /\ Skips("ArrayType")
    /\ "Expr" \in Point /\ Starts("Expr") = PrimaryToken /\ ~Skips("Expr")
    /\ "Primary" \in Point /\ Starts("Primary") = PrimaryToken /\ ~Skips("Primary")
    /\ "Postfix" \in Point /\ Starts("Postfix") = {"l_paren", "l_bracket"} /\ Skips("Postfix")
    /\ "Items" \in Point /\ Starts("Items") = PrimaryToken /\ Skips("Items")
    /\ "MoreItems" \in Point /\ Starts("MoreItems") = {"comma"} /\ Skips("MoreItems")
<1>1. \A p \in Nonterminal \ {"ValType", "Nodes", "Operands"} :
          p \in Point /\ Starts(p) = Begins[p] /\ (Skips(p) <=> p \in Nullable)
  BY EntryStarts
<1>2. /\ "Node" \in Point /\ Starts("Node") = OfNode /\ Skips("Node")
      /\ "Statement" \in Point /\ Starts("Statement") = OfStatement /\ Skips("Statement")
      /\ "ExprStmt" \in Point /\ Starts("ExprStmt") = PrimaryToken /\ ~Skips("ExprStmt")
      /\ "BreakStmt" \in Point /\ Starts("BreakStmt") = {"kw_break"} /\ ~Skips("BreakStmt")
      /\ "ReturnStmt" \in Point /\ Starts("ReturnStmt") = {"kw_return"} /\ ~Skips("ReturnStmt")
  BY <1>1, NonterminalIs, NullableIs DEF Begins
<1>3. /\ "ReturnValue" \in Point /\ Starts("ReturnValue") = PrimaryToken /\ Skips("ReturnValue")
      /\ "Block" \in Point /\ Starts("Block") = {"l_brace"} /\ ~Skips("Block")
      /\ "ForStmt" \in Point /\ Starts("ForStmt") = {"kw_for"} /\ ~Skips("ForStmt")
      /\ "WhileStmt" \in Point /\ Starts("WhileStmt") = {"kw_while"} /\ ~Skips("WhileStmt")
      /\ "IfStmt" \in Point /\ Starts("IfStmt") = {"kw_if"} /\ ~Skips("IfStmt")
  BY <1>1, NonterminalIs, NullableIs DEF Begins
<1>4. /\ "ElseStmt" \in Point /\ Starts("ElseStmt") = {"kw_else"} /\ Skips("ElseStmt")
      /\ "FuncStmt" \in Point /\ Starts("FuncStmt") = {"kw_func"} /\ ~Skips("FuncStmt")
      /\ "FuncDecl" \in Point /\ Starts("FuncDecl") = {"kw_func"} /\ ~Skips("FuncDecl")
      /\ "FuncType" \in Point /\ Starts("FuncType") = {"arrow"} /\ Skips("FuncType")
      /\ "Params" \in Point /\ Starts("Params") = {"identifier"} /\ Skips("Params")
  BY <1>1, NonterminalIs, NullableIs DEF Begins
<1>5. /\ "MoreParams" \in Point /\ Starts("MoreParams") = {"comma"} /\ Skips("MoreParams")
      /\ "ParamDecl" \in Point /\ Starts("ParamDecl") = {"identifier"} /\ ~Skips("ParamDecl")
      /\ "VarDecl" \in Point /\ Starts("VarDecl") = {"kw_let", "kw_var"} /\ ~Skips("VarDecl")
      /\ "DeclValue" \in Point /\ Starts("DeclValue") = {"semi", "assign"} /\ ~Skips("DeclValue")
      /\ "TypeRepr" \in Point /\ Starts("TypeRepr") = {"kw_inout", "identifier"} /\ ~Skips("TypeRepr")
  BY <1>1, NonterminalIs, NullableIs DEF Begins
<1>6. /\ "IdentType" \in Point /\ Starts("IdentType") = {"identifier"} /\ ~Skips("IdentType")
      /\ "ArrayType" \in Point /\ Starts("ArrayType") = {"l_bracket"} /\ Skips("ArrayType")
      /\ "Expr" \in Point /\ Starts("Expr") = PrimaryToken /\ ~Skips("Expr")
      /\ "Primary" \in Point /\ Starts("Primary") = PrimaryToken /\ ~Skips("Primary")
      /\ "Postfix" \in Point /\ Starts("Postfix") = {"l_paren", "l_bracket"} /\ Skips("Postfix")
  BY <1>1, NonterminalIs, NullableIs DEF Begins
<1>7. /\ "Items" \in Point /\ Starts("Items") = PrimaryToken /\ Skips("Items")
      /\ "MoreItems" \in Point /\ Starts("MoreItems") = {"comma"} /\ Skips("MoreItems")
  BY <1>1, NonterminalIs, NullableIs DEF Begins
<1> QED
  BY <1>2, <1>3, <1>4, <1>5, <1>6, <1>7

(* The methods once more: no step of theirs refuses what is due. *)
LEMMA ParseNodeLeads ==
    ASSUME LeadInv, ParseNode
    PROVE  Goes
<1>1. CASE Go("Node", {"kw_var", "kw_let"}, <<"VarDecl">>)
  <2>1. "VarDecl" \in Point
    BY EntriesStart
  <2>2. /\ MayFollow("Node") \subseteq MayFollow("VarDecl")
        /\ "VarDecl" \notin Optional
    BY TokensAre DEF MayFollow, Listed, Optional, OfNode, OfStatement, PrimaryToken
  <2>3. Tok \in {"kw_var", "kw_let"} /\ At("Node")
    BY <1>1 DEF Go
  <2>4. /\ ~error /\ Tok \in Starts("Node") /\ ~KnownRefusal => Tok \in Starts("VarDecl")
        /\ Skips("Node") => Skips("VarDecl") \/ Tok \in Starts("VarDecl")
    BY <2>3, EntriesStart
       DEF StatementToken, Keyword, OfNode, OfStatement, PrimaryToken
  <2> QED
    BY <1>1, <2>1, <2>2, <2>4, GoOneLeads
<1>2. CASE GoReturn("Node", {"kw_inout"}, "null")
  <2>1. At("Node") /\ Tok \in {"kw_inout"}
    BY <1>2 DEF GoReturn
  <2>2. Tok \notin Starts("Node")
    BY <2>1, EntriesStart
       DEF OfNode, OfStatement, PrimaryToken, AfterPostfix, AfterType, BinaryOperator, Ellipsis
  <2>3. Due => Can(Tok, Tail(stack))
    BY <2>1, <2>2, DueAt
  <2>4. Tok \notin Known
    BY <2>1 DEF Known, StatementOf
  <2> QED
    BY <1>2, <2>3, <2>4, GoBackLeads DEF Listed
<1>3. CASE Go("Node", StatementToken, <<"Statement">>)
  <2>1. "Statement" \in Point
    BY EntriesStart
  <2>2. /\ MayFollow("Node") \subseteq MayFollow("Statement")
        /\ "Statement" \notin Optional
    BY DEF MayFollow, Listed, Optional
  <2>3. Tok \in StatementToken /\ At("Node")
    BY <1>3 DEF Go
  <2>4. /\ ~error /\ Tok \in Starts("Node") /\ ~KnownRefusal => Tok \in Starts("Statement")
        /\ Skips("Node") => Skips("Statement") \/ Tok \in Starts("Statement")
    BY <2>3, EntriesStart
       DEF StatementToken, Keyword, OfNode, OfStatement, PrimaryToken
  <2> QED
    BY <1>3, <2>1, <2>2, <2>4, GoOneLeads
<1>4. CASE GoReturn("Node", {"eof", "r_brace"}, "null")
  <2>1. At("Node") /\ Tok \in {"eof", "r_brace"}
    BY <1>4 DEF GoReturn
  <2>2. Tok \notin Starts("Node")
    BY <2>1, EntriesStart
       DEF OfNode, OfStatement, PrimaryToken, AfterPostfix, AfterType, BinaryOperator, Ellipsis
  <2>3. Due => Can(Tok, Tail(stack))
    BY <2>1, <2>2, DueAt
  <2>4. Tok \notin Known
    BY <2>1 DEF Known, StatementOf
  <2> QED
    BY <1>4, <2>3, <2>4, GoBackLeads DEF Listed
<1>5. CASE EatFail("Node", Keyword \union StatementToken \union {"r_brace"}, "null")
  <2>1. At("Node") /\ Tok # "eof"
    BY <1>5, TokenConsumed DEF EatFail, LeadInv
  <2>2. /\ Tok \in Starts("Node")
             => Tok \in (Keyword \union StatementToken \union {"r_brace"}) \/ KnownRefusal
        /\ Skips("Node") /\ Tok \in MayFollow("Node")
             => Tok \in (Keyword \union StatementToken \union {"r_brace"}) \/ KnownRefusal
    BY <1>5, <2>1, EntriesStart
       DEF MayFollow, Listed, KnownRefusal, StatementToken, Keyword, OfNode,
           OfStatement, PrimaryToken
  <2> QED
    BY <1>5, <2>2, FailLeads
<1> QED
  BY <1>1, <1>2, <1>3, <1>4, <1>5 DEF ParseNode

(* A null of parseStatement() goes to a loop, which takes what is left. *)
LEMMA ParseStatementLeads ==
    ASSUME LeadInv, ParseStatement
    PROVE  Goes
<1>1. CASE Eat("Statement", {"semi"}, <<"Statement">>)
  <2>1. "Statement" \in Point
    BY EntriesStart
  <2>2. MayFollow("Statement") \subseteq MayFollow("Statement") /\ "Statement" \notin Optional
    BY DEF Optional
  <2> QED
    BY <1>1, <2>1, <2>2, EatOneLeads
<1>2. CASE Tok \in DOMAIN StatementOf /\ Go("Statement", {Tok}, <<StatementOf[Tok]>>)
  <2>1. PICK q : q = StatementOf[Tok]
    OBVIOUS
  <2>2. /\ Tok \in {"kw_break", "kw_return", "kw_func", "kw_for", "kw_if", "kw_while",
                     "identifier", "number_literal", "l_bracket", "l_paren"}
        /\ Tok = "kw_break" => q = "BreakStmt"
        /\ Tok = "kw_return" => q = "ReturnStmt"
        /\ Tok = "kw_func" => q = "FuncStmt"
        /\ Tok = "kw_for" => q = "ForStmt"
        /\ Tok = "kw_if" => q = "IfStmt"
        /\ Tok = "kw_while" => q = "WhileStmt"
        /\ Tok \in {"identifier", "number_literal", "l_bracket", "l_paren"} => q = "ExprStmt"
    BY <1>2, <2>1 DEF StatementOf
  <2>3. q \in Point /\ Tok \in Starts(q)
    BY <2>2, EntriesStart DEF PrimaryToken
  <2>4. MayFollow("Statement") \subseteq MayFollow(q) /\ q \notin Optional
    <3>1. q \in {"BreakStmt", "ReturnStmt", "FuncStmt", "ForStmt", "IfStmt", "WhileStmt", "ExprStmt"}
      BY <2>2
    <3>2. MayFollow(q) = Kind /\ q \notin Optional
      BY <3>1 DEF MayFollow, Listed, Optional
    <3>3. MayFollow("Statement") \subseteq Kind
      BY TokensAre DEF MayFollow, Listed, OfNode, OfStatement, PrimaryToken
    <3> QED
      BY <3>2, <3>3
  <2> QED
    BY <1>2, <2>1, <2>3, <2>4, GoOneLeads
<1>3. CASE GoReturn("Statement", Kind \ ({"semi"} \union DOMAIN StatementOf), "null")
  <2>1. At("Statement") /\ Tok \notin Known
    BY <1>3 DEF GoReturn, Known
  <2>2. ASSUME Due
        PROVE  Can(Tok, Tail(stack))
    <3>1. Tok \in Starts("Statement") \/ Can(Tok, Tail(stack))
      BY <2>1, <2>2, DueAt
    <3>2. CASE Tok \in Starts("Statement")
      <4>1. Tok \in OfNode
        BY <3>2, EntriesStart DEF OfNode
      <4>2. Tail(stack) \in Seq(Point) /\ Listing(Tail(stack))
        <5>1. stack \in Seq(Point) /\ stack # <<>> /\ Callers(stack) /\ Head(stack) \in Listed
          BY <2>1 DEF LeadInv, ParseInv, TypeOK, At, Listed
        <5> QED
          BY <5>1, CallersOfTail
      <4>3. CASE Tail(stack) = <<>>
        BY <4>1, <4>3, CanEnd
      <4>4. CASE Tail(stack) # <<>> /\ Head(Tail(stack)) = "BlockNodes"
        <5>1. PICK w \in Seq(Point) : Tail(stack) = <<"BlockNodes">> \o w
          <6>1. Tail(Tail(stack)) \in Seq(Point)
            BY <4>2, <4>4, HeadTailProperties
          <6>2. Tail(stack) = <<"BlockNodes">> \o Tail(Tail(stack))
            BY <4>2, <4>4, ConsOfHead
          <6> QED
            BY <6>1, <6>2
        <5>2. "BlockNodes" \in Point /\ Tok \in Starts("BlockNodes")
          BY <4>1, PointsAre, ListsStart
        <5> QED
          BY <5>1, <5>2, CanCons
      <4> QED
        BY <4>2, <4>3, <4>4 DEF Listing
    <3> QED
      BY <3>1, <3>2
  <2> QED
    BY <1>3, <2>1, <2>2, GoBackLeads DEF Listed
<1> QED
  BY <1>1, <1>2, <1>3 DEF ParseStatement

LEMMA ParseExprStmtLeads ==
    ASSUME LeadInv, ParseExprStmt
    PROVE  Goes
<1>1. CASE Go("ExprStmt", Kind, <<"Expr", "StmtEnd">>)
  <2>1. "Expr" \in Point /\ "StmtEnd" \in Point
    BY EntriesStart, PointsAre
  <2>2. /\ MayFollow("ExprStmt") \subseteq MayFollow("StmtEnd")
        /\ "StmtEnd" \notin Optional
        /\ Ahead("StmtEnd", MayFollow("ExprStmt")) \subseteq MayFollow("Expr")
        /\ "Expr" \in Optional => "StmtEnd" \in Ends
    BY EndsStart
       DEF MayFollow, Listed, Optional, Ends, Ahead, AfterPostfix, AfterType,
           BinaryOperator, Ellipsis, Kind, Keyword, Unknown
  <2>3. Tok \in Kind /\ At("ExprStmt")
    BY <1>1 DEF Go
  <2>4. /\ ~error /\ Tok \in Starts("ExprStmt") /\ ~KnownRefusal
             => Tok \in Starts("Expr") \/ (Skips("Expr") /\ Tok \in Starts("StmtEnd"))
        /\ Skips("ExprStmt") => (Skips("Expr") /\ Skips("StmtEnd")) \/ Tok \in Starts("Expr")
    BY <2>3, EntriesStart, EndsStart
       DEF Kind
  <2> QED
    BY <1>1, <2>1, <2>2, <2>4, GoTwoLeads
<1>2. CASE EatReturn("StmtEnd", {"semi"}, ret)
  <2>1. /\ ret \in {"node", "null", "absent"}
        /\ ret = "null" => error
        /\ ret = "absent" => error
    BY <1>2 DEF EatReturn, At, LeadInv, ParseInv, TypeOK, Listing, Ends
  <2> QED
    BY <1>2, <2>1, EatBackLeads
<1>3. CASE Fail("StmtEnd", {"semi"}, "expected_semicolon", "null")
  <2>1. At("StmtEnd")
    BY <1>3 DEF Fail
  <2>2. /\ Tok \in Starts("StmtEnd") => Tok \in {"semi"} \/ KnownRefusal
        /\ Skips("StmtEnd") /\ Tok \in MayFollow("StmtEnd") => Tok \in {"semi"} \/ KnownRefusal
    BY <1>3, <2>1, EndsStart
       DEF MayFollow
  <2> QED
    BY <1>3, <2>2, FailLeads
<1> QED
  BY <1>1, <1>2, <1>3 DEF ParseExprStmt

LEMMA ParseBreakStmtLeads ==
    ASSUME LeadInv, ParseBreakStmt
    PROVE  Goes
<1>1. CASE Eat("BreakStmt", {"kw_break"}, <<"Semi">>)
  <2>1. "Semi" \in Point
    BY PointsAre
  <2>2. /\ MayFollow("BreakStmt") \subseteq MayFollow("Semi")
        /\ "Semi" \notin Optional
    BY DEF MayFollow, Listed, Optional, Ends, Ahead, AfterPostfix, AfterType,
           BinaryOperator, Ellipsis, Kind, Keyword, Unknown
  <2> QED
    BY <1>1, <2>1, <2>2, EatOneLeads
<1>2. CASE EatReturn("Semi", {"semi"}, "node")
  BY <1>2, EatBackLeads
<1>3. CASE Fail("Semi", {"semi"}, "expected_semicolon", "null")
  <2>1. At("Semi")
    BY <1>3 DEF Fail
  <2>2. /\ Tok \in Starts("Semi") => Tok \in {"semi"} \/ KnownRefusal
        /\ Skips("Semi") /\ Tok \in MayFollow("Semi") => Tok \in {"semi"} \/ KnownRefusal
    BY <1>3, <2>1, EndsStart
       DEF MayFollow
  <2> QED
    BY <1>3, <2>2, FailLeads
<1> QED
  BY <1>1, <1>2, <1>3 DEF ParseBreakStmt

LEMMA ParseReturnStmtLeads ==
    ASSUME LeadInv, ParseReturnStmt
    PROVE  Goes
<1>1. CASE Eat("ReturnStmt", {"kw_return"}, <<"ReturnValue", "Semi">>)
  <2>1. "ReturnValue" \in Point /\ "Semi" \in Point
    BY EntriesStart, PointsAre
  <2>2. /\ MayFollow("ReturnStmt") \subseteq MayFollow("Semi")
        /\ "Semi" \notin Optional
        /\ Ahead("Semi", MayFollow("ReturnStmt")) \subseteq MayFollow("ReturnValue")
        /\ "ReturnValue" \in Optional => "Semi" \in Ends
    BY EndsStart
       DEF MayFollow, Listed, Optional, Ends, Ahead, AfterPostfix, AfterType,
           BinaryOperator, Ellipsis, Kind, Keyword, Unknown
  <2> QED
    BY <1>1, <2>1, <2>2, EatTwoLeads
<1>2. CASE Go("ReturnValue", ReturnedExpr, <<"Expr">>)
  <2>1. "Expr" \in Point
    BY EntriesStart
  <2>2. /\ MayFollow("ReturnValue") \subseteq MayFollow("Expr")
        /\ "Expr" \notin Optional
    BY DEF MayFollow, Listed, Optional, Ends, Ahead, AfterPostfix, AfterType,
           BinaryOperator, Ellipsis, Kind, Keyword, Unknown
  <2>3. Tok \in ReturnedExpr /\ At("ReturnValue")
    BY <1>2 DEF Go
  <2>4. /\ ~error /\ Tok \in Starts("ReturnValue") /\ ~KnownRefusal => Tok \in Starts("Expr")
        /\ Skips("ReturnValue") => Skips("Expr") \/ Tok \in Starts("Expr")
    BY <2>3, EntriesStart
       DEF ReturnedExpr, KnownRefusal, PrimaryToken
  <2> QED
    BY <1>2, <2>1, <2>2, <2>4, GoOneLeads
<1>3. CASE GoReturn("ReturnValue", {"semi"}, "absent")
  <2>1. At("ReturnValue") /\ Tok \in {"semi"}
    BY <1>3 DEF GoReturn
  <2>2. Tok \notin Starts("ReturnValue")
    BY <2>1, EntriesStart
       DEF OfNode, OfStatement, PrimaryToken, AfterPostfix, AfterType, BinaryOperator, Ellipsis
  <2>3. Due => Can(Tok, Tail(stack))
    BY <2>1, <2>2, DueAt
  <2> QED
    BY <1>3, <2>3, GoBackLeads DEF Optional
<1>4. CASE EatFail("ReturnValue", ReturnedExpr \union {"semi"}, "null")
  <2>1. At("ReturnValue")
    BY <1>4 DEF EatFail
  <2>2. /\ Tok \in Starts("ReturnValue")
             => Tok \in (ReturnedExpr \union {"semi"}) \/ KnownRefusal
        /\ Skips("ReturnValue") /\ Tok \in MayFollow("ReturnValue")
             => Tok \in (ReturnedExpr \union {"semi"}) \/ KnownRefusal
    BY <1>4, <2>1, EntriesStart
       DEF MayFollow, KnownRefusal, ReturnedExpr, PrimaryToken
  <2> QED
    BY <1>4, <2>2, FailLeads
<1>5. CASE Tok = "eof" /\ Fail("ReturnValue", {}, "unexpected_token", "null")
  <2>1. At("ReturnValue")
    BY <1>5 DEF Fail
  <2>2. /\ Tok \in Starts("ReturnValue") => Tok \in {} \/ KnownRefusal
        /\ Skips("ReturnValue") /\ Tok \in MayFollow("ReturnValue")
             => Tok \in {} \/ KnownRefusal
    BY <1>5, <2>1, EntriesStart
       DEF MayFollow, KnownRefusal, ReturnedExpr, PrimaryToken
  <2> QED
    BY <1>5, <2>2, FailLeads
<1> QED
  BY <1>1, <1>2, <1>3, <1>4, <1>5 DEF ParseReturnStmt

LEMMA ParseBlockLeads ==
    ASSUME LeadInv, ParseBlock
    PROVE  Goes
<1>1. CASE Eat("Block", {"l_brace"}, <<"Node", "BlockNodes">>)
  <2>1. "Node" \in Point /\ "BlockNodes" \in Point
    BY EntriesStart, PointsAre
  <2>2. /\ MayFollow("Block") \subseteq MayFollow("BlockNodes")
        /\ "BlockNodes" \notin Optional
        /\ Ahead("BlockNodes", MayFollow("Block")) \subseteq MayFollow("Node")
        /\ "Node" \in Optional => "BlockNodes" \in Ends
    BY ListsStart
       DEF MayFollow, Listed, Optional, Ends, Ahead, AfterPostfix, AfterType,
           BinaryOperator, Ellipsis, Kind, Keyword, Unknown
  <2> QED
    BY <1>1, <2>1, <2>2, EatTwoLeads
<1>2. CASE ret = "node" /\ Go("BlockNodes", Kind, <<"Node", "BlockNodes">>)
  <2>1. "Node" \in Point /\ "BlockNodes" \in Point
    BY EntriesStart, PointsAre
  <2>2. /\ MayFollow("BlockNodes") \subseteq MayFollow("BlockNodes")
        /\ "BlockNodes" \notin Optional
        /\ Ahead("BlockNodes", MayFollow("BlockNodes")) \subseteq MayFollow("Node")
        /\ "Node" \in Optional => "BlockNodes" \in Ends
    BY ListsStart
       DEF MayFollow, Listed, Optional, Ends, Ahead, AfterPostfix, AfterType,
           BinaryOperator, Ellipsis, Kind, Keyword, Unknown
  <2>3. Tok \in Kind /\ At("BlockNodes")
    BY <1>2 DEF Go
  <2>4. /\ ~error /\ Tok \in Starts("BlockNodes") /\ ~KnownRefusal
             => Tok \in Starts("Node") \/ (Skips("Node") /\ Tok \in Starts("BlockNodes"))
        /\ Skips("BlockNodes")
             => (Skips("Node") /\ Skips("BlockNodes")) \/ Tok \in Starts("Node")
    BY <2>3, ListsStart, EntriesStart
       DEF OfNode
  <2> QED
    BY <1>2, <2>1, <2>2, <2>4, GoTwoLeads
<1>3. CASE ret # "node" /\ Go("BlockNodes", Kind, <<"RBrace">>)
  <2>1. "RBrace" \in Point
    BY PointsAre
  <2>2. /\ MayFollow("BlockNodes") \subseteq MayFollow("RBrace")
        /\ "RBrace" \notin Optional
    BY DEF MayFollow, Listed, Optional, Ends, Ahead, AfterPostfix, AfterType,
           BinaryOperator, Ellipsis, Kind, Keyword, Unknown
  <2>3. Tok \in Kind /\ At("BlockNodes")
    BY <1>3 DEF Go
  <2>4. ~error => Tok \notin Known
    BY <1>3, <2>3 DEF LeadInv
  <2>5. /\ ~error /\ Tok \in Starts("BlockNodes") /\ ~KnownRefusal => Tok \in Starts("RBrace")
        /\ Skips("BlockNodes") => Skips("RBrace") \/ Tok \in Starts("RBrace")
    BY <2>3, <2>4, ListsStart, EndsStart
       DEF KnownRefusal, OfNode, OfStatement, PrimaryToken, Known, StatementOf
  <2> QED
    BY <1>3, <2>1, <2>2, <2>5, GoOneLeads
<1>4. CASE EatReturn("RBrace", {"r_brace"}, "node")
  BY <1>4, EatBackLeads
<1>5. CASE Fail("RBrace", {"r_brace"}, "expected_r_brace", "null")
  <2>1. At("RBrace")
    BY <1>5 DEF Fail
  <2>2. /\ Tok \in Starts("RBrace") => Tok \in {"r_brace"} \/ KnownRefusal
        /\ Skips("RBrace") /\ Tok \in MayFollow("RBrace")
             => Tok \in {"r_brace"} \/ KnownRefusal
    BY <1>5, <2>1, EndsStart
       DEF MayFollow
  <2> QED
    BY <1>5, <2>2, FailLeads
<1> QED
  BY <1>1, <1>2, <1>3, <1>4, <1>5 DEF ParseBlock

LEMMA BuiltLeads ==
    ASSUME LeadInv, Built
    PROVE  Goes
<1>1. CASE GoReturn("Built", Kind, "node")
  <2>1. At("Built") /\ Tok \in Kind
    BY <1>1 DEF GoReturn
  <2>2. Tok \notin Starts("Built")
    BY <2>1, ListsStart
       DEF OfNode, OfStatement, PrimaryToken, AfterPostfix, AfterType, BinaryOperator, Ellipsis
  <2>3. Due => Can(Tok, Tail(stack))
    BY <2>1, <2>2, DueAt
  <2> QED
    BY <1>1, <2>3, GoBackLeads
<1> QED
  BY <1>1 DEF Built

LEMMA ParseFuncStmtLeads ==
    ASSUME LeadInv, ParseFuncStmt
    PROVE  Goes
<1>1. CASE Go("FuncStmt", {"kw_func"}, <<"FuncDecl", "FuncBody">>)
  <2>1. "FuncDecl" \in Point /\ "FuncBody" \in Point
    BY EntriesStart, PointsAre
  <2>2. /\ MayFollow("FuncStmt") \subseteq MayFollow("FuncBody")
        /\ "FuncBody" \notin Optional
        /\ Ahead("FuncBody", MayFollow("FuncStmt")) \subseteq MayFollow("FuncDecl")
        /\ "FuncDecl" \in Optional => "FuncBody" \in Ends
    BY PartsStart
       DEF MayFollow, Listed, Optional, Ends, Ahead, AfterPostfix, AfterType,
           BinaryOperator, Ellipsis, Kind, Keyword, Unknown
  <2>3. Tok \in {"kw_func"} /\ At("FuncStmt")
    BY <1>1 DEF Go
  <2>4. /\ ~error /\ Tok \in Starts("FuncStmt") /\ ~KnownRefusal
             => Tok \in Starts("FuncDecl") \/ (Skips("FuncDecl") /\ Tok \in Starts("FuncBody"))
        /\ Skips("FuncStmt")
             => (Skips("FuncDecl") /\ Skips("FuncBody")) \/ Tok \in Starts("FuncDecl")
    BY <2>3, EntriesStart, PartsStart
       DEF Kind
  <2> QED
    BY <1>1, <2>1, <2>2, <2>4, GoTwoLeads
<1>2. CASE Go("FuncBody", {"l_brace"}, <<"Block", "Built">>)
  <2>1. "Block" \in Point /\ "Built" \in Point
    BY EntriesStart, PointsAre
  <2>2. /\ MayFollow("FuncBody") \subseteq MayFollow("Built")
        /\ "Built" \notin Optional
        /\ Ahead("Built", MayFollow("FuncBody")) \subseteq MayFollow("Block")
        /\ "Block" \in Optional => "Built" \in Ends
    BY ListsStart
       DEF MayFollow, Listed, Optional, Ends, Ahead, AfterPostfix, AfterType,
           BinaryOperator, Ellipsis, Kind, Keyword, Unknown
  <2>3. Tok \in {"l_brace"} /\ At("FuncBody")
    BY <1>2 DEF Go
  <2>4. /\ ~error /\ Tok \in Starts("FuncBody") /\ ~KnownRefusal
             => Tok \in Starts("Block") \/ (Skips("Block") /\ Tok \in Starts("Built"))
        /\ Skips("FuncBody") => (Skips("Block") /\ Skips("Built")) \/ Tok \in Starts("Block")
    BY <2>3, PartsStart, EntriesStart, ListsStart
       DEF Kind
  <2> QED
    BY <1>2, <2>1, <2>2, <2>4, GoTwoLeads
<1>3. CASE Fail("FuncBody", {"l_brace"}, "expected_l_brace", "null")
  <2>1. At("FuncBody")
    BY <1>3 DEF Fail
  <2>2. /\ Tok \in Starts("FuncBody") => Tok \in {"l_brace"} \/ KnownRefusal
        /\ Skips("FuncBody") /\ Tok \in MayFollow("FuncBody")
             => Tok \in {"l_brace"} \/ KnownRefusal
    BY <1>3, <2>1, PartsStart
       DEF MayFollow
  <2> QED
    BY <1>3, <2>2, FailLeads
<1> QED
  BY <1>1, <1>2, <1>3 DEF ParseFuncStmt

LEMMA ParseForStmtLeads ==
    ASSUME LeadInv, ParseForStmt
    PROVE  Goes
<1>1. CASE Eat("ForStmt", {"kw_for"}, <<"ForName">>)
  <2>1. "ForName" \in Point
    BY PointsAre
  <2>2. /\ MayFollow("ForStmt") \subseteq MayFollow("ForName")
        /\ "ForName" \notin Optional
    BY DEF MayFollow, Listed, Optional, Ends, Ahead, AfterPostfix, AfterType,
           BinaryOperator, Ellipsis, Kind, Keyword, Unknown
  <2> QED
    BY <1>1, <2>1, <2>2, EatOneLeads
<1>2. CASE Eat("ForName", {"identifier"}, <<"ForIn">>)
  <2>1. "ForIn" \in Point
    BY PointsAre
  <2>2. /\ MayFollow("ForName") \subseteq MayFollow("ForIn")
        /\ "ForIn" \notin Optional
    BY DEF MayFollow, Listed, Optional, Ends, Ahead, AfterPostfix, AfterType,
           BinaryOperator, Ellipsis, Kind, Keyword, Unknown
  <2> QED
    BY <1>2, <2>1, <2>2, EatOneLeads
<1>3. CASE Fail("ForName", {"identifier"}, "expected_identifier", "null")
  <2>1. At("ForName")
    BY <1>3 DEF Fail
  <2>2. /\ Tok \in Starts("ForName") => Tok \in {"identifier"} \/ KnownRefusal
        /\ Skips("ForName") /\ Tok \in MayFollow("ForName")
             => Tok \in {"identifier"} \/ KnownRefusal
    BY <1>3, <2>1, EndsStart
       DEF MayFollow
  <2> QED
    BY <1>3, <2>2, FailLeads
<1>4. CASE Eat("ForIn", {"kw_in"}, <<"Expr", "RangeOp", "ForBody">>)
  <2>1. "Expr" \in Point /\ "RangeOp" \in Point /\ "ForBody" \in Point
    BY EntriesStart, PointsAre
  <2>2. /\ MayFollow("ForIn") \subseteq MayFollow("ForBody")
        /\ "ForBody" \notin Optional
        /\ Ahead("ForBody", MayFollow("ForIn")) \subseteq MayFollow("RangeOp")
        /\ "RangeOp" \in Optional => "ForBody" \in Ends
        /\ Ahead("RangeOp", Ahead("ForBody", MayFollow("ForIn"))) \subseteq MayFollow("Expr")
        /\ "Expr" \notin Optional
    BY EndsStart, PartsStart
       DEF MayFollow, Listed, Optional, Ends, Ahead, AfterPostfix, AfterType,
           BinaryOperator, Ellipsis, Kind, Keyword, Unknown
  <2> QED
    BY <1>4, <2>1, <2>2, EatThreeLeads
<1>5. CASE Fail("ForIn", {"kw_in"}, "expected_in_kw", "null")
  <2>1. At("ForIn")
    BY <1>5 DEF Fail
  <2>2. /\ Tok \in Starts("ForIn") => Tok \in {"kw_in"} \/ KnownRefusal
        /\ Skips("ForIn") /\ Tok \in MayFollow("ForIn") => Tok \in {"kw_in"} \/ KnownRefusal
    BY <1>5, <2>1, EndsStart
       DEF MayFollow
  <2> QED
    BY <1>5, <2>2, FailLeads
<1>6. CASE Go("ForBody", {"l_brace"}, <<"Block", "Built">>)
  <2>1. "Block" \in Point /\ "Built" \in Point
    BY EntriesStart, PointsAre
  <2>2. /\ MayFollow("ForBody") \subseteq MayFollow("Built")
        /\ "Built" \notin Optional
        /\ Ahead("Built", MayFollow("ForBody")) \subseteq MayFollow("Block")
        /\ "Block" \in Optional => "Built" \in Ends
    BY ListsStart
       DEF MayFollow, Listed, Optional, Ends, Ahead, AfterPostfix, AfterType,
           BinaryOperator, Ellipsis, Kind, Keyword, Unknown
  <2>3. Tok \in {"l_brace"} /\ At("ForBody")
    BY <1>6 DEF Go
  <2>4. /\ ~error /\ Tok \in Starts("ForBody") /\ ~KnownRefusal
             => Tok \in Starts("Block") \/ (Skips("Block") /\ Tok \in Starts("Built"))
        /\ Skips("ForBody") => (Skips("Block") /\ Skips("Built")) \/ Tok \in Starts("Block")
    BY <2>3, PartsStart, EntriesStart, ListsStart
       DEF Kind
  <2> QED
    BY <1>6, <2>1, <2>2, <2>4, GoTwoLeads
<1>7. CASE Fail("ForBody", {"l_brace"}, "unexpected_token", "null")
  <2>1. At("ForBody")
    BY <1>7 DEF Fail
  <2>2. /\ Tok \in Starts("ForBody") => Tok \in {"l_brace"} \/ KnownRefusal
        /\ Skips("ForBody") /\ Tok \in MayFollow("ForBody")
             => Tok \in {"l_brace"} \/ KnownRefusal
    BY <1>7, <2>1, PartsStart
       DEF MayFollow
  <2> QED
    BY <1>7, <2>2, FailLeads
<1> QED
  BY <1>1, <1>2, <1>3, <1>4, <1>5, <1>6, <1>7 DEF ParseForStmt

LEMMA ParseRangeStmtLeads ==
    ASSUME LeadInv, ParseRangeStmt
    PROVE  Goes
<1>1. CASE Eat("RangeOp", Ellipsis, <<"Expr", "Built">>)
  <2>1. "Expr" \in Point /\ "Built" \in Point
    BY EntriesStart, PointsAre
  <2>2. /\ MayFollow("RangeOp") \subseteq MayFollow("Built")
        /\ "Built" \notin Optional
        /\ Ahead("Built", MayFollow("RangeOp")) \subseteq MayFollow("Expr")
        /\ "Expr" \in Optional => "Built" \in Ends
    BY ListsStart
       DEF MayFollow, Listed, Optional, Ends, Ahead, AfterPostfix, AfterType,
           BinaryOperator, Ellipsis, Kind, Keyword, Unknown
  <2> QED
    BY <1>1, <2>1, <2>2, EatTwoLeads
<1>2. CASE Fail("RangeOp", Ellipsis, "expected_ellipsis", "null")
  <2>1. At("RangeOp")
    BY <1>2 DEF Fail
  <2>2. /\ Tok \in Starts("RangeOp") => Tok \in Ellipsis \/ KnownRefusal
        /\ Skips("RangeOp") /\ Tok \in MayFollow("RangeOp") => Tok \in Ellipsis \/ KnownRefusal
    BY <1>2, <2>1, EndsStart
       DEF MayFollow
  <2> QED
    BY <1>2, <2>2, FailLeads
<1> QED
  BY <1>1, <1>2 DEF ParseRangeStmt

LEMMA ParseWhileStmtLeads ==
    ASSUME LeadInv, ParseWhileStmt
    PROVE  Goes
<1>1. CASE Eat("WhileStmt", {"kw_while"}, <<"Expr", "Block", "Built">>)
  <2>1. "Expr" \in Point /\ "Block" \in Point /\ "Built" \in Point
    BY EntriesStart, PointsAre
  <2>2. /\ MayFollow("WhileStmt") \subseteq MayFollow("Built")
        /\ "Built" \notin Optional
        /\ Ahead("Built", MayFollow("WhileStmt")) \subseteq MayFollow("Block")
        /\ "Block" \in Optional => "Built" \in Ends
        /\ Ahead("Block", Ahead("Built", MayFollow("WhileStmt"))) \subseteq MayFollow("Expr")
        /\ "Expr" \notin Optional
    BY EntriesStart, ListsStart
       DEF MayFollow, Listed, Optional, Ends, Ahead, AfterPostfix, AfterType,
           BinaryOperator, Ellipsis, Kind, Keyword, Unknown
  <2> QED
    BY <1>1, <2>1, <2>2, EatThreeLeads
<1> QED
  BY <1>1 DEF ParseWhileStmt

LEMMA ParseIfStmtLeads ==
    ASSUME LeadInv, ParseIfStmt
    PROVE  Goes
<1>1. CASE Eat("IfStmt", {"kw_if"}, <<"Expr", "Block", "ElseStmt", "Built">>)
  <2>1. "Expr" \in Point /\ "Block" \in Point /\ "ElseStmt" \in Point /\ "Built" \in Point
    BY EntriesStart, PointsAre
  <2>2. /\ MayFollow("IfStmt") \subseteq MayFollow("Built")
        /\ "Built" \notin Optional
        /\ Ahead("Built", MayFollow("IfStmt")) \subseteq MayFollow("ElseStmt")
        /\ "ElseStmt" \in Optional => "Built" \in Ends
        /\ Ahead("ElseStmt", Ahead("Built", MayFollow("IfStmt"))) \subseteq MayFollow("Block")
        /\ "Block" \in Optional => "ElseStmt" \in Ends
        /\ Ahead("Block", Ahead("ElseStmt", Ahead("Built", MayFollow("IfStmt"))))
             \subseteq MayFollow("Expr")
        /\ "Expr" \notin Optional
    BY EntriesStart, ListsStart
       DEF MayFollow, Listed, Optional, Ends, Ahead, AfterPostfix, AfterType,
           BinaryOperator, Ellipsis, Kind, Keyword, Unknown
  <2> QED
    BY <1>1, <2>1, <2>2, EatFourLeads
<1> QED
  BY <1>1 DEF ParseIfStmt

LEMMA ParseElseStmtLeads ==
    ASSUME LeadInv, ParseElseStmt
    PROVE  Goes
<1>1. CASE Eat("ElseStmt", {"kw_else"}, <<"Block">>)
  <2>1. "Block" \in Point
    BY EntriesStart
  <2>2. /\ MayFollow("ElseStmt") \subseteq MayFollow("Block")
        /\ "Block" \notin Optional
    BY DEF MayFollow, Listed, Optional, Ends, Ahead, AfterPostfix, AfterType,
           BinaryOperator, Ellipsis, Kind, Keyword, Unknown
  <2> QED
    BY <1>1, <2>1, <2>2, EatOneLeads
<1>2. CASE GoReturn("ElseStmt", Kind \ {"kw_else"}, "absent")
  <2>1. At("ElseStmt") /\ Tok \in Kind \ {"kw_else"}
    BY <1>2 DEF GoReturn
  <2>2. Tok \notin Starts("ElseStmt")
    BY <2>1, EntriesStart
       DEF OfNode, OfStatement, PrimaryToken, AfterPostfix, AfterType, BinaryOperator, Ellipsis
  <2>3. Due => Can(Tok, Tail(stack))
    BY <2>1, <2>2, DueAt
  <2> QED
    BY <1>2, <2>3, GoBackLeads DEF Optional
<1> QED
  BY <1>1, <1>2 DEF ParseElseStmt

LEMMA ParseVarDeclLeads ==
    ASSUME LeadInv, ParseVarDecl
    PROVE  Goes
<1>1. CASE Eat("VarDecl", {"kw_var", "kw_let"}, <<"DeclName">>)
  <2>1. "DeclName" \in Point
    BY PointsAre
  <2>2. /\ MayFollow("VarDecl") \subseteq MayFollow("DeclName")
        /\ "DeclName" \notin Optional
    BY DEF MayFollow, Listed, Optional, Ends, Ahead, AfterPostfix, AfterType,
           BinaryOperator, Ellipsis, Kind, Keyword, Unknown
  <2> QED
    BY <1>1, <2>1, <2>2, EatOneLeads
<1>2. CASE Eat("DeclName", {"identifier"}, <<"ValType">>)
  <2>1. "ValType" \in Point
    BY PointsAre
  <2>2. /\ MayFollow("DeclName") \subseteq MayFollow("ValType")
        /\ "ValType" \notin Optional
    BY DEF MayFollow, Listed, Optional, Ends, Ahead, AfterPostfix, AfterType,
           BinaryOperator, Ellipsis, Kind, Keyword, Unknown
  <2> QED
    BY <1>2, <2>1, <2>2, EatOneLeads
<1>3. CASE Fail("DeclName", {"identifier"}, "expected_identifier", "null")
  <2>1. At("DeclName")
    BY <1>3 DEF Fail
  <2>2. /\ Tok \in Starts("DeclName") => Tok \in {"identifier"} \/ KnownRefusal
        /\ Skips("DeclName") /\ Tok \in MayFollow("DeclName")
             => Tok \in {"identifier"} \/ KnownRefusal
    BY <1>3, <2>1, EndsStart
       DEF MayFollow
  <2> QED
    BY <1>3, <2>2, FailLeads
<1>4. CASE Eat("ValType", {"colon"}, <<"TypeRepr", "DeclInit">>)
  <2>1. "TypeRepr" \in Point /\ "DeclInit" \in Point
    BY EntriesStart, PointsAre
  <2>2. /\ MayFollow("ValType") \subseteq MayFollow("DeclInit")
        /\ "DeclInit" \notin Optional
        /\ Ahead("DeclInit", MayFollow("ValType")) \subseteq MayFollow("TypeRepr")
        /\ "TypeRepr" \in Optional => "DeclInit" \in Ends
    BY PartsStart
       DEF MayFollow, Listed, Optional, Ends, Ahead, AfterPostfix, AfterType,
           BinaryOperator, Ellipsis, Kind, Keyword, Unknown
  <2> QED
    BY <1>4, <2>1, <2>2, EatTwoLeads
<1>5. CASE Go("ValType", Kind \ {"colon"}, <<"DeclValue", "Built">>)
  <2>1. "DeclValue" \in Point /\ "Built" \in Point
    BY EntriesStart, PointsAre
  <2>2. /\ MayFollow("ValType") \subseteq MayFollow("Built")
        /\ "Built" \notin Optional
        /\ Ahead("Built", MayFollow("ValType")) \subseteq MayFollow("DeclValue")
        /\ "DeclValue" \in Optional => "Built" \in Ends
    BY ListsStart
       DEF MayFollow, Listed, Optional, Ends, Ahead, AfterPostfix, AfterType,
           BinaryOperator, Ellipsis, Kind, Keyword, Unknown
  <2>3. Tok \in Kind \ {"colon"} /\ At("ValType")
    BY <1>5 DEF Go
  <2>4. /\ ~error /\ Tok \in Starts("ValType") /\ ~KnownRefusal
             => Tok \in Starts("DeclValue") \/ (Skips("DeclValue") /\ Tok \in Starts("Built"))
        /\ Skips("ValType")
             => (Skips("DeclValue") /\ Skips("Built")) \/ Tok \in Starts("DeclValue")
    BY <2>3, ListsStart, EntriesStart
       DEF Kind
  <2> QED
    BY <1>5, <2>1, <2>2, <2>4, GoTwoLeads
<1>6. CASE ret = "null" /\ GoReturn("DeclInit", Kind, "null")
  <2>1. At("DeclInit") /\ Tok \in Kind
    BY <1>6 DEF GoReturn
  <2>2. error
    BY <1>6 DEF GoReturn, At, LeadInv, ParseInv, Listing
  <2>3. ~Due
    BY <2>2, FormIs DEF Due
  <2> QED
    BY <1>6, <2>2, <2>3, GoBackLeads
<1>7. CASE ret # "null" /\ Go("DeclInit", Kind, <<"DeclValue", "Built">>)
  <2>1. "DeclValue" \in Point /\ "Built" \in Point
    BY EntriesStart, PointsAre
  <2>2. /\ MayFollow("DeclInit") \subseteq MayFollow("Built")
        /\ "Built" \notin Optional
        /\ Ahead("Built", MayFollow("DeclInit")) \subseteq MayFollow("DeclValue")
        /\ "DeclValue" \in Optional => "Built" \in Ends
    BY ListsStart
       DEF MayFollow, Listed, Optional, Ends, Ahead, AfterPostfix, AfterType,
           BinaryOperator, Ellipsis, Kind, Keyword, Unknown
  <2>3. Tok \in Kind /\ At("DeclInit")
    BY <1>7 DEF Go
  <2>4. /\ ~error /\ Tok \in Starts("DeclInit") /\ ~KnownRefusal
             => Tok \in Starts("DeclValue") \/ (Skips("DeclValue") /\ Tok \in Starts("Built"))
        /\ Skips("DeclInit")
             => (Skips("DeclValue") /\ Skips("Built")) \/ Tok \in Starts("DeclValue")
    BY <2>3, PartsStart, EntriesStart, ListsStart
       DEF Kind
  <2> QED
    BY <1>7, <2>1, <2>2, <2>4, GoTwoLeads
<1> QED
  BY <1>1, <1>2, <1>3, <1>4, <1>5, <1>6, <1>7 DEF ParseVarDecl

LEMMA ParseDeclValueLeads ==
    ASSUME LeadInv, ParseDeclValue
    PROVE  Goes
<1>1. CASE EatReturn("DeclValue", {"semi"}, "absent")
  BY <1>1, EatBackLeads DEF Optional
<1>2. CASE Eat("DeclValue", {"assign"}, <<"Expr", "StmtEnd">>)
  <2>1. "Expr" \in Point /\ "StmtEnd" \in Point
    BY EntriesStart, PointsAre
  <2>2. /\ MayFollow("DeclValue") \subseteq MayFollow("StmtEnd")
        /\ "StmtEnd" \notin Optional
        /\ Ahead("StmtEnd", MayFollow("DeclValue")) \subseteq MayFollow("Expr")
        /\ "Expr" \in Optional => "StmtEnd" \in Ends
    BY EndsStart
       DEF MayFollow, Listed, Optional, Ends, Ahead, AfterPostfix, AfterType,
           BinaryOperator, Ellipsis, Kind, Keyword, Unknown
  <2> QED
    BY <1>2, <2>1, <2>2, EatTwoLeads
<1>3. CASE Fail("DeclValue", {"semi", "assign"}, "expected_identifier", "null")
  <2>1. At("DeclValue")
    BY <1>3 DEF Fail
  <2>2. /\ Tok \in Starts("DeclValue") => Tok \in {"semi", "assign"} \/ KnownRefusal
        /\ Skips("DeclValue") /\ Tok \in MayFollow("DeclValue")
             => Tok \in {"semi", "assign"} \/ KnownRefusal
    BY <1>3, <2>1, EntriesStart
       DEF MayFollow
  <2> QED
    BY <1>3, <2>2, FailLeads
<1> QED
  BY <1>1, <1>2, <1>3 DEF ParseDeclValue

LEMMA ParseFuncDeclLeads ==
    ASSUME LeadInv, ParseFuncDecl
    PROVE  Goes
<1>1. CASE Eat("FuncDecl", {"kw_func"}, <<"FuncName">>)
  <2>1. "FuncName" \in Point
    BY PointsAre
  <2>2. /\ MayFollow("FuncDecl") \subseteq MayFollow("FuncName")
        /\ "FuncName" \notin Optional
    BY DEF MayFollow, Listed, Optional, Ends, Ahead, AfterPostfix, AfterType,
           BinaryOperator, Ellipsis, Kind, Keyword, Unknown
  <2> QED
    BY <1>1, <2>1, <2>2, EatOneLeads
<1>2. CASE Eat("FuncName", {"identifier"}, <<"VarPattern", "FuncType", "Built">>)
  <2>1. "VarPattern" \in Point /\ "FuncType" \in Point /\ "Built" \in Point
    BY PointsAre, EntriesStart
  <2>2. /\ MayFollow("FuncName") \subseteq MayFollow("Built")
        /\ "Built" \notin Optional
        /\ Ahead("Built", MayFollow("FuncName")) \subseteq MayFollow("FuncType")
        /\ "FuncType" \in Optional => "Built" \in Ends
        /\ Ahead("FuncType", Ahead("Built", MayFollow("FuncName")))
             \subseteq MayFollow("VarPattern")
        /\ "VarPattern" \notin Optional
    BY EntriesStart, ListsStart
       DEF MayFollow, Listed, Optional, Ends, Ahead, AfterPostfix, AfterType,
           BinaryOperator, Ellipsis, Kind, Keyword, Unknown
  <2> QED
    BY <1>2, <2>1, <2>2, EatThreeLeads
<1>3. CASE Fail("FuncName", {"identifier"}, "expected_identifier", "null")
  <2>1. At("FuncName")
    BY <1>3 DEF Fail
  <2>2. /\ Tok \in Starts("FuncName") => Tok \in {"identifier"} \/ KnownRefusal
        /\ Skips("FuncName") /\ Tok \in MayFollow("FuncName")
             => Tok \in {"identifier"} \/ KnownRefusal
    BY <1>3, <2>1, EndsStart
       DEF MayFollow
  <2> QED
    BY <1>3, <2>2, FailLeads
<1> QED
  BY <1>1, <1>2, <1>3 DEF ParseFuncDecl

LEMMA ParseFuncDeclTypeLeads ==
    ASSUME LeadInv, ParseFuncDeclType
    PROVE  Goes
<1>1. CASE GoReturn("FuncType", {"l_brace", "semi"}, "absent")
  <2>1. At("FuncType") /\ Tok \in {"l_brace", "semi"}
    BY <1>1 DEF GoReturn
  <2>2. Tok \notin Starts("FuncType")
    BY <2>1, EntriesStart
       DEF OfNode, OfStatement, PrimaryToken, AfterPostfix, AfterType, BinaryOperator, Ellipsis
  <2>3. Due => Can(Tok, Tail(stack))
    BY <2>1, <2>2, DueAt
  <2> QED
    BY <1>1, <2>3, GoBackLeads DEF Optional
<1>2. CASE Eat("FuncType", {"arrow"}, <<"ResultType">>)
  <2>1. "ResultType" \in Point
    BY PointsAre
  <2>2. /\ MayFollow("FuncType") \subseteq MayFollow("ResultType")
        /\ "ResultType" \notin Optional
    BY DEF MayFollow, Listed, Optional, Ends, Ahead, AfterPostfix, AfterType,
           BinaryOperator, Ellipsis, Kind, Keyword, Unknown
  <2> QED
    BY <1>2, <2>1, <2>2, EatOneLeads
<1>3. CASE Fail("FuncType", {"l_brace", "semi", "arrow"}, "expected_return_type", "null")
  <2>1. At("FuncType")
    BY <1>3 DEF Fail
  <2>2. /\ Tok \in Starts("FuncType") => Tok \in {"l_brace", "semi", "arrow"} \/ KnownRefusal
        /\ Skips("FuncType") /\ Tok \in MayFollow("FuncType")
             => Tok \in {"l_brace", "semi", "arrow"} \/ KnownRefusal
    BY <1>3, <2>1, EntriesStart
       DEF MayFollow
  <2> QED
    BY <1>3, <2>2, FailLeads
<1>4. CASE Go("ResultType", {"identifier"}, <<"TypeRepr">>)
  <2>1. "TypeRepr" \in Point
    BY EntriesStart
  <2>2. /\ MayFollow("ResultType") \subseteq MayFollow("TypeRepr")
        /\ "TypeRepr" \notin Optional
    BY DEF MayFollow, Listed, Optional, Ends, Ahead, AfterPostfix, AfterType,
           BinaryOperator, Ellipsis, Kind, Keyword, Unknown
  <2>3. Tok \in {"identifier"} /\ At("ResultType")
    BY <1>4 DEF Go
  <2>4. /\ ~error /\ Tok \in Starts("ResultType") /\ ~KnownRefusal
             => Tok \in Starts("TypeRepr")
        /\ Skips("ResultType") => Skips("TypeRepr") \/ Tok \in Starts("TypeRepr")
    BY <2>3, PartsStart, EntriesStart
       DEF Kind
  <2> QED
    BY <1>4, <2>1, <2>2, <2>4, GoOneLeads
<1>5. CASE Fail("ResultType", {"identifier"}, "expected_type_specifier", "null")
  <2>1. At("ResultType")
    BY <1>5 DEF Fail
  <2>2. /\ Tok \in Starts("ResultType") => Tok \in {"identifier"} \/ KnownRefusal
        /\ Skips("ResultType") /\ Tok \in MayFollow("ResultType")
             => Tok \in {"identifier"} \/ KnownRefusal
    BY <1>5, <2>1, PartsStart
       DEF MayFollow, KnownRefusal
  <2> QED
    BY <1>5, <2>2, FailLeads
<1> QED
  BY <1>1, <1>2, <1>3, <1>4, <1>5 DEF ParseFuncDeclType

LEMMA ParseParamDeclLeads ==
    ASSUME LeadInv, ParseParamDecl
    PROVE  Goes
<1>1. CASE Eat("ParamDecl", {"identifier", "kw_inout"}, <<"ParamType">>)
  <2>1. "ParamType" \in Point
    BY PointsAre
  <2>2. /\ MayFollow("ParamDecl") \subseteq MayFollow("ParamType")
        /\ "ParamType" \notin Optional
    BY DEF MayFollow, Listed, Optional, Ends, Ahead, AfterPostfix, AfterType,
           BinaryOperator, Ellipsis, Kind, Keyword, Unknown
  <2> QED
    BY <1>1, <2>1, <2>2, EatOneLeads
<1>2. CASE Eat("ParamType", {"colon"}, <<"TypeRepr">>)
  <2>1. "TypeRepr" \in Point
    BY EntriesStart
  <2>2. /\ MayFollow("ParamType") \subseteq MayFollow("TypeRepr")
        /\ "TypeRepr" \notin Optional
    BY DEF MayFollow, Listed, Optional, Ends, Ahead, AfterPostfix, AfterType,
           BinaryOperator, Ellipsis, Kind, Keyword, Unknown
  <2> QED
    BY <1>2, <2>1, <2>2, EatOneLeads
<1>3. CASE Fail("ParamType", {"colon"}, "expected_type_annotation", "null")
  <2>1. At("ParamType")
    BY <1>3 DEF Fail
  <2>2. /\ Tok \in Starts("ParamType") => Tok \in {"colon"} \/ KnownRefusal
        /\ Skips("ParamType") /\ Tok \in MayFollow("ParamType")
             => Tok \in {"colon"} \/ KnownRefusal
    BY <1>3, <2>1, EndsStart
       DEF MayFollow
  <2> QED
    BY <1>3, <2>2, FailLeads
<1> QED
  BY <1>1, <1>2, <1>3 DEF ParseParamDecl

LEMMA ParseVarPatternLeads ==
    ASSUME LeadInv, ParseVarPattern
    PROVE  Goes
<1>1. CASE Eat("VarPattern", {"l_paren"}, <<"Params", "RParen">>)
  <2>1. "Params" \in Point /\ "RParen" \in Point
    BY EntriesStart, PointsAre
  <2>2. /\ MayFollow("VarPattern") \subseteq MayFollow("RParen")
        /\ "RParen" \notin Optional
        /\ Ahead("RParen", MayFollow("VarPattern")) \subseteq MayFollow("Params")
        /\ "Params" \in Optional => "RParen" \in Ends
    BY EndsStart
       DEF MayFollow, Listed, Optional, Ends, Ahead, AfterPostfix, AfterType,
           BinaryOperator, Ellipsis, Kind, Keyword, Unknown
  <2> QED
    BY <1>1, <2>1, <2>2, EatTwoLeads
<1> QED
  BY <1>1 DEF ParseVarPattern

LEMMA ParseVarPatternBodyLeads ==
    ASSUME LeadInv, ParseVarPatternBody
    PROVE  Goes
<1>1. CASE GoReturn("Params", {"r_paren"}, "node")
  <2>1. At("Params") /\ Tok \in {"r_paren"}
    BY <1>1 DEF GoReturn
  <2>2. Tok \notin Starts("Params")
    BY <2>1, EntriesStart
       DEF OfNode, OfStatement, PrimaryToken, AfterPostfix, AfterType, BinaryOperator, Ellipsis
  <2>3. Due => Can(Tok, Tail(stack))
    BY <2>1, <2>2, DueAt
  <2> QED
    BY <1>1, <2>3, GoBackLeads
<1>2. CASE Go("Params", {"identifier"}, <<"ParamDecl", "MoreParams">>)
  <2>1. "ParamDecl" \in Point /\ "MoreParams" \in Point
    BY EntriesStart
  <2>2. /\ MayFollow("Params") \subseteq MayFollow("MoreParams")
        /\ "MoreParams" \notin Optional
        /\ Ahead("MoreParams", MayFollow("Params")) \subseteq MayFollow("ParamDecl")
        /\ "ParamDecl" \in Optional => "MoreParams" \in Ends
    BY EntriesStart
       DEF MayFollow, Listed, Optional, Ends, Ahead, AfterPostfix, AfterType,
           BinaryOperator, Ellipsis, Kind, Keyword, Unknown
  <2>3. Tok \in {"identifier"} /\ At("Params")
    BY <1>2 DEF Go
  <2>4. /\ ~error /\ Tok \in Starts("Params") /\ ~KnownRefusal
             => Tok \in Starts("ParamDecl") \/ (Skips("ParamDecl") /\ Tok \in Starts("MoreParams"))
        /\ Skips("Params")
             => (Skips("ParamDecl") /\ Skips("MoreParams")) \/ Tok \in Starts("ParamDecl")
    BY <2>3, EntriesStart
       DEF Kind
  <2> QED
    BY <1>2, <2>1, <2>2, <2>4, GoTwoLeads
<1>3. CASE Fail("Params", {"r_paren", "identifier"}, "expected_comma_separator", "node")
  <2>1. At("Params")
    BY <1>3 DEF Fail
  <2>2. /\ Tok \in Starts("Params") => Tok \in {"r_paren", "identifier"} \/ KnownRefusal
        /\ Skips("Params") /\ Tok \in MayFollow("Params")
             => Tok \in {"r_paren", "identifier"} \/ KnownRefusal
    BY <1>3, <2>1, EntriesStart
       DEF MayFollow
  <2> QED
    BY <1>3, <2>2, FailLeads
<1>4. CASE ret = "null" /\ GoReturn("AnotherParam", Kind, "node")
  <2>1. At("AnotherParam") /\ Tok \in Kind
    BY <1>4 DEF GoReturn
  <2>2. error
    BY <1>4 DEF GoReturn, At, LeadInv, ParseInv, Listing
  <2>3. ~Due
    BY <2>2, FormIs DEF Due
  <2> QED
    BY <1>4, <2>2, <2>3, GoBackLeads
<1>5. CASE ret # "null" /\ Go("AnotherParam", Kind, <<"MoreParams">>)
  <2>1. "MoreParams" \in Point
    BY EntriesStart
  <2>2. /\ MayFollow("AnotherParam") \subseteq MayFollow("MoreParams")
        /\ "MoreParams" \notin Optional
    BY DEF MayFollow, Listed, Optional, Ends, Ahead, AfterPostfix, AfterType,
           BinaryOperator, Ellipsis, Kind, Keyword, Unknown
  <2>3. Tok \in Kind /\ At("AnotherParam")
    BY <1>5 DEF Go
  <2>4. /\ ~error /\ Tok \in Starts("AnotherParam") /\ ~KnownRefusal
             => Tok \in Starts("MoreParams")
        /\ Skips("AnotherParam") => Skips("MoreParams") \/ Tok \in Starts("MoreParams")
    BY <2>3, PartsStart, EntriesStart
       DEF Kind
  <2> QED
    BY <1>5, <2>1, <2>2, <2>4, GoOneLeads
<1> QED
  BY <1>1, <1>2, <1>3, <1>4, <1>5 DEF ParseVarPatternBody

LEMMA ParseVarPatternItemLeads ==
    ASSUME LeadInv, ParseVarPatternItem
    PROVE  Goes
<1>1. CASE GoReturn("MoreParams", {"r_paren"}, "node")
  <2>1. At("MoreParams") /\ Tok \in {"r_paren"}
    BY <1>1 DEF GoReturn
  <2>2. Tok \notin Starts("MoreParams")
    BY <2>1, EntriesStart
       DEF OfNode, OfStatement, PrimaryToken, AfterPostfix, AfterType, BinaryOperator, Ellipsis
  <2>3. Due => Can(Tok, Tail(stack))
    BY <2>1, <2>2, DueAt
  <2> QED
    BY <1>1, <2>3, GoBackLeads
<1>2. CASE Eat("MoreParams", {"comma"}, <<"ParamDecl", "AnotherParam">>)
  <2>1. "ParamDecl" \in Point /\ "AnotherParam" \in Point
    BY EntriesStart, PointsAre
  <2>2. /\ MayFollow("MoreParams") \subseteq MayFollow("AnotherParam")
        /\ "AnotherParam" \notin Optional
        /\ Ahead("AnotherParam", MayFollow("MoreParams")) \subseteq MayFollow("ParamDecl")
        /\ "ParamDecl" \in Optional => "AnotherParam" \in Ends
    BY PartsStart
       DEF MayFollow, Listed, Optional, Ends, Ahead, AfterPostfix, AfterType,
           BinaryOperator, Ellipsis, Kind, Keyword, Unknown
  <2> QED
    BY <1>2, <2>1, <2>2, EatTwoLeads
<1>3. CASE Fail("MoreParams", {"r_paren", "comma"}, "expected_comma_separator", "node")
  <2>1. At("MoreParams")
    BY <1>3 DEF Fail
  <2>2. /\ Tok \in Starts("MoreParams") => Tok \in {"r_paren", "comma"} \/ KnownRefusal
        /\ Skips("MoreParams") /\ Tok \in MayFollow("MoreParams")
             => Tok \in {"r_paren", "comma"} \/ KnownRefusal
    BY <1>3, <2>1, EntriesStart
       DEF MayFollow
  <2> QED
    BY <1>3, <2>2, FailLeads
<1> QED
  BY <1>1, <1>2, <1>3 DEF ParseVarPatternItem

LEMMA ClosingLeads ==
    ASSUME LeadInv, Closing
    PROVE  Goes
<1>1. CASE EatReturn("RParen", {"r_paren"}, "node")
  BY <1>1, EatBackLeads
<1>2. CASE Fail("RParen", {"r_paren"}, "expected_r_paren", "null")
  <2>1. At("RParen")
    BY <1>2 DEF Fail
  <2>2. /\ Tok \in Starts("RParen") => Tok \in {"r_paren"} \/ KnownRefusal
        /\ Skips("RParen") /\ Tok \in MayFollow("RParen")
             => Tok \in {"r_paren"} \/ KnownRefusal
    BY <1>2, <2>1, EndsStart
       DEF MayFollow
  <2> QED
    BY <1>2, <2>2, FailLeads
<1>3. CASE EatReturn("RBracket", {"r_bracket"}, "node")
  BY <1>3, EatBackLeads
<1>4. CASE Fail("RBracket", {"r_bracket"}, "expected_r_bracket", "null")
  <2>1. At("RBracket")
    BY <1>4 DEF Fail
  <2>2. /\ Tok \in Starts("RBracket") => Tok \in {"r_bracket"} \/ KnownRefusal
        /\ Skips("RBracket") /\ Tok \in MayFollow("RBracket")
             => Tok \in {"r_bracket"} \/ KnownRefusal
    BY <1>4, <2>1, EndsStart
       DEF MayFollow
  <2> QED
    BY <1>4, <2>2, FailLeads
<1> QED
  BY <1>1, <1>2, <1>3, <1>4 DEF Closing

LEMMA ParseTypeReprLeads ==
    ASSUME LeadInv, ParseTypeRepr
    PROVE  Goes
<1>1. CASE Eat("TypeRepr", {"kw_inout"}, <<"InOutBase">>)
  <2>1. "InOutBase" \in Point
    BY PointsAre
  <2>2. /\ MayFollow("TypeRepr") \subseteq MayFollow("InOutBase")
        /\ "InOutBase" \notin Optional
    BY DEF MayFollow, Listed, Optional, Ends, Ahead, AfterPostfix, AfterType,
           BinaryOperator, Ellipsis, Kind, Keyword, Unknown
  <2> QED
    BY <1>1, <2>1, <2>2, EatOneLeads
<1>2. CASE Go("TypeRepr", {"identifier"}, <<"IdentType">>)
  <2>1. "IdentType" \in Point
    BY EntriesStart
  <2>2. /\ MayFollow("TypeRepr") \subseteq MayFollow("IdentType")
        /\ "IdentType" \notin Optional
    BY DEF MayFollow, Listed, Optional, Ends, Ahead, AfterPostfix, AfterType,
           BinaryOperator, Ellipsis, Kind, Keyword, Unknown
  <2>3. Tok \in {"identifier"} /\ At("TypeRepr")
    BY <1>2 DEF Go
  <2>4. /\ ~error /\ Tok \in Starts("TypeRepr") /\ ~KnownRefusal => Tok \in Starts("IdentType")
        /\ Skips("TypeRepr") => Skips("IdentType") \/ Tok \in Starts("IdentType")
    BY <2>3, EntriesStart
       DEF Kind
  <2> QED
    BY <1>2, <2>1, <2>2, <2>4, GoOneLeads
<1>3. CASE Fail("TypeRepr", {"kw_inout", "identifier"}, "unexpected_token", "null")
  <2>1. At("TypeRepr")
    BY <1>3 DEF Fail
  <2>2. /\ Tok \in Starts("TypeRepr") => Tok \in {"kw_inout", "identifier"} \/ KnownRefusal
        /\ Skips("TypeRepr") /\ Tok \in MayFollow("TypeRepr")
             => Tok \in {"kw_inout", "identifier"} \/ KnownRefusal
    BY <1>3, <2>1, EntriesStart
       DEF MayFollow
  <2> QED
    BY <1>3, <2>2, FailLeads
<1>4. CASE Go("InOutBase", {"identifier"}, <<"IdentType", "Built">>)
  <2>1. "IdentType" \in Point /\ "Built" \in Point
    BY EntriesStart, PointsAre
  <2>2. /\ MayFollow("InOutBase") \subseteq MayFollow("Built")
        /\ "Built" \notin Optional
        /\ Ahead("Built", MayFollow("InOutBase")) \subseteq MayFollow("IdentType")
        /\ "IdentType" \in Optional => "Built" \in Ends
    BY ListsStart
       DEF MayFollow, Listed, Optional, Ends, Ahead, AfterPostfix, AfterType,
           BinaryOperator, Ellipsis, Kind, Keyword, Unknown
  <2>3. Tok \in {"identifier"} /\ At("InOutBase")
    BY <1>4 DEF Go
  <2>4. /\ ~error /\ Tok \in Starts("InOutBase") /\ ~KnownRefusal
             => Tok \in Starts("IdentType") \/ (Skips("IdentType") /\ Tok \in Starts("Built"))
        /\ Skips("InOutBase")
             => (Skips("IdentType") /\ Skips("Built")) \/ Tok \in Starts("IdentType")
    BY <2>3, PartsStart, EntriesStart, ListsStart
       DEF Kind
  <2> QED
    BY <1>4, <2>1, <2>2, <2>4, GoTwoLeads
<1>5. CASE Fail("InOutBase", {"identifier"}, "unexpected_token", "null")
  <2>1. At("InOutBase")
    BY <1>5 DEF Fail
  <2>2. /\ Tok \in Starts("InOutBase") => Tok \in {"identifier"} \/ KnownRefusal
        /\ Skips("InOutBase") /\ Tok \in MayFollow("InOutBase")
             => Tok \in {"identifier"} \/ KnownRefusal
    BY <1>5, <2>1, PartsStart
       DEF MayFollow
  <2> QED
    BY <1>5, <2>2, FailLeads
<1> QED
  BY <1>1, <1>2, <1>3, <1>4, <1>5 DEF ParseTypeRepr

LEMMA ParseIdentTypeLeads ==
    ASSUME LeadInv, ParseIdentType
    PROVE  Goes
<1>1. CASE Eat("IdentType", {"identifier"}, <<"ArrayType">>)
  <2>1. "ArrayType" \in Point
    BY EntriesStart
  <2>2. /\ MayFollow("IdentType") \subseteq MayFollow("ArrayType")
        /\ "ArrayType" \notin Optional
    BY DEF MayFollow, Listed, Optional, Ends, Ahead, AfterPostfix, AfterType,
           BinaryOperator, Ellipsis, Kind, Keyword, Unknown
  <2> QED
    BY <1>1, <2>1, <2>2, EatOneLeads
<1> QED
  BY <1>1 DEF ParseIdentType

LEMMA ParseArrayTypeLeads ==
    ASSUME LeadInv, ParseArrayType
    PROVE  Goes
<1>1. CASE GoReturn("ArrayType", AfterType, "node")
  <2>1. At("ArrayType") /\ Tok \in AfterType
    BY <1>1 DEF GoReturn
  <2>2. Tok \notin Starts("ArrayType")
    BY <2>1, EntriesStart
       DEF OfNode, OfStatement, PrimaryToken, AfterPostfix, AfterType, BinaryOperator, Ellipsis
  <2>3. Due => Can(Tok, Tail(stack))
    BY <2>1, <2>2, DueAt
  <2> QED
    BY <1>1, <2>3, GoBackLeads
<1>2. CASE Eat("ArrayType", {"l_bracket"}, <<"Expr", "ArraySize">>)
  <2>1. "Expr" \in Point /\ "ArraySize" \in Point
    BY EntriesStart, PointsAre
  <2>2. /\ MayFollow("ArrayType") \subseteq MayFollow("ArraySize")
        /\ "ArraySize" \notin Optional
        /\ Ahead("ArraySize", MayFollow("ArrayType")) \subseteq MayFollow("Expr")
        /\ "Expr" \in Optional => "ArraySize" \in Ends
    BY EndsStart
       DEF MayFollow, Listed, Optional, Ends, Ahead, AfterPostfix, AfterType,
           BinaryOperator, Ellipsis, Kind, Keyword, Unknown
  <2> QED
    BY <1>2, <2>1, <2>2, EatTwoLeads
<1>3. CASE Eat("ArraySize", {"r_bracket"}, <<"ArrayType">>)
  <2>1. "ArrayType" \in Point
    BY EntriesStart
  <2>2. /\ MayFollow("ArraySize") \subseteq MayFollow("ArrayType")
        /\ "ArrayType" \notin Optional
    BY DEF MayFollow, Listed, Optional, Ends, Ahead, AfterPostfix, AfterType,
           BinaryOperator, Ellipsis, Kind, Keyword, Unknown
  <2> QED
    BY <1>3, <2>1, <2>2, EatOneLeads
<1>4. CASE Fail("ArraySize", {"r_bracket"}, "expected_r_bracket", "null")
  <2>1. At("ArraySize")
    BY <1>4 DEF Fail
  <2>2. /\ Tok \in Starts("ArraySize") => Tok \in {"r_bracket"} \/ KnownRefusal
        /\ Skips("ArraySize") /\ Tok \in MayFollow("ArraySize")
             => Tok \in {"r_bracket"} \/ KnownRefusal
    BY <1>4, <2>1, EndsStart
       DEF MayFollow
  <2> QED
    BY <1>4, <2>2, FailLeads
<1> QED
  BY <1>1, <1>2, <1>3, <1>4 DEF ParseArrayType

LEMMA ParseExprLeads ==
    ASSUME LeadInv, ParseExpr
    PROVE  Goes
<1>1. CASE Go("Expr", Kind, <<"Primary", "Operators">>)
  <2>1. "Primary" \in Point /\ "Operators" \in Point
    BY EntriesStart, PointsAre
  <2>2. /\ MayFollow("Expr") \subseteq MayFollow("Operators")
        /\ "Operators" \notin Optional
        /\ Ahead("Operators", MayFollow("Expr")) \subseteq MayFollow("Primary")
        /\ "Primary" \in Optional => "Operators" \in Ends
    BY PartsStart
       DEF MayFollow, Listed, Optional, Ends, Ahead, AfterPostfix, AfterType,
           BinaryOperator, Ellipsis, Kind, Keyword, Unknown
  <2>3. Tok \in Kind /\ At("Expr")
    BY <1>1 DEF Go
  <2>4. /\ ~error /\ Tok \in Starts("Expr") /\ ~KnownRefusal
             => Tok \in Starts("Primary") \/ (Skips("Primary") /\ Tok \in Starts("Operators"))
        /\ Skips("Expr")
             => (Skips("Primary") /\ Skips("Operators")) \/ Tok \in Starts("Primary")
    BY <2>3, EntriesStart, PartsStart
       DEF Kind
  <2> QED
    BY <1>1, <2>1, <2>2, <2>4, GoTwoLeads
<1>2. CASE ret = "null" /\ GoReturn("Operators", Kind, "null")
  <2>1. At("Operators") /\ Tok \in Kind
    BY <1>2 DEF GoReturn
  <2>2. error
    BY <1>2 DEF GoReturn, At, LeadInv, ParseInv, Listing
  <2>3. ~Due
    BY <2>2, FormIs DEF Due
  <2> QED
    BY <1>2, <2>2, <2>3, GoBackLeads
<1>3. CASE ret # "null" /\ Eat("Operators", BinaryOperator, <<"Primary", "Operators">>)
  <2>1. "Primary" \in Point /\ "Operators" \in Point
    BY EntriesStart, PointsAre
  <2>2. /\ MayFollow("Operators") \subseteq MayFollow("Operators")
        /\ "Operators" \notin Optional
        /\ Ahead("Operators", MayFollow("Operators")) \subseteq MayFollow("Primary")
        /\ "Primary" \in Optional => "Operators" \in Ends
    BY PartsStart
       DEF MayFollow, Listed, Optional, Ends, Ahead, AfterPostfix, AfterType,
           BinaryOperator, Ellipsis, Kind, Keyword, Unknown
  <2> QED
    BY <1>3, <2>1, <2>2, EatTwoLeads
<1>4. CASE ret # "null" /\ GoReturn("Operators", Kind \ BinaryOperator, "node")
  <2>1. At("Operators") /\ Tok \in Kind \ BinaryOperator
    BY <1>4 DEF GoReturn
  <2>2. Tok \notin Starts("Operators")
    BY <2>1, PartsStart
       DEF OfNode, OfStatement, PrimaryToken, AfterPostfix, AfterType, BinaryOperator, Ellipsis
  <2>3. Due => Can(Tok, Tail(stack))
    BY <2>1, <2>2, DueAt
  <2> QED
    BY <1>4, <2>3, GoBackLeads
<1> QED
  BY <1>1, <1>2, <1>3, <1>4 DEF ParseExpr

LEMMA ParsePrimaryExprLeads ==
    ASSUME LeadInv, ParsePrimaryExpr
    PROVE  Goes
<1>1. CASE Eat("Primary", {"identifier"}, <<"Postfix">>)
  <2>1. "Postfix" \in Point
    BY EntriesStart
  <2>2. /\ MayFollow("Primary") \subseteq MayFollow("Postfix")
        /\ "Postfix" \notin Optional
    BY DEF MayFollow, Listed, Optional, Ends, Ahead, AfterPostfix, AfterType,
           BinaryOperator, Ellipsis, Kind, Keyword, Unknown
  <2> QED
    BY <1>1, <2>1, <2>2, EatOneLeads
<1>2. CASE Fail("Primary", PrimaryToken, "expected_expression", "null")
  <2>1. At("Primary")
    BY <1>2 DEF Fail
  <2>2. /\ Tok \in Starts("Primary") => Tok \in PrimaryToken \/ KnownRefusal
        /\ Skips("Primary") /\ Tok \in MayFollow("Primary")
             => Tok \in PrimaryToken \/ KnownRefusal
    BY <1>2, <2>1, EntriesStart
       DEF MayFollow
  <2> QED
    BY <1>2, <2>2, FailLeads
<1> QED
  BY <1>1, <1>2 DEF ParsePrimaryExpr

LEMMA ParseParenExprLeads ==
    ASSUME LeadInv, ParseParenExpr
    PROVE  Goes
<1>1. CASE Eat("Primary", {"l_paren"}, <<"Expr", "RParen">>)
  <2>1. "Expr" \in Point /\ "RParen" \in Point
    BY EntriesStart, PointsAre
  <2>2. /\ MayFollow("Primary") \subseteq MayFollow("RParen")
        /\ "RParen" \notin Optional
        /\ Ahead("RParen", MayFollow("Primary")) \subseteq MayFollow("Expr")
        /\ "Expr" \in Optional => "RParen" \in Ends
    BY EndsStart
       DEF MayFollow, Listed, Optional, Ends, Ahead, AfterPostfix, AfterType,
           BinaryOperator, Ellipsis, Kind, Keyword, Unknown
  <2> QED
    BY <1>1, <2>1, <2>2, EatTwoLeads
<1> QED
  BY <1>1 DEF ParseParenExpr

LEMMA ParseNumberLiteralExprLeads ==
    ASSUME LeadInv, ParseNumberLiteralExpr
    PROVE  Goes
<1>1. CASE EatReturn("Primary", {"number_literal"}, "node")
  BY <1>1, EatBackLeads
<1> QED
  BY <1>1 DEF ParseNumberLiteralExpr

LEMMA ParseArrayLiteralExprLeads ==
    ASSUME LeadInv, ParseArrayLiteralExpr
    PROVE  Goes
<1>1. CASE Eat("Primary", {"l_bracket"}, <<"Items", "RBracket", "Postfix">>)
  <2>1. "Items" \in Point /\ "RBracket" \in Point /\ "Postfix" \in Point
    BY EntriesStart, PointsAre
  <2>2. /\ MayFollow("Primary") \subseteq MayFollow("Postfix")
        /\ "Postfix" \notin Optional
        /\ Ahead("Postfix", MayFollow("Primary")) \subseteq MayFollow("RBracket")
        /\ "RBracket" \in Optional => "Postfix" \in Ends
        /\ Ahead("RBracket", Ahead("Postfix", MayFollow("Primary")))
             \subseteq MayFollow("Items")
        /\ "Items" \notin Optional
    BY EndsStart, EntriesStart
       DEF MayFollow, Listed, Optional, Ends, Ahead, AfterPostfix, AfterType,
           BinaryOperator, Ellipsis, Kind, Keyword, Unknown
  <2> QED
    BY <1>1, <2>1, <2>2, EatThreeLeads
<1> QED
  BY <1>1 DEF ParseArrayLiteralExpr

LEMMA ParseUnaryExprLeads ==
    ASSUME LeadInv, ParseUnaryExpr
    PROVE  Goes
<1>1. CASE Eat("Primary", {"minus", "lnot", "inout"}, <<"Primary", "Built">>)
  <2>1. "Primary" \in Point /\ "Built" \in Point
    BY EntriesStart, PointsAre
  <2>2. /\ MayFollow("Primary") \subseteq MayFollow("Built")
        /\ "Built" \notin Optional
        /\ Ahead("Built", MayFollow("Primary")) \subseteq MayFollow("Primary")
        /\ "Primary" \in Optional => "Built" \in Ends
    BY ListsStart
       DEF MayFollow, Listed, Optional, Ends, Ahead, AfterPostfix, AfterType,
           BinaryOperator, Ellipsis, Kind, Keyword, Unknown
  <2> QED
    BY <1>1, <2>1, <2>2, EatTwoLeads
<1> QED
  BY <1>1 DEF ParseUnaryExpr

LEMMA ParsePrimaryExprRHSLeads ==
    ASSUME LeadInv, ParsePrimaryExprRHS
    PROVE  Goes
<1>1. CASE GoReturn("Postfix", AfterPostfix, ret)
  <2>1. At("Postfix") /\ Tok \in AfterPostfix
    BY <1>1 DEF GoReturn
  <2>2. Tok \notin Starts("Postfix")
    BY <2>1, EntriesStart
       DEF OfNode, OfStatement, PrimaryToken, AfterPostfix, AfterType, BinaryOperator, Ellipsis
  <2>3. Due => Can(Tok, Tail(stack))
    BY <2>1, <2>2, DueAt
  <2>4. /\ ret \in {"node", "null", "absent"}
        /\ ret = "null" => error
        /\ ret = "absent" => error
    BY <2>1 DEF At, LeadInv, ParseInv, TypeOK, Listing, Ends
  <2> QED
    BY <1>1, <2>3, <2>4, GoBackLeads
<1>2. CASE Fail("Postfix", AfterPostfix \union {"l_paren", "l_bracket"}, "unexpected_token", "null")
  <2>1. At("Postfix")
    BY <1>2 DEF Fail
  <2>2. /\ Tok \in Starts("Postfix")
             => Tok \in (AfterPostfix \union {"l_paren", "l_bracket"}) \/ KnownRefusal
        /\ Skips("Postfix") /\ Tok \in MayFollow("Postfix")
             => Tok \in (AfterPostfix \union {"l_paren", "l_bracket"}) \/ KnownRefusal
    BY <1>2, <2>1, EntriesStart
       DEF MayFollow
  <2> QED
    BY <1>2, <2>2, FailLeads
<1> QED
  BY <1>1, <1>2 DEF ParsePrimaryExprRHS

LEMMA ParseCallExprLeads ==
    ASSUME LeadInv, ParseCallExpr
    PROVE  Goes
<1>1. CASE Eat("Postfix", {"l_paren"}, <<"Items", "RParen", "Built", "Postfix">>)
  <2>1. "Items" \in Point /\ "RParen" \in Point /\ "Built" \in Point /\ "Postfix" \in Point
    BY EntriesStart, PointsAre
  <2>2. /\ MayFollow("Postfix") \subseteq MayFollow("Postfix")
        /\ "Postfix" \notin Optional
        /\ Ahead("Postfix", MayFollow("Postfix")) \subseteq MayFollow("Built")
        /\ "Built" \in Optional => "Postfix" \in Ends
        /\ Ahead("Built", Ahead("Postfix", MayFollow("Postfix"))) \subseteq MayFollow("RParen")
        /\ "RParen" \in Optional => "Built" \in Ends
        /\ Ahead("RParen", Ahead("Built", Ahead("Postfix", MayFollow("Postfix"))))
             \subseteq MayFollow("Items")
        /\ "Items" \notin Optional
    BY EndsStart, ListsStart, EntriesStart
       DEF MayFollow, Listed, Optional, Ends, Ahead, AfterPostfix, AfterType,
           BinaryOperator, Ellipsis, Kind, Keyword, Unknown
  <2> QED
    BY <1>1, <2>1, <2>2, EatFourLeads
<1> QED
  BY <1>1 DEF ParseCallExpr

LEMMA ParseSubscriptExprLeads ==
    ASSUME LeadInv, ParseSubscriptExpr
    PROVE  Goes
<1>1. CASE Eat("Postfix", {"l_bracket"}, <<"Expr", "RBracket", "Built", "Postfix">>)
  <2>1. "Expr" \in Point /\ "RBracket" \in Point /\ "Built" \in Point /\ "Postfix" \in Point
    BY EntriesStart, PointsAre
  <2>2. /\ MayFollow("Postfix") \subseteq MayFollow("Postfix")
        /\ "Postfix" \notin Optional
        /\ Ahead("Postfix", MayFollow("Postfix")) \subseteq MayFollow("Built")
        /\ "Built" \in Optional => "Postfix" \in Ends
        /\ Ahead("Built", Ahead("Postfix", MayFollow("Postfix")))
             \subseteq MayFollow("RBracket")
        /\ "RBracket" \in Optional => "Built" \in Ends
        /\ Ahead("RBracket", Ahead("Built", Ahead("Postfix", MayFollow("Postfix"))))
             \subseteq MayFollow("Expr")
        /\ "Expr" \notin Optional
    BY EndsStart, ListsStart, EntriesStart
       DEF MayFollow, Listed, Optional, Ends, Ahead, AfterPostfix, AfterType,
           BinaryOperator, Ellipsis, Kind, Keyword, Unknown
  <2> QED
    BY <1>1, <2>1, <2>2, EatFourLeads
<1> QED
  BY <1>1 DEF ParseSubscriptExpr

LEMMA ParseExprPatternBodyLeads ==
    ASSUME LeadInv, ParseExprPatternBody
    PROVE  Goes
<1>1. CASE GoReturn("Items", {"r_paren", "r_bracket"}, "node")
  <2>1. At("Items") /\ Tok \in {"r_paren", "r_bracket"}
    BY <1>1 DEF GoReturn
  <2>2. Tok \notin Starts("Items")
    BY <2>1, EntriesStart
       DEF OfNode, OfStatement, PrimaryToken, AfterPostfix, AfterType, BinaryOperator, Ellipsis
  <2>3. Due => Can(Tok, Tail(stack))
    BY <2>1, <2>2, DueAt
  <2> QED
    BY <1>1, <2>3, GoBackLeads
<1>2. CASE Go("Items", PrimaryToken, <<"Expr", "MoreItems">>)
  <2>1. "Expr" \in Point /\ "MoreItems" \in Point
    BY EntriesStart
  <2>2. /\ MayFollow("Items") \subseteq MayFollow("MoreItems")
        /\ "MoreItems" \notin Optional
        /\ Ahead("MoreItems", MayFollow("Items")) \subseteq MayFollow("Expr")
        /\ "Expr" \in Optional => "MoreItems" \in Ends
    BY EntriesStart
       DEF MayFollow, Listed, Optional, Ends, Ahead, AfterPostfix, AfterType,
           BinaryOperator, Ellipsis, Kind, Keyword, Unknown
  <2>3. Tok \in PrimaryToken /\ At("Items")
    BY <1>2 DEF Go
  <2>4. /\ ~error /\ Tok \in Starts("Items") /\ ~KnownRefusal
             => Tok \in Starts("Expr") \/ (Skips("Expr") /\ Tok \in Starts("MoreItems"))
        /\ Skips("Items") => (Skips("Expr") /\ Skips("MoreItems")) \/ Tok \in Starts("Expr")
    BY <2>3, EntriesStart
       DEF PrimaryToken
  <2> QED
    BY <1>2, <2>1, <2>2, <2>4, GoTwoLeads
<1>3. CASE Fail("Items", {"r_paren", "r_bracket"} \union PrimaryToken, "unexpected_token", "node")
  <2>1. At("Items")
    BY <1>3 DEF Fail
  <2>2. /\ Tok \in Starts("Items")
             => Tok \in ({"r_paren", "r_bracket"} \union PrimaryToken) \/ KnownRefusal
        /\ Skips("Items") /\ Tok \in MayFollow("Items")
             => Tok \in ({"r_paren", "r_bracket"} \union PrimaryToken) \/ KnownRefusal
    BY <1>3, <2>1, EntriesStart
       DEF MayFollow
  <2> QED
    BY <1>3, <2>2, FailLeads
<1>4. CASE ret = "null" /\ GoReturn("AnotherItem", Kind, "node")
  <2>1. At("AnotherItem") /\ Tok \in Kind
    BY <1>4 DEF GoReturn
  <2>2. error
    BY <1>4 DEF GoReturn, At, LeadInv, ParseInv, Listing
  <2>3. ~Due
    BY <2>2, FormIs DEF Due
  <2> QED
    BY <1>4, <2>2, <2>3, GoBackLeads
<1>5. CASE ret # "null" /\ Go("AnotherItem", Kind, <<"MoreItems">>)
  <2>1. "MoreItems" \in Point
    BY EntriesStart
  <2>2. /\ MayFollow("AnotherItem") \subseteq MayFollow("MoreItems")
        /\ "MoreItems" \notin Optional
    BY DEF MayFollow, Listed, Optional, Ends, Ahead, AfterPostfix, AfterType,
           BinaryOperator, Ellipsis, Kind, Keyword, Unknown
  <2>3. Tok \in Kind /\ At("AnotherItem")
    BY <1>5 DEF Go
  <2>4. /\ ~error /\ Tok \in Starts("AnotherItem") /\ ~KnownRefusal
             => Tok \in Starts("MoreItems")
        /\ Skips("AnotherItem") => Skips("MoreItems") \/ Tok \in Starts("MoreItems")
    BY <2>3, PartsStart, EntriesStart
       DEF Kind
  <2> QED
    BY <1>5, <2>1, <2>2, <2>4, GoOneLeads
<1> QED
  BY <1>1, <1>2, <1>3, <1>4, <1>5 DEF ParseExprPatternBody

LEMMA ParseExprPatternItemLeads ==
    ASSUME LeadInv, ParseExprPatternItem
    PROVE  Goes
<1>1. CASE GoReturn("MoreItems", {"r_paren", "r_bracket"}, "node")
  <2>1. At("MoreItems") /\ Tok \in {"r_paren", "r_bracket"}
    BY <1>1 DEF GoReturn
  <2>2. Tok \notin Starts("MoreItems")
    BY <2>1, EntriesStart
       DEF OfNode, OfStatement, PrimaryToken, AfterPostfix, AfterType, BinaryOperator, Ellipsis
  <2>3. Due => Can(Tok, Tail(stack))
    BY <2>1, <2>2, DueAt
  <2> QED
    BY <1>1, <2>3, GoBackLeads
<1>2. CASE Eat("MoreItems", {"comma"}, <<"Expr", "AnotherItem">>)
  <2>1. "Expr" \in Point /\ "AnotherItem" \in Point
    BY EntriesStart, PointsAre
  <2>2. /\ MayFollow("MoreItems") \subseteq MayFollow("AnotherItem")
        /\ "AnotherItem" \notin Optional
        /\ Ahead("AnotherItem", MayFollow("MoreItems")) \subseteq MayFollow("Expr")
        /\ "Expr" \in Optional => "AnotherItem" \in Ends
    BY PartsStart
       DEF MayFollow, Listed, Optional, Ends, Ahead, AfterPostfix, AfterType,
           BinaryOperator, Ellipsis, Kind, Keyword, Unknown
  <2> QED
    BY <1>2, <2>1, <2>2, EatTwoLeads
<1>3. CASE Fail("MoreItems", {"r_paren", "r_bracket", "comma"}, "expected_comma_separator", "node")
  <2>1. At("MoreItems")
    BY <1>3 DEF Fail
  <2>2. /\ Tok \in Starts("MoreItems")
             => Tok \in {"r_paren", "r_bracket", "comma"} \/ KnownRefusal
        /\ Skips("MoreItems") /\ Tok \in MayFollow("MoreItems")
             => Tok \in {"r_paren", "r_bracket", "comma"} \/ KnownRefusal
    BY <1>3, <2>1, EntriesStart
       DEF MayFollow
  <2> QED
    BY <1>3, <2>2, FailLeads
<1> QED
  BY <1>1, <1>2, <1>3 DEF ParseExprPatternItem

-----------------------------------------------------------------------------
(* The loop of parseModule and the ends, and the initial states *)
LEMMA ParseModuleLeads ==
    ASSUME LeadInv, ParseModule
    PROVE  Goes
<1>1. /\ verdict = "open" /\ stack = <<>> /\ ~error /\ Tok # "eof"
      /\ stack' = <<"Node">> /\ ret' = "node" /\ error' = error /\ verdict' = verdict
  BY DEF ParseModule, NoError
<1>2. "Node" \in Point /\ Starts("Node") = OfNode
  BY EntriesStart
<1>3. <<>> \in Seq(Point) /\ <<"Node">> \o <<>> = <<"Node">>
  <2>1. <<"Node">> \in Seq(Point)
    BY <1>2
  <2> QED
    BY <2>1, EmptySeq, ConcatEmptySeq
<1>4. Followed(<<"Node">>)
  <2>1. Follows("Node", <<>>)
    <3>1. Within(<<>>, MayFollow("Node"))
      BY CanEnd DEF Within, MayFollow, Listed
    <3> QED
      BY <3>1 DEF Follows, Optional
  <2> QED
    BY <1>2, <1>3, <2>1, FollowedNone, FollowedCons
<1>5. Leads
  <2> SUFFICES ASSUME Due
               PROVE  judged' = "open" /\ MayComeNext(Tok, form')
    BY DEF Leads
  <2>1. judged' = "open"
    BY <1>1 DEF judged
  <2>2. Can(Tok, <<>>)
    BY <1>1, FormIs DEF Due
  <2>3. Tok \in Starts("Node")
    BY <1>1, <1>2, <2>2, CanEnd
  <2>4. Can(Tok, <<"Node">>)
    BY <1>2, <1>3, <2>3, CanCons
  <2> QED
    BY <1>1, <2>1, <2>4, NextFormIs
<1> QED
  BY <1>1, <1>4, <1>5 DEF Goes

LEMMA EndModuleLeads ==
    ASSUME LeadInv, EndModule
    PROVE  Goes
<1>1. /\ verdict = "open" /\ stack' = stack /\ ret' = ret /\ error' = error
      /\ verdict' = IF error THEN "rejected" ELSE "accepted"
  BY DEF EndModule
<1>2. Leads
  <2> SUFFICES ASSUME Due
               PROVE  judged' = "accepted"
    BY DEF Leads
  <2>1. ~error
    BY FormIs DEF Due
  <2> QED
    BY <1>1, <2>1 DEF judged
<1> QED
  BY <1>1, <1>2 DEF Goes, LeadInv

(* No assertion fails where the token may come. *)
LEMMA AbortLeads ==
    ASSUME LeadInv, Abort
    PROVE  Goes
<1>1. /\ verdict' = "aborted" /\ stack' = stack /\ ret' = ret /\ error' = error
  BY DEF Abort
<1>2. PICK p \in DOMAIN Asserted : At(p) /\ Tok \notin Asserted[p]
  BY DEF Abort
<1>3. ~Due
  <2> SUFFICES ASSUME Due
               PROVE  Tok \in Asserted[p]
    BY <1>2
  <2>1. Tok \in Starts(p) \/ (Skips(p) /\ Tok \in MayFollow(p))
    BY <1>2, DueAt
  <2>2. p \in {"Block", "VarPattern", "ParamDecl", "ArrayType"}
    BY DEF Asserted
  <2>3. CASE p = "Block"
    BY <2>1, <2>3, EntriesStart DEF Asserted
  <2>4. CASE p = "VarPattern"
    BY <2>1, <2>4, EndsStart DEF Asserted
  <2>5. CASE p = "ParamDecl"
    BY <2>1, <2>5, EntriesStart DEF Asserted
  <2>6. CASE p = "ArrayType"
    <3>1. Tok \in {"l_bracket"} \/ Tok \in AfterType
      BY <2>1, <2>6, EntriesStart DEF MayFollow
    <3> QED
      BY <2>6, <3>1 DEF Asserted
  <2> QED
    BY <2>2, <2>3, <2>4, <2>5, <2>6
<1> QED
  BY <1>1, <1>3 DEF Goes, Leads, LeadInv

LEMMA InitLeads ==
    ASSUME Init
    PROVE  LeadInv
<1>1. stack = <<>> /\ ret = "node"
  BY DEF Init
<1>2. Followed(stack)
  BY <1>1, FollowedNone
<1> QED
  BY <1>1, <1>2, InitInv DEF LeadInv

LEMMA NextGoes ==
    ASSUME LeadInv, Next
    PROVE  Goes
BY ParseModuleLeads, EndModuleLeads, AbortLeads, ParseNodeLeads, ParseStatementLeads,
   ParseExprStmtLeads, ParseBreakStmtLeads, ParseReturnStmtLeads, ParseBlockLeads,
   BuiltLeads, ParseFuncStmtLeads, ParseForStmtLeads, ParseRangeStmtLeads,
   ParseWhileStmtLeads, ParseIfStmtLeads, ParseElseStmtLeads, ParseVarDeclLeads,
   ParseDeclValueLeads, ParseFuncDeclLeads, ParseFuncDeclTypeLeads, ParseParamDeclLeads,
   ParseVarPatternLeads, ParseVarPatternBodyLeads, ParseVarPatternItemLeads, ClosingLeads,
   ParseTypeReprLeads, ParseIdentTypeLeads, ParseArrayTypeLeads, ParseExprLeads,
   ParsePrimaryExprLeads, ParseParenExprLeads, ParseNumberLiteralExprLeads,
   ParseArrayLiteralExprLeads, ParseUnaryExprLeads, ParsePrimaryExprRHSLeads,
   ParseCallExprLeads, ParseSubscriptExprLeads, ParseExprPatternBodyLeads,
   ParseExprPatternItemLeads DEF Next

LEMMA LeadNext ==
    ASSUME LeadInv, [Next]_vars
    PROVE  LeadInv'
<1>1. ParseInv'
  BY NextStep DEF LeadInv, Advances
<1>2. (Followed(stack))' <=> Followed(stack')
  BY DEF Followed, Follows, Within
<1>3. CASE UNCHANGED vars
  BY <1>1, <1>2, <1>3 DEF LeadInv, At, vars
<1>4. CASE Next
  BY <1>1, <1>2, <1>4, NextGoes DEF LeadInv, Goes, At
<1> QED
  BY <1>3, <1>4

(* A step of the parser records an error, or takes a path on which the next *)
(* token is one, only where the grammar has no other, save in the places     *)
(* listed: for files of any length and nesting (all parse methods).          *)
THEOREM RefusesWhatTheGrammarDoes == Spec => RefusesOnlyErrors
<1>1. Init => LeadInv
  BY InitLeads
<1>2. LeadInv /\ [Next]_vars => LeadInv'
  BY LeadNext
<1>3. LeadInv /\ [Next]_vars
        => [judged = "open" /\ MayComeNext(Tok, form) /\ ~KnownRefusal
              => /\ judged' # "rejected"
                 /\ judged' = "open" /\ UNCHANGED Position => MayComeNext(Tok, form')]_vars
  BY NextGoes DEF Goes, Leads, Due
<1> QED
  BY <1>1, <1>2, <1>3, PTL DEF Spec, RefusesOnlyErrors

=============================================================================
