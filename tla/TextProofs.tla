----------------------------- MODULE TextProofs -----------------------------
(***************************************************************************)
(* What becomes of the characters themselves, proved for every session,    *)
(* whatever its child prints, erases and scrolls and whatever its user     *)
(* clears and deletes: a resize of an unpartitioned screen loses none, and *)
(* no operation ever leaves one in two places.                             *)
(*                                                                         *)
(* A text is part of another when its characters can be found there, each  *)
(* in a place of its own.  No operation but printing leaves a text that is *)
(* not part of the one before it.                                          *)
(*                                                                         *)
(* And what becomes of their layout, of a child that only prints: its      *)
(* screen has lines that end where its cursor is, there is one screen of a *)
(* size that has them, and a rewrap that sends nothing keeps them.         *)
(***************************************************************************)
EXTENDS TranscriptProofs, FiniteSetTheorems

-----------------------------------------------------------------------------
(* One text as part of another *)

\* Every character of x has a place of its own in y.
Embeds(x, y, f) ==
  /\ f \in [1..Len(x) -> 1..Len(y)]
  /\ \A i, j \in 1..Len(x) : f[i] = f[j] => i = j
  /\ \A i \in 1..Len(x) : x[i] = y[f[i]]
\* Some such places show that x is part of y.
Part(x, y) == \E f : Embeds(x, y, f)

\* No character twice.
Once(x) == \A i, j \in 1..Len(x) : x[i] = x[j] => i = j

\* A text is part of itself, and nothing is part of any text.
LEMMA PartSame ==
  ASSUME NEW x \in Ink, NEW y \in Ink
  PROVE  Part(x, x) /\ Part(<< >>, y)
<1>1. Embeds(x, x, [i \in 1..Len(x) |-> i])
  BY DEF Embeds
<1>2. Embeds(<< >>, y, [i \in 1..0 |-> i])
  BY DEF Embeds
<1> QED
  BY <1>1, <1>2 DEF Part

\* A part of a part is a part.
LEMMA PartTrans ==
  ASSUME NEW x \in Ink, NEW y \in Ink, NEW z \in Ink, Part(x, y), Part(y, z)
  PROVE  Part(x, z)
<1>1. PICK f : Embeds(x, y, f)
  BY DEF Part
<1>2. PICK g : Embeds(y, z, g)
  BY DEF Part
<1> DEFINE h == [i \in 1..Len(x) |-> g[f[i]]]
<1>3. h \in [1..Len(x) -> 1..Len(z)]
  BY <1>1, <1>2 DEF Embeds
<1>4. ASSUME NEW i \in 1..Len(x), NEW j \in 1..Len(x), h[i] = h[j] PROVE i = j
  BY <1>1, <1>2, <1>4 DEF Embeds
<1>5. ASSUME NEW i \in 1..Len(x) PROVE x[i] = z[h[i]]
  BY <1>1, <1>2 DEF Embeds
<1> HIDE DEF h
<1>6. Embeds(x, z, h)
  BY <1>3, <1>4, <1>5 DEF Embeds
<1> QED
  BY <1>6 DEF Part

\* Parts of two texts end to end are part of the two end to end.
LEMMA PartJoin ==
  ASSUME NEW w \in Ink, NEW x \in Ink, NEW y \in Ink, NEW z \in Ink, Part(w, y), Part(x, z)
  PROVE  Part(w \o x, y \o z)
<1>1. PICK f : Embeds(w, y, f)
  BY DEF Part
<1>2. PICK g : Embeds(x, z, g)
  BY DEF Part
<1> DEFINE a == Len(w)
           b == Len(y)
           h == [i \in 1 .. a + Len(x) |-> IF i <= a THEN f[i] ELSE b + g[i - a]]
<1>0. a \in Nat /\ b \in Nat /\ Len(x) \in Nat /\ Len(z) \in Nat
  BY DEF Ink
<1>3. /\ Len(w \o x) = a + Len(x) /\ \A i \in 1..a : (w \o x)[i] = w[i]
      /\ \A i \in a + 1 .. a + Len(x) : (w \o x)[i] = x[i - a]
  BY JoinedAt DEF Ink
<1>4. /\ Len(y \o z) = b + Len(z) /\ \A i \in 1..b : (y \o z)[i] = y[i]
      /\ \A i \in b + 1 .. b + Len(z) : (y \o z)[i] = z[i - b]
  BY JoinedAt DEF Ink
<1> HIDE DEF a, b
<1>5. ASSUME NEW i \in 1 .. a + Len(x)
      PROVE  /\ i <= a => i \in 1..a /\ f[i] \in 1..b /\ h[i] = f[i] /\ (w \o x)[i] = y[f[i]]
             /\ i > a => /\ i - a \in 1..Len(x) /\ g[i - a] \in 1..Len(z) /\ h[i] = b + g[i - a]
                         /\ (w \o x)[i] = z[g[i - a]]
  <2>1. ASSUME i <= a PROVE i \in 1..a /\ f[i] \in 1..b /\ h[i] = f[i] /\ (w \o x)[i] = y[f[i]]
    BY <1>0, <1>1, <1>3, <2>1 DEF Embeds, a, b
  <2>2. ASSUME i > a
        PROVE  /\ i - a \in 1..Len(x) /\ g[i - a] \in 1..Len(z) /\ h[i] = b + g[i - a]
               /\ (w \o x)[i] = z[g[i - a]]
    <3>1. i - a \in 1..Len(x) /\ i \in a + 1 .. a + Len(x) /\ ~(i <= a)
      BY <1>0, <2>2
    <3> QED
      BY <1>2, <1>3, <3>1 DEF Embeds
  <2> QED
    BY <2>1, <2>2
<1>6. h \in [1 .. a + Len(x) -> 1 .. b + Len(z)]
  <2>1. ASSUME NEW i \in 1 .. a + Len(x) PROVE h[i] \in 1 .. b + Len(z)
    <3> HIDE DEF h
    <3>1. i \in Int /\ a \in Int /\ Len(z) \in Nat
      BY <1>0
    <3>2. CASE i <= a
      BY <1>0, <1>5, <3>2
    <3>3. CASE i > a
      <4>1. h[i] = b + g[i - a] /\ g[i - a] \in 1..Len(z)
        BY <1>5, <3>3
      <4> QED
        BY <1>0, <4>1
    <3> QED
      BY ONLY <3>1, <3>2, <3>3
  <2> QED
    BY <2>1
<1>7. DOMAIN h = 1 .. a + Len(x)
  OBVIOUS
<1> HIDE DEF h
<1>7a. ASSUME NEW i \in 1 .. a + Len(x), i <= a PROVE h[i] \in 1..b
  BY <1>5, <1>7a
<1>7b. ASSUME NEW i \in 1 .. a + Len(x), i > a PROVE h[i] \in b + 1 .. b + Len(z)
  <2>1. h[i] = b + g[i - a] /\ g[i - a] \in 1..Len(z)
    BY <1>5, <1>7b
  <2> QED
    BY <1>0, <2>1
<1>8. ASSUME NEW i \in 1 .. a + Len(x), NEW j \in 1 .. a + Len(x), h[i] = h[j] PROVE i = j
  <2>1. CASE i <= a /\ j <= a
    BY <1>1, <1>5, <1>8, <2>1 DEF Embeds, a
  <2>2. CASE i > a /\ j > a
    <3>1. g[i - a] = g[j - a] /\ i - a \in 1..Len(x) /\ j - a \in 1..Len(x)
      BY <1>0, <1>5, <1>8, <2>2
    <3>2. i - a = j - a
      BY <1>2, <3>1 DEF Embeds
    <3> QED
      BY <1>0, <3>2
  <2>3. CASE i <= a /\ j > a
    <3>1. h[i] \in 1..b /\ h[i] \in b + 1 .. b + Len(z)
      BY <1>7a, <1>7b, <1>8, <2>3
    <3> QED
      BY ONLY <1>0, <3>1
  <2>4. CASE i > a /\ j <= a
    <3>1. h[i] \in 1..b /\ h[i] \in b + 1 .. b + Len(z)
      BY <1>7a, <1>7b, <1>8, <2>4
    <3> QED
      BY ONLY <1>0, <3>1
  <2>5. i \in Int /\ j \in Int /\ a \in Int
    BY <1>0
  <2>6. (i <= a \/ i > a) /\ (j <= a \/ j > a)
    BY ONLY <2>5
  <2> QED
    BY ONLY <2>1, <2>2, <2>3, <2>4, <2>6
<1>9. ASSUME NEW i \in 1 .. a + Len(x) PROVE (w \o x)[i] = (y \o z)[h[i]]
  <2>1. CASE i <= a
    <3>1. h[i] \in 1..b /\ h[i] = f[i] /\ (w \o x)[i] = y[f[i]]
      BY <1>5, <2>1
    <3> QED
      BY <1>4, <3>1
  <2>2. CASE i > a
    <3>1. h[i] \in b + 1 .. b + Len(z) /\ h[i] - b = g[i - a]
      <4>1. h[i] = b + g[i - a] /\ g[i - a] \in 1..Len(z)
        BY <1>5, <2>2
      <4>2. b \in Int /\ Len(z) \in Nat
        BY <1>0
      <4> QED
        BY ONLY <4>1, <4>2
    <3>2. (y \o z)[h[i]] = z[h[i] - b]
      BY <1>4, <3>1
    <3> QED
      BY <1>5, <2>2, <3>1, <3>2
  <2>3. i \in Int /\ a \in Int
    BY <1>0
  <2>4. i <= a \/ i > a
    BY ONLY <2>3
  <2> QED
    BY ONLY <2>1, <2>2, <2>4
<1>10. Embeds(w \o x, y \o z, h)
  BY <1>3, <1>4, <1>6, <1>8, <1>9 DEF Embeds
<1> QED
  BY <1>10 DEF Part

\* A part of a text that has nothing twice has nothing twice, and nothing that was not there.
LEMMA PartOnce ==
  ASSUME NEW x \in Ink, NEW y \in Ink, Part(x, y)
  PROVE  /\ Once(y) => Once(x)
         /\ \A i \in 1..Len(x) : \E j \in 1..Len(y) : x[i] = y[j]
<1>1. PICK f : Embeds(x, y, f)
  BY DEF Part
<1>2. ASSUME NEW i \in 1..Len(x) PROVE f[i] \in 1..Len(y) /\ x[i] = y[f[i]]
  BY <1>1 DEF Embeds
<1>3. ASSUME Once(y), NEW i \in 1..Len(x), NEW j \in 1..Len(x), x[i] = x[j] PROVE i = j
  <2>1. f[i] = f[j]
    <3>1. f[i] \in 1..Len(y) /\ f[j] \in 1..Len(y) /\ y[f[i]] = y[f[j]]
      BY <1>2, <1>3
    <3> QED
      BY ONLY <1>3, <3>1 DEF Once
  <2> QED
    BY <1>1, <2>1 DEF Embeds
<1> QED
  BY <1>2, <1>3 DEF Once

-----------------------------------------------------------------------------
(* Texts put together piece by piece *)

\* P(i) is the first i of p pieces put together.
Piled(p, P, a) ==
  /\ p \in Nat /\ P \in [0..p -> Ink] /\ a \in [1..p -> Ink]
  /\ P[0] = << >> /\ \A i \in 1..p : P[i] = P[i - 1] \o a[i]

\* Every piece of a is empty, or part of a piece of b, and in the same order.
Drawn(p, a, q, b, g) ==
  /\ g \in [1..p -> 0..q]
  /\ \A i \in 1..p : IF g[i] = 0 THEN a[i] = << >> ELSE Part(a[i], b[g[i]])
  /\ \A i, j \in 1..p : i < j /\ g[i] # 0 /\ g[j] # 0 => g[i] < g[j]

\* Fewer pieces are part of more.
LEMMA PiledGrows ==
  ASSUME NEW q, NEW Q, NEW b, Piled(q, Q, b), NEW i \in 0..q, NEW j \in 0..q, i <= j
  PROVE  Part(Q[i], Q[j])
<1> DEFINE S == {k \in Nat : i + k <= q => Part(Q[i], Q[i + k])}
<1>0. /\ q \in Nat /\ \A k \in 0..q : Q[k] \in Ink
      /\ \A k \in 1..q : b[k] \in Ink /\ Q[k] = Q[k - 1] \o b[k]
  BY DEF Piled
<1>1. 0 \in S
  BY <1>0, PartSame
<1>2. ASSUME NEW k \in S PROVE k + 1 \in S
  <2> SUFFICES ASSUME i + (k + 1) <= q PROVE Part(Q[i], Q[i + (k + 1)])
    OBVIOUS
  <2> DEFINE l == i + k
             n == i + (k + 1)
  <2>0. l \in 0..q /\ n \in 1..q /\ n \in 0..q /\ n - 1 = l /\ Part(Q[i], Q[l])
    <3>1. i + k <= q /\ k \in Nat
      BY <1>0
    <3>2. Part(Q[i], Q[i + k])
      BY <3>1
    <3> QED
      BY <1>0, <3>1, <3>2
  <2> HIDE DEF l
  <2>1. n = i + (k + 1)
    OBVIOUS
  <2> HIDE DEF n
  <2> DEFINE v == Q[l]
             e == b[n]
             w == Q[n]
  <2>2. Part(Q[i], v) /\ v \in Ink /\ e \in Ink /\ w = v \o e /\ w \in Ink /\ Q[i] \in Ink
    BY <1>0, <2>0
  <2> HIDE DEF v, e, w
  <2>3. Part(v, v) /\ Part(<< >>, e) /\ << >> \in Ink /\ v \o << >> = v
    BY <2>2, PartSame, InkFacts
  <2>4. Part(v, w)
    BY <2>2, <2>3, PartJoin
  <2>5. Part(Q[i], w)
    BY <2>2, <2>4, PartTrans
  <2> QED
    BY <2>1, <2>5 DEF w
<1>3. S = Nat
  <2> HIDE DEF S
  <2>1. S \in SUBSET Nat
    BY DEF S
  <2> QED
    BY <1>1, <1>2, <2>1, SetInduction
<1>4. ASSUME NEW k \in Nat, i + k = j PROVE Part(Q[i], Q[j])
  <2>1. k \in S
    BY <1>3
  <2> QED
    BY <1>0, <1>4, <2>1
<1>5. j - i \in Nat /\ i + (j - i) = j
  BY <1>0
<1> QED
  BY <1>4, <1>5

\* Pieces drawn in order from others, piled up, are part of the pile of those.
LEMMA PiledPart ==
  ASSUME NEW p, NEW P, NEW a, Piled(p, P, a), NEW q, NEW Q, NEW b, Piled(q, Q, b),
         NEW g, Drawn(p, a, q, b, g)
  PROVE  Part(P[p], Q[q])
<1> DEFINE Upto(k, j) == \A i \in 1..k : g[i] <= j
           S == {k \in Nat : k <= p => \A j \in 0..q : Upto(k, j) => Part(P[k], Q[j])}
<1>0. /\ p \in Nat /\ q \in Nat
      /\ \A k \in 0..p : P[k] \in Ink
      /\ \A k \in 0..q : Q[k] \in Ink
      /\ \A k \in 1..p : a[k] \in Ink /\ P[k] = P[k - 1] \o a[k]
      /\ \A k \in 1..q : b[k] \in Ink /\ Q[k] = Q[k - 1] \o b[k]
      /\ P[0] = << >> /\ \A k \in 1..p : g[k] \in 0..q
  BY DEF Piled, Drawn
<1>1. 0 \in S
  BY <1>0, PartSame
<1>2. ASSUME NEW k \in S PROVE k + 1 \in S
  <2> SUFFICES ASSUME k + 1 <= p, NEW j \in 0..q, Upto(k + 1, j) PROVE Part(P[k + 1], Q[j])
    OBVIOUS
  <2>1. k \in Nat /\ k \in 0..p /\ k + 1 \in 1..p /\ (k + 1) - 1 = k /\ k + 1 \in 0..p
    BY <1>0
  <2>2. ASSUME NEW l \in 0..q, Upto(k, l) PROVE Part(P[k], Q[l])
    BY <2>1, <2>2
  <2> DEFINE n == k + 1
             u == P[k]
             e == a[n]
             w == P[n]
  <2>a. n \in 1..p /\ n \in 0..p /\ n - 1 = k /\ n \in 1..(k + 1)
    BY <2>1
  <2>b. n = k + 1
    OBVIOUS
  <2> HIDE DEF n
  <2>3. u \in Ink /\ e \in Ink /\ w = u \o e /\ w \in Ink /\ g[n] \in 0..q /\ g[n] <= j
    BY <1>0, <2>1, <2>a
  <2> HIDE DEF u, e, w
  <2>4. CASE g[n] = 0
    <3>1. e = << >>
      BY <2>a, <2>4 DEF Drawn, e
    <3>2. w = u
      BY <2>3, <3>1, InkFacts
    <3>3. Upto(k, j)
      BY <2>1
    <3> QED
      BY <2>b, <2>2, <3>2, <3>3 DEF u, w
  <2>5. CASE g[n] # 0
    <3> DEFINE l == g[n]
               v == Q[l - 1]
               d == b[l]
    <3>0. Part(e, d)
      BY <2>a, <2>5 DEF Drawn, e
    <3>1. l \in 1..q /\ l - 1 \in 0..q /\ l \in 0..q /\ Part(e, d)
      BY <1>0, <2>3, <2>5, <3>0
    <3>2. v \in Ink /\ d \in Ink /\ Q[l] = v \o d /\ Q[l] \in Ink /\ Q[j] \in Ink
      BY <1>0, <3>1
    <3>3. Upto(k, l - 1)
      <4> SUFFICES ASSUME NEW i \in 1..k PROVE g[i] <= l - 1
        OBVIOUS
      <4>1. i \in 1..p /\ i < n /\ g[i] \in 0..q
        BY <1>0, <2>1, <2>b
      <4>2. g[i] # 0 => g[i] < g[n]
        BY <2>a, <2>5, <4>1 DEF Drawn
      <4> QED
        BY <3>1, <4>1, <4>2
    <3>4. Part(u, v)
      BY <2>2, <3>1, <3>3 DEF u
    <3>5. l <= j
      BY <2>3
    <3> HIDE DEF l
    <3>6. Part(Q[l], Q[j])
      BY <3>1, <3>5, PiledGrows
    <3> HIDE DEF v, d
    <3>7. Part(w, v \o d)
      BY <2>3, <3>1, <3>2, <3>4, PartJoin
    <3>8. Part(w, Q[j])
      BY <2>3, <3>2, <3>6, <3>7, PartTrans
    <3> QED
      BY <2>b, <3>8 DEF w
  <2> QED
    BY <2>4, <2>5
<1>3. S = Nat
  <2> HIDE DEF S
  <2>1. S \in SUBSET Nat
    BY DEF S
  <2> QED
    BY <1>1, <1>2, <2>1, SetInduction
<1>4. p \in S /\ Upto(p, q) /\ q \in 0..q
  BY <1>0, <1>3
<1> QED
  BY <1>0, <1>4

\* A row's cells, one after another.
LEMMA BarePart ==
  ASSUME NEW x \in Ink, NEW y \in Ink, NEW g \in [1..Len(x) -> 0..Len(y)],
         \A i \in 1..Len(x) : x[i] = IF g[i] = 0 THEN Blank ELSE y[g[i]],
         \A i, j \in 1..Len(x) : i < j /\ g[i] # 0 /\ g[j] # 0 => g[i] < g[j]
  PROVE  Part(Bare(x), Bare(y))
<1> DEFINE P(z) == [k \in 0..Len(z) |-> Bare(SubSeq(z, 1, k))]
           A(z) == [k \in 1..Len(z) |-> Bare(<< z[k] >>)]
<1>1. ASSUME NEW z \in Ink
      PROVE  /\ Piled(Len(z), P(z), A(z)) /\ P(z)[Len(z)] = Bare(z)
             /\ \A k \in 1..Len(z) : A(z)[k] = IF z[k] = Blank THEN << >> ELSE << z[k] >>
  <2>0. Len(z) \in Nat /\ z \in Seq(Int) /\ \A k \in 1..Len(z) : z[k] \in Int
    BY DEF Ink
  <2>1. ASSUME NEW k \in 0..Len(z) PROVE SubSeq(z, 1, k) \in Ink /\ Bare(SubSeq(z, 1, k)) \in Ink
    <3>1. SubSeq(z, 1, k) \in Ink
      BY <2>0, SplitSeq DEF Ink
    <3> QED
      BY <3>1, BareType
  <2>2. ASSUME NEW k \in 1..Len(z)
        PROVE  /\ Bare(<< z[k] >>) \in Ink
               /\ Bare(<< z[k] >>) = IF z[k] = Blank THEN << >> ELSE << z[k] >>
               /\ Bare(SubSeq(z, 1, k)) = Bare(SubSeq(z, 1, k - 1)) \o Bare(<< z[k] >>)
    <3>1. << >> \in Ink /\ z[k] \in Int /\ << z[k] >> \in Ink /\ Append(<< >>, z[k]) = << z[k] >>
      BY <2>0 DEF Ink
    <3>2. Bare(<< z[k] >>) = IF z[k] = Blank THEN << >> ELSE << z[k] >>
      BY <3>1, BareSnoc
    <3>3. k - 1 \in 0..Len(z) /\ SubSeq(z, 1, k) = SubSeq(z, 1, k - 1) \o << z[k] >>
      <4>1. k - 1 \in 0..Len(z)
        BY <2>0
      <4>2. SubSeq(z, 1, k) = Append(SubSeq(z, 1, k - 1), z[k])
        BY <2>0
      <4>3. \A s \in Seq(Int), e \in Int : Append(s, e) = s \o << e >>
        OBVIOUS
      <4>4. SubSeq(z, 1, k - 1) \in Seq(Int)
        BY <2>1, <4>1 DEF Ink
      <4> QED
        BY <3>1, <4>1, <4>2, <4>3, <4>4
    <3>4. SubSeq(z, 1, k - 1) \in Ink
      BY <2>1, <3>3
    <3>5. Bare(SubSeq(z, 1, k - 1) \o << z[k] >>) = Bare(SubSeq(z, 1, k - 1)) \o Bare(<< z[k] >>)
      BY <3>1, <3>4, BareJoin
    <3> QED
      BY <3>1, <3>2, <3>3, <3>5, BareType
  <2>3. SubSeq(z, 1, 0) = << >> /\ SubSeq(z, 1, Len(z)) = z
    BY <2>0
  <2>4. Bare(<< >>) = << >>
    BY BareSnoc, InkFacts
  <2>5. P(z)[0] = << >> /\ P(z)[Len(z)] = Bare(z)
    <3>1. 0 \in 0..Len(z) /\ Len(z) \in 0..Len(z)
      BY <2>0
    <3>2. P(z)[0] = Bare(SubSeq(z, 1, 0)) /\ P(z)[Len(z)] = Bare(SubSeq(z, 1, Len(z)))
      BY <3>1
    <3> QED
      BY ONLY <2>3, <2>4, <3>2
  <2>6. P(z) \in [0..Len(z) -> Ink] /\ A(z) \in [1..Len(z) -> Ink]
    BY <2>1, <2>2
  <2>7. ASSUME NEW k \in 1..Len(z) PROVE P(z)[k] = P(z)[k - 1] \o A(z)[k]
    <3>1. k \in 0..Len(z) /\ k - 1 \in 0..Len(z)
      BY <2>0
    <3> QED
      BY <2>2, <3>1
  <2> HIDE DEF P
  <2>8. \A k \in 1..Len(z) : A(z)[k] = IF z[k] = Blank THEN << >> ELSE << z[k] >>
    BY <2>2
  <2> HIDE DEF A
  <2> QED
    BY <2>0, <2>5, <2>6, <2>7, <2>8 DEF Piled
<1> HIDE DEF P, A
<1>2. ASSUME NEW i \in 1..Len(x)
      PROVE  IF g[i] = 0 THEN A(x)[i] = << >> ELSE Part(A(x)[i], A(y)[g[i]])
  <2>1. CASE g[i] = 0
    BY <1>1, <2>1
  <2>2. CASE g[i] # 0
    <3>1. g[i] \in 1..Len(y) /\ x[i] = y[g[i]]
      BY <2>2
    <3>2. A(x)[i] = A(y)[g[i]]
      <4>1. A(x)[i] = IF x[i] = Blank THEN << >> ELSE << x[i] >>
        BY <1>1
      <4>2. A(y)[g[i]] = IF y[g[i]] = Blank THEN << >> ELSE << y[g[i]] >>
        BY <1>1, <3>1
      <4> QED
        BY <3>1, <4>1, <4>2
    <3>3. A(x)[i] \in Ink
      BY <1>1 DEF Piled
    <3> QED
      BY <2>2, <3>2, <3>3, PartSame
  <2> QED
    BY <2>1, <2>2
<1>3. Drawn(Len(x), A(x), Len(y), A(y), g)
  BY <1>2 DEF Drawn
<1>4. Piled(Len(x), P(x), A(x)) /\ Piled(Len(y), P(y), A(y))
  BY <1>1
<1>5. Part(P(x)[Len(x)], P(y)[Len(y)])
  BY <1>3, <1>4, PiledPart
<1> QED
  BY <1>1, <1>5

-----------------------------------------------------------------------------
(* Sequences of texts, poured together without their blanks *)

\* The characters of texts read one after another.
Poured(texts) == Bare(FlattenSeq(texts))
TextsOf(rows) == [i \in DOMAIN rows |-> rows[i].text]
CellsOf(rows) == [i \in DOMAIN rows |-> rows[i].cells]

\* The characters of one more text come after those of the texts before it.
LEMMA PouredSnoc ==
  ASSUME NEW w \in Seq(Text), NEW e \in Text
  PROVE  /\ Poured(<< >>) = << >> /\ Poured(w) \in Ink /\ Bare(e) \in Ink
         /\ Poured(Append(w, e)) = Poured(w) \o Bare(e)
<1>1. FlattenSeq(w) \in Ink /\ FlattenSeq(Append(w, e)) = FlattenSeq(w) \o e /\ e \in Ink
  BY FlatLines, InkFacts
<1>2. FlattenSeq(<< >>) = << >> /\ Bare(<< >>) = << >>
  <2>1. << >> \in Seq(Seq(Nat)) /\ << >> \in Seq(Nat) /\ << >> \in Ink /\ 0 \in Int
    BY InkFacts
  <2>2. FlattenSeq(<< >>) = << >>
    BY <2>1, FlattenSnoc
  <2> QED
    BY <2>1, <2>2, BareSnoc
<1> QED
  BY <1>1, <1>2, BareJoin, BareType DEF Poured

\* The characters of two sequences of texts end to end are theirs end to end.
LEMMA PouredJoin ==
  ASSUME NEW x \in Seq(Text), NEW y \in Seq(Text)
  PROVE  /\ x \o y \in Seq(Text) /\ Poured(x \o y) = Poured(x) \o Poured(y)
         /\ Poured(x) \in Ink /\ Poured(y) \in Ink
<1>1. x \o y \in Seq(Text) /\ Blank \in Int
  BY Joined DEF Blank
<1>2. ASSUME NEW w \in Seq(Text) PROVE LinesRead(Blank, w) = Poured(w)
  BY FlatLines DEF Poured
<1>3. /\ LinesRead(Blank, x \o y) = LinesRead(Blank, x) \o LinesRead(Blank, y)
      /\ LinesRead(Blank, x) \in Ink /\ LinesRead(Blank, y) \in Ink
  BY <1>1, LinesReadJoin
<1> QED
  BY <1>1, <1>2, <1>3

\* A sequence up to an element is the sequence up to the one before, and that element.
LEMMA OneMore ==
  ASSUME NEW S, NEW s \in Seq(S), NEW k \in 1..Len(s)
  PROVE  SubSeq(s, 1, k) = Append(SubSeq(s, 1, k - 1), s[k])
  OBVIOUS

\* A sequence of texts put together from parts of another's, in the same order.
LEMMA PouredPart ==
  ASSUME NEW x \in Seq(Text), NEW y \in Seq(Text), NEW g \in [1..Len(x) -> 0..Len(y)],
         \A i \in 1..Len(x) : IF g[i] = 0 THEN Bare(x[i]) = << >>
                                          ELSE Part(Bare(x[i]), Bare(y[g[i]])),
         \A i, j \in 1..Len(x) : i < j /\ g[i] # 0 /\ g[j] # 0 => g[i] < g[j]
  PROVE  Part(Poured(x), Poured(y))
<1> DEFINE P(z) == [k \in 0..Len(z) |-> Poured(SubSeq(z, 1, k))]
           A(z) == [k \in 1..Len(z) |-> Bare(z[k])]
<1>1. ASSUME NEW z \in Seq(Text)
      PROVE  /\ Piled(Len(z), P(z), A(z)) /\ P(z)[Len(z)] = Poured(z)
             /\ \A k \in 1..Len(z) : A(z)[k] = Bare(z[k])
  <2>0. Len(z) \in Nat /\ \A k \in 1..Len(z) : z[k] \in Text
    OBVIOUS
  <2>1. ASSUME NEW k \in 0..Len(z)
        PROVE  SubSeq(z, 1, k) \in Seq(Text) /\ Poured(SubSeq(z, 1, k)) \in Ink
    <3>1. SubSeq(z, 1, k) \in Seq(Text)
      BY SplitSeq
    <3> QED
      BY <3>1, PouredJoin
  <2>2. ASSUME NEW k \in 1..Len(z)
        PROVE  /\ Bare(z[k]) \in Ink
               /\ Poured(SubSeq(z, 1, k)) = Poured(SubSeq(z, 1, k - 1)) \o Bare(z[k])
    <3>1. k - 1 \in 0..Len(z) /\ z[k] \in Text
      BY <2>0
    <3>2. SubSeq(z, 1, k) = Append(SubSeq(z, 1, k - 1), z[k])
      BY OneMore
    <3>3. SubSeq(z, 1, k - 1) \in Seq(Text)
      BY <2>1, <3>1
    <3> QED
      BY <3>1, <3>2, <3>3, PouredSnoc
  <2>3. SubSeq(z, 1, 0) = << >> /\ SubSeq(z, 1, Len(z)) = z
    BY <2>0
  <2>4. Poured(<< >>) = << >>
    <3>1. << >> \in Text
      BY DEF Text
    <3> QED
      BY <3>1, PouredSnoc
  <2>5. P(z)[0] = << >> /\ P(z)[Len(z)] = Poured(z)
    <3>1. 0 \in 0..Len(z) /\ Len(z) \in 0..Len(z)
      BY <2>0
    <3>2. P(z)[0] = Poured(SubSeq(z, 1, 0)) /\ P(z)[Len(z)] = Poured(SubSeq(z, 1, Len(z)))
      BY <3>1
    <3> QED
      BY ONLY <2>3, <2>4, <3>2
  <2>6. P(z) \in [0..Len(z) -> Ink] /\ A(z) \in [1..Len(z) -> Ink]
    BY <2>1, <2>2
  <2>7. ASSUME NEW k \in 1..Len(z) PROVE P(z)[k] = P(z)[k - 1] \o A(z)[k]
    <3>1. k \in 0..Len(z) /\ k - 1 \in 0..Len(z)
      BY <2>0
    <3> QED
      BY <2>2, <3>1
  <2> HIDE DEF P
  <2>8. \A k \in 1..Len(z) : A(z)[k] = Bare(z[k])
    OBVIOUS
  <2> HIDE DEF A
  <2> QED
    BY <2>0, <2>5, <2>6, <2>7, <2>8 DEF Piled
<1> HIDE DEF P, A
<1>2. ASSUME NEW i \in 1..Len(x)
      PROVE  IF g[i] = 0 THEN A(x)[i] = << >> ELSE Part(A(x)[i], A(y)[g[i]])
  <2>1. A(x)[i] = Bare(x[i])
    BY <1>1
  <2>2. g[i] # 0 => A(y)[g[i]] = Bare(y[g[i]])
    <3>1. g[i] # 0 => g[i] \in 1..Len(y)
      OBVIOUS
    <3> QED
      BY <1>1, <3>1
  <2> QED
    BY <2>1, <2>2
<1>3. Drawn(Len(x), A(x), Len(y), A(y), g)
  BY <1>2 DEF Drawn
<1>4. Piled(Len(x), P(x), A(x)) /\ Piled(Len(y), P(y), A(y))
  BY <1>1
<1>5. Part(P(x)[Len(x)], P(y)[Len(y)])
  BY <1>3, <1>4, PiledPart
<1> QED
  BY <1>1, <1>5

-----------------------------------------------------------------------------
(* Rows, read without the ends of their lines, are their texts poured together *)

\* Read with blanks for their ends, lines leave nothing between them.
LEMMA BlankEnd == End(Blank) = << >>
<1>1. Blank \in Int /\ << >> \in Ink /\ Append(<< >>, Blank) = << Blank >>
  BY InkFacts DEF Blank
<1> QED
  BY <1>1, BareSnoc DEF End

\* The texts of rows that have left the grid, one by one.
LEMMA TextsFacts ==
  ASSUME NEW S, \A d \in S : d.text \in Text, NEW x \in Seq(S)
  PROVE  /\ TextsOf(x) \in Seq(Text) /\ Len(TextsOf(x)) = Len(x)
         /\ \A i \in 1..Len(x) : TextsOf(x)[i] = x[i].text
         /\ TextsOf(<< >>) = << >>
         /\ \A e \in S : TextsOf(Append(x, e)) = Append(TextsOf(x), e.text)
<1>1. ASSUME NEW z \in Seq(S)
      PROVE  /\ TextsOf(z) \in Seq(Text) /\ Len(TextsOf(z)) = Len(z)
             /\ \A i \in 1..Len(z) : TextsOf(z)[i] = z[i].text
  <2>1. TextsOf(z) = [i \in 1..Len(z) |-> z[i].text] /\ Len(z) \in Nat
    BY DEF TextsOf
  <2>2. \A i \in 1..Len(z) : z[i].text \in Text
    OBVIOUS
  <2> QED
    BY <2>1, <2>2
<1>2. TextsOf(<< >>) = << >>
  BY DEF TextsOf
<1>3. ASSUME NEW e \in S PROVE TextsOf(Append(x, e)) = Append(TextsOf(x), e.text)
  <2> DEFINE y == Append(x, e)
             p == TextsOf(y)
             q == Append(TextsOf(x), e.text)
  <2>1. /\ y \in Seq(S) /\ Len(y) = Len(x) + 1 /\ y[Len(x) + 1] = e /\ Len(x) \in Nat
        /\ \A i \in 1..Len(x) : y[i] = x[i]
    OBVIOUS
  <2> HIDE DEF y
  <2>2. /\ p \in Seq(Text) /\ Len(p) = Len(x) + 1
        /\ \A i \in 1..Len(x) + 1 : p[i] = y[i].text
    BY <1>1, <2>1
  <2>3. /\ q \in Seq(Text) /\ Len(q) = Len(x) + 1 /\ q[Len(x) + 1] = e.text
        /\ \A i \in 1..Len(x) : q[i] = x[i].text
    <3>1. /\ TextsOf(x) \in Seq(Text) /\ Len(TextsOf(x)) = Len(x) /\ e.text \in Text
          /\ \A i \in 1..Len(x) : TextsOf(x)[i] = x[i].text
      BY <1>1
    <3> QED
      BY <3>1
  <2> HIDE DEF p, q
  <2>4. ASSUME NEW i \in 1..Len(p) PROVE p[i] = q[i]
    <3>1. i = Len(x) + 1 \/ i \in 1..Len(x)
      BY <2>1, <2>2
    <3> QED
      BY <2>1, <2>2, <2>3, <3>1
  <2> QED
    BY <2>2, <2>3, <2>4, SameSeq DEF p, q, y
<1> QED
  BY <1>1, <1>2, <1>3

\* The cells of rows on the grid, one by one.
LEMMA CellsFacts ==
  ASSUME NEW n \in Nat, NEW x \in Seq(Width(n))
  PROVE  /\ CellsOf(x) \in Seq(Text) /\ Len(CellsOf(x)) = Len(x)
         /\ \A i \in 1..Len(x) : CellsOf(x)[i] = x[i].cells
         /\ CellsOf(<< >>) = << >>
         /\ \A e \in Width(n) : CellsOf(Append(x, e)) = Append(CellsOf(x), e.cells)
<1>1. ASSUME NEW z \in Seq(Width(n))
      PROVE  /\ CellsOf(z) \in Seq(Text) /\ Len(CellsOf(z)) = Len(z)
             /\ \A i \in 1..Len(z) : CellsOf(z)[i] = z[i].cells
  <2>1. CellsOf(z) = [i \in 1..Len(z) |-> z[i].cells] /\ Len(z) \in Nat
    BY DEF CellsOf
  <2>2. \A i \in 1..Len(z) : z[i].cells \in Text
    <3>1. \A r \in Width(n) : r.cells \in Text
      BY DEF Width
    <3> QED
      BY <3>1
  <2> QED
    BY <2>1, <2>2
<1>2. CellsOf(<< >>) = << >>
  BY DEF CellsOf
<1>3. ASSUME NEW e \in Width(n) PROVE CellsOf(Append(x, e)) = Append(CellsOf(x), e.cells)
  <2> DEFINE y == Append(x, e)
             p == CellsOf(y)
             q == Append(CellsOf(x), e.cells)
  <2>1. /\ y \in Seq(Width(n)) /\ Len(y) = Len(x) + 1 /\ y[Len(x) + 1] = e /\ Len(x) \in Nat
        /\ \A i \in 1..Len(x) : y[i] = x[i]
    OBVIOUS
  <2> HIDE DEF y
  <2>2. /\ p \in Seq(Text) /\ Len(p) = Len(x) + 1
        /\ \A i \in 1..Len(x) + 1 : p[i] = y[i].cells
    BY <1>1, <2>1
  <2>3. /\ q \in Seq(Text) /\ Len(q) = Len(x) + 1 /\ q[Len(x) + 1] = e.cells
        /\ \A i \in 1..Len(x) : q[i] = x[i].cells
    <3>1. /\ CellsOf(x) \in Seq(Text) /\ Len(CellsOf(x)) = Len(x)
          /\ \A i \in 1..Len(x) : CellsOf(x)[i] = x[i].cells
      BY <1>1
    <3>2. e.cells \in Text
      BY DEF Width
    <3> QED
      BY <3>1, <3>2
  <2> HIDE DEF p, q
  <2>4. ASSUME NEW i \in 1..Len(p) PROVE p[i] = q[i]
    <3>1. i = Len(x) + 1 \/ i \in 1..Len(x)
      BY <2>1, <2>2
    <3> QED
      BY <2>1, <2>2, <2>3, <3>1
  <2> QED
    BY <2>2, <2>3, <2>4, SameSeq DEF p, q, y
<1> QED
  BY <1>1, <1>2, <1>3

\* Rows on their way to Emacs are read as the characters of their texts.
LEMMA ReadPoured ==
  ASSUME NEW x \in Seq(Sent)
  PROVE  TextsOf(x) \in Seq(Text) /\ Read(Blank, x) = Poured(TextsOf(x)) /\ Read(Blank, x) \in Ink
<1> DEFINE Good == {z \in Seq(Sent) : Read(Blank, z) = Poured(TextsOf(z))}
<1>0. \A d \in Sent : d.text \in Text
  BY DEF Sent
<1>t. ASSUME NEW z \in Seq(Sent) PROVE TextsOf(z) \in Seq(Text) /\ TextsOf(<< >>) = << >>
  BY <1>0, TextsFacts
<1>b. Blank \in Int /\ << >> \in Text /\ << >> \in Seq(Sent) /\ << >> \in Seq(Text)
      /\ [text |-> << >>, newline |-> TRUE] \in Sent
  BY DEF Blank, Text, Sent
<1>1. << >> \in Good
  <2>1. Read(Blank, << >>) = << >>
    BY <1>b, ReadSnoc
  <2>2. Poured(<< >>) = << >>
    BY <1>b, PouredSnoc
  <2> QED
    BY <1>b, <1>t, <2>1, <2>2
<1>2. ASSUME NEW w \in Good, NEW e \in Sent PROVE Append(w, e) \in Good
  <2>1. w \in Seq(Sent) /\ Read(Blank, w) = Poured(TextsOf(w)) /\ Append(w, e) \in Seq(Sent)
        /\ TextsOf(w) \in Seq(Text) /\ e.text \in Text
    BY <1>0, <1>t
  <2>2. Read(Blank, Append(w, e)) = Read(Blank, w) \o Glyphs(Blank, e)
    BY <1>b, <2>1, ReadSnoc
  <2>3. Glyphs(Blank, e) = Bare(e.text)
    <3>1. /\ Glyphs(Blank, e) = IF e.newline THEN Bare(e.text) \o End(Blank) ELSE Bare(e.text)
          /\ Bare(e.text) \in Ink
      BY <1>b, GlyphFacts
    <3>2. Bare(e.text) \o << >> = Bare(e.text)
      BY <3>1, InkFacts
    <3> QED
      BY <3>1, <3>2, BlankEnd
  <2>4. TextsOf(Append(w, e)) = Append(TextsOf(w), e.text)
    BY <1>0, <2>1, TextsFacts
  <2>5. Poured(Append(TextsOf(w), e.text)) = Poured(TextsOf(w)) \o Bare(e.text)
    BY <2>1, PouredSnoc
  <2> QED
    BY <2>1, <2>2, <2>3, <2>4, <2>5
<1>3. Good = Seq(Sent)
  <2>1. Good \in SUBSET Seq(Sent)
    OBVIOUS
  <2> HIDE DEF Good
  <2> QED
    BY <1>1, <1>2, <2>1, SnocInduction
<1>4. Read(Blank, x) = Poured(TextsOf(x)) /\ TextsOf(x) \in Seq(Text)
  BY <1>3, <1>t
<1> QED
  BY <1>4, PouredJoin

\* So are rows in the backlog.
LEMMA GonePoured ==
  ASSUME NEW x \in Seq(Gone)
  PROVE  /\ TextsOf(x) \in Seq(Text) /\ GoneRead(Blank, x) = Poured(TextsOf(x))
         /\ GoneRead(Blank, x) \in Ink
<1>1. \A d \in Gone : d.text \in Text
  BY DEF Gone
<1>2. /\ TextsOf(x) \in Seq(Text) /\ Len(TextsOf(x)) = Len(x)
      /\ \A i \in 1..Len(x) : TextsOf(x)[i] = x[i].text
  BY <1>1, TextsFacts
<1> DEFINE y == Onto(TRUE, x)
<1>3. y \in Seq(Sent) /\ Len(y) = Len(x) /\ \A i \in 1..Len(x) : y[i].text = x[i].text
  <2>1. ASSUME NEW b \in BOOLEAN, b = TRUE
        PROVE  Onto(b, x) \in Seq(Sent) /\ Len(Onto(b, x)) = Len(x)
               /\ \A i \in 1..Len(x) : Onto(b, x)[i].text = x[i].text
    <3>1. /\ Onto(b, x) \in Seq(Sent) /\ Len(Onto(b, x)) = Len(x)
          /\ \A i \in 1..Len(x) : Onto(b, x)[i] = SentAs(b, x[i])
      BY OntoAt
    <3>2. \A i \in 1..Len(x) : SentAs(b, x[i]).text = x[i].text
      BY DEF SentAs
    <3> QED
      BY <3>1, <3>2
  <2> QED
    BY <2>1
<1> HIDE DEF y
<1>4. \A d \in Sent : d.text \in Text
  BY DEF Sent
<1>5. /\ TextsOf(y) \in Seq(Text) /\ Len(TextsOf(y)) = Len(x)
      /\ \A i \in 1..Len(x) : TextsOf(y)[i] = y[i].text
  BY <1>3, <1>4, TextsFacts
<1>6. ASSUME NEW i \in 1..Len(x) PROVE TextsOf(y)[i] = TextsOf(x)[i]
  <2>1. y[i].text = x[i].text
    BY <1>3
  <2> QED
    BY <1>2, <1>5, <2>1
<1>7. TextsOf(y) = TextsOf(x)
  BY <1>2, <1>5, <1>6, SameSeq
<1> QED
  BY <1>2, <1>3, <1>7, ReadPoured DEF GoneRead, y

\* What a grid shows.
Grid(s) == RowsRead(Blank, s.rows)

\* Rows of a grid are read as the characters of their cells.
LEMMA RowsPoured ==
  ASSUME NEW n \in Nat, NEW x \in Seq(Width(n))
  PROVE  RowsRead(Blank, x) = Poured(CellsOf(x)) /\ RowsRead(Blank, x) \in Ink /\ CellsOf(x) \in Seq(Text)
<1> DEFINE Good == {z \in Seq(Width(n)) : RowsRead(Blank, z) = Poured(CellsOf(z))}
<1>t. ASSUME NEW z \in Seq(Width(n)) PROVE CellsOf(z) \in Seq(Text) /\ CellsOf(<< >>) = << >>
  BY CellsFacts
<1>b. Blank \in Int /\ << >> \in Text /\ << >> \in Seq(Width(n)) /\ << >> \in Seq(Text)
  BY DEF Blank, Text
<1>1. << >> \in Good
  <2>1. RowsRead(Blank, << >>) = << >>
    BY <1>b, RowsReadJoin
  <2>2. Poured(<< >>) = << >>
    BY <1>b, PouredSnoc
  <2> QED
    BY <1>b, <1>t, <2>1, <2>2
<1>2. ASSUME NEW w \in Good, NEW e \in Width(n) PROVE Append(w, e) \in Good
  <2>0. e.cells \in Text
    BY DEF Width
  <2>1. w \in Seq(Width(n)) /\ RowsRead(Blank, w) = Poured(CellsOf(w)) /\ Append(w, e) \in Seq(Width(n))
        /\ CellsOf(w) \in Seq(Text)
    BY <1>t
  <2>2. RowsRead(Blank, Append(w, e)) = RowsRead(Blank, w) \o RowInk(Blank, e) /\ Bare(e.cells) \in Ink
    BY <1>b, <2>1, RowsReadSnoc
  <2>3. RowInk(Blank, e) = Bare(e.cells)
    <3>1. Bare(e.cells) \o << >> = Bare(e.cells)
      BY <2>2, InkFacts
    <3> QED
      BY <3>1, BlankEnd DEF RowInk
  <2>4. CellsOf(Append(w, e)) = Append(CellsOf(w), e.cells)
    BY <2>1, CellsFacts
  <2>5. Poured(Append(CellsOf(w), e.cells)) = Poured(CellsOf(w)) \o Bare(e.cells)
    BY <2>0, <2>1, PouredSnoc
  <2> QED
    BY <2>1, <2>2, <2>3, <2>4, <2>5
<1>3. Good = Seq(Width(n))
  <2>1. Good \in SUBSET Seq(Width(n))
    OBVIOUS
  <2> HIDE DEF Good
  <2> QED
    BY <1>1, <1>2, <2>1, SnocInduction
<1>4. RowsRead(Blank, x) = Poured(CellsOf(x)) /\ CellsOf(x) \in Seq(Text)
  BY <1>3, <1>t
<1> QED
  BY <1>4, PouredJoin

-----------------------------------------------------------------------------
(* A resize of a screen without margins, whatever is drawn on it *)

\* Nothing is drawn on the rows from k on.
NothingFrom(rows, k) == \A i \in k .. Len(rows) : Bare(rows[i].cells) = << >>

\* Rows with nothing on them are read as nothing.
LEMMA NothingRead ==
  ASSUME NEW n \in Nat, NEW x \in Seq(Width(n)), NothingFrom(x, 1)
  PROVE  RowsRead(Blank, x) = << >>
<1> DEFINE Good == {z \in Seq(Width(n)) : NothingFrom(z, 1) => RowsRead(Blank, z) = << >>}
<1>b. Blank \in Int /\ << >> \in Seq(Width(n))
  BY DEF Blank
<1>1. << >> \in Good
  BY <1>b, RowsReadJoin
<1>2. ASSUME NEW w \in Good, NEW e \in Width(n) PROVE Append(w, e) \in Good
  <2>1. w \in Seq(Width(n)) /\ Append(w, e) \in Seq(Width(n)) /\ Len(w) \in Nat
        /\ Len(Append(w, e)) = Len(w) + 1 /\ Append(w, e)[Len(w) + 1] = e
        /\ \A i \in 1..Len(w) : Append(w, e)[i] = w[i]
    OBVIOUS
  <2>2. SUFFICES ASSUME NothingFrom(Append(w, e), 1) PROVE RowsRead(Blank, Append(w, e)) = << >>
    BY <2>1
  <2> DEFINE y == Append(w, e)
  <2>3. Len(w) + 1 \in 1..Len(y) /\ \A i \in 1..Len(w) : i \in 1..Len(y)
    BY <2>1
  <2>4. Bare(e.cells) = << >> /\ NothingFrom(w, 1)
    <3> HIDE DEF y
    <3> QED
      BY <2>1, <2>2, <2>3 DEF NothingFrom, y
  <2>5. RowsRead(Blank, w) = << >>
    BY <2>4
  <2>6. RowsRead(Blank, y) = RowsRead(Blank, w) \o RowInk(Blank, e)
    BY <1>b, <2>1, RowsReadSnoc
  <2>7. RowInk(Blank, e) = << >>
    <3>1. << >> \o << >> = << >>
      OBVIOUS
    <3> QED
      BY <2>4, <3>1, BlankEnd DEF RowInk
  <2>8. << >> \o << >> = << >>
    OBVIOUS
  <2> QED
    BY <2>5, <2>6, <2>7, <2>8
<1>3. Good = Seq(Width(n))
  <2>1. Good \in SUBSET Seq(Width(n))
    OBVIOUS
  <2> HIDE DEF Good
  <2> QED
    BY <1>1, <1>2, <2>1, SnocInduction
<1> QED
  BY <1>3

\* Rows with nothing on them at the end of a grid are not missed.
LEMMA TailBare ==
  ASSUME NEW n \in Nat, NEW rows \in Seq(Width(n)), NEW g \in 0..Len(rows), NothingFrom(rows, g + 1)
  PROVE  RowsRead(Blank, rows) = RowsRead(Blank, SubSeq(rows, 1, g))
<1> DEFINE x == SubSeq(rows, 1, g)
           y == SubSeq(rows, g + 1, Len(rows))
<1>1. /\ rows = x \o y /\ x \in Seq(Width(n)) /\ y \in Seq(Width(n)) /\ Len(y) = Len(rows) - g
      /\ \A i \in 1 .. Len(rows) - g : y[i] = rows[g + i]
  BY SplitSeq
<1> HIDE DEF x, y
<1>2. NothingFrom(y, 1)
  <2> SUFFICES ASSUME NEW i \in 1..Len(y) PROVE Bare(y[i].cells) = << >>
    BY DEF NothingFrom
  <2>1. g + i \in g + 1 .. Len(rows) /\ i \in 1 .. Len(rows) - g
    BY <1>1
  <2> QED
    BY <1>1, <2>1 DEF NothingFrom
<1>3. Blank \in Int
  BY DEF Blank
<1>4. RowsRead(Blank, y) = << >>
  BY <1>1, <1>2, NothingRead
<1>5. RowsRead(Blank, rows) = RowsRead(Blank, x) \o RowsRead(Blank, y) /\ RowsRead(Blank, x) \in Ink
  BY <1>1, <1>3, RowsReadJoin
<1>6. RowsRead(Blank, x) \o << >> = RowsRead(Blank, x)
  BY <1>5, InkFacts
<1> QED
  BY <1>4, <1>5, <1>6 DEF x

\* Beyond the rows in use nothing is drawn (Screen::last_used_row).
LEMMA UsedBare ==
  ASSUME NEW n, NEW s, Whole(n, s)
  PROVE  NothingFrom(s.rows, Used(s) + 1)
<1> DEFINE Marks == {1} \cup {r \in 1..Height(s) : HasText(s.rows[r])}
<1>1. /\ Height(s) \in Nat /\ Height(s) = Len(s.rows) /\ Height(s) >= 1 /\ s.row \in 1..Len(s.rows)
      /\ s.rows \in Seq(Width(n)) /\ n \in Nat
  BY DEF Height, Whole, Screens, Positive
<1>2. Marks \in SUBSET (0..Height(s)) /\ Marks # {}
  BY <1>1
<1>3. LastUsedRow(s) = Max(Marks)
  BY DEF LastUsedRow
<1>4. \A r \in 1..Height(s) : HasText(s.rows[r]) => r \in Marks
  OBVIOUS
<1> HIDE DEF Marks
<1>5. LastUsedRow(s) \in 0..Height(s) /\ \A r \in Marks : r <= LastUsedRow(s)
  BY <1>1, <1>2, <1>3, MaxBound
<1> HIDE DEF LastUsedRow
<1>6. Used(s) \in Nat /\ Used(s) >= LastUsedRow(s)
  BY <1>1, <1>5 DEF Used, Greatest
<1> SUFFICES ASSUME NEW i \in Used(s) + 1 .. Len(s.rows) PROVE Bare(s.rows[i].cells) = << >>
  BY DEF NothingFrom
<1>7. i \in 1..Height(s) /\ ~(i <= LastUsedRow(s))
  BY <1>1, <1>5, <1>6
<1>8. ~HasText(s.rows[i])
  BY <1>4, <1>5, <1>7
<1>9. s.rows[i] \in Width(n)
  BY <1>1, <1>7
<1>10. s.rows[i].cells \in Text /\ DOMAIN s.rows[i].cells = 1..Len(s.rows[i].cells)
  BY <1>9 DEF Width, Text
<1>11. \A j \in 1..Len(s.rows[i].cells) : s.rows[i].cells[j] = Blank
  BY <1>8, <1>10 DEF HasText
<1> QED
  BY <1>10, <1>11, InkFacts, BareBlanks

\* The rows that left and the screen they left behind read as a screen did.
Reads(n, f, s) ==
  /\ Whole(n, f.s) /\ f.out \in Seq(Gone)
  /\ GoneRead(Blank, f.out) \o Grid(f.s) = Grid(s)

\* The first g rows of a grid, the first k of them archived and the others on another grid.
Severed(n, grid, rows, g, k, out) ==
  /\ n \in Nat /\ grid \in Seq(Width(n)) /\ rows \in Seq(Width(n))
  /\ g \in 0..Len(grid) /\ k \in 0..g /\ g - k <= Len(rows)
  /\ \A i \in 1 .. g - k : rows[i] = grid[k + i]
  /\ out = DepartedRows(SubSeq(grid, 1, k))
\* They are read as before the cut, of a line already m characters long.
SeveredReads(m, grid, rows, g, k, out) ==
  /\ GoneRead(m, out) \o RowsRead(m, SubSeq(rows, 1, g - k)) = RowsRead(m, SubSeq(grid, 1, g))
  /\ GoneRead(m, out) \in Ink /\ out \in Seq(Gone)

\* They are read the same wherever the cut is.
LEMMA CutAt ==
  ASSUME NEW m \in Int, NEW n, NEW grid, NEW rows, NEW g, NEW k, NEW out,
         Severed(n, grid, rows, g, k, out)
  PROVE  SeveredReads(m, grid, rows, g, k, out)
  BY CutRead, ZenonT(60) DEF Severed, SeveredReads

\* A change of height loses only rows with nothing on them (Resize::Clamp).
LEMMA ClampReads ==
  ASSUME NEW n, NEW s, Whole(n, s), NEW h \in Positive, NEW f, f = ClampTo(s, h, n)
  PROVE  Reads(n, f, s)
<1>1. /\ n \in Nat /\ s.rows \in Seq(Width(n)) /\ Len(s.rows) \in Nat /\ h \in Nat /\ h >= 1
  BY DEF Whole, Screens, Positive
<1>2. Whole(n, f.s)
  BY ClampKeeps DEF Keeps
<1>3. PICK shed, left : Clamped(n, s, h, f, shed, left)
  BY ClampShape
<1> DEFINE grid == s.rows
           rows == f.s.rows
           g == shed + left
           out == f.out
<1>4. /\ grid \in Seq(Width(n)) /\ rows \in Seq(Width(n)) /\ Len(rows) = h
      /\ shed \in Nat /\ left \in Nat /\ left <= h /\ g >= Used(s) /\ g <= Len(grid)
      /\ out = DepartedRows(SubSeq(grid, 1, shed))
      /\ (\A i \in 1..left : rows[i] = grid[shed + i])
      /\ (\A i \in left + 1 .. h : rows[i] = BlankRow(n))
  BY <1>1, <1>2, <1>3 DEF Clamped, Whole, Screens
<1>5. NothingFrom(grid, Used(s) + 1) /\ Used(s) \in 1..Len(s.rows)
  BY UsedBare, UsedWithin
<1>6. g \in 0..Len(grid) /\ shed \in 0..g /\ g - shed = left /\ left \in 0..Len(rows)
  BY <1>1, <1>4
<1>7. NothingFrom(grid, g + 1)
  BY <1>1, <1>4, <1>5, <1>6 DEF NothingFrom
<1>8. NothingFrom(rows, left + 1)
  <2>1. Bare(BlankRow(n).cells) = << >>
    BY <1>1, BlankInk
  <2> HIDE DEF rows
  <2> QED
    BY <1>4, <2>1 DEF NothingFrom
<1> HIDE DEF grid, rows, g, out
<1>9. RowsRead(Blank, grid) = RowsRead(Blank, SubSeq(grid, 1, g))
  BY <1>1, <1>4, <1>6, <1>7, TailBare
<1>10. RowsRead(Blank, rows) = RowsRead(Blank, SubSeq(rows, 1, left))
  BY <1>1, <1>4, <1>6, <1>8, TailBare
<1>11. /\ GoneRead(Blank, out) \o RowsRead(Blank, SubSeq(rows, 1, g - shed))
            = RowsRead(Blank, SubSeq(grid, 1, g))
       /\ out \in Seq(Gone)
  <2>1. Blank \in Int
    BY DEF Blank
  <2>3. n \in Nat
    BY <1>1
  <2>2. /\ grid \in Seq(Width(n)) /\ rows \in Seq(Width(n)) /\ g \in 0..Len(grid) /\ shed \in 0..g
        /\ g - shed <= Len(rows) /\ (\A i \in 1 .. g - shed : rows[i] = grid[shed + i])
        /\ out = DepartedRows(SubSeq(grid, 1, shed))
    BY <1>4, <1>6
  <2>4. Severed(n, grid, rows, g, shed, out)
    BY ONLY <2>2, <2>3 DEF Severed
  <2> QED
    <3>1. SeveredReads(Blank, grid, rows, g, shed, out)
      BY ONLY <2>1, <2>4, CutAt
    <3> QED
      BY ONLY <3>1 DEF SeveredReads
<1> QED
  BY <1>2, <1>6, <1>9, <1>10, <1>11 DEF Reads, Grid, grid, rows, out

\* A rewrap cuts the text up again and loses none of it, wherever the cursor was left
\* and whatever was drawn below it (Screen::reflow).
LEMMA ReflowReads ==
  ASSUME NEW b, NEW s, Whole(b, s), NEW h \in Positive, NEW n \in Positive,
         NEW f, f = Reflow(s, h, n)
  PROVE  Reads(n, f, s)
<1> DEFINE m == Blank
           logical == LogicalLines(s)
           told == HeadOf(s)
           seam == Realign(logical, told, n)
           grid == Relaid(seam.logical.lines, n)
           c == Landing(seam.logical, n)
           kept == Fit(s, h, n, grid, c, seam.head)
<1>0. n \in Nat /\ m \in Int /\ b \in Nat /\ s.rows \in Seq(Width(b)) /\ Len(s.rows) \in Nat
      /\ h \in Nat
  BY DEF Positive, Blank, Whole, Screens
<1>1. told \in Nat
  <2>1. s.carried \in Nat /\ s.cols \in Nat
    BY <1>0 DEF Whole, Screens, Positive
  <2>2. ASSUME NEW x \in Nat, NEW y \in Nat PROVE x * y \in Nat
    OBVIOUS
  <2> QED
    BY <2>1, <2>2 DEF HeadOf
<1>2. Lined(logical) /\ Len(logical.lines) >= 1
  BY <1>0, LogicalFacts
<1>3. LinesRead(m, logical.lines) = Grid(s)
  <2>1. LinesRead(m, logical.lines) = Read(m, Pieces(s, Used(s))) \o End(m)
    BY <1>0, LogicalRead
  <2>2. Used(s) \in 1..Len(s.rows) /\ NothingFrom(s.rows, Used(s) + 1)
    BY UsedWithin, UsedBare
  <2> DEFINE k == Used(s) - 1
             top == SubSeq(s.rows, 1, Used(s))
             up == SubSeq(s.rows, 1, k)
             last == s.rows[k + 1]
  <2>3. k \in Nat /\ k + 1 = Used(s) /\ k + 1 \in 1..Len(s.rows)
    BY <1>0, <2>2
  <2>4. /\ Read(m, Pieces(s, Used(s))) = RowsRead(m, up) \o Bare(last.cells)
        /\ Pieces(s, Used(s)) \in Seq(Sent)
    <3> HIDE DEF k, m
    <3> QED
      BY <1>0, <2>3, PiecesRead
  <2>5. top = Append(up, s.rows[Used(s)]) /\ up \in Seq(Width(b)) /\ last \in Width(b)
        /\ s.rows[Used(s)] = last
    <3>1. top = Append(up, s.rows[Used(s)])
      BY <1>0, <2>2, OneMore
    <3>2. k \in 0..Len(s.rows)
      BY <2>3
    <3> HIDE DEF k
    <3> QED
      BY <1>0, <2>3, <3>1, <3>2, SplitSeq
  <2> HIDE DEF top, up, last, k
  <2>6. RowsRead(m, top) = RowsRead(m, up) \o RowInk(m, last) /\ Bare(last.cells) \in Ink
    <3>1. top = Append(up, last)
      BY <2>5
    <3> HIDE DEF m
    <3> QED
      BY <1>0, <2>5, <3>1, RowsReadSnoc
  <2>7. RowInk(m, last) = Bare(last.cells)
    <3>1. Bare(last.cells) \o << >> = Bare(last.cells)
      BY <2>6, InkFacts
    <3> QED
      BY <3>1, BlankEnd DEF RowInk
  <2>8. RowsRead(m, s.rows) = RowsRead(m, top)
    <3>1. Used(s) \in 0..Len(s.rows)
      BY <1>0, <2>2
    <3> QED
      BY <1>0, <2>2, <3>1, TailBare DEF top
  <2>9. Read(m, Pieces(s, Used(s))) \o End(m) = Read(m, Pieces(s, Used(s)))
    <3>1. Read(m, Pieces(s, Used(s))) \in Ink
      BY <2>4, ReadPoured
    <3> QED
      BY <3>1, InkFacts, BlankEnd
  <2> QED
    BY <2>1, <2>4, <2>6, <2>7, <2>8, <2>9 DEF Grid
<1> HIDE DEF logical, told
<1>s. seam = Realign(logical, told, n)
  OBVIOUS
<1> HIDE DEF seam
<1>4. Aligned(told, n, seam) /\ Realigned(m, logical, seam)
  <2> HIDE DEF m
  <2> QED
    BY <1>0, <1>1, <1>2, <1>s, RealignFacts, RealignRead
<1>5. /\ Lined(seam.logical) /\ seam.out \in Seq(Gone) /\ seam.head \in Nat
      /\ GoneRead(m, seam.out) \o LinesRead(m, seam.logical.lines) = Grid(s)
  BY <1>3, <1>4 DEF Aligned, Realigned
<1>6. /\ grid \in Seq(Width(n)) /\ RowsRead(m, grid) = LinesRead(m, seam.logical.lines)
      /\ Spot(n, c)
  BY <1>0, <1>5, RelaidType, RelaidRead, LandingSpot DEF Lined
<1>7. f.s = kept.s /\ f.out = seam.out \o kept.out
  <2> DEFINE joined == seam.out \o kept.out
  <2>1. f = [kept EXCEPT !.out = joined]
    BY <1>s DEF Reflow, Rewrap, logical, told
  <2>2. kept \in [s : {kept.s}, out : {kept.out}]
    BY DEF Fit
  <2> HIDE DEF kept, joined
  <2>3. f.s = kept.s /\ f.out = joined
    BY <2>1, <2>2
  <2> QED
    BY <2>3 DEF joined
<1> DEFINE held == seam.head
<1>8. kept = Fit(s, h, n, grid, c, held) /\ held \in Nat
  BY <1>5
<1> HIDE DEF kept, c, grid, held
<1>9. PICK over : Fitted(n, s, h, grid, c, kept, over)
  BY <1>0, <1>6, <1>8, FitShape
<1> DEFINE rows == kept.s.rows
           out == kept.out
           g == Len(grid)
<1>10. /\ over \in 0..g /\ g - over <= h /\ out = DepartedRows(SubSeq(grid, 1, over))
       /\ Whole(n, kept.s) /\ rows \in Seq(Width(n)) /\ Len(rows) = h
       /\ (\A i \in 1 .. g - over : rows[i] = grid[over + i])
       /\ (\A i \in g - over + 1 .. h : rows[i] = BlankRow(n))
  BY <1>9 DEF Fitted, Whole, Screens
<1>11. g \in 0..Len(grid) /\ g - over \in 0..Len(rows) /\ g - over <= Len(rows) /\ g \in Nat
       /\ SubSeq(grid, 1, g) = grid
  <2>1. SubSeq(grid, 1, Len(grid)) = grid /\ Len(grid) \in Nat
    BY <1>6
  <2> QED
    BY <1>0, <1>10, <2>1
<1> HIDE DEF rows, out, g
<1>12. NothingFrom(rows, g - over + 1)
  <2>1. Bare(BlankRow(n).cells) = << >>
    BY <1>0, BlankInk
  <2> QED
    BY <1>10, <2>1 DEF NothingFrom
<1>13. RowsRead(m, rows) = RowsRead(m, SubSeq(rows, 1, g - over))
  <2> DEFINE k == g - over
  <2>1. k \in 0..Len(rows) /\ NothingFrom(rows, k + 1)
    BY <1>11, <1>12
  <2> HIDE DEF k
  <2>2. RowsRead(m, rows) = RowsRead(m, SubSeq(rows, 1, k))
    BY <1>0, <1>10, <2>1, TailBare
  <2> QED
    BY <2>2 DEF k
<1>14. /\ GoneRead(m, out) \o RowsRead(m, SubSeq(rows, 1, g - over)) = RowsRead(m, SubSeq(grid, 1, g))
       /\ GoneRead(m, out) \in Ink /\ out \in Seq(Gone)
  <2>1. n \in Nat /\ m \in Int /\ grid \in Seq(Width(n)) /\ rows \in Seq(Width(n))
        /\ g \in 0..Len(grid) /\ over \in 0..g /\ g - over <= Len(rows)
        /\ out = DepartedRows(SubSeq(grid, 1, over))
    BY <1>0, <1>6, <1>10, <1>11
  <2>2. \A i \in 1 .. g - over : rows[i] = grid[over + i]
    BY <1>10
  <2>3. Severed(n, grid, rows, g, over, out)
    BY ONLY <2>1, <2>2 DEF Severed
  <2> QED
    <3>1. SeveredReads(m, grid, rows, g, over, out)
      BY <1>0, <2>3, CutAt
    <3> QED
      BY ONLY <3>1 DEF SeveredReads
<1> DEFINE X == GoneRead(m, seam.out)
           Y == GoneRead(m, out)
           V == RowsRead(m, rows)
<1>15. /\ X \o (Y \o V) = Grid(s)
       /\ X \in Ink /\ Y \in Ink /\ V \in Ink /\ GoneRead(m, seam.out \o out) = X \o Y
       /\ seam.out \o out \in Seq(Gone)
  <2>1. V \in Ink
    BY <1>0, <1>10, RowsReadJoin
  <2>2. X \in Ink /\ GoneRead(m, seam.out \o out) = X \o Y /\ seam.out \o out \in Seq(Gone)
    BY <1>0, <1>5, <1>14, GoneReadJoin, Joined
  <2>3. Y \o V = RowsRead(m, grid)
    BY <1>11, <1>13, <1>14
  <2> QED
    BY <1>5, <1>6, <1>14, <2>1, <2>2, <2>3
<1>16. (X \o Y) \o V = Grid(s)
  <2> HIDE DEF X, Y, V
  <2>1. Associates(X, Y, V)
    BY <1>15, InkAssoc
  <2> QED
    BY <1>15, <2>1 DEF Associates
<1> QED
  BY <1>7, <1>10, <1>15, <1>16 DEF Reads, Grid, rows, out

\* Whichever way a screen without margins is resized, its text stays (Screen::resize).
LEMMA ResizeReads ==
  ASSUME NEW n, NEW s, Whole(n, s), NEW h \in Positive, NEW w \in Positive,
         NEW f, f = ResizeScreen(s, h, w)
  PROVE  Reads(w, f, s)
<1>1. FullRegion(s) /\ s.cols = n
  BY DEF FullRegion, Height, Whole, Screens
<1>2. CASE w = n
  BY <1>1, <1>2, ClampReads DEF ResizeScreen
<1>3. CASE w # n
  BY <1>1, <1>3, ReflowReads DEF ResizeScreen
<1> QED
  BY <1>2, <1>3

-----------------------------------------------------------------------------
(* Screens with margins, whatever the child does *)

\* A screen n columns wide, its cursor and its margins on it.
Frames(n) ==
  [rows : Seq(Width(n)), cols : {n}, row : Positive, col : 0 .. n - 1, pend : BOOLEAN,
   top : Positive, bottom : Positive, carried : Nat, autowrap : BOOLEAN]
Framed(n, s) ==
  /\ n \in Positive /\ s \in Frames(n)
  /\ s.row <= Len(s.rows) /\ s.bottom <= Len(s.rows)

\* What an operation returns: a screen, and rows that have left it.
Stays(n, f) == Framed(n, f.s) /\ f.out \in Seq(Gone)

\* What a framed screen has.
LEMMA FramedFacts ==
  ASSUME NEW n, NEW s, Framed(n, s)
  PROVE  /\ n \in Nat /\ n >= 1 /\ n \in Positive /\ s \in Frames(n) /\ s.cols = n
         /\ s.rows \in Seq(Width(n)) /\ Len(s.rows) \in Nat /\ Len(s.rows) >= 1
         /\ DOMAIN s.rows = 1..Len(s.rows) /\ Height(s) = Len(s.rows)
         /\ s.row \in 1..Len(s.rows) /\ s.col \in 0 .. n - 1 /\ s.pend \in BOOLEAN
         /\ s.top \in Nat /\ s.top >= 1 /\ s.bottom \in 1..Len(s.rows)
         /\ s.carried \in Nat /\ s.autowrap \in BOOLEAN
         /\ \A r \in 1..Len(s.rows) : s.rows[r] \in Width(n)
  BY DEF Framed, Frames, Positive, Height

\* A screen without margins is whole, and a whole one is a screen.
LEMMA FramedWhole ==
  ASSUME NEW n, NEW s
  PROVE  /\ Framed(n, s) /\ FullRegion(s) => Whole(n, s)
         /\ Whole(n, s) => Framed(n, s)
<1>1. ASSUME Framed(n, s), FullRegion(s) PROVE Whole(n, s)
  BY <1>1, FramedFacts DEF Framed, Frames, FullRegion, Height, Whole, Screens
<1>2. ASSUME Whole(n, s) PROVE Framed(n, s)
  <2>1. n \in Positive /\ s \in Screens(n) /\ s.row <= Len(s.rows) /\ s.bottom <= Len(s.rows)
    BY <1>2 DEF Whole, Screens
  <2>2. s \in Frames(n)
    <3>1. 1 \in Positive
      BY DEF Positive
    <3> QED
      BY <2>1, <3>1 DEF Screens, Frames
  <2> QED
    BY <2>1, <2>2 DEF Framed
<1> QED
  BY <1>1, <1>2

\* Other rows on the same screen.
LEMMA Redrawn ==
  ASSUME NEW n, NEW s, Framed(n, s), NEW rs \in Seq(Width(n)), Len(rs) = Len(s.rows)
  PROVE  Framed(n, [s EXCEPT !.rows = rs])
  BY DEF Framed, Frames

\* Another row where the cursor is.
LEMMA RowRedrawn ==
  ASSUME NEW n, NEW s, Framed(n, s), NEW x \in Width(n)
  PROVE  Framed(n, [s EXCEPT !.rows[s.row] = x])
<1> DEFINE rs == [s.rows EXCEPT ![s.row] = x]
<1>1. rs \in Seq(Width(n)) /\ Len(rs) = Len(s.rows)
  BY FramedFacts
<1>2. [s EXCEPT !.rows[s.row] = x] = [s EXCEPT !.rows = rs]
  BY FramedFacts DEF Frames
<1> HIDE DEF rs
<1> QED
  BY <1>1, <1>2, Redrawn

\* Rows that leave have left.
LEMMA CutGone ==
  ASSUME NEW n, NEW s, Framed(n, s), NEW k \in 0..Len(s.rows)
  PROVE  DepartedRows(SubSeq(s.rows, 1, k)) \in Seq(Gone)
<1>1. SubSeq(s.rows, 1, k) \in Seq(Width(n)) /\ n \in Nat
  BY FramedFacts
<1> QED
  BY <1>1, DepartedType

\* The count of rows of the top line is a number (Screen::carry).
LEMMA CarryNat ==
  ASSUME NEW c \in Nat, NEW out \in Seq(Gone)
  PROVE  Carry(c, out) \in Nat
<1>1. [text |-> << >>, wrapped |-> FALSE] \in Gone
  BY DEF Gone, Text
<1> QED
  BY <1>1, CarrySnoc

\* Scrolling either way, inside the margins (Screen::scroll_up, scroll_down).
LEMMA ScrollUpStays ==
  ASSUME NEW n, NEW s, Framed(n, s), NEW k \in Positive
  PROVE  Stays(n, ScrollUp(s, k))
<1> DEFINE j == Least(k, s.bottom + 1 - s.top)
           out == IF FullRegion(s) THEN DepartedRows(SubSeq(s.rows, 1, j)) ELSE << >>
           Moved(r) == IF r \notin s.top..s.bottom THEN s.rows[r]
                       ELSE IF r + j <= s.bottom THEN s.rows[r + j] ELSE BlankRow(s.cols)
           rs == [r \in DOMAIN s.rows |-> Moved(r)]
           t == [s EXCEPT !.rows = rs]
           u == [s EXCEPT !.rows = rs, !.carried = Carry(s.carried, out)]
<1>1. /\ n \in Nat /\ s.rows \in Seq(Width(n)) /\ Len(s.rows) \in Nat /\ s.cols = n
      /\ DOMAIN s.rows = 1..Len(s.rows) /\ s.top \in Nat /\ s.top >= 1 /\ s.bottom \in 1..Len(s.rows)
      /\ s.carried \in Nat /\ Height(s) = Len(s.rows)
      /\ \A r \in 1..Len(s.rows) : s.rows[r] \in Width(n)
  BY FramedFacts
<1>2. j \in Int /\ (s.top <= s.bottom => j >= 1) /\ j <= s.bottom + 1 - s.top
  BY <1>1 DEF Least, Positive
<1>3. out \in Seq(Gone)
  <2>1. CASE FullRegion(s)
    <3>1. j \in 0..Len(s.rows)
      <4> HIDE DEF j
      <4> QED
        BY <1>1, <1>2, <2>1 DEF FullRegion
    <3> HIDE DEF j
    <3> QED
      BY <2>1, <3>1, CutGone
  <2>2. CASE ~FullRegion(s)
    BY <2>2
  <2> QED
    BY <2>1, <2>2
<1> HIDE DEF j
<1>4. \A r \in 1..Len(s.rows) : Moved(r) \in Width(n)
  <2> TAKE r \in 1..Len(s.rows)
  <2>1. ASSUME r \in s.top..s.bottom, r + j <= s.bottom PROVE r + j \in 1..Len(s.rows)
    BY <1>1, <1>2, <2>1
  <2>2. BlankRow(s.cols) \in Width(n)
    BY <1>1, BlankWidth
  <2> QED
    BY <1>1, <2>1, <2>2
<1>5. rs \in Seq(Width(n)) /\ Len(rs) = Len(s.rows)
  <2> HIDE DEF Moved
  <2> QED
    BY <1>1, <1>4
<1>6. ScrollUp(s, k) = [s |-> u, out |-> out]
  <2>1. u = [s EXCEPT !.rows = [r \in DOMAIN @ |-> Moved(r)], !.carried = Carry(@, out)]
    <3> HIDE DEF out, Moved
    <3> QED
      BY FramedFacts DEF Frames
  <2> QED
    BY <2>1 DEF ScrollUp, j
<1>7. Carry(s.carried, out) \in Nat
  <2> HIDE DEF out
  <2> QED
    BY <1>1, <1>3, CarryNat
<1>8. Framed(n, u)
  <2> DEFINE c == Carry(s.carried, out)
  <2> HIDE DEF rs, c, out
  <2> QED
    BY <1>5, <1>7 DEF Framed, Frames, c
<1> HIDE DEF u, out
<1> QED
  BY <1>3, <1>6, <1>8 DEF Stays

\* Scrolling down keeps a screen framed (Screen::scroll_down).
LEMMA ScrollDownFramed ==
  ASSUME NEW n, NEW s, Framed(n, s), NEW k \in Positive
  PROVE  Framed(n, ScrollDown(s, k))
<1> DEFINE j == Least(k, s.bottom + 1 - s.top)
           Moved(r) == IF r \notin s.top..s.bottom THEN s.rows[r]
                       ELSE IF r - j >= s.top THEN s.rows[r - j] ELSE BlankRow(s.cols)
           rs == [r \in DOMAIN s.rows |-> Moved(r)]
<1>1. /\ n \in Nat /\ s.rows \in Seq(Width(n)) /\ Len(s.rows) \in Nat /\ s.cols = n
      /\ DOMAIN s.rows = 1..Len(s.rows) /\ s.top \in Nat /\ s.top >= 1 /\ s.bottom \in 1..Len(s.rows)
      /\ \A r \in 1..Len(s.rows) : s.rows[r] \in Width(n)
  BY FramedFacts
<1>2. j \in Int /\ (s.top <= s.bottom => j >= 1)
  BY <1>1 DEF Least, Positive
<1>3. ScrollDown(s, k) = [s EXCEPT !.rows = rs]
  <2>1. [s EXCEPT !.rows = rs] = [s EXCEPT !.rows = [r \in DOMAIN @ |-> Moved(r)]]
    <3> HIDE DEF Moved
    <3> QED
      BY FramedFacts DEF Frames
  <2> QED
    BY <2>1 DEF ScrollDown
<1> HIDE DEF j
<1>4. \A r \in 1..Len(s.rows) : Moved(r) \in Width(n)
  <2> TAKE r \in 1..Len(s.rows)
  <2>1. ASSUME r \in s.top..s.bottom, r - j >= s.top PROVE r - j \in 1..Len(s.rows)
    BY <1>1, <1>2, <2>1
  <2>2. BlankRow(s.cols) \in Width(n)
    BY <1>1, BlankWidth
  <2> QED
    BY <1>1, <2>1, <2>2
<1>5. rs \in Seq(Width(n)) /\ Len(rs) = Len(s.rows)
  <2> HIDE DEF Moved
  <2> QED
    BY <1>1, <1>4
<1> HIDE DEF rs
<1> QED
  BY <1>3, <1>5, Redrawn

\* Moving the cursor (Screen::line_feed, reverse_index, goto).
LEMMA LineFeedStays ==
  ASSUME NEW n, NEW s, Framed(n, s)
  PROVE  Stays(n, LineFeed(s))
<1> DEFINE t == [s EXCEPT !.pend = FALSE]
           u == [t EXCEPT !.row = @ + 1]
<1>1. Framed(n, t) /\ Height(t) = Len(t.rows)
  BY DEF Framed, Frames, Height
<1>2. ASSUME t.row < Height(t) PROVE Framed(n, u)
  <2> HIDE DEF t
  <2> DEFINE a == t.row + 1
  <2>1. a \in Positive /\ a <= Len(t.rows)
    BY <1>1, <1>2, FramedFacts DEF Positive
  <2> HIDE DEF a
  <2>2. Framed(n, [t EXCEPT !.row = a])
    BY <1>1, <2>1 DEF Framed, Frames
  <2>3. u = [t EXCEPT !.row = a]
    BY DEF a
  <2> QED
    BY <2>2, <2>3
<1>3. Stays(n, ScrollUp(t, 1))
  <2> HIDE DEF t
  <2>1. 1 \in Positive
    BY DEF Positive
  <2> QED
    BY <1>1, <2>1, ScrollUpStays
<1>4. LineFeed(s) = IF t.row = t.bottom THEN ScrollUp(t, 1)
                    ELSE Quiet(IF t.row < Height(t) THEN u ELSE t)
  <2> HIDE DEF ScrollUp
  <2> QED
    BY DEF LineFeed
<1>5. << >> \in Seq(Gone)
  OBVIOUS
<1> HIDE DEF t, u
<1> QED
  BY <1>1, <1>2, <1>3, <1>4, <1>5 DEF Stays, Quiet

\* So does moving the cursor up (Screen::reverse_index).
LEMMA ReverseFramed ==
  ASSUME NEW n, NEW s, Framed(n, s)
  PROVE  Framed(n, ReverseIndex(s))
<1> DEFINE t == [s EXCEPT !.pend = FALSE]
           u == [t EXCEPT !.row = @ - 1]
<1>1. Framed(n, t)
  BY DEF Framed, Frames
<1>2. ASSUME t.row # 1 PROVE Framed(n, u)
  <2> HIDE DEF t
  <2> DEFINE a == t.row - 1
  <2>1. a \in Positive /\ a <= Len(t.rows)
    BY <1>1, <1>2, FramedFacts DEF Positive
  <2> HIDE DEF a
  <2>2. Framed(n, [t EXCEPT !.row = a])
    BY <1>1, <2>1 DEF Framed, Frames
  <2>3. u = [t EXCEPT !.row = a]
    BY DEF a
  <2> QED
    BY <2>2, <2>3
<1>3. Framed(n, ScrollDown(t, 1))
  <2> HIDE DEF t
  <2>1. 1 \in Positive
    BY DEF Positive
  <2> QED
    BY <1>1, <2>1, ScrollDownFramed
<1>4. ReverseIndex(s) = IF t.row = t.top THEN ScrollDown(t, 1) ELSE IF t.row = 1 THEN t ELSE u
  <2> HIDE DEF ScrollDown
  <2> QED
    BY DEF ReverseIndex
<1> HIDE DEF t, u
<1> QED
  BY <1>1, <1>2, <1>3, <1>4

\* So does putting it anywhere (Screen::goto).
LEMMA GotoFramed ==
  ASSUME NEW n, NEW s, Framed(n, s), NEW r \in Positive, NEW c \in Nat
  PROVE  Framed(n, Goto(s, r, c))
<1> DEFINE a == Least(r, Height(s))
           b == Least(c, s.cols - 1)
<1>1. a \in Positive /\ a <= Len(s.rows) /\ b \in 0 .. n - 1
  BY FramedFacts DEF Least, Positive
<1> HIDE DEF a, b
<1>2. Framed(n, [s EXCEPT !.row = a, !.col = b, !.pend = FALSE])
  BY <1>1 DEF Framed, Frames
<1> QED
  BY <1>2 DEF Goto, a, b

\* A character, with the wrap it may take (Screen::place).
LEMMA PlaceStays ==
  ASSUME NEW n, NEW s, Framed(n, s), NEW ch \in Nat
  PROVE  Stays(n, Place(s, ch))
<1> DEFINE w == [s EXCEPT !.rows[s.row].wrapped = TRUE, !.col = 0]
           at == IF s.pend /\ s.autowrap THEN LineFeed(w) ELSE Quiet(s)
           t == [at.s EXCEPT !.rows[at.s.row].cells[at.s.col + 1] = ch]
           atEdge == t.col + 1 >= t.cols
           u == [t EXCEPT !.col = IF atEdge THEN t.cols - 1 ELSE @ + 1,
                          !.pend = atEdge /\ t.autowrap]
<1>1. Framed(n, w)
  <2> DEFINE x == [s.rows[s.row] EXCEPT !.wrapped = TRUE]
             v == [s EXCEPT !.rows[s.row] = x]
  <2>1. x \in Width(n)
    <3>1. s.rows[s.row] \in Width(n)
      BY FramedFacts
    <3> QED
      BY <3>1 DEF Width
  <2>2. Framed(n, v)
    <3> HIDE DEF x
    <3> QED
      BY <2>1, RowRedrawn
  <2>3. w = [v EXCEPT !.col = 0]
    BY FramedFacts DEF Frames
  <2> HIDE DEF v, w
  <2>4. 0 \in 0 .. n - 1
    BY FramedFacts
  <2> QED
    BY <2>2, <2>3, <2>4 DEF Framed, Frames
<1>2. Stays(n, at)
  <2>1. Stays(n, LineFeed(w))
    <3> HIDE DEF w
    <3> QED
      BY <1>1, LineFeedStays
  <2>2. Stays(n, Quiet(s))
    <3>1. << >> \in Seq(Gone)
      OBVIOUS
    <3> QED
      BY <3>1 DEF Stays, Quiet
  <2> HIDE DEF w
  <2> QED
    BY <2>1, <2>2
<1> DEFINE v == at.s
<1>3. Framed(n, v) /\ at.out \in Seq(Gone)
  <2> HIDE DEF at
  <2> QED
    BY <1>2 DEF Stays
<1> HIDE DEF at
<1>4. Framed(n, t)
  <2> HIDE DEF v
  <2> DEFINE y == v.rows[v.row]
             x == [y EXCEPT !.cells[v.col + 1] = ch]
  <2>1. y \in Width(n) /\ v.col + 1 \in 1..n
    BY <1>3, FramedFacts
  <2>2. x \in Width(n)
    <3>2. y.cells \in Seq(Nat) /\ Len(y.cells) = n /\ y.wrapped \in BOOLEAN
          /\ y \in [cells : Text, wrapped : BOOLEAN]
      BY <2>1 DEF Width, Text
    <3>3. [y.cells EXCEPT ![v.col + 1] = ch] \in Seq(Nat) /\ Len([y.cells EXCEPT ![v.col + 1] = ch]) = n
      <4> HIDE DEF y
      <4> QED
        BY <2>1, <3>2
    <3>4. x = [y EXCEPT !.cells = [y.cells EXCEPT ![v.col + 1] = ch]]
      OBVIOUS
    <3> DEFINE z == [y.cells EXCEPT ![v.col + 1] = ch]
    <3> HIDE DEF y, x, z
    <3> QED
      BY <3>2, <3>3, <3>4 DEF Width, Text, z
  <2>3. t = [v EXCEPT !.rows[v.row] = x]
    BY <1>3, FramedFacts DEF v, Frames
  <2> HIDE DEF x, t
  <2> QED
    BY <1>3, <2>2, <2>3, RowRedrawn
<1>5. Framed(n, u)
  <2> HIDE DEF t
  <2> DEFINE c == IF atEdge THEN t.cols - 1 ELSE t.col + 1
  <2>1. t.cols = n /\ n \in Nat /\ n >= 1 /\ t.col \in 0 .. n - 1 /\ t.autowrap \in BOOLEAN
    BY <1>4, FramedFacts
  <2>2. c \in 0 .. n - 1
    BY <2>1
  <2>3. u = [t EXCEPT !.col = c, !.pend = atEdge /\ t.autowrap]
    BY <1>4 DEF Framed, Frames
  <2>4. (atEdge /\ t.autowrap) \in BOOLEAN
    OBVIOUS
  <2> HIDE DEF c, u, atEdge
  <2> QED
    BY <1>4, <2>2, <2>3, <2>4 DEF Framed, Frames
<1>6. Place(s, ch) = [s |-> u, out |-> at.out]
  <2> HIDE DEF LineFeed, Quiet
  <2> QED
    BY DEF Place, at
<1> HIDE DEF u, t, v
<1> QED
  BY <1>3, <1>5, <1>6 DEF Stays

\* Modes and margins (Screen::set_autowrap, set_region).
LEMMA AutowrapFramed ==
  ASSUME NEW n, NEW s, Framed(n, s), NEW on \in BOOLEAN
  PROVE  Framed(n, SetAutowrap(s, on)) /\ SetAutowrap(s, on).cols = s.cols
  BY DEF SetAutowrap, Framed, Frames

\* So does setting the margins (Screen::set_region).
LEMMA RegionFramed ==
  ASSUME NEW n, NEW s, Framed(n, s), NEW top \in Positive, NEW bottom \in Positive
  PROVE  Framed(n, SetRegion(s, top, bottom))
<1> DEFINE b == Least(bottom, Height(s))
           t == [s EXCEPT !.top = top, !.bottom = b]
<1>1. b \in Positive /\ b <= Len(s.rows)
  BY FramedFacts DEF Least, Positive
<1>2. Framed(n, t)
  <2> HIDE DEF b
  <2> QED
    BY <1>1 DEF Framed, Frames
<1>3. Framed(n, Goto(t, 1, 0))
  <2>1. 1 \in Positive /\ 0 \in Nat
    BY DEF Positive
  <2> HIDE DEF t
  <2> QED
    BY <1>2, <2>1, GotoFramed
<1>4. SetRegion(s, top, bottom) = IF top < b THEN Goto(t, 1, 0) ELSE s
  <2> HIDE DEF Goto
  <2> QED
    BY DEF SetRegion
<1> HIDE DEF t, b
<1> QED
  BY <1>3, <1>4

-----------------------------------------------------------------------------
(* What an operation leaves of the text on a screen *)

\* Each row of x with something on it is what is left of a row of y, in the same order.
RowMap(x, y, g) ==
  /\ g \in [1..Len(x) -> 0..Len(y)]
  /\ \A i \in 1..Len(x) : IF g[i] = 0 THEN Bare(x[i].cells) = << >>
                                       ELSE Part(Bare(x[i].cells), Bare(y[g[i]].cells))
  /\ \A i, j \in 1..Len(x) : i < j /\ g[i] # 0 /\ g[j] # 0 => g[i] < g[j]

\* Rows that are empty or part of other rows, in order, are read as part of them.
LEMMA RowsPart ==
  ASSUME NEW n \in Nat, NEW k \in Nat, NEW x \in Seq(Width(n)), NEW y \in Seq(Width(k)),
         NEW g, RowMap(x, y, g)
  PROVE  Part(RowsRead(Blank, x), RowsRead(Blank, y))
<1> DEFINE a == CellsOf(x)
           b == CellsOf(y)
<1>1. /\ a \in Seq(Text) /\ Len(a) = Len(x) /\ \A i \in 1..Len(x) : a[i] = x[i].cells
      /\ RowsRead(Blank, x) = Poured(a)
  BY CellsFacts, RowsPoured
<1>2. /\ b \in Seq(Text) /\ Len(b) = Len(y) /\ \A i \in 1..Len(y) : b[i] = y[i].cells
      /\ RowsRead(Blank, y) = Poured(b)
  BY CellsFacts, RowsPoured
<1> HIDE DEF a, b
<1>3. g \in [1..Len(a) -> 0..Len(b)]
  BY <1>1, <1>2 DEF RowMap
<1>4. \A i \in 1..Len(a) : IF g[i] = 0 THEN Bare(a[i]) = << >> ELSE Part(Bare(a[i]), Bare(b[g[i]]))
  <2> TAKE i \in 1..Len(a)
  <2>1. g[i] \in 0..Len(y) /\ Len(y) \in Nat /\ a[i] = x[i].cells
    BY <1>1, <1>2, <1>3
  <2>2. g[i] # 0 => b[g[i]] = y[g[i]].cells
    BY <1>2, <2>1
  <2> QED
    BY <1>1, <2>1, <2>2 DEF RowMap
<1>5. \A i, j \in 1..Len(a) : i < j /\ g[i] # 0 /\ g[j] # 0 => g[i] < g[j]
  BY <1>1 DEF RowMap
<1> QED
  BY <1>1, <1>2, <1>3, <1>4, <1>5, PouredPart

\* The same where rows move whole.
Shifted(x, y, g) ==
  /\ g \in [1..Len(x) -> 0..Len(y)]
  /\ \A i \in 1..Len(x) : IF g[i] = 0 THEN Bare(x[i].cells) = << >> ELSE x[i] = y[g[i]]
  /\ \A i, j \in 1..Len(x) : i < j /\ g[i] # 0 /\ g[j] # 0 => g[i] < g[j]

\* What is on a row is ink.
LEMMA RowBare ==
  ASSUME NEW n, NEW r \in Width(n)
  PROVE  r.cells \in Ink /\ r.cells \in Text /\ Bare(r.cells) \in Ink /\ Len(r.cells) = n
<1>1. r.cells \in Text /\ Len(r.cells) = n
  BY DEF Width
<1> QED
  BY <1>1, InkFacts, BareType

\* Rows moved about in order, others blanked, are read as part of what they were.
LEMMA ShiftPart ==
  ASSUME NEW n \in Nat, NEW x \in Seq(Width(n)), NEW y \in Seq(Width(n)), NEW g, Shifted(x, y, g)
  PROVE  Part(RowsRead(Blank, x), RowsRead(Blank, y))
<1>1. \A i \in 1..Len(x) : g[i] # 0 => Part(Bare(x[i].cells), Bare(y[g[i]].cells))
  <2> SUFFICES ASSUME NEW i \in 1..Len(x), g[i] # 0 PROVE Part(Bare(x[i].cells), Bare(y[g[i]].cells))
    OBVIOUS
  <2>1. x[i] = y[g[i]] /\ x[i] \in Width(n)
    BY DEF Shifted
  <2>2. Bare(x[i].cells) \in Ink
    BY <2>1, RowBare
  <2> QED
    BY <2>1, <2>2, PartSame
<1>2. RowMap(x, y, g)
  BY <1>1 DEF Shifted, RowMap
<1> QED
  BY <1>2, RowsPart

\* An operation leaves a screen, and no text but what it found.
Thins(n, s, f) == Stays(n, f) /\ Part(GoneRead(Blank, f.out) \o Grid(f.s), Grid(s))

\* A grid is read as text.
LEMMA GridInk ==
  ASSUME NEW n, NEW s, Framed(n, s)
  PROVE  Grid(s) \in Ink
<1>1. s.rows \in Seq(Width(n)) /\ n \in Nat
  BY FramedFacts
<1> QED
  BY <1>1, RowsPoured DEF Grid

\* So is what an operation returns.
LEMMA StaysInk ==
  ASSUME NEW n, NEW f, Stays(n, f)
  PROVE  /\ Framed(n, f.s) /\ f.out \in Seq(Gone) /\ GoneRead(Blank, f.out) \in Ink
         /\ Grid(f.s) \in Ink /\ GoneRead(Blank, f.out) \o Grid(f.s) \in Ink
<1>1. Framed(n, f.s) /\ f.out \in Seq(Gone)
  BY DEF Stays
<1>2. GoneRead(Blank, f.out) \in Ink /\ Grid(f.s) \in Ink
  BY <1>1, GonePoured, GridInk
<1> QED
  BY <1>1, <1>2, InkFacts

\* Nothing leaves, and the screen has no text but what it had.
LEMMA QuietThins ==
  ASSUME NEW n, NEW k, NEW s, NEW u, Framed(n, u), Framed(k, s), Part(Grid(u), Grid(s))
  PROVE  Thins(n, s, Quiet(u))
<1>1. << >> \in Seq(Gone) /\ Blank \in Int
  BY DEF Blank
<1>2. GoneRead(Blank, << >>) = << >>
  BY <1>1, GoneReadJoin
<1>3. Grid(u) \in Ink
  BY GridInk
<1>4. << >> \o Grid(u) = Grid(u)
  BY <1>3, InkFacts
<1>5. Quiet(u).s = u /\ Quiet(u).out = << >>
  BY DEF Quiet
<1> QED
  BY <1>1, <1>2, <1>4, <1>5 DEF Thins, Stays

\* One operation after another.
LEMMA ThinsThen ==
  ASSUME NEW n, NEW k, NEW j, NEW s, NEW t, NEW f, Framed(k, s), Framed(j, t), Part(Grid(t), Grid(s)),
         Thins(n, t, f)
  PROVE  Thins(n, s, f)
<1>1. GoneRead(Blank, f.out) \o Grid(f.s) \in Ink /\ Grid(t) \in Ink /\ Grid(s) \in Ink
  BY StaysInk, GridInk DEF Thins
<1> QED
  BY <1>1, PartTrans DEF Thins

\* The text of a screen is in its rows alone.
LEMMA SameGrid ==
  ASSUME NEW n, NEW s, NEW u, Framed(n, s), u.rows = s.rows
  PROVE  Part(Grid(u), Grid(s)) /\ Grid(u) = Grid(s)
  BY GridInk, PartSame DEF Grid

\* Other rows on a screen, or another row where its cursor is.
LEMMA RowsThin ==
  ASSUME NEW n, NEW s, NEW u, Framed(n, s), Framed(n, u), NEW g, Shifted(u.rows, s.rows, g)
  PROVE  Part(Grid(u), Grid(s))
  BY FramedFacts, ShiftPart DEF Grid

\* A screen on which one row holds part of what it held.
LEMMA RowThin ==
  ASSUME NEW n, NEW s, Framed(n, s), NEW r \in 1..Len(s.rows), NEW x \in Width(n),
         Part(Bare(x.cells), Bare(s.rows[r].cells)),
         NEW u, u.rows = [s.rows EXCEPT ![r] = x]
  PROVE  Part(Grid(u), Grid(s))
<1> DEFINE y == s.rows
           z == [y EXCEPT ![r] = x]
           g == [i \in 1..Len(z) |-> i]
<1>1. y \in Seq(Width(n)) /\ n \in Nat
  BY FramedFacts
<1>2. z \in Seq(Width(n)) /\ Len(z) = Len(y) /\ \A i \in 1..Len(y) : z[i] = IF i = r THEN x ELSE y[i]
  BY <1>1
<1> HIDE DEF y, z
<1>3. g \in [1..Len(z) -> 0..Len(y)] /\ \A i \in 1..Len(z) : g[i] = i /\ g[i] # 0
  BY <1>1, <1>2
<1>4. \A i \in 1..Len(z) : Part(Bare(z[i].cells), Bare(y[i].cells))
  <2> TAKE i \in 1..Len(z)
  <2>1. y[i] \in Width(n)
    BY <1>1, <1>2
  <2>2. Bare(y[i].cells) \in Ink
    BY <2>1, RowBare
  <2>3. Part(Bare(y[i].cells), Bare(y[i].cells))
    BY <2>2, PartSame
  <2> QED
    BY <1>2, <2>3 DEF y
<1>5. RowMap(z, y, g)
  BY <1>3, <1>4 DEF RowMap
<1> HIDE DEF g
<1>6. Part(RowsRead(Blank, z), RowsRead(Blank, y))
  BY <1>1, <1>2, <1>5, RowsPart
<1> QED
  BY <1>6 DEF Grid, y, z

-----------------------------------------------------------------------------
(* What an operation leaves of the text on a row *)

\* A row drawn from another: each cell is blank or one of the other's, in the same order.
CellMap(x, y, g) ==
  /\ g \in [1..Len(x) -> 0..Len(y)]
  /\ \A i \in 1..Len(x) : x[i] = IF g[i] = 0 THEN Blank ELSE y[g[i]]
  /\ \A i, j \in 1..Len(x) : i < j /\ g[i] # 0 /\ g[j] # 0 => g[i] < g[j]

\* Cells moved about in order on a row, others blanked, are part of what it held.
LEMMA CellsPart ==
  ASSUME NEW n \in Nat, NEW r \in Width(n), NEW cells, NEW g, NEW k \in Nat, cells \in Seq(Nat), Len(cells) = k,
         CellMap(cells, r.cells, g), NEW x, x = [r EXCEPT !.cells = cells]
  PROVE  x \in Width(k) /\ Part(Bare(x.cells), Bare(r.cells))
<1>1. r \in [cells : Text, wrapped : BOOLEAN] /\ r.cells \in Ink /\ cells \in Text /\ cells \in Ink
  <2>1. cells \in Text
    BY DEF Text
  <2> QED
    BY <2>1, RowBare, InkFacts DEF Width
<1>2. x.cells = cells /\ x \in Width(k)
  BY <1>1 DEF Width
<1>3. Part(Bare(cells), Bare(r.cells))
  BY <1>1, BarePart DEF CellMap
<1> QED
  BY <1>2, <1>3

\* Row::fill blanks some cells.
LEMMA FillPart ==
  ASSUME NEW n \in Nat, NEW r \in Width(n), NEW cols
  PROVE  Fill(r, cols) \in Width(n) /\ Part(Bare(Fill(r, cols).cells), Bare(r.cells))
<1> DEFINE y == r.cells
           cells == [i \in DOMAIN y |-> IF i \in cols THEN Blank ELSE y[i]]
           g == [i \in 1..n |-> IF i \in cols THEN 0 ELSE i]
<1>1. y \in Seq(Nat) /\ Len(y) = n /\ DOMAIN y = 1..n
  BY DEF Width, Text
<1>2. Fill(r, cols) = [r EXCEPT !.cells = cells]
  BY DEF Fill
<1>3. cells \in Seq(Nat) /\ Len(cells) = n /\ \A i \in 1..n : cells[i] = IF i \in cols THEN Blank ELSE y[i]
  <2> HIDE DEF y
  <2> QED
    BY <1>1 DEF Blank
<1>4. CellMap(cells, y, g)
  <2> HIDE DEF cells, y
  <2>1. g \in [1..n -> 0..n] /\ \A i \in 1..n : g[i] = IF i \in cols THEN 0 ELSE i
    OBVIOUS
  <2> HIDE DEF g
  <2> QED
    BY <1>1, <1>3, <2>1 DEF CellMap
<1> HIDE DEF cells, g
<1> QED
  BY <1>2, <1>3, <1>4, CellsPart DEF y

\* Three runs end to end.
Three(S, w, p, q, r, a, b, c) ==
  /\ w \in Seq(S) /\ Len(w) = a + b + c
  /\ \A i \in 1..a : w[i] = p[i]
  /\ \A i \in 1..b : w[a + i] = q[i]
  /\ \A i \in 1..c : w[a + b + i] = r[i]

\* Each part of three sequences end to end is where it was.
LEMMA JoinedThree ==
  ASSUME NEW S, NEW p \in Seq(S), NEW q \in Seq(S), NEW r \in Seq(S),
         NEW a \in Nat, NEW b \in Nat, NEW c \in Nat, Len(p) = a, Len(q) = b, Len(r) = c
  PROVE  Three(S, p \o q \o r, p, q, r, a, b, c)
<1> DEFINE z == p \o q
<1>1. z \in Seq(S) /\ Len(z) = a + b
  BY Joined
<1>2. (\A i \in 1..a : z[i] = p[i]) /\ (\A i \in 1..b : z[a + i] = q[i])
  OBVIOUS
<1> HIDE DEF z
<1> DEFINE w == z \o r
<1>3. w \in Seq(S) /\ Len(w) = a + b + c
  <2>1. z \o r \in Seq(S) /\ Len(z \o r) = Len(z) + Len(r)
    BY <1>1, Joined
  <2> QED
    BY <1>1, <2>1
<1>4. (\A i \in 1 .. a + b : w[i] = z[i]) /\ (\A i \in 1..c : w[(a + b) + i] = r[i])
  BY <1>1
<1>5. w = p \o q \o r
  BY DEF z
<1> HIDE DEF w
<1>6. ASSUME NEW i \in 1..a PROVE w[i] = p[i]
  <2>1. i \in 1 .. a + b
    OBVIOUS
  <2> QED
    BY ONLY <1>2, <1>4, <2>1, i \in 1..a
<1>7. ASSUME NEW i \in 1..b PROVE w[a + i] = q[i]
  <2>1. a + i \in 1 .. a + b
    OBVIOUS
  <2> QED
    BY ONLY <1>2, <1>4, <2>1, i \in 1..b
<1> QED
  BY <1>3, <1>4, <1>5, <1>6, <1>7 DEF Three

\* A stretch of a sequence, element by element.
LEMMA Slice ==
  ASSUME NEW S, NEW q \in Seq(S), NEW a \in Nat, NEW b \in Nat, a + b <= Len(q)
  PROVE  /\ SubSeq(q, a + 1, a + b) \in Seq(S) /\ Len(SubSeq(q, a + 1, a + b)) = b
         /\ \A i \in 1..b : SubSeq(q, a + 1, a + b)[i] = q[a + i]
<1> DEFINE z == SubSeq(q, a + 1, a + b)
<1>1. z \in Seq(S) /\ Len(z) = b
  OBVIOUS
<1>2. ASSUME NEW i \in 1..b PROVE z[i] = q[a + i]
  <2>1. i \in 1 .. (a + b) - (a + 1) + 1 /\ (a + 1) + i - 1 = a + i
    OBVIOUS
  <2> QED
    BY <2>1
<1> QED
  BY <1>1, <1>2

\* Row::insert_blank moves the cells from a column on, and the last is lost.
LEMMA InsertPart ==
  ASSUME NEW n \in Nat, NEW r \in Width(n), NEW c \in 0 .. n - 1
  PROVE  InsertBlank(r, c) \in Width(n) /\ Part(Bare(InsertBlank(r, c).cells), Bare(r.cells))
<1> DEFINE y == r.cells
           up == SubSeq(y, 1, c)
           low == SubSeq(y, c + 1, Len(y) - 1)
           cells == up \o << Blank >> \o low
           g == [i \in 1..n |-> IF i <= c THEN i ELSE IF i = c + 1 THEN 0 ELSE i - 1]
<1>1. y \in Seq(Nat) /\ Len(y) = n /\ DOMAIN y = 1..n /\ c \in Nat /\ c + 1 <= n
  BY DEF Width, Text
<1>2. InsertBlank(r, c) = [r EXCEPT !.cells = cells]
  BY DEF InsertBlank
<1> HIDE DEF y
<1>3. /\ up \in Seq(Nat) /\ Len(up) = c /\ \A i \in 1..c : up[i] = y[i]
  BY <1>1
<1>4. /\ low \in Seq(Nat) /\ Len(low) = n - 1 - c /\ \A i \in 1 .. n - 1 - c : low[i] = y[c + i]
  <2> DEFINE d == n - 1 - c
  <2>2. d \in Nat /\ c + d <= Len(y) /\ c + d = Len(y) - 1
    BY <1>1
  <2>3. low = SubSeq(y, c + 1, c + d)
    BY <2>2
  <2> HIDE DEF d, low
  <2>4. low \in Seq(Nat) /\ Len(low) = d /\ \A i \in 1..d : low[i] = y[c + i]
    BY <1>1, <2>2, <2>3, Slice
  <2> QED
    BY <2>4 DEF d
<1> HIDE DEF up, low
<1>5. /\ cells \in Seq(Nat) /\ Len(cells) = n
      /\ (\A i \in 1..c : cells[i] = up[i]) /\ cells[c + 1] = Blank
      /\ (\A i \in 1 .. n - 1 - c : cells[c + 1 + i] = low[i])
  <2> DEFINE mid == << Blank >>
  <2>1. mid \in Seq(Nat) /\ Len(mid) = 1 /\ mid[1] = Blank
    BY DEF Blank
  <2> HIDE DEF mid
  <2> DEFINE w == up \o mid \o low
             d == n - 1 - c
  <2>2. d \in Nat /\ c \in Nat /\ 1 \in Nat /\ c + 1 + d = n /\ Len(low) = d
    BY <1>1, <1>4
  <2> HIDE DEF d
  <2>0. up \in Seq(Nat) /\ low \in Seq(Nat) /\ Len(up) = c
    BY <1>3, <1>4
  <2>3. /\ w \in Seq(Nat) /\ Len(w) = c + 1 + d /\ (\A i \in 1..c : w[i] = up[i])
        /\ (\A i \in 1..1 : w[c + i] = mid[i]) /\ (\A i \in 1..d : w[c + 1 + i] = low[i])
    <3>1. Three(Nat, w, up, mid, low, c, 1, d)
      BY ONLY <2>0, <2>1, <2>2, JoinedThree
    <3> HIDE DEF w
    <3> QED
      BY <3>1 DEF Three
  <2>4. cells = w
    BY DEF mid
  <2> HIDE DEF w, cells
  <2>5. w[c + 1] = mid[1]
    BY <2>3
  <2> QED
    BY <2>1, <2>2, <2>3, <2>4, <2>5 DEF d
<1> HIDE DEF cells
<1>6. CellMap(cells, y, g)
  <2>1. g \in [1..n -> 0..n] /\ \A i \in 1..n : g[i] = IF i <= c THEN i ELSE IF i = c + 1 THEN 0 ELSE i - 1
    BY <1>1
  <2> HIDE DEF g
  <2>2. ASSUME NEW i \in 1..n PROVE cells[i] = IF g[i] = 0 THEN Blank ELSE y[g[i]]
    <3>1. CASE i <= c
      <4>1. i \in 1..c /\ g[i] = i /\ i # 0
        BY <2>1, <3>1
      <4> QED
        BY <1>3, <1>5, <4>1
    <3>2. CASE i = c + 1
      <4>1. g[i] = 0
        BY <1>1, <2>1, <3>2
      <4> QED
        BY <1>5, <3>2, <4>1
    <3>3. CASE i >= c + 2
      <4> DEFINE k == i - (c + 1)
      <4>1. k \in 1 .. n - 1 - c /\ c + k = i - 1 /\ c + 1 + k = i /\ i - 1 # 0 /\ g[i] = i - 1
        BY <1>1, <2>1, <3>3
      <4> HIDE DEF k
      <4>2. cells[c + 1 + k] = low[k] /\ low[k] = y[c + k]
        BY <1>4, <1>5, <4>1
      <4> QED
        BY <4>1, <4>2
    <3>4. i <= c \/ i = c + 1 \/ i >= c + 2
      BY <1>1
    <3> QED
      BY <3>1, <3>2, <3>3, <3>4
  <2>3. ASSUME NEW i \in 1..n, NEW j \in 1..n, i < j, g[i] # 0, g[j] # 0 PROVE g[i] < g[j]
    <3>1. i # c + 1 /\ j # c + 1
      BY <1>1, <2>1, <2>3
    <3>2. (i <= c => g[i] = i) /\ (i > c => g[i] = i - 1)
      BY <1>1, <2>1, <3>1
    <3>3. (j <= c => g[j] = j) /\ (j > c => g[j] = j - 1)
      BY <1>1, <2>1, <3>1
    <3> QED
      BY <1>1, <2>3, <3>1, <3>2, <3>3
  <2> QED
    BY <1>1, <1>5, <2>1, <2>2, <2>3 DEF CellMap
<1> HIDE DEF g
<1> QED
  BY <1>2, <1>5, <1>6, CellsPart DEF y

\* Row::delete moves the cells beyond a column back.
LEMMA DeletePart ==
  ASSUME NEW n \in Nat, NEW r \in Width(n), NEW c \in 0 .. n - 1
  PROVE  DeleteCell(r, c) \in Width(n) /\ Part(Bare(DeleteCell(r, c).cells), Bare(r.cells))
<1> DEFINE y == r.cells
           up == SubSeq(y, 1, c)
           low == SubSeq(y, c + 2, Len(y))
           cells == up \o low \o << Blank >>
           g == [i \in 1..n |-> IF i <= c THEN i ELSE IF i = n THEN 0 ELSE i + 1]
<1>1. y \in Seq(Nat) /\ Len(y) = n /\ DOMAIN y = 1..n /\ c \in Nat /\ c + 1 <= n
  BY DEF Width, Text
<1>2. DeleteCell(r, c) = [r EXCEPT !.cells = cells]
  BY DEF DeleteCell
<1> HIDE DEF y
<1>3. /\ up \in Seq(Nat) /\ Len(up) = c /\ \A i \in 1..c : up[i] = y[i]
  BY <1>1
<1>4. /\ low \in Seq(Nat) /\ Len(low) = n - 1 - c /\ \A i \in 1 .. n - 1 - c : low[i] = y[c + 1 + i]
  BY <1>1
<1> HIDE DEF up, low
<1>5. /\ cells \in Seq(Nat) /\ Len(cells) = n
      /\ (\A i \in 1..c : cells[i] = up[i]) /\ cells[n] = Blank
      /\ (\A i \in 1 .. n - 1 - c : cells[c + i] = low[i])
  <2> DEFINE last == << Blank >>
  <2>1. last \in Seq(Nat) /\ Len(last) = 1 /\ last[1] = Blank
    BY DEF Blank
  <2> HIDE DEF last
  <2> DEFINE w == up \o low \o last
             d == n - 1 - c
  <2>2. d \in Nat /\ c \in Nat /\ 1 \in Nat /\ c + d + 1 = n /\ Len(low) = d
    BY <1>1, <1>4
  <2> HIDE DEF d
  <2>0. up \in Seq(Nat) /\ low \in Seq(Nat) /\ Len(up) = c
    BY <1>3, <1>4
  <2>3. /\ w \in Seq(Nat) /\ Len(w) = c + d + 1 /\ (\A i \in 1..c : w[i] = up[i])
        /\ (\A i \in 1..d : w[c + i] = low[i]) /\ (\A i \in 1..1 : w[c + d + i] = last[i])
    <3>1. Three(Nat, w, up, low, last, c, d, 1)
      BY ONLY <2>0, <2>1, <2>2, JoinedThree
    <3> HIDE DEF w
    <3> QED
      BY <3>1 DEF Three
  <2>4. cells = w
    BY DEF last
  <2> HIDE DEF w, cells
  <2>5. w[c + d + 1] = last[1]
    BY <2>3
  <2> QED
    BY <2>1, <2>2, <2>3, <2>4, <2>5 DEF d
<1> HIDE DEF cells
<1>6. CellMap(cells, y, g)
  <2>1. g \in [1..n -> 0..n] /\ \A i \in 1..n : g[i] = IF i <= c THEN i ELSE IF i = n THEN 0 ELSE i + 1
    BY <1>1
  <2> HIDE DEF g
  <2>2. ASSUME NEW i \in 1..n PROVE cells[i] = IF g[i] = 0 THEN Blank ELSE y[g[i]]
    <3>1. CASE i <= c
      <4>1. i \in 1..c /\ g[i] = i /\ i # 0
        BY <2>1, <3>1
      <4> QED
        BY <1>3, <1>5, <4>1
    <3>2. CASE i = n
      <4>1. g[i] = 0
        BY <1>1, <2>1, <3>2
      <4> QED
        BY <1>5, <3>2, <4>1
    <3>3. CASE i > c /\ i < n
      <4> DEFINE k == i - c
      <4>1. k \in 1 .. n - 1 - c /\ c + 1 + k = i + 1 /\ c + k = i /\ i + 1 # 0 /\ g[i] = i + 1
        BY <1>1, <2>1, <3>3
      <4> HIDE DEF k
      <4>2. cells[c + k] = low[k] /\ low[k] = y[c + 1 + k]
        BY <1>4, <1>5, <4>1
      <4> QED
        BY <4>1, <4>2
    <3>4. i <= c \/ i = n \/ (i > c /\ i < n)
      BY <1>1
    <3> QED
      BY <3>1, <3>2, <3>3, <3>4
  <2>3. ASSUME NEW i \in 1..n, NEW j \in 1..n, i < j, g[i] # 0, g[j] # 0 PROVE g[i] < g[j]
    <3>1. i # n
      BY <1>1, <2>3
    <3>2. (i <= c => g[i] = i) /\ (i > c => g[i] = i + 1)
      BY <1>1, <2>1, <3>1
    <3>3. j # n \/ j <= c
      BY <2>1, <2>3
    <3>4. (j <= c => g[j] = j) /\ (j > c => g[j] = j + 1)
      BY <1>1, <2>1, <3>3
    <3> QED
      BY <1>1, <2>3, <3>2, <3>4
  <2> QED
    BY <1>1, <1>5, <2>1, <2>2, <2>3 DEF CellMap
<1> HIDE DEF g
<1> QED
  BY <1>2, <1>5, <1>6, CellsPart DEF y

\* Row::resize cuts cells off, or adds blank ones.
LEMMA ResizePart ==
  ASSUME NEW n \in Nat, NEW k \in Nat, NEW r \in Width(k)
  PROVE  ResizeRow(r, n) \in Width(n) /\ Part(Bare(ResizeRow(r, n).cells), Bare(r.cells))
<1> DEFINE y == r.cells
           cells == [i \in 1..n |-> IF i \in DOMAIN y THEN y[i] ELSE Blank]
           g == [i \in 1..n |-> IF i <= k THEN i ELSE 0]
<1>1. y \in Seq(Nat) /\ Len(y) = k /\ DOMAIN y = 1..k
  BY DEF Width, Text
<1>2. ResizeRow(r, n) = [r EXCEPT !.cells = cells]
  BY DEF ResizeRow
<1> HIDE DEF y
<1>3. cells \in Seq(Nat) /\ Len(cells) = n /\ \A i \in 1..n : cells[i] = IF i <= k THEN y[i] ELSE Blank
  BY <1>1 DEF Blank
<1> HIDE DEF cells
<1>4. CellMap(cells, y, g)
  <2>1. g \in [1..n -> 0..k] /\ \A i \in 1..n : g[i] = IF i <= k THEN i ELSE 0
    OBVIOUS
  <2> HIDE DEF g
  <2> QED
    BY <1>1, <1>3, <2>1 DEF CellMap
<1> HIDE DEF g
<1> QED
  BY <1>2, <1>3, <1>4, CellsPart DEF y

-----------------------------------------------------------------------------
(* What an operation leaves of the text on a screen with margins *)

\* The rows of a scrolled screen (Screen::scroll_up).
Rolled(s, j, f) ==
  /\ Len(f.s.rows) = Len(s.rows)
  /\ \A r \in 1..Len(s.rows) :
       f.s.rows[r] = IF r \notin s.top..s.bottom THEN s.rows[r]
                     ELSE IF r + j <= s.bottom THEN s.rows[r + j] ELSE BlankRow(s.cols)
  /\ f.out = IF FullRegion(s) THEN DepartedRows(SubSeq(s.rows, 1, j)) ELSE << >>

\* Where rows are after scrolling up (Screen::scroll_up).
LEMMA ScrollUpRows ==
  ASSUME NEW n, NEW s, Framed(n, s), NEW k \in Positive
  PROVE  Rolled(s, Least(k, s.bottom + 1 - s.top), ScrollUp(s, k))
<1> DEFINE j == Least(k, s.bottom + 1 - s.top)
           out == IF FullRegion(s) THEN DepartedRows(SubSeq(s.rows, 1, j)) ELSE << >>
           Moved(r) == IF r \notin s.top..s.bottom THEN s.rows[r]
                       ELSE IF r + j <= s.bottom THEN s.rows[r + j] ELSE BlankRow(s.cols)
           rs == [r \in DOMAIN s.rows |-> Moved(r)]
           u == [s EXCEPT !.rows = rs, !.carried = Carry(s.carried, out)]
<1>1. ScrollUp(s, k) = [s |-> u, out |-> out]
  <2>1. u = [s EXCEPT !.rows = [r \in DOMAIN @ |-> Moved(r)], !.carried = Carry(@, out)]
    <3> HIDE DEF out, Moved
    <3> QED
      BY FramedFacts DEF Frames
  <2> QED
    BY <2>1 DEF ScrollUp
<1>2. DOMAIN s.rows = 1..Len(s.rows) /\ s \in Frames(n) /\ Len(s.rows) \in Nat
  BY FramedFacts
<1>3. Len(rs) = Len(s.rows) /\ \A r \in 1..Len(s.rows) : rs[r] = Moved(r)
  <2> HIDE DEF Moved
  <2> QED
    BY <1>2
<1> HIDE DEF rs
<1>4. u.rows = rs
  BY <1>2 DEF Frames
<1> HIDE DEF u
<1>5. ScrollUp(s, k).s = u /\ ScrollUp(s, k).out = out
  BY <1>1
<1> QED
  BY <1>3, <1>4, <1>5 DEF Rolled

\* Scrolling up leaves rows where they are read, or loses them.
LEMMA ScrollUpThins ==
  ASSUME NEW n, NEW s, Framed(n, s), NEW k \in Positive
  PROVE  Thins(n, s, ScrollUp(s, k))
<1> DEFINE f == ScrollUp(s, k)
           j == Least(k, s.bottom + 1 - s.top)
           H == Len(s.rows)
           rows == f.s.rows
<1>1. Stays(n, f) /\ Rolled(s, j, f)
  BY ScrollUpStays, ScrollUpRows
<1>2. /\ n \in Nat /\ s.rows \in Seq(Width(n)) /\ H \in Nat /\ s.cols = n /\ Height(s) = H
      /\ s.top \in Nat /\ s.top >= 1 /\ s.bottom \in 1..H
  BY FramedFacts
<1>3. j \in Int /\ (s.top <= s.bottom => j >= 1) /\ j <= s.bottom + 1 - s.top
  BY <1>2 DEF Least, Positive
<1> HIDE DEF j, f
<1>4. rows \in Seq(Width(n)) /\ Framed(n, f.s)
  BY <1>1, FramedFacts DEF Stays
<1>5. /\ Len(rows) = H
      /\ \A r \in 1..H : rows[r] = IF r \notin s.top..s.bottom THEN s.rows[r]
                                   ELSE IF r + j <= s.bottom THEN s.rows[r + j] ELSE BlankRow(n)
      /\ f.out = IF FullRegion(s) THEN DepartedRows(SubSeq(s.rows, 1, j)) ELSE << >>
  BY <1>1, <1>2 DEF Rolled
<1>b. Bare(BlankRow(n).cells) = << >>
  BY <1>2, BlankInk
<1>6. CASE ~FullRegion(s)
  <2> DEFINE g == [r \in 1..H |-> IF r \notin s.top..s.bottom THEN r
                                  ELSE IF r + j <= s.bottom THEN r + j ELSE 0]
  <2>1. g \in [1..H -> 0..H] /\ \A r \in 1..H : g[r] = IF r \notin s.top..s.bottom THEN r
                                  ELSE IF r + j <= s.bottom THEN r + j ELSE 0
    <3>1. ASSUME NEW r \in 1..H, r \in s.top..s.bottom, r + j <= s.bottom PROVE r + j \in 0..H
      BY <1>2, <1>3, <3>1
    <3>2. \A r \in 1..H : r \in 0..H /\ 0 \in 0..H
      BY <1>2
    <3> QED
      BY <3>1, <3>2
  <2> HIDE DEF g, rows
  <2>2. ASSUME NEW r \in 1..H PROVE IF g[r] = 0 THEN Bare(rows[r].cells) = << >> ELSE rows[r] = s.rows[g[r]]
    <3>1. CASE r \notin s.top..s.bottom
      BY <1>2, <1>5, <2>1, <3>1
    <3>2. CASE r \in s.top..s.bottom /\ r + j <= s.bottom
      <4>1. g[r] = r + j /\ r + j # 0
        BY <1>2, <1>3, <2>1, <3>2
      <4> QED
        BY <1>5, <3>2, <4>1
    <3>3. CASE r \in s.top..s.bottom /\ ~(r + j <= s.bottom)
      BY <1>5, <1>b, <2>1, <3>3
    <3> QED
      BY <3>1, <3>2, <3>3
  <2>3. ASSUME NEW i \in 1..H, NEW r \in 1..H, i < r, g[i] # 0, g[r] # 0 PROVE g[i] < g[r]
    <3>1. /\ g[i] = IF i \notin s.top..s.bottom THEN i ELSE IF i + j <= s.bottom THEN i + j ELSE 0
          /\ g[r] = IF r \notin s.top..s.bottom THEN r ELSE IF r + j <= s.bottom THEN r + j ELSE 0
      BY <2>1
    <3>2. i \in Int /\ r \in Int /\ s.top \in Int /\ s.bottom \in Int /\ j \in Int /\ i < r
          /\ (s.top <= s.bottom => j >= 1)
      BY <1>2, <1>3, <2>3
    <3>3. CASE r \in s.top..s.bottom
      <4>1. g[r] = r + j /\ s.top <= s.bottom
        BY <2>3, <3>1, <3>2, <3>3
      <4> QED
        BY ONLY <2>3, <3>1, <3>2, <4>1
    <3>4. CASE r \notin s.top..s.bottom
      <4>1. g[r] = r
        BY <3>1, <3>4
      <4>2. i \in s.top..s.bottom => r > s.bottom
        BY <3>2, <3>4
      <4> QED
        BY ONLY <2>3, <3>1, <3>2, <4>1, <4>2
    <3> QED
      BY <3>3, <3>4
  <2>4. Shifted(rows, s.rows, g)
    BY <1>5, <2>1, <2>2, <2>3 DEF Shifted, H
  <2>5. Part(Grid(f.s), Grid(s))
    BY <1>4, <2>4, RowsThin DEF rows
  <2>6. GoneRead(Blank, f.out) \o Grid(f.s) = Grid(f.s)
    <3>1. GoneRead(Blank, << >>) = << >>
      <4>1. << >> \in Seq(Gone) /\ Blank \in Int
        BY DEF Blank
      <4> QED
        BY <4>1, GoneReadJoin
    <3>2. Grid(f.s) \in Ink
      BY <1>4, GridInk
    <3> QED
      BY <1>5, <1>6, <3>1, <3>2, InkFacts
  <2> QED
    BY <1>1, <2>5, <2>6 DEF Thins, f
<1>7. CASE FullRegion(s)
  <2>1. s.top = 1 /\ s.bottom = H
    BY <1>2, <1>7 DEF FullRegion
  <2>2. j \in 0..H /\ H - j \in 0..H /\ H \in 0..H
    BY <1>2, <1>3, <2>1
  <2> DEFINE grid == s.rows
             out == f.out
             d == H - j
  <2> HIDE DEF rows
  <2>3. ASSUME NEW i \in 1..d PROVE rows[i] = grid[j + i]
    BY <1>2, <1>3, <1>5, <2>1, <2>3
  <2>4. NothingFrom(rows, d + 1)
    <3> SUFFICES ASSUME NEW i \in d + 1 .. Len(rows) PROVE Bare(rows[i].cells) = << >>
      BY DEF NothingFrom
    <3>1. i \in 1..H /\ i \in s.top..s.bottom /\ ~(i + j <= s.bottom)
      BY <1>2, <1>3, <1>5, <2>1
    <3> QED
      BY <1>5, <1>b, <3>1
  <2>5. d \in 0..Len(rows) /\ out = DepartedRows(SubSeq(grid, 1, j)) /\ grid \in Seq(Width(n))
        /\ H = Len(grid) /\ d = H - j
    BY <1>2, <1>5, <1>7, <2>2
  <2> HIDE DEF grid, out, d, H
  <2>6. RowsRead(Blank, rows) = RowsRead(Blank, SubSeq(rows, 1, d))
    BY <1>2, <1>4, <2>4, <2>5, TailBare
  <2>7. GoneRead(Blank, out) \o RowsRead(Blank, SubSeq(rows, 1, H - j))
          = RowsRead(Blank, SubSeq(grid, 1, H))
    <3>1. Blank \in Int /\ n \in Nat /\ grid \in Seq(Width(n)) /\ rows \in Seq(Width(n))
          /\ H \in 0..Len(grid) /\ j \in 0..H /\ H - j <= Len(rows)
          /\ out = DepartedRows(SubSeq(grid, 1, j))
      BY <1>2, <1>4, <1>5, <2>2, <2>5 DEF Blank
    <3>2. \A i \in 1 .. H - j : rows[i] = grid[j + i]
      BY <2>3, <2>5
    <3>3. Severed(n, grid, rows, H, j, out)
      BY ONLY <3>1, <3>2 DEF Severed
    <3> QED
      <4>1. SeveredReads(Blank, grid, rows, H, j, out)
        BY ONLY <3>1, <3>3, CutAt
      <4> QED
        BY ONLY <4>1 DEF SeveredReads
  <2>8. SubSeq(grid, 1, H) = grid
    <3>1. ASSUME NEW S, NEW q \in Seq(S) PROVE SubSeq(q, 1, Len(q)) = q
      OBVIOUS
    <3> QED
      BY <2>5, <3>1
  <2>9. GoneRead(Blank, out) \o Grid(f.s) = Grid(s)
    BY <2>5, <2>6, <2>7, <2>8 DEF Grid, rows, grid
  <2>10. Part(Grid(s), Grid(s))
    BY GridInk, PartSame
  <2> QED
    BY <1>1, <2>9, <2>10 DEF Thins, out, f
<1> QED
  BY <1>6, <1>7

\* Scrolling down leaves part of the text (Screen::scroll_down).
LEMMA ScrollDownThin ==
  ASSUME NEW n, NEW s, Framed(n, s), NEW k \in Positive
  PROVE  Framed(n, ScrollDown(s, k)) /\ Part(Grid(ScrollDown(s, k)), Grid(s))
<1> DEFINE u == ScrollDown(s, k)
           j == Least(k, s.bottom + 1 - s.top)
           H == Len(s.rows)
           Moved(r) == IF r \notin s.top..s.bottom THEN s.rows[r]
                       ELSE IF r - j >= s.top THEN s.rows[r - j] ELSE BlankRow(s.cols)
           rows == [r \in DOMAIN s.rows |-> Moved(r)]
<1>1. Framed(n, u)
  BY ScrollDownFramed
<1>2. /\ n \in Nat /\ s.rows \in Seq(Width(n)) /\ H \in Nat /\ s.cols = n /\ s \in Frames(n)
      /\ s.top \in Nat /\ s.top >= 1 /\ s.bottom \in 1..H /\ DOMAIN s.rows = 1..H
  BY FramedFacts
<1>3. j \in Int /\ (s.top <= s.bottom => j >= 1)
  BY <1>2 DEF Least, Positive
<1>4. u.rows = rows
  <2>1. u = [s EXCEPT !.rows = rows]
    <3>1. [s EXCEPT !.rows = rows] = [s EXCEPT !.rows = [r \in DOMAIN @ |-> Moved(r)]]
      <4> HIDE DEF Moved
      <4> QED
        BY FramedFacts DEF Frames
    <3> QED
      BY <3>1 DEF ScrollDown
  <2> HIDE DEF rows, u
  <2> QED
    BY <1>2, <2>1 DEF Frames
<1> HIDE DEF j, u
<1>5. Len(rows) = H /\ \A r \in 1..H : rows[r] = Moved(r)
  <2> HIDE DEF Moved
  <2> QED
    BY <1>2
<1> HIDE DEF rows
<1>b. Bare(BlankRow(n).cells) = << >>
  BY <1>2, BlankInk
<1> DEFINE g == [r \in 1..H |-> IF r \notin s.top..s.bottom THEN r
                                ELSE IF r - j >= s.top THEN r - j ELSE 0]
<1>6. g \in [1..H -> 0..H] /\ \A r \in 1..H : g[r] = IF r \notin s.top..s.bottom THEN r
                                ELSE IF r - j >= s.top THEN r - j ELSE 0
  <2>1. ASSUME NEW r \in 1..H, r \in s.top..s.bottom, r - j >= s.top PROVE r - j \in 0..H
    BY <1>2, <1>3, <2>1
  <2>2. \A r \in 1..H : r \in 0..H /\ 0 \in 0..H
    BY <1>2
  <2> QED
    BY <2>1, <2>2
<1> HIDE DEF g
<1>7. ASSUME NEW r \in 1..H PROVE IF g[r] = 0 THEN Bare(rows[r].cells) = << >> ELSE rows[r] = s.rows[g[r]]
  <2>1. CASE r \notin s.top..s.bottom
    BY <1>2, <1>5, <1>6, <2>1
  <2>2. CASE r \in s.top..s.bottom /\ r - j >= s.top
    <3>1. g[r] = r - j /\ r - j # 0
      BY <1>2, <1>3, <1>6, <2>2
    <3> QED
      BY <1>5, <2>2, <3>1
  <2>3. CASE r \in s.top..s.bottom /\ ~(r - j >= s.top)
    BY <1>2, <1>5, <1>b, <1>6, <2>3
  <2> QED
    BY <2>1, <2>2, <2>3
<1>8. ASSUME NEW i \in 1..H, NEW r \in 1..H, i < r, g[i] # 0, g[r] # 0 PROVE g[i] < g[r]
  <2>1. \A q \in 1..H : g[q] = IF q \notin s.top..s.bottom THEN q
                               ELSE IF q - j >= s.top THEN q - j ELSE 0
    BY <1>6
  <2>2. /\ H \in Nat /\ s.top \in Nat /\ s.bottom \in Nat /\ j \in Int
        /\ (s.top <= s.bottom => j >= 1)
    BY <1>2, <1>3
  <2>3. CASE i \notin s.top..s.bottom /\ r \notin s.top..s.bottom
    BY <1>8, <2>1, <2>3
  <2>4. CASE i \in s.top..s.bottom /\ r \in s.top..s.bottom
    <3>1. g[i] = i - j /\ g[r] = r - j
      BY <1>8, <2>1, <2>4
    <3> QED
      BY <1>8, <2>2, <3>1
  <2>5. CASE i \in s.top..s.bottom /\ r \notin s.top..s.bottom
    <3>1. g[i] = i - j /\ g[r] = r /\ j >= 1
      BY <1>8, <2>1, <2>2, <2>5
    <3> QED
      BY <1>8, <2>2, <3>1
  <2>6. CASE i \notin s.top..s.bottom /\ r \in s.top..s.bottom
    <3>1. g[i] = i /\ g[r] = r - j /\ r - j >= s.top /\ i < s.top
      BY <1>8, <2>1, <2>2, <2>6
    <3> QED
      BY ONLY <2>2, <3>1, i \in 1..H, r \in 1..H
  <2> QED
    BY ONLY <2>3, <2>4, <2>5, <2>6
<1>9. Shifted(rows, s.rows, g)
  BY <1>5, <1>6, <1>7, <1>8 DEF Shifted, H
<1>10. Part(Grid(u), Grid(s))
  BY <1>1, <1>4, <1>9, RowsThin
<1> QED
  BY <1>1, <1>10 DEF u

\* A line feed and a reverse one (Screen::line_feed, reverse_index).
LEMMA LineFeedThins ==
  ASSUME NEW n, NEW s, Framed(n, s)
  PROVE  Thins(n, s, LineFeed(s))
<1> DEFINE t == [s EXCEPT !.pend = FALSE]
           u == [t EXCEPT !.row = @ + 1]
           f == LineFeed(s)
<1>1. Framed(n, t) /\ t.rows = s.rows
  BY DEF Framed, Frames
<1>2. Stays(n, f)
  BY LineFeedStays
<1>3. f = IF t.row = t.bottom THEN ScrollUp(t, 1)
          ELSE Quiet(IF t.row < Height(t) THEN u ELSE t)
  <2> HIDE DEF ScrollUp
  <2> QED
    BY DEF LineFeed
<1>4. Part(Grid(t), Grid(s)) /\ u.rows = t.rows
  BY <1>1, SameGrid DEF Framed, Frames
<1> HIDE DEF t, u, f
<1>5. CASE t.row = t.bottom
  <2>1. 1 \in Positive
    BY DEF Positive
  <2>2. Thins(n, t, ScrollUp(t, 1))
    BY <1>1, <2>1, ScrollUpThins
  <2>3. Thins(n, s, ScrollUp(t, 1))
    BY <1>1, <1>4, <2>2, ThinsThen
  <2> QED
    BY <1>3, <1>5, <2>3 DEF f
<1>6. CASE t.row # t.bottom
  <2> DEFINE v == IF t.row < Height(t) THEN u ELSE t
  <2>1. f = Quiet(v) /\ v.rows = s.rows
    BY <1>1, <1>3, <1>4, <1>6
  <2> HIDE DEF v
  <2>2. Framed(n, v)
    BY <1>2, <2>1 DEF Stays, Quiet
  <2>3. Part(Grid(v), Grid(s))
    BY <2>1, SameGrid
  <2> QED
    BY <2>1, <2>2, <2>3, QuietThins DEF f
<1> QED
  BY <1>5, <1>6

\* So does moving the cursor up (Screen::reverse_index).
LEMMA ReverseThin ==
  ASSUME NEW n, NEW s, Framed(n, s)
  PROVE  Framed(n, ReverseIndex(s)) /\ Part(Grid(ReverseIndex(s)), Grid(s))
<1> DEFINE t == [s EXCEPT !.pend = FALSE]
           u == [t EXCEPT !.row = @ - 1]
<1>1. Framed(n, t) /\ t.rows = s.rows
  BY DEF Framed, Frames
<1>2. u.rows = t.rows /\ Part(Grid(t), Grid(s))
  BY <1>1, SameGrid DEF Framed, Frames
<1>3. ReverseIndex(s) = IF t.row = t.top THEN ScrollDown(t, 1) ELSE IF t.row = 1 THEN t ELSE u
  <2> HIDE DEF ScrollDown
  <2> QED
    BY DEF ReverseIndex
<1>4. Framed(n, ReverseIndex(s))
  BY ReverseFramed
<1> HIDE DEF t, u
<1>5. Part(Grid(u), Grid(s))
  BY <1>1, <1>2, SameGrid
<1>6. CASE t.row = t.top
  <2>1. 1 \in Positive
    BY DEF Positive
  <2>2. Framed(n, ScrollDown(t, 1)) /\ Part(Grid(ScrollDown(t, 1)), Grid(t))
    BY <1>1, <2>1, ScrollDownThin
  <2> DEFINE v == ScrollDown(t, 1)
  <2> HIDE DEF v
  <2>3. Grid(v) \in Ink /\ Grid(t) \in Ink /\ Grid(s) \in Ink
    BY <1>1, <2>2, GridInk DEF v
  <2>4. Part(Grid(v), Grid(s))
    BY <1>2, <2>2, <2>3, PartTrans DEF v
  <2> QED
    BY <1>3, <1>4, <1>6, <2>4 DEF v
<1>7. CASE t.row # t.top
  BY <1>2, <1>3, <1>4, <1>5, <1>7
<1> QED
  BY <1>6, <1>7

\* A screen drawn from another: it is one, and has no text but the other's.
Thin(n, s, u) == Framed(n, u) /\ Part(Grid(u), Grid(s))

\* What leaves part of a part of the text leaves part of it.
LEMMA ThinTrans ==
  ASSUME NEW n, NEW s, NEW t, NEW u, Framed(n, s), Thin(n, s, t), Thin(n, t, u)
  PROVE  Thin(n, s, u)
<1>1. Grid(s) \in Ink /\ Grid(t) \in Ink /\ Grid(u) \in Ink
  BY GridInk DEF Thin
<1> QED
  BY <1>1, PartTrans DEF Thin

\* The same when no row leaves the grid.
LEMMA ThinQuiet ==
  ASSUME NEW n, NEW s, NEW u, Framed(n, s), Thin(n, s, u)
  PROVE  Thins(n, s, Quiet(u))
  BY QuietThins DEF Thin

\* Moving the cursor, and the margins with it (Screen::goto, set_region).
LEMMA GotoThin ==
  ASSUME NEW n, NEW s, Framed(n, s), NEW r \in Positive, NEW c \in Nat
  PROVE  Thin(n, s, Goto(s, r, c))
<1>1. Framed(n, Goto(s, r, c))
  BY GotoFramed
<1>2. Goto(s, r, c).rows = s.rows
  BY FramedFacts DEF Goto, Frames
<1> QED
  BY <1>1, <1>2, SameGrid DEF Thin

\* Setting the margins leaves the text (Screen::set_region).
LEMMA RegionThin ==
  ASSUME NEW n, NEW s, Framed(n, s), NEW top \in Positive, NEW bottom \in Positive
  PROVE  Thin(n, s, SetRegion(s, top, bottom))
<1> DEFINE b == Least(bottom, Height(s))
           t == [s EXCEPT !.top = top, !.bottom = b]
           u == Goto(t, 1, 0)
           v == SetRegion(s, top, bottom)
<1>1. Framed(n, v)
  BY RegionFramed
<1>2. t.rows = s.rows /\ t \in Frames(n)
  <2>1. b \in Positive
    BY FramedFacts DEF Least, Positive
  <2> HIDE DEF b
  <2>2. s \in Frames(n)
    BY FramedFacts
  <2> QED
    BY <2>1, <2>2 DEF Frames
<1>3. u.rows = s.rows
  <2> HIDE DEF t
  <2>1. Goto(t, 1, 0).rows = t.rows
    BY <1>2 DEF Goto, Frames
  <2> QED
    BY <1>2, <2>1
<1>4. v = IF top < b THEN u ELSE s
  <2> HIDE DEF Goto
  <2> QED
    BY DEF SetRegion
<1>5. v.rows = s.rows
  <2> HIDE DEF u, v
  <2> QED
    BY <1>3, <1>4
<1> QED
  BY <1>1, <1>5, SameGrid DEF Thin

\* Rows of a screen blanked (Screen::erase_display).
LEMMA ClearThin ==
  ASSUME NEW n, NEW s, Framed(n, s), NEW which
  PROVE  /\ Thin(n, s, ClearRows(s, which))
         /\ \A r \in 1..Len(s.rows) :
              ClearRows(s, which).rows[r] = IF r \in which THEN BlankRow(n) ELSE s.rows[r]
         /\ Len(ClearRows(s, which).rows) = Len(s.rows) /\ ClearRows(s, which).row = s.row
         /\ ClearRows(s, which).col = s.col
<1> DEFINE u == ClearRows(s, which)
           H == Len(s.rows)
           rows == [r \in DOMAIN s.rows |-> IF r \in which THEN BlankRow(s.cols) ELSE s.rows[r]]
           g == [r \in 1..H |-> IF r \in which THEN 0 ELSE r]
<1>1. /\ n \in Nat /\ s.rows \in Seq(Width(n)) /\ H \in Nat /\ s.cols = n /\ s \in Frames(n)
      /\ DOMAIN s.rows = 1..H /\ \A r \in 1..H : s.rows[r] \in Width(n)
  BY FramedFacts
<1>b. Bare(BlankRow(n).cells) = << >> /\ BlankRow(n) \in Width(n)
  BY <1>1, BlankInk
<1>2. u = [s EXCEPT !.rows = rows]
  BY <1>1 DEF ClearRows
<1>3. /\ rows \in Seq(Width(n)) /\ Len(rows) = H
      /\ \A r \in 1..H : rows[r] = IF r \in which THEN BlankRow(n) ELSE s.rows[r]
  BY <1>1, <1>b
<1> HIDE DEF rows, u
<1>4. u.rows = rows /\ u.row = s.row /\ u.col = s.col
  BY <1>1, <1>2 DEF Frames
<1>5. Framed(n, u)
  BY <1>2, <1>3, Redrawn
<1>6. g \in [1..H -> 0..H] /\ \A r \in 1..H : g[r] = IF r \in which THEN 0 ELSE r
  BY <1>1
<1> HIDE DEF g
<1>7. Shifted(rows, s.rows, g)
  BY <1>1, <1>3, <1>b, <1>6 DEF Shifted
<1>8. Part(Grid(u), Grid(s))
  BY <1>4, <1>5, <1>7, RowsThin
<1> QED
  BY <1>3, <1>4, <1>5, <1>8 DEF Thin, u

\* Another row where the cursor is, with nothing on it that was not there.
LEMMA HereThin ==
  ASSUME NEW n, NEW s, Framed(n, s), NEW x \in Width(n), Part(Bare(x.cells), Bare(s.rows[s.row].cells)),
         NEW u, u = [s EXCEPT !.rows[s.row] = x]
  PROVE  Thin(n, s, u) /\ u.row = s.row
<1>1. Framed(n, u)
  BY RowRedrawn
<1>2. s.row \in 1..Len(s.rows) /\ s \in Frames(n)
  BY FramedFacts
<1>3. u.rows = [s.rows EXCEPT ![s.row] = x] /\ u.row = s.row
  BY <1>2 DEF Frames
<1>4. Part(Grid(u), Grid(s))
  <2> DEFINE r == s.row
  <2>1. r \in 1..Len(s.rows) /\ u.rows = [s.rows EXCEPT ![r] = x]
        /\ Part(Bare(x.cells), Bare(s.rows[r].cells))
    BY <1>2, <1>3
  <2>2. Framed(n, s) /\ x \in Width(n)
    OBVIOUS
  <2> HIDE DEF r
  <2> QED
    BY ONLY <2>1, <2>2, RowThin
<1> QED
  BY <1>1, <1>3, <1>4 DEF Thin

\* Erasing in a line leaves part of the text (Screen::erase_line).
LEMMA EraseLineThin ==
  ASSUME NEW n, NEW s, Framed(n, s), NEW how \in {"end", "start", "all"}
  PROVE  Thin(n, s, EraseLine(s, how)) /\ EraseLine(s, how).row = s.row
<1> DEFINE y == s.rows[s.row]
           x == CASE how = "end" -> Fill(y, s.col + 1 .. s.cols)
                  [] how = "start" -> Fill(y, 1 .. s.col + 1)
                  [] how = "all" -> BlankRow(s.cols)
           u == [s EXCEPT !.rows[s.row] = x]
<1>1. n \in Nat /\ y \in Width(n) /\ s.cols = n /\ s \in Frames(n)
  BY FramedFacts
<1>2. EraseLine(s, how) = u
  <2> HIDE DEF Fill
  <2> QED
    BY <1>1 DEF EraseLine, Frames
<1> HIDE DEF u, y
<1>3. x \in Width(n) /\ Part(Bare(x.cells), Bare(y.cells))
  <2>1. CASE how = "end"
    BY <1>1, <2>1, FillPart
  <2>2. CASE how = "start"
    BY <1>1, <2>2, FillPart
  <2>3. CASE how = "all"
    <3>1. BlankRow(n) \in Width(n) /\ Bare(BlankRow(n).cells) = << >>
      BY <1>1, BlankInk
    <3>2. Part(<< >>, Bare(y.cells))
      BY <1>1, RowBare, PartSame
    <3> QED
      BY <1>1, <2>3, <3>1, <3>2
  <2> QED
    BY <2>1, <2>2, <2>3
<1>4. u = [s EXCEPT !.rows[s.row] = x]
  BY DEF u
<1> HIDE DEF x
<1> QED
  BY <1>2, <1>3, <1>4, HereThin DEF y

\* ICH, DCH and ECH.
LEMMA CharsThin ==
  ASSUME NEW n, NEW s, Framed(n, s)
  PROVE  Thin(n, s, InsertChar(s)) /\ Thin(n, s, DeleteChar(s)) /\ Thin(n, s, EraseChar(s))
<1> DEFINE y == s.rows[s.row]
<1>1. n \in Nat /\ y \in Width(n) /\ s.col \in 0 .. n - 1 /\ s \in Frames(n)
  BY FramedFacts
<1> DEFINE a == InsertBlank(y, s.col)
           b == DeleteCell(y, s.col)
           c == Fill(y, {s.col + 1})
<1>2. InsertChar(s) = [s EXCEPT !.rows[s.row] = a] /\ DeleteChar(s) = [s EXCEPT !.rows[s.row] = b]
      /\ EraseChar(s) = [s EXCEPT !.rows[s.row] = c]
  <2> HIDE DEF InsertBlank, DeleteCell, Fill
  <2> QED
    BY <1>1 DEF InsertChar, DeleteChar, EraseChar, Frames
<1> HIDE DEF y
<1>3. a \in Width(n) /\ Part(Bare(a.cells), Bare(y.cells))
  BY <1>1, InsertPart
<1>4. b \in Width(n) /\ Part(Bare(b.cells), Bare(y.cells))
  BY <1>1, DeletePart
<1>5. c \in Width(n) /\ Part(Bare(c.cells), Bare(y.cells))
  BY <1>1, FillPart
<1> HIDE DEF a, b, c
<1> QED
  BY <1>2, <1>3, <1>4, <1>5, HereThin DEF y

\* ED: an erasure of the whole screen hands its rows on (Screen::erase_display).
LEMMA ErasePartThins ==
  ASSUME NEW n, NEW s, Framed(n, s), NEW how \in {"end", "start"}
  PROVE  Thins(n, s, EraseDisplay(s, how))
<1> DEFINE e == EraseLine(s, "end")
           u == ClearRows(e, s.row + 1 .. Height(s))
           t == ClearRows(s, 1 .. s.row - 1)
           v == EraseLine(t, "start")
<1>1. Thin(n, s, e) /\ e.row = s.row /\ Framed(n, e)
  BY EraseLineThin DEF Thin
<1>2. Thin(n, s, t) /\ Framed(n, t)
  BY ClearThin DEF Thin
<1>3. EraseDisplay(s, how) = Quiet(u) \/ EraseDisplay(s, how) = Quiet(v)
  <2> HIDE DEF e, t, Quiet
  <2> QED
    BY DEF EraseDisplay, e, t
<1> HIDE DEF e, t
<1>4. Thin(n, e, u) /\ Thin(n, t, v)
  BY <1>1, <1>2, ClearThin, EraseLineThin
<1> HIDE DEF u, v
<1>5. Thin(n, s, u) /\ Thin(n, s, v)
  BY <1>1, <1>2, <1>4, ThinTrans
<1> QED
  BY <1>3, <1>5, ThinQuiet

\* The last row with something on it is one of the rows.
LEMMA LastUsedWithin ==
  ASSUME NEW n, NEW s, Framed(n, s)
  PROVE  LastUsedRow(s) \in 1..Len(s.rows)
<1> DEFINE Marks == {1} \cup {r \in 1..Height(s) : HasText(s.rows[r])}
<1>1. Height(s) \in Nat /\ Height(s) = Len(s.rows) /\ Height(s) >= 1
  BY FramedFacts
<1>2. Marks \in SUBSET (0..Height(s)) /\ Marks # {} /\ Marks \in SUBSET (1..Height(s))
  BY <1>1
<1>3. LastUsedRow(s) = Max(Marks)
  BY DEF LastUsedRow
<1> HIDE DEF Marks
<1> QED
  BY <1>1, <1>2, <1>3, MaxBound

\* Erasing everything archives it, or loses it (Screen::erase_display).
LEMMA ClearThins ==
  ASSUME NEW n, NEW s, Framed(n, s)
  PROVE  Thins(n, s, EraseDisplay(s, "all"))
<1> DEFINE c == ClearRows(s, 1..Height(s))
           u == [c EXCEPT !.carried = 0]
           l == LastUsedRow(s)
           H == Len(s.rows)
           top == SubSeq(s.rows, 1, l)
           full == FullRegion(s) /\ \E r \in 1..Height(s) : HasText(s.rows[r])
           out == IF full THEN DepartedRows(top) ELSE << >>
<1>1. /\ n \in Nat /\ s.rows \in Seq(Width(n)) /\ H \in Nat /\ Height(s) = H
  BY FramedFacts
<1>2. l \in 1..H
  BY LastUsedWithin
<1> HIDE DEF l
<1>3. EraseDisplay(s, "all") = [s |-> u, out |-> out]
  <2> HIDE DEF c
  <2> QED
    BY DEF EraseDisplay, c, l
<1> HIDE DEF full
<1>4. /\ Framed(n, c) /\ Len(c.rows) = H /\ \A r \in 1..H : c.rows[r] = BlankRow(n)
  BY <1>1, ClearThin DEF Thin
<1> HIDE DEF c
<1>5. Framed(n, u) /\ u.rows = c.rows
  BY <1>4 DEF Framed, Frames
<1>6. Grid(u) = << >>
  <2>1. c.rows \in Seq(Width(n))
    BY <1>4, FramedFacts
  <2>2. NothingFrom(c.rows, 1)
    <3>1. Bare(BlankRow(n).cells) = << >>
      BY <1>1, BlankInk
    <3> QED
      BY <1>4, <3>1 DEF NothingFrom
  <2> QED
    BY <1>1, <1>5, <2>1, <2>2, NothingRead DEF Grid
<1>7. /\ top \in Seq(Width(n)) /\ Len(top) = l /\ \A i \in 1..l : top[i] = s.rows[i]
  BY <1>1, <1>2
<1> HIDE DEF top
<1>8. out \in Seq(Gone)
  BY <1>1, <1>7, DepartedType
<1>9. Part(GoneRead(Blank, out), Grid(s))
  <2>1. Part(RowsRead(Blank, top), Grid(s))
    <3> DEFINE g == [i \in 1..l |-> i]
    <3>1. g \in [1..l -> 0..H] /\ \A i \in 1..l : g[i] = i /\ g[i] # 0
      BY <1>1, <1>2
    <3> HIDE DEF g
    <3>2. Shifted(top, s.rows, g)
      BY <1>7, <3>1 DEF Shifted
    <3> QED
      BY <1>1, <1>7, <3>2, ShiftPart DEF Grid
  <2>2. GoneRead(Blank, << >>) = << >> /\ Part(<< >>, Grid(s))
    <3>1. << >> \in Seq(Gone) /\ Blank \in Int
      BY DEF Blank
    <3> QED
      BY <3>1, GoneReadJoin, GridInk, PartSame
  <2> QED
    BY <2>1, <2>2 DEF RowsRead
<1>10. GoneRead(Blank, out) \o Grid(u) = GoneRead(Blank, out)
  <2>1. GoneRead(Blank, out) \in Ink
    BY <1>8, GonePoured
  <2> HIDE DEF out
  <2> QED
    BY <1>6, <2>1, InkFacts
<1> HIDE DEF u, out
<1> DEFINE f == EraseDisplay(s, "all")
<1>11. f.s = u /\ f.out = out
  BY <1>3
<1> HIDE DEF f
<1>12. Thins(n, s, f)
  BY <1>5, <1>8, <1>9, <1>10, <1>11 DEF Thins, Stays
<1> QED
  BY <1>12 DEF f

\* What is read first or last of a text is part of it.
LEMMA PartEnds ==
  ASSUME NEW x \in Ink, NEW y \in Ink
  PROVE  Part(x, x \o y) /\ Part(y, x \o y)
<1>1. << >> \in Ink /\ x \o << >> = x /\ << >> \o y = y
  BY InkFacts
<1>2. Part(x, x) /\ Part(y, y) /\ Part(<< >>, x) /\ Part(<< >>, y)
  BY PartSame
<1>3. Part(x \o << >>, x \o y)
  BY <1>1, <1>2, PartJoin
<1>4. Part(<< >> \o y, x \o y)
  BY <1>1, <1>2, PartJoin
<1> QED
  BY <1>1, <1>3, <1>4

\* What an operation leaves on the screen is part of what was there.
LEMMA ThinsThin ==
  ASSUME NEW n, NEW s, Framed(n, s), NEW f, Thins(n, s, f)
  PROVE  Thin(n, s, f.s)
<1>1. GoneRead(Blank, f.out) \in Ink /\ Grid(f.s) \in Ink /\ Framed(n, f.s)
      /\ GoneRead(Blank, f.out) \o Grid(f.s) \in Ink
  BY StaysInk DEF Thins
<1>2. Part(Grid(f.s), GoneRead(Blank, f.out) \o Grid(f.s))
  BY <1>1, PartEnds
<1>3. Grid(s) \in Ink
  BY GridInk
<1>4. Part(Grid(f.s), Grid(s))
  BY <1>1, <1>2, <1>3, PartTrans DEF Thins
<1> QED
  BY <1>1, <1>4 DEF Thin

\* The rows aside, a screen may be given another margin and another count of rows in Emacs.
LEMMA TopFramed ==
  ASSUME NEW n, NEW s, Framed(n, s), NEW top \in Positive
  PROVE  Framed(n, [s EXCEPT !.top = top]) /\ [s EXCEPT !.top = top].rows = s.rows
  BY DEF Framed, Frames

\* The count of rows of the top line is not text.
LEMMA CarriedThin ==
  ASSUME NEW n, NEW s, Framed(n, s), NEW c \in Nat
  PROVE  Thin(n, s, [s EXCEPT !.carried = c])
<1>1. Framed(n, [s EXCEPT !.carried = c]) /\ [s EXCEPT !.carried = c].rows = s.rows
  BY DEF Framed, Frames
<1> QED
  BY <1>1, SameGrid DEF Thin

\* IL and DL borrow the scroll region (Screen::insert_lines, delete_lines).
LEMMA LinesThin ==
  ASSUME NEW n, NEW s, Framed(n, s), NEW k \in Positive
  PROVE  Thin(n, s, InsertLines(s, k)) /\ Thin(n, s, DeleteLines(s, k))
<1> DEFINE t == [s EXCEPT !.top = s.row]
           d == ScrollDown(t, k)
           f == ScrollUp(t, k)
           v == f.s
           a == [d EXCEPT !.top = s.top]
           b == [v EXCEPT !.top = s.top]
           c == [b EXCEPT !.carried = s.carried]
<1>1. s.row \in Positive /\ s.top \in Positive /\ s.carried \in Nat
  BY FramedFacts DEF Framed, Frames
<1>2. Framed(n, t) /\ t.rows = s.rows
  BY <1>1, TopFramed
<1>3. InsertLines(s, k) = s \/ InsertLines(s, k) = a
  <2> HIDE DEF ScrollDown
  <2> QED
    BY DEF InsertLines
<1>4. DeleteLines(s, k) = s \/ DeleteLines(s, k) = c
  <2> HIDE DEF ScrollUp
  <2>1. c = [ScrollUp(t, k).s EXCEPT !.top = s.top, !.carried = s.carried]
    OBVIOUS
  <2> HIDE DEF c
  <2> QED
    BY <2>1 DEF DeleteLines
<1> HIDE DEF t
<1>5. Thin(n, s, t)
  BY <1>2, SameGrid DEF Thin
<1>6. Thin(n, t, d) /\ Framed(n, d)
  BY <1>2, ScrollDownThin DEF Thin
<1>7. Thin(n, t, v) /\ Framed(n, v)
  BY <1>2, ScrollUpThins, ThinsThin DEF Thin
<1> HIDE DEF d, v
<1>8. Thin(n, d, a)
  <2>1. Framed(n, a) /\ a.rows = d.rows
    BY <1>1, <1>6, TopFramed
  <2> QED
    BY <1>6, <2>1, SameGrid DEF Thin
<1>9. Thin(n, v, b) /\ Framed(n, b)
  <2>1. Framed(n, b) /\ b.rows = v.rows
    BY <1>1, <1>7, TopFramed
  <2> QED
    BY <1>7, <2>1, SameGrid DEF Thin
<1> HIDE DEF a, b
<1>10. Thin(n, b, c)
  BY <1>1, <1>9, CarriedThin
<1> HIDE DEF c
<1>11. Thin(n, s, a)
  BY <1>2, <1>5, <1>6, <1>8, ThinTrans
<1>12. Thin(n, s, c)
  <2>1. Thin(n, s, v)
    BY <1>2, <1>5, <1>7, ThinTrans
  <2>2. Thin(n, s, b)
    BY <1>9, <2>1, ThinTrans
  <2> QED
    BY <1>10, <2>2, ThinTrans
<1>13. Thin(n, s, s)
  BY SameGrid DEF Thin
<1> QED
  BY <1>3, <1>4, <1>11, <1>12, <1>13

\* Rows removed for good (Screen::remove_rows).
LEMMA RemoveThin ==
  ASSUME NEW n, NEW s, Framed(n, s), NEW first \in Positive, NEW m \in Int
  PROVE  Thin(n, s, RemoveRows(s, first, m))
<1> DEFINE u == RemoveRows(s, first, m)
           H == Len(s.rows)
           k == Least(m, H + 1 - first)
           up == SubSeq(s.rows, 1, first - 1)
           low == SubSeq(s.rows, first + k, H)
           blanks == [i \in 1..k |-> BlankRow(n)]
           rows == up \o low \o blanks
           count == IF first = 1 THEN 0 ELSE s.carried
           row == IF s.row >= first + k THEN s.row - k ELSE Least(s.row, first)
<1>1. /\ n \in Nat /\ s.rows \in Seq(Width(n)) /\ H \in Nat /\ s.cols = n /\ s \in Frames(n)
      /\ Height(s) = H /\ s.carried \in Nat /\ s.row \in 1..H
      /\ first \in Nat /\ first >= 1
  BY FramedFacts DEF Positive
<1>2. k \in Int /\ k <= H + 1 - first
  BY <1>1 DEF Least
<1>3. u = IF k <= 0 THEN s
          ELSE [s EXCEPT !.rows = rows, !.carried = count, !.row = row, !.pend = FALSE]
  <2> HIDE DEF BlankRow, Least
  <2> QED
    BY <1>1 DEF RemoveRows, Frames
<1> HIDE DEF k, u, H
<1>4. CASE k <= 0
  <2>1. Thin(n, s, s)
    BY SameGrid DEF Thin
  <2> QED
    BY <1>3, <1>4, <2>1 DEF u
<1>5. CASE ~(k <= 0)
  <2> DEFINE p == first - 1
             q == H - p - k
  <2>1. /\ k \in Nat /\ k >= 1 /\ p \in Nat /\ q \in Nat /\ p + q + k = H /\ first = p + 1
        /\ p + k + q = H /\ k \in 0..H /\ p + k \in Nat
    BY <1>1, <1>2, <1>5
  <2> HIDE DEF p, q
  <2>2. /\ up \in Seq(Width(n)) /\ Len(up) = p /\ \A i \in 1..p : up[i] = s.rows[i]
    <3>1. ASSUME NEW S, NEW z \in Seq(S), NEW i \in 0..Len(z)
          PROVE  SubSeq(z, 1, i) \in Seq(S) /\ Len(SubSeq(z, 1, i)) = i
                 /\ \A j \in 1..i : SubSeq(z, 1, i)[j] = z[j]
      OBVIOUS
    <3>2. p \in 0..Len(s.rows) /\ first - 1 = p
      BY <1>1, <2>1 DEF H
    <3> QED
      BY <1>1, <3>1, <3>2
  <2>3. /\ low \in Seq(Width(n)) /\ Len(low) = q /\ \A i \in 1..q : low[i] = s.rows[p + k + i]
    <3>1. ASSUME NEW S, NEW z \in Seq(S), NEW a \in Nat, NEW b \in Nat, a + b = Len(z)
          PROVE  SubSeq(z, a + 1, Len(z)) \in Seq(S) /\ Len(SubSeq(z, a + 1, Len(z))) = b
                 /\ \A i \in 1..b : SubSeq(z, a + 1, Len(z))[i] = z[a + i]
      BY <3>1
    <3> DEFINE a == p + k
    <3>2. a \in Nat /\ a + q = Len(s.rows) /\ first + k = a + 1 /\ H = Len(s.rows)
      BY <2>1 DEF H
    <3> HIDE DEF a
    <3>3. /\ SubSeq(s.rows, a + 1, Len(s.rows)) \in Seq(Width(n))
          /\ Len(SubSeq(s.rows, a + 1, Len(s.rows))) = q
          /\ \A i \in 1..q : SubSeq(s.rows, a + 1, Len(s.rows))[i] = s.rows[a + i]
      BY <1>1, <2>1, <3>1, <3>2
    <3> QED
      BY <3>2, <3>3 DEF a
  <2>4. /\ blanks \in Seq(Width(n)) /\ Len(blanks) = k /\ \A i \in 1..k : blanks[i] = BlankRow(n)
    BY <1>1, <2>1, BlankRows
  <2> HIDE DEF up, low, blanks
  <2>5. Three(Width(n), rows, up, low, blanks, p, q, k)
    BY <2>1, <2>2, <2>3, <2>4, JoinedThree
  <2> HIDE DEF rows
  <2>6. /\ rows \in Seq(Width(n)) /\ Len(rows) = H
        /\ (\A i \in 1..p : rows[i] = s.rows[i])
        /\ (\A i \in 1..q : rows[p + i] = s.rows[p + k + i])
        /\ (\A i \in 1..k : rows[p + q + i] = BlankRow(n))
    <3>1. /\ rows \in Seq(Width(n)) /\ Len(rows) = p + q + k
          /\ (\A i \in 1..p : rows[i] = up[i])
          /\ (\A i \in 1..q : rows[p + i] = low[i])
          /\ (\A i \in 1..k : rows[p + q + i] = blanks[i])
      BY ONLY <2>5 DEF Three
    <3>2. \A i \in 1..p : rows[i] = s.rows[i]
      BY <2>2, <3>1
    <3>3. \A i \in 1..q : rows[p + i] = s.rows[p + k + i]
      BY <2>3, <3>1
    <3>4. \A i \in 1..k : rows[p + q + i] = BlankRow(n)
      BY <2>4, <3>1
    <3> QED
      BY <2>1, <3>1, <3>2, <3>3, <3>4
  <2> DEFINE g == [i \in 1..H |-> IF i <= p THEN i ELSE IF i <= p + q THEN i + k ELSE 0]
  <2>7. /\ g \in [1..H -> 0..H]
        /\ \A i \in 1..H : g[i] = IF i <= p THEN i ELSE IF i <= p + q THEN i + k ELSE 0
    <3>1. ASSUME NEW i \in 1..H PROVE (IF i <= p THEN i ELSE IF i <= p + q THEN i + k ELSE 0) \in 0..H
      BY <1>1, <2>1
    <3> QED
      BY <3>1
  <2> HIDE DEF g
  <2>8. ASSUME NEW i \in 1..H PROVE IF g[i] = 0 THEN Bare(rows[i].cells) = << >> ELSE rows[i] = s.rows[g[i]]
    <3>1. CASE i <= p
      <4>1. i \in 1..p /\ g[i] = i /\ i # 0
        BY <2>7, <3>1
      <4> QED
        BY <2>6, <4>1
    <3>2. CASE i > p /\ i <= p + q
      <4> DEFINE j == i - p
      <4>1. j \in 1..q /\ p + j = i /\ p + k + j = i + k /\ g[i] = i + k /\ i + k # 0
        BY <2>1, <2>7, <3>2
      <4> HIDE DEF j
      <4>2. rows[p + j] = s.rows[p + k + j]
        BY <2>6, <4>1
      <4> QED
        BY <4>1, <4>2
    <3>3. CASE i > p + q
      <4> DEFINE j == i - (p + q)
      <4>1. j \in 1..k /\ p + q + j = i /\ g[i] = 0
        BY <1>1, <2>1, <2>7, <3>3
      <4> HIDE DEF j
      <4>2. rows[p + q + j] = BlankRow(n) /\ Bare(BlankRow(n).cells) = << >>
        BY <1>1, <2>6, <4>1, BlankInk
      <4> QED
        BY <4>1, <4>2
    <3>4. i <= p \/ (i > p /\ i <= p + q) \/ i > p + q
      BY <2>1
    <3> QED
      BY <3>1, <3>2, <3>3, <3>4
  <2>9. ASSUME NEW i \in 1..H, NEW j \in 1..H, i < j, g[i] # 0, g[j] # 0 PROVE g[i] < g[j]
    <3>1. (j <= p => g[j] = j) /\ (j > p => g[j] = j + k)
      BY <2>1, <2>7, <2>9
    <3>2. (i <= p => g[i] = i) /\ (i > p => g[i] = i + k)
      BY <2>1, <2>7, <2>9
    <3> QED
      BY <2>1, <2>9, <3>1, <3>2
  <2>10. Shifted(rows, s.rows, g)
    BY <2>6, <2>7, <2>8, <2>9 DEF Shifted, H
  <2>11. row \in Positive /\ row <= H /\ count \in Nat
    BY <1>1, <2>1 DEF Least, Positive
  <2> HIDE DEF row, count
  <2>12. u = [s EXCEPT !.rows = rows, !.carried = count, !.row = row, !.pend = FALSE]
    BY <1>3, <1>5
  <2>13. u.rows = rows /\ u \in Frames(n) /\ u.row = row /\ u.bottom = s.bottom
    BY <1>1, <2>6, <2>11, <2>12 DEF Frames
  <2>14. Framed(n, u)
    BY <2>6, <2>11, <2>13 DEF Framed, H
  <2>15. Part(Grid(u), Grid(s))
    BY <2>10, <2>13, <2>14, RowsThin
  <2> QED
    BY <2>14, <2>15 DEF Thin, u
<1> QED
  BY <1>4, <1>5

-----------------------------------------------------------------------------
(* A resize of any screen *)

\* The rows of a screen cut or padded to a width.
CutRows(s, n) == [r \in DOMAIN s.rows |-> ResizeRow(s.rows[r], n)]

\* Rows cut or padded to a width hold part of the text (Row::resize).
LEMMA CutRowsThin ==
  ASSUME NEW k, NEW s, Framed(k, s), NEW n \in Positive
  PROVE  /\ CutRows(s, n) \in Seq(Width(n)) /\ Len(CutRows(s, n)) = Len(s.rows)
         /\ DOMAIN CutRows(s, n) = DOMAIN s.rows
         /\ [r \in DOMAIN CutRows(s, n) |-> ResizeRow(CutRows(s, n)[r], n)] = CutRows(s, n)
         /\ Part(RowsRead(Blank, CutRows(s, n)), Grid(s))
<1> DEFINE x == CutRows(s, n)
           H == Len(s.rows)
           g == [i \in 1..H |-> i]
<1>1. /\ k \in Nat /\ n \in Nat /\ s.rows \in Seq(Width(k)) /\ H \in Nat /\ DOMAIN s.rows = 1..H
      /\ \A r \in 1..H : s.rows[r] \in Width(k)
  BY FramedFacts DEF Positive
<1>2. ASSUME NEW r \in 1..H
      PROVE  ResizeRow(s.rows[r], n) \in Width(n)
             /\ Part(Bare(ResizeRow(s.rows[r], n).cells), Bare(s.rows[r].cells))
  BY <1>1, ResizePart
<1>3. /\ x \in Seq(Width(n)) /\ Len(x) = H /\ DOMAIN x = 1..H
      /\ \A r \in 1..H : x[r] = ResizeRow(s.rows[r], n)
  BY <1>1, <1>2 DEF CutRows
<1> HIDE DEF x
<1>4. \A r \in 1..H : ResizeRow(x[r], n) = x[r]
  BY <1>1, <1>3, SameWidth
<1>5. [r \in DOMAIN x |-> ResizeRow(x[r], n)] = x
  <2>1. ASSUME NEW S, NEW q \in Seq(S) PROVE [r \in DOMAIN q |-> q[r]] = q
    OBVIOUS
  <2>2. [r \in DOMAIN x |-> x[r]] = x
    BY <1>3, <2>1
  <2>3. [r \in DOMAIN x |-> ResizeRow(x[r], n)] = [r \in DOMAIN x |-> x[r]]
    BY <1>3, <1>4
  <2> QED
    BY <2>2, <2>3
<1>6. g \in [1..H -> 0..H] /\ \A i \in 1..H : g[i] = i /\ g[i] # 0
  BY <1>1
<1> HIDE DEF g
<1>7. RowMap(x, s.rows, g)
  BY <1>2, <1>3, <1>6 DEF RowMap
<1>8. Part(RowsRead(Blank, x), Grid(s))
  BY <1>1, <1>3, <1>7, RowsPart DEF Grid
<1> QED
  BY <1>1, <1>3, <1>5, <1>8 DEF x

\* A screen's fields, and those a change of height sets (Resize::Clamp).
Fielded(s) ==
  \E R, C : s \in [rows : R, cols : Int, row : Int, col : Int, pend : BOOLEAN, top : Int,
                   bottom : Int, carried : C, autowrap : BOOLEAN]
Laid(s, rows, row, col, carried) ==
  [rows |-> rows, cols |-> s.cols, row |-> row, col |-> col, pend |-> s.pend, top |-> 1,
   bottom |-> Len(rows), carried |-> carried, autowrap |-> s.autowrap]
Refitted(s, rows, row, col, carried) ==
  ResetRegion([s EXCEPT !.rows = rows, !.carried = carried, !.row = row, !.col = col])

\* The screen that comes of a change of height, field by field.
LEMMA RefittedLaid ==
  ASSUME NEW s, Fielded(s), NEW rows, NEW row, NEW col, NEW carried
  PROVE  Refitted(s, rows, row, col, carried) = Laid(s, rows, row, col, carried)
<1>1. PICK R, C : s \in [rows : R, cols : Int, row : Int, col : Int, pend : BOOLEAN, top : Int,
                         bottom : Int, carried : C, autowrap : BOOLEAN]
  BY DEF Fielded
<1> DEFINE t == [s EXCEPT !.rows = rows, !.carried = carried, !.row = row, !.col = col]
           u == [s EXCEPT !.rows = rows, !.carried = carried]
<1>2. u \in [rows : {rows}, cols : {s.cols}, row : Int, col : Int, pend : {s.pend}, top : Int,
             bottom : Int, carried : {carried}, autowrap : {s.autowrap}]
  BY <1>1
<1>3. t = [u EXCEPT !.row = row, !.col = col]
  OBVIOUS
<1> HIDE DEF u
<1>4. t \in [rows : {rows}, cols : {s.cols}, row : {row}, col : {col}, pend : {s.pend}, top : Int,
             bottom : Int, carried : {carried}, autowrap : {s.autowrap}]
  BY <1>2, <1>3
<1>5. Refitted(s, rows, row, col, carried) = ResetRegion(t)
  BY DEF Refitted
<1> HIDE DEF t
<1>6. ResetRegion(t) = Laid(s, rows, row, col, carried)
  <2> DEFINE v == ResetRegion(t)
             l == Len(rows)
  <2>1. t.rows = rows
    BY <1>4
  <2>2. v = [t EXCEPT !.top = 1, !.bottom = l]
    BY <2>1 DEF ResetRegion, Height
  <2> HIDE DEF v, l
  <2>3. v \in [rows : {rows}, cols : {s.cols}, row : {row}, col : {col}, pend : {s.pend}, top : {1},
               bottom : {l}, carried : {carried}, autowrap : {s.autowrap}]
    BY <1>4, <2>2
  <2>4. Laid(s, rows, row, col, carried) = v
    BY <2>3 DEF Laid, l
  <2> QED
    BY <2>4 DEF v
<1> QED
  BY <1>5, <1>6

\* What Resize::Clamp makes of a screen whose rows are cut to a width.
ClampCut(cut, rows, cols) ==
  LET excess == Greatest(Height(cut) - rows, 0)
      spare == Least(Height(cut) - Used(cut), excess)
      shed == excess - spare
      kept == SubSeq(cut.rows, shed + 1, Height(cut) - spare)
      out == DepartedRows(SubSeq(cut.rows, 1, shed))
  IN  [s |-> Refitted(cut, kept \o [i \in 1 .. rows - Len(kept) |-> BlankRow(cols)],
                      Least(Greatest(cut.row - shed, 1), rows), Least(cut.col, cols - 1),
                      Carry(cut.carried, out)),
       out |-> out]

CutTo(c, s, n) == c = [s EXCEPT !.rows = CutRows(s, n), !.cols = n]

\* A clamp is a change of height of the rows that were cut (Resize::Clamp).
LEMMA ClampAsCut ==
  ASSUME NEW s, NEW h, NEW n, NEW c, CutTo(c, s, n), Fielded(c)
  PROVE  ClampTo(s, h, n) = ClampCut(c, h, n)
<1> DEFINE excess == Greatest(Height(c) - h, 0)
           spare == Least(Height(c) - Used(c), excess)
           shed == excess - spare
           kept == SubSeq(c.rows, shed + 1, Height(c) - spare)
           out == DepartedRows(SubSeq(c.rows, 1, shed))
           rows == kept \o [i \in 1 .. h - Len(kept) |-> BlankRow(n)]
           row == Least(Greatest(c.row - shed, 1), h)
           col == Least(c.col, n - 1)
           carried == Carry(c.carried, out)
           cut == [s EXCEPT !.rows = [r \in DOMAIN @ |-> ResizeRow(@[r], n)], !.cols = n]
<1>3. cut = c
  BY DEF CutTo, CutRows
<1> HIDE DEF cut
<1>4. ClampTo(s, h, n) =
        LET ex == Greatest(Height(cut) - h, 0)
            sp == Least(Height(cut) - Used(cut), ex)
            sh == ex - sp
            ke == SubSeq(cut.rows, sh + 1, Height(cut) - sp)
            ou == DepartedRows(SubSeq(cut.rows, 1, sh))
        IN  [s |-> ResetRegion(
                     [cut EXCEPT !.rows = ke \o [i \in 1 .. h - Len(ke) |-> BlankRow(n)],
                                 !.carried = Carry(@, ou),
                                 !.row = Least(Greatest(@ - sh, 1), h),
                                 !.col = Least(@, n - 1)]),
             out |-> ou]
  BY DEF ClampTo, cut
<1>5. ClampTo(s, h, n) =
        [s |-> ResetRegion([c EXCEPT !.rows = rows, !.carried = carried, !.row = row, !.col = col]),
         out |-> out]
  BY <1>3, <1>4
<1>6. ClampCut(c, h, n) = [s |-> Refitted(c, rows, row, col, carried), out |-> out]
  BY DEF ClampCut
<1> HIDE DEF rows, row, col, carried, out
<1> DEFINE a == ResetRegion([c EXCEPT !.rows = rows, !.carried = carried, !.row = row, !.col = col])
           b == Refitted(c, rows, row, col, carried)
<1>7. a = b
  BY DEF Refitted
<1>8. ClampTo(s, h, n) = [s |-> a, out |-> out] /\ ClampCut(c, h, n) = [s |-> b, out |-> out]
  BY <1>5, <1>6
<1> HIDE DEF a, b
<1> QED
  BY <1>7, <1>8

\* Where the margins and the cursor's column were makes no difference to it.
LEMMA ClampSame ==
  ASSUME NEW c, NEW d, Fielded(c), Fielded(d), NEW h, NEW n,
         c.rows = d.rows, c.cols = d.cols, c.row = d.row, c.pend = d.pend, c.carried = d.carried,
         c.autowrap = d.autowrap, Least(c.col, n - 1) = Least(d.col, n - 1)
  PROVE  ClampCut(c, h, n) = ClampCut(d, h, n)
<1>1. Height(c) = Height(d) /\ Used(c) = Used(d)
  <2>1. Height(c) = Height(d)
    BY DEF Height
  <2>2. LastUsedRow(c) = LastUsedRow(d)
    BY <2>1 DEF LastUsedRow
  <2> QED
    BY <2>1, <2>2 DEF Used
<1> DEFINE sh == Greatest(Height(c) - h, 0) - Least(Height(c) - Used(c), Greatest(Height(c) - h, 0))
           ke == SubSeq(c.rows, sh + 1, Height(c) - Least(Height(c) - Used(c), Greatest(Height(c) - h, 0)))
           rows == ke \o [i \in 1 .. h - Len(ke) |-> BlankRow(n)]
           row == Least(Greatest(c.row - sh, 1), h)
           col == Least(c.col, n - 1)
           out == DepartedRows(SubSeq(c.rows, 1, sh))
           carried == Carry(c.carried, out)
<1>2. ClampCut(c, h, n) = [s |-> Refitted(c, rows, row, col, carried), out |-> out]
  BY DEF ClampCut
<1>3. ClampCut(d, h, n) = [s |-> Refitted(d, rows, row, col, carried), out |-> out]
  BY <1>1 DEF ClampCut
<1> HIDE DEF rows, row, col, out, carried
<1>4. Refitted(c, rows, row, col, carried) = Laid(c, rows, row, col, carried)
  BY RefittedLaid
<1>5. Refitted(d, rows, row, col, carried) = Laid(d, rows, row, col, carried)
  BY RefittedLaid
<1>6. Laid(c, rows, row, col, carried) = Laid(d, rows, row, col, carried)
  BY DEF Laid
<1> QED
  BY <1>2, <1>3, <1>4, <1>5, <1>6

\* A clamp leaves part of the text, on the screen or off its top.
LEMMA ClampThins ==
  ASSUME NEW k, NEW s, Framed(k, s), NEW h \in Positive, NEW n \in Positive
  PROVE  Thins(n, s, ClampTo(s, h, n))
<1> DEFINE x == CutRows(s, n)
           H == Len(s.rows)
           col == Least(s.col, n - 1)
           c == [s EXCEPT !.rows = x, !.cols = n]
           d == [c EXCEPT !.top = 1, !.bottom = H, !.col = col]
           e == [d EXCEPT !.rows = CutRows(d, n), !.cols = n]
<1>1. /\ s \in Frames(k) /\ H \in Nat /\ H >= 1 /\ s.row \in 1..H /\ s.col \in 0 .. k - 1
      /\ k \in Nat /\ n \in Nat /\ n >= 1
  BY FramedFacts DEF Positive
<1>2. /\ x \in Seq(Width(n)) /\ Len(x) = H /\ DOMAIN x = DOMAIN s.rows
      /\ [r \in DOMAIN x |-> ResizeRow(x[r], n)] = x
      /\ Part(RowsRead(Blank, x), Grid(s))
  BY CutRowsThin
<1>3. col \in 0 .. n - 1 /\ col \in Int /\ Least(s.col, n - 1) = Least(col, n - 1)
  BY <1>1 DEF Least
<1> HIDE DEF x, H, col
<1>4. c \in [rows : {x}, cols : {n}, row : Positive, col : {s.col}, pend : {s.pend},
             top : Positive, bottom : Positive, carried : {s.carried}, autowrap : {s.autowrap}]
      /\ c.row = s.row /\ s.row \in Positive /\ s.pend \in BOOLEAN /\ s.autowrap \in BOOLEAN
      /\ s.carried \in Nat
  BY <1>1 DEF Frames
<1>5. ClampTo(s, h, n) = ClampCut(c, h, n) /\ Fielded(c)
  <2>1. c \in [rows : {x}, cols : Int, row : Int, col : Int, pend : BOOLEAN, top : Int,
               bottom : Int, carried : {s.carried}, autowrap : BOOLEAN]
    <3> HIDE DEF c
    <3> QED
      BY <1>1, <1>4 DEF Positive
  <2>2. Fielded(c)
    <3> HIDE DEF c
    <3> QED
      BY <2>1 DEF Fielded
  <2>3. CutTo(c, s, n)
    BY DEF CutTo, x
  <2> HIDE DEF c
  <2> QED
    BY <2>2, <2>3, ClampAsCut
<1> HIDE DEF c
<1>6. /\ d \in [rows : {x}, cols : {n}, row : {s.row}, col : {col}, pend : {s.pend},
               top : {1}, bottom : {H}, carried : {s.carried}, autowrap : {s.autowrap}]
  BY <1>4
<1> HIDE DEF d
<1>7. Whole(n, d) /\ d.rows = x
  <2>1. 1 \in Positive /\ H \in Positive
    BY <1>1 DEF Positive
  <2>2. d \in Screens(n) /\ d.rows = x /\ d.row = s.row /\ d.bottom = H
    BY <1>2, <1>3, <1>4, <1>6, <2>1 DEF Screens
  <2> QED
    BY <1>1, <1>2, <2>2 DEF Whole
<1>8. e = d
  <2>1. CutRows(d, n) = x
    BY <1>2, <1>7 DEF CutRows
  <2> QED
    BY <1>6, <2>1
<1>9. Fielded(d)
  <2>1. d \in [rows : {x}, cols : Int, row : Int, col : Int, pend : BOOLEAN, top : Int,
               bottom : Int, carried : {s.carried}, autowrap : BOOLEAN]
    BY <1>1, <1>3, <1>4, <1>6
  <2> QED
    BY <2>1 DEF Fielded
<1>10. ClampTo(d, h, n) = ClampCut(d, h, n)
  <2>1. CutTo(d, d, n)
    BY <1>8 DEF CutTo
  <2> HIDE DEF e
  <2> QED
    BY <1>9, <2>1, ClampAsCut
<1>11. ClampCut(c, h, n) = ClampCut(d, h, n)
  <2>1. /\ c.rows = d.rows /\ c.cols = d.cols /\ c.row = d.row /\ c.pend = d.pend
        /\ c.carried = d.carried /\ c.autowrap = d.autowrap /\ c.col = s.col /\ d.col = col
    BY <1>4, <1>6
  <2> QED
    BY <1>3, <1>5, <1>9, <2>1, ClampSame
<1> DEFINE f == ClampTo(s, h, n)
<1>12. f = ClampTo(d, h, n)
  BY <1>5, <1>10, <1>11
<1> HIDE DEF f
<1>13. Reads(n, f, d)
  BY <1>7, <1>12, ClampReads
<1>14. GoneRead(Blank, f.out) \o Grid(f.s) = RowsRead(Blank, x)
  BY <1>7, <1>13 DEF Reads, Grid
<1>15. Stays(n, f)
  BY <1>13, FramedWhole DEF Reads, Stays
<1> QED
  BY <1>2, <1>14, <1>15 DEF Thins, f

\* A resize leaves the text it found, or part of it.
LEMMA ResizeThins ==
  ASSUME NEW k, NEW s, Framed(k, s), NEW h \in Positive, NEW n \in Positive
  PROVE  Thins(n, s, ResizeScreen(s, h, n))
<1>1. CASE FullRegion(s)
  <2> DEFINE f == ResizeScreen(s, h, n)
  <2>1. Whole(k, s)
    BY <1>1, FramedWhole
  <2> HIDE DEF f
  <2>2. Reads(n, f, s)
    BY <2>1, ResizeReads DEF f
  <2>3. Stays(n, f)
    BY <2>2, FramedWhole DEF Reads, Stays
  <2>4. Part(Grid(s), Grid(s))
    BY GridInk, PartSame
  <2> QED
    BY <2>2, <2>3, <2>4 DEF Thins, Reads, f
<1>2. CASE ~FullRegion(s)
  BY <1>2, ClampThins DEF ResizeScreen
<1> QED
  BY <1>1, <1>2

-----------------------------------------------------------------------------
(* Printing a character *)

\* A sequence around one of its elements, and with another in its place.
Split(S, z, i, e) ==
  /\ SubSeq(z, 1, i - 1) \in Seq(S) /\ SubSeq(z, i + 1, Len(z)) \in Seq(S)
  /\ [z EXCEPT ![i] = e] \in Seq(S)
  /\ [z EXCEPT ![i] = e] = SubSeq(z, 1, i - 1) \o << e >> \o SubSeq(z, i + 1, Len(z))

\* An element put in place is put between what was around the old one.
LEMMA SplitAt ==
  ASSUME NEW S, NEW z \in Seq(S), NEW i \in 1..Len(z), NEW e \in S
  PROVE  Split(S, z, i, e)
<1> DEFINE x == SubSeq(z, 1, i - 1)
           y == SubSeq(z, i + 1, Len(z))
           mid == << e >>
           w == x \o mid \o y
           v == [z EXCEPT ![i] = e]
           a == i - 1
           c == Len(z) - i
<1>1. a \in Nat /\ c \in Nat /\ 1 \in Nat /\ a + 1 = i /\ a + 1 + c = Len(z) /\ Len(z) \in Nat
  OBVIOUS
<1>2. x \in Seq(S) /\ Len(x) = a /\ \A j \in 1..a : x[j] = z[j]
  OBVIOUS
<1>3. y \in Seq(S) /\ Len(y) = c /\ \A j \in 1..c : y[j] = z[i + j]
  OBVIOUS
<1>4. mid \in Seq(S) /\ Len(mid) = 1 /\ mid[1] = e
  OBVIOUS
<1>5. v \in Seq(S) /\ Len(v) = Len(z) /\ \A j \in 1..Len(z) : v[j] = IF j = i THEN e ELSE z[j]
  OBVIOUS
<1> HIDE DEF x, y, mid, v, a, c
<1>6. Three(S, w, x, mid, y, a, 1, c)
  BY <1>1, <1>2, <1>3, <1>4, JoinedThree
<1>w. w = x \o mid \o y
  OBVIOUS
<1> HIDE DEF w
<1>7. /\ w \in Seq(S) /\ Len(w) = Len(z) /\ (\A j \in 1..a : w[j] = x[j])
      /\ (\A j \in 1..1 : w[a + j] = mid[j]) /\ (\A j \in 1..c : w[a + 1 + j] = y[j])
  BY <1>1, <1>6 DEF Three
<1>8. ASSUME NEW j \in 1..Len(z) PROVE w[j] = v[j]
  <2>1. CASE j <= a
    <3>1. j \in 1..a /\ j # i
      BY <1>1, <2>1
    <3> QED
      BY <1>2, <1>5, <1>7, <3>1
  <2>2. CASE j = i
    <3>1. w[a + 1] = mid[1]
      BY <1>7
    <3> QED
      BY <1>1, <1>4, <1>5, <2>2, <3>1
  <2>3. CASE j > i
    <3> DEFINE k == j - i
    <3>1. k \in 1..c /\ i + k = j /\ a + 1 + k = j /\ j # i
      BY <1>1, <2>3
    <3> HIDE DEF k
    <3>2. w[a + 1 + k] = y[k] /\ y[k] = z[i + k]
      BY <1>3, <1>7, <3>1
    <3> QED
      BY <1>5, <3>1, <3>2
  <2>4. j <= a \/ j = i \/ j > i
    BY <1>1
  <2> QED
    BY <2>1, <2>2, <2>3, <2>4
<1>9. w = v
  BY <1>5, <1>7, <1>8, SameSeq
<1> QED
  BY <1>2, <1>3, <1>5, <1>9, <1>w DEF Split, x, y, mid, v

\* One row of a grid, and one cell of a row, as they are read.
LEMMA GridAround ==
  ASSUME NEW n \in Nat, NEW rows \in Seq(Width(n)), NEW r \in 1..Len(rows)
  PROVE  \E p, q \in Ink : \A x \in Width(n) :
           RowsRead(Blank, [rows EXCEPT ![r] = x]) = p \o Bare(x.cells) \o q
<1> DEFINE up == SubSeq(rows, 1, r - 1)
           low == SubSeq(rows, r + 1, Len(rows))
           p == RowsRead(Blank, up)
           q == RowsRead(Blank, low)
<1>b. Blank \in Int /\ << >> \in Seq(Width(n))
  BY DEF Blank
<1>0. ASSUME NEW x \in Width(n) PROVE Split(Width(n), rows, r, x)
  BY SplitAt
<1>1. up \in Seq(Width(n)) /\ low \in Seq(Width(n))
  <2>1. Split(Width(n), rows, r, BlankRow(n))
    BY <1>0, BlankWidth
  <2> QED
    BY ONLY <2>1 DEF Split
<1>2. ASSUME NEW x \in Width(n) PROVE [rows EXCEPT ![r] = x] = up \o << x >> \o low
  <2>1. Split(Width(n), rows, r, x)
    BY <1>0
  <2> QED
    BY ONLY <2>1 DEF Split
<1> HIDE DEF up, low
<1>3. p \in Ink /\ q \in Ink
  BY <1>1, RowsPoured
<1>4. ASSUME NEW x \in Width(n) PROVE RowsRead(Blank, [rows EXCEPT ![r] = x]) = p \o Bare(x.cells) \o q
  <2> DEFINE mid == << x >>
             z == up \o mid
  <2>1. mid \in Seq(Width(n)) /\ mid = Append(<< >>, x)
    OBVIOUS
  <2> HIDE DEF mid
  <2>2. RowsRead(Blank, mid) = Bare(x.cells)
    <3>1. RowsRead(Blank, Append(<< >>, x)) = RowsRead(Blank, << >>) \o RowInk(Blank, x)
          /\ RowsRead(Blank, << >>) = << >> /\ Bare(x.cells) \in Ink
      BY <1>b, RowsReadSnoc
    <3>2. RowInk(Blank, x) = Bare(x.cells)
      <4>1. Bare(x.cells) \o << >> = Bare(x.cells)
        BY <3>1, InkFacts
      <4> QED
        BY <4>1, BlankEnd DEF RowInk
    <3>3. << >> \o Bare(x.cells) = Bare(x.cells)
      BY <3>1, InkFacts
    <3> QED
      BY <2>1, <3>1, <3>2, <3>3
  <2>3. z \in Seq(Width(n)) /\ RowsRead(Blank, z) = p \o RowsRead(Blank, mid)
    BY <1>1, <1>b, <2>1, RowsReadJoin, Joined
  <2>z. z = up \o mid
    OBVIOUS
  <2> HIDE DEF z
  <2>4. RowsRead(Blank, z \o low) = RowsRead(Blank, z) \o q
    BY <1>1, <1>b, <2>3, RowsReadJoin
  <2>5. [rows EXCEPT ![r] = x] = z \o low
    BY <1>2, <2>z DEF mid
  <2> QED
    BY <2>2, <2>3, <2>4, <2>5
<1> HIDE DEF p, q
<1> QED
  BY <1>3, <1>4

\* A cell of a row is read between those before it and those after it.
LEMMA CellAround ==
  ASSUME NEW y \in Seq(Nat), NEW i \in 1..Len(y)
  PROVE  \E l, r \in Ink : \A e \in Nat :
           Bare([y EXCEPT ![i] = e]) = l \o Bare(<< e >>) \o r /\ Bare(<< e >>) \in Ink
<1> DEFINE up == SubSeq(y, 1, i - 1)
           low == SubSeq(y, i + 1, Len(y))
           l == Bare(up)
           r == Bare(low)
<1>0. ASSUME NEW e \in Nat PROVE Split(Nat, y, i, e)
  BY SplitAt
<1>1. up \in Seq(Nat) /\ low \in Seq(Nat)
  <2>1. Split(Nat, y, i, 0)
    BY <1>0
  <2> QED
    BY ONLY <2>1 DEF Split
<1>2. ASSUME NEW e \in Nat PROVE [y EXCEPT ![i] = e] = up \o << e >> \o low
  <2>1. Split(Nat, y, i, e)
    BY <1>0
  <2> QED
    BY ONLY <2>1 DEF Split
<1> HIDE DEF up, low
<1>3. up \in Ink /\ low \in Ink
  BY <1>1, InkFacts DEF Text
<1>4. l \in Ink /\ r \in Ink
  BY <1>3, BareType
<1>5. ASSUME NEW e \in Nat
      PROVE  Bare([y EXCEPT ![i] = e]) = l \o Bare(<< e >>) \o r /\ Bare(<< e >>) \in Ink
  <2> DEFINE mid == << e >>
             z == up \o mid
  <2>1. mid \in Ink
    BY DEF Ink
  <2> HIDE DEF mid
  <2>2. z \in Ink /\ Bare(z) = l \o Bare(mid)
    BY <1>3, <2>1, BareJoin
  <2>z. z = up \o mid
    OBVIOUS
  <2> HIDE DEF z
  <2>3. Bare(z \o low) = Bare(z) \o r
    BY <1>3, <2>2, BareJoin
  <2>4. [y EXCEPT ![i] = e] = z \o low
    BY <1>2, <2>z DEF mid
  <2>5. Bare(mid) \in Ink
    BY <2>1, BareType
  <2> QED
    BY <2>2, <2>3, <2>4, <2>5 DEF mid
<1> HIDE DEF l, r
<1> QED
  BY <1>4, <1>5

\* Runs regrouped around the one in the middle.
Regroups(g, p, l, c, r, q) ==
  g \o (p \o (l \o c \o r) \o q) = (g \o (p \o l)) \o (c \o (r \o q))

\* Concatenation regroups any such runs.
LEMMA Regroup ==
  ASSUME NEW g \in Ink, NEW p \in Ink, NEW l \in Ink, NEW c \in Ink, NEW r \in Ink, NEW q \in Ink
  PROVE  Regroups(g, p, l, c, r, q)
<1>0. ASSUME NEW x \in Ink, NEW y \in Ink PROVE x \o y \in Ink
  BY InkFacts
<1> DEFINE rq == r \o q
           cr == c \o r
           crq == c \o rq
           lcr == l \o cr
           pl == p \o l
           lcrq == l \o crq
<1>1. rq \in Ink /\ cr \in Ink /\ pl \in Ink
  BY <1>0
<1>2. rq = r \o q /\ cr = c \o r /\ pl = p \o l
  OBVIOUS
<1> HIDE DEF rq, cr, pl
<1>3. crq \in Ink /\ lcr \in Ink
  BY <1>0, <1>1
<1>4. crq = c \o rq /\ lcr = l \o cr /\ lcrq = l \o crq
  OBVIOUS
<1> HIDE DEF crq, lcr
<1>5. lcrq \in Ink
  BY <1>0, <1>3
<1> HIDE DEF lcrq
<1>6. /\ Associates(c, r, q) /\ Associates(l, c, r) /\ Associates(l, cr, q)
      /\ Associates(p, lcr, q) /\ Associates(p, l, crq) /\ Associates(g, pl, crq)
  BY <1>1, <1>3, InkAssoc
<1>7. cr \o q = crq /\ l \o c \o r = lcr
  BY <1>2, <1>4, <1>6 DEF Associates
<1>8. lcr \o q = lcrq
  BY <1>4, <1>6, <1>7 DEF Associates
<1>9. p \o lcr \o q = pl \o crq
  BY <1>2, <1>4, <1>6, <1>8 DEF Associates
<1>10. g \o (pl \o crq) = (g \o pl) \o crq
  BY <1>6 DEF Associates
<1>11. g \o (p \o (l \o c \o r) \o q) = (g \o pl) \o crq
  BY <1>7, <1>9, <1>10
<1> QED
  BY <1>2, <1>4, <1>11 DEF Regroups

\* A character is put among what is left of the text (Screen::place).
Puts(n, s, ch, f) ==
  /\ Stays(n, f)
  /\ \E a, b \in Ink : /\ GoneRead(Blank, f.out) \o Grid(f.s) = a \o (Bare(<< ch >>) \o b)
                       /\ Part(a \o b, Grid(s)) /\ Bare(<< ch >>) \in Ink

\* Whatever the cursor's row becomes, if ch is in it for what was in column i, ch stands
\* between a and b in what is read after g.
Between(n, v, g, i, ch, a, b) ==
  \A x \in Width(n) : x.cells = [v.rows[v.row].cells EXCEPT ![i] = ch] =>
    g \o RowsRead(Blank, [v.rows EXCEPT ![v.row] = x]) = a \o (Bare(<< ch >>) \o b)

\* One cell of a screen written over.
LEMMA WritePuts ==
  ASSUME NEW n, NEW v, Framed(n, v), NEW g \in Ink, NEW i \in 1..n, NEW ch \in Nat
  PROVE  \E a, b \in Ink :
           Between(n, v, g, i, ch, a, b) /\ Part(a \o b, g \o Grid(v)) /\ Bare(<< ch >>) \in Ink
<1> DEFINE rows == v.rows
           r0 == rows[v.row]
           y == r0.cells
<1>1. rows \in Seq(Width(n)) /\ n \in Nat /\ v.row \in 1..Len(rows) /\ r0 \in Width(n)
  BY FramedFacts
<1>n. [rows EXCEPT ![v.row] = r0] = rows
  BY <1>1
<1>r. r0 = rows[v.row]
  OBVIOUS
<1> HIDE DEF r0
<1>2. y \in Seq(Nat) /\ Len(y) = n
  BY <1>1 DEF Width, Text
<1>s. y = r0.cells
  OBVIOUS
<1> HIDE DEF y
<1> DEFINE o0 == y[i]
<1>3. i \in 1..Len(y) /\ o0 \in Nat /\ [y EXCEPT ![i] = o0] = y
  BY <1>2
<1> HIDE DEF o0
<1>4. PICK p, q \in Ink : \A x \in Width(n) :
        RowsRead(Blank, [rows EXCEPT ![v.row] = x]) = p \o Bare(x.cells) \o q
  BY <1>1, GridAround
<1>6. PICK l, r \in Ink : \A e \in Nat :
        Bare([y EXCEPT ![i] = e]) = l \o Bare(<< e >>) \o r /\ Bare(<< e >>) \in Ink
  BY <1>2, <1>3, CellAround
<1> DEFINE c == Bare(<< ch >>)
           o == Bare(<< o0 >>)
           none == << >>
           pl == p \o l
           a == g \o pl
           b == r \o q
           lo == l \o o
           Y == lo \o r
           lr == l \o r
<1>7. c \in Ink /\ o \in Ink /\ Bare(y) = l \o o \o r /\ none \in Ink
  <2>1. Bare([y EXCEPT ![i] = o0]) = l \o Bare(<< o0 >>) \o r /\ Bare(<< o0 >>) \in Ink
    BY <1>3, <1>6
  <2>2. Bare(<< ch >>) \in Ink
    BY <1>6
  <2>3. << >> \in Ink
    BY DEF Ink
  <2> QED
    BY <1>3, <2>1, <2>2, <2>3
<1>c. c = Bare(<< ch >>)
  OBVIOUS
<1>d. none = << >>
  OBVIOUS
<1> HIDE DEF c, o, none
<1>t. pl \in Ink /\ b \in Ink /\ lo \in Ink /\ lr \in Ink
  BY <1>7, InkFacts
<1>e. pl = p \o l /\ b = r \o q /\ lo = l \o o /\ lr = l \o r
  OBVIOUS
<1> HIDE DEF pl, b, lo, lr
<1>u. a \in Ink /\ Y \in Ink
  BY <1>t, InkFacts
<1>f. a = g \o pl /\ Y = lo \o r
  OBVIOUS
<1> HIDE DEF a, Y
<1>8. RowsRead(Blank, rows) = p \o Y \o q
  <2>1. RowsRead(Blank, [rows EXCEPT ![v.row] = r0]) = p \o Bare(r0.cells) \o q
    BY <1>1, <1>4
  <2> QED
    BY <1>n, <1>7, <1>s, <1>e, <1>f, <2>1
<1>9. ASSUME NEW x \in Width(n), x.cells = [y EXCEPT ![i] = ch]
      PROVE  g \o RowsRead(Blank, [rows EXCEPT ![v.row] = x]) = a \o (c \o b)
  <2>1. RowsRead(Blank, [rows EXCEPT ![v.row] = x]) = p \o Bare(x.cells) \o q
    BY <1>4
  <2>2. Bare(x.cells) = l \o c \o r
    BY <1>6, <1>9, <1>c
  <2>3. Regroups(g, p, l, c, r, q)
    BY <1>7, Regroup
  <2>4. g \o (p \o (l \o c \o r) \o q) = a \o (c \o b)
    BY <1>e, <1>f, <2>3 DEF Regroups
  <2> QED
    BY <2>1, <2>2, <2>4
<1>11. Part(lr, Y)
  <2>1. Part(l, lo) /\ Part(r, r)
    BY <1>7, <1>e, PartEnds, PartSame
  <2> QED
    BY <1>t, <1>e, <1>f, <2>1, PartJoin
<1>12. a \o b = g \o (p \o lr \o q)
  <2>1. Regroups(g, p, l, none, r, q)
    BY <1>7, Regroup
  <2>2. l \o none = l /\ none \o b = b
    BY <1>d, <1>t, InkFacts
  <2> QED
    BY <1>e, <1>f, <2>1, <2>2 DEF Regroups
<1> DEFINE plr == p \o lr
           pY == p \o Y
           u == plr \o q
           w == pY \o q
<1>13. Part(plr, pY) /\ plr \in Ink /\ pY \in Ink
  BY <1>t, <1>u, <1>11, PartJoin, PartSame, InkFacts
<1>g. plr = p \o lr /\ pY = p \o Y
  OBVIOUS
<1> HIDE DEF plr, pY
<1>14. Part(u, w) /\ u \in Ink /\ w \in Ink
  BY <1>13, PartJoin, PartSame, InkFacts
<1>h. u = plr \o q /\ w = pY \o q
  OBVIOUS
<1> HIDE DEF u, w
<1>15. Part(g \o u, g \o w)
  BY <1>14, PartJoin, PartSame
<1>16. Part(a \o b, g \o Grid(v))
  BY <1>8, <1>12, <1>15, <1>g, <1>h DEF Grid
<1>17. Between(n, v, g, i, ch, a, b)
  BY <1>9, <1>c, <1>r, <1>s DEF Between, rows
<1> QED
  BY <1>7, <1>t, <1>u, <1>16, <1>17, <1>c

\* A character, wherever it is printed (Screen::place).
LEMMA PlacePuts ==
  ASSUME NEW n, NEW s, Framed(n, s), NEW ch \in Nat
  PROVE  Puts(n, s, ch, Place(s, ch))
<1> DEFINE w == Wrapping(s)
           at == Wrapped(s)
           v == at.s
           g == GoneRead(Blank, at.out)
           i == v.col + 1
           f == Place(s, ch)
<1>0. Stays(n, f)
  BY PlaceStays
<1>1. Thin(n, s, w)
  <2> DEFINE r == s.rows[s.row]
             x == [r EXCEPT !.wrapped = TRUE]
             u == [s EXCEPT !.rows[s.row] = x]
  <2>1. r \in Width(n)
    BY FramedFacts
  <2> HIDE DEF r
  <2>2. x \in Width(n) /\ x.cells = r.cells
    BY <2>1 DEF Width
  <2> HIDE DEF x
  <2>3. Part(Bare(x.cells), Bare(r.cells))
    BY <2>1, <2>2, RowBare, PartSame
  <2>4. Thin(n, s, u)
    BY <2>2, <2>3, HereThin DEF r
  <2>5. w = [u EXCEPT !.col = 0]
    BY FramedFacts DEF Frames, Wrapping, x, r
  <2> HIDE DEF u, w
  <2>6. Framed(n, w) /\ w.rows = u.rows
    <3>1. Framed(n, u) /\ 0 \in 0 .. n - 1
      BY <2>4, FramedFacts DEF Thin
    <3> QED
      BY <2>5, <3>1 DEF Framed, Frames
  <2>7. Thin(n, u, w)
    BY <2>4, <2>6, SameGrid DEF Thin
  <2> QED
    BY <2>4, <2>7, ThinTrans
<1>2. Thins(n, s, at)
  <2>1. Thins(n, s, LineFeed(w))
    <3>1. Framed(n, w) /\ Part(Grid(w), Grid(s))
      BY <1>1 DEF Thin
    <3> HIDE DEF w
    <3>2. Thins(n, w, LineFeed(w))
      BY <3>1, LineFeedThins
    <3> QED
      BY <3>1, <3>2, ThinsThen
  <2>2. Thins(n, s, Quiet(s))
    BY GridInk, PartSame, QuietThins
  <2> QED
    BY <2>1, <2>2 DEF Wrapped
<1>3. Framed(n, v) /\ at.out \in Seq(Gone) /\ g \in Ink /\ g \o Grid(v) \in Ink
      /\ Part(g \o Grid(v), Grid(s))
  BY <1>2, StaysInk DEF Thins
<1>4. v.rows[v.row] \in Width(n) /\ i \in 1..n /\ v.rows \in Seq(Width(n)) /\ v.row \in 1..Len(v.rows)
  BY <1>3, FramedFacts
<1>5. f.out = at.out /\ f.s.rows = [v.rows EXCEPT ![v.row] = Written(@, v.col, ch)]
  <2> DEFINE t == [v EXCEPT !.rows[v.row].cells[v.col + 1] = ch]
             atEdge == t.col + 1 >= t.cols
             u == [t EXCEPT !.col = IF atEdge THEN t.cols - 1 ELSE @ + 1,
                            !.pend = atEdge /\ t.autowrap]
  <2>1. Place(s, ch) = [s |-> u, out |-> at.out]
    BY DEF Place, Wrapped, Wrapping
  <2> HIDE DEF at
  <2>2. t.rows = [v.rows EXCEPT ![v.row] = Written(v.rows[v.row], v.col, ch)]
    BY <1>3 DEF Framed, Frames, Written
  <2>3. u.rows = t.rows
    <3>1. t = [v EXCEPT !.rows = t.rows]
      BY <1>3 DEF Framed, Frames
    <3> HIDE DEF t
    <3> QED
      BY <1>3, <3>1 DEF Framed, Frames
  <2> HIDE DEF u, t
  <2> QED
    BY <2>1, <2>2, <2>3
<1> DEFINE r == v.rows[v.row]
           x == Written(r, v.col, ch)
<1>6. x \in Width(n) /\ x.cells = [r.cells EXCEPT ![i] = ch]
  <2>1. r \in Width(n)
    BY <1>4
  <2> HIDE DEF r
  <2>2. r.cells \in Seq(Nat) /\ Len(r.cells) = n /\ r \in [cells : Text, wrapped : BOOLEAN]
    BY <2>1 DEF Width, Text
  <2> DEFINE new == [r.cells EXCEPT ![i] = ch]
  <2>3. new \in Seq(Nat) /\ Len(new) = n
    BY <1>4, <2>2
  <2>4. x = [r EXCEPT !.cells = new] /\ x.cells = new
    BY <2>2 DEF Written
  <2>5. x.cells = new
    BY <2>4
  <2> HIDE DEF new, x
  <2>6. x \in Width(n)
    BY <2>2, <2>3, <2>4 DEF Width, Text
  <2> QED
    BY <2>5, <2>6 DEF new
<1>7. f.s.rows = [v.rows EXCEPT ![v.row] = x] /\ g = GoneRead(Blank, f.out)
  BY <1>5
<1> HIDE DEF x, g, v, w, at, f, i
<1>8. PICK a, b \in Ink : Between(n, v, g, i, ch, a, b) /\ Part(a \o b, g \o Grid(v)) /\ Bare(<< ch >>) \in Ink
  BY <1>3, <1>4, WritePuts
<1>9. g \o Grid(f.s) = a \o (Bare(<< ch >>) \o b)
  BY <1>6, <1>7, <1>8 DEF Between, Grid
<1>10. Part(a \o b, Grid(s))
  <2>1. a \o b \in Ink /\ Grid(s) \in Ink
    BY <1>8, InkFacts, GridInk
  <2> QED
    BY <1>3, <1>8, <2>1, PartTrans
<1> QED
  BY <1>0, <1>7, <1>8, <1>9, <1>10 DEF Puts, f

-----------------------------------------------------------------------------
(* The session and all its text *)

\* What every operation of Seam.tla leaves in shape.
SeamOK ==
  /\ session \in Sessions /\ Framed(screen.cols, screen)
  /\ {alt, erase, rejoin, narrowed} \subseteq BOOLEAN
  /\ pending \in Seq(Gone) /\ lines \in Buffers /\ InFlight \in Seq(Sent)
  /\ ~Idle => delta.row \in Positive /\ delta.head \in Nat /\ delta.alt \in BOOLEAN
  /\ prompt \in Nat /\ head \in Nat /\ seenRow \in Positive /\ typed \in Nat

\* All the text: what Emacs has or is being given, and what the emulator has.
Ashore == Poured(lines) \o Poured(TextsOf(InFlight))
Afloat == GoneRead(Blank, pending) \o Grid(screen)
AllText == Ashore \o Afloat

\* The texts on their way to Emacs are text.
LEMMA SentTexts ==
  ASSUME NEW x \in Seq(Sent)
  PROVE  TextsOf(x) \in Seq(Text) /\ Poured(TextsOf(x)) \in Ink
<1>1. TextsOf(x) \in Seq(Text) /\ Read(Blank, x) = Poured(TextsOf(x)) /\ Read(Blank, x) \in Ink
  BY ReadPoured
<1> QED
  BY <1>1

\* So are the characters of any texts.
LEMMA PouredInk ==
  ASSUME NEW x \in Seq(Text)
  PROVE  Poured(x) \in Ink /\ FlattenSeq(x) \in Ink
<1>1. FlattenSeq(x) \in Text
  BY FlattenType DEF Text
<1> QED
  BY <1>1, PouredSnoc, InkFacts

\* All the text of a session is text, and each part of it.
LEMMA PartsInk ==
  ASSUME SeamOK
  PROVE  /\ Poured(lines) \in Ink /\ Poured(TextsOf(InFlight)) \in Ink
         /\ GoneRead(Blank, pending) \in Ink /\ Grid(screen) \in Ink
         /\ Ashore \in Ink /\ Afloat \in Ink /\ AllText \in Ink
<1>1. lines \in Seq(Text) /\ InFlight \in Seq(Sent) /\ pending \in Seq(Gone)
      /\ Framed(screen.cols, screen)
  BY DEF SeamOK, Buffers
<1>2. Poured(lines) \in Ink /\ Poured(TextsOf(InFlight)) \in Ink
  BY <1>1, PouredInk, SentTexts
<1>3. GoneRead(Blank, pending) \in Ink /\ Grid(screen) \in Ink
  BY <1>1, GonePoured, GridInk
<1>4. Ashore \in Ink /\ Afloat \in Ink
  BY <1>2, <1>3, InkFacts DEF Ashore, Afloat
<1> QED
  BY <1>2, <1>3, <1>4, InkFacts DEF AllText

\* The text the model's properties speak of.
LEMMA CellsWhole == SeamOK => Bare(Cells) = AllText
<1> SUFFICES ASSUME SeamOK PROVE Bare(Cells) = AllText
  OBVIOUS
<1> DEFINE a == FlattenSeq(lines)
           b == FlattenSeq(TextsOf(InFlight))
           c == FlattenSeq(TextsOf(pending))
           d == FlattenSeq(CellsOf(screen.rows))
           ab == a \o b
           abc == ab \o c
<1>1. lines \in Seq(Text) /\ InFlight \in Seq(Sent) /\ pending \in Seq(Gone)
      /\ Framed(screen.cols, screen)
  BY DEF SeamOK, Buffers
<1>2. screen.cols \in Nat /\ screen.rows \in Seq(Width(screen.cols))
      /\ DOMAIN screen.rows = 1..Height(screen)
  BY <1>1, FramedFacts
<1>3. TextsOf(InFlight) \in Seq(Text) /\ TextsOf(pending) \in Seq(Text) /\ CellsOf(screen.rows) \in Seq(Text)
  BY <1>1, <1>2, SentTexts, GonePoured, RowsPoured
<1>4. a \in Ink /\ b \in Ink /\ c \in Ink /\ d \in Ink
  BY <1>1, <1>3, PouredInk
<1>5. Cells = abc \o d
  BY <1>2 DEF Cells, TextsOf, CellsOf
<1>6. Bare(a) = Poured(lines) /\ Bare(b) = Poured(TextsOf(InFlight))
      /\ Bare(c) = GoneRead(Blank, pending) /\ Bare(d) = Grid(screen)
  <2>1. GoneRead(Blank, pending) = Poured(TextsOf(pending))
    BY <1>1, GonePoured
  <2>2. Grid(screen) = Poured(CellsOf(screen.rows))
    BY <1>2, RowsPoured DEF Grid
  <2> QED
    BY <2>1, <2>2 DEF Poured
<1>e. ab = a \o b /\ abc = ab \o c
  OBVIOUS
<1> HIDE DEF a, b, c, d
<1>7. ab \in Ink /\ Bare(ab) = Bare(a) \o Bare(b)
  BY <1>4, BareJoin
<1> HIDE DEF ab
<1>8. abc \in Ink /\ Bare(abc) = Bare(ab) \o Bare(c)
  BY <1>4, <1>7, BareJoin
<1> HIDE DEF abc
<1>9. Bare(abc \o d) = Bare(abc) \o Bare(d)
  BY <1>4, <1>8, BareJoin
<1> DEFINE A == Poured(lines) \o Poured(TextsOf(InFlight))
           P == GoneRead(Blank, pending)
           G == Grid(screen)
<1>10. A \in Ink /\ P \in Ink /\ G \in Ink /\ Ashore = A
  BY PartsInk DEF Ashore
<1>11. Bare(Cells) = (A \o P) \o G
  BY <1>5, <1>6, <1>7, <1>8, <1>9
<1>12. AllText = A \o (P \o G)
  BY DEF AllText, Ashore, Afloat
<1> HIDE DEF A, P, G
<1>13. Associates(A, P, G)
  BY <1>10, InkAssoc
<1> QED
  BY <1>11, <1>12, <1>13 DEF Associates

\* A step that leaves the session in shape and only part of its text.
Loses == SeamOK' /\ Part(AllText', AllText)

\* A step that puts one character more in what is left of the text.
Prints(ch) ==
  /\ SeamOK' /\ Bare(<< ch >>) \in Ink
  /\ \E a, b \in Ink : AllText' = a \o (Bare(<< ch >>) \o b) /\ Part(a \o b, AllText)

\* What a change of the screen leaves alone.
Still == UNCHANGED <<session, delta, lines, head, rejoin, narrowed, seenRow, alt>>

\* A change of the screen and its backlog alone leaves the session in shape.
LEMMA StillOK ==
  ASSUME SeamOK, Still, Framed(screen'.cols, screen'), pending' \in Seq(Gone), erase' \in BOOLEAN,
         prompt' \in Nat, typed' \in Nat
  PROVE  SeamOK' /\ Ashore' = Ashore
<1>1. InFlight' = InFlight /\ (Idle' <=> Idle)
  BY DEF Still, InFlight, Idle
<1>2. Ashore' = Ashore
  BY <1>1 DEF Ashore, Still
<1>3. SeamOK'
  BY <1>1 DEF SeamOK, Still
<1> QED
  BY <1>2, <1>3

\* What a change of the screen does, wherever it leaves the prompt (State::archive).
Shown(f) == screen' = f.s /\ pending' = pending \o f.out /\ prompt' \in Nat

\* A change of the screen that archives rows is one (State::archive).
LEMMA ShowShown ==
  ASSUME SeamOK, NEW n, NEW f, Stays(n, f), Show(f)
  PROVE  Shown(f)
<1>1. prompt \in Nat /\ f.out \in Seq(Gone)
  BY DEF SeamOK, Stays
<1>2. prompt' = Greatest(prompt - Len(f.out), 0) /\ screen' = f.s /\ pending' = pending \o f.out
  BY DEF Show
<1> QED
  BY <1>1, <1>2 DEF Greatest, Shown

\* Rows that leave the screen for the backlog are read where they were.
LEMMA ShowReads ==
  ASSUME SeamOK, NEW n, NEW f, Stays(n, f), Shown(f), Still, erase' \in BOOLEAN, typed' \in Nat
  PROVE  /\ SeamOK' /\ Ashore' = Ashore
         /\ Afloat' = GoneRead(Blank, pending) \o (GoneRead(Blank, f.out) \o Grid(f.s))
         /\ GoneRead(Blank, f.out) \o Grid(f.s) \in Ink
<1>0. screen' = f.s /\ pending' = pending \o f.out /\ prompt' \in Nat
  BY DEF Shown
<1>1. Framed(n, f.s) /\ f.out \in Seq(Gone) /\ pending \in Seq(Gone)
      /\ GoneRead(Blank, f.out) \in Ink /\ Grid(f.s) \in Ink /\ GoneRead(Blank, f.out) \o Grid(f.s) \in Ink
  BY StaysInk DEF SeamOK
<1>2. Framed(screen'.cols, screen')
  BY <1>0, <1>1, FramedFacts
<1>3. pending' \in Seq(Gone) /\ prompt' \in Nat
  BY <1>0, <1>1, Joined
<1>4. SeamOK' /\ Ashore' = Ashore
  BY <1>2, <1>3, StillOK
<1> DEFINE P == GoneRead(Blank, pending)
           O == GoneRead(Blank, f.out)
           G == Grid(f.s)
<1>5. GoneRead(Blank, pending') = P \o O
  BY <1>0, <1>1, GoneReadJoin DEF Blank
<1>6. Afloat' = (P \o O) \o G
  BY <1>0, <1>5 DEF Afloat
<1>7. P \in Ink
  BY PartsInk
<1> HIDE DEF P, O, G
<1>8. Associates(P, O, G)
  BY <1>1, <1>7, InkAssoc DEF O, G
<1>9. Afloat' = P \o (O \o G)
  BY <1>6, <1>8 DEF Associates
<1> QED
  BY <1>1, <1>4, <1>9 DEF P, O, G

\* A change of the screen that leaves part of its text leaves part of the session's.
LEMMA ShowLoses ==
  ASSUME SeamOK, NEW n, NEW f, Thins(n, screen, f), Shown(f), Still, erase' \in BOOLEAN, typed' \in Nat
  PROVE  Loses
<1> DEFINE P == GoneRead(Blank, pending)
           V == GoneRead(Blank, f.out) \o Grid(f.s)
           G == Grid(screen)
<1>1. SeamOK' /\ Ashore' = Ashore /\ Afloat' = P \o V /\ V \in Ink
  BY ShowReads DEF Thins
<1>2. Part(V, G)
  BY DEF Thins
<1>3. P \in Ink /\ G \in Ink /\ Ashore \in Ink /\ Afloat = P \o G /\ Afloat \in Ink
  BY PartsInk DEF Afloat
<1> HIDE DEF P, V, G
<1>4. Part(P \o V, P \o G) /\ P \o V \in Ink
  BY <1>1, <1>2, <1>3, PartSame, PartJoin, InkFacts
<1>5. Part(Ashore \o Afloat', Ashore \o Afloat)
  BY <1>1, <1>3, <1>4, PartSame, PartJoin
<1>6. AllText' = Ashore \o Afloat' /\ AllText = Ashore \o Afloat
  BY <1>1 DEF AllText
<1> QED
  BY <1>1, <1>5, <1>6 DEF Loses

\* Text regrouped around a character that is put in it.
PutLast(q, w, x, z) == (q \o (w \o x)) \o z = q \o (w \o (x \o z))

\* Such text regrouped.
LEMMA PutsLast ==
  ASSUME NEW q \in Ink, NEW w \in Ink, NEW x \in Ink, NEW z \in Ink
  PROVE  PutLast(q, w, x, z)
<1> DEFINE wx == w \o x
<1>1. wx \in Ink /\ wx = w \o x
  BY InkFacts
<1> HIDE DEF wx
<1>2. Associates(w, x, z) /\ Associates(q, wx, z)
  BY <1>1, InkAssoc
<1> QED
  BY <1>1, <1>2 DEF Associates, PutLast

\* A change of the screen that puts a character in it puts it in the session's text.
LEMMA ShowPrints ==
  ASSUME SeamOK, NEW n, NEW ch \in Nat, NEW f, Puts(n, screen, ch, f), Shown(f), Still,
         erase' \in BOOLEAN, typed' \in Nat
  PROVE  Prints(ch)
<1> DEFINE P == GoneRead(Blank, pending)
           V == GoneRead(Blank, f.out) \o Grid(f.s)
           G == Grid(screen)
           c == Bare(<< ch >>)
           Q == Ashore
<1>1. SeamOK' /\ Ashore' = Ashore /\ Afloat' = P \o V /\ V \in Ink
  BY ShowReads DEF Puts
<1>2. PICK a, b \in Ink : V = a \o (c \o b) /\ Part(a \o b, G) /\ c \in Ink
  BY DEF Puts
<1>3. P \in Ink /\ G \in Ink /\ Q \in Ink /\ Afloat = P \o G /\ Afloat \in Ink
  BY PartsInk DEF Afloat
<1>4. AllText' = Q \o (P \o V) /\ AllText = Q \o (P \o G)
  BY <1>1, <1>3 DEF AllText
<1>c. c = Bare(<< ch >>)
  OBVIOUS
<1> HIDE DEF P, V, G, c, Q
<1>5. AllText' = (Q \o (P \o a)) \o (c \o b)
  <2> DEFINE z == c \o b
  <2>1. z \in Ink /\ V = a \o z
    BY <1>2, InkFacts
  <2> HIDE DEF z
  <2>2. PutLast(Q, P, a, z)
    BY <1>2, <1>3, <2>1, PutsLast
  <2> QED
    BY <1>4, <2>1, <2>2 DEF PutLast, z
<1> DEFINE left == Q \o (P \o a)
<1>6. P \o a \in Ink /\ a \o b \in Ink
  BY <1>2, <1>3, InkFacts
<1>7. left \in Ink
  BY <1>3, <1>6, InkFacts
<1>8. left \o b = Q \o (P \o (a \o b))
  <2>1. PutLast(Q, P, a, b)
    BY <1>2, <1>3, PutsLast
  <2> QED
    BY <2>1 DEF PutLast
<1>9. Part(P \o (a \o b), P \o G) /\ P \o (a \o b) \in Ink /\ P \o G \in Ink
  BY <1>2, <1>3, <1>6, PartSame, PartJoin, InkFacts
<1>10. Part(Q \o (P \o (a \o b)), Q \o (P \o G))
  BY <1>3, <1>9, PartSame, PartJoin
<1>11. Part(left \o b, AllText)
  BY <1>4, <1>8, <1>10
<1> HIDE DEF left
<1>12. AllText' = left \o (c \o b)
  BY <1>5 DEF left
<1> QED
  BY <1>1, <1>2, <1>7, <1>11, <1>12, <1>c DEF Prints

-----------------------------------------------------------------------------
(* What the child does *)

\* What a session in shape has.
LEMMA OKFacts ==
  ASSUME SeamOK
  PROVE  /\ Framed(screen.cols, screen) /\ screen.row \in Positive /\ session \in Sessions
         /\ alt \in BOOLEAN /\ erase \in BOOLEAN /\ rejoin \in BOOLEAN /\ narrowed \in BOOLEAN
         /\ typed \in Nat /\ typed + 1 \in Nat /\ prompt \in Nat /\ Len(screen.rows) \in Nat
         /\ Height(screen) = Len(screen.rows) /\ 1 \in Positive /\ 0 \in Nat
<1>1. Framed(screen.cols, screen)
  BY DEF SeamOK
<1> QED
  BY <1>1, FramedFacts DEF SeamOK, Positive

\* Operations on the primary screen that print nothing (Term::feed).
LEMMA FeedLoses ==
  ASSUME SeamOK, NEW op, NEW f, Feed(op, f), Thins(screen.cols, screen, f), typed' = typed
  PROVE  Loses
<1>1. Show(f) /\ Still /\ erase' = erase
  BY DEF Feed, lispVars, Still
<1>2. erase' \in BOOLEAN /\ typed' \in Nat
  BY <1>1, OKFacts
<1>3. Stays(screen.cols, f)
  BY DEF Thins
<1>4. Shown(f)
  BY <1>1, <1>3, ShowShown
<1> QED
  BY <1>1, <1>2, <1>4, ShowLoses

\* The same when no row leaves the grid.
LEMMA FeedQuiet ==
  ASSUME SeamOK, NEW op, NEW u, Feed(op, Quiet(u)), Thin(screen.cols, screen, u), typed' = typed
  PROVE  Loses
<1>1. Thins(screen.cols, screen, Quiet(u))
  BY OKFacts, ThinQuiet
<1> QED
  BY <1>1, FeedLoses

\* Moving the cursor and scrolling (Screen::line_feed, reverse_index, scroll_up, goto).
LEMMA MovesLose ==
  ASSUME SeamOK, Newline \/ Index \/ ReverseIndexed \/ Scroll \/ Move \/ Margins
  PROVE  Loses
<1> DEFINE n == screen.cols
<1>0. Framed(n, screen) /\ screen.row \in Positive /\ 0 \in Nat /\ 1 \in Positive
  BY OKFacts
<1> HIDE DEF n
<1>1. CASE Newline
  <2> DEFINE home == Goto(screen, screen.row, 0)
             f == LineFeed(home)
  <2>1. Thin(n, screen, home)
    BY <1>0, GotoThin
  <2> HIDE DEF home
  <2>2. Framed(n, home) /\ Part(Grid(home), Grid(screen))
    BY <2>1 DEF Thin
  <2>3. Thins(n, home, f)
    BY <2>2, LineFeedThins
  <2>4. Thins(n, screen, f)
    BY <1>0, <2>2, <2>3, ThinsThen
  <2>5. Feed("newline", f) /\ typed' = typed
    BY <1>1 DEF Newline, home
  <2> HIDE DEF f
  <2> QED
    BY <2>4, <2>5, FeedLoses DEF n
<1>2. CASE Index
  <2> DEFINE f == LineFeed(screen)
  <2>1. Thins(n, screen, f)
    BY <1>0, LineFeedThins
  <2>2. Feed("index", f) /\ typed' = typed
    BY <1>2 DEF Index
  <2> HIDE DEF f
  <2> QED
    BY <2>1, <2>2, FeedLoses DEF n
<1>3. CASE ReverseIndexed
  <2> DEFINE u == ReverseIndex(screen)
  <2>1. Thin(n, screen, u)
    BY <1>0, ReverseThin DEF Thin
  <2>2. Feed("reverse", Quiet(u)) /\ typed' = typed
    BY <1>3 DEF ReverseIndexed
  <2> HIDE DEF u
  <2> QED
    BY <2>1, <2>2, FeedQuiet DEF n
<1>4. CASE Scroll
  <2>1. ASSUME NEW k \in 1..2, Feed("scroll", ScrollUp(screen, k)) PROVE Loses
    <3> DEFINE f == ScrollUp(screen, k)
    <3>1. k \in Positive
      BY DEF Positive
    <3>2. Thins(n, screen, f)
      BY <1>0, <3>1, ScrollUpThins
    <3>3. Feed("scroll", f) /\ typed' = typed
      BY <1>4, <2>1 DEF Scroll
    <3> HIDE DEF f
    <3> QED
      BY <3>2, <3>3, FeedLoses DEF n
  <2>2. ASSUME Feed("scroll", Quiet(ScrollDown(screen, 1))) PROVE Loses
    <3> DEFINE u == ScrollDown(screen, 1)
    <3>2. Thin(n, screen, u)
      BY <1>0, ScrollDownThin DEF Thin
    <3>3. Feed("scroll", Quiet(u)) /\ typed' = typed
      BY <1>4, <2>2 DEF Scroll
    <3> HIDE DEF u
    <3> QED
      BY <3>2, <3>3, FeedQuiet DEF n
  <2> QED
    BY <1>4, <2>1, <2>2 DEF Scroll
<1>5. CASE Move
  <2>1. PICK r \in 1..Height(screen), c \in 0 .. screen.cols - 1 : Feed("move", Quiet(Goto(screen, r, c)))
    BY <1>5 DEF Move
  <2>2. r \in Positive /\ c \in Nat
    BY OKFacts, <2>1, FramedFacts DEF Positive
  <2> DEFINE u == Goto(screen, r, c)
  <2>3. Thin(n, screen, u)
    BY <1>0, <2>2, GotoThin
  <2>4. Feed("move", Quiet(u)) /\ typed' = typed
    BY <1>5, <2>1 DEF Move
  <2> HIDE DEF u
  <2> QED
    BY <2>3, <2>4, FeedQuiet DEF n
<1>6. CASE Margins
  <2>1. PICK t \in 1..Height(screen), b \in 1..Height(screen) : Feed("margins", Quiet(SetRegion(screen, t, b)))
    BY <1>6 DEF Margins
  <2>2. t \in Positive /\ b \in Positive
    BY OKFacts, <2>1 DEF Positive
  <2> DEFINE u == SetRegion(screen, t, b)
  <2>3. Thin(n, screen, u)
    BY <1>0, <2>2, RegionThin
  <2>4. Feed("margins", Quiet(u)) /\ typed' = typed
    BY <1>6, <2>1 DEF Margins
  <2> HIDE DEF u
  <2> QED
    BY <2>3, <2>4, FeedQuiet DEF n
<1> QED
  BY <1>1, <1>2, <1>3, <1>4, <1>5, <1>6

\* Erasing and editing (Screen::erase_line, erase_display, insert_lines, insert_blank).
LEMMA EditsLose ==
  ASSUME SeamOK, EraseInLine \/ ErasePart \/ Clear \/ EditLines \/ EditChars
  PROVE  Loses
<1> DEFINE n == screen.cols
<1>0. Framed(n, screen) /\ 1 \in Positive
  BY OKFacts
<1> HIDE DEF n
<1>q. ASSUME NEW op, NEW u, Feed(op, Quiet(u)), Thin(n, screen, u), typed' = typed PROVE Loses
  BY <1>q, FeedQuiet DEF n
<1>f. ASSUME NEW op, NEW f, Feed(op, f), Thins(n, screen, f), typed' = typed PROVE Loses
  BY <1>f, FeedLoses DEF n
<1>1. CASE EraseInLine
  <2>1. PICK how \in {"end", "start", "all"} : Feed("eraseline", Quiet(EraseLine(screen, how)))
    BY <1>1 DEF EraseInLine
  <2> DEFINE u == EraseLine(screen, how)
  <2>2. Thin(n, screen, u)
    BY <1>0, EraseLineThin
  <2>3. Feed("eraseline", Quiet(u)) /\ typed' = typed
    BY <1>1, <2>1 DEF EraseInLine
  <2> HIDE DEF u
  <2> QED
    BY <1>q, <2>2, <2>3
<1>2. CASE ErasePart
  <2>1. PICK how \in {"end", "start"} : Feed("erasepart", EraseDisplay(screen, how))
    BY <1>2 DEF ErasePart
  <2> DEFINE f == EraseDisplay(screen, how)
  <2>2. Thins(n, screen, f)
    BY <1>0, ErasePartThins
  <2>3. Feed("erasepart", f) /\ typed' = typed
    BY <1>2, <2>1 DEF ErasePart
  <2> HIDE DEF f
  <2> QED
    BY <1>f, <2>2, <2>3
<1>3. CASE Clear
  <2> DEFINE f == EraseDisplay(screen, "all")
  <2>2. Thins(n, screen, f)
    BY <1>0, ClearThins
  <2>3. Feed("clear", f) /\ typed' = typed
    BY <1>3 DEF Clear
  <2> HIDE DEF f
  <2> QED
    BY <1>f, <2>2, <2>3
<1>4. CASE EditLines
  <2> DEFINE u == InsertLines(screen, 1)
             v == DeleteLines(screen, 1)
  <2>2. Thin(n, screen, u) /\ Thin(n, screen, v)
    BY <1>0, LinesThin
  <2>3. (Feed("editlines", Quiet(u)) \/ Feed("editlines", Quiet(v))) /\ typed' = typed
    BY <1>4 DEF EditLines
  <2> HIDE DEF u, v
  <2> QED
    BY <1>q, <2>2, <2>3
<1>5. CASE EditChars
  <2> DEFINE u == InsertChar(screen)
             v == DeleteChar(screen)
             w == EraseChar(screen)
  <2>2. Thin(n, screen, u) /\ Thin(n, screen, v) /\ Thin(n, screen, w)
    BY <1>0, CharsThin
  <2>3. typed' = typed
        /\ (Feed("editchars", Quiet(u)) \/ Feed("editchars", Quiet(v)) \/ Feed("editchars", Quiet(w)))
    BY <1>5 DEF EditChars
  <2> HIDE DEF u, v, w
  <2> QED
    BY <1>q, <2>2, <2>3
<1> QED
  BY <1>1, <1>2, <1>3, <1>4, <1>5

\* Modes, events and the switch of screens leave the grid's rows alone.
LEMMA ModesLose ==
  ASSUME SeamOK, Autowrap \/ EraseSaved \/ SwitchScreen \/ ToggleRejoin
  PROVE  Loses
<1> DEFINE u == screen'
<1>1. Thin(screen.cols, screen, u)
  <2>1. CASE Autowrap
    <3>1. PICK on \in BOOLEAN : u = SetAutowrap(screen, on)
      BY <2>1 DEF Autowrap
    <3>2. Framed(screen.cols, u)
      BY <3>1, OKFacts, AutowrapFramed
    <3>3. u.rows = screen.rows
      BY <3>1, OKFacts DEF SetAutowrap, Framed, Frames
    <3> HIDE DEF u
    <3> QED
      BY <3>2, <3>3, OKFacts, SameGrid DEF Thin
  <2>2. CASE ~Autowrap
    <3>1. u = screen
      BY <2>2 DEF EraseSaved, SwitchScreen, ToggleRejoin, termVars
    <3> HIDE DEF u
    <3> QED
      BY <3>1, OKFacts, SameGrid DEF Thin
  <2> QED
    BY <2>1, <2>2
<1>2. /\ pending' = pending /\ prompt' = prompt /\ delta' = delta /\ lines' = lines /\ head' = head
      /\ narrowed' = narrowed /\ seenRow' = seenRow /\ typed' = typed /\ session' = session
  BY DEF Autowrap, EraseSaved, SwitchScreen, ToggleRejoin, termVars, lispVars
<1>3. alt' \in BOOLEAN /\ erase' \in BOOLEAN /\ rejoin' \in BOOLEAN
  BY OKFacts DEF Autowrap, EraseSaved, SwitchScreen, ToggleRejoin, termVars, lispVars
<1>4. InFlight' = InFlight /\ (Idle' <=> Idle)
  BY <1>2 DEF InFlight, Idle
<1>5. Framed(screen'.cols, screen')
  BY <1>1, FramedFacts DEF Thin
<1>6. SeamOK'
  BY <1>2, <1>3, <1>4, <1>5 DEF SeamOK
<1>7. Ashore' = Ashore
  BY <1>2, <1>4 DEF Ashore
<1> DEFINE P == GoneRead(Blank, pending)
<1>8. Afloat' = P \o Grid(u) /\ Afloat = P \o Grid(screen)
  BY <1>2 DEF Afloat
<1>9. P \in Ink /\ Grid(screen) \in Ink /\ Ashore \in Ink /\ Afloat \in Ink
  BY PartsInk
<1>10. Grid(u) \in Ink /\ Part(Grid(u), Grid(screen))
  BY <1>1, GridInk DEF Thin
<1> HIDE DEF P, u
<1>11. Part(P \o Grid(u), P \o Grid(screen)) /\ P \o Grid(u) \in Ink
  BY <1>9, <1>10, PartSame, PartJoin, InkFacts
<1>12. Part(Ashore \o Afloat', Ashore \o Afloat)
  BY <1>8, <1>9, <1>11, PartSame, PartJoin
<1> QED
  BY <1>6, <1>7, <1>12 DEF Loses, AllText

\* A character printed is one more in the text, or a blank (Screen::place).
LEMMA PrintPrints ==
  ASSUME SeamOK, PrintChar
  PROVE  \E ch \in {typed + 1, Blank} : Prints(ch) /\ typed' = typed + 1
<1>1. PICK ch \in {typed + 1, Blank} : Feed("print", Place(screen, ch))
  BY DEF PrintChar
<1>2. ch \in Nat /\ typed' = typed + 1 /\ typed' \in Nat
  BY <1>1, OKFacts DEF PrintChar, Blank
<1> DEFINE f == Place(screen, ch)
<1>3. Puts(screen.cols, screen, ch, f)
  BY <1>2, OKFacts, PlacePuts
<1>4. Show(f) /\ Still /\ erase' \in BOOLEAN
  BY <1>1, OKFacts DEF Feed, lispVars, Still
<1> HIDE DEF f
<1>5. Shown(f)
  BY <1>3, <1>4, ShowShown DEF Puts
<1>6. Prints(ch)
  BY <1>2, <1>3, <1>4, <1>5, ShowPrints
<1> QED
  BY <1>1, <1>2, <1>6

\* So is a prompt's first, at the start of its line.
LEMMA PromptPrints ==
  ASSUME SeamOK, OpenPrompt
  PROVE  Prints(typed + 1) /\ typed' = typed + 1
<1> DEFINE n == screen.cols
           home == Goto(screen, screen.row, 0)
           ch == typed + 1
           f == Place(home, ch)
<1>0. Framed(n, screen) /\ screen.row \in Positive /\ 0 \in Nat /\ ch \in Nat
  BY OKFacts
<1>1. Thin(n, screen, home)
  BY <1>0, GotoThin
<1>2. home.pend = FALSE
  BY <1>0 DEF Goto, Framed, Frames
<1>s. screen' = f.s /\ pending' = pending /\ prompt' = screen.row /\ typed' = ch
      /\ Still /\ erase' = erase
  BY DEF OpenPrompt, lispVars, Still
<1> HIDE DEF home, ch, n
<1>3. Framed(n, home) /\ Part(Grid(home), Grid(screen))
  BY <1>1 DEF Thin
<1>4. Puts(n, home, ch, f)
  BY <1>0, <1>3, PlacePuts
<1>5. f.out = << >>
  BY <1>2 DEF Place, Quiet
<1> HIDE DEF f
<1>6. Puts(n, screen, ch, f)
  <2>1. PICK a, b \in Ink : GoneRead(Blank, f.out) \o Grid(f.s) = a \o (Bare(<< ch >>) \o b)
                            /\ Part(a \o b, Grid(home)) /\ Bare(<< ch >>) \in Ink
    BY <1>4 DEF Puts
  <2>2. a \o b \in Ink /\ Grid(home) \in Ink /\ Grid(screen) \in Ink
    BY <1>0, <1>3, <2>1, InkFacts, GridInk
  <2>3. Part(a \o b, Grid(screen))
    BY <1>3, <2>1, <2>2, PartTrans
  <2> QED
    BY <1>4, <2>1, <2>3 DEF Puts
<1>7. Shown(f)
  <2>1. pending \in Seq(Gone)
    BY DEF SeamOK
  <2>2. pending \o << >> = pending
    BY <2>1
  <2>3. prompt' \in Nat
    BY <1>0, <1>s DEF Positive
  <2> QED
    BY <1>5, <1>s, <2>2, <2>3 DEF Shown
<1>8. erase' \in BOOLEAN /\ typed' \in Nat
  BY <1>0, <1>s, OKFacts
<1>9. Prints(ch)
  BY <1>0, <1>6, <1>7, <1>8, <1>s, ShowPrints
<1> QED
  BY <1>9, <1>s DEF ch

-----------------------------------------------------------------------------
(* What Emacs does *)

\* Lines are read one after another, whether or not the last is open.
LEMMA LinesPoured ==
  ASSUME NEW b \in Buffers
  PROVE  OpenRead(Blank, b) = Poured(b)
<1>b. Blank \in Int /\ b \in Seq(Text)
  BY DEF Blank, Buffers
<1>1. OpenRead(Blank, b) \in Ink /\ LinesRead(Blank, b) = OpenRead(Blank, b) \o End(Blank)
  BY <1>b, OpenFacts
<1>2. LinesRead(Blank, b) = OpenRead(Blank, b)
  BY <1>1, BlankEnd, InkFacts
<1> DEFINE x == Closed(b)
<1>3. x \in Seq(Sent) /\ Len(x) = Len(b) /\ \A i \in 1..Len(b) : x[i].text = b[i]
  <2>1. ASSUME NEW i \in 1..Len(b) PROVE [text |-> b[i], newline |-> TRUE] \in Sent
    <3>1. b[i] \in Text
      BY <1>b
    <3> QED
      BY <3>1 DEF Sent
  <2>2. Len(b) \in Nat /\ DOMAIN b = 1..Len(b)
    BY <1>b
  <2>3. x = [i \in 1..Len(b) |-> [text |-> b[i], newline |-> TRUE]]
    BY <2>2 DEF Closed
  <2> HIDE DEF x
  <2> QED
    BY <2>1, <2>2, <2>3
<1>4. LinesRead(Blank, b) = Read(Blank, x)
  BY DEF LinesRead
<1> HIDE DEF x
<1>5. Read(Blank, x) = Poured(TextsOf(x))
  BY <1>3, ReadPoured
<1>6. TextsOf(x) = b
  <2>0. \A d \in Sent : d.text \in Text
    BY DEF Sent
  <2>1. TextsOf(x) \in Seq(Text) /\ Len(TextsOf(x)) = Len(x)
        /\ \A i \in 1..Len(x) : TextsOf(x)[i] = x[i].text
    BY <1>3, <2>0, TextsFacts
  <2> QED
    BY <1>3, <1>b, <2>1, SameSeq
<1> QED
  BY <1>2, <1>4, <1>5, <1>6

\* Rows added to the buffer are read after it (cooked--render-scrolled).
LEMMA AppendPoured ==
  ASSUME NEW b \in Buffers, NEW rows \in Seq(Sent)
  PROVE  /\ AppendTo(b, rows) \in Buffers
         /\ Poured(AppendTo(b, rows)) = Poured(b) \o Poured(TextsOf(rows))
<1>1. AppendTo(b, rows) \in Buffers
  BY AppendType
<1>2. OpenRead(Blank, AppendTo(b, rows)) = OpenRead(Blank, b) \o Read(Blank, rows)
  BY OpenAppend DEF Blank
<1>3. Read(Blank, rows) = Poured(TextsOf(rows))
  BY ReadPoured
<1> QED
  BY <1>1, <1>2, <1>3, LinesPoured

\* There are no characters in nothing.
LEMMA BareNone == Bare(<< >>) = << >>
  BY BareStep, InkFacts

\* Nor in no texts.
LEMMA PouredNone == Poured(<< >>) = << >> /\ TextsOf(<< >>) = << >>
<1>1. << >> \in Seq(Text) /\ << >> \in Text /\ << >> \in Seq(Sent)
  BY DEF Text
<1>2. \A e \in Sent : e.text \in Text
  BY DEF Sent
<1> QED
  BY <1>1, <1>2, PouredSnoc, TextsFacts

\* Nor in an emptied buffer.
LEMMA EmptiedPoured == Emptied \in Buffers /\ Poured(Emptied) = << >>
<1>1. << >> \in Seq(Text) /\ << >> \in Text /\ Emptied = Append(<< >>, << >>)
  BY DEF Text, Emptied
<1>2. Bare(<< >>) = << >>
  BY BareNone
<1>3. Poured(Emptied) = << >> \o << >>
  BY <1>1, <1>2, PouredSnoc
<1>4. Emptied \in Buffers
  BY <1>1 DEF Emptied, Buffers
<1> QED
  BY <1>3, <1>4, InkFacts

\* Some lines of a buffer, in order, the others gone or emptied.
LinesMap(x, y, g) ==
  /\ g \in [1..Len(x) -> 0..Len(y)]
  /\ \A i \in 1..Len(x) : x[i] = IF g[i] = 0 THEN << >> ELSE y[g[i]]
  /\ \A i, j \in 1..Len(x) : i < j /\ g[i] # 0 /\ g[j] # 0 => g[i] < g[j]

\* Some lines of a buffer are read as part of it.
LEMMA LinesPart ==
  ASSUME NEW x \in Seq(Text), NEW y \in Seq(Text), NEW g, LinesMap(x, y, g)
  PROVE  Part(Poured(x), Poured(y))
<1>1. /\ g \in [1..Len(x) -> 0..Len(y)]
      /\ \A i, j \in 1..Len(x) : i < j /\ g[i] # 0 /\ g[j] # 0 => g[i] < g[j]
  BY DEF LinesMap
<1>2. ASSUME NEW i \in 1..Len(x)
      PROVE  IF g[i] = 0 THEN Bare(x[i]) = << >> ELSE Part(Bare(x[i]), Bare(y[g[i]]))
  <2>1. x[i] = IF g[i] = 0 THEN << >> ELSE y[g[i]]
    BY DEF LinesMap
  <2>2. Bare(<< >>) = << >>
    BY BareNone
  <2>3. ASSUME g[i] # 0 PROVE Part(Bare(y[g[i]]), Bare(y[g[i]]))
    <3>1. g[i] \in 1..Len(y)
      BY <1>1, <2>3
    <3>2. y[g[i]] \in Text
      BY <3>1
    <3>3. Bare(y[g[i]]) \in Ink
      BY <3>2, BareType, InkFacts
    <3> QED
      BY <3>3, PartSame
  <2> QED
    BY <2>1, <2>2, <2>3
<1> QED
  BY <1>1, <1>2, PouredPart

\* The last lines of a buffer (cooked--trim-scrollback).
LEMMA TailLines ==
  ASSUME NEW b \in Buffers, NEW k \in 1..Len(b)
  PROVE  SubSeq(b, k, Len(b)) \in Buffers /\ Part(Poured(SubSeq(b, k, Len(b))), Poured(b))
<1> DEFINE x == SubSeq(b, k, Len(b))
           c == Len(b) + 1 - k
           g == [i \in 1..c |-> i + k - 1]
<1>1. b \in Seq(Text) /\ Len(b) \in Nat /\ c \in Nat /\ c >= 1
  BY DEF Buffers
<1>2. x \in Seq(Text) /\ Len(x) = c /\ \A i \in 1..c : x[i] = b[i + k - 1]
  BY <1>1
<1>3. LinesMap(x, b, g)
  <2>1. \A i \in 1..c : g[i] = i + k - 1 /\ g[i] \in 1..Len(b)
    BY <1>1
  <2>2. g \in [1..c -> 0..Len(b)]
    BY <1>1
  <2> HIDE DEF x, c, g
  <2>3. \A i, j \in 1..c : i < j => g[i] < g[j]
    BY <1>1, <2>1
  <2> QED
    BY <1>1, <1>2, <2>1, <2>2, <2>3 DEF LinesMap
<1> HIDE DEF x, c, g
<1>4. Part(Poured(x), Poured(b))
  BY <1>1, <1>2, <1>3, LinesPart
<1> QED
  BY <1>1, <1>2, <1>4 DEF Buffers, x

\* A buffer without some of its lines (cooked-delete-output).
LEMMA CutLines ==
  ASSUME NEW b \in Buffers, NEW from \in 1..Len(b), NEW to \in 1..Len(b), from <= to, to < Len(b)
  PROVE  /\ SubSeq(b, 1, from - 1) \o SubSeq(b, to + 1, Len(b)) \in Buffers
         /\ Part(Poured(SubSeq(b, 1, from - 1) \o SubSeq(b, to + 1, Len(b))), Poured(b))
<1>s. ASSUME NEW z \in Seq(Text), NEW k \in 1..Len(z)
      PROVE  /\ SubSeq(z, k + 1, Len(z)) \in Seq(Text) /\ Len(SubSeq(z, k + 1, Len(z))) = Len(z) - k
             /\ \A i \in 1 .. Len(z) - k : SubSeq(z, k + 1, Len(z))[i] = z[k + i]
  OBVIOUS
<1> DEFINE p == SubSeq(b, 1, from - 1)
           q == SubSeq(b, to + 1, Len(b))
           a == from - 1
           c == Len(b) - to
           x == p \o q
           g == [i \in 1 .. a + c |-> IF i <= a THEN i ELSE i - a + to]
<1>1. b \in Seq(Text) /\ Len(b) \in Nat /\ a \in Nat /\ c \in Nat /\ c >= 1 /\ a < to /\ to \in Nat
      /\ c + to = Len(b)
  BY DEF Buffers
<1>2. p \in Seq(Text) /\ Len(p) = a /\ \A i \in 1..a : p[i] = b[i]
  BY <1>1
<1>3. q \in Seq(Text) /\ Len(q) = c /\ \A i \in 1..c : q[i] = b[to + i]
  BY <1>1, <1>s
<1>4. \A i \in 1 .. a + c : g[i] = IF i <= a THEN i ELSE i - a + to
  OBVIOUS
<1>x. x = p \o q
  OBVIOUS
<1> HIDE DEF p, q, x, a, c
<1>5. x \in Seq(Text) /\ Len(x) = a + c /\ (\A i \in 1..a : x[i] = p[i])
      /\ \A i \in a + 1 .. a + c : x[i] = q[i - a]
  <2>1. /\ p \o q \in Seq(Text) /\ Len(p \o q) = Len(p) + Len(q)
        /\ \A i \in 1..Len(p) : (p \o q)[i] = p[i]
        /\ \A i \in Len(p) + 1 .. Len(p) + Len(q) : (p \o q)[i] = q[i - Len(p)]
    BY <1>2, <1>3, JoinedAt
  <2> QED
    BY <1>2, <1>3, <1>x, <2>1
<1>6. g \in [1 .. a + c -> 0..Len(b)]
  BY <1>1
<1> HIDE DEF g
<1>7. ASSUME NEW i \in 1 .. a + c PROVE g[i] \in 1..Len(b) /\ x[i] = b[g[i]]
  <2>1. CASE i <= a
    BY <1>1, <1>2, <1>4, <1>5, <2>1
  <2>2. CASE i > a
    <3> DEFINE k == i - a
    <3>1. k \in 1..c /\ i \in a + 1 .. a + c /\ ~(i <= a) /\ i - a = k /\ to + k \in 1..Len(b)
      BY <1>1, <2>2
    <3> HIDE DEF k
    <3>2. x[i] = q[k] /\ q[k] = b[to + k]
      BY <1>3, <1>5, <3>1
    <3>3. g[i] = to + k
      BY <1>1, <1>4, <3>1
    <3> QED
      BY <3>1, <3>2, <3>3
  <2> QED
    BY <1>1, <2>1, <2>2
<1>8. \A i, j \in 1 .. a + c : i < j => g[i] < g[j]
  BY <1>1, <1>4
<1>9. LinesMap(x, b, g)
  BY <1>5, <1>6, <1>7, <1>8 DEF LinesMap
<1>10. Part(Poured(x), Poured(b))
  BY <1>1, <1>5, <1>9, LinesPart
<1>11. x \in Buffers
  BY <1>1, <1>5 DEF Buffers
<1> QED
  BY <1>10, <1>11 DEF x, p, q

\* A buffer cut short at a line, which is emptied (cooked-delete-output).
LEMMA HeadLines ==
  ASSUME NEW b \in Buffers, NEW from \in 1..Len(b)
  PROVE  /\ Append(SubSeq(b, 1, from - 1), << >>) \in Buffers
         /\ Part(Poured(Append(SubSeq(b, 1, from - 1), << >>)), Poured(b))
<1> DEFINE p == SubSeq(b, 1, from - 1)
           a == from - 1
           x == Append(p, << >>)
           g == [i \in 1 .. a + 1 |-> IF i <= a THEN i ELSE 0]
<1>1. b \in Seq(Text) /\ Len(b) \in Nat /\ a \in Nat /\ a + 1 <= Len(b)
  BY DEF Buffers
<1>2. p \in Seq(Text) /\ Len(p) = a /\ \A i \in 1..a : p[i] = b[i]
  BY <1>1
<1>e. << >> \in Text
  BY DEF Text
<1> HIDE DEF p, a
<1>3. x \in Seq(Text) /\ Len(x) = a + 1 /\ x[a + 1] = << >> /\ \A i \in 1..a : x[i] = b[i]
  BY <1>1, <1>2, <1>e
<1>4. \A i \in 1 .. a + 1 : g[i] = IF i <= a THEN i ELSE 0
  OBVIOUS
<1>5. g \in [1 .. a + 1 -> 0..Len(b)]
  BY <1>1
<1> HIDE DEF g, x
<1>6. ASSUME NEW i \in 1 .. a + 1 PROVE x[i] = IF g[i] = 0 THEN << >> ELSE b[g[i]]
  <2>1. CASE i <= a
    BY <1>1, <1>3, <1>4, <2>1
  <2>2. CASE i > a
    <3>1. i = a + 1 /\ ~(i <= a)
      BY <1>1, <2>2
    <3> QED
      BY <1>3, <1>4, <3>1
  <2> QED
    BY <1>1, <2>1, <2>2
<1>7. \A i, j \in 1 .. a + 1 : i < j /\ g[i] # 0 /\ g[j] # 0 => g[i] < g[j]
  BY <1>1, <1>4
<1>8. LinesMap(x, b, g)
  BY <1>3, <1>5, <1>6, <1>7 DEF LinesMap
<1>9. Part(Poured(x), Poured(b))
  BY <1>1, <1>3, <1>8, LinesPart
<1>10. x \in Buffers
  BY <1>1, <1>3 DEF Buffers
<1> QED
  BY <1>9, <1>10 DEF x, p

\* Taking an update sends the backlog's text on its way (State::drain, scrolled_rows).
Took(d, s, rows) ==
  /\ d.scrolled \in Seq(Sent) /\ TextsOf(d.scrolled) = TextsOf(rows)
  /\ d # << >> /\ d.row = s.row /\ d.alt = alt
  /\ d.head = IF alt THEN 0 ELSE HeadOf(s)

\* The update carries the texts of the backlog and the cursor's row.
LEMMA DrainedTexts ==
  ASSUME NEW s, NEW rows \in Seq(Gone), NEW event
  PROVE  Took(Drained(s, rows, event), s, rows)
<1> DEFINE Ends(i) == ~(rejoin /\ rows[i].wrapped /\ ~(i = Len(rows) /\ alt))
           sent == [i \in DOMAIN rows |-> [text |-> rows[i].text, newline |-> Ends(i)]]
           h == IF alt THEN 0 ELSE HeadOf(s)
           r == Drained(s, rows, event)
<1>0. Len(rows) \in Nat /\ DOMAIN rows = 1..Len(rows) /\ \A i \in 1..Len(rows) : rows[i] \in Gone
  OBVIOUS
<1>1. \A i \in 1..Len(rows) : rows[i].text \in Text
  BY <1>0 DEF Gone
<1>2. \A i : Ends(i) \in BOOLEAN
  OBVIOUS
<1>r. r = [scrolled |-> sent, head |-> h, row |-> s.row, alt |-> alt, erase |-> event]
  BY DEF Drained
<1> HIDE DEF Ends
<1>3. sent \in Seq(Sent) /\ Len(sent) = Len(rows) /\ \A i \in 1..Len(rows) : sent[i].text = rows[i].text
  BY <1>0, <1>1, <1>2 DEF Sent
<1> HIDE DEF sent, h, r
<1>4. TextsOf(sent) = TextsOf(rows)
  <2>1. \A d \in Sent : d.text \in Text
    BY DEF Sent
  <2>2. \A d \in Gone : d.text \in Text
    BY DEF Gone
  <2>3. TextsOf(sent) \in Seq(Text) /\ Len(TextsOf(sent)) = Len(sent)
        /\ \A i \in 1..Len(sent) : TextsOf(sent)[i] = sent[i].text
    BY <1>3, <2>1, TextsFacts
  <2>4. TextsOf(rows) \in Seq(Text) /\ Len(TextsOf(rows)) = Len(rows)
        /\ \A i \in 1..Len(rows) : TextsOf(rows)[i] = rows[i].text
    BY <2>2, TextsFacts
  <2> QED
    BY <1>3, <2>3, <2>4, SameSeq
<1>5. r # << >> /\ r.scrolled = sent /\ r.row = s.row /\ r.alt = alt /\ r.head = h
  BY <1>r, RecordFacts
<1> QED
  BY <1>3, <1>4, <1>5 DEF r, h, Took

\* The count at the seam is a number (Screen::head).
LEMMA HeadNat ==
  ASSUME NEW n, NEW s, Framed(n, s)
  PROVE  HeadOf(s) \in Nat
<1>1. s.carried \in Nat /\ s.cols \in Nat
  BY FramedFacts
<1>2. ASSUME NEW x \in Nat, NEW y \in Nat PROVE x * y \in Nat
  BY <1>2
<1> QED
  BY <1>1, <1>2 DEF HeadOf

\* An update taken once the user has dropped some of the text, or none of it.
Takes(kept) ==
  /\ screen' = kept /\ delta' = Drained(kept, pending, erase)
  /\ pending' = << >> /\ erase' = FALSE
  /\ UNCHANGED <<alt, rejoin, narrowed, seenRow, typed, session>>

\* Such an update leaves the session in shape, with part of its text.
LEMMA TakesLose ==
  ASSUME SeamOK, Idle, NEW kept, Thin(screen.cols, screen, kept), Takes(kept),
         NEW left \in Buffers, lines' = left, Part(Poured(left), Poured(lines)),
         prompt' \in Nat, head' \in Nat
  PROVE  Loses
<1> DEFINE n == screen.cols
           d == Drained(kept, pending, erase)
           G == Grid(screen)
           H == Grid(kept)
           P == GoneRead(Blank, pending)
           L == Poured(lines)
           M == Poured(left)
<1>1. Framed(n, kept) /\ Part(H, G) /\ H \in Ink
  BY GridInk DEF Thin
<1>2. pending \in Seq(Gone) /\ << >> \in Seq(Gone)
  BY DEF SeamOK
<1>3. d.scrolled \in Seq(Sent) /\ TextsOf(d.scrolled) = TextsOf(pending) /\ d # << >>
      /\ d.row = kept.row /\ d.alt = alt /\ d.head = IF alt THEN 0 ELSE HeadOf(kept)
  <2>1. Took(d, kept, pending)
    BY <1>2, DrainedTexts
  <2> HIDE DEF d
  <2> QED
    BY <2>1 DEF Took
<1>4. kept.row \in Positive /\ HeadOf(kept) \in Nat /\ kept.cols = n
  BY <1>1, FramedFacts, HeadNat DEF Positive
<1>5. delta' = d /\ screen' = kept /\ pending' = << >> /\ erase' = FALSE /\ alt' = alt
      /\ rejoin' = rejoin /\ narrowed' = narrowed /\ seenRow' = seenRow /\ typed' = typed
      /\ session' = session
  BY DEF Takes
<1> HIDE DEF d
<1>6. InFlight' = d.scrolled /\ InFlight = << >>
  BY <1>3, <1>5 DEF InFlight, Idle
<1>7. SeamOK'
  <2>1. Framed(screen.cols, screen)'
    BY <1>1, <1>4, <1>5 DEF n
  <2>2. (~Idle => delta.row \in Positive /\ delta.head \in Nat /\ delta.alt \in BOOLEAN)'
    BY <1>3, <1>4, <1>5, OKFacts
  <2>3. session' \in Sessions /\ alt' \in BOOLEAN /\ erase' \in BOOLEAN /\ rejoin' \in BOOLEAN
        /\ narrowed' \in BOOLEAN /\ seenRow' \in Positive /\ typed' \in Nat
    BY <1>5, OKFacts DEF SeamOK
  <2>4. pending' \in Seq(Gone) /\ InFlight' \in Seq(Sent) /\ lines' \in Buffers
    BY <1>2, <1>3, <1>5, <1>6
  <2> QED
    BY <2>1, <2>2, <2>3, <2>4 DEF SeamOK
<1>8. Poured(TextsOf(InFlight')) = P
  BY <1>2, <1>3, <1>6, GonePoured
<1>9. Poured(TextsOf(InFlight)) = << >>
  BY <1>6, PouredNone
<1>10. GoneRead(Blank, << >>) = << >>
  BY ReadNone DEF Blank
<1>11. L \in Ink /\ P \in Ink /\ G \in Ink /\ M \in Ink
  <2>1. left \in Seq(Text)
    BY DEF Buffers
  <2> QED
    BY <2>1, PartsInk, PouredInk
<1>12. Ashore = L \o << >> /\ Afloat = P \o G
  BY <1>9 DEF Ashore, Afloat
<1>13. Ashore' = M \o P /\ Afloat' = << >> \o H
  BY <1>5, <1>8, <1>10 DEF Ashore, Afloat
<1>14. Part(M, L)
  OBVIOUS
<1> HIDE DEF L, P, G, M, H
<1>15. AllText = L \o (P \o G)
  BY <1>11, <1>12, InkFacts DEF AllText
<1>16. AllText' = (M \o P) \o H
  BY <1>1, <1>13, InkFacts DEF AllText
<1>17. Associates(M, P, H)
  BY <1>1, <1>11, InkAssoc
<1>18. Part(P \o H, P \o G) /\ P \o H \in Ink /\ P \o G \in Ink
  BY <1>1, <1>11, PartSame, PartJoin, InkFacts
<1>19. Part(M \o (P \o H), L \o (P \o G))
  BY <1>11, <1>14, <1>18, PartJoin
<1> QED
  BY <1>7, <1>15, <1>16, <1>17, <1>19 DEF Loses, Associates

-----------------------------------------------------------------------------
(* The rest of what Emacs does *)

\* A resize, of a screen with margins too (Screen::resize).
LEMMA ResizeLoses ==
  ASSUME SeamOK, Resize
  PROVE  Loses
<1>1. PICK size \in Sizes : Show(ResizeScreen(screen, size[1], size[2]))
  BY DEF Resize
<1>2. size[1] \in Positive /\ size[2] \in Positive
  BY <1>1, OKFacts, SizesPositive
<1> DEFINE f == ResizeScreen(screen, size[1], size[2])
<1>3. Thins(size[2], screen, f)
  BY <1>2, OKFacts, ResizeThins
<1>4. Show(f) /\ Still /\ erase' \in BOOLEAN /\ typed' \in Nat
  BY <1>1, OKFacts DEF Resize, lispVars, Still
<1> HIDE DEF f
<1>5. Shown(f)
  BY <1>3, <1>4, ShowShown DEF Thins
<1> QED
  BY <1>3, <1>4, <1>5, ShowLoses

\* A resize of an unpartitioned screen loses none of the text (Screen::resize).
LEMMA ResizeHolds == SeamOK /\ Resize /\ FullRegion(screen) => AllText' = AllText
<1> SUFFICES ASSUME SeamOK, Resize, FullRegion(screen) PROVE AllText' = AllText
  OBVIOUS
<1>1. PICK size \in Sizes : Show(ResizeScreen(screen, size[1], size[2]))
  BY DEF Resize
<1>2. size[1] \in Positive /\ size[2] \in Positive
  BY <1>1, OKFacts, SizesPositive
<1> DEFINE f == ResizeScreen(screen, size[1], size[2])
<1>3. Whole(screen.cols, screen)
  BY OKFacts, FramedWhole
<1>4. Reads(size[2], f, screen)
  BY <1>2, <1>3, ResizeReads
<1>5. Show(f) /\ Still /\ erase' \in BOOLEAN /\ typed' \in Nat
  BY <1>1, OKFacts DEF Resize, lispVars, Still
<1> HIDE DEF f
<1>6. Stays(size[2], f)
  BY <1>4, FramedWhole DEF Reads, Stays
<1>7. Shown(f)
  BY <1>5, <1>6, ShowShown
<1>8. Ashore' = Ashore
      /\ Afloat' = GoneRead(Blank, pending) \o (GoneRead(Blank, f.out) \o Grid(f.s))
  BY <1>5, <1>6, <1>7, ShowReads
<1>9. Afloat' = Afloat
  BY <1>4, <1>8 DEF Afloat, Reads
<1> QED
  BY <1>8, <1>9 DEF AllText

\* A buffer has a line.
LEMMA OKLines ==
  ASSUME SeamOK
  PROVE  lines \in Buffers /\ Part(Poured(lines), Poured(lines)) /\ head \in Nat /\ prompt \in Nat
         /\ Len(lines) \in Nat /\ Len(lines) >= 1
  BY PartsInk, PartSame DEF SeamOK, Buffers

\* An update taken as the text stands (State::drain).
LEMMA DrainLoses ==
  ASSUME SeamOK, Drain
  PROVE  Loses
<1>1. Idle /\ Takes(screen) /\ lines' = lines /\ prompt' = prompt /\ head' = head
  BY DEF Drain, Takes
<1>2. Thin(screen.cols, screen, screen)
  BY OKFacts, SameGrid DEF Thin
<1> QED
  BY <1>1, <1>2, OKLines, TakesLose

\* Rows removed, and the count at the seam dropped with them or not.
LEMMA KeptThin ==
  ASSUME NEW n, NEW s, Framed(n, s), NEW first \in Positive, NEW m \in Int, NEW c \in Nat
  PROVE  Thin(n, s, [RemoveRows(s, first, m) EXCEPT !.carried = c])
<1> DEFINE t == RemoveRows(s, first, m)
<1>1. Thin(n, s, t)
  BY RemoveThin
<1> HIDE DEF t
<1>2. Framed(n, t)
  BY <1>1 DEF Thin
<1>3. Thin(n, t, [t EXCEPT !.carried = c])
  BY <1>2, CarriedThin
<1>4. Thin(n, s, [t EXCEPT !.carried = c])
  BY <1>1, <1>3, ThinTrans
<1> QED
  BY <1>4 DEF t

\* The prompt's anchor is a row, or none (State::remove_rows).
LEMMA RebasedNat ==
  ASSUME SeamOK, NEW first \in Nat, NEW n \in Nat
  PROVE  Rebased(first, n) \in Nat
<1>1. prompt \in Nat
  BY DEF SeamOK
<1> QED
  BY <1>1 DEF Rebased, Least

\* Clearing the scrollback drops text above the prompt (cooked-clear-scrollback).
LEMMA ClearLoses ==
  ASSUME SeamOK, ClearScrollback
  PROVE  Loses
<1> DEFINE n == screen.cols
           m == AbovePrompt
           kept == [RemoveRows(screen, 1, m) EXCEPT !.carried = 0]
<1>1. Framed(n, screen) /\ screen.row \in Positive /\ 1 \in Positive /\ 0 \in Nat /\ 1 \in Nat
  BY OKFacts
<1>2. m \in Nat
  BY <1>1, OKFacts DEF AbovePrompt, Positive
<1>3. /\ Idle /\ screen' = kept /\ delta' = Drained(kept, pending, erase)
      /\ prompt' = IF m = 0 THEN prompt ELSE Rebased(1, m)
      /\ lines' = Emptied /\ head' = 0 /\ pending' = << >> /\ erase' = FALSE
      /\ UNCHANGED <<alt, rejoin, narrowed, seenRow, typed, session>>
  BY DEF ClearScrollback
<1> HIDE DEF m
<1>4. Thin(n, screen, kept)
  BY <1>1, <1>2, KeptThin
<1>5. prompt' \in Nat
  BY <1>1, <1>2, <1>3, OKFacts, RebasedNat
<1>6. Emptied \in Buffers /\ Part(Poured(Emptied), Poured(lines))
  BY EmptiedPoured, PartsInk, PartSame
<1> HIDE DEF kept
<1>7. Takes(kept)
  BY <1>3 DEF Takes
<1> QED
  BY <1>1, <1>3, <1>4, <1>5, <1>6, <1>7, TakesLose

\* Deleted output: lines of the buffer, rows of the screen, or both.
LEMMA RegionLoses ==
  ASSUME SeamOK, Idle, NEW left \in Buffers, Part(Poured(left), Poured(lines)),
         NEW atSeam \in BOOLEAN, NEW first \in Positive, NEW m \in Nat,
         DeleteRegion(left, atSeam, first, m), pending' = << >>, erase' = FALSE,
         UNCHANGED <<alt, rejoin, narrowed, seenRow, typed, session>>
  PROVE  Loses
<1> DEFINE n == screen.cols
           taken == m > 0 /\ ~alt
           cut == IF taken THEN RemoveRows(screen, first, m) ELSE screen
           c == IF atSeam THEN 0 ELSE cut.carried
           kept == [cut EXCEPT !.carried = c]
<1>1. Framed(n, screen) /\ first \in Nat /\ m \in Int
  BY OKFacts DEF Positive
<1>2. Thin(n, screen, cut)
  <2>1. Thin(n, screen, RemoveRows(screen, first, m))
    BY <1>1, RemoveThin
  <2>2. Thin(n, screen, screen)
    BY <1>1, SameGrid DEF Thin
  <2> QED
    BY <2>1, <2>2
<1>3. /\ lines' = left /\ head' = (IF atSeam THEN 0 ELSE head)
      /\ screen' = [cut EXCEPT !.carried = IF atSeam THEN 0 ELSE @]
      /\ prompt' = (IF taken THEN Rebased(first, m) ELSE prompt)
      /\ delta' = Drained([cut EXCEPT !.carried = IF atSeam THEN 0 ELSE @], pending, erase)
  BY DEF DeleteRegion
<1>4. [cut EXCEPT !.carried = IF atSeam THEN 0 ELSE @] = kept
  <2> HIDE DEF cut
  <2> QED
    OBVIOUS
<1> HIDE DEF cut
<1>5. Framed(n, cut) /\ cut.carried \in Nat
  BY <1>2, FramedFacts DEF Thin
<1>6. c \in Nat
  BY <1>5
<1>7. prompt' \in Nat /\ head' \in Nat
  BY <1>1, <1>3, OKLines, RebasedNat
<1> HIDE DEF c
<1>8. Thin(n, screen, kept)
  BY <1>1, <1>2, <1>5, <1>6, CarriedThin, ThinTrans
<1>9. screen' = kept /\ delta' = Drained(kept, pending, erase)
  BY <1>3, <1>4
<1> HIDE DEF kept
<1>10. Takes(kept)
  BY <1>9 DEF Takes
<1> QED
  BY <1>3, <1>7, <1>8, <1>10, TakesLose

\* Output deleted wherever it is (cooked-delete-output).
LEMMA DeleteLoses ==
  ASSUME SeamOK, DeleteOutput
  PROVE  Loses
<1>0. /\ Idle /\ pending' = << >> /\ erase' = FALSE
      /\ UNCHANGED <<alt, rejoin, narrowed, seenRow, typed, session>>
  BY DEF DeleteOutput
<1>1. lines \in Buffers /\ Len(lines) \in Nat /\ Len(lines) >= 1 /\ seenRow \in Positive
      /\ Part(Poured(lines), Poured(lines)) /\ 1 \in Positive /\ 0 \in Nat
  BY OKLines, OKFacts DEF SeamOK
<1>2. ASSUME NEW from \in 1 .. Len(lines) - 1, NEW to \in 1 .. Len(lines) - 1, from <= to,
             DeleteRegion(SubSeq(lines, 1, from - 1) \o SubSeq(lines, to + 1, Len(lines)),
                          to = Len(lines) - 1 /\ Last(lines) = << >>, 1, 0)
      PROVE  Loses
  <2> DEFINE left == SubSeq(lines, 1, from - 1) \o SubSeq(lines, to + 1, Len(lines))
             atSeam == to = Len(lines) - 1 /\ Last(lines) = << >>
  <2>1. from \in 1..Len(lines) /\ to \in 1..Len(lines) /\ to < Len(lines)
    BY <1>1
  <2>2. left \in Buffers /\ Part(Poured(left), Poured(lines))
    BY <1>1, <1>2, <2>1, CutLines
  <2>3. atSeam \in BOOLEAN /\ DeleteRegion(left, atSeam, 1, 0)
    BY <1>2
  <2> HIDE DEF left, atSeam
  <2> QED
    BY <1>0, <1>1, <2>2, <2>3, RegionLoses
<1>3. ASSUME NEW from \in 1..Len(lines), NEW last \in 1 .. seenRow - 1,
             DeleteRegion(Append(SubSeq(lines, 1, from - 1), << >>),
                          from < Len(lines) \/ Last(lines) # << >>, 1, last)
      PROVE  Loses
  <2> DEFINE left == Append(SubSeq(lines, 1, from - 1), << >>)
             atSeam == from < Len(lines) \/ Last(lines) # << >>
  <2>1. last \in Nat
    BY <1>1 DEF Positive
  <2>2. left \in Buffers /\ Part(Poured(left), Poured(lines))
    BY <1>1, HeadLines
  <2>3. atSeam \in BOOLEAN /\ DeleteRegion(left, atSeam, 1, last)
    BY <1>3
  <2> HIDE DEF left, atSeam
  <2> QED
    BY <1>0, <1>1, <2>1, <2>2, <2>3, RegionLoses
<1>4. ASSUME NEW first \in 2 .. seenRow - 1, NEW last \in 2 .. seenRow - 1, first <= last,
             DeleteRegion(lines, FALSE, first, last + 1 - first)
      PROVE  Loses
  <2> DEFINE m == last + 1 - first
  <2>1. first \in Positive /\ m \in Nat
    BY <1>1, <1>4 DEF Positive
  <2>2. DeleteRegion(lines, FALSE, first, m) /\ FALSE \in BOOLEAN
    BY <1>4
  <2> HIDE DEF m
  <2> QED
    BY <1>0, <1>1, <2>1, <2>2, RegionLoses
<1> QED
  BY <1>2, <1>3, <1>4 DEF DeleteOutput

\* A buffer is trimmed to its last lines (cooked--trim-scrollback).
LEMMA TrimPart ==
  ASSUME SeamOK, NEW b \in Buffers, Overgrown(b)
  PROVE  Trimmed(b) \in Buffers /\ Part(Poured(Trimmed(b)), Poured(b))
<1> DEFINE k == Len(b) - Cap
           slack == Cap \div 10
<1>1. Cap \in Nat
  BY SessionsAssumption DEF SeamOK, Cap
<1>2. slack \in Nat
  BY <1>1
<1>3. Len(b) > Cap + Greatest(1, slack) /\ Cap > 0
  BY DEF Overgrown, Threshold
<1> HIDE DEF slack
<1>4. Len(b) \in Nat
  BY DEF Buffers
<1>5. k \in 1..Len(b)
  BY <1>1, <1>2, <1>3, <1>4 DEF Greatest
<1>6. Trimmed(b) = SubSeq(b, k, Len(b))
  BY DEF Trimmed
<1> HIDE DEF k
<1> QED
  BY <1>5, <1>6, TailLines

\* Applying an update puts its text in the buffer, and may trim it (cooked--apply).
LEMMA ApplyLoses ==
  ASSUME SeamOK, Apply
  PROVE  Loses
<1> DEFINE n == screen.cols
           full == AppendTo(lines, delta.scrolled)
           rendered == IF delta.erase THEN Emptied ELSE full
           left == IF Overgrown(rendered) THEN Trimmed(rendered) ELSE rendered
<1>0. ~Idle /\ InFlight = delta.scrolled /\ delta.scrolled \in Seq(Sent) /\ lines \in Buffers
      /\ Framed(n, screen) /\ screen.carried \in Nat /\ delta.row \in Positive /\ delta.head \in Nat
      /\ delta.alt \in BOOLEAN
  BY OKFacts, FramedFacts DEF SeamOK, InFlight, Idle, Apply
<1>1. full \in Buffers /\ Poured(full) = Ashore
  BY <1>0, AppendPoured DEF Ashore
<1>2. Ashore \in Ink /\ Afloat \in Ink
  BY PartsInk
<1> HIDE DEF full
<1>3. rendered \in Buffers /\ Part(Poured(rendered), Ashore)
  BY <1>1, <1>2, EmptiedPoured, PartSame
<1>4. \E c \in Nat : screen' = [screen EXCEPT !.carried = c]
  <2>1. PICK b \in BOOLEAN : screen' = [screen EXCEPT !.carried = IF b THEN 0 ELSE @]
    <3> DEFINE column == Len((IF ~narrowed THEN rendered
                              ELSE IF delta.erase THEN Emptied ELSE AppendTo(Emptied, delta.scrolled))
                             [Len(IF ~narrowed THEN rendered
                              ELSE IF delta.erase THEN Emptied ELSE AppendTo(Emptied, delta.scrolled))])
               told == IF delta.erase THEN 0 ELSE delta.head
               split == ~rejoin /\ told # 0 /\ column = 0
               b == delta.erase \/ split \/ Overgrown(rendered)
    <3>1. screen' = [screen EXCEPT !.carried = IF b THEN 0 ELSE @]
      BY DEF Apply, full
    <3> HIDE DEF split
    <3>2. screen' = [screen EXCEPT !.carried = IF (b = TRUE) THEN 0 ELSE @]
      BY <3>1
    <3> HIDE DEF b
    <3> QED
      BY <3>2
  <2>2. screen' = [screen EXCEPT !.carried = IF b THEN 0 ELSE screen.carried]
    BY <2>1
  <2> QED
    BY <1>0, <2>2
<1>5. lines' = left /\ narrowed' = delta.alt /\ seenRow' = delta.row /\ delta' = << >>
      /\ UNCHANGED <<alt, pending, erase, prompt, rejoin, typed, session>>
  BY DEF Apply, full
<1>6. head' \in Nat
  <2>1. head' = 0 \/ head' = delta.head
    BY DEF Apply
  <2> QED
    BY <1>0, <2>1
<1> HIDE DEF rendered
<1>7. left \in Buffers /\ Part(Poured(left), Ashore)
  <2>1. ASSUME Overgrown(rendered)
        PROVE  Trimmed(rendered) \in Buffers /\ Part(Poured(Trimmed(rendered)), Ashore)
    <3>1. Trimmed(rendered) \in Buffers /\ Part(Poured(Trimmed(rendered)), Poured(rendered))
      BY <1>3, <2>1, TrimPart
    <3>2. Poured(Trimmed(rendered)) \in Ink /\ Poured(rendered) \in Ink
      BY <1>3, <3>1, PouredInk DEF Buffers
    <3> QED
      BY <1>2, <1>3, <3>1, <3>2, PartTrans
  <2> QED
    BY <1>3, <2>1
<1> HIDE DEF left
<1>8. Thin(n, screen, screen')
  BY <1>0, <1>4, CarriedThin
<1>9. InFlight' = << >> /\ Idle'
  BY <1>5 DEF InFlight, Idle
<1>10. SeamOK'
  <2>1. Framed(screen.cols, screen)'
    BY <1>8, FramedFacts DEF Thin
  <2>2. session' \in Sessions /\ alt' \in BOOLEAN /\ erase' \in BOOLEAN /\ rejoin' \in BOOLEAN
        /\ narrowed' \in BOOLEAN /\ seenRow' \in Positive /\ typed' \in Nat /\ pending' \in Seq(Gone)
        /\ prompt' \in Nat
    BY <1>0, <1>5, OKFacts DEF SeamOK
  <2>3. << >> \in Seq(Sent)
    OBVIOUS
  <2> QED
    BY <1>5, <1>6, <1>7, <1>9, <2>1, <2>2, <2>3 DEF SeamOK
<1> DEFINE M == Poured(left)
           P == GoneRead(Blank, pending)
           G == Grid(screen)
           H == Grid(screen')
<1>11. M \in Ink /\ P \in Ink /\ G \in Ink /\ H \in Ink /\ Part(H, G)
  <2>1. left \in Seq(Text)
    BY <1>7 DEF Buffers
  <2>2. Grid(screen') \in Ink
    BY <1>8, GridInk DEF Thin
  <2> QED
    BY <1>8, <2>1, <2>2, PartsInk, PouredInk DEF Thin
<1>12. Ashore' = M \o << >> /\ Afloat' = P \o H /\ Afloat = P \o G
  BY <1>5, <1>9, PouredNone DEF Ashore, Afloat
<1>13. Part(M, Ashore)
  BY <1>7
<1> HIDE DEF M, P, G, H
<1>14. Ashore' = M
  BY <1>11, <1>12, InkFacts
<1>15. Part(P \o H, P \o G) /\ P \o H \in Ink
  BY <1>11, PartSame, PartJoin, InkFacts
<1>16. Part(M \o Afloat', Ashore \o Afloat)
  BY <1>2, <1>11, <1>12, <1>13, <1>15, PartJoin
<1> QED
  BY <1>10, <1>14, <1>16 DEF Loses, AllText

-----------------------------------------------------------------------------
(* The theorems *)

\* Nothing is read twice, and nothing that was not printed.
Numbered(x, t) == Once(x) /\ \A i \in 1..Len(x) : x[i] \in 1..t

\* What is part of a text read once is read once.
LEMMA NumberedPart ==
  ASSUME NEW t \in Nat, NEW x \in Ink, NEW y \in Ink, Part(x, y), Numbered(y, t)
  PROVE  Numbered(x, t)
<1>1. Once(x) /\ \A i \in 1..Len(x) : \E j \in 1..Len(y) : x[i] = y[j]
  BY PartOnce DEF Numbered
<1>2. \A j \in 1..Len(y) : y[j] \in 1..t
  BY DEF Numbered
<1> QED
  BY <1>1, <1>2 DEF Numbered

\* A new character among the old ones.
LEMMA NumberedPut ==
  ASSUME NEW t \in Nat, NEW a \in Ink, NEW b \in Ink, Numbered(a \o b, t),
         NEW w, w = a \o (<< t + 1 >> \o b)
  PROVE  Numbered(w, t + 1)
<1> DEFINE p == Len(a)
           q == Len(b)
           c == << t + 1 >>
           ab == a \o b
           cb == c \o b
<1>1. p \in Nat /\ q \in Nat /\ a \in Seq(Int) /\ b \in Seq(Int) /\ c \in Seq(Int) /\ Len(c) = 1
      /\ c[1] = t + 1
  BY DEF Ink
<1>2. ab \in Seq(Int) /\ Len(ab) = p + q /\ (\A i \in 1..p : ab[i] = a[i])
      /\ \A i \in p + 1 .. p + q : ab[i] = b[i - p]
  BY <1>1, JoinedAt
<1> HIDE DEF c
<1>3. cb \in Seq(Int) /\ Len(cb) = 1 + q /\ (\A i \in 1..1 : cb[i] = c[i])
      /\ \A i \in 2 .. 1 + q : cb[i] = b[i - 1]
  <2>1. cb \in Seq(Int) /\ Len(cb) = Len(c) + Len(b) /\ (\A i \in 1..Len(c) : cb[i] = c[i])
        /\ \A i \in Len(c) + 1 .. Len(c) + Len(b) : cb[i] = b[i - Len(c)]
    <3>1. c \in Seq(Int) /\ b \in Seq(Int)
      BY <1>1
    <3> QED
      BY ONLY <3>1, JoinedAt
  <2>2. 1 + 1 = 2
    OBVIOUS
  <2> HIDE DEF cb, q
  <2> QED
    BY <1>1, <2>1, <2>2 DEF q
<1>w. w = a \o cb
  BY DEF c
<1>n. Numbered(ab, t)
  OBVIOUS
<1> HIDE DEF ab, cb, p, q
<1>4. w \in Seq(Int) /\ Len(w) = p + (1 + q) /\ (\A i \in 1..p : w[i] = a[i])
      /\ \A i \in p + 1 .. p + (1 + q) : w[i] = cb[i - p]
  <2>1. a \o cb \in Seq(Int) /\ Len(a \o cb) = Len(a) + Len(cb) /\ (\A i \in 1..Len(a) : (a \o cb)[i] = a[i])
        /\ \A i \in Len(a) + 1 .. Len(a) + Len(cb) : (a \o cb)[i] = cb[i - Len(a)]
    <3>1. a \in Seq(Int) /\ cb \in Seq(Int)
      BY <1>1, <1>3
    <3> QED
      BY ONLY <3>1, JoinedAt
  <2> QED
    BY <1>3, <1>w, <2>1 DEF p
<1> DEFINE n == p + 1
           o(i) == IF i < n THEN i ELSE i - 1
<1>5. n \in Nat /\ n = p + 1 /\ Len(w) = n + q
  BY <1>1, <1>4
<1>6. w[n] = t + 1
  <2>1. n \in p + 1 .. p + (1 + q) /\ n - p = 1 /\ 1 \in 1..1
    BY <1>1, <1>5
  <2>2. w[n] = cb[n - p]
    BY <1>4, <2>1
  <2> QED
    BY <1>1, <1>3, <2>1, <2>2
<1> HIDE DEF n
<1>7. ASSUME NEW i \in 1 .. n + q, i # n
      PROVE  o(i) \in 1 .. p + q /\ w[i] = ab[o(i)]
  <2>1. CASE i < n
    <3>1. i \in 1..p /\ o(i) = i /\ i \in 1 .. p + q
      BY <1>1, <1>5, <2>1
    <3> HIDE DEF o
    <3> QED
      BY <1>2, <1>4, <3>1
  <2>2. CASE i > n
    <3> DEFINE k == i - p
    <3>1. /\ i \in p + 1 .. p + (1 + q) /\ k \in 2 .. 1 + q /\ i - p = k
          /\ i - 1 \in p + 1 .. p + q /\ (i - 1) - p = k - 1 /\ ~(i < n) /\ i - 1 \in 1 .. p + q
      BY <1>1, <1>5, <2>2
    <3> HIDE DEF k
    <3>2. w[i] = cb[k] /\ cb[k] = b[k - 1]
      BY <1>3, <1>4, <3>1
    <3> DEFINE j == i - 1
    <3>3. o(i) = j /\ j \in p + 1 .. p + q /\ j - p = k - 1 /\ j \in 1 .. p + q
      BY <3>1
    <3> HIDE DEF j, o
    <3>4. ab[j] = b[j - p]
      BY <1>2, <3>3
    <3> QED
      BY <3>2, <3>3, <3>4
  <2> QED
    BY <1>5, <1>7, <2>1, <2>2
<1>8. \A j \in 1 .. p + q : ab[j] \in 1..t
  BY <1>2, <1>n DEF Numbered
<1>9. \A i, j \in 1 .. p + q : ab[i] = ab[j] => i = j
  BY <1>2, <1>n DEF Numbered, Once
<1>t. t + 1 \in 1 .. t + 1 /\ \A e \in 1..t : e \in 1 .. t + 1 /\ e # t + 1
  OBVIOUS
<1>10. ASSUME NEW i \in 1 .. n + q PROVE w[i] \in 1 .. t + 1
  <2>1. CASE i = n
    BY <1>6, <1>t, <2>1
  <2>2. CASE i # n
    <3>1. w[i] \in 1..t
      <4> HIDE DEF o
      <4> QED
        BY <1>7, <1>8, <2>2
    <3> QED
      BY <1>t, <3>1
  <2> QED
    BY <2>1, <2>2
<1>11. ASSUME NEW i \in 1 .. n + q, i # n PROVE w[i] # t + 1
  <2>1. w[i] \in 1..t
    <3> HIDE DEF o
    <3> QED
      BY <1>7, <1>8, <1>11
  <2> QED
    BY <1>t, <2>1
<1>12. ASSUME NEW i \in 1 .. n + q, NEW j \in 1 .. n + q, w[i] = w[j] PROVE i = j
  <2>1. CASE i = n \/ j = n
    BY <1>6, <1>11, <1>12, <2>1
  <2>2. CASE i # n /\ j # n
    <3>1. o(i) \in 1 .. p + q /\ w[i] = ab[o(i)] /\ o(j) \in 1 .. p + q /\ w[j] = ab[o(j)]
      BY <1>7, <2>2
    <3>2. o(i) = o(j)
      <4> HIDE DEF o
      <4> QED
        BY <1>9, <1>12, <3>1
    <3> QED
      BY <1>5, <2>2, <3>2
  <2> QED
    BY <2>1, <2>2
<1> QED
  BY <1>5, <1>10, <1>12 DEF Numbered, Once

\* A text with nothing twice has as many characters as it is long.
LEMMA NumberedCount ==
  ASSUME NEW t \in Nat, NEW x \in Ink, Numbered(x, t)
  PROVE  Cardinality(ToSet(x)) = Len(x)
<1> DEFINE S == ToSet(x)
           n == Len(x)
<1>1. x \in [1..n -> Int] /\ n \in Nat /\ DOMAIN x = 1..n
  BY DEF Ink
<1>2. S = {x[i] : i \in 1..n}
  BY <1>1 DEF ToSet
<1>3. \A i, j \in 1..n : x[i] = x[j] => i = j
  BY DEF Numbered, Once
<1> HIDE DEF S, n
<1>4. x \in [1..n -> S] /\ \A e \in S : \E i \in 1..n : x[i] = e
  BY <1>1, <1>2
<1>5. x \in Bijection(1..n, S)
  BY <1>1, <1>3, <1>4 DEF Bijection, Injection, Surjection, IsInjective
<1>6. ExistsBijection(1..n, S)
  BY <1>5 DEF ExistsBijection
<1>7. Cardinality(S) = n
  BY <1>1, <1>6, FS_CountingElements
<1> QED
  BY <1>7 DEF S, n

\* The inductive invariant: the session is in shape, and all its text is read once.
TextInv == SeamOK /\ Numbered(AllText, typed)

\* Printing puts in a character that is new, or a blank.
LEMMA PrintsOnce ==
  ASSUME TextInv, NEW ch \in {typed + 1, Blank}, Prints(ch), typed' = typed + 1
  PROVE  TextInv'
<1> DEFINE t == typed
<1>1. t \in Nat /\ t + 1 \in Nat /\ SeamOK /\ Numbered(AllText, t) /\ AllText \in Ink
  BY OKFacts, PartsInk DEF TextInv
<1>2. SeamOK'
  BY DEF Prints
<1>3. PICK a, b \in Ink : AllText' = a \o (Bare(<< ch >>) \o b) /\ Part(a \o b, AllText)
  BY DEF Prints
<1>4. a \o b \in Ink
  BY <1>3, InkFacts
<1>5. Numbered(a \o b, t)
  BY <1>1, <1>3, <1>4, NumberedPart
<1>6. Bare(<< ch >>) = IF ch = Blank THEN << >> ELSE << ch >>
  <2>0. ch \in Int
    BY <1>1 DEF Blank
  <2>1. << >> \in Ink /\ << ch >> = Append(<< >>, ch) /\ << ch >> = << >> \o << ch >>
    BY <2>0 DEF Ink
  <2>2. Bare(Append(<< >>, ch)) = IF ch = Blank THEN Bare(<< >>) ELSE Append(Bare(<< >>), ch)
    BY <2>0, <2>1, BareSnoc
  <2>3. Append(<< >>, ch) = << ch >>
    BY <2>1
  <2> QED
    BY <2>2, <2>3, BareNone
<1>7. Numbered(AllText', t + 1)
  <2>1. CASE ch = Blank
    <3>1. AllText' = a \o b
      BY <1>3, <1>6, <2>1, InkFacts
    <3>2. \A i \in 1..Len(a \o b) : (a \o b)[i] \in 1..t
      BY <1>5 DEF Numbered
    <3>3. \A e \in 1..t : e \in 1 .. t + 1
      BY <1>1
    <3> QED
      BY <1>5, <3>1, <3>2, <3>3 DEF Numbered
  <2>2. CASE ch # Blank
    <3>1. ch = t + 1 /\ AllText' = a \o (<< t + 1 >> \o b)
      BY <1>3, <1>6, <2>2
    <3> QED
      BY <1>1, <1>5, <3>1, NumberedPut
  <2> QED
    BY <2>1, <2>2
<1> QED
  BY <1>2, <1>7 DEF TextInv

\* The text of a session is text, before a step and after it.
LEMMA WholeInk == SeamOK => AllText \in Ink
  BY PartsInk

\* What leaves part of a text read once leaves one read once.
LEMMA LosesOnce ==
  ASSUME TextInv, Loses, typed' = typed
  PROVE  TextInv'
<1>2. (SeamOK => AllText \in Ink)'
  BY WholeInk, PTL
<1>3. SeamOK' /\ AllText' \in Ink /\ Part(AllText', AllText) /\ AllText \in Ink /\ typed \in Nat
      /\ Numbered(AllText, typed)
  BY <1>2, PartsInk, OKFacts DEF Loses, TextInv
<1>4. Numbered(AllText', typed)
  BY <1>3, NumberedPart
<1> QED
  BY <1>3, <1>4 DEF TextInv

\* A session starts in shape and with no text.
LEMMA InitText == Init => TextInv
<1> SUFFICES ASSUME Init PROVE TextInv
  OBVIOUS
<1>1. /\ session \in Sessions /\ alt = FALSE /\ pending = << >> /\ erase = FALSE /\ prompt = 0
      /\ delta = << >> /\ lines = Emptied /\ head = 0 /\ rejoin \in session.joins
      /\ narrowed = FALSE /\ seenRow = 1 /\ typed = 0
  BY DEF Init
<1>2. rejoin \in BOOLEAN
  BY <1>1, SessionsAssumption
<1>3. PICK size \in Sizes : screen = NewScreen(size[1], size[2])
  BY DEF Init
<1>4. size[1] \in Positive /\ size[2] \in Positive
  BY <1>1, <1>3, SizesPositive
<1> DEFINE n == size[2]
           s == NewScreen(size[1], n)
<1>5. Tidy(n, s) /\ s.cols = n
  BY <1>4, NewTidy DEF Blank
<1>6. Framed(n, s)
  BY <1>5, FramedWhole DEF Tidy
<1>7. Grid(s) = << >>
  <2> DEFINE rs == s.rows
  <2>1. n \in Nat /\ rs \in Seq(Width(n))
    BY <1>6, FramedFacts
  <2>2. \A r \in 1..Len(rs) : rs[r] = BlankRow(n)
    <3> HIDE DEF n
    <3> QED
      BY <1>4 DEF NewScreen, Positive
  <2>3. Bare(BlankRow(n).cells) = << >>
    <3> HIDE DEF n
    <3> QED
      BY <2>1, BlankInk
  <2> HIDE DEF rs, s, n
  <2>4. NothingFrom(rs, 1)
    BY <2>2, <2>3 DEF NothingFrom
  <2>5. RowsRead(Blank, rs) = << >>
    BY <2>1, <2>4, NothingRead
  <2> QED
    BY <2>5 DEF Grid, rs
<1>8. screen = s
  BY <1>3
<1> HIDE DEF s, n
<1>9. InFlight = << >> /\ Idle
  BY <1>1 DEF InFlight, Idle
<1>10. SeamOK
  <2>1. << >> \in Seq(Gone) /\ << >> \in Seq(Sent) /\ 0 \in Nat /\ 1 \in Positive /\ FALSE \in BOOLEAN
    BY DEF Positive
  <2>2. Framed(screen.cols, screen)
    BY <1>5, <1>6, <1>8
  <2>3. lines \in Buffers
    BY <1>1, EmptiedPoured
  <2> QED
    BY <1>1, <1>2, <1>9, <2>1, <2>2, <2>3 DEF SeamOK
<1>11. AllText = << >>
  <2>1. Ashore = << >> \o << >>
    BY <1>1, <1>9, EmptiedPoured, PouredNone DEF Ashore
  <2>2. Afloat = << >> \o << >>
    BY <1>1, <1>7, <1>8, ReadNone DEF Afloat, Blank
  <2>3. << >> \o << >> = << >>
    BY InkFacts
  <2> QED
    BY <2>1, <2>2, <2>3 DEF AllText
<1>12. Numbered(<< >>, typed)
  BY DEF Numbered, Once
<1> QED
  BY <1>10, <1>11, <1>12 DEF TextInv

\* No step reads a character twice.
LEMMA NextText == TextInv /\ [Next]_vars => TextInv'
<1> SUFFICES ASSUME TextInv, [Next]_vars PROVE TextInv'
  OBVIOUS
<1>0. SeamOK
  BY DEF TextInv
<1>1. CASE PrintChar
  BY <1>0, <1>1, PrintPrints, PrintsOnce
<1>2. CASE OpenPrompt
  BY <1>0, <1>2, PromptPrints, PrintsOnce
<1>3. CASE Newline \/ Index \/ ReverseIndexed \/ Scroll \/ Move \/ Margins
  <2>1. typed' = typed
    BY <1>3 DEF Newline, Index, ReverseIndexed, Scroll, Move, Margins
  <2> QED
    BY <1>0, <1>3, <2>1, MovesLose, LosesOnce
<1>4. CASE EraseInLine \/ ErasePart \/ Clear \/ EditLines \/ EditChars
  <2>1. typed' = typed
    BY <1>4 DEF EraseInLine, ErasePart, Clear, EditLines, EditChars
  <2> QED
    BY <1>0, <1>4, <2>1, EditsLose, LosesOnce
<1>5. CASE Autowrap \/ EraseSaved \/ SwitchScreen \/ ToggleRejoin
  <2>1. typed' = typed
    BY <1>5 DEF Autowrap, EraseSaved, SwitchScreen, ToggleRejoin
  <2> QED
    BY <1>0, <1>5, <2>1, ModesLose, LosesOnce
<1>6. CASE Resize \/ Drain \/ Apply \/ ClearScrollback \/ DeleteOutput
  <2>1. typed' = typed
    BY <1>6 DEF Resize, Drain, Apply, ClearScrollback, DeleteOutput
  <2> QED
    BY <1>0, <1>6, <2>1, ResizeLoses, DrainLoses, ApplyLoses, ClearLoses, DeleteLoses, LosesOnce
<1>7. CASE UNCHANGED vars
  <2>1. SeamOK' /\ AllText' = AllText /\ typed' = typed
    BY <1>0, <1>7 DEF vars, termVars, lispVars, SeamOK, AllText, Ashore, Afloat, InFlight, Idle
  <2> QED
    BY <2>1 DEF TextInv
<1> QED
  BY <1>1, <1>2, <1>3, <1>4, <1>5, <1>6, <1>7 DEF Next, Child, Emacs

\* Whatever the child does and the user does, the screen has its rows at its width and
\* its cursor and margins on them, the backlog and the update on its way hold rows, and
\* the buffer at least a line (Screen, State, cooked--apply).
THEOREM SessionShaped == Spec => []SeamOK
<1>1. TextInv => SeamOK
  BY DEF TextInv
<1> QED
  BY <1>1, InitText, NextText, PTL DEF Spec

\* No character the child printed is ever in two places, in any session: not on the screen,
\* in the backlog, on its way to Emacs or in the buffer, nor in two of them.
THEOREM NothingTwice == Spec => []NoDuplicate
<1>1. TextInv => NoDuplicate
  <2> SUFFICES ASSUME TextInv PROVE NoDuplicate
    OBVIOUS
  <2>1. Bare(Cells) = AllText /\ AllText \in Ink /\ typed \in Nat /\ Numbered(AllText, typed)
    BY CellsWhole, PartsInk, OKFacts DEF TextInv
  <2>2. Cardinality(ToSet(AllText)) = Len(AllText)
    BY <2>1, NumberedCount
  <2> QED
    BY <2>1, <2>2 DEF NoDuplicate
<1> QED
  BY <1>1, InitText, NextText, PTL DEF Spec

\* A resize of an unpartitioned screen keeps every character there is and their order, in
\* any session, wherever the cursor is and whatever is drawn below it (Screen::reflow).
THEOREM ResizeKeeps == Spec => ResizeKeepsText
<1>1. SeamOK => (Resize /\ FullRegion(screen) => AllText' = AllText)
  BY ResizeHolds
<1>2. (SeamOK => Bare(Cells) = AllText)'
  BY CellsWhole, PTL
<1>3. TextInv /\ [Next]_vars => [Resize /\ FullRegion(screen) => Bare(Cells') = Bare(Cells)]_vars
  <2> SUFFICES ASSUME TextInv, [Next]_vars, Resize, FullRegion(screen)
               PROVE  Bare(Cells') = Bare(Cells)
    OBVIOUS
  <2>1. TextInv'
    BY NextText
  <2>2. SeamOK /\ SeamOK'
    BY <2>1 DEF TextInv
  <2>3. Bare(Cells) = AllText /\ Bare(Cells') = AllText'
    BY <1>2, <2>2, CellsWhole
  <2> QED
    BY <1>1, <2>2, <2>3
<1> QED
  BY <1>3, InitText, NextText, PTL DEF Spec, ResizeKeepsText

-----------------------------------------------------------------------------
(* A change of width, undone *)

\* A number that is whole rows and some columns has that quotient and that remainder.
LEMMA DivAt ==
  ASSUME NEW n \in Positive, NEW q \in Nat, NEW t \in 0 .. n - 1, NEW a, a = Through(q, n) + t
  PROVE  a \in Nat /\ a \div n = q /\ a % n = t
<1>0. n \in Nat /\ n >= 1 /\ Through(q, n) \in Nat
  BY ThroughFacts
<1>1. ASSUME NEW i \in Nat, NEW j \in Nat, i + 1 <= j
      PROVE  Through(i, n) \in Nat /\ Through(j, n) \in Nat /\ Through(i, n) + n <= Through(j, n)
  <2>1. i + 1 \in Nat
    OBVIOUS
  <2>2. Through(i + 1, n) <= Through(j, n)
    BY <1>1, <2>1, ThroughFacts
  <2>3. Through(i + 1, n) = Through(i, n) + n /\ Through(i, n) \in Nat /\ Through(j, n) \in Nat
    BY ThroughFacts
  <2> QED
    BY <2>2, <2>3
<1>2. a \in Nat
  BY <1>0
<1>3. PICK d \in Nat, u \in 0 .. n - 1 : a \div n = d /\ a % n = u /\ a = Through(d, n) + u
  BY <1>2, DivMod DEF Through
<1>4. d = q
  <2>1. ~(d + 1 <= q)
    <3> SUFFICES ASSUME d + 1 <= q PROVE FALSE
      OBVIOUS
    <3>1. Through(d, n) \in Nat /\ Through(d, n) + n <= Through(q, n)
      BY <1>1
    <3> QED
      BY <1>0, <1>3, <3>1
  <2>2. ~(q + 1 <= d)
    <3> SUFFICES ASSUME q + 1 <= d PROVE FALSE
      OBVIOUS
    <3>1. Through(d, n) \in Nat /\ Through(q, n) + n <= Through(d, n)
      BY <1>1
    <3> QED
      BY <1>0, <1>3, <3>1
  <2> QED
    BY <1>3, <2>1, <2>2
<1>5. u = t
  <2>1. Through(q, n) + u = Through(q, n) + t
    BY <1>3, <1>4
  <2> QED
    BY <1>0, <1>3, <2>1
<1> QED
  BY <1>2, <1>3, <1>4, <1>5

\* A line is cut into no more rows than it fills, or into one.
Filled(n, x, ch) == Len(ch) = 1 \/ Through(Len(ch) - 1, n) < Len(x)

\* Logical::chunk cuts no row that has nothing of the line.
LEMMA ChunkFilled ==
  ASSUME NEW n \in Positive, NEW x \in Text
  PROVE  Filled(n, x, Chunk(x, n))
<1> DEFINE a == Len(x) + n - 1
           k == Greatest(1, a \div n)
           Cell(j, i) == LET at == (j - 1) * n + i
                         IN  IF at <= Len(x) THEN x[at] ELSE Blank
           Laid1(j) == [cells |-> [i \in 1..n |-> Cell(j, i)], wrapped |-> j < k]
           laid == [j \in 1..k |-> Laid1(j)]
<1>0. n \in Nat /\ n >= 1 /\ Len(x) \in Nat /\ a \in Nat
  BY DEF Positive, Text
<1>1. Chunk(x, n) = laid
  BY DEF Chunk
<1>2. PICK d \in Nat, t \in 0 .. n - 1 : a \div n = d /\ a = Through(d, n) + t
  <2> HIDE DEF a
  <2> QED
    BY <1>0, DivMod DEF Through
<1>3. k \in Nat /\ k >= 1 /\ (k = 1 \/ k = d)
  BY <1>2 DEF Greatest
<1>4. k = 1 \/ Through(k - 1, n) < Len(x)
  <2> HIDE DEF k
  <2> SUFFICES ASSUME k = d PROVE Through(k - 1, n) < Len(x)
    BY <1>3
  <2>1. k - 1 \in Nat /\ (k - 1) + 1 = k
    BY <1>3
  <2>2. Through(k - 1, n) \in Nat /\ Through(k, n) = Through(k - 1, n) + n
    BY <2>1, ThroughFacts
  <2> QED
    BY <1>0, <1>2, <2>2
<1>5. Len(laid) = k
  <2> HIDE DEF k, Laid1
  <2> QED
    BY <1>3
<1> HIDE DEF laid, k
<1> QED
  BY <1>1, <1>4, <1>5 DEF Filled

\* There is one way to cut a line up.
LEMMA ChunkOnly ==
  ASSUME NEW n \in Positive, NEW x \in Text, NEW p, NEW q, Chunked(n, x, p), Chunked(n, x, q),
         Filled(n, x, p), Filled(n, x, q)
  PROVE  p = q
<1>1. /\ p \in Seq(Width(n)) /\ Len(p) \in Nat /\ Len(p) >= 1
      /\ q \in Seq(Width(n)) /\ Len(q) \in Nat /\ Len(q) >= 1
      /\ Len(x) <= Through(Len(p), n) /\ Len(x) <= Through(Len(q), n) /\ Len(x) \in Nat
  BY DEF Chunked, Text
<1>2. ASSUME NEW j \in Nat, NEW k \in Nat, j >= 1, j < k, Len(x) <= Through(j, n),
             k = 1 \/ Through(k - 1, n) < Len(x)
      PROVE  FALSE
  <2>1. Through(j, n) <= Through(k - 1, n) /\ Through(j, n) \in Nat /\ Through(k - 1, n) \in Nat
    <3>1. k - 1 \in Nat /\ j <= k - 1
      BY <1>2
    <3> QED
      BY <3>1, ThroughFacts
  <2> QED
    BY <1>1, <1>2, <2>1
<1>3. Len(p) = Len(q)
  BY <1>1, <1>2 DEF Filled
<1>4. ASSUME NEW k \in 1..Len(p) PROVE p[k] = q[k]
  <2>1. Holds(n, x, Through(k - 1, n), p[k]) /\ (p[k].wrapped <=> k < Len(p))
    BY DEF Chunked
  <2>2. Holds(n, x, Through(k - 1, n), q[k]) /\ (q[k].wrapped <=> k < Len(q))
    BY <1>3 DEF Chunked
  <2>3. p[k] \in Width(n) /\ q[k] \in Width(n)
    BY <1>1, <1>3
  <2>4. ASSUME NEW r \in Width(n), NEW u \in Width(n), r.wrapped <=> u.wrapped,
               \A i \in 1..n : r.cells[i] = u.cells[i]
        PROVE  r = u
    <3>1. r.cells \in Seq(Nat) /\ u.cells \in Seq(Nat) /\ Len(r.cells) = n /\ Len(u.cells) = n
      BY DEF Width, Text
    <3>2. r.cells = u.cells
      BY <2>4, <3>1, SameSeq
    <3>3. r = [cells |-> r.cells, wrapped |-> r.wrapped] /\ u = [cells |-> u.cells, wrapped |-> u.wrapped]
          /\ r.wrapped \in BOOLEAN /\ u.wrapped \in BOOLEAN
      BY DEF Width
    <3>4. r.wrapped = u.wrapped
      BY <2>4, <3>3
    <3> QED
      BY <3>2, <3>3, <3>4
  <2>5. \A i \in 1..n : p[k].cells[i] = q[k].cells[i]
    BY <2>1, <2>2 DEF Holds
  <2> QED
    BY <1>3, <2>1, <2>2, <2>3, <2>4, <2>5
<1> QED
  BY <1>1, <1>3, <1>4, SameSeq

\* Where the end of a line puts the cursor tells how long the line is (screen.rs place).
LEMMA CursorMeasures ==
  ASSUME NEW n \in Positive, NEW x \in Text, NEW ch, Chunked(n, x, ch),
         NEW c, c = CursorAt(Len(x), n, Len(ch))
  PROVE  Len(x) = Through(Len(ch) - 1, n) + c.col + (IF c.pend THEN 1 ELSE 0)
<1> DEFINE K == Len(ch)
           L == Len(x)
<1>0. /\ n \in Nat /\ n >= 1 /\ K \in Nat /\ K >= 1 /\ L \in Nat
      /\ Through(K - 1, n) <= L /\ L <= Through(K, n)
  BY DEF Chunked, Positive, Text
<1>1. PICK d \in Nat, t \in 0 .. n - 1 : L \div n = d /\ L % n = t /\ L = Through(d, n) + t
  <2> HIDE DEF L
  <2> QED
    BY <1>0, DivMod DEF Through
<1>3. /\ \A k \in Nat : Through(k, n) \in Nat /\ Through(k + 1, n) = Through(k, n) + n
      /\ \A j, k \in Nat : j <= k => Through(j, n) <= Through(k, n)
      /\ Through(0, n) = 0
  BY ThroughFacts
<1> HIDE DEF K, L
<1>5. c = IF t = 0 /\ d > 0 /\ d >= K THEN [row |-> d, col |-> n - 1, pend |-> TRUE]
          ELSE [row |-> Least(d, K - 1) + 1, col |-> t, pend |-> FALSE]
  BY <1>1 DEF CursorAt, K, L
<1>6. K - 1 \in Nat /\ (K - 1) + 1 = K
  BY <1>0
<1>7. d <= K
  <2> SUFFICES ASSUME d > K PROVE FALSE
    BY <1>0
  <2>1. K + 1 <= d /\ K + 1 \in Nat
    BY <1>0
  <2>2. Through(K + 1, n) <= Through(d, n) /\ Through(K + 1, n) = Through(K, n) + n
        /\ Through(d, n) \in Nat /\ Through(K, n) \in Nat
    BY <1>0, <1>3, <2>1
  <2>3. n \in Nat /\ n >= 1 /\ L <= Through(K, n) /\ L = Through(d, n) + t /\ t \in Nat
        /\ L \in Nat
    BY <1>0, <1>1
  <2> QED
    BY ONLY <2>2, <2>3
<1>8. d >= K - 1
  <2> SUFFICES ASSUME d + 1 <= K - 1, d + 1 \in Nat PROVE FALSE
    BY <1>0
  <2>1. Through(d + 1, n) <= Through(K - 1, n) /\ Through(d + 1, n) = Through(d, n) + n
        /\ Through(d, n) \in Nat /\ Through(K - 1, n) \in Nat
    BY <1>3, <1>6
  <2>2. n \in Nat /\ n >= 1 /\ Through(K - 1, n) <= L /\ L = Through(d, n) + t
        /\ t \in 0 .. n - 1 /\ L \in Nat
    BY <1>0, <1>1
  <2> QED
    BY ONLY <2>1, <2>2
<1>9. CASE d = K
  <2>1. t = 0
    <3>1. Through(K, n) + t <= Through(K, n) /\ Through(K, n) \in Nat
      BY <1>0, <1>1, <1>3, <1>9
    <3> QED
      BY <3>1
  <2>2. c.col = n - 1 /\ c.pend
    BY <1>0, <1>5, <1>9, <2>1
  <2>3. Through(K, n) = Through(K - 1, n) + n /\ Through(K - 1, n) \in Nat
    BY <1>3, <1>6
  <2>4. L = Through(K - 1, n) + c.col + 1
    BY <1>0, <1>1, <1>9, <2>1, <2>2, <2>3
  <2> QED
    BY <2>2, <2>4 DEF K, L
<1>10. CASE d = K - 1
  <2>1. c.col = t /\ ~c.pend
    BY <1>0, <1>5, <1>10
  <2>2. Through(K - 1, n) \in Nat
    BY <1>3, <1>6
  <2>3. L = Through(K - 1, n) + c.col + 0
    BY <1>1, <1>10, <2>1, <2>2
  <2> QED
    BY <2>1, <2>3 DEF K, L
<1> QED
  BY <1>0, <1>7, <1>8, <1>9, <1>10

-----------------------------------------------------------------------------
(* Rows of a grid gathered into lines *)

\* What Logical::push_row makes of rows that have others below them.
Gathers(b, rows) == AppendTo(b, Onto(TRUE, DepartedRows(rows)))

\* Each row leaves as itself.
LEMMA DepartedEach ==
  ASSUME NEW n \in Nat, NEW x \in Seq(Width(n))
  PROVE  /\ DepartedRows(x) \in Seq(Gone) /\ Len(DepartedRows(x)) = Len(x)
         /\ \A i \in 1..Len(x) : DepartedRows(x)[i] = Departed(x[i])
<1>1. DepartedRows(x) \in Seq(Gone)
  BY DepartedType
<1>2. DepartedRows(x) = [i \in 1..Len(x) |-> Departed(x[i])] /\ Len(x) \in Nat
  BY DEF DepartedRows
<1>3. Len(DepartedRows(x)) = Len(x)
  BY <1>2
<1>4. \A i \in 1..Len(x) : DepartedRows(x)[i] = Departed(x[i])
  BY <1>2
<1> QED
  BY <1>1, <1>3, <1>4

\* Rows are gathered one after another.
LEMMA GathersSnoc ==
  ASSUME NEW n \in Nat, NEW b, NEW x \in Seq(Width(n)), NEW r \in Width(n)
  PROVE  /\ Gathers(b, << >>) = b
         /\ Gathers(b, Append(x, r)) =
              Inserted(Gathers(b, x), [text |-> LineCells(r), newline |-> ~r.wrapped])
<1> DEFINE d == Departed(r)
           g == DepartedRows(x)
           one == SentAs(TRUE, d)
<1>1. d \in Gone /\ g \in Seq(Gone)
  <2>1. d \in GoneAt(n)
    BY DepartedAt
  <2> QED
    BY <2>1, DepartedType DEF GoneAt
<1>2. DepartedRows(Append(x, r)) = Append(g, d) /\ DepartedRows(<< >>) = << >>
  <2>1. Len(x) \in Nat /\ Len(g) = Len(x) /\ \A i \in 1..Len(x) : g[i] = Departed(x[i])
    BY DepartedEach
  <2>2. Append(x, r) \in Seq(Width(n)) /\ Len(Append(x, r)) = Len(x) + 1
        /\ Append(x, r)[Len(x) + 1] = r /\ \A i \in 1..Len(x) : Append(x, r)[i] = x[i]
    OBVIOUS
  <2> DEFINE y == Append(x, r)
             p == DepartedRows(y)
             q == Append(g, d)
  <2>3. p \in Seq(Gone) /\ Len(p) = Len(x) + 1 /\ \A i \in 1 .. Len(x) + 1 : p[i] = Departed(y[i])
    <3>1. y \in Seq(Width(n)) /\ Len(y) = Len(x) + 1
      BY <2>2
    <3> HIDE DEF y
    <3> QED
      BY <2>1, <3>1, DepartedEach
  <2>4. q \in Seq(Gone) /\ Len(q) = Len(x) + 1 /\ q[Len(x) + 1] = d
        /\ \A i \in 1..Len(x) : q[i] = g[i]
    <3> HIDE DEF g, d
    <3> QED
      BY <1>1, <2>1
  <2>5. ASSUME NEW i \in 1 .. Len(x) + 1 PROVE p[i] = q[i]
    <3> HIDE DEF p, q, y
    <3>1. CASE i \in 1..Len(x)
      BY <2>1, <2>2, <2>3, <2>4, <3>1 DEF y
    <3>2. CASE i = Len(x) + 1
      BY <2>1, <2>2, <2>3, <2>4, <3>2 DEF y
    <3> QED
      BY <2>1, <3>1, <3>2
  <2>6. p = q
    <3> HIDE DEF p, q
    <3> QED
      BY <2>3, <2>4, <2>5, SameSeq
  <2>7. DepartedRows(<< >>) = << >>
    BY DEF DepartedRows
  <2> QED
    BY <2>6, <2>7
<1>3. one = [text |-> LineCells(r), newline |-> ~r.wrapped]
  <2>1. d.text = LineCells(r) /\ d.wrapped = r.wrapped
    BY DEF Departed
  <2> HIDE DEF d
  <2> QED
    BY <2>1 DEF SentAs
<1> HIDE DEF d, g
<1>4. /\ Onto(TRUE, << >>) = << >> /\ Onto(TRUE, g) \in Seq(Sent)
      /\ Onto(TRUE, Append(g, d)) = Append(Onto(TRUE, g), one)
  BY <1>1, OntoFacts
<1>5. one \in Sent
  BY <1>1, SentType
<1> DEFINE o == Onto(TRUE, g)
<1> HIDE DEF one, o
<1>6. /\ AppendTo(b, << >>) = b
      /\ AppendTo(b, Append(o, one)) = Inserted(AppendTo(b, o), one)
  <2>1. o \in Seq(Sent) /\ one \in Sent
    BY <1>4, <1>5 DEF o
  <2> QED
    BY ONLY <2>1, AppendSnoc
<1>7. Gathers(b, << >>) = b
  BY <1>2, <1>4, <1>6 DEF Gathers
<1>8. Gathers(b, Append(x, r)) = Inserted(Gathers(b, x), one)
  BY <1>2, <1>4, <1>6 DEF Gathers, o, g
<1> QED
  BY <1>3, <1>7, <1>8

\* And those of one batch before those of the next.
LEMMA GathersJoin ==
  ASSUME NEW n \in Nat, NEW b, NEW x \in Seq(Width(n)), NEW y \in Seq(Width(n))
  PROVE  Gathers(b, x \o y) = Gathers(Gathers(b, x), y)
<1> DEFINE p == DepartedRows(x)
           q == DepartedRows(y)
           z == x \o y
<1>1. p \in Seq(Gone) /\ q \in Seq(Gone) /\ Len(p) = Len(x) /\ Len(q) = Len(y)
      /\ (\A i \in 1..Len(x) : p[i] = Departed(x[i])) /\ (\A i \in 1..Len(y) : q[i] = Departed(y[i]))
  BY DepartedEach
<1>2. /\ z \in Seq(Width(n)) /\ Len(z) = Len(x) + Len(y) /\ Len(x) \in Nat /\ Len(y) \in Nat
      /\ (\A i \in 1..Len(x) : z[i] = x[i])
      /\ (\A i \in Len(x) + 1 .. Len(x) + Len(y) : z[i] = y[i - Len(x)])
  BY JoinedAt
<1> HIDE DEF z
<1>3. DepartedRows(z) \in Seq(Gone) /\ Len(DepartedRows(z)) = Len(x) + Len(y)
      /\ (\A i \in 1 .. Len(x) + Len(y) : DepartedRows(z)[i] = Departed(z[i]))
  <2>1. /\ DepartedRows(z) \in Seq(Gone) /\ Len(DepartedRows(z)) = Len(z)
        /\ \A i \in 1..Len(z) : DepartedRows(z)[i] = Departed(z[i])
    BY <1>2, DepartedEach
  <2> QED
    BY <1>2, <2>1
<1> HIDE DEF p, q
<1>4. /\ p \o q \in Seq(Gone) /\ Len(p \o q) = Len(p) + Len(q)
      /\ (\A i \in 1..Len(p) : (p \o q)[i] = p[i])
      /\ (\A i \in Len(p) + 1 .. Len(p) + Len(q) : (p \o q)[i] = q[i - Len(p)])
  <2>1. p \in Seq(Gone) /\ q \in Seq(Gone)
    BY <1>1
  <2> QED
    BY ONLY <2>1, JoinedAt
<1>5. DepartedRows(z) = p \o q
  <2> DEFINE u == DepartedRows(z)
             v == p \o q
  <2>1. ASSUME NEW i \in 1 .. Len(x) + Len(y) PROVE u[i] = v[i]
    <3>1. CASE i \in 1..Len(x)
      <4>1. u[i] = Departed(x[i])
        BY <1>2, <1>3, <3>1
      <4> QED
        BY <1>1, <1>4, <3>1, <4>1
    <3>2. CASE i \in Len(x) + 1 .. Len(x) + Len(y)
      <4>1. u[i] = Departed(y[i - Len(x)]) /\ i - Len(x) \in 1..Len(y)
        BY <1>2, <1>3, <3>2
      <4>2. v[i] = q[i - Len(x)]
        BY <1>1, <1>4, <3>2
      <4> QED
        BY <1>1, <4>1, <4>2
    <3>3. i \in 1..Len(x) \/ i \in Len(x) + 1 .. Len(x) + Len(y)
      BY <1>2
    <3> QED
      BY ONLY <3>1, <3>2, <3>3
  <2>2. u \in Seq(Gone) /\ v \in Seq(Gone) /\ Len(u) = Len(v) /\ Len(u) = Len(x) + Len(y)
    BY <1>1, <1>3, <1>4
  <2> HIDE DEF u, v
  <2>3. u = v
    BY <2>1, <2>2, SameSeq
  <2> QED
    BY <2>3 DEF u, v
<1> DEFINE a == Onto(TRUE, p)
           c == Onto(TRUE, q)
<1>6. a \in Seq(Sent) /\ c \in Seq(Sent) /\ Onto(TRUE, p \o q) = a \o c
  BY <1>1, OntoFacts
<1> HIDE DEF a, c
<1>7. AppendTo(b, a \o c) = AppendTo(AppendTo(b, a), c)
  BY <1>6, AppendBoth
<1> QED
  BY <1>5, <1>6, <1>7 DEF Gathers, a, c, p, q, z

\* The first elements of a sequence and those that follow them.
LEMMA TakeMore ==
  ASSUME NEW S, NEW x \in Seq(S), NEW t \in Nat, NEW c \in Nat, t + c <= Len(x),
         NEW y \in Seq(S), Len(y) = c, \A i \in 1..c : y[i] = x[t + i]
  PROVE  SubSeq(x, 1, t) \o y = SubSeq(x, 1, t + c)
<1>1. ASSUME NEW u \in Nat, u <= Len(x)
      PROVE  SubSeq(x, 1, u) \in Seq(S) /\ Len(SubSeq(x, 1, u)) = u
             /\ \A i \in 1..u : SubSeq(x, 1, u)[i] = x[i]
  BY <1>1
<1> DEFINE p == SubSeq(x, 1, t)
           z == SubSeq(x, 1, t + c)
<1>2. /\ p \in Seq(S) /\ Len(p) = t /\ (\A i \in 1..t : p[i] = x[i])
      /\ z \in Seq(S) /\ Len(z) = t + c /\ (\A i \in 1 .. t + c : z[i] = x[i])
  BY <1>1
<1> HIDE DEF p, z
<1>3. /\ p \o y \in Seq(S) /\ Len(p \o y) = t + c
      /\ (\A i \in 1..t : (p \o y)[i] = p[i])
      /\ (\A i \in t + 1 .. t + c : (p \o y)[i] = y[i - t])
  <2>1. /\ p \o y \in Seq(S) /\ Len(p \o y) = Len(p) + Len(y)
        /\ (\A i \in 1..Len(p) : (p \o y)[i] = p[i])
        /\ (\A i \in Len(p) + 1 .. Len(p) + Len(y) : (p \o y)[i] = y[i - Len(p)])
    BY ONLY <1>2, y \in Seq(S), JoinedAt
  <2> QED
    BY <1>2, <2>1
<1>4. ASSUME NEW i \in 1 .. t + c PROVE (p \o y)[i] = z[i]
  <2>1. CASE i \in 1..t
    BY <1>2, <1>3, <2>1
  <2>2. CASE i \in t + 1 .. t + c
    <3>1. i - t \in 1..c /\ t + (i - t) = i
      BY <2>2
    <3>2. y[i - t] = x[t + (i - t)]
      BY <3>1
    <3> QED
      BY <1>2, <1>3, <2>2, <3>1, <3>2
  <2>3. i \in 1..t \/ i \in t + 1 .. t + c
    OBVIOUS
  <2> QED
    BY ONLY <2>1, <2>2, <2>3
<1>5. p \o y = z
  BY <1>2, <1>3, <1>4, SameSeq
<1> QED
  BY <1>5 DEF p, z

\* A line with nothing on it, or one that does not end in a blank.
Solid(x) == x = << >> \/ x[Len(x)] # Blank

\* The first rows of a line gather to as much of it as they hold (Logical::push_row).
LEMMA GathersRows ==
  ASSUME NEW n \in Positive, NEW x \in Text, NEW ch, Chunked(n, x, ch), NEW v \in Seq(Text),
         NEW k \in 0 .. Len(ch) - 1
  PROVE  /\ Gathers(Append(v, << >>), SubSeq(ch, 1, k)) = Append(v, SubSeq(x, 1, Through(k, n)))
         /\ Through(k, n) \in 0..Len(x) /\ SubSeq(x, 1, Through(k, n)) \in Text
         /\ Len(SubSeq(x, 1, Through(k, n))) = Through(k, n)
<1> DEFINE K == Len(ch)
           L == Len(x)
           b == Append(v, << >>)
           Part1(j) == SubSeq(x, 1, Through(j, n))
           Good == {j \in Nat : j <= K - 1 => Gathers(b, SubSeq(ch, 1, j)) = Append(v, Part1(j))}
<1>0. /\ n \in Nat /\ n >= 1 /\ K \in Nat /\ K >= 1 /\ L \in Nat /\ ch \in Seq(Width(n))
      /\ Through(K - 1, n) <= L
  BY DEF Chunked, Positive, Text
<1>1. ASSUME NEW j \in Nat, j <= K - 1
      PROVE  Through(j, n) \in Nat /\ Through(j, n) <= L
             /\ Part1(j) \in Text /\ Len(Part1(j)) = Through(j, n)
             /\ \A i \in 1..Through(j, n) : Part1(j)[i] = x[i]
  <2>1. Through(j, n) \in Nat /\ Through(j, n) <= Through(K - 1, n) /\ Through(K - 1, n) \in Nat
    <3>1. K - 1 \in Nat
      BY <1>0
    <3> QED
      BY <1>1, <3>1, ThroughFacts
  <2>2. Through(j, n) \in 0..L
    BY <1>0, <2>1
  <2>3. ASSUME NEW t \in 0..L
        PROVE  SubSeq(x, 1, t) \in Text /\ Len(SubSeq(x, 1, t)) = t
               /\ \A i \in 1..t : SubSeq(x, 1, t)[i] = x[i]
    BY DEF Text
  <2> HIDE DEF L
  <2> QED
    BY <2>1, <2>2, <2>3
<1>2. 0 \in Good
  <2>1. SubSeq(ch, 1, 0) = << >>
    BY <1>0
  <2>2. Part1(0) = << >>
    <3>1. Through(0, n) = 0
      BY ThroughFacts
    <3>2. SubSeq(x, 1, 0) = << >>
      BY DEF Text
    <3> QED
      BY <3>1, <3>2
  <2>3. Gathers(b, << >>) = b
    <3>1. BlankRow(n) \in Width(n) /\ << >> \in Seq(Width(n))
      BY <1>0, BlankWidth
    <3> QED
      BY <1>0, <3>1, GathersSnoc
  <2> HIDE DEF Part1, K
  <2> QED
    BY <2>1, <2>2, <2>3
<1>3. ASSUME NEW j \in Good PROVE j + 1 \in Good
  <2> SUFFICES ASSUME j + 1 <= K - 1
               PROVE  Gathers(b, SubSeq(ch, 1, j + 1)) = Append(v, Part1(j + 1))
    OBVIOUS
  <2>1. j \in Nat /\ j + 1 \in Nat /\ j <= K - 1 /\ Gathers(b, SubSeq(ch, 1, j)) = Append(v, Part1(j))
    BY <1>0
  <2> DEFINE o == SubSeq(ch, 1, j)
             r == ch[j + 1]
             Z == Through(j, n)
  <2>2. o \in Seq(Width(n)) /\ r \in Width(n) /\ SubSeq(ch, 1, j + 1) = Append(o, r)
    <3>1. ASSUME NEW S, NEW q \in Seq(S), j + 1 \in 1..Len(q)
          PROVE  /\ SubSeq(q, 1, j) \in Seq(S) /\ q[j + 1] \in S
                 /\ SubSeq(q, 1, j + 1) = Append(SubSeq(q, 1, j), q[j + 1])
      BY <2>1, <3>1
    <3>2. j + 1 \in 1..Len(ch)
      BY <1>0, <2>1
    <3> QED
      BY <1>0, <3>1, <3>2
  <2>3. /\ r.wrapped /\ \A i \in 1..n : r.cells[i] = IF Z + i <= Len(x) THEN x[Z + i] ELSE Blank
    <3>1. j + 1 \in 1..Len(ch) /\ j + 1 < Len(ch) /\ (j + 1) - 1 = j
      BY <1>0, <2>1
    <3>2. Holds(n, x, Through((j + 1) - 1, n), ch[j + 1]) /\ ch[j + 1].wrapped
      BY <3>1 DEF Chunked
    <3> QED
      BY <3>1, <3>2 DEF Holds
  <2>4. LineCells(r) = r.cells /\ r.cells \in Text /\ Len(r.cells) = n
    <3> HIDE DEF r
    <3>1. r.cells \in Seq(Nat) /\ Len(r.cells) = n
      BY <2>2 DEF Width, Text
    <3>2. SubSeq(r.cells, 1, Len(r.cells)) = r.cells
      BY <3>1
    <3> QED
      BY <2>3, <3>1, <3>2 DEF LineCells, Text
  <2>5. Gathers(b, Append(o, r)) =
          Inserted(Gathers(b, o), [text |-> LineCells(r), newline |-> ~r.wrapped])
    <3> HIDE DEF o, r, b
    <3>1. n \in Nat /\ o \in Seq(Width(n)) /\ r \in Width(n)
      BY <1>0, <2>2
    <3> QED
      BY ONLY <3>1, GathersSnoc
  <2>6. /\ Z \in Nat /\ Z + n <= L /\ Through(j + 1, n) = Z + n
        /\ Part1(j) \in Text /\ Len(Part1(j)) = Z /\ (\A i \in 1..Z : Part1(j)[i] = x[i])
        /\ Part1(j + 1) \in Text /\ Len(Part1(j + 1)) = Z + n
        /\ (\A i \in 1 .. Z + n : Part1(j + 1)[i] = x[i])
    <3>1. Through(j + 1, n) = Z + n
      BY <2>1, ThroughFacts
    <3> HIDE DEF Part1
    <3> QED
      BY <1>1, <2>1, <3>1
  <2> DEFINE e == Part1(j)
             one == [text |-> LineCells(r), newline |-> ~r.wrapped]
  <2>7. e \o r.cells = Part1(j + 1)
    <3> DEFINE cs == r.cells
    <3>1. x \in Seq(Nat) /\ cs \in Seq(Nat) /\ Len(cs) = n /\ Z + n <= Len(x)
      BY <2>4, <2>6 DEF Text
    <3>2. \A i \in 1..n : cs[i] = x[Z + i]
      <4> SUFFICES ASSUME NEW i \in 1..n PROVE cs[i] = x[Z + i]
        OBVIOUS
      <4> HIDE DEF Z, r
      <4>1. Z + i <= Len(x)
        BY <1>0, <2>6, <3>1
      <4> QED
        BY <2>3, <4>1
    <3>3. Z \in Nat /\ n \in Nat
      BY <1>0, <2>6
    <3> HIDE DEF cs, Z
    <3>4. SubSeq(x, 1, Z) \o cs = SubSeq(x, 1, Z + n)
      BY ONLY <3>1, <3>2, <3>3, TakeMore, ZenonT(60)
    <3> QED
      BY <2>6, <3>4 DEF cs, Z
  <2>8. Inserted(Append(v, e), one) = Append(v, e \o r.cells)
    <3> HIDE DEF e, r
    <3>1. one.text = r.cells /\ ~one.newline
      BY <2>3, <2>4
    <3>2. e \o r.cells \in Text /\ e \in Text
      BY <2>4, <2>6, <2>7 DEF e
    <3> HIDE DEF one
    <3>3. e \o one.text \in Text
      BY <3>1, <3>2
    <3>4. Inserted(Append(v, e), one) = IF one.newline THEN Append(Append(v, e \o one.text), << >>)
                                        ELSE Append(v, e \o one.text)
      BY <3>2, <3>3, InsertedShape
    <3> QED
      BY <3>1, <3>4
  <2> HIDE DEF Part1, o, r, b
  <2> QED
    BY <2>1, <2>2, <2>5, <2>7, <2>8 DEF o
<1>4. Good \in SUBSET Nat
  OBVIOUS
<1> HIDE DEF Good
<1>5. Good = Nat
  BY <1>2, <1>3, <1>4, SetInduction
<1>6. k \in Good /\ k \in Nat /\ k <= K - 1
  BY <1>0, <1>5
<1>7. Gathers(b, SubSeq(ch, 1, k)) = Append(v, Part1(k))
  BY <1>6 DEF Good
<1> HIDE DEF Part1
<1>8. Through(k, n) \in 0..L /\ Part1(k) \in Text /\ Len(Part1(k)) = Through(k, n)
  BY <1>0, <1>1, <1>6
<1> QED
  BY <1>7, <1>8 DEF Part1

\* The last row of a line has what is left of it, down to its blanks (Row::content_len).
LastOf(n, x, t, r) ==
  /\ t \in 0..Len(x) /\ r \in Width(n) /\ ~r.wrapped
  /\ ContentLen(r) \in Nat /\ t + ContentLen(r) <= Len(x)
  /\ LineCells(r) \in Text
  /\ SubSeq(x, 1, t) \o LineCells(r) = SubSeq(x, 1, t + ContentLen(r))
  /\ \A i \in t + ContentLen(r) + 1 .. Len(x) : x[i] = Blank

LEMMA LastRow ==
  ASSUME NEW n \in Positive, NEW x \in Text, NEW ch, Chunked(n, x, ch)
  PROVE  LastOf(n, x, Through(Len(ch) - 1, n), ch[Len(ch)])
<1> DEFINE K == Len(ch)
           L == Len(x)
           Z == Through(K - 1, n)
           r == ch[K]
           c == ContentLen(r)
<1>0. /\ n \in Nat /\ n >= 1 /\ K \in Nat /\ K >= 1 /\ L \in Nat /\ ch \in Seq(Width(n))
      /\ Z <= L /\ L <= Through(K, n) /\ K \in 1..Len(ch)
  BY DEF Chunked, Positive, Text
<1>1. Z \in Nat /\ Through(K, n) = Z + n
  <2>1. K - 1 \in Nat /\ (K - 1) + 1 = K
    BY <1>0
  <2> QED
    BY <2>1, ThroughFacts
<1>2. r \in Width(n) /\ ~r.wrapped
      /\ \A i \in 1..n : r.cells[i] = IF Z + i <= Len(x) THEN x[Z + i] ELSE Blank
  BY <1>0 DEF Chunked, Holds
<1>3. r.cells \in Seq(Nat) /\ Len(r.cells) = n
  <2> HIDE DEF r
  <2> QED
    BY <1>2 DEF Width, Text
<1> HIDE DEF r, Z, K
<1> DEFINE j == L - Z
<1>4. j \in Nat /\ j <= n
  BY <1>0, <1>1
<1>5. c \in 0..n /\ \A i \in c + 1 .. n : r.cells[i] = Blank
  BY <1>0, <1>2, ContentWithin, ContentLast
<1>6. c <= j
  <2>1. \A i \in j + 1 .. n : r.cells[i] = Blank
    BY <1>0, <1>1, <1>2, <1>4
  <2> HIDE DEF j
  <2> QED
    BY <1>0, <1>2, <1>4, <2>1, ContentBefore
<1> HIDE DEF c
<1>7. Z + c <= L /\ c \in Nat
  BY <1>0, <1>1, <1>5, <1>6
<1> DEFINE y == LineCells(r)
<1>8. y \in Seq(Nat) /\ Len(y) = c /\ \A i \in 1..c : y[i] = r.cells[i]
  <2>1. y = SubSeq(r.cells, 1, c)
    BY <1>2 DEF LineCells, c
  <2> HIDE DEF y
  <2> QED
    BY <1>3, <1>5, <2>1
<1> HIDE DEF y
<1>9. \A i \in 1..c : y[i] = x[Z + i]
  <2> SUFFICES ASSUME NEW i \in 1..c PROVE y[i] = x[Z + i]
    OBVIOUS
  <2>1. i \in 1..n /\ Z + i <= Len(x)
    BY <1>0, <1>1, <1>5, <1>7
  <2> QED
    BY <1>2, <1>8, <2>1
<1>10. SubSeq(x, 1, Z) \o y = SubSeq(x, 1, Z + c)
  <2>1. x \in Seq(Nat) /\ Z + c <= Len(x)
    BY <1>7 DEF Text
  <2> QED
    BY ONLY <1>1, <1>7, <1>8, <1>9, <2>1, TakeMore
<1>11. ASSUME NEW i \in Z + c + 1 .. L PROVE x[i] = Blank
  <2>1. i - Z \in c + 1 .. n /\ i - Z \in 1..n /\ Z + (i - Z) = i /\ i <= Len(x)
    BY <1>0, <1>1, <1>5, <1>7
  <2> QED
    BY <1>2, <1>5, <2>1
<1>12. Z \in 0..L
  BY <1>0, <1>1
<1>13. LastOf(n, x, Z, r)
  BY <1>2, <1>7, <1>8, <1>10, <1>11, <1>12 DEF LastOf, Text, y, c
<1> QED
  BY <1>13 DEF Z, r, K

\* A line that does not end in blanks is gathered whole, and the next one opened.
LEMMA GathersLine ==
  ASSUME NEW n \in Positive, NEW x \in Text, NEW ch, Chunked(n, x, ch), NEW v \in Seq(Text), Solid(x)
  PROVE  Gathers(Append(v, << >>), ch) = Append(Append(v, x), << >>)
<1> DEFINE K == Len(ch)
           Z == Through(K - 1, n)
           r == ch[K]
           c == ContentLen(r)
           e == SubSeq(x, 1, Z)
           o == SubSeq(ch, 1, K - 1)
           b == Append(v, << >>)
           one == [text |-> LineCells(r), newline |-> ~r.wrapped]
<1>0. K \in Nat /\ K >= 1 /\ ch \in Seq(Width(n)) /\ K - 1 \in 0 .. Len(ch) - 1 /\ n \in Nat
  BY DEF Chunked, Positive
<1>1. LastOf(n, x, Z, r)
  BY LastRow
<1>2. /\ Z \in 0..Len(x) /\ r \in Width(n) /\ ~r.wrapped /\ c \in Nat /\ Z + c <= Len(x)
      /\ LineCells(r) \in Text /\ e \o LineCells(r) = SubSeq(x, 1, Z + c)
      /\ \A i \in Z + c + 1 .. Len(x) : x[i] = Blank
  BY <1>1 DEF LastOf
<1>3. Gathers(b, o) = Append(v, e) /\ e \in Text
  <2>1. K - 1 \in 0 .. Len(ch) - 1
    BY <1>0
  <2> HIDE DEF K
  <2> QED
    BY <2>1, GathersRows
<1>4. ch = Append(o, r) /\ o \in Seq(Width(n))
  <2>1. ASSUME NEW S, NEW q \in Seq(S), Len(q) >= 1
        PROVE  q = Append(SubSeq(q, 1, Len(q) - 1), q[Len(q)]) /\ SubSeq(q, 1, Len(q) - 1) \in Seq(S)
    BY <2>1
  <2> QED
    BY <1>0, <2>1
<1> HIDE DEF r, o, Z, K, c
<1>5. Z + c = Len(x)
  <2> SUFFICES ASSUME Z + c < Len(x) PROVE FALSE
    BY <1>2 DEF Text
  <2>1. Len(x) \in Z + c + 1 .. Len(x) /\ x # << >>
    BY <1>2 DEF Text
  <2>2. x[Len(x)] = Blank
    BY <1>2, <2>1
  <2> QED
    BY <2>1, <2>2 DEF Solid
<1>6. e \o LineCells(r) = x
  <2>1. SubSeq(x, 1, Len(x)) = x
    BY DEF Text
  <2> QED
    BY <1>2, <1>5, <2>1
<1>7. Gathers(b, Append(o, r)) = Inserted(Gathers(b, o), one)
  <2> HIDE DEF b
  <2> QED
    BY ONLY <1>0, <1>2, <1>4, GathersSnoc
<1>8. Inserted(Append(v, e), one) = Append(Append(v, x), << >>)
  <2>1. one.text = LineCells(r) /\ one.newline
    BY <1>2
  <2>2. e \o one.text = x
    BY <1>6, <2>1
  <2> HIDE DEF one, e
  <2>3. e \o one.text \in Text /\ e \in Text
    BY <1>3, <2>2
  <2>4. Inserted(Append(v, e), one) = IF one.newline THEN Append(Append(v, e \o one.text), << >>)
                                      ELSE Append(v, e \o one.text)
    BY <2>3, InsertedShape
  <2> QED
    BY <2>1, <2>2, <2>4
<1> HIDE DEF one, e, b
<1> QED
  BY <1>3, <1>4, <1>7, <1>8 DEF b

\* Lines that do not end in blanks.
AllSolid(w) == \A i \in 1..Len(w) : Solid(w[i])

\* Cut up and gathered again, lines that do not end in blanks are what they were.
GathersBack(n, w) == Gathers(Emptied, Relaid(w, n)) = Append(w, << >>)

LEMMA GathersLines ==
  ASSUME NEW n \in Positive, NEW w \in Seq(Text), AllSolid(w)
  PROVE  GathersBack(n, w)
<1> DEFINE Good == {z \in Seq(Text) : AllSolid(z) => GathersBack(n, z)}
<1>0. << >> \in Text /\ << >> \in Seq(Text) /\ n \in Nat
  BY DEF Text, Positive
<1>1. << >> \in Good
  <2>1. Relaid(<< >>, n) = << >>
    BY <1>0, RelaidSnoc
  <2>2. BlankRow(n) \in Width(n) /\ << >> \in Seq(Width(n))
    BY <1>0, BlankWidth
  <2>3. Gathers(Emptied, << >>) = Emptied
    BY <1>0, <2>2, GathersSnoc
  <2>4. Append(<< >>, << >>) = Emptied
    BY DEF Emptied
  <2> QED
    BY <1>0, <2>1, <2>3, <2>4 DEF GathersBack
<1>2. ASSUME NEW z \in Good, NEW e \in Text PROVE Append(z, e) \in Good
  <2>0. z \in Seq(Text) /\ (AllSolid(z) => GathersBack(n, z))
    OBVIOUS
  <2> HIDE DEF Good
  <2>1. Append(z, e) \in Seq(Text) /\ Len(Append(z, e)) = Len(z) + 1 /\ Append(z, e)[Len(z) + 1] = e
        /\ Len(z) \in Nat /\ \A i \in 1..Len(z) : Append(z, e)[i] = z[i]
    BY <2>0
  <2>2. ASSUME AllSolid(Append(z, e)) PROVE GathersBack(n, Append(z, e))
    <3>1. AllSolid(z) /\ Solid(e)
      <4>1. \A i \in 1 .. Len(z) + 1 : Solid(Append(z, e)[i])
        BY <2>1, <2>2 DEF AllSolid
      <4>2. ASSUME NEW i \in 1..Len(z) PROVE Solid(z[i])
        <5>1. i \in 1 .. Len(z) + 1
          BY <2>1
        <5> QED
          BY <2>1, <4>1, <5>1
      <4>3. Solid(e)
        <5>1. Len(z) + 1 \in 1 .. Len(z) + 1
          BY <2>1
        <5> QED
          BY <2>1, <4>1, <5>1
      <4> QED
        BY <4>2, <4>3 DEF AllSolid
    <3> DEFINE a == Relaid(z, n)
               ch == Chunk(e, n)
    <3>2. a \in Seq(Width(n)) /\ ch \in Seq(Width(n)) /\ Relaid(Append(z, e), n) = a \o ch
      BY <2>0, RelaidSnoc
    <3>3. Chunked(n, e, ch)
      BY ChunkFacts
    <3>4. Gathers(Emptied, a) = Append(z, << >>)
      BY <2>0, <3>1 DEF GathersBack
    <3> HIDE DEF a, ch
    <3>5. Gathers(Emptied, a \o ch) = Gathers(Gathers(Emptied, a), ch)
      BY <1>0, <3>2, GathersJoin
    <3>6. Gathers(Append(z, << >>), ch) = Append(Append(z, e), << >>)
      BY <2>0, <3>1, <3>3, GathersLine
    <3> QED
      BY <3>2, <3>4, <3>5, <3>6 DEF GathersBack
  <2> QED
    BY <2>1, <2>2 DEF Good
<1>3. Good \in SUBSET Seq(Text)
  OBVIOUS
<1> HIDE DEF Good
<1>4. Good = Seq(Text)
  BY <1>1, <1>2, <1>3, SnocInduction
<1>5. w \in Good
  BY <1>4
<1> QED
  BY <1>5 DEF Good

-----------------------------------------------------------------------------
(* The lines of a screen, and the screen that has them *)

\* The rows of a screen down to its cursor's are these lines cut up, w ended and e not, and
\* the cursor is at the end of e.
Spread(n, s, w, e) ==
  /\ w \in Seq(Text) /\ e \in Text /\ AllSolid(w)
  /\ SubSeq(s.rows, 1, s.row) = Relaid(Append(w, e), n)
  /\ Len(e) = Through(Len(Chunk(e, n)) - 1, n) + s.col + (IF s.pend THEN 1 ELSE 0)

LinesAt(w, e) == [lines |-> Append(w, e), at |-> Len(w) + 1, offset |-> Len(e)]

\* The rows above a tidy screen's cursor, as they are gathered.
LEMMA PiecesAbove ==
  ASSUME NEW n, NEW s, Tidy(n, s)
  PROVE  Pieces(s, s.row - 1) = Onto(TRUE, DepartedRows(Above1(s)))
<1> DEFINE k == s.row - 1
           x == Above1(s)
           p == Pieces(s, k)
           q == Onto(TRUE, DepartedRows(x))
<1>1. /\ Whole(n, s) /\ n \in Nat /\ s.rows \in Seq(Width(n)) /\ k \in Nat /\ k + 1 = s.row
      /\ Len(s.rows) \in Nat /\ s.row <= Len(s.rows)
  BY DEF Tidy, Whole, Screens, Positive
<1>2. x \in Seq(Width(n)) /\ Len(x) = k /\ \A i \in 1..k : x[i] = s.rows[i]
  <2>1. ASSUME NEW S, NEW z \in Seq(S), k <= Len(z)
        PROVE  SubSeq(z, 1, k) \in Seq(S) /\ Len(SubSeq(z, 1, k)) = k
               /\ \A i \in 1..k : SubSeq(z, 1, k)[i] = z[i]
    BY <1>1, <2>1
  <2> QED
    BY <1>1, <2>1 DEF Above1
<1>3. Used(s) = s.row
  BY TidyUsed
<1>4. /\ p \in Seq(Sent) /\ Len(p) = k
      /\ \A i \in 1..k : p[i] = [text |-> LineCells(s.rows[i]), newline |-> ~s.rows[i].wrapped /\ i < Used(s)]
  BY <1>1, PiecesFacts
<1> HIDE DEF x
<1>5. /\ DepartedRows(x) \in Seq(Gone) /\ Len(DepartedRows(x)) = k
      /\ \A i \in 1..k : DepartedRows(x)[i] = Departed(x[i])
  BY <1>1, <1>2, DepartedEach
<1>6. q \in Seq(Sent) /\ Len(q) = k /\ \A i \in 1..k : q[i] = SentAs(TRUE, Departed(x[i]))
  <2>1. /\ q \in Seq(Sent) /\ Len(q) = Len(DepartedRows(x))
        /\ \A i \in 1..Len(DepartedRows(x)) : q[i] = SentAs(TRUE, DepartedRows(x)[i])
    BY <1>5, OntoAt
  <2> HIDE DEF q
  <2> QED
    BY <1>5, <2>1
<1> HIDE DEF p, q, k
<1>7. ASSUME NEW i \in 1..k PROVE p[i] = q[i]
  <2> DEFINE r == s.rows[i]
  <2>1. i < Used(s)
    BY <1>1, <1>3
  <2>2. p[i] = [text |-> LineCells(r), newline |-> ~r.wrapped]
    BY <1>4, <2>1
  <2>3. q[i] = SentAs(TRUE, Departed(r))
    BY <1>2, <1>6
  <2> HIDE DEF r
  <2>4. SentAs(TRUE, Departed(r)) = [text |-> LineCells(r), newline |-> ~r.wrapped]
    BY DEF SentAs, Departed
  <2> QED
    BY <2>2, <2>3, <2>4
<1>8. p = q
  BY <1>4, <1>6, <1>7, SameSeq
<1> QED
  BY <1>8 DEF p, q, x, k

\* Where the last row of such a screen is, and what is above it.
SpreadOut(n, s, w, e, a, o, r) ==
  /\ a = Relaid(w, n) /\ a \in Seq(Width(n)) /\ o \in Seq(Width(n)) /\ r \in Width(n)
  /\ o = SubSeq(Chunk(e, n), 1, Len(Chunk(e, n)) - 1) /\ r = Chunk(e, n)[Len(Chunk(e, n))]
  /\ Above1(s) = a \o o /\ s.rows[s.row] = r

LEMMA SpreadRows ==
  ASSUME NEW n, NEW s, Whole(n, s), NEW w, NEW e, Spread(n, s, w, e)
  PROVE  \E a, o, r : SpreadOut(n, s, w, e, a, o, r)
<1> DEFINE a == Relaid(w, n)
           ch == Chunk(e, n)
           K == Len(ch)
           o == SubSeq(ch, 1, K - 1)
           r == ch[K]
           u == Above1(s)
           v == s.rows[s.row]
<1>0. n \in Positive /\ n \in Nat /\ w \in Seq(Text) /\ e \in Text
  BY DEF Whole, Positive, Spread
<1>1. a \in Seq(Width(n)) /\ ch \in Seq(Width(n)) /\ Relaid(Append(w, e), n) = a \o ch
  BY <1>0, RelaidSnoc
<1>2. Len(ch) >= 1
  BY <1>0, ChunkType
<1>3. o \in Seq(Width(n)) /\ r \in Width(n) /\ ch = Append(o, r)
  <2>1. ASSUME NEW S, NEW q \in Seq(S), Len(q) >= 1
        PROVE  /\ q = Append(SubSeq(q, 1, Len(q) - 1), q[Len(q)])
               /\ SubSeq(q, 1, Len(q) - 1) \in Seq(S) /\ q[Len(q)] \in S
    BY <2>1
  <2> HIDE DEF ch
  <2> QED
    BY <1>1, <1>2, <2>1
<1>4. SubSeq(s.rows, 1, s.row) = Append(u, v) /\ u \in Seq(Width(n)) /\ v \in Width(n)
  <2>1. 0 \in Int
    OBVIOUS
  <2> QED
    BY <2>1, BodyFacts
<1> HIDE DEF o, r, a, ch, u, v
<1>5. a \o Append(o, r) = Append(a \o o, r) /\ a \o o \in Seq(Width(n))
  BY <1>1, <1>3, SnocJoin
<1>6. Append(u, v) = Append(a \o o, r)
  BY <1>1, <1>3, <1>4, <1>5 DEF Spread
<1>7. u = a \o o /\ v = r
  <2>1. ASSUME NEW S, NEW x \in Seq(S), NEW y \in Seq(S), NEW c \in S, NEW d \in S,
               Append(x, c) = Append(y, d)
        PROVE  x = y /\ c = d
    <3>1. Len(Append(x, c)) = Len(x) + 1 /\ Append(x, c)[Len(x) + 1] = c
          /\ (\A i \in 1..Len(x) : Append(x, c)[i] = x[i]) /\ Len(x) \in Nat
      OBVIOUS
    <3>2. Len(Append(y, d)) = Len(y) + 1 /\ Append(y, d)[Len(y) + 1] = d
          /\ (\A i \in 1..Len(y) : Append(y, d)[i] = y[i]) /\ Len(y) \in Nat
      OBVIOUS
    <3>3. Len(x) = Len(y)
      BY <2>1, <3>1, <3>2
    <3>4. \A i \in 1..Len(x) : x[i] = y[i]
      BY <2>1, <3>1, <3>2, <3>3
    <3> QED
      BY <2>1, <3>1, <3>2, <3>3, <3>4, SameSeq
  <2> DEFINE z == a \o o
  <2>2. z \in Seq(Width(n)) /\ Append(u, v) = Append(z, r)
    BY <1>5, <1>6
  <2> HIDE DEF z
  <2>3. u = z /\ v = r
    BY <1>3, <1>4, <2>1, <2>2
  <2> QED
    BY <2>3 DEF z
<1>8. SpreadOut(n, s, w, e, a, o, r)
  BY <1>1, <1>3, <1>7 DEF SpreadOut, a, o, r, ch, u, v
<1> QED
  BY <1>8

\* The last element of a sequence replaced.
LEMMA LastReplaced ==
  ASSUME NEW S, NEW w \in Seq(S), NEW g \in S, NEW e \in S
  PROVE  [Append(w, g) EXCEPT ![Len(w) + 1] = e] = Append(w, e)
<1> DEFINE b == Append(w, g)
           k == Len(w) + 1
           new == [b EXCEPT ![k] = e]
           x == Append(w, e)
<1>1. b \in Seq(S) /\ Len(b) = k /\ k \in 1..Len(b) /\ Len(w) \in Nat /\ \A i \in 1..Len(w) : b[i] = w[i]
  OBVIOUS
<1>2. x \in Seq(S) /\ Len(x) = k /\ x[k] = e /\ \A i \in 1..Len(w) : x[i] = w[i]
  OBVIOUS
<1> HIDE DEF b, x
<1>3. k = Len(w) + 1
  OBVIOUS
<1> HIDE DEF k
<1>4. new \in Seq(S) /\ Len(new) = Len(b) /\ new[k] = e
      /\ \A i \in 1..Len(b) : i # k => new[i] = b[i]
  BY <1>1
<1> HIDE DEF new
<1>5. ASSUME NEW i \in 1..k PROVE new[i] = x[i]
  <2>1. CASE i = k
    BY <1>2, <1>4, <2>1
  <2>2. CASE i \in 1..Len(w)
    BY <1>1, <1>2, <1>3, <1>4, <2>2
  <2> QED
    BY <1>1, <1>3, <2>1, <2>2
<1>6. new = x
  BY <1>1, <1>2, <1>4, <1>5, SameSeq
<1> QED
  BY <1>6 DEF new, x, b, k

\* The lines of such a screen are gathered as they are, with the cursor at their end
\* (Screen::reflow).
LEMMA SpreadLines ==
  ASSUME NEW n, NEW s, Tidy(n, s), NEW w, NEW e, Spread(n, s, w, e)
  PROVE  LogicalLines(s) = LinesAt(w, e)
<1> DEFINE ch == Chunk(e, n)
           K == Len(ch)
           Z == Through(K - 1, n)
<1>0. /\ Whole(n, s) /\ n \in Positive /\ n \in Nat /\ w \in Seq(Text) /\ e \in Text /\ AllSolid(w)
      /\ s.row - 1 \in Nat /\ (s.row - 1) + 1 = s.row /\ s.row <= Len(s.rows)
      /\ s.col \in Nat /\ s.pend \in BOOLEAN
  BY DEF Tidy, Whole, Screens, Positive, Spread
<1>1. PICK a, o, r : SpreadOut(n, s, w, e, a, o, r)
  BY <1>0, SpreadRows
<1>2. /\ a = Relaid(w, n) /\ a \in Seq(Width(n)) /\ o \in Seq(Width(n)) /\ r \in Width(n)
      /\ o = SubSeq(ch, 1, K - 1) /\ r = ch[K] /\ Above1(s) = a \o o /\ s.rows[s.row] = r
  BY <1>1 DEF SpreadOut
<1>3. Chunked(n, e, ch) /\ K - 1 \in 0 .. Len(ch) - 1
  <2>1. Chunked(n, e, ch)
    BY <1>0, ChunkFacts
  <2> HIDE DEF ch
  <2> QED
    BY <2>1 DEF Chunked
<1>4. LastOf(n, e, Z, r)
  <2> HIDE DEF ch
  <2> QED
    BY <1>0, <1>2, <1>3, LastRow
<1> DEFINE p == SubSeq(e, 1, Z)
           c == ContentLen(r)
           g == SubSeq(e, 1, Z + c)
<1>5. /\ Z \in 0..Len(e) /\ ~r.wrapped /\ c \in Nat /\ Z + c <= Len(e) /\ LineCells(r) \in Text
      /\ p \o LineCells(r) = g /\ \A i \in Z + c + 1 .. Len(e) : e[i] = Blank
  BY <1>4 DEF LastOf
<1>6. p \in Text /\ Len(p) = Z /\ g \in Text /\ Len(g) = Z + c
  <2>1. ASSUME NEW t \in 0..Len(e) PROVE SubSeq(e, 1, t) \in Text /\ Len(SubSeq(e, 1, t)) = t
    BY <1>0 DEF Text
  <2>2. Z \in 0..Len(e) /\ Z + c \in 0..Len(e)
    <3>1. Len(e) \in Nat
      BY <1>0 DEF Text
    <3> HIDE DEF Z, c
    <3>2. Z \in 0..Len(e) /\ c \in Nat /\ Z + c <= Len(e)
      BY <1>5
    <3> QED
      BY ONLY <3>1, <3>2
  <2> HIDE DEF Z, c
  <2> QED
    BY <2>1, <2>2
<1>7. Gathers(Append(w, << >>), o) = Append(w, p)
  <2> HIDE DEF ch, K
  <2>1. Gathers(Append(w, << >>), SubSeq(ch, 1, K - 1)) = Append(w, SubSeq(e, 1, Through(K - 1, n)))
    BY <1>0, <1>3, GathersRows DEF K
  <2> QED
    BY <1>2, <2>1
<1> HIDE DEF ch, K, Z, p, c, g
<1>8. Gathers(Emptied, a) = Append(w, << >>)
  BY <1>0, <1>2, GathersLines DEF GathersBack
<1>9. AppendTo(Emptied, Pieces(s, s.row - 1)) = Append(w, p)
  <2>1. Gathers(Emptied, a \o o) = Gathers(Gathers(Emptied, a), o)
    BY <1>0, <1>2, GathersJoin
  <2>2. Pieces(s, s.row - 1) = Onto(TRUE, DepartedRows(a \o o))
    BY <1>2, PiecesAbove
  <2> QED
    BY <1>7, <1>8, <2>1, <2>2 DEF Gathers
<1>10. AppendTo(Emptied, Pieces(s, Used(s))) = Append(w, g)
  <2> DEFINE k == s.row - 1
             one == [text |-> LineCells(s.rows[k + 1]),
                     newline |-> ~s.rows[k + 1].wrapped /\ k + 1 < Used(s)]
             ps == Pieces(s, k)
  <2>1. Used(s) = s.row /\ k + 1 = s.row /\ k \in Nat /\ k + 1 <= Len(s.rows)
    BY <1>0, TidyUsed
  <2>2. ps \in Seq(Sent) /\ one \in Sent /\ Pieces(s, k + 1) = Append(ps, one)
    <3>1. Whole(n, s) /\ k \in Nat /\ k + 1 <= Len(s.rows)
      BY <1>0, <2>1
    <3> HIDE DEF k
    <3> QED
      BY ONLY <3>1, PiecesSnoc DEF ps, one
  <2>3. one.text = LineCells(r) /\ ~one.newline
    <3>1. s.rows[k + 1] = r
      BY <1>2, <2>1
    <3>2. ~(~s.rows[k + 1].wrapped /\ k + 1 < Used(s))
      <4>1. k + 1 = Used(s) /\ k + 1 \in Nat
        BY ONLY <2>1
      <4> QED
        BY <4>1
    <3>3. one.text = LineCells(s.rows[k + 1])
          /\ one.newline = (~s.rows[k + 1].wrapped /\ k + 1 < Used(s))
      OBVIOUS
    <3> HIDE DEF one, k
    <3> QED
      BY ONLY <3>1, <3>2, <3>3
  <2> HIDE DEF one, ps
  <2>4. AppendTo(Emptied, Append(ps, one)) = Inserted(AppendTo(Emptied, ps), one)
    BY ONLY <2>2, AppendSnoc
  <2>5. Inserted(Append(w, p), one) = Append(w, p \o one.text)
    <3>1. p \o one.text \in Text /\ p \in Text
      BY <1>5, <1>6, <2>3
    <3>2. Inserted(Append(w, p), one) = IF one.newline THEN Append(Append(w, p \o one.text), << >>)
                                        ELSE Append(w, p \o one.text)
      BY <1>0, <3>1, InsertedShape
    <3> QED
      BY <2>3, <3>2
  <2> QED
    BY <1>5, <1>9, <2>1, <2>2, <2>3, <2>4, <2>5 DEF ps
<1>11. PICK before, gathered, at, offset : Gathered(s, before, gathered, at, offset)
  BY <1>0, LogicalGathered
<1>12. /\ before = Append(w, p) /\ gathered = Append(w, g) /\ at = Len(before)
       /\ offset = Len(Last(before)) + s.col + (IF s.pend THEN 1 ELSE 0)
       /\ LogicalLines(s) =
            [lines |-> [gathered EXCEPT
                          ![at] = @ \o [k \in 1 .. Greatest(offset - Len(@), 0) |-> Blank]],
             at |-> at, offset |-> offset]
  BY <1>9, <1>10, <1>11 DEF Gathered
<1>13. at = Len(w) + 1 /\ Last(before) = p
  BY <1>0, <1>6, <1>12 DEF Last
<1>14. offset = Len(e)
  BY <1>6, <1>12, <1>13 DEF Spread, Z, K, ch
<1> DEFINE blanks == [k \in 1 .. Greatest(offset - Len(g), 0) |-> Blank]
<1>15. g \o blanks = e
  <2> DEFINE d == Len(e) - (Z + c)
             t == Z + c
  <2>1. d \in Nat /\ t \in Nat /\ t + d = Len(e) /\ e \in Seq(Nat)
    BY <1>0, <1>5 DEF Text
  <2>2. Greatest(offset - Len(g), 0) = d
    BY <1>6, <1>14, <2>1 DEF Greatest
  <2>3. blanks \in Seq(Nat) /\ Len(blanks) = d /\ \A i \in 1..d : blanks[i] = Blank
    BY <2>1, <2>2 DEF Blank
  <2>4. \A i \in 1..d : blanks[i] = e[t + i]
    <3> SUFFICES ASSUME NEW i \in 1..d PROVE blanks[i] = e[t + i]
      OBVIOUS
    <3>1. t + i \in Z + c + 1 .. Len(e)
      BY <2>1
    <3> HIDE DEF blanks, d
    <3> QED
      BY <1>5, <2>3, <3>1
  <2> HIDE DEF blanks, d, t
  <2>5. SubSeq(e, 1, t) \o blanks = SubSeq(e, 1, t + d)
    <3>1. t + d <= Len(e)
      BY <2>1
    <3> QED
      BY ONLY <2>1, <2>3, <2>4, <3>1, TakeMore
  <2>6. SubSeq(e, 1, Len(e)) = e
    BY <2>1
  <2> QED
    BY <2>1, <2>5, <2>6 DEF g, t
<1>16. [gathered EXCEPT ![at] = @ \o [k \in 1 .. Greatest(offset - Len(@), 0) |-> Blank]] = Append(w, e)
  <2>1. Append(w, g)[Len(w) + 1] = g /\ Append(w, g) \in Seq(Text) /\ Len(Append(w, g)) = Len(w) + 1
    BY <1>0, <1>6
  <2>2. [gathered EXCEPT ![at] = @ \o [k \in 1 .. Greatest(offset - Len(@), 0) |-> Blank]] =
          [Append(w, g) EXCEPT ![Len(w) + 1] = g \o blanks]
    BY <1>12, <1>13, <2>1
  <2> HIDE DEF blanks
  <2>3. [Append(w, g) EXCEPT ![Len(w) + 1] = e] = Append(w, e)
    BY <1>0, <1>6, LastReplaced
  <2> QED
    BY <1>15, <2>2, <2>3
<1> QED
  BY <1>12, <1>13, <1>14, <1>16 DEF LinesAt

-----------------------------------------------------------------------------
(* Which screens have lines *)

\* Rows that run on hold a line so far.
RunsOn(n, e, q) ==
  /\ e \in Text /\ q \in Seq(Width(n)) /\ Len(e) = Through(Len(q), n)
  /\ \A j \in 1..Len(q) : q[j].wrapped /\ Holds(n, e, Through(j - 1, n), q[j])

\* One more of them holds more of it.
LEMMA RunsMore ==
  ASSUME NEW n \in Positive, NEW e, NEW q, RunsOn(n, e, q), NEW r \in Width(n), r.wrapped
  PROVE  RunsOn(n, e \o r.cells, Append(q, r))
<1> DEFINE x == e \o r.cells
           p == Append(q, r)
           c == r.cells
<1>0. /\ n \in Nat /\ n >= 1 /\ e \in Text /\ q \in Seq(Width(n)) /\ Len(e) = Through(Len(q), n)
      /\ c \in Seq(Nat) /\ Len(c) = n /\ e \in Seq(Nat) /\ Len(q) \in Nat /\ Len(e) \in Nat
  BY DEF RunsOn, Positive, Text, Width
<1>1. /\ p \in Seq(Width(n)) /\ Len(p) = Len(q) + 1 /\ p[Len(q) + 1] = r
      /\ \A i \in 1..Len(q) : p[i] = q[i]
  BY <1>0
<1> HIDE DEF c
<1>2. /\ x \in Seq(Nat) /\ Len(x) = Len(e) + n /\ (\A i \in 1..Len(e) : x[i] = e[i])
      /\ \A i \in Len(e) + 1 .. Len(e) + n : x[i] = c[i - Len(e)]
  <2>1. /\ e \o c \in Seq(Nat) /\ Len(e \o c) = Len(e) + Len(c)
        /\ \A i \in 1..Len(e) : (e \o c)[i] = e[i]
        /\ \A i \in Len(e) + 1 .. Len(e) + Len(c) : (e \o c)[i] = c[i - Len(e)]
    BY ONLY <1>0, JoinedAt, Zenon
  <2>2. x = e \o c
    BY DEF c
  <2> QED
    BY ONLY <1>0, <2>1, <2>2, Zenon
<1> HIDE DEF x, p
<1>3. Through(Len(q) + 1, n) = Through(Len(q), n) + n /\ Through(Len(q), n) \in Nat
  BY <1>0, ThroughFacts
<1>4. ASSUME NEW j \in 1..Len(p) PROVE p[j].wrapped /\ Holds(n, x, Through(j - 1, n), p[j])
  <2>1. CASE j = Len(q) + 1
    <3>1. p[j] = r /\ Through(j - 1, n) = Len(e)
      BY <1>0, <1>1, <2>1
    <3>2. ASSUME NEW i \in 1..n
          PROVE  r.cells[i] = IF Len(e) + i <= Len(x) THEN x[Len(e) + i] ELSE Blank
      <4>1. Len(e) + i \in Len(e) + 1 .. Len(e) + n /\ (Len(e) + i) - Len(e) = i
        BY <1>0
      <4>2. x[Len(e) + i] = c[(Len(e) + i) - Len(e)]
        BY ONLY <1>2, <4>1
      <4>3. Len(e) + i <= Len(x)
        BY ONLY <1>0, <1>2, <4>1
      <4> QED
        BY ONLY <4>1, <4>2, <4>3 DEF c
    <3> QED
      BY <3>1, <3>2 DEF Holds
  <2>2. CASE j \in 1..Len(q)
    <3>1. p[j] = q[j] /\ q[j].wrapped /\ Holds(n, e, Through(j - 1, n), q[j])
      BY <1>1, <2>2 DEF RunsOn
    <3>2. Through(j - 1, n) \in Nat /\ Through(j - 1, n) + n <= Len(e)
      <4>1. j - 1 \in Nat /\ (j - 1) + 1 = j /\ j \in Nat /\ j <= Len(q)
        BY <1>0, <2>2
      <4>2. Through(j, n) <= Through(Len(q), n) /\ Through(j - 1, n) \in Nat
            /\ Through(j, n) = Through(j - 1, n) + n
        BY <1>0, <4>1, ThroughFacts
      <4> QED
        BY <1>0, <4>2
    <3> DEFINE t == Through(j - 1, n)
    <3> HIDE DEF t
    <3>3. ASSUME NEW i \in 1..n
          PROVE  q[j].cells[i] = IF t + i <= Len(x) THEN x[t + i] ELSE Blank
      <4>1. t + i \in 1..Len(e) /\ t + i <= Len(e) /\ t + i <= Len(x)
        <5>1. t \in Nat /\ t + n <= Len(e) /\ n \in Nat /\ Len(e) \in Nat /\ Len(e) <= Len(x)
              /\ Len(x) \in Nat
          BY <1>0, <1>2, <3>2 DEF t
        <5> QED
          BY ONLY <5>1, i \in 1..n
      <4>2. q[j].cells[i] = e[t + i]
        BY <3>1, <4>1 DEF Holds, t
      <4> QED
        BY <1>2, <4>1, <4>2
    <3> QED
      BY <3>1, <3>3 DEF Holds, t
  <2>3. j = Len(q) + 1 \/ j \in 1..Len(q)
    BY <1>0, <1>1
  <2> QED
    BY ONLY <2>1, <2>2, <2>3
<1> QED
  BY <1>0, <1>1, <1>2, <1>3, <1>4 DEF RunsOn, Text, x, p

\* What ends with a row of which c columns are of it, the others being blank.
Ends(n, e, q, r, c, x) ==
  /\ x \in Text /\ x = e \o SubSeq(r.cells, 1, c) /\ Chunk(x, n) = Append(q, r)
  /\ Len(x) = Through(Len(q), n) + c /\ (c > 0 => x[Len(x)] = r.cells[c])

\* A row that does not run on ends its line.
LEMMA RunsEnd ==
  ASSUME NEW n \in Positive, NEW e, NEW q, RunsOn(n, e, q), NEW r \in Width(n), ~r.wrapped,
         NEW c \in 0..n, BlankFrom(c + 1, n, r), Len(q) = 0 \/ c > 0,
         NEW x, x = e \o SubSeq(r.cells, 1, c)
  PROVE  Ends(n, e, q, r, c, x)
<1> DEFINE z == SubSeq(r.cells, 1, c)
           p == Append(q, r)
<1>0. /\ n \in Nat /\ n >= 1 /\ e \in Text /\ q \in Seq(Width(n)) /\ Len(e) = Through(Len(q), n)
      /\ r.cells \in Seq(Nat) /\ Len(r.cells) = n /\ e \in Seq(Nat) /\ Len(q) \in Nat /\ Len(e) \in Nat
      /\ c \in Nat /\ c <= n
  BY DEF RunsOn, Positive, Text, Width
<1>1. /\ p \in Seq(Width(n)) /\ Len(p) = Len(q) + 1 /\ p[Len(q) + 1] = r
      /\ \A i \in 1..Len(q) : p[i] = q[i]
  BY <1>0
<1>2. z \in Seq(Nat) /\ Len(z) = c /\ \A i \in 1..c : z[i] = r.cells[i]
  <2> DEFINE y == r.cells
  <2>1. y \in Seq(Nat) /\ c \in 0..Len(y)
    BY <1>0
  <2> HIDE DEF y
  <2>2. SubSeq(y, 1, c) \in Seq(Nat) /\ Len(SubSeq(y, 1, c)) = c
        /\ \A i \in 1..c : SubSeq(y, 1, c)[i] = y[i]
    BY ONLY <2>1, SplitSeq
  <2> QED
    BY ONLY <2>2 DEF y
<1> HIDE DEF z, p
<1>3. /\ x \in Seq(Nat) /\ Len(x) = Len(e) + c /\ (\A i \in 1..Len(e) : x[i] = e[i])
      /\ \A i \in Len(e) + 1 .. Len(e) + c : x[i] = z[i - Len(e)]
  <2>1. x = e \o z
    BY DEF z
  <2>2. /\ e \o z \in Seq(Nat) /\ Len(e \o z) = Len(e) + Len(z)
        /\ (\A i \in 1..Len(e) : (e \o z)[i] = e[i])
        /\ \A i \in Len(e) + 1 .. Len(e) + Len(z) : (e \o z)[i] = z[i - Len(e)]
    BY ONLY <1>0, <1>2, JoinedAt
  <2>3. Len(z) = c
    BY <1>2
  <2> QED
    BY ONLY <2>1, <2>2, <2>3
<1>4. Through(Len(q) + 1, n) = Through(Len(q), n) + n /\ Through(Len(q), n) \in Nat
  BY <1>0, ThroughFacts
<1>5. ASSUME NEW j \in 1..Len(p)
      PROVE  Holds(n, x, Through(j - 1, n), p[j]) /\ (p[j].wrapped <=> j < Len(p))
  <2>1. CASE j = Len(q) + 1
    <3>1. p[j] = r /\ Through(j - 1, n) = Len(e) /\ ~(j < Len(p))
      BY <1>0, <1>1, <2>1
    <3>2. ASSUME NEW i \in 1..n
          PROVE  r.cells[i] = IF Len(e) + i <= Len(x) THEN x[Len(e) + i] ELSE Blank
      <4>1. CASE i <= c
        <5>1. Len(e) + i \in Len(e) + 1 .. Len(e) + c /\ (Len(e) + i) - Len(e) = i /\ i \in 1..c
          BY <1>0, <4>1
        <5>2. x[Len(e) + i] = z[(Len(e) + i) - Len(e)]
          BY ONLY <1>3, <5>1
        <5>3. z[i] = r.cells[i]
          BY ONLY <1>2, <5>1
        <5>4. Len(e) + i <= Len(x)
          BY ONLY <1>0, <1>3, <5>1
        <5> QED
          BY ONLY <5>1, <5>2, <5>3, <5>4
      <4>2. CASE c + 1 <= i
        <5>1. i \in c + 1 .. n /\ ~(Len(e) + i <= Len(x))
          BY <1>0, <1>3, <4>2
        <5> QED
          BY <5>1 DEF BlankFrom
      <4> QED
        BY <1>0, <4>1, <4>2
    <3> QED
      BY <3>1, <3>2 DEF Holds
  <2>2. CASE j \in 1..Len(q)
    <3>1. p[j] = q[j] /\ q[j].wrapped /\ Holds(n, e, Through(j - 1, n), q[j]) /\ j < Len(p)
      BY <1>0, <1>1, <2>2 DEF RunsOn
    <3>2. Through(j - 1, n) \in Nat /\ Through(j - 1, n) + n <= Len(e)
      <4>1. j - 1 \in Nat /\ (j - 1) + 1 = j /\ j \in Nat /\ j <= Len(q)
        BY <1>0, <2>2
      <4>2. Through(j, n) <= Through(Len(q), n) /\ Through(j - 1, n) \in Nat
            /\ Through(j, n) = Through(j - 1, n) + n
        BY <1>0, <4>1, ThroughFacts
      <4> QED
        BY <1>0, <4>2
    <3> DEFINE t == Through(j - 1, n)
    <3> HIDE DEF t
    <3>3. ASSUME NEW i \in 1..n
          PROVE  q[j].cells[i] = IF t + i <= Len(x) THEN x[t + i] ELSE Blank
      <4>1. t + i \in 1..Len(e) /\ t + i <= Len(e) /\ t + i <= Len(x)
        <5>1. t \in Nat /\ t + n <= Len(e) /\ n \in Nat /\ Len(e) \in Nat /\ Len(e) <= Len(x)
              /\ Len(x) \in Nat
          <6>1. Len(e) <= Len(x) /\ Len(x) \in Nat
            BY ONLY <1>0, <1>3
          <6> QED
            BY ONLY <1>0, <3>2, <6>1 DEF t
        <5> QED
          BY ONLY <5>1, i \in 1..n
      <4>2. q[j].cells[i] = e[t + i]
        BY <3>1, <4>1 DEF Holds, t
      <4> QED
        BY <1>3, <4>1, <4>2
    <3> QED
      BY <3>1, <3>3 DEF Holds, t
  <2>3. j = Len(q) + 1 \/ j \in 1..Len(q)
    BY <1>0, <1>1
  <2> QED
    BY ONLY <2>1, <2>2, <2>3
<1>6. Len(p) - 1 = Len(q) /\ Len(p) >= 1
  BY <1>0, <1>1
<1>7. Chunked(n, x, p)
  <2>1. Through(Len(p) - 1, n) <= Len(x) /\ Len(x) <= Through(Len(p), n)
    BY <1>0, <1>1, <1>3, <1>4, <1>6
  <2> QED
    BY <1>1, <1>5, <1>6, <2>1 DEF Chunked
<1>8. Filled(n, x, p)
  <2>1. CASE Len(q) = 0
    BY <1>1, <2>1 DEF Filled
  <2>2. CASE c > 0
    BY <1>0, <1>3, <1>6, <2>2 DEF Filled
  <2> QED
    BY <2>1, <2>2
<1>9. Chunk(x, n) = p
  <2>1. x \in Text
    BY <1>3 DEF Text
  <2>2. Chunked(n, x, Chunk(x, n)) /\ Filled(n, x, Chunk(x, n))
    BY <2>1, ChunkFacts, ChunkFilled
  <2> QED
    BY <1>7, <1>8, <2>1, <2>2, ChunkOnly
<1>10. ASSUME c > 0 PROVE x[Len(x)] = r.cells[c]
  <2>1. Len(x) \in Len(e) + 1 .. Len(e) + c /\ Len(x) - Len(e) = c /\ c \in 1..c
    BY <1>0, <1>3, <1>10
  <2> QED
    BY <1>2, <1>3, <2>1
<1> QED
  BY <1>0, <1>3, <1>9, <1>10 DEF Ends, Text, p

\* The first k rows of a grid are these lines cut up, and some of the next.
CutUp(n, rows, k, w, e, q) ==
  /\ w \in Seq(Text) /\ AllSolid(w) /\ RunsOn(n, e, q)
  /\ SubSeq(rows, 1, k) = Relaid(w, n) \o q
  /\ Len(q) > 0 => k > 0 /\ rows[k].wrapped

\* Above the cursor, every row is one of a line's, and no line's last is all blanks.
CutsUp(n, rows, k) == \E w, e, q : CutUp(n, rows, k, w, e, q)

\* One more line, with nothing or something but a blank at its end.
LEMMA SolidMore ==
  ASSUME NEW w \in Seq(Text), AllSolid(w), NEW e \in Text, Solid(e)
  PROVE  Append(w, e) \in Seq(Text) /\ AllSolid(Append(w, e))
<1>1. Append(w, e) \in Seq(Text) /\ Len(Append(w, e)) = Len(w) + 1 /\ Append(w, e)[Len(w) + 1] = e
      /\ Len(w) \in Nat /\ \A i \in 1..Len(w) : Append(w, e)[i] = w[i]
  OBVIOUS
<1>2. ASSUME NEW i \in 1..Len(Append(w, e)) PROVE Solid(Append(w, e)[i])
  <2>1. CASE i = Len(w) + 1
    BY <1>1, <2>1
  <2>2. CASE i \in 1..Len(w)
    BY <1>1, <2>2 DEF AllSolid
  <2>3. i = Len(w) + 1 \/ i \in 1..Len(w)
    BY <1>1
  <2> QED
    BY ONLY <2>1, <2>2, <2>3
<1> QED
  BY <1>1, <1>2 DEF AllSolid

\* The next row runs on, or ends a line.
LEMMA CutMore ==
  ASSUME NEW n \in Positive, NEW rows \in Seq(Width(n)), NEW k \in Nat, k + 1 <= Len(rows),
         k > 0 /\ rows[k].wrapped /\ ~rows[k + 1].wrapped => HasText(rows[k + 1]),
         CutsUp(n, rows, k)
  PROVE  CutsUp(n, rows, k + 1)
<1> DEFINE r == rows[k + 1]
<1>0. n \in Nat /\ r \in Width(n) /\ k + 1 \in Nat
  BY DEF Positive
<1>1. PICK w, e, q : CutUp(n, rows, k, w, e, q)
  BY DEF CutsUp
<1>2. /\ w \in Seq(Text) /\ AllSolid(w) /\ RunsOn(n, e, q) /\ q \in Seq(Width(n)) /\ e \in Text
      /\ SubSeq(rows, 1, k) = Relaid(w, n) \o q
      /\ (Len(q) > 0 => k > 0 /\ rows[k].wrapped) /\ Len(q) \in Nat
  BY <1>1 DEF CutUp, RunsOn
<1>3. SubSeq(rows, 1, k + 1) = Append(SubSeq(rows, 1, k), r)
  <2>1. k + 1 \in 1..Len(rows) /\ (k + 1) - 1 = k
    OBVIOUS
  <2>2. SubSeq(rows, 1, k + 1) = Append(SubSeq(rows, 1, (k + 1) - 1), rows[k + 1])
    BY ONLY <2>1, rows \in Seq(Width(n)), OneMore
  <2> QED
    BY <2>1, <2>2
<1>4. Relaid(w, n) \in Seq(Width(n))
  BY <1>2, RelaidSnoc
<1>5. SubSeq(rows, 1, k + 1) = Relaid(w, n) \o Append(q, r)
  <2> DEFINE a == Relaid(w, n)
  <2> HIDE DEF a, r
  <2>0. a \in Seq(Width(n)) /\ q \in Seq(Width(n)) /\ r \in Width(n)
    BY <1>0, <1>2, <1>4 DEF a, r
  <2>1. /\ Append(q, r) \in Seq(Width(n)) /\ a \o q \in Seq(Width(n))
        /\ a \o Append(q, r) = Append(a \o q, r)
    BY ONLY <2>0, SnocJoin
  <2> QED
    BY <1>2, <1>3, <2>1 DEF a
<1> HIDE DEF r
<1>6. CASE r.wrapped
  <2>1. RunsOn(n, e \o r.cells, Append(q, r))
    BY <1>0, <1>2, <1>6, RunsMore
  <2>2. CutUp(n, rows, k + 1, w, e \o r.cells, Append(q, r))
    <3>1. /\ w \in Seq(Text) /\ AllSolid(w)
          /\ SubSeq(rows, 1, k + 1) = Relaid(w, n) \o Append(q, r)
      BY <1>2, <1>5
    <3>2. k + 1 > 0 /\ rows[k + 1].wrapped
      BY <1>6 DEF r
    <3> QED
      BY ONLY <2>1, <3>1, <3>2 DEF CutUp
  <2> QED
    BY <2>2 DEF CutsUp
<1>7. CASE ~r.wrapped
  <2> DEFINE c == ContentLen(r)
             x == e \o SubSeq(r.cells, 1, c)
  <2>1. c \in 0..n
    BY <1>0, ContentWithin
  <2>2. BlankFrom(c + 1, n, r)
    BY <1>0, ContentLast DEF BlankFrom
  <2>3. c > 0 => r.cells[c] # Blank
    <3>1. c \in {0} \cup {i \in DOMAIN r.cells : r.cells[i] # Blank}
      <4>1. DOMAIN r.cells = 1..n
        BY <1>0 DEF Width, Text
      <4>2. {0} \cup {i \in DOMAIN r.cells : r.cells[i] # Blank} \in SUBSET (0..n)
        BY <1>0, <4>1
      <4> QED
        BY <1>0, <4>2, MaxBound DEF ContentLen
    <3> HIDE DEF c
    <3> QED
      BY <3>1
  <2>4. HasText(r) => c > 0
    <3> SUFFICES ASSUME HasText(r), c = 0 PROVE FALSE
      BY <2>1
    <3>1. PICK i \in DOMAIN r.cells : r.cells[i] # Blank
      BY DEF HasText
    <3>2. i \in 1..n
      <4>1. DOMAIN r.cells = 1..n
        BY <1>0 DEF Width, Text
      <4> QED
        BY ONLY <3>1, <4>1
    <3>3. i \in c + 1 .. n
      BY <3>2
    <3> QED
      BY <2>2, <3>1, <3>3 DEF BlankFrom
  <2> HIDE DEF c
  <2>5. Len(q) = 0 \/ c > 0
    BY <1>2, <1>7, <2>4 DEF r
  <2>6. Ends(n, e, q, r, c, x)
    BY <1>0, <1>2, <1>7, <2>1, <2>2, <2>5, RunsEnd
  <2> HIDE DEF x
  <2>7. x \in Text /\ Chunk(x, n) = Append(q, r) /\ Len(x) = Through(Len(q), n) + c
        /\ (c > 0 => x[Len(x)] = r.cells[c])
    BY <2>6 DEF Ends
  <2>8. Solid(x)
    <3>1. CASE c > 0
      BY <2>3, <2>7, <3>1 DEF Solid
    <3>2. CASE c = 0 /\ Len(q) = 0
      <4>1. Through(0, n) = 0
        BY ThroughFacts
      <4>2. Len(x) = 0
        BY <2>7, <3>2, <4>1
      <4>3. x = << >>
        BY <2>7, <4>2 DEF Text
      <4> QED
        BY <4>3 DEF Solid
    <3> QED
      BY <2>1, <2>5, <3>1, <3>2
  <2>9. Append(w, x) \in Seq(Text) /\ AllSolid(Append(w, x))
    BY <1>2, <2>7, <2>8, SolidMore
  <2>10. RunsOn(n, << >>, << >>)
    BY ThroughFacts DEF RunsOn, Text
  <2>11. SubSeq(rows, 1, k + 1) = Relaid(Append(w, x), n) \o << >>
    <3>1. Relaid(Append(w, x), n) = Relaid(w, n) \o Append(q, r) /\ Relaid(Append(w, x), n) \in Seq(Width(n))
      BY <1>2, <2>7, <2>9, RelaidSnoc
    <3>2. ASSUME NEW y \in Seq(Width(n)) PROVE y \o << >> = y
      OBVIOUS
    <3> QED
      BY <1>5, <3>1, <3>2
  <2>12. CutUp(n, rows, k + 1, Append(w, x), << >>, << >>)
    BY <2>9, <2>10, <2>11 DEF CutUp
  <2> QED
    BY <2>12 DEF CutsUp
<1> QED
  BY <1>6, <1>7

\* The cursor's row, if a line runs on to it, has something of it.
Started(s) == s.row > 1 /\ s.rows[s.row - 1].wrapped => s.col > 0 \/ s.pend

\* A tidy screen has lines.
LEMMA Decompose ==
  ASSUME NEW n, NEW s, Tidy(n, s), Started(s), TailsDrawn(s)
  PROVE  \E w, e : Spread(n, s, w, e)
<1> DEFINE rows == s.rows
           k == s.row - 1
           r == s.rows[s.row]
           c == s.col + (IF s.pend THEN 1 ELSE 0)
<1>0. /\ Whole(n, s) /\ n \in Positive /\ n \in Nat /\ n >= 1 /\ rows \in Seq(Width(n)) /\ k \in Nat
      /\ k + 1 = s.row /\ s.row <= Len(rows) /\ s.row \in Nat /\ Len(rows) \in Nat
      /\ s.col \in 0 .. n - 1 /\ s.pend \in BOOLEAN /\ r \in Width(n)
  BY DEF Tidy, Whole, Screens, Positive
<1>1. CutsUp(n, rows, 0)
  <2>1. SubSeq(rows, 1, 0) = << >> /\ << >> \in Seq(Text) /\ AllSolid(<< >>)
    BY <1>0 DEF AllSolid
  <2>2. RunsOn(n, << >>, << >>)
    BY <1>0, ThroughFacts DEF RunsOn, Text
  <2>3. << >> \in Text
    BY DEF Text
  <2>4. Relaid(<< >>, n) = << >>
    BY <1>0, <2>1, <2>3, RelaidSnoc
  <2>5. << >> \o << >> = << >> /\ ~(Len(<< >>) > 0)
    OBVIOUS
  <2> HIDE DEF rows, k
  <2>6. CutUp(n, rows, 0, << >>, << >>, << >>)
    BY ONLY <2>1, <2>2, <2>4, <2>5 DEF CutUp
  <2> QED
    BY <2>6 DEF CutsUp
<1>2. \A j \in Nat : j <= k => CutsUp(n, rows, j)
  <2> DEFINE Good == {j \in Nat : j <= k => CutsUp(n, rows, j)}
  <2>1. 0 \in Good
    BY <1>1
  <2>2. ASSUME NEW j \in Good PROVE j + 1 \in Good
    <3> SUFFICES ASSUME j + 1 <= k PROVE CutsUp(n, rows, j + 1)
      OBVIOUS
    <3> HIDE DEF k
    <3>1. j \in Nat /\ j <= k /\ CutsUp(n, rows, j)
      BY <1>0
    <3>2. ASSUME j > 0, rows[j].wrapped, ~rows[j + 1].wrapped PROVE HasText(rows[j + 1])
      <4>1. j + 1 \in 2 .. s.row - 1 /\ (j + 1) - 1 = j
        BY <1>0, <3>1, <3>2
      <4> QED
        BY <3>2, <4>1 DEF TailsDrawn
    <3>3. j + 1 <= Len(rows)
      BY <1>0, <3>1
    <3> HIDE DEF rows, Good
    <3> QED
      BY <1>0, <3>1, <3>2, <3>3, CutMore
  <2>3. Good \in SUBSET Nat
    OBVIOUS
  <2> HIDE DEF Good
  <2>4. Good = Nat
    BY <2>1, <2>2, <2>3, SetInduction
  <2> QED
    BY <2>4 DEF Good
<1>3. PICK w, e, q : CutUp(n, rows, k, w, e, q)
  <2>1. CutsUp(n, rows, k)
    BY <1>0, <1>2
  <2> QED
    BY <2>1 DEF CutsUp
<1>4. /\ w \in Seq(Text) /\ AllSolid(w) /\ RunsOn(n, e, q) /\ q \in Seq(Width(n)) /\ e \in Text
      /\ SubSeq(rows, 1, k) = Relaid(w, n) \o q
      /\ (Len(q) > 0 => k > 0 /\ rows[k].wrapped) /\ Len(q) \in Nat
  <2> HIDE DEF rows, k
  <2>1. w \in Seq(Text) /\ AllSolid(w) /\ RunsOn(n, e, q)
        /\ SubSeq(rows, 1, k) = Relaid(w, n) \o q /\ (Len(q) > 0 => k > 0 /\ rows[k].wrapped)
    BY ONLY <1>3 DEF CutUp
  <2>2. q \in Seq(Width(n)) /\ e \in Text
    BY ONLY <2>1 DEF RunsOn
  <2>3. Len(q) \in Nat
    BY ONLY <2>2
  <2> QED
    BY ONLY <2>1, <2>2, <2>3
<1>5. c \in 0..n /\ BlankFrom(c + 1, n, r) /\ ~r.wrapped
  <2>1. c \in 0..n
    BY <1>0 DEF Tidy
  <2>2. c + 1 = s.col + (IF s.pend THEN 2 ELSE 1)
    BY <1>0
  <2>3. \A i \in s.col + (IF s.pend THEN 2 ELSE 1) .. n : r.cells[i] = Blank
    BY DEF Tidy
  <2>4. ~r.wrapped
    BY DEF Tidy
  <2> HIDE DEF c, r
  <2>5. BlankFrom(c + 1, n, r)
    BY <2>2, <2>3 DEF BlankFrom
  <2> QED
    BY <2>1, <2>4, <2>5
<1>6. Len(q) = 0 \/ c > 0
  <2> SUFFICES ASSUME Len(q) > 0 PROVE c > 0
    BY <1>4
  <2>1. s.row > 1 /\ s.rows[s.row - 1].wrapped
    BY <1>0, <1>4
  <2>2. s.col > 0 \/ s.pend
    BY <2>1 DEF Started
  <2> QED
    BY <1>0, <2>2
<1> DEFINE x == e \o SubSeq(r.cells, 1, c)
<1>7. SubSeq(rows, 1, s.row) = Append(SubSeq(rows, 1, k), r)
  <2>1. s.row \in 1..Len(rows)
    BY <1>0
  <2> QED
    BY <1>0, <2>1, OneMore
<1> HIDE DEF c, r, k, rows
<1>8. Ends(n, e, q, r, c, x)
  BY <1>0, <1>4, <1>5, <1>6, RunsEnd
<1> HIDE DEF x
<1>9. x \in Text /\ Chunk(x, n) = Append(q, r) /\ Len(x) = Through(Len(q), n) + c
  BY <1>8 DEF Ends
<1>10. SubSeq(rows, 1, s.row) = Relaid(Append(w, x), n)
  <2> DEFINE a == Relaid(w, n)
  <2>1. a \in Seq(Width(n)) /\ Relaid(Append(w, x), n) = a \o Append(q, r)
    BY <1>0, <1>4, <1>9, RelaidSnoc
  <2> HIDE DEF a
  <2>3. a \in Seq(Width(n)) /\ q \in Seq(Width(n)) /\ r \in Width(n)
    BY ONLY <1>0, <1>4, <2>1
  <2>2. a \o Append(q, r) = Append(a \o q, r)
    BY ONLY <2>3, SnocJoin
  <2> QED
    BY <1>4, <1>7, <2>1, <2>2 DEF a
<1>11. Len(Append(q, r)) - 1 = Len(q)
  BY <1>0, <1>4
<1>12. Len(x) = Through(Len(Chunk(x, n)) - 1, n) + s.col + (IF s.pend THEN 1 ELSE 0)
  <2>1. Through(Len(q), n) \in Nat /\ s.col \in Nat
    BY <1>0, <1>4, ThroughFacts
  <2> QED
    BY <1>0, <1>9, <1>11, <2>1 DEF c
<1>13. Spread(n, s, w, x)
  BY <1>4, <1>9, <1>10, <1>12 DEF Spread, rows
<1> QED
  BY <1>13

-----------------------------------------------------------------------------
(* Lines rewrapped whole *)

\* The lines a screen has, as the rewrap has them.
LEMMA LinesAtFacts ==
  ASSUME NEW w \in Seq(Text), NEW e \in Text, NEW l, l = LinesAt(w, e)
  PROVE  /\ l.lines = Append(w, e) /\ l.at = Len(w) + 1 /\ l.offset = Len(e)
         /\ Lined(l) /\ AtEnd(l) /\ l.lines # << >> /\ Len(l.lines) >= 1
<1>1. l.lines = Append(w, e) /\ l.at = Len(w) + 1 /\ l.offset = Len(e)
  BY DEF LinesAt
<1>2. /\ Append(w, e) \in Seq(Text) /\ Len(Append(w, e)) = Len(w) + 1 /\ Append(w, e)[Len(w) + 1] = e
      /\ Len(w) \in Nat /\ Len(e) \in Nat
  BY DEF Text
<1>3. Lined(l)
  BY <1>1, <1>2 DEF Lined, Positive
<1>4. AtEnd(l)
  BY <1>1, <1>2 DEF AtEnd
<1> QED
  BY <1>1, <1>2, <1>3, <1>4

\* The cursor lands where the end of the last line is (screen.rs place).
LEMMA LandsAt ==
  ASSUME NEW n \in Positive, NEW w \in Seq(Text), NEW e \in Text,
         NEW cur, cur = CursorAt(Len(e), n, Len(Chunk(e, n))),
         NEW c, c = Landing(LinesAt(w, e), n)
  PROVE  Landed(n, Relaid(Append(w, e), n), c) /\ c.col = cur.col /\ c.pend = cur.pend
<1> DEFINE l == LinesAt(w, e)
           above == Relaid(w, n)
<1>1. /\ l.lines = Append(w, e) /\ l.at = Len(w) + 1 /\ l.offset = Len(e)
      /\ Lined(l) /\ AtEnd(l) /\ l.lines # << >>
  BY LinesAtFacts
<1> HIDE DEF l
<1>2. Landed(n, Relaid(l.lines, n), Landing(l, n))
  BY <1>1, LandingEnd
<1>3. SubSeq(Append(w, e), 1, (Len(w) + 1) - 1) = w /\ Append(w, e)[Len(w) + 1] = e
  OBVIOUS
<1>4. SubSeq(l.lines, 1, l.at - 1) = w /\ l.lines[l.at] = e
  BY <1>1, <1>3
<1>5. Landing(l, n) = [cur EXCEPT !.row = @ + Len(above)]
  BY <1>1, <1>4 DEF Landing
<1>6. cur \in [row : {cur.row}, col : {cur.col}, pend : {cur.pend}]
  BY DEF CursorAt
<1> HIDE DEF above
<1> DEFINE k == Len(above)
           d == [cur EXCEPT !.row = @ + k]
<1> HIDE DEF k
<1>7. d.col = cur.col /\ d.pend = cur.pend
  BY ONLY <1>6
<1>8. c = d
  BY <1>5 DEF l, k
<1> HIDE DEF d
<1>9. c.col = cur.col /\ c.pend = cur.pend
  BY ONLY <1>7, <1>8
<1> QED
  BY <1>1, <1>2, <1>9 DEF l

\* A rewrap f of a screen whose lines come out whole: no row leaves, and the lines, the
\* cursor and the count of the rows in Emacs are at the new width.
Relays(m, s, h, w, e, f) ==
  /\ f = [s |-> f.s, out |-> << >>]
  /\ Tidy(m, f.s) /\ Len(f.s.rows) = h /\ f.s.carried = HeadOf(s) \div m
  /\ Spread(m, f.s, w, e)

\* A rewrap takes its rows from those that fit, and puts out the head's before theirs.
RewrapsTo(seam, k, f) ==
  f = [s |-> k.s, out |-> seam.out \o k.out] /\ f.s = k.s /\ f.out = seam.out \o k.out

\* How the rewrap goes on from where the head ends (Screen::reflow).
LEMMA RewrapShape ==
  ASSUME NEW s, NEW h, NEW m, NEW seam, NEW f, f = Rewrap(s, h, m, seam),
         NEW k, k = Fit(s, h, m, Relaid(seam.logical.lines, m), Landing(seam.logical, m), seam.head)
  PROVE  RewrapsTo(seam, k, f)
<1> DEFINE joined == seam.out \o k.out
<1>1. f = [k EXCEPT !.out = joined]
  BY DEF Rewrap
<1>2. k = [s |-> k.s, out |-> k.out]
  BY DEF Fit
<1> HIDE DEF joined
<1>3. f = [s |-> k.s, out |-> joined]
  BY ONLY <1>1, <1>2
<1> QED
  BY ONLY <1>3 DEF joined, RewrapsTo

\* A head that is not whole rows of the new width takes a row with it (Screen::reflow).
LEMMA HeadTopped ==
  ASSUME NEW n, NEW s, Whole(n, s), NEW h \in Positive, NEW m \in Positive, (HeadOf(s) % m) # 0
  PROVE  Reflow(s, h, m).out # << >>
<1> DEFINE logical == LogicalLines(s)
           told == HeadOf(s)
           seam == Realign(logical, told, m)
           grid == Relaid(seam.logical.lines, m)
           c == Landing(seam.logical, m)
           k == Fit(s, h, m, grid, c, seam.head)
           f == Reflow(s, h, m)
<1>1. told \in Nat
  <2>1. s.carried \in Nat /\ s.cols \in Nat
    BY DEF Whole, Screens, Positive
  <2>2. ASSUME NEW x \in Nat, NEW y \in Nat PROVE x * y \in Nat
    OBVIOUS
  <2> QED
    BY <2>1, <2>2 DEF HeadOf
<1>2. Lined(logical) /\ Len(logical.lines) >= 1
  BY LogicalFacts
<1>3. f = Rewrap(s, h, m, seam)
  BY DEF Reflow
<1>4. (told % m) # 0
  OBVIOUS
<1> HIDE DEF logical, told
<1>5. \E x : seam.out = << x >>
  BY <1>4 DEF Realign
<1>6. Aligned(told, m, seam)
  <2>1. seam = Realign(logical, told, m)
    OBVIOUS
  <2> HIDE DEF seam
  <2> QED
    BY <1>1, <1>2, <2>1, RealignFacts
<1> HIDE DEF seam
<1>7. Lined(seam.logical) /\ seam.head \in Nat
  BY <1>6 DEF Aligned
<1>8. grid \in Seq(Width(m)) /\ Spot(m, c)
  BY <1>7, RelaidType, LandingSpot DEF Lined
<1>k. k = Fit(s, h, m, Relaid(seam.logical.lines, m), Landing(seam.logical, m), seam.head)
  OBVIOUS
<1> HIDE DEF f, k
<1>9. f.out = seam.out \o k.out
  <2>1. RewrapsTo(seam, k, f)
    BY ONLY <1>3, <1>k, RewrapShape
  <2> QED
    BY ONLY <2>1 DEF RewrapsTo
<1>l. k = Fit(s, h, m, grid, c, seam.head)
  BY ONLY <1>k DEF grid, c
<1> HIDE DEF grid, c
<1>10. k.out \in Seq(GoneAt(m))
  BY <1>7, <1>8, <1>l, FitKeeps
<1>11. PICK x : seam.out = << x >>
  BY <1>5
<1>12. << x >> \o k.out # << >>
  <2> DEFINE S == {x} \cup GoneAt(m)
  <2>1. k.out \in Seq(S)
    <3>1. \A d \in GoneAt(m) : d \in S
      OBVIOUS
    <3> HIDE DEF S
    <3> QED
      BY <1>10, <3>1, SeqWiden
  <2>2. << x >> \in Seq(S) /\ Len(<< x >>) = 1
    OBVIOUS
  <2> HIDE DEF S
  <2>3. Len(<< x >> \o k.out) = 1 + Len(k.out) /\ Len(k.out) \in Nat
    BY ONLY <2>1, <2>2, Joined
  <2> QED
    BY ONLY <2>3
<1> QED
  BY <1>9, <1>11, <1>12 DEF f

\* A screen with lines, rewrapped where they come out whole (Screen::reflow).
WholeAt(m, s, h, w, e) == (HeadOf(s) % m) = 0 /\ Len(Relaid(Append(w, e), m)) <= h

LEMMA RelaysWhole ==
  ASSUME NEW n, NEW s, Tidy(n, s), NEW w, NEW e, Spread(n, s, w, e), NEW h \in Positive,
         NEW m \in Positive, NEW f, f = Reflow(s, h, m)
  PROVE  /\ f.out = << >> => WholeAt(m, s, h, w, e)
         /\ WholeAt(m, s, h, w, e) => Relays(m, s, h, w, e, f)
<1> DEFINE l == LinesAt(w, e)
           told == HeadOf(s)
           grid == Relaid(Append(w, e), m)
           c == Landing(l, m)
           k == Fit(s, h, m, grid, c, told)
           cur == CursorAt(Len(e), m, Len(Chunk(e, m)))
<1>0. /\ Whole(n, s) /\ s.autowrap /\ m \in Nat /\ h \in Nat /\ w \in Seq(Text) /\ e \in Text
      /\ AllSolid(w)
  BY DEF Tidy, Positive, Spread
<1>1. told \in Nat
  <2>1. s.carried \in Nat /\ s.cols \in Nat
    BY <1>0 DEF Whole, Screens, Positive
  <2>2. ASSUME NEW x \in Nat, NEW y \in Nat PROVE x * y \in Nat
    OBVIOUS
  <2> QED
    BY <2>1, <2>2 DEF HeadOf
<1>2. LogicalLines(s) = l
  BY SpreadLines
<1>3. CASE (told % m) # 0
  <2>1. f.out # << >>
    BY <1>0, <1>3, HeadTopped
  <2>2. ~WholeAt(m, s, h, w, e)
    BY <1>3 DEF WholeAt
  <2> QED
    BY <2>1, <2>2
<1>4. CASE (told % m) = 0
  <2>1. f = [s |-> k.s, out |-> << >> \o k.out] /\ f.s = k.s /\ f.out = << >> \o k.out
    <3> DEFINE seam == [logical |-> l, head |-> told, out |-> << >>]
    <3>1. Realign(l, told, m) = seam
      BY <1>4 DEF Realign
    <3>2. f = Rewrap(s, h, m, seam)
      BY <1>2, <3>1 DEF Reflow
    <3>3. seam.logical.lines = Append(w, e) /\ seam.logical = l /\ seam.head = told /\ seam.out = << >>
      BY DEF LinesAt
    <3> HIDE DEF seam
    <3>4. k = Fit(s, h, m, Relaid(seam.logical.lines, m), Landing(seam.logical, m), seam.head)
      BY <3>3
    <3> HIDE DEF k
    <3>5. f = [s |-> k.s, out |-> seam.out \o k.out] /\ f.s = k.s /\ f.out = seam.out \o k.out
      <4>1. RewrapsTo(seam, k, f)
        BY ONLY <3>2, <3>4, RewrapShape
      <4> QED
        BY ONLY <4>1 DEF RewrapsTo
    <3> QED
      BY ONLY <3>3, <3>5
  <2>2. Landed(m, grid, c) /\ c.col = cur.col /\ c.pend = cur.pend
    BY <1>0, LandsAt
  <2>3. grid \in Seq(Width(m)) /\ Len(grid) \in Nat
    <3>1. Append(w, e) \in Seq(Text)
      BY <1>0
    <3>2. grid \in Seq(Width(m))
      BY <3>1, RelaidType
    <3> HIDE DEF grid
    <3> QED
      BY <3>2
  <2>k. k = Fit(s, h, m, grid, c, told)
    OBVIOUS
  <2> HIDE DEF l, told, grid, c, k, cur
  <2>4. Spot(m, c) /\ c.row = Len(grid) /\ Len(grid) >= 1
    BY <2>2, <2>3 DEF Landed, Spot
  <2>5. PICK over : Fitted(m, s, h, grid, c, k, over)
    BY <1>0, <1>1, <2>k, <2>3, <2>4, FitShape
  <2>6. /\ over \in 0..Len(grid) /\ Len(grid) - over <= h /\ (over > 0 => Len(grid) - over = h)
        /\ k.out = DepartedRows(SubSeq(grid, 1, over)) /\ Whole(m, k.s) /\ Len(k.s.rows) = h
        /\ (\A i \in 1 .. Len(grid) - over : k.s.rows[i] = grid[over + i])
        /\ k.s.row = Least(Greatest(c.row - over, 1), h) /\ k.s.col = c.col /\ (k.s.pend <=> c.pend)
    BY <2>5 DEF Fitted
  <2>7. k.out \in Seq(Gone) /\ Len(k.out) = over
    <3>1. SubSeq(grid, 1, over) \in Seq(Width(m)) /\ Len(SubSeq(grid, 1, over)) = over
      BY <2>3, <2>6, SplitSeq
    <3> QED
      BY <1>0, <2>6, <3>1, DepartedEach
  <2>8. << >> \o k.out = k.out
    BY <2>7
  <2>9. Len(grid) <= h <=> k.out = << >>
    <3>1. k.out = << >> <=> over = 0
      BY <2>6, <2>7
    <3>2. Len(grid) <= h <=> over = 0
      BY <1>0, <2>3, <2>6
    <3> QED
      BY <3>1, <3>2
  <2>10. f.out = << >> => WholeAt(m, s, h, w, e)
    BY <1>4, <2>1, <2>8, <2>9 DEF WholeAt, told, grid
  <2>11. ASSUME WholeAt(m, s, h, w, e) PROVE Relays(m, s, h, w, e, f)
    <3>1. k.out = << >> /\ over = 0 /\ Len(grid) <= h
      <4>1. Len(grid) <= h
        BY <2>11 DEF WholeAt, grid
      <4>2. k.out = << >>
        BY <2>9, <4>1
      <4> QED
        BY <2>7, <4>1, <4>2
    <3>2. f = [s |-> f.s, out |-> << >>] /\ f.s = k.s
      BY <2>1, <2>8, <3>1
    <3>3. Tidy(m, k.s)
      <4>1. 0 \in Int
        OBVIOUS
      <4>2. FitReads(0, m, grid, k)
        BY ONLY <4>1, <1>0, <1>1, <2>2, <2>3, <2>k, h \in Positive, m \in Positive, FitTidy
      <4> QED
        BY <4>2 DEF FitReads
    <3>4. k.s.row = Len(grid)
      BY <1>0, <2>3, <2>4, <2>6, <3>1 DEF Least, Greatest
    <3>5. SubSeq(k.s.rows, 1, k.s.row) = grid
      <4> DEFINE p == SubSeq(k.s.rows, 1, k.s.row)
      <4>1. k.s.rows \in Seq(Width(m)) /\ k.s.row \in 0..Len(k.s.rows)
        BY <1>0, <2>3, <2>6, <3>1, <3>4 DEF Whole, Screens
      <4>2. p \in Seq(Width(m)) /\ Len(p) = k.s.row /\ \A i \in 1..k.s.row : p[i] = k.s.rows[i]
        BY <4>1, SplitSeq
      <4> HIDE DEF p
      <4>3. ASSUME NEW i \in 1..Len(grid) PROVE p[i] = grid[i]
        <5>1. i \in 1 .. Len(grid) - over /\ over + i = i
          BY <2>3, <3>1
        <5> QED
          BY <2>6, <3>4, <4>2, <5>1
      <4>4. p = grid
        BY <2>3, <3>4, <4>2, <4>3, SameSeq
      <4> QED
        BY <4>4 DEF p
    <3>6. k.s.carried = told \div m
      <4>1. k.s.carried = Carry(told \div m, k.out)
        BY <1>0, <1>1, <2>k, <2>3, <2>4, FitKeeps
      <4>2. told \div m \in Nat
        BY <1>1, DivMod
      <4> QED
        BY <3>1, <4>1, <4>2, CarrySnoc
    <3>7. Len(e) = Through(Len(Chunk(e, m)) - 1, m) + k.s.col + (IF k.s.pend THEN 1 ELSE 0)
      <4>1. Chunked(m, e, Chunk(e, m))
        BY <1>0, ChunkFacts
      <4>2. cur = CursorAt(Len(e), m, Len(Chunk(e, m)))
        BY DEF cur
      <4>3. Len(e) = Through(Len(Chunk(e, m)) - 1, m) + cur.col + (IF cur.pend THEN 1 ELSE 0)
        BY ONLY <1>0, <4>1, <4>2, m \in Positive, CursorMeasures
      <4>4. cur.col = k.s.col /\ (cur.pend <=> k.s.pend)
        BY <2>2, <2>6
      <4> QED
        BY ONLY <4>3, <4>4
    <3>8. Spread(m, f.s, w, e)
      BY <1>0, <3>2, <3>5, <3>7 DEF Spread, grid
    <3> QED
      BY <2>6, <3>2, <3>3, <3>6, <3>8 DEF Relays, told
  <2> QED
    BY <2>10, <2>11
<1> QED
  BY <1>3, <1>4

-----------------------------------------------------------------------------
(* A change of width undone *)

\* Two screens whose parts are the same are one.
LEMMA SameScreen ==
  ASSUME NEW n, NEW s \in Screens(n), NEW t \in Screens(n), s.rows = t.rows, s.row = t.row,
         s.col = t.col, s.pend <=> t.pend, s.bottom = t.bottom, s.carried = t.carried,
         s.autowrap <=> t.autowrap
  PROVE  s = t
<1>1. /\ s = [rows |-> s.rows, cols |-> s.cols, row |-> s.row, col |-> s.col, pend |-> s.pend,
              top |-> s.top, bottom |-> s.bottom, carried |-> s.carried, autowrap |-> s.autowrap]
      /\ t = [rows |-> t.rows, cols |-> t.cols, row |-> t.row, col |-> t.col, pend |-> t.pend,
              top |-> t.top, bottom |-> t.bottom, carried |-> t.carried, autowrap |-> t.autowrap]
  BY DEF Screens
<1>2. s.cols = t.cols /\ s.top = t.top /\ s.pend = t.pend /\ s.autowrap = t.autowrap
  <2>1. s.pend \in BOOLEAN /\ t.pend \in BOOLEAN /\ s.autowrap \in BOOLEAN /\ t.autowrap \in BOOLEAN
        /\ s.cols = n /\ t.cols = n /\ s.top = 1 /\ t.top = 1
    BY DEF Screens
  <2> QED
    BY <2>1
<1> QED
  BY ONLY <1>1, <1>2, s.rows = t.rows, s.row = t.row, s.col = t.col, s.bottom = t.bottom,
          s.carried = t.carried

\* There is one tidy screen of a size with these lines.
LEMMA OneScreen ==
  ASSUME NEW n, NEW s, NEW t, Tidy(n, s), Tidy(n, t), NEW w, NEW e, Spread(n, s, w, e),
         Spread(n, t, w, e), Len(s.rows) = Len(t.rows), s.carried = t.carried
  PROVE  s = t
<1> DEFINE grid == Relaid(Append(w, e), n)
           Z == Through(Len(Chunk(e, n)) - 1, n)
<1>1. \A u : Tidy(n, u) => /\ u \in Screens(n) /\ n \in Positive /\ n \in Nat /\ n >= 1
                           /\ u.rows \in Seq(Width(n)) /\ Len(u.rows) \in Nat
                           /\ u.row \in 1..Len(u.rows) /\ u.row \in 0..Len(u.rows)
                           /\ u.col \in 0 .. n - 1 /\ u.pend \in BOOLEAN /\ (u.pend => u.col = n - 1)
                           /\ u.bottom = Len(u.rows) /\ u.autowrap /\ Below(n, u, u.row + 1)
  <2> SUFFICES ASSUME NEW u, Tidy(n, u)
               PROVE  /\ u \in Screens(n) /\ n \in Positive /\ n \in Nat /\ n >= 1
                      /\ u.rows \in Seq(Width(n)) /\ Len(u.rows) \in Nat
                      /\ u.row \in 1..Len(u.rows) /\ u.row \in 0..Len(u.rows)
                      /\ u.col \in 0 .. n - 1 /\ u.pend \in BOOLEAN /\ (u.pend => u.col = n - 1)
                      /\ u.bottom = Len(u.rows) /\ u.autowrap /\ Below(n, u, u.row + 1)
    OBVIOUS
  <2>1. /\ u \in Screens(n) /\ n \in Positive /\ Len(u.rows) >= 1 /\ u.row <= Len(u.rows)
        /\ u.bottom = Len(u.rows) /\ u.autowrap /\ Below(n, u, u.row + 1)
        /\ (u.pend => u.col = n - 1)
    BY DEF Tidy, Whole
  <2>2. /\ u.rows \in Seq(Width(n)) /\ u.row \in Positive /\ u.col \in 0 .. n - 1
        /\ u.pend \in BOOLEAN
    BY ONLY <2>1 DEF Screens
  <2>3. Len(u.rows) \in Nat
    BY ONLY <2>2
  <2> QED
    BY ONLY <2>1, <2>2, <2>3 DEF Positive
<1>2. \A u : Tidy(n, u) /\ Spread(n, u, w, e) =>
        /\ Len(grid) = u.row /\ \A i \in 1..u.row : u.rows[i] = grid[i]
  <2> SUFFICES ASSUME NEW u, Tidy(n, u), Spread(n, u, w, e)
               PROVE  Len(grid) = u.row /\ \A i \in 1..u.row : u.rows[i] = grid[i]
    OBVIOUS
  <2>1. u.rows \in Seq(Width(n)) /\ u.row \in 0..Len(u.rows) /\ SubSeq(u.rows, 1, u.row) = grid
    BY <1>1 DEF Spread
  <2> HIDE DEF grid
  <2>2. Len(SubSeq(u.rows, 1, u.row)) = u.row /\ \A i \in 1..u.row : SubSeq(u.rows, 1, u.row)[i] = u.rows[i]
    BY ONLY <2>1, SplitSeq
  <2> QED
    BY ONLY <2>1, <2>2
<1>3. s.row = t.row /\ \A i \in 1..s.row : s.rows[i] = t.rows[i]
  <2> HIDE DEF grid
  <2> QED
    BY <1>2
<1>4. s.rows = t.rows
  <2>1. ASSUME NEW i \in 1..Len(s.rows) PROVE s.rows[i] = t.rows[i]
    <3>1. CASE i <= s.row
      <4>1. i \in 1..s.row
        BY <1>1, <3>1
      <4> QED
        BY <1>3, <4>1
    <3>2. CASE s.row + 1 <= i
      <4>1. i \in s.row + 1 .. Len(s.rows) /\ i \in t.row + 1 .. Len(t.rows)
        BY <1>1, <1>3, <3>2
      <4>2. s.rows[i] = BlankRow(n) /\ t.rows[i] = BlankRow(n)
        BY <1>1, <4>1 DEF Below
      <4> QED
        BY <4>2
    <3> QED
      BY <1>1, <3>1, <3>2
  <2>2. s.rows \in Seq(Width(n)) /\ t.rows \in Seq(Width(n))
    BY <1>1
  <2> QED
    BY ONLY <2>1, <2>2, Len(s.rows) = Len(t.rows), SameSeq
<1>5. s.col = t.col /\ (s.pend <=> t.pend)
  <2>1. /\ Len(e) = Z + s.col + (IF s.pend THEN 1 ELSE 0)
        /\ Len(e) = Z + t.col + (IF t.pend THEN 1 ELSE 0)
    BY DEF Spread
  <2>2. Z \in Nat
    <3>1. Len(Chunk(e, n)) - 1 \in Nat
      <4>1. Chunk(e, n) \in Seq(Width(n)) /\ Len(Chunk(e, n)) >= 1
        BY <1>1, ChunkType DEF Spread
      <4> QED
        BY <4>1
    <3> QED
      BY <1>1, <3>1, ThroughFacts
  <2>3. /\ n \in Nat /\ s.col \in 0 .. n - 1 /\ t.col \in 0 .. n - 1 /\ s.pend \in BOOLEAN
        /\ t.pend \in BOOLEAN /\ (s.pend => s.col = n - 1) /\ (t.pend => t.col = n - 1)
    BY <1>1
  <2> HIDE DEF Z
  <2>4. s.col \in Nat /\ t.col \in Nat
    BY ONLY <2>3
  <2>5. CASE s.pend /\ t.pend
    BY ONLY <2>3, <2>5
  <2>6. CASE s.pend /\ ~t.pend
    BY ONLY <2>1, <2>2, <2>3, <2>4, <2>6
  <2>7. CASE ~s.pend /\ t.pend
    BY ONLY <2>1, <2>2, <2>3, <2>4, <2>7
  <2>8. CASE ~s.pend /\ ~t.pend
    BY ONLY <2>1, <2>2, <2>4, <2>8
  <2> QED
    BY ONLY <2>5, <2>6, <2>7, <2>8
<1>6. s \in Screens(n) /\ t \in Screens(n) /\ s.bottom = t.bottom /\ (s.autowrap <=> t.autowrap)
  BY <1>1
<1> QED
  BY <1>3, <1>4, <1>5, <1>6, SameScreen

\* Rewrapped at another width with nothing leaving, and rewrapped back, a tidy screen with
\* lines is what it was (Screen::reflow).
LEMMA RewrapUndone ==
  ASSUME NEW n, NEW s, Tidy(n, s), Started(s), TailsDrawn(s), NEW m \in Positive, NEW f,
         f = Reflow(s, Len(s.rows), m), f.out = << >>
  PROVE  Reflow(f.s, Len(s.rows), n) = Quiet(s) /\ Tidy(m, f.s) /\ Len(f.s.rows) = Len(s.rows)
<1> DEFINE h == Len(s.rows)
           g == Reflow(f.s, h, n)
<1>0. /\ Whole(n, s) /\ n \in Positive /\ n \in Nat /\ n >= 1 /\ h \in Positive /\ s.row <= h
      /\ s.carried \in Nat /\ HeadOf(s) = s.carried * n /\ HeadOf(s) \in Nat /\ s.row \in 0..h
      /\ s.rows \in Seq(Width(n))
  <2>1. /\ Whole(n, s) /\ n \in Positive /\ n \in Nat /\ n >= 1 /\ h \in Positive /\ s.row <= h
        /\ s.carried \in Nat /\ s.cols = n /\ s.row \in 0..h /\ s.rows \in Seq(Width(n))
    BY DEF Tidy, Whole, Screens, Positive
  <2>2. ASSUME NEW x \in Nat, NEW y \in Nat PROVE x * y \in Nat
    OBVIOUS
  <2> QED
    BY <2>1, <2>2 DEF HeadOf
<1>1. PICK w, e : Spread(n, s, w, e)
  BY Decompose
<1>2. f.out = << >> => WholeAt(m, s, h, w, e)
  BY <1>0, <1>1, RelaysWhole
<1>3. WholeAt(m, s, h, w, e) => Relays(m, s, h, w, e, f)
  BY <1>0, <1>1, RelaysWhole
<1> HIDE DEF g
<1>4. /\ Tidy(m, f.s) /\ Len(f.s.rows) = h /\ f.s.carried = HeadOf(s) \div m
      /\ Spread(m, f.s, w, e) /\ (HeadOf(s) % m) = 0
  BY <1>2, <1>3 DEF Relays, WholeAt
<1>5. HeadOf(f.s) = HeadOf(s)
  <2>1. HeadOf(s) = (HeadOf(s) \div m) * m + (HeadOf(s) % m)
    BY <1>0, DivMod
  <2>2. f.s.cols = m
    BY <1>4 DEF Tidy, Whole, Screens
  <2>3. HeadOf(s) \div m \in Nat /\ m \in Nat
    BY <1>0, DivMod DEF Positive
  <2>4. HeadOf(f.s) = (HeadOf(s) \div m) * m
    BY <1>4, <2>2 DEF HeadOf
  <2> DEFINE y == (HeadOf(s) \div m) * m
  <2>5. y \in Nat
    <3>1. ASSUME NEW x \in Nat, NEW z \in Nat PROVE x * z \in Nat
      OBVIOUS
    <3> QED
      BY <2>3, <3>1
  <2> HIDE DEF y
  <2>6. HeadOf(s) = y + 0
    BY <1>4, <2>1 DEF y
  <2> QED
    BY <2>4, <2>5, <2>6 DEF y
<1>6. (HeadOf(s) % n) = 0 /\ HeadOf(s) \div n = s.carried
  <2>1. HeadOf(s) = Through(s.carried, n) + 0
    <3>1. Through(s.carried, n) \in Nat
      BY <1>0, ThroughFacts
    <3>2. HeadOf(s) = Through(s.carried, n)
      BY <1>0 DEF Through
    <3> QED
      BY <3>1, <3>2
  <2>2. 0 \in 0 .. n - 1
    BY <1>0
  <2> QED
    BY ONLY <1>0, <2>1, <2>2, DivAt
<1>7. Len(Relaid(Append(w, e), n)) <= h
  <2>1. SubSeq(s.rows, 1, s.row) = Relaid(Append(w, e), n)
    BY <1>1 DEF Spread
  <2>2. Len(SubSeq(s.rows, 1, s.row)) = s.row
    BY ONLY <1>0, SplitSeq
  <2> QED
    BY <1>0, <2>1, <2>2
<1>8. WholeAt(n, f.s, h, w, e)
  BY <1>5, <1>6, <1>7 DEF WholeAt
<1> HIDE DEF h
<1>9. Relays(n, f.s, h, w, e, g)
  <2>1. g = Reflow(f.s, h, n)
    BY DEF g
  <2>2. WholeAt(n, f.s, h, w, e) => Relays(n, f.s, h, w, e, g)
    BY ONLY <1>0, <1>4, <2>1, m \in Positive, RelaysWhole
  <2> QED
    BY <1>8, <2>2
<1>10. /\ g = [s |-> g.s, out |-> << >>] /\ Tidy(n, g.s) /\ Len(g.s.rows) = h
       /\ g.s.carried = s.carried /\ Spread(n, g.s, w, e)
  BY <1>5, <1>6, <1>9 DEF Relays
<1>11. g.s = s
  <2>1. Len(g.s.rows) = Len(s.rows)
    BY <1>10 DEF h
  <2> QED
    BY <1>1, <1>10, <2>1, OneScreen
<1>12. g = Quiet(s)
  BY <1>10, <1>11 DEF Quiet
<1> QED
  BY <1>4, <1>12 DEF g, h

\* A change of nothing changes nothing (Resize::Clamp).
LEMMA ClampNothing ==
  ASSUME NEW n, NEW s, Tidy(n, s)
  PROVE  ClampTo(s, Len(s.rows), n) = Quiet(s)
<1> DEFINE h == Len(s.rows)
           f == ClampTo(s, h, n)
<1>0. /\ Whole(n, s) /\ n \in Nat /\ h \in Positive /\ h \in Nat /\ s.row \in 1..h
      /\ s.rows \in Seq(Width(n)) /\ s.carried \in Nat /\ Below(n, s, s.row + 1) /\ s \in Screens(n)
      /\ s.bottom = h
  BY DEF Tidy, Whole, Screens, Positive
<1>s. f = [s |-> f.s, out |-> f.out]
  <2>1. \E a, b : f = [s |-> a, out |-> b]
    BY ONLY DEF ClampTo
  <2> HIDE DEF f
  <2> QED
    BY ONLY <2>1
<1>f. f = ClampTo(s, h, n)
  OBVIOUS
<1> HIDE DEF f
<1>1. PICK shed, left : Clamped(n, s, h, f, shed, left)
  BY ONLY <1>0, <1>f, ClampShape
<1>2. Used(s) = s.row
  BY TidyUsed
<1>3. shed = 0 /\ left \in Nat /\ left >= s.row /\ left <= h
  <2>1. /\ shed \in Nat /\ left \in Nat /\ shed + left <= h /\ left <= h /\ shed + left >= s.row
        /\ (shed > 0 => shed + left = s.row /\ left = h)
    BY <1>1, <1>2 DEF Clamped
  <2> HIDE DEF h
  <2> QED
    BY <1>0, <2>1
<1>4. /\ f.out = DepartedRows(SubSeq(s.rows, 1, 0)) /\ Len(f.s.rows) = h
      /\ (\A i \in 1..left : f.s.rows[i] = s.rows[0 + i])
      /\ (\A i \in left + 1 .. h : f.s.rows[i] = BlankRow(n))
      /\ f.s.row = Least(Greatest(s.row - 0, 1), h) /\ f.s.col = s.col
      /\ (f.s.pend <=> s.pend) /\ (f.s.autowrap <=> s.autowrap)
  BY <1>1, <1>3 DEF Clamped
<1>5. f.out = << >>
  <2>1. SubSeq(s.rows, 1, 0) = << >>
    BY <1>0
  <2> QED
    BY <1>4, <2>1 DEF DepartedRows
<1>6. Keeps(n, s, f)
  BY ONLY <1>0, <1>f, ClampKeeps
<1>7. Whole(n, f.s) /\ f.s.carried = s.carried
  <2>1. Carry(s.carried, << >>) = s.carried
    BY <1>0, CarrySnoc
  <2> QED
    BY <1>5, <1>6, <2>1 DEF Keeps
<1>8. f.s \in Screens(n) /\ f.s.rows \in Seq(Width(n)) /\ f.s.bottom = h
  BY <1>4, <1>7 DEF Whole, Screens
<1>9. f.s.row = s.row
  <2> HIDE DEF h
  <2> QED
    BY <1>0, <1>4 DEF Least, Greatest
<1>10. f.s.rows = s.rows
  <2>1. ASSUME NEW i \in 1..h PROVE f.s.rows[i] = s.rows[i]
    <3> HIDE DEF h
    <3>1. CASE i <= left
      <4>1. i \in 1..left /\ 0 + i = i
        BY <1>0, <1>3, <3>1
      <4> QED
        BY <1>4, <4>1
    <3>2. CASE left + 1 <= i
      <4>1. i \in left + 1 .. h /\ i \in s.row + 1 .. h
        BY <1>0, <1>3, <3>2
      <4>2. s.rows[i] = BlankRow(n)
        BY <1>0, <4>1 DEF Below, h
      <4> QED
        BY <1>4, <4>1, <4>2
    <3> QED
      BY <1>0, <1>3, <3>1, <3>2
  <2> QED
    BY ONLY <1>0, <1>4, <1>8, <2>1, SameSeq
<1>11. f.s = s
  <2>1. s \in Screens(n) /\ f.s \in Screens(n) /\ f.s.bottom = s.bottom
    BY <1>0, <1>8
  <2>2. /\ f.s.rows = s.rows /\ f.s.row = s.row /\ f.s.col = s.col /\ (f.s.pend <=> s.pend)
        /\ f.s.carried = s.carried /\ (f.s.autowrap <=> s.autowrap)
    BY <1>4, <1>7, <1>9, <1>10
  <2> QED
    BY ONLY <2>1, <2>2, SameScreen
<1>12. f = [s |-> s, out |-> << >>]
  BY ONLY <1>s, <1>5, <1>11
<1>13. f = Quiet(s)
  BY ONLY <1>12 DEF Quiet
<1> QED
  BY ONLY <1>13 DEF f, h

\* What changes the width of a tidy screen and sends nothing is undone by changing it back
\* (Screen::resize).
LEMMA WidthUndone ==
  ASSUME NEW n, NEW s, Tidy(n, s), Started(s), TailsDrawn(s), NEW m \in Positive, NEW f,
         f = ResizeScreen(s, Height(s), m), f.out = << >>
  PROVE  ResizeScreen(f.s, Height(s), s.cols) = Quiet(s)
<1>0. /\ s.cols = n /\ n \in Positive /\ FullRegion(s) /\ Height(s) = Len(s.rows)
  BY DEF Tidy, Whole, Screens, FullRegion, Height
<1>1. CASE m # n
  <2>1. f = Reflow(s, Len(s.rows), m)
    BY <1>0, <1>1 DEF ResizeScreen
  <2>2. /\ Reflow(f.s, Len(s.rows), n) = Quiet(s)
        /\ Tidy(m, f.s) /\ Len(f.s.rows) = Len(s.rows)
    BY <2>1, RewrapUndone
  <2>3. n # f.s.cols /\ FullRegion(f.s)
    BY <1>1, <2>2 DEF Tidy, Whole, Screens, FullRegion, Height
  <2> QED
    BY <1>0, <2>2, <2>3 DEF ResizeScreen
<1>2. CASE m = n
  <2>1. f = ClampTo(s, Len(s.rows), n)
    BY <1>0, <1>2 DEF ResizeScreen
  <2>2. ClampTo(s, Len(s.rows), n) = Quiet(s)
    BY ClampNothing
  <2>3. f.s = s
    BY ONLY <2>1, <2>2 DEF Quiet
  <2>4. ResizeScreen(s, Len(s.rows), n) = ClampTo(s, Len(s.rows), n)
    BY ONLY <1>0 DEF ResizeScreen
  <2> QED
    BY ONLY <1>0, <2>2, <2>3, <2>4
<1> QED
  BY <1>1, <1>2

-----------------------------------------------------------------------------
(* No line is broken before there is more of it *)

\* A character that wraps stands in the row it wraps to (Screen::place).
LEMMA PlaceStarts ==
  ASSUME NEW n, NEW s, Tidy(n, s), NEW ch \in Nat, NEW f, f = Place(s, ch)
  PROVE  Tidy(n, f.s) /\ Started(f.s)
<1> DEFINE at == Wrapped(s)
           v == at.s
<1>1. Whole(n, s) /\ s.autowrap /\ 0 \in Int
  BY DEF Tidy
<1>2. Whole(n, f.s) /\ Tidy(n, f.s)
  <2>1. Keeps(n, s, f)
    BY <1>1, PlaceKeeps
  <2>2. Adds(0, n, s, Bare(<< ch >>), f)
    BY <1>1, PlaceTidy
  <2> QED
    BY <2>1, <2>2 DEF Keeps, Adds
<1>3. Whole(n, v) /\ v.autowrap
  <2>1. CASE s.pend
    <3> DEFINE w == Wrapping(s)
    <3>1. at = LineFeed(w)
      <4> HIDE DEF w
      <4> QED
        BY <1>1, <2>1 DEF Wrapped, w
    <3>2. /\ Whole(n, w) /\ w.row = s.row /\ (w.autowrap <=> s.autowrap)
          /\ Below(n, s, s.row + 1) => Below(n, w, w.row + 1)
      <4>1. Whole(n, s) /\ w = Wrapping(s) /\ 0 \in Int
        BY <1>1
      <4> HIDE DEF w
      <4> QED
        BY ONLY <4>1, WrappingFacts
    <3> HIDE DEF w
    <3>3. Below(n, w, w.row + 1)
      BY <3>2 DEF Tidy
    <3> HIDE DEF at
    <3>4. Advanced(0, n, w, at)
      BY <1>1, <3>1, <3>2, <3>3, Advance
    <3> QED
      BY <1>1, <3>2, <3>4 DEF Advanced
  <2>2. CASE ~s.pend
    <3>1. at = Quiet(s)
      BY <2>2 DEF Wrapped
    <3>2. at.s = s
      BY <3>1 DEF Quiet
    <3> HIDE DEF at
    <3> QED
      BY <1>1, <3>2
  <2> QED
    BY <2>1, <2>2
<1>4. Writes(n, v, ch, f.s)
  BY <1>2, <1>3, PlaceShape
<1>5. v.col \in Nat /\ n \in Nat /\ n >= 1
  BY <1>3 DEF Whole, Screens, Positive
<1> HIDE DEF v
<1>6. f.s.col > 0 \/ f.s.pend
  BY <1>4, <1>5 DEF Writes
<1> QED
  BY <1>2, <1>6 DEF Started

\* A line feed from a row that does not run on goes to one that nothing runs on to
\* (Screen::line_feed).
LEMMA FeedsBelow ==
  ASSUME NEW n, NEW s, Whole(n, s), ~s.rows[s.row].wrapped, NEW f, f = LineFeed(s)
  PROVE  f.s.row > 1 => ~f.s.rows[f.s.row - 1].wrapped
<1> DEFINE t == [s EXCEPT !.pend = FALSE]
<1>1. /\ s \in Screens(n) /\ s.row \in Nat /\ s.row >= 1 /\ s.row <= Len(s.rows) /\ Len(s.rows) \in Nat
      /\ s.bottom = Len(s.rows)
  BY DEF Whole, Screens, Positive
<1>2. /\ Whole(n, t) /\ t.rows = s.rows /\ t.row = s.row /\ t.bottom = s.bottom
      /\ t \in Screens(n)
  BY <1>1 DEF Whole, Screens
<1>f. f = IF t.row = t.bottom THEN ScrollUp(t, 1)
          ELSE Quiet(IF t.row < Height(t) THEN [t EXCEPT !.row = @ + 1] ELSE t)
  BY DEF LineFeed
<1> HIDE DEF t
<1>3. CASE t.row = t.bottom
  <2>1. f = ScrollUp(t, 1)
    BY ONLY <1>3, <1>f
  <2>2. /\ f.s.rows = [r \in 1..Len(t.rows) |-> IF r + 1 <= Len(t.rows) THEN t.rows[r + 1] ELSE BlankRow(n)]
        /\ f.s.row = t.row
    BY <1>2, <2>1, ScrollUpShape
  <2>3. f.s.row > 1 => f.s.row - 1 \in 1..Len(t.rows) /\ (f.s.row - 1) + 1 = s.row /\ s.row <= Len(t.rows)
    BY <1>1, <1>2, <2>2
  <2> QED
    BY <1>2, <2>2, <2>3
<1>4. CASE t.row # t.bottom
  <2>1. t.row < Height(t)
    BY <1>1, <1>2, <1>4 DEF Height
  <2> DEFINE u == [t EXCEPT !.row = @ + 1]
  <2>2. f = Quiet(u)
    BY ONLY <1>4, <1>f, <2>1
  <2>3. u.row = s.row + 1 /\ u.rows = s.rows
    BY <1>2 DEF Screens
  <2> HIDE DEF u
  <2>4. f.s = u
    BY ONLY <2>2 DEF Quiet
  <2>5. u.row - 1 = s.row
    BY <1>1, <2>3
  <2> QED
    BY <2>3, <2>4, <2>5
<1> QED
  BY <1>3, <1>4

\* So a new line is started by nothing (Screen::carriage_return, Screen::line_feed).
LEMMA NewlineStarts ==
  ASSUME NEW n, NEW s, Tidy(n, s), NEW f, f = LineFeed(Goto(s, s.row, 0))
  PROVE  Tidy(n, f.s) /\ Started(f.s)
<1> DEFINE home == Goto(s, s.row, 0)
<1>1. /\ Whole(n, s) /\ n \in Nat /\ n >= 1 /\ s.row \in 1..Len(s.rows) /\ Len(s.rows) \in Nat
      /\ s \in Screens(n) /\ s.row \in Positive /\ 0 \in Nat /\ 0 \in Int /\ ~s.rows[s.row].wrapped
  BY DEF Tidy, Whole, Screens, Positive
<1>2. Whole(n, home)
  BY <1>1, GotoWhole
<1>3. home.rows = s.rows /\ home.row = s.row
  <2>1. Least(s.row, Height(s)) = s.row
    BY <1>1 DEF Least, Height, Screens
  <2> QED
    BY <1>1, <2>1 DEF Goto, Screens
<1>4. Tidy(n, f.s)
  BY <1>1, NewlineTidy
<1>g. f = LineFeed(home)
  OBVIOUS
<1> HIDE DEF home
<1>5. f.s.row > 1 => ~f.s.rows[f.s.row - 1].wrapped
  BY <1>1, <1>2, <1>3, <1>g, FeedsBelow
<1> QED
  BY <1>4, <1>5 DEF Started

\* A change of height keeps the row above the cursor's, unless the cursor is on the first
\* (Resize::Clamp).
LEMMA ClampStarts ==
  ASSUME NEW n, NEW s, Tidy(n, s), Started(s), NEW h \in Positive, NEW f, f = ClampTo(s, h, n)
  PROVE  Started(f.s)
<1>1. /\ Whole(n, s) /\ s.row \in Nat /\ s.row >= 1 /\ h \in Nat /\ h >= 1
  BY DEF Tidy, Whole, Screens, Positive
<1>2. PICK shed, left : Clamped(n, s, h, f, shed, left)
  BY <1>1, ClampShape
<1>3. Used(s) = s.row
  BY TidyUsed
<1>4. /\ shed \in Nat /\ left \in Nat /\ left <= h
      /\ shed + left >= s.row /\ (shed > 0 => shed + left = s.row /\ left = h)
      /\ f.s.row = Least(Greatest(s.row - shed, 1), h) /\ f.s.col = s.col
      /\ (f.s.pend <=> s.pend)
      /\ (\A i \in 1..left : f.s.rows[i] = s.rows[shed + i])
  BY <1>2, <1>3 DEF Clamped
<1>5. f.s.row = s.row - shed /\ s.row - shed <= left /\ s.row - shed >= 1
  BY <1>1, <1>4 DEF Least, Greatest
<1>6. ASSUME f.s.row > 1 PROVE f.s.rows[f.s.row - 1] = s.rows[s.row - 1] /\ s.row > 1
  <2>1. f.s.row - 1 \in 1..left /\ shed + (f.s.row - 1) = s.row - 1 /\ s.row > 1
    BY <1>1, <1>4, <1>5, <1>6
  <2> QED
    BY <1>4, <2>1
<1> QED
  BY <1>4, <1>6 DEF Started

\* Rows that run on to a cursor's have something of their line there.
EndStarted(grid, c) == Len(grid) > 1 /\ grid[Len(grid) - 1].wrapped => c.col > 0 \/ c.pend

\* The last row lines are cut into is the last of one of them.
LEMMA RelaidLast ==
  ASSUME NEW n \in Positive, NEW w \in Seq(Text)
  PROVE  Len(Relaid(w, n)) > 0 => ~Relaid(w, n)[Len(Relaid(w, n))].wrapped
<1>1. CASE w = << >>
  <2>1. << >> \in Text
    BY DEF Text
  <2>2. Relaid(<< >>, n) = << >>
    BY <1>1, <2>1, RelaidSnoc
  <2> QED
    BY <1>1, <2>2
<1>2. CASE w # << >>
  <2>1. PICK m \in Nat : Len(w) = m + 1
    <3>1. Len(w) \in Nat /\ Len(w) > 0
      BY <1>2
    <3>2. Len(w) - 1 \in Nat /\ Len(w) = (Len(w) - 1) + 1
      BY <3>1
    <3> QED
      BY <3>2
  <2>2. PICK v \in Seq(Text), x \in Text : w = Append(v, x)
    <3>1. \E v \in Seq(Text), x \in Text : w = Append(v, x) /\ Len(v) = m
      BY ONLY w \in Seq(Text), <2>1, m \in Nat, Unsnoc
    <3> QED
      BY ONLY <3>1
  <2> DEFINE p == Relaid(v, n)
             q == Chunk(x, n)
  <2>3. p \in Seq(Width(n)) /\ q \in Seq(Width(n)) /\ Relaid(w, n) = p \o q
    BY <2>2, RelaidSnoc
  <2>4. Len(q) >= 1 /\ (q[Len(q)].wrapped <=> Len(q) < Len(q)) /\ Len(q) \in Nat
    <3>1. Chunked(n, x, q)
      BY ChunkFacts
    <3> HIDE DEF q
    <3>2. Len(q) >= 1 /\ Len(q) \in Nat
      BY <3>1 DEF Chunked
    <3>3. Len(q) \in 1..Len(q)
      BY <3>2
    <3> QED
      BY <3>1, <3>2, <3>3 DEF Chunked
  <2> HIDE DEF p, q
  <2>5. Len(p \o q) = Len(p) + Len(q) /\ (p \o q)[Len(p) + Len(q)] = q[Len(q)]
    BY <2>3, <2>4
  <2> QED
    BY <2>3, <2>4, <2>5
<1> QED
  BY <1>1, <1>2

\* A line is cut no more often than there is more of it to go on (Logical::chunk, screen.rs
\* place).
LEMMA LandingStarts ==
  ASSUME NEW n \in Positive, NEW logical, Lined(logical), AtEnd(logical), logical.lines # << >>
  PROVE  EndStarted(Relaid(logical.lines, n), Landing(logical, n))
<1>1. logical.lines \in Seq(Text) /\ Len(logical.lines) \in Nat /\ Len(logical.lines) > 0
  BY DEF Lined
<1>2. PICK w \in Seq(Text), e \in Text : logical.lines = Append(w, e)
  <2>1. PICK m \in Nat : Len(logical.lines) = m + 1
    <3>1. Len(logical.lines) - 1 \in Nat /\ Len(logical.lines) = (Len(logical.lines) - 1) + 1
      BY <1>1
    <3> QED
      BY <3>1
  <2> DEFINE ls == logical.lines
  <2>2. ls \in Seq(Text) /\ Len(ls) = m + 1
    BY <1>1, <2>1
  <2> HIDE DEF ls
  <2>3. \E w \in Seq(Text), e \in Text : ls = Append(w, e) /\ Len(w) = m
    BY <2>2, Unsnoc
  <2> QED
    BY <2>3 DEF ls
<1>3. logical.at = Len(w) + 1 /\ logical.offset = Len(e)
  <2>1. Len(Append(w, e)) = Len(w) + 1 /\ Append(w, e)[Len(w) + 1] = e
    OBVIOUS
  <2> QED
    BY <1>2, <2>1 DEF AtEnd
<1> DEFINE l == LinesAt(w, e)
           cur == CursorAt(Len(e), n, Len(Chunk(e, n)))
           c == Landing(logical, n)
           p == Relaid(w, n)
           q == Chunk(e, n)
<1>4. c = Landing(l, n)
  <2>1. l.lines = Append(w, e) /\ l.at = Len(w) + 1 /\ l.offset = Len(e)
    BY LinesAtFacts
  <2> HIDE DEF l
  <2> QED
    BY <1>2, <1>3, <2>1 DEF Landing
<1>5. c.col = cur.col /\ c.pend = cur.pend
  BY <1>4, LandsAt
<1>6. p \in Seq(Width(n)) /\ q \in Seq(Width(n)) /\ Relaid(logical.lines, n) = p \o q
  BY <1>2, RelaidSnoc
<1>7. Chunked(n, e, q) /\ Filled(n, e, q)
  BY ChunkFacts, ChunkFilled
<1>8. Len(e) = Through(Len(q) - 1, n) + cur.col + (IF cur.pend THEN 1 ELSE 0)
  BY <1>7, CursorMeasures
<1>9. Len(p) > 0 => ~p[Len(p)].wrapped
  BY RelaidLast
<1>10. cur.col \in Nat
  <2>1. Landed(n, q, cur)
    BY <1>7, ChunkEnd
  <2> QED
    BY <2>1 DEF Landed, Positive
<1> HIDE DEF c, cur, p, q, l
<1>11. Len(q) >= 1 /\ Len(q) \in Nat /\ Len(p) \in Nat /\ Len(p \o q) = Len(p) + Len(q)
  BY <1>6, <1>7 DEF Chunked
<1>12. CASE Len(q) = 1
  <2>1. Len(p \o q) = Len(p) + 1 /\ Len(p \o q) - 1 = Len(p)
    BY <1>11, <1>12
  <2>2. Len(p) > 0 => (p \o q)[Len(p)] = p[Len(p)]
    BY <1>6, <1>11
  <2>3. Len(p \o q) > 1 => ~(p \o q)[Len(p \o q) - 1].wrapped
    BY <1>9, <1>11, <2>1, <2>2
  <2> QED
    BY <1>6, <2>3 DEF EndStarted, c
<1>13. CASE Len(q) # 1
  <2>1. Through(Len(q) - 1, n) < Len(e)
    BY <1>7, <1>13 DEF Filled
  <2>2. Through(Len(q) - 1, n) \in Nat
    <3>1. Len(q) - 1 \in Nat
      BY <1>11
    <3> QED
      BY <3>1, ThroughFacts
  <2>3. cur.col > 0 \/ cur.pend
    BY <1>8, <1>10, <2>1, <2>2
  <2> QED
    BY <1>5, <2>3 DEF EndStarted, c
<1> QED
  BY <1>12, <1>13

\* What fits leaves the cursor's row and the one above it as they are, or the cursor on the
\* first (Screen::reflow).
LEMMA FitStarts ==
  ASSUME NEW b, NEW s, Whole(b, s), NEW h \in Positive, NEW n \in Positive,
         NEW grid \in Seq(Width(n)), NEW c, Landed(n, grid, c), EndStarted(grid, c),
         NEW told \in Nat, NEW f, f = Fit(s, h, n, grid, c, told)
  PROVE  Started(f.s)
<1> DEFINE G == Len(grid)
<1>0. h \in Nat /\ h >= 1 /\ G \in Nat /\ G >= 1 /\ c.row = G
  BY DEF Positive, Landed
<1>1. Spot(n, c)
  BY <1>0 DEF Landed, Spot
<1>2. PICK over : Fitted(n, s, h, grid, c, f, over)
  BY <1>1, FitShape
<1>3. /\ over \in Nat /\ G - over <= h /\ (over > 0 => G - over = h)
      /\ (\A i \in 1 .. G - over : f.s.rows[i] = grid[over + i])
      /\ f.s.row = Least(Greatest(c.row - over, 1), h) /\ f.s.col = c.col
      /\ (f.s.pend <=> c.pend)
  BY <1>2 DEF Fitted
<1> HIDE DEF G
<1>4. f.s.row = G - over /\ G - over >= 1
  BY <1>0, <1>3 DEF Least, Greatest
<1>5. ASSUME f.s.row > 1 PROVE f.s.rows[f.s.row - 1] = grid[G - 1] /\ G > 1
  <2>1. f.s.row - 1 \in 1 .. G - over /\ over + (f.s.row - 1) = G - 1 /\ G > 1
    BY <1>0, <1>3, <1>4, <1>5
  <2> QED
    BY <1>3, <2>1
<1>6. G > 1 /\ grid[G - 1].wrapped => c.col > 0 \/ c.pend
  BY DEF EndStarted, G
<1> QED
  BY <1>3, <1>5, <1>6 DEF Started

\* A rewrap breaks no line before there is more of it (Screen::reflow).
LEMMA ReflowStarts ==
  ASSUME NEW b, NEW s, Tidy(b, s), NEW h \in Positive, NEW n \in Positive, NEW f,
         f = Reflow(s, h, n)
  PROVE  Started(f.s)
<1> DEFINE logical == LogicalLines(s)
           told == HeadOf(s)
           seam == Realign(logical, told, n)
           grid == Relaid(seam.logical.lines, n)
           c == Landing(seam.logical, n)
           k == Fit(s, h, n, grid, c, seam.head)
<1>0. Whole(b, s) /\ s.autowrap /\ n \in Nat /\ 0 \in Int
  BY DEF Tidy, Positive
<1>1. told \in Nat
  <2>1. s.carried \in Nat /\ s.cols \in Nat
    BY <1>0 DEF Whole, Screens, Positive
  <2>2. ASSUME NEW x \in Nat, NEW y \in Nat PROVE x * y \in Nat
    OBVIOUS
  <2> QED
    BY <2>1, <2>2 DEF HeadOf
<1>2. Lined(logical) /\ Len(logical.lines) >= 1 /\ AtEnd(logical)
  BY <1>0, LogicalFacts, LogicalEnd
<1>f. f = Rewrap(s, h, n, seam)
  BY DEF Reflow
<1> HIDE DEF logical, told
<1>s. seam = Realign(logical, told, n)
  OBVIOUS
<1> HIDE DEF seam
<1>3. Aligned(told, n, seam) /\ Realigned(0, logical, seam)
  BY <1>0, <1>1, <1>2, <1>s, RealignFacts, RealignRead
<1>4. Lined(seam.logical) /\ seam.head \in Nat /\ AtEnd(seam.logical)
  BY <1>2, <1>3 DEF Aligned, Realigned
<1>5. grid \in Seq(Width(n))
  BY <1>4, RelaidType DEF Lined
<1>6. f.s = k.s
  <2> HIDE DEF k
  <2>1. k = Fit(s, h, n, Relaid(seam.logical.lines, n), Landing(seam.logical, n), seam.head)
    BY DEF k
  <2>2. RewrapsTo(seam, k, f)
    BY <1>f, <2>1, RewrapShape
  <2> QED
    BY <2>2 DEF RewrapsTo
<1>k. k = Fit(s, h, n, grid, c, seam.head)
  OBVIOUS
<1> HIDE DEF k
<1>7. CASE seam.logical.lines # << >>
  <2>1. Landed(n, grid, c) /\ EndStarted(grid, c)
    BY <1>4, <1>7, LandingEnd, LandingStarts
  <2> HIDE DEF grid, c
  <2>2. Started(k.s)
    BY <1>0, <1>4, <1>5, <1>k, <2>1, FitStarts
  <2> QED
    BY <1>6, <2>2
<1>8. CASE seam.logical.lines = << >>
  <2>1. c = [row |-> 1, col |-> 0, pend |-> FALSE]
    BY <1>8 DEF Landing
  <2>2. grid = << >>
    <3>1. << >> \in Seq(Text) /\ << >> \in Text
      BY DEF Text
    <3> QED
      BY <1>8, <3>1, RelaidSnoc
  <2>3. << >> \in Seq(Width(n)) /\ Spot(n, c)
    BY <2>1 DEF Spot, Positive
  <2> HIDE DEF grid, c
  <2>4. k = Fit(s, h, n, << >>, c, seam.head)
    BY <1>k, <2>2
  <2>5. PICK over : Fitted(n, s, h, << >>, c, k, over)
    BY <1>0, <1>4, <2>3, <2>4, FitShape
  <2>6. over = 0 /\ k.s.row = Least(Greatest(c.row - over, 1), h) /\ c.row = 1
    BY <2>1, <2>5 DEF Fitted
  <2>7. h \in Nat /\ h >= 1
    BY DEF Positive
  <2>8. k.s.row = 1
    BY <2>6, <2>7 DEF Least, Greatest
  <2> QED
    BY <1>6, <2>8 DEF Started
<1> QED
  BY <1>7, <1>8

\* Nor does a resize, whichever way it is taken (Screen::resize).
LEMMA ResizeStarts ==
  ASSUME NEW n, NEW s, Tidy(n, s), Started(s), NEW h \in Positive, NEW w \in Positive,
         NEW f, f = ResizeScreen(s, h, w)
  PROVE  Tidy(w, f.s) /\ Started(f.s)
<1>1. FullRegion(s) /\ s.cols = n /\ 0 \in Int
  BY DEF Tidy, FullRegion, Height, Whole, Screens
<1>2. Tidy(w, f.s)
  <2>1. Resized(0, w, s, f)
    BY <1>1, ResizeTidy
  <2> QED
    BY <2>1 DEF Resized
<1>3. CASE w = n
  <2>1. f = ClampTo(s, h, n)
    BY <1>1, <1>3 DEF ResizeScreen
  <2> QED
    BY <1>2, <2>1, ClampStarts
<1>4. CASE w # n
  <2>1. f = Reflow(s, h, w)
    BY <1>1, <1>4 DEF ResizeScreen
  <2> QED
    BY <1>2, <2>1, ReflowStarts
<1> QED
  BY <1>3, <1>4

-----------------------------------------------------------------------------
(* A change of width is undone *)

\* A screen that a child that only prints may be seen to have left.
Printed(s) == Tidy(s.cols, s) /\ Started(s)

\* The invariant of one: its screen is that, and a wrapped line goes on with something.
TripInv == OnlyPrints => session \in Sessions /\ typed \in Nat /\ Printed(screen)

\* Tidy at some width is tidy at its own.
LEMMA PrintedAt ==
  ASSUME NEW n, NEW s, Tidy(n, s), Started(s)
  PROVE  Printed(s)
  BY TidyCols DEF Printed

\* What Emacs has of the top line does not bear on it (cooked--apply).
LEMMA CarriedPrinted ==
  ASSUME NEW s, Printed(s), NEW c \in Nat, NEW t, t = [s EXCEPT !.carried = c]
  PROVE  Printed(t)
<1>1. Whole(s.cols, s) /\ s \in Screens(s.cols)
  BY DEF Printed, Tidy, Whole
<1>2. /\ t \in Screens(s.cols) /\ t.rows = s.rows /\ t.row = s.row /\ t.col = s.col
      /\ t.pend = s.pend /\ t.bottom = s.bottom /\ t.autowrap = s.autowrap /\ t.cols = s.cols
  BY <1>1 DEF Screens
<1>3. Whole(t.cols, t)
  BY <1>1, <1>2 DEF Whole
<1>4. Below(t.cols, t, t.row + 1)
  BY <1>2 DEF Printed, Tidy, Below
<1>5. Tidy(t.cols, t)
  BY <1>2, <1>3, <1>4 DEF Printed, Tidy
<1> QED
  BY <1>2, <1>5 DEF Printed, Started

\* Initially there is nothing on the screen (Term::new).
LEMMA InitTrip == Init => TripInv
<1> SUFFICES ASSUME Init PROVE TripInv
  OBVIOUS
<1>1. PICK size \in Sizes : screen = NewScreen(size[1], size[2])
  BY DEF Init
<1>2. session \in Sessions /\ typed \in Nat /\ 0 \in Int
  BY DEF Init
<1>3. size[1] \in Positive /\ size[2] \in Positive
  BY <1>1, <1>2, SizesPositive
<1>4. Tidy(size[2], screen)
  BY <1>1, <1>2, <1>3, NewTidy
<1>5. screen.row = 1
  BY <1>1 DEF NewScreen
<1> QED
  BY <1>2, <1>4, <1>5, PrintedAt DEF TripInv, Started

\* Every step of a child that only prints, and of Emacs, keeps it.
LEMMA NextTrip == TripInv /\ [Next]_vars => TripInv'
<1> SUFFICES ASSUME TripInv, [Next]_vars, OnlyPrints PROVE TripInv'
  BY SameSession DEF TripInv, OnlyPrints
<1>0. session' = session /\ session \in Sessions /\ typed \in Nat /\ Printed(screen)
  BY SameSession DEF TripInv
<1> SUFFICES typed' \in Nat /\ Printed(screen')
  BY <1>0 DEF TripInv, Printed
<1> DEFINE n == screen.cols
<1>1. Tidy(n, screen) /\ Started(screen)
  BY <1>0 DEF Printed
<1> HIDE DEF n
<1>2. CASE UNCHANGED vars
  BY <1>0, <1>2 DEF vars, termVars
<1>3. CASE PrintChar
  <2>1. PICK ch \in {typed + 1} \cup {Blank} : Feed("print", Place(screen, ch))
    BY <1>3 DEF PrintChar
  <2>2. ch \in Nat /\ typed' \in Nat
    BY <1>0, <1>3, <2>1 DEF Blank, PrintChar
  <2> DEFINE f == Place(screen, ch)
  <2>3. screen' = f.s
    BY <2>1 DEF Feed, Show
  <2>p. f = Place(screen, ch)
    OBVIOUS
  <2> HIDE DEF f
  <2>4. Tidy(n, f.s) /\ Started(f.s)
    BY <1>1, <2>2, <2>p, PlaceStarts
  <2>5. Printed(f.s)
    BY <2>4, PrintedAt
  <2> QED
    BY <2>2, <2>3, <2>5
<1>4. CASE Newline
  <2> DEFINE f == LineFeed(Goto(screen, screen.row, 0))
  <2>3. screen' = f.s /\ typed' = typed
    BY <1>4 DEF Newline, Feed, Show
  <2>p. f = LineFeed(Goto(screen, screen.row, 0))
    OBVIOUS
  <2> HIDE DEF f
  <2>4. Tidy(n, f.s) /\ Started(f.s)
    BY <1>1, <2>p, NewlineStarts
  <2>5. Printed(f.s)
    BY <2>4, PrintedAt
  <2> QED
    BY <1>0, <2>3, <2>5
<1>5. CASE Resize
  <2>1. PICK size \in Sizes : Show(ResizeScreen(screen, size[1], size[2]))
    BY <1>5 DEF Resize
  <2>2. size[1] \in Positive /\ size[2] \in Positive
    BY <1>0, <2>1, SizesPositive
  <2> DEFINE f == ResizeScreen(screen, size[1], size[2])
             w == size[2]
  <2>3. screen' = f.s /\ typed' = typed
    BY <1>5, <2>1 DEF Resize, Show
  <2>p. f = ResizeScreen(screen, size[1], size[2])
    OBVIOUS
  <2> HIDE DEF f
  <2>4. Tidy(w, f.s) /\ Started(f.s)
    BY <1>1, <2>2, <2>p, ResizeStarts
  <2>5. Printed(f.s)
    BY <2>4, PrintedAt
  <2> QED
    BY <1>0, <2>3, <2>5
<1>6. CASE Drain
  BY <1>0, <1>6 DEF Drain
<1>7. CASE Apply
  <2>1. \E c \in {0, screen.carried} : screen' = [screen EXCEPT !.carried = c]
    BY <1>7 DEF Apply
  <2>2. screen.carried \in Nat
    BY <1>1 DEF Tidy, Whole, Screens
  <2>3. PICK c \in Nat : screen' = [screen EXCEPT !.carried = c]
    BY <2>1, <2>2
  <2>4. Printed(screen')
    BY <1>0, <2>3, CarriedPrinted
  <2>5. typed' = typed
    BY <1>7 DEF Apply
  <2> QED
    BY <1>0, <2>4, <2>5
<1> QED
  BY <1>2, <1>3, <1>4, <1>5, <1>6, <1>7, OnlyThese

\* What the invariant says of a change of width.
LEMMA TripUndone == TripInv => RoundTrip
<1> SUFFICES ASSUME TripInv, OnlyPrints, TailsDrawn(screen) PROVE Undone(screen)
  BY DEF RoundTrip
<1>1. session \in Sessions /\ Tidy(screen.cols, screen) /\ Started(screen)
  BY DEF TripInv, Printed
<1> SUFFICES ASSUME NEW size \in Sizes, NEW there,
                    there = ResizeScreen(screen, Height(screen), size[2]), there.out = << >>
             PROVE  ResizeScreen(there.s, Height(screen), screen.cols) = Quiet(screen)
  BY DEF Undone
<1>2. size[2] \in Positive
  BY <1>1, SizesPositive
<1> QED
  BY <1>1, <1>2, WidthUndone

\* Screen::reflow's round trip: while a child only prints, whatever it prints and whatever
\* its windows were, a change of width that sends nothing to Emacs is undone, rows, wraps
\* and cursor, by changing back, but for a wrapped line that ends in a row of blanks.
THEOREM LayoutKept == Spec => []RoundTrip
<1> QED
  BY InitTrip, NextTrip, TripUndone, PTL DEF Spec
=============================================================================
