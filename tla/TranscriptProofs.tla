-------------------------- MODULE TranscriptProofs --------------------------
(***************************************************************************)
(* That the seam keeps the transcript, proved for a child that prints any  *)
(* text in windows of any sizes.                                           *)
(*                                                                         *)
(* Rows are read as the lines they make up, without their blanks.  A grid  *)
(* cut up at another width makes up the same lines, so a resize changes    *)
(* nothing that is read, and printing changes the end of it alone.         *)
(***************************************************************************)
EXTENDS SeamProofs

-----------------------------------------------------------------------------
(* Text without its blanks *)

\* Characters, and marks for the ends of lines.
Ink == Seq(Int)

\* Bare is computed a cell at a time: the function its definition chooses exists.
LEMMA BareStep ==
  ASSUME NEW cells, Len(cells) \in Nat
  PROVE  \E upto :
           /\ upto = [n \in 0..Len(cells) |->
                       IF n = 0 THEN << >>
                       ELSE IF cells[n] = Blank THEN upto[n - 1] ELSE Append(upto[n - 1], cells[n])]
           /\ Bare(cells) = upto[Len(cells)]
<1> DEFINE More(before, n) == IF cells[n] = Blank THEN before ELSE Append(before, cells[n])
           Upto(m, upto) == upto = [n \in 0..m |-> IF n = 0 THEN << >> ELSE More(upto[n - 1], n)]
           Lengths == {m \in Nat : \E upto : Upto(m, upto)}
<1> HIDE DEF More
<1>1. 0 \in Lengths
  <2>1. Upto(0, [n \in 0..0 |-> << >>])
    OBVIOUS
  <2> QED
    BY <2>1
<1>2. ASSUME NEW m \in Lengths PROVE m + 1 \in Lengths
  <2>1. PICK upto : Upto(m, upto)
    OBVIOUS
  <2> DEFINE last == More(upto[m], m + 1)
             more == [n \in 0..(m + 1) |-> IF n = m + 1 THEN last ELSE upto[n]]
  <2>2. ASSUME NEW n \in 0..(m + 1)
        PROVE  more[n] = IF n = 0 THEN << >> ELSE More(more[n - 1], n)
    <3>1. CASE n = m + 1
      <4>1. more[n] = last /\ n # 0 /\ n - 1 = m
        <5> HIDE DEF last
        <5> QED
          BY <3>1
      <4>2. more[m] = upto[m]
        <5> HIDE DEF last
        <5>1. m \in 0..(m + 1) /\ m # m + 1
          OBVIOUS
        <5> QED
          BY <5>1
      <4> QED
        BY <3>1, <4>1, <4>2
    <3>2. CASE n \in 0..m
      <4>1. more[n] = upto[n] /\ (n # 0 => n - 1 \in 0..m /\ more[n - 1] = upto[n - 1])
        BY <3>2
      <4>2. upto[n] = IF n = 0 THEN << >> ELSE More(upto[n - 1], n)
        BY <2>1, <3>2
      <4> QED
        BY <4>1, <4>2
    <3> QED
      BY <3>1, <3>2
  <2>3. Upto(m + 1, more)
    BY <2>2
  <2> HIDE DEF Upto, more
  <2> QED
    BY <2>3
<1>3. Lengths = Nat
  <2> HIDE DEF Lengths
  <2> QED
    BY <1>1, <1>2, SetInduction DEF Lengths
<1>4. \E upto : Upto(Len(cells), upto)
  <2> HIDE DEF Upto
  <2> QED
    BY <1>3
<1> DEFINE it == CHOOSE upto : Upto(Len(cells), upto)
<1>5. Upto(Len(cells), it)
  <2> HIDE DEF Upto
  <2> QED
    BY <1>4
<1>6. Bare(cells) = it[Len(cells)]
  BY DEF Bare, More
<1> HIDE DEF it
<1> QED
  BY <1>5, <1>6 DEF More

\* A cell at a time: a blank adds nothing, a character itself.
LEMMA BareSnoc ==
  ASSUME NEW x \in Ink, NEW ch \in Int
  PROVE  /\ Bare(<< >>) = << >>
         /\ Bare(Append(x, ch)) = IF ch = Blank THEN Bare(x) ELSE Append(Bare(x), ch)
<1> DEFINE y == Append(x, ch)
<1>0. /\ Len(x) \in Nat /\ Len(y) = Len(x) + 1 /\ y[Len(x) + 1] = ch
      /\ \A n \in 1..Len(x) : y[n] = x[n]
  BY DEF Ink
<1> HIDE DEF y
<1>1. Bare(<< >>) = << >>
  <2>1. Len(<< >>) \in Nat /\ Len(<< >>) = 0 /\ 0 \in 0..Len(<< >>)
    OBVIOUS
  <2>2. PICK upto :
          /\ upto = [n \in 0..Len(<< >>) |->
                      IF n = 0 THEN << >>
                      ELSE IF << >>[n] = Blank THEN upto[n - 1] ELSE Append(upto[n - 1], << >>[n])]
          /\ Bare(<< >>) = upto[Len(<< >>)]
    BY <2>1, BareStep
  <2>3. upto[0] = << >>
    BY <2>1, <2>2
  <2> QED
    BY <2>1, <2>2, <2>3
<1>2. PICK f :
        /\ f = [n \in 0..Len(x) |->
                 IF n = 0 THEN << >>
                 ELSE IF x[n] = Blank THEN f[n - 1] ELSE Append(f[n - 1], x[n])]
        /\ Bare(x) = f[Len(x)]
  BY <1>0, BareStep
<1>3. PICK g :
        /\ g = [n \in 0..Len(y) |->
                 IF n = 0 THEN << >>
                 ELSE IF y[n] = Blank THEN g[n - 1] ELSE Append(g[n - 1], y[n])]
        /\ Bare(y) = g[Len(y)]
  <2>1. Len(y) \in Nat
    BY <1>0
  <2> QED
    BY <2>1, BareStep
<1>4. \A n \in 0..Len(x) : f[n] = IF n = 0 THEN << >>
                                  ELSE IF x[n] = Blank THEN f[n - 1] ELSE Append(f[n - 1], x[n])
  BY <1>2
<1>5. \A n \in 0..(Len(x) + 1) :
        g[n] = IF n = 0 THEN << >>
               ELSE IF y[n] = Blank THEN g[n - 1] ELSE Append(g[n - 1], y[n])
  BY <1>0, <1>3
<1> DEFINE Same == {n \in Nat : n <= Len(x) => f[n] = g[n]}
<1>6. 0 \in Same
  BY <1>0, <1>4, <1>5
<1>7. ASSUME NEW m \in Same PROVE m + 1 \in Same
  <2> SUFFICES ASSUME m + 1 <= Len(x) PROVE f[m + 1] = g[m + 1]
    OBVIOUS
  <2>1. m \in Nat /\ f[m] = g[m] /\ m + 1 \in 1..Len(x) /\ m + 1 \in 0..Len(x)
        /\ m + 1 \in 0..(Len(x) + 1) /\ m + 1 # 0 /\ (m + 1) - 1 = m
    BY <1>0
  <2>2. f[m + 1] = IF x[m + 1] = Blank THEN f[m] ELSE Append(f[m], x[m + 1])
    BY <1>4, <2>1
  <2>3. g[m + 1] = IF y[m + 1] = Blank THEN g[m] ELSE Append(g[m], y[m + 1])
    BY <1>5, <2>1
  <2>4. y[m + 1] = x[m + 1]
    BY <1>0, <2>1
  <2> QED
    BY <2>1, <2>2, <2>3, <2>4
<1>8. Same = Nat
  <2> HIDE DEF Same
  <2> QED
    BY <1>6, <1>7, SetInduction DEF Same
<1>9. f[Len(x)] = g[Len(x)]
  <2>1. Len(x) \in Same
    <3> HIDE DEF Same
    <3> QED
      BY <1>0, <1>8
  <2> QED
    BY <1>0, <2>1
<1>10. Len(x) + 1 \in 0..(Len(x) + 1) /\ Len(x) + 1 # 0 /\ (Len(x) + 1) - 1 = Len(x)
  BY <1>0
<1>11. g[Len(x) + 1] = IF ch = Blank THEN g[Len(x)] ELSE Append(g[Len(x)], ch)
  BY <1>0, <1>5, <1>10
<1> QED
  BY <1>0, <1>1, <1>2, <1>3, <1>9, <1>11 DEF y

\* What is left is what was there.
LEMMA BareType ==
  ASSUME NEW x \in Ink
  PROVE  Bare(x) \in Ink
<1> DEFINE Good == {y \in Seq(Int) : Bare(y) \in Seq(Int)}
<1>1. << >> \in Good
  <2>1. << >> \in Ink /\ 0 \in Int
    BY DEF Ink
  <2>2. Bare(<< >>) = << >>
    BY <2>1, BareSnoc
  <2>3. << >> \in Seq(Int)
    OBVIOUS
  <2> QED
    BY <2>2, <2>3
<1>2. ASSUME NEW w \in Good, NEW e \in Int PROVE Append(w, e) \in Good
  <2>1. w \in Ink /\ Bare(w) \in Seq(Int) /\ Append(w, e) \in Seq(Int)
    BY DEF Ink
  <2>2. Bare(Append(w, e)) = IF e = Blank THEN Bare(w) ELSE Append(Bare(w), e)
    BY <2>1, BareSnoc
  <2>3. Append(Bare(w), e) \in Seq(Int)
    BY <2>1
  <2>4. Bare(Append(w, e)) \in Seq(Int)
    BY <2>1, <2>2, <2>3
  <2> QED
    BY <2>1, <2>4
<1>3. Good = Seq(Int)
  <2>1. Good \in SUBSET Seq(Int)
    OBVIOUS
  <2> HIDE DEF Good
  <2> QED
    BY <1>1, <1>2, <2>1, SnocInduction
<1> QED
  BY <1>3 DEF Ink

\* Two texts end to end leave what each leaves.
LEMMA BareJoin ==
  ASSUME NEW x \in Ink, NEW y \in Ink
  PROVE  x \o y \in Ink /\ Bare(x \o y) = Bare(x) \o Bare(y)
<1> DEFINE Good == {z \in Seq(Int) : Bare(x \o z) = Bare(x) \o Bare(z)}
<1>0. Bare(x) \in Seq(Int) /\ x \in Seq(Int)
  BY BareType DEF Ink
<1>1. << >> \in Good
  <2>1. << >> \in Ink /\ 0 \in Int
    BY DEF Ink
  <2>2. Bare(<< >>) = << >>
    BY <2>1, BareSnoc
  <2>3. x \o << >> = x /\ Bare(x) \o << >> = Bare(x)
    BY <1>0
  <2>4. << >> \in Seq(Int)
    OBVIOUS
  <2>5. Bare(x \o << >>) = Bare(x) \o Bare(<< >>)
    BY <2>2, <2>3
  <2> QED
    BY <2>4, <2>5
<1>2. ASSUME NEW w \in Good, NEW e \in Int PROVE Append(w, e) \in Good
  <2>1. /\ w \in Ink /\ w \in Seq(Int) /\ Bare(x \o w) = Bare(x) \o Bare(w)
        /\ Append(w, e) \in Seq(Int)
    BY DEF Ink
  <2>2. Bare(w) \in Seq(Int)
    BY <2>1, BareType DEF Ink
  <2>3. Bare(Append(w, e)) = IF e = Blank THEN Bare(w) ELSE Append(Bare(w), e)
    BY <2>1, BareSnoc
  <2>4. x \o Append(w, e) = Append(x \o w, e) /\ x \o w \in Seq(Int)
    BY <1>0, <2>1
  <2> DEFINE v == x \o w
  <2>5. v \in Ink
    BY <2>4 DEF Ink
  <2>6. Bare(Append(v, e)) = IF e = Blank THEN Bare(v) ELSE Append(Bare(v), e)
    <3> HIDE DEF v
    <3> QED
      BY <2>5, BareSnoc
  <2>7. Bare(x) \o Append(Bare(w), e) = Append(Bare(x) \o Bare(w), e)
    BY <1>0, <2>2
  <2>8. Bare(x \o Append(w, e)) = IF e = Blank THEN Bare(x) \o Bare(w)
                                  ELSE Append(Bare(x) \o Bare(w), e)
    BY <2>1, <2>4, <2>6
  <2>9. Bare(x \o Append(w, e)) = Bare(x) \o Bare(Append(w, e))
    BY <2>3, <2>7, <2>8
  <2> QED
    BY <2>1, <2>9
<1>3. Good = Seq(Int)
  <2>1. Good \in SUBSET Seq(Int)
    OBVIOUS
  <2> HIDE DEF Good
  <2> QED
    BY <1>1, <1>2, <2>1, SnocInduction
<1>4. x \o y \in Ink
  BY <1>0 DEF Ink
<1> QED
  BY <1>3, <1>4 DEF Ink

\* Blanks leave nothing.
LEMMA BareBlanks ==
  ASSUME NEW x \in Ink, \A i \in 1..Len(x) : x[i] = Blank
  PROVE  Bare(x) = << >>
<1> DEFINE Good == {z \in Seq(Int) : (\A i \in 1..Len(z) : z[i] = Blank) => Bare(z) = << >>}
<1>1. << >> \in Good
  <2>1. << >> \in Ink /\ 0 \in Int
    BY DEF Ink
  <2>2. Bare(<< >>) = << >>
    BY <2>1, BareSnoc
  <2> QED
    BY <2>2
<1>2. ASSUME NEW w \in Good, NEW e \in Int PROVE Append(w, e) \in Good
  <2>1. w \in Ink /\ Append(w, e) \in Seq(Int)
    BY DEF Ink
  <2>2. ASSUME \A i \in 1..Len(Append(w, e)) : Append(w, e)[i] = Blank
        PROVE  Bare(Append(w, e)) = << >>
    <3>1. Len(w) \in Nat /\ Len(Append(w, e)) = Len(w) + 1 /\ Append(w, e)[Len(w) + 1] = e
      BY <2>1
    <3>2. \A i \in 1..Len(w) : Append(w, e)[i] = w[i]
      BY <2>1
    <3>3. e = Blank
      BY <2>2, <3>1
    <3>4. \A i \in 1..Len(w) : w[i] = Blank
      BY <2>2, <3>1, <3>2
    <3>5. Bare(w) = << >>
      BY <3>4
    <3>6. Bare(Append(w, e)) = Bare(w)
      BY <2>1, <3>3, BareSnoc
    <3> QED
      BY <3>5, <3>6
  <2> QED
    BY <2>1, <2>2
<1>3. Good = Seq(Int)
  <2>1. Good \in SUBSET Seq(Int)
    OBVIOUS
  <2> HIDE DEF Good
  <2> QED
    BY <1>1, <1>2, <2>1, SnocInduction
<1> QED
  BY <1>3 DEF Ink

\* Past its last column that is not blank a row has nothing (Row::content_len).
LEMMA ContentLast ==
  ASSUME NEW n \in Nat, NEW r \in Width(n)
  PROVE  \A i \in ContentLen(r) + 1 .. n : r.cells[i] = Blank
<1> DEFINE Marks == {0} \cup {i \in DOMAIN r.cells : r.cells[i] # Blank}
<1>1. DOMAIN r.cells = 1..n
  BY DEF Width, Text
<1>2. Marks \in SUBSET (0..n) /\ Marks # {}
  BY <1>1
<1>3. ContentLen(r) = Max(Marks)
  BY DEF ContentLen
<1> HIDE DEF Marks
<1>4. Max(Marks) \in Marks /\ \A x \in Marks : x <= Max(Marks)
  BY <1>2, MaxBound
<1>5. ContentLen(r) \in 0..n
  BY <1>2, <1>3, <1>4
<1> SUFFICES ASSUME NEW i \in ContentLen(r) + 1 .. n, r.cells[i] # Blank PROVE FALSE
  OBVIOUS
<1>6. i \in 1..n /\ i > ContentLen(r)
  BY <1>5
<1>7. i \in Marks
  BY <1>1, <1>6 DEF Marks
<1> QED
  BY <1>3, <1>4, <1>5, <1>6, <1>7

\* Text is ink, and two runs of ink are one.
LEMMA InkFacts ==
  /\ \A x \in Text : x \in Ink
  /\ << >> \in Ink
  /\ \A x \in Ink : x \o << >> = x /\ << >> \o x = x
  /\ \A x, y \in Ink : x \o y \in Ink
  /\ \A x, y, z \in Ink : (x \o y) \o z = x \o (y \o z)
<1>1. ASSUME NEW x \in Text PROVE x \in Ink
  <2>1. \A e \in Nat : e \in Int
    OBVIOUS
  <2>2. x \in Seq(Nat)
    BY DEF Text
  <2> QED
    BY <2>1, <2>2, SeqWiden DEF Ink
<1>2. << >> \in Ink /\ \A x \in Ink : x \o << >> = x /\ << >> \o x = x
  BY DEF Ink
<1>3. \A x, y \in Ink : x \o y \in Ink
  BY DEF Ink
<1>4. ASSUME NEW x \in Ink, NEW y \in Ink, NEW z \in Ink PROVE (x \o y) \o z = x \o (y \o z)
  BY DEF Ink
<1> QED
  BY <1>1, <1>2, <1>3, <1>4

\* It is all one which of three runs are joined first.
Associates(x, y, z) == (x \o y) \o z = x \o (y \o z)

LEMMA InkAssoc ==
  ASSUME NEW x \in Ink, NEW y \in Ink, NEW z \in Ink
  PROVE  Associates(x, y, z)
  BY InkFacts DEF Associates

\* What stands before the same ending is the same.
LEMMA InkCancel ==
  ASSUME NEW x \in Ink, NEW y \in Ink, NEW z \in Ink, x \o z = y \o z
  PROVE  x = y
<1>1. Len(x \o z) = Len(x) + Len(z) /\ Len(y \o z) = Len(y) + Len(z)
  BY DEF Ink
<1>2. Len(x) \in Nat /\ Len(y) \in Nat /\ Len(z) \in Nat
  BY DEF Ink
<1>3. Len(x) = Len(y)
  BY <1>1, <1>2
<1>4. \A i \in 1..Len(x) : (x \o z)[i] = x[i]
  BY DEF Ink
<1>5. \A i \in 1..Len(y) : (y \o z)[i] = y[i]
  BY DEF Ink
<1>6. \A i \in 1..Len(x) : x[i] = y[i]
  BY <1>3, <1>4, <1>5
<1>7. x = [i \in 1..Len(x) |-> x[i]] /\ y = [i \in 1..Len(y) |-> y[i]]
  BY DEF Ink
<1> QED
  BY <1>3, <1>6, <1>7

\* Trimming a row takes nothing but blanks (Row::line_runs).
LEMMA BareTrim ==
  ASSUME NEW n \in Nat, NEW r \in Width(n)
  PROVE  LineCells(r) \in Text /\ Bare(LineCells(r)) = Bare(r.cells)
<1> DEFINE k == IF r.wrapped THEN Len(r.cells) ELSE ContentLen(r)
           tail == SubSeq(r.cells, k + 1, Len(r.cells))
<1>1. r.cells \in Seq(Nat) /\ Len(r.cells) = n
  BY DEF Width, Text
<1>2. k \in 0..n
  BY <1>1, ContentWithin
<1>3. LineCells(r) = SubSeq(r.cells, 1, k)
  BY DEF LineCells
<1>4. \A i \in k + 1 .. n : r.cells[i] = Blank
  BY <1>1, ContentLast
<1> HIDE DEF k
<1>5. /\ r.cells = LineCells(r) \o tail /\ LineCells(r) \in Seq(Nat)
      /\ tail \in Seq(Nat) /\ Len(tail) = n - k
      /\ \A i \in 1..(n - k) : tail[i] = r.cells[k + i]
  <2>1. r.cells \in Seq(Nat) /\ k \in 0..Len(r.cells)
    BY <1>1, <1>2
  <2>2. /\ r.cells = SubSeq(r.cells, 1, k) \o tail /\ SubSeq(r.cells, 1, k) \in Seq(Nat)
        /\ tail \in Seq(Nat) /\ Len(tail) = Len(r.cells) - k
        /\ \A i \in 1..(Len(r.cells) - k) : tail[i] = r.cells[k + i]
    <3>1. TwoParts(Nat, r.cells, k)
      BY ONLY <2>1, SplitIn
    <3> QED
      BY ONLY <3>1 DEF TwoParts
  <2> QED
    BY ONLY <1>1, <1>3, <2>2
<1> HIDE DEF tail
<1>6. \A i \in 1..Len(tail) : tail[i] = Blank
  <2> SUFFICES ASSUME NEW i \in 1..Len(tail) PROVE tail[i] = Blank
    OBVIOUS
  <2>1. i \in 1..(n - k) /\ k + i \in k + 1 .. n
    BY <1>2, <1>5
  <2> QED
    BY <1>4, <1>5, <2>1
<1>7. LineCells(r) \in Ink /\ tail \in Ink /\ LineCells(r) \in Text
  <2>1. LineCells(r) \in Text /\ tail \in Text
    BY <1>5 DEF Text
  <2> QED
    BY <2>1, InkFacts
<1>8. Bare(tail) = << >>
  BY <1>6, <1>7, BareBlanks
<1>9. Bare(r.cells) = Bare(LineCells(r)) \o Bare(tail)
  <2>1. ASSUME NEW x \in Ink, NEW y \in Ink PROVE Bare(x \o y) = Bare(x) \o Bare(y)
    BY BareJoin
  <2> QED
    BY <1>5, <1>7, <2>1
<1>10. Bare(LineCells(r)) \in Ink
  BY <1>7, BareType
<1> QED
  BY <1>7, <1>8, <1>9, <1>10, InkFacts

-----------------------------------------------------------------------------
(* Rows and lines read without their blanks *)

\* Two sequences that agree everywhere are one.
LEMMA SameSeq ==
  ASSUME NEW S, NEW p \in Seq(S), NEW q \in Seq(S), Len(p) = Len(q),
         \A i \in 1..Len(p) : p[i] = q[i]
  PROVE  p = q
<1>1. p = [i \in 1..Len(p) |-> p[i]] /\ q = [i \in 1..Len(q) |-> q[i]]
  OBVIOUS
<1> QED
  BY <1>1

\* A sequence put before another is put before all that is added to it.
LEMMA SnocJoin ==
  ASSUME NEW S, NEW x \in Seq(S), NEW w \in Seq(S), NEW e \in S
  PROVE  /\ Append(w, e) \in Seq(S) /\ x \o w \in Seq(S)
         /\ x \o Append(w, e) = Append(x \o w, e)
  OBVIOUS

\* Sequences are laid end to end one after another.
LEMMA FlattenSnoc ==
  ASSUME NEW S, NEW w \in Seq(Seq(S)), NEW e \in Seq(S)
  PROVE  /\ FlattenSeq(<< >>) = << >>
         /\ FlattenSeq(Append(w, e)) = FlattenSeq(w) \o e
<1> DEFINE y == Append(w, e)
<1>0. /\ Len(w) \in Nat /\ Len(y) \in Nat /\ Len(y) # 0 /\ Len(y) = Len(w) + 1 /\ y[Len(w) + 1] = e
      /\ \A n \in 1..Len(w) : y[n] = w[n]
  OBVIOUS
<1> HIDE DEF y
<1>1. FlattenSeq(<< >>) = << >>
  BY DEF FlattenSeq
<1>2. PICK g :
        /\ g = [n \in 1..Len(y) |-> IF n = 1 THEN y[n] ELSE g[n - 1] \o y[n]]
        /\ FlattenSeq(y) = g[Len(y)]
  BY <1>0, FlattenStep
<1>3. \A n \in 1..(Len(w) + 1) : g[n] = IF n = 1 THEN y[n] ELSE g[n - 1] \o y[n]
  BY <1>0, <1>2
<1>4. CASE Len(w) = 0
  <2>1. w = << >>
    BY <1>4
  <2>2. g[1] = e
    BY <1>0, <1>3, <1>4
  <2>3. << >> \o e = e
    OBVIOUS
  <2> QED
    BY <1>0, <1>1, <1>2, <1>4, <2>1, <2>2, <2>3 DEF y
<1>5. CASE Len(w) # 0
  <2>1. PICK f :
          /\ f = [n \in 1..Len(w) |-> IF n = 1 THEN w[n] ELSE f[n - 1] \o w[n]]
          /\ FlattenSeq(w) = f[Len(w)]
    BY <1>0, <1>5, FlattenStep
  <2>2. \A n \in 1..Len(w) : f[n] = IF n = 1 THEN w[n] ELSE f[n - 1] \o w[n]
    BY <2>1
  <2> DEFINE Same == {n \in Nat : n + 1 <= Len(w) => f[n + 1] = g[n + 1]}
  <2>3. 0 \in Same
    BY <1>0, <1>3, <1>5, <2>2
  <2>4. ASSUME NEW m \in Same PROVE m + 1 \in Same
    <3> SUFFICES ASSUME m + 2 <= Len(w) PROVE f[m + 2] = g[m + 2]
      OBVIOUS
    <3>1. m \in Nat /\ f[m + 1] = g[m + 1] /\ m + 2 \in 1..Len(w) /\ m + 2 \in 1..(Len(w) + 1)
          /\ m + 2 # 1 /\ (m + 2) - 1 = m + 1
      BY <1>0
    <3>2. f[m + 2] = f[m + 1] \o w[m + 2]
      BY <2>2, <3>1
    <3>3. g[m + 2] = g[m + 1] \o y[m + 2]
      BY <1>3, <3>1
    <3> QED
      BY <1>0, <3>1, <3>2, <3>3
  <2>5. Same = Nat
    <3> HIDE DEF Same
    <3> QED
      BY <2>3, <2>4, SetInduction DEF Same
  <2>6. PICK n \in Nat : n + 1 = Len(w)
    <3>1. Len(w) - 1 \in Nat /\ (Len(w) - 1) + 1 = Len(w)
      BY <1>0, <1>5
    <3> QED
      BY <3>1
  <2>7. n \in Same
    <3> HIDE DEF Same
    <3> QED
      BY <2>5
  <2>8. f[Len(w)] = g[Len(w)]
    BY <1>0, <2>6, <2>7
  <2>9. Len(w) + 1 \in 1..(Len(w) + 1) /\ Len(w) + 1 # 1 /\ (Len(w) + 1) - 1 = Len(w)
    BY <1>0, <1>5
  <2>10. g[Len(w) + 1] = g[Len(w)] \o y[Len(w) + 1]
    BY <1>3, <2>9
  <2> QED
    BY <1>0, <1>1, <1>2, <2>1, <2>8, <2>10 DEF y
<1> QED
  BY <1>4, <1>5

\* What a row reads as: its characters, and a mark where its line ends.
Glyphs(m, r) == Bare(IF r.newline THEN Append(r.text, m) ELSE r.text)
End(m) == Bare(<< m >>)

Read(m, rows) == FlattenSeq([i \in DOMAIN rows |-> Glyphs(m, rows[i])])

\* A row reads as its text and its end.
LEMMA GlyphFacts ==
  ASSUME NEW m \in Int, NEW r \in Sent
  PROVE  /\ Glyphs(m, r) \in Ink /\ Bare(r.text) \in Ink /\ End(m) \in Ink /\ r.text \in Ink
         /\ Glyphs(m, r) = IF r.newline THEN Bare(r.text) \o End(m) ELSE Bare(r.text)
<1>1. r.text \in Ink /\ << m >> \in Ink
  <2>1. r.text \in Text
    BY DEF Sent
  <2> QED
    BY <2>1, InkFacts DEF Ink
<1>2. ASSUME NEW x \in Ink PROVE Bare(x) \in Ink
  BY BareType
<1>3. Append(r.text, m) = r.text \o << m >>
  BY <1>1 DEF Ink
<1>4. Bare(r.text \o << m >>) = Bare(r.text) \o End(m)
  BY <1>1, BareJoin DEF End
<1>5. Bare(r.text) \o End(m) \in Ink
  BY <1>1, <1>2, InkFacts DEF End
<1> QED
  BY <1>1, <1>2, <1>3, <1>4, <1>5 DEF Glyphs, End

\* Rows are read one after another.
LEMMA ReadSnoc ==
  ASSUME NEW m \in Int, NEW x \in Seq(Sent), NEW r \in Sent
  PROVE  /\ Read(m, << >>) = << >> /\ Read(m, x) \in Ink
         /\ Read(m, Append(x, r)) = Read(m, x) \o Glyphs(m, r)
<1> DEFINE Each(rows) == [i \in DOMAIN rows |-> Glyphs(m, rows[i])]
           y == Append(x, r)
<1>1. ASSUME NEW rows \in Seq(Sent)
      PROVE  /\ Each(rows) \in Seq(Ink) /\ Len(Each(rows)) = Len(rows)
             /\ \A i \in 1..Len(rows) : Each(rows)[i] = Glyphs(m, rows[i])
  <2>1. \A i \in 1..Len(rows) : rows[i] \in Sent
    OBVIOUS
  <2>2. \A i \in 1..Len(rows) : Glyphs(m, rows[i]) \in Ink
    BY <2>1, GlyphFacts
  <2>3. Each(rows) = [i \in 1..Len(rows) |-> Glyphs(m, rows[i])]
    OBVIOUS
  <2> QED
    BY <2>2, <2>3
<1>2. Each(<< >>) = << >>
  OBVIOUS
<1>3. /\ y \in Seq(Sent) /\ Len(x) \in Nat /\ Len(y) = Len(x) + 1 /\ y[Len(x) + 1] = r
      /\ \A i \in 1..Len(x) : y[i] = x[i]
  OBVIOUS
<1> DEFINE ex == Each(x)
           ey == Each(y)
           g == Glyphs(m, r)
<1>4. g \in Ink
  BY GlyphFacts
<1> HIDE DEF y
<1>5. /\ ex \in Seq(Ink) /\ Len(ex) = Len(x)
      /\ \A i \in 1..Len(x) : ex[i] = Glyphs(m, x[i])
  BY <1>1
<1>6. /\ ey \in Seq(Ink) /\ Len(ey) = Len(x) + 1
      /\ \A i \in 1..(Len(x) + 1) : ey[i] = Glyphs(m, y[i])
  BY <1>1, <1>3
<1> HIDE DEF Each, ex, ey, g
<1>7. \A i \in 1..Len(x) : ey[i] = ex[i]
  BY <1>3, <1>5, <1>6
<1>8. ey[Len(x) + 1] = g
  BY <1>3, <1>6 DEF g
<1>9. ASSUME NEW p \in Seq(Ink), NEW q \in Seq(Ink), NEW e \in Ink, Len(q) = Len(p) + 1,
             \A i \in 1..Len(p) : q[i] = p[i], q[Len(p) + 1] = e
      PROVE  q = Append(p, e)
  <2>1. /\ Append(p, e) \in Seq(Ink) /\ Len(Append(p, e)) = Len(p) + 1 /\ Len(p) \in Nat
        /\ Append(p, e)[Len(p) + 1] = e /\ \A i \in 1..Len(p) : Append(p, e)[i] = p[i]
    OBVIOUS
  <2>2. ASSUME NEW i \in 1..(Len(p) + 1) PROVE q[i] = Append(p, e)[i]
    <3>1. CASE i = Len(p) + 1
      BY <1>9, <2>1, <3>1
    <3>2. CASE i \in 1..Len(p)
      BY <1>9, <2>1, <3>2
    <3> QED
      BY <2>1, <3>1, <3>2
  <2> QED
    BY <1>9, <2>1, <2>2, SameSeq
<1>10. ey = Append(ex, g)
  BY <1>4, <1>5, <1>6, <1>7, <1>8, <1>9
<1>11. FlattenSeq(<< >>) = << >> /\ FlattenSeq(Append(ex, g)) = FlattenSeq(ex) \o g
  BY <1>4, <1>5, FlattenSnoc DEF Ink
<1>12. FlattenSeq(ex) \in Ink
  BY <1>5, FlattenType DEF Ink
<1> QED
  BY <1>2, <1>10, <1>11, <1>12 DEF Read, Each, ex, ey, g, y

\* A batch is read, and then the next.
LEMMA ReadJoin ==
  ASSUME NEW m \in Int, NEW x \in Seq(Sent), NEW y \in Seq(Sent)
  PROVE  /\ x \o y \in Seq(Sent)
         /\ Read(m, x \o y) = Read(m, x) \o Read(m, y)
         /\ Read(m, x) \in Ink /\ Read(m, y) \in Ink
<1> DEFINE Good == {z \in Seq(Sent) : Read(m, x \o z) = Read(m, x) \o Read(m, z)}
<1>0. [text |-> << >>, newline |-> TRUE] \in Sent
  BY DEF Sent, Text
<1>t. ASSUME NEW z \in Seq(Sent) PROVE Read(m, z) \in Ink /\ Read(m, << >>) = << >>
  BY <1>0, ReadSnoc
<1>1. << >> \in Good
  <2>1. << >> \in Seq(Sent) /\ x \o << >> = x
    OBVIOUS
  <2>2. Read(m, x) \o << >> = Read(m, x)
    BY <1>t, InkFacts
  <2> QED
    BY <1>t, <2>1, <2>2
<1>2. ASSUME NEW w \in Good, NEW e \in Sent PROVE Append(w, e) \in Good
  <2>1. /\ w \in Seq(Sent) /\ Read(m, x \o w) = Read(m, x) \o Read(m, w)
    OBVIOUS
  <2>j. /\ Append(w, e) \in Seq(Sent) /\ x \o w \in Seq(Sent)
        /\ x \o Append(w, e) = Append(x \o w, e)
    BY <2>1, SnocJoin
  <2>2. ASSUME NEW z \in Seq(Sent) PROVE Read(m, Append(z, e)) = Read(m, z) \o Glyphs(m, e)
    BY ReadSnoc
  <2>3. Read(m, Append(x \o w, e)) = (Read(m, x) \o Read(m, w)) \o Glyphs(m, e)
    BY <2>1, <2>j, <2>2
  <2>4. Read(m, Append(w, e)) = Read(m, w) \o Glyphs(m, e)
    BY <2>1, <2>j, <2>2
  <2>5. Glyphs(m, e) \in Ink /\ Read(m, x) \in Ink /\ Read(m, w) \in Ink
    BY <1>t, <2>1, <2>j, GlyphFacts
  <2>6. (Read(m, x) \o Read(m, w)) \o Glyphs(m, e) = Read(m, x) \o (Read(m, w) \o Glyphs(m, e))
    BY <2>5, InkFacts
  <2> QED
    BY <2>1, <2>j, <2>3, <2>4, <2>6
<1>3. Good = Seq(Sent)
  <2>1. Good \in SUBSET Seq(Sent)
    OBVIOUS
  <2> HIDE DEF Good
  <2> QED
    BY <1>1, <1>2, <2>1, SnocInduction
<1> QED
  BY <1>3, <1>t

-----------------------------------------------------------------------------
(* Lines from what is read *)

EndMark == -1

\* What ends a line where wrapped rows are joined; where they are not, nothing does.
Mark(join) == IF join THEN EndMark ELSE Blank

Stroke(c) == IF c = EndMark THEN [text |-> << >>, newline |-> TRUE]
             ELSE [text |-> << c >>, newline |-> FALSE]
Strokes == [text : Ink, newline : BOOLEAN]

LinesOf(ink) == AppendTo(Emptied, [i \in DOMAIN ink |-> Stroke(ink[i])])

\* The lines are made a character at a time.
LEMMA LinesSnoc ==
  ASSUME NEW x \in Ink, NEW c \in Int
  PROVE  /\ LinesOf(<< >>) = Emptied
         /\ LinesOf(Append(x, c)) = Inserted(LinesOf(x), Stroke(c))
<1> DEFINE Each(z) == [i \in DOMAIN z |-> Stroke(z[i])]
           y == Append(x, c)
           k == Stroke(c)
<1>0. ASSUME NEW d \in Int PROVE Stroke(d) \in Strokes
  <2>1. << d >> \in Ink /\ << >> \in Ink
    BY DEF Ink
  <2> QED
    BY <2>1 DEF Stroke, Strokes
<1>1. ASSUME NEW z \in Ink
      PROVE  /\ Each(z) \in Seq(Strokes) /\ Len(Each(z)) = Len(z)
             /\ \A i \in 1..Len(z) : Each(z)[i] = Stroke(z[i])
  <2>1. \A i \in 1..Len(z) : z[i] \in Int /\ Stroke(z[i]) \in Strokes
    BY <1>0 DEF Ink
  <2>2. Each(z) = [i \in 1..Len(z) |-> Stroke(z[i])] /\ Len(z) \in Nat
    BY DEF Ink
  <2> QED
    BY <2>1, <2>2
<1>2. Each(<< >>) = << >>
  OBVIOUS
<1>3. /\ y \in Ink /\ Len(x) \in Nat /\ Len(y) = Len(x) + 1 /\ y[Len(x) + 1] = c
      /\ \A i \in 1..Len(x) : y[i] = x[i]
  BY DEF Ink
<1> DEFINE ex == Each(x)
           ey == Each(y)
           more == Append(ex, k)
<1>4. k \in Strokes
  BY <1>0
<1> HIDE DEF y
<1>5. /\ ex \in Seq(Strokes) /\ Len(ex) = Len(x)
      /\ \A i \in 1..Len(x) : ex[i] = Stroke(x[i])
  BY <1>1
<1>6. /\ ey \in Seq(Strokes) /\ Len(ey) = Len(x) + 1
      /\ \A i \in 1..(Len(x) + 1) : ey[i] = Stroke(y[i])
  BY <1>1, <1>3
<1> HIDE DEF Each, ex, ey, k
<1>7. /\ more \in Seq(Strokes) /\ Len(more) = Len(x) + 1 /\ more[Len(x) + 1] = k
      /\ \A i \in 1..Len(x) : more[i] = ex[i]
  BY <1>4, <1>5
<1> HIDE DEF more
<1>8. ASSUME NEW i \in 1..(Len(x) + 1) PROVE ey[i] = more[i]
  <2>1. CASE i = Len(x) + 1
    BY <1>3, <1>6, <1>7, <2>1 DEF k
  <2>2. CASE i \in 1..Len(x)
    BY <1>3, <1>5, <1>6, <1>7, <2>2
  <2> QED
    BY <1>3, <2>1, <2>2
<1>9. ey = more
  BY <1>6, <1>7, <1>8, SameSeq
<1>10. /\ AppendTo(Emptied, << >>) = Emptied
       /\ AppendTo(Emptied, Append(ex, k)) = Inserted(AppendTo(Emptied, ex), k)
  BY <1>4, <1>5, AppendSnoc
<1> QED
  BY <1>2, <1>9, <1>10 DEF LinesOf, Each, ex, ey, more, k, y

\* There is always a line that is open.
LEMMA LinesShape ==
  ASSUME NEW x \in Ink
  PROVE  \E w \in Seq(Ink), e \in Ink : LinesOf(x) = Append(w, e)
<1> DEFINE Shaped(b) == \E w \in Seq(Ink), e \in Ink : b = Append(w, e)
           Good == {z \in Seq(Int) : Shaped(LinesOf(z))}
<1>1. << >> \in Good
  <2>1. << >> \in Ink /\ 0 \in Int /\ << >> \in Seq(Int) /\ << >> \in Seq(Ink)
    BY DEF Ink
  <2>2. LinesOf(<< >>) = Append(<< >>, << >>)
    BY <2>1, LinesSnoc DEF Emptied
  <2> QED
    BY <2>1, <2>2
<1>2. ASSUME NEW z \in Good, NEW c \in Int PROVE Append(z, c) \in Good
  <2>1. z \in Ink /\ Append(z, c) \in Seq(Int)
    BY DEF Ink
  <2>2. PICK w \in Seq(Ink), e \in Ink : LinesOf(z) = Append(w, e)
    OBVIOUS
  <2>3. LinesOf(Append(z, c)) = Inserted(Append(w, e), Stroke(c))
    BY <2>1, <2>2, LinesSnoc
  <2>4. << >> \in Ink /\ e \o << >> = e /\ e \o << c >> \in Ink
    BY DEF Ink
  <2>5. Stroke(c).text \in {<< >>, << c >>} /\ e \o Stroke(c).text \in Ink
    BY <2>4 DEF Stroke
  <2> DEFINE f == e \o Stroke(c).text
  <2>6. Inserted(Append(w, e), Stroke(c)) = IF Stroke(c).newline THEN Append(Append(w, f), << >>)
                                            ELSE Append(w, f)
    <3>1. InsertsOnto(w, e, Stroke(c))
      BY ONLY w \in Seq(Ink), e \in Ink, <2>5, InsertedOnto
    <3> QED
      BY ONLY <3>1 DEF InsertsOnto
  <2>7. Append(w, f) \in Seq(Ink) /\ f \in Ink
    BY <2>5
  <2> HIDE DEF f
  <2>8. Shaped(LinesOf(Append(z, c)))
    BY <2>3, <2>4, <2>6, <2>7
  <2> QED
    BY <2>1, <2>8
<1>3. Good = Seq(Int)
  <2>1. Good \in SUBSET Seq(Int)
    OBVIOUS
  <2> HIDE DEF Good
  <2> QED
    BY <1>1, <1>2, <2>1, SnocInduction
<1>4. x \in Good
  <2> HIDE DEF Good
  <2> QED
    BY <1>3 DEF Ink
<1> QED
  BY <1>4

\* A character goes on the open line, and a mark opens the next.
LEMMA LinesGrow ==
  ASSUME NEW x \in Ink, NEW w \in Seq(Ink), NEW e \in Ink, LinesOf(x) = Append(w, e)
  PROVE  /\ \A y \in Text : LinesOf(x \o y) = Append(w, e \o y)
         /\ LinesOf(x \o << EndMark >>) = Append(Append(w, e), << >>)
<1> DEFINE Good == {z \in Seq(Nat) : LinesOf(x \o z) = Append(w, e \o z)}
<1>0. x \in Seq(Int) /\ e \in Seq(Int) /\ << >> \in Seq(Nat)
  BY DEF Ink
<1>1. << >> \in Good
  <2>1. x \o << >> = x /\ e \o << >> = e
    BY InkFacts
  <2>2. LinesOf(x \o << >>) = Append(w, e \o << >>)
    BY <2>1
  <2> QED
    BY <1>0, <2>2
<1>2. ASSUME NEW z \in Good, NEW c \in Nat PROVE Append(z, c) \in Good
  <2>1. z \in Seq(Nat) /\ Append(z, c) \in Seq(Nat) /\ LinesOf(x \o z) = Append(w, e \o z)
    OBVIOUS
  <2>2. z \in Ink
    BY <2>1, InkFacts DEF Text
  <2>3. x \o z \in Ink /\ e \o z \in Ink
    BY <2>2, InkFacts
  <2>4. x \o Append(z, c) = Append(x \o z, c) /\ e \o Append(z, c) = Append(e \o z, c)
    <3>1. ASSUME NEW a \in Ink, NEW b \in Ink, NEW d \in Int
          PROVE  a \o Append(b, d) = Append(a \o b, d)
      <4>1. a \in Seq(Int) /\ b \in Seq(Int) /\ d \in Int
        BY DEF Ink
      <4> QED
        BY ONLY <4>1, SnocJoin
    <3>2. c \in Int
      OBVIOUS
    <3> QED
      BY <2>2, <3>1, <3>2
  <2>5. Stroke(c) = [text |-> << c >>, newline |-> FALSE]
    BY DEF Stroke, EndMark
  <2> DEFINE l == e \o z
             v == x \o z
  <2>6. LinesOf(Append(v, c)) = Inserted(LinesOf(v), Stroke(c))
    <3> HIDE DEF v
    <3>1. v \in Ink /\ c \in Int
      BY <2>3 DEF v
    <3> QED
      BY <3>1, LinesSnoc
  <2>7. Inserted(Append(w, l), Stroke(c)) = Append(w, Append(l, c))
    <3>1. l \in Ink
      BY <2>3
    <3> HIDE DEF l
    <3>2. l \o << c >> = Append(l, c) /\ l \o << c >> \in Ink
      BY <3>1 DEF Ink
    <3>3. l \o Stroke(c).text = Append(l, c) /\ l \o Stroke(c).text \in Ink /\ ~Stroke(c).newline
      BY <2>5, <3>2
    <3> DEFINE k == Stroke(c)
    <3> HIDE DEF k
    <3>4. l \o k.text \in Ink /\ ~k.newline /\ l \o k.text = Append(l, c)
      BY <3>3 DEF k
    <3>5. Inserted(Append(w, l), k) = IF k.newline THEN Append(Append(w, l \o k.text), << >>)
                                      ELSE Append(w, l \o k.text)
      <4>1. ASSUME NEW a \in Ink, NEW r, a \o r.text \in Ink
            PROVE  Inserted(Append(w, a), r) = IF r.newline THEN Append(Append(w, a \o r.text), << >>)
                                               ELSE Append(w, a \o r.text)
        BY <4>1, InsertedShape
      <4> QED
        BY <3>1, <3>4, <4>1
    <3> QED
      BY <3>4, <3>5 DEF k
  <2>8. LinesOf(x \o Append(z, c)) = Append(w, e \o Append(z, c))
    BY <2>1, <2>4, <2>6, <2>7
  <2> QED
    BY <2>1, <2>8
<1>3. Good = Seq(Nat)
  <2>1. Good \in SUBSET Seq(Nat)
    OBVIOUS
  <2> HIDE DEF Good
  <2> QED
    BY <1>1, <1>2, <2>1, SnocInduction
<1>4. LinesOf(x \o << EndMark >>) = Append(Append(w, e), << >>)
  <2>1. x \o << EndMark >> = Append(x, EndMark) /\ EndMark \in Int
    BY <1>0 DEF EndMark
  <2>2. LinesOf(Append(x, EndMark)) = Inserted(Append(w, e), Stroke(EndMark))
    BY <2>1, LinesSnoc
  <2>3. Stroke(EndMark) = [text |-> << >>, newline |-> TRUE]
    BY DEF Stroke
  <2>4. e \o Stroke(EndMark).text = e /\ Stroke(EndMark).newline
    BY <2>3, InkFacts
  <2>5. Inserted(Append(w, e), Stroke(EndMark)) =
          IF Stroke(EndMark).newline THEN Append(Append(w, e \o Stroke(EndMark).text), << >>)
          ELSE Append(w, e \o Stroke(EndMark).text)
    BY <2>4, InsertedShape
  <2> QED
    BY <2>1, <2>2, <2>4, <2>5
<1> QED
  BY <1>3, <1>4 DEF Text

\* A mark is a mark, and where wrapped rows are not joined it is nothing.
LEMMA MarkFacts ==
  ASSUME NEW join \in BOOLEAN
  PROVE  /\ Mark(join) \in Int /\ End(Mark(join)) \in Ink
         /\ End(Mark(join)) = IF join THEN << EndMark >> ELSE << >>
<1>1. EndMark \in Int /\ Blank \in Int /\ EndMark # Blank
  BY DEF EndMark, Blank
<1>2. << >> \in Ink
  BY InkFacts
<1>3. ASSUME NEW c \in Int PROVE Bare(<< c >>) = IF c = Blank THEN << >> ELSE << c >>
  <2>1. << c >> = Append(<< >>, c)
    OBVIOUS
  <2>2. Bare(<< >>) = << >> /\ Bare(Append(<< >>, c)) = IF c = Blank THEN Bare(<< >>) ELSE Append(Bare(<< >>), c)
    BY <1>2, BareSnoc
  <2> QED
    BY <2>1, <2>2
<1>4. << EndMark >> \in Ink
  BY <1>1 DEF Ink
<1> QED
  BY <1>1, <1>2, <1>3, <1>4 DEF Mark, End

\* Text stays text without its blanks.
LEMMA BareText ==
  ASSUME NEW x \in Text
  PROVE  Bare(x) \in Text
<1> DEFINE Good == {y \in Seq(Nat) : Bare(y) \in Seq(Nat)}
<1>1. << >> \in Good
  <2>1. Bare(<< >>) = << >> /\ << >> \in Seq(Nat)
    <3>1. << >> \in Ink /\ 0 \in Int
      BY InkFacts
    <3> QED
      BY <3>1, BareSnoc
  <2> QED
    BY <2>1
<1>2. ASSUME NEW w \in Good, NEW e \in Nat PROVE Append(w, e) \in Good
  <2>1. w \in Text /\ Bare(w) \in Seq(Nat) /\ Append(w, e) \in Seq(Nat)
    BY DEF Text
  <2>2. w \in Ink /\ e \in Int
    BY <2>1, InkFacts
  <2>3. Bare(Append(w, e)) = IF e = Blank THEN Bare(w) ELSE Append(Bare(w), e)
    BY <2>2, BareSnoc
  <2>4. Append(Bare(w), e) \in Seq(Nat)
    BY <2>1
  <2>5. Bare(Append(w, e)) \in Seq(Nat)
    BY <2>1, <2>3, <2>4
  <2> QED
    BY <2>1, <2>5
<1>3. Good = Seq(Nat)
  <2>1. Good \in SUBSET Seq(Nat)
    OBVIOUS
  <2> HIDE DEF Good
  <2> QED
    BY <1>1, <1>2, <2>1, SnocInduction
<1> QED
  BY <1>3 DEF Text

\* A batch as it is read where wrapped rows are joined, and where they are not.
Strip(join, rows) ==
  [i \in DOMAIN rows |-> [text |-> Bare(rows[i].text), newline |-> join /\ rows[i].newline]]


\* A batch is read row by row.
LEMMA StripSnoc ==
  ASSUME NEW join \in BOOLEAN, NEW x \in Seq(Sent), NEW r \in Sent,
         NEW one, one = [text |-> Bare(r.text), newline |-> join /\ r.newline]
  PROVE  /\ Strip(join, << >>) = << >> /\ one \in Sent
         /\ Strip(join, x) \in Seq(Sent)
         /\ Strip(join, Append(x, r)) = Append(Strip(join, x), one)
<1> DEFINE One(d) == [text |-> Bare(d.text), newline |-> join /\ d.newline]
           y == Append(x, r)
<1>o. ASSUME NEW d \in Sent PROVE One(d) \in Sent
  <2>1. d.text \in Text /\ (join /\ d.newline) \in BOOLEAN
    BY DEF Sent
  <2>2. Bare(d.text) \in Text
    BY <2>1, BareText
  <2> QED
    BY <2>1, <2>2 DEF Sent
<1>d. ASSUME NEW z PROVE Strip(join, z) = [i \in DOMAIN z |-> One(z[i])]
  BY DEF Strip
<1>1. Strip(join, << >>) = << >>
  BY DEF Strip
<1>s. one = One(r)
  OBVIOUS
<1> HIDE DEF One
<1>2. ASSUME NEW z \in Seq(Sent)
      PROVE  /\ Strip(join, z) \in Seq(Sent) /\ Len(Strip(join, z)) = Len(z)
             /\ \A i \in 1..Len(z) : Strip(join, z)[i] = One(z[i])
  <2>1. \A i \in 1..Len(z) : z[i] \in Sent /\ One(z[i]) \in Sent
    BY <1>o
  <2>2. Strip(join, z) = [i \in 1..Len(z) |-> One(z[i])]
    BY <1>d
  <2> QED
    BY <2>1, <2>2
<1>3. /\ y \in Seq(Sent) /\ Len(x) \in Nat /\ Len(y) = Len(x) + 1 /\ y[Len(x) + 1] = r
      /\ \A i \in 1..Len(x) : y[i] = x[i]
  OBVIOUS
<1> DEFINE ex == Strip(join, x)
           ey == Strip(join, y)
           more == Append(ex, one)
<1>4. one \in Sent
  BY <1>o, <1>s
<1> HIDE DEF y
<1>5. /\ ex \in Seq(Sent) /\ Len(ex) = Len(x)
      /\ \A i \in 1..Len(x) : ex[i] = One(x[i])
  BY <1>2
<1>6. /\ ey \in Seq(Sent) /\ Len(ey) = Len(x) + 1
      /\ \A i \in 1..(Len(x) + 1) : ey[i] = One(y[i])
  BY <1>2, <1>3
<1> HIDE DEF ex, ey
<1>7. /\ more \in Seq(Sent) /\ Len(more) = Len(x) + 1 /\ more[Len(x) + 1] = one
      /\ \A i \in 1..Len(x) : more[i] = ex[i]
  BY <1>4, <1>5
<1> HIDE DEF more
<1>8. ASSUME NEW i \in 1..(Len(x) + 1) PROVE ey[i] = more[i]
  <2>1. CASE i = Len(x) + 1
    BY <1>3, <1>6, <1>7, <1>s, <2>1
  <2>2. CASE i \in 1..Len(x)
    BY <1>3, <1>5, <1>6, <1>7, <2>2
  <2> QED
    BY <1>3, <2>1, <2>2
<1>9. ey = more
  BY <1>6, <1>7, <1>8, SameSeq
<1> QED
  BY <1>1, <1>4, <1>5, <1>9 DEF ex, ey, more, y

\* Rows put on to what is told are told as they read (cooked--render-scrolled).
LEMMA TellRows ==
  ASSUME NEW join \in BOOLEAN, NEW ink \in Ink, NEW rows \in Seq(Sent)
  PROVE  AppendTo(LinesOf(ink), Strip(join, rows)) = LinesOf(ink \o Read(Mark(join), rows))
<1> DEFINE m == Mark(join)
           Good == {x \in Seq(Sent) :
                      AppendTo(LinesOf(ink), Strip(join, x)) = LinesOf(ink \o Read(m, x))}
<1>0. [text |-> << >>, newline |-> TRUE] \in Sent
  BY DEF Sent, Text
<1>m. m \in Int /\ End(m) \in Ink /\ End(m) = IF join THEN << EndMark >> ELSE << >>
  BY MarkFacts
<1> HIDE DEF m
<1>t. ASSUME NEW z \in Seq(Sent) PROVE Read(m, z) \in Ink /\ Read(m, << >>) = << >>
  BY <1>0, <1>m, ReadSnoc
<1>1. << >> \in Good
  <2>1. << >> \in Seq(Sent)
    OBVIOUS
  <2>2. Strip(join, << >>) = << >>
    BY DEF Strip
  <2>3. ink \o Read(m, << >>) = ink
    BY <1>t, <2>1, InkFacts
  <2>4. AppendTo(LinesOf(ink), Strip(join, << >>)) = LinesOf(ink \o Read(m, << >>))
    BY <2>2, <2>3, AppendNone
  <2> QED
    BY <2>1, <2>4
<1>2. ASSUME NEW x \in Good, NEW r \in Sent PROVE Append(x, r) \in Good
  <2> DEFINE one == [text |-> Bare(r.text), newline |-> join /\ r.newline]
             v == ink \o Read(m, x)
             t == Bare(r.text)
             told == LinesOf(v)
  <2>1. /\ x \in Seq(Sent) /\ Append(x, r) \in Seq(Sent)
        /\ AppendTo(LinesOf(ink), Strip(join, x)) = told
    OBVIOUS
  <2>2. /\ one \in Sent /\ Strip(join, x) \in Seq(Sent)
        /\ Strip(join, Append(x, r)) = Append(Strip(join, x), one)
    BY <2>1, StripSnoc
  <2>3. AppendTo(LinesOf(ink), Append(Strip(join, x), one)) = Inserted(told, one)
    <3> HIDE DEF one, told
    <3> QED
      BY <2>1, <2>2, AppendSnoc
  <2>4. Read(m, x) \in Ink /\ v \in Ink
    BY <1>t, <2>1, InkFacts
  <2>5. /\ t \in Text /\ t \in Ink /\ r.newline \in BOOLEAN
        /\ Glyphs(m, r) = IF r.newline THEN t \o End(m) ELSE t
    <3>1. r.text \in Text /\ r.newline \in BOOLEAN
      BY DEF Sent
    <3> QED
      BY <1>m, <3>1, BareText, InkFacts, GlyphFacts
  <2>6. ink \o Read(m, Append(x, r)) = v \o Glyphs(m, r)
    <3>1. Read(m, Append(x, r)) = Read(m, x) \o Glyphs(m, r)
      BY <1>m, <2>1, ReadSnoc
    <3>2. Glyphs(m, r) \in Ink
      BY <1>m, GlyphFacts
    <3>3. ASSUME NEW a \in Ink, NEW b \in Ink, NEW c \in Ink
          PROVE  a \o (b \o c) = (a \o b) \o c
      BY InkFacts
    <3> QED
      BY <2>4, <3>1, <3>2, <3>3
  <2>7. one.text = t /\ one.newline = (join /\ r.newline)
    OBVIOUS
  <2> HIDE DEF one, v, t
  <2>8. PICK w \in Seq(Ink), e \in Ink : told = Append(w, e)
    BY <2>4, LinesShape
  <2>9. e \o t \in Ink /\ v \o t \in Ink
    BY <2>4, <2>5, InkFacts
  <2>10. Inserted(told, one) = IF join /\ r.newline THEN Append(Append(w, e \o t), << >>)
                               ELSE Append(w, e \o t)
    <3>1. e \o one.text \in Ink
      BY <2>7, <2>9
    <3>2. Inserted(Append(w, e), one) =
            IF one.newline THEN Append(Append(w, e \o one.text), << >>)
            ELSE Append(w, e \o one.text)
      BY <3>1, InsertedShape
    <3> QED
      BY <2>7, <2>8, <3>2
  <2>11. LinesOf(v \o t) = Append(w, e \o t)
    BY <2>4, <2>5, <2>8, LinesGrow
  <2>12. LinesOf((v \o t) \o << EndMark >>) = Append(Append(w, e \o t), << >>)
    BY <2>9, <2>11, LinesGrow
  <2>13. v \o (t \o End(m)) = (v \o t) \o End(m) /\ (v \o t) \o << >> = v \o t
    <3>1. ASSUME NEW a \in Ink, NEW b \in Ink, NEW c \in Ink
          PROVE  a \o (b \o c) = (a \o b) \o c /\ a \o << >> = a
      BY InkFacts
    <3>2. End(m) \in Ink
      BY <1>m
    <3> HIDE DEF End
    <3>3. v \o (t \o End(m)) = (v \o t) \o End(m)
      <4>1. v \in Ink /\ t \in Ink
        BY <2>4, <2>5
      <4> QED
        BY ONLY <3>2, <4>1, InkFacts, Zenon
    <3>4. (v \o t) \o << >> = v \o t
      BY <2>9, <3>1, <3>2
    <3> QED
      BY <3>3, <3>4
  <2>14. LinesOf(v \o Glyphs(m, r)) = Inserted(told, one)
    <3>1. CASE r.newline /\ join
      BY <1>m, <2>5, <2>10, <2>12, <2>13, <3>1
    <3>2. CASE r.newline /\ ~join
      BY <1>m, <2>5, <2>10, <2>11, <2>13, <3>2
    <3>3. CASE ~r.newline
      BY <2>5, <2>10, <2>11, <3>3
    <3> QED
      BY <2>5, <3>1, <3>2, <3>3
  <2>15. AppendTo(LinesOf(ink), Strip(join, Append(x, r))) = LinesOf(ink \o Read(m, Append(x, r)))
    BY <2>2, <2>3, <2>6, <2>14
  <2> QED
    BY <2>1, <2>15
<1>3. Good = Seq(Sent)
  <2>1. Good \in SUBSET Seq(Sent)
    OBVIOUS
  <2> HIDE DEF Good
  <2> QED
    BY <1>1, <1>2, <2>1, SnocInduction
<1> QED
  BY <1>3 DEF m

-----------------------------------------------------------------------------
(* Lines and buffers read without their blanks *)

\* Lines as rows that each end one.
Closed(ls) == [i \in DOMAIN ls |-> [text |-> ls[i], newline |-> TRUE]]

LinesRead(m, ls) == Read(m, Closed(ls))

\* A buffer's last line is still open.
OpenRead(m, b) == LinesRead(m, SubSeq(b, 1, Len(b) - 1)) \o Bare(b[Len(b)])

\* Lines are closed one by one.
LEMMA ClosedSnoc ==
  ASSUME NEW w \in Seq(Text), NEW e \in Text, NEW one, one = [text |-> e, newline |-> TRUE]
  PROVE  /\ Closed(<< >>) = << >> /\ one \in Sent /\ Closed(w) \in Seq(Sent)
         /\ Closed(Append(w, e)) = Append(Closed(w), one)
<1> DEFINE y == Append(w, e)
           cw == Closed(w)
           cy == Closed(y)
           more == Append(cw, one)
<1>1. ASSUME NEW z \in Seq(Text)
      PROVE  /\ Closed(z) \in Seq(Sent) /\ Len(Closed(z)) = Len(z)
             /\ \A i \in 1..Len(z) : Closed(z)[i] = [text |-> z[i], newline |-> TRUE]
  <2>1. \A i \in 1..Len(z) : [text |-> z[i], newline |-> TRUE] \in Sent
    BY DEF Sent
  <2>2. Closed(z) = [i \in 1..Len(z) |-> [text |-> z[i], newline |-> TRUE]]
    BY DEF Closed
  <2> QED
    BY <2>1, <2>2
<1>2. Closed(<< >>) = << >> /\ one \in Sent
  BY DEF Closed, Sent
<1>3. /\ y \in Seq(Text) /\ Len(w) \in Nat /\ Len(y) = Len(w) + 1 /\ y[Len(w) + 1] = e
      /\ \A i \in 1..Len(w) : y[i] = w[i]
  OBVIOUS
<1> HIDE DEF y
<1>4. /\ cw \in Seq(Sent) /\ Len(cw) = Len(w)
      /\ \A i \in 1..Len(w) : cw[i] = [text |-> w[i], newline |-> TRUE]
  BY <1>1
<1>5. /\ cy \in Seq(Sent) /\ Len(cy) = Len(w) + 1
      /\ \A i \in 1..(Len(w) + 1) : cy[i] = [text |-> y[i], newline |-> TRUE]
  BY <1>1, <1>3
<1> HIDE DEF cw, cy
<1>6. /\ more \in Seq(Sent) /\ Len(more) = Len(w) + 1 /\ more[Len(w) + 1] = one
      /\ \A i \in 1..Len(w) : more[i] = cw[i]
  BY <1>2, <1>4
<1> HIDE DEF more
<1>7. ASSUME NEW i \in 1..(Len(w) + 1) PROVE cy[i] = more[i]
  <2>1. CASE i = Len(w) + 1
    BY <1>3, <1>5, <1>6, <2>1
  <2>2. CASE i \in 1..Len(w)
    BY <1>3, <1>4, <1>5, <1>6, <2>2
  <2> QED
    BY <1>3, <2>1, <2>2
<1>8. cy = more
  BY <1>5, <1>6, <1>7, SameSeq
<1> QED
  BY <1>2, <1>4, <1>8 DEF cw, cy, more, y

\* Lines are read one after another, and the open one without its end.
LEMMA LinesReadSnoc ==
  ASSUME NEW m \in Int, NEW w \in Seq(Text), NEW e \in Text
  PROVE  /\ LinesRead(m, << >>) = << >> /\ LinesRead(m, w) \in Ink
         /\ Bare(e) \in Ink /\ End(m) \in Ink
         /\ LinesRead(m, Append(w, e)) = LinesRead(m, w) \o (Bare(e) \o End(m))
         /\ OpenRead(m, Append(w, e)) = LinesRead(m, w) \o Bare(e)
<1> DEFINE one == [text |-> e, newline |-> TRUE]
<1>1. /\ Closed(<< >>) = << >> /\ one \in Sent /\ Closed(w) \in Seq(Sent)
      /\ Closed(Append(w, e)) = Append(Closed(w), one)
  BY ClosedSnoc
<1>2. one.text = e /\ one.newline
  OBVIOUS
<1> HIDE DEF one
<1>3. /\ Read(m, << >>) = << >> /\ Read(m, Closed(w)) \in Ink
      /\ Read(m, Append(Closed(w), one)) = Read(m, Closed(w)) \o Glyphs(m, one)
  BY <1>1, ReadSnoc
<1>4. Glyphs(m, one) = Bare(e) \o End(m) /\ Bare(e) \in Ink /\ End(m) \in Ink
  BY <1>1, <1>2, GlyphFacts
<1>5. SubSeq(Append(w, e), 1, Len(Append(w, e)) - 1) = w
      /\ Append(w, e)[Len(Append(w, e))] = e
  OBVIOUS
<1> QED
  BY <1>1, <1>3, <1>4, <1>5 DEF LinesRead, OpenRead

\* Lines are read before those that follow them.
LEMMA LinesReadJoin ==
  ASSUME NEW m \in Int, NEW x \in Seq(Text), NEW y \in Seq(Text)
  PROVE  /\ LinesRead(m, x \o y) = LinesRead(m, x) \o LinesRead(m, y)
         /\ LinesRead(m, x) \in Ink /\ LinesRead(m, y) \in Ink
<1> DEFINE Good == {z \in Seq(Text) : LinesRead(m, x \o z) = LinesRead(m, x) \o LinesRead(m, z)}
<1>0. << >> \in Text
  BY DEF Text
<1>t. ASSUME NEW z \in Seq(Text) PROVE LinesRead(m, z) \in Ink /\ LinesRead(m, << >>) = << >>
  BY <1>0, LinesReadSnoc
<1>1. << >> \in Good
  <2>1. << >> \in Seq(Text) /\ x \o << >> = x
    OBVIOUS
  <2>2. LinesRead(m, x) \o << >> = LinesRead(m, x)
    BY <1>t, InkFacts
  <2> QED
    BY <1>t, <2>1, <2>2
<1>2. ASSUME NEW w \in Good, NEW e \in Text PROVE Append(w, e) \in Good
  <2> DEFINE g == Bare(e) \o End(m)
  <2>1. /\ w \in Seq(Text) /\ LinesRead(m, x \o w) = LinesRead(m, x) \o LinesRead(m, w)
    OBVIOUS
  <2>j. /\ Append(w, e) \in Seq(Text) /\ x \o w \in Seq(Text)
        /\ x \o Append(w, e) = Append(x \o w, e)
    BY <2>1, SnocJoin
  <2>2. ASSUME NEW z \in Seq(Text) PROVE LinesRead(m, Append(z, e)) = LinesRead(m, z) \o g
    BY LinesReadSnoc
  <2>3. Bare(e) \in Ink /\ End(m) \in Ink
    BY <2>1, <2>j, LinesReadSnoc
  <2>4. g \in Ink
    BY <2>3, InkFacts
  <2> HIDE DEF g
  <2>5. LinesRead(m, Append(x \o w, e)) = (LinesRead(m, x) \o LinesRead(m, w)) \o g
    BY <2>1, <2>j, <2>2
  <2>6. LinesRead(m, Append(w, e)) = LinesRead(m, w) \o g
    BY <2>1, <2>j, <2>2
  <2>7. LinesRead(m, x) \in Ink /\ LinesRead(m, w) \in Ink
    BY <1>t, <2>1, <2>j
  <2>8. (LinesRead(m, x) \o LinesRead(m, w)) \o g = LinesRead(m, x) \o (LinesRead(m, w) \o g)
    BY <2>4, <2>7, InkFacts
  <2> QED
    BY <2>1, <2>j, <2>5, <2>6, <2>8
<1>3. Good = Seq(Text)
  <2>1. Good \in SUBSET Seq(Text)
    OBVIOUS
  <2> HIDE DEF Good
  <2> QED
    BY <1>1, <1>2, <2>1, SnocInduction
<1> QED
  BY <1>3, <1>t

\* A buffer reads as its lines, the last of them open.
LEMMA OpenFacts ==
  ASSUME NEW m \in Int, NEW b \in Buffers
  PROVE  OpenRead(m, b) \in Ink /\ LinesRead(m, b) = OpenRead(m, b) \o End(m)
<1>1. PICK w \in Seq(Text), e \in Text : b = Append(w, e)
  BY BufferShape
<1>2. /\ LinesRead(m, w) \in Ink /\ Bare(e) \in Ink /\ End(m) \in Ink
      /\ LinesRead(m, Append(w, e)) = LinesRead(m, w) \o (Bare(e) \o End(m))
      /\ OpenRead(m, Append(w, e)) = LinesRead(m, w) \o Bare(e)
  BY LinesReadSnoc
<1>3. LinesRead(m, w) \o (Bare(e) \o End(m)) = (LinesRead(m, w) \o Bare(e)) \o End(m)
  <2>1. ASSUME NEW x \in Ink, NEW y \in Ink, NEW z \in Ink PROVE x \o (y \o z) = (x \o y) \o z
    BY InkFacts
  <2> QED
    BY <1>2, <2>1
<1> QED
  BY <1>1, <1>2, <1>3, InkFacts

\* Rows put into a buffer are read after what it holds (cooked--render-scrolled).
LEMMA OpenAppend ==
  ASSUME NEW m \in Int, NEW b \in Buffers, NEW rows \in Seq(Sent)
  PROVE  OpenRead(m, AppendTo(b, rows)) = OpenRead(m, b) \o Read(m, rows)
<1> DEFINE Good == {x \in Seq(Sent) : OpenRead(m, AppendTo(b, x)) = OpenRead(m, b) \o Read(m, x)}
<1>0. [text |-> << >>, newline |-> TRUE] \in Sent
  BY DEF Sent, Text
<1>t. ASSUME NEW z \in Seq(Sent) PROVE Read(m, z) \in Ink /\ Read(m, << >>) = << >>
  BY <1>0, ReadSnoc
<1>a. ASSUME NEW x \in Ink, NEW y \in Ink, NEW z \in Ink
      PROVE  x \o (y \o z) = (x \o y) \o z
  BY InkFacts
<1>1. << >> \in Good
  <2>1. << >> \in Seq(Sent) /\ AppendTo(b, << >>) = b
    BY AppendNone
  <2>2. OpenRead(m, b) \o << >> = OpenRead(m, b)
    BY OpenFacts, InkFacts
  <2> QED
    BY <1>t, <2>1, <2>2
<1>2. ASSUME NEW x \in Good, NEW r \in Sent PROVE Append(x, r) \in Good
  <2> DEFINE a == AppendTo(b, x)
  <2>1. /\ x \in Seq(Sent) /\ Append(x, r) \in Seq(Sent)
        /\ OpenRead(m, a) = OpenRead(m, b) \o Read(m, x)
    OBVIOUS
  <2>2. a \in Buffers /\ AppendTo(b, Append(x, r)) = Inserted(a, r)
    BY <2>1, AppendType, AppendSnoc
  <2> HIDE DEF a
  <2>3. PICK w \in Seq(Text), e \in Text : a = Append(w, e)
    BY <2>2, BufferShape
  <2> DEFINE t == r.text
             l == e \o t
  <2>4. t \in Text /\ l \in Text /\ r.newline \in BOOLEAN
    BY DEF Sent, Text
  <2>5. Inserted(a, r) = IF r.newline THEN Append(Append(w, l), << >>) ELSE Append(w, l)
    BY <2>3, <2>4, InsertedShape
  <2>6. /\ Glyphs(m, r) \in Ink /\ Bare(t) \in Ink /\ End(m) \in Ink
        /\ Glyphs(m, r) = IF r.newline THEN Bare(t) \o End(m) ELSE Bare(t)
    BY GlyphFacts
  <2>7. Bare(l) = Bare(e) \o Bare(t)
    BY <2>4, InkFacts, BareJoin
  <2> HIDE DEF l, t
  <2>8. LinesRead(m, w) \in Ink /\ Bare(e) \in Ink /\ OpenRead(m, a) = LinesRead(m, w) \o Bare(e)
    BY <2>3, LinesReadSnoc
  <2>9. OpenRead(m, Append(w, l)) = LinesRead(m, w) \o Bare(l)
        /\ LinesRead(m, Append(w, l)) = LinesRead(m, w) \o (Bare(l) \o End(m))
    BY <2>4, LinesReadSnoc
  <2>10. OpenRead(m, Append(Append(w, l), << >>)) = LinesRead(m, Append(w, l))
    <3>1. Append(w, l) \in Seq(Text) /\ << >> \in Text
      BY <2>4 DEF Text
    <3>2. OpenRead(m, Append(Append(w, l), << >>)) = LinesRead(m, Append(w, l)) \o Bare(<< >>)
          /\ LinesRead(m, Append(w, l)) \in Ink
      BY <3>1, LinesReadSnoc
    <3>3. Bare(<< >>) = << >>
      <4>1. << >> \in Ink /\ 0 \in Int
        BY InkFacts
      <4> QED
        BY <4>1, BareSnoc
    <3> QED
      BY <3>2, <3>3, InkFacts
  <2>11. OpenRead(m, Inserted(a, r)) = OpenRead(m, a) \o Glyphs(m, r)
    <3> DEFINE W == LinesRead(m, w)
               B == Bare(e)
               C == Bare(t)
               M == End(m)
    <3>1. W \in Ink /\ B \in Ink /\ C \in Ink /\ M \in Ink /\ B \o C \in Ink /\ C \o M \in Ink
      BY <2>6, <2>8, InkFacts
    <3> HIDE DEF W, B, C, M
    <3>2. W \o ((B \o C) \o M) = (W \o B) \o (C \o M) /\ W \o (B \o C) = (W \o B) \o C
      <4>1. (B \o C) \o M = B \o (C \o M)
        <5>1. Associates(B, C, M)
          BY ONLY <3>1, InkAssoc, Zenon
        <5> QED
          BY ONLY <5>1 DEF Associates
      <4> DEFINE X == C \o M
      <4>2. X \in Ink
        BY <3>1
      <4> HIDE DEF X
      <4>3. W \o (B \o X) = (W \o B) \o X
        <5>1. Associates(W, B, X)
          BY <3>1, <4>2, InkAssoc
        <5> QED
          BY <5>1 DEF Associates
      <4>4. W \o (B \o C) = (W \o B) \o C
        <5>1. Associates(W, B, C)
          BY ONLY <3>1, InkAssoc, Zenon
        <5> QED
          BY ONLY <5>1 DEF Associates
      <4> QED
        BY <4>1, <4>3, <4>4 DEF X
    <3>3. CASE r.newline
      BY <2>5, <2>6, <2>7, <2>8, <2>9, <2>10, <3>2, <3>3 DEF W, B, C, M
    <3>4. CASE ~r.newline
      BY <2>5, <2>6, <2>7, <2>8, <2>9, <3>2, <3>4 DEF W, B, C, M
    <3> QED
      BY <3>3, <3>4
  <2>12. Read(m, Append(x, r)) = Read(m, x) \o Glyphs(m, r)
    BY <2>1, ReadSnoc
  <2>13. (OpenRead(m, b) \o Read(m, x)) \o Glyphs(m, r) = OpenRead(m, b) \o (Read(m, x) \o Glyphs(m, r))
    <3>1. OpenRead(m, b) \in Ink /\ Read(m, x) \in Ink
      BY <1>t, <2>1, OpenFacts
    <3> QED
      BY <1>a, <2>6, <3>1
  <2>14. OpenRead(m, AppendTo(b, Append(x, r))) = OpenRead(m, b) \o Read(m, Append(x, r))
    BY <2>1, <2>2, <2>11, <2>12, <2>13
  <2> QED
    BY <2>1, <2>14
<1>3. Good = Seq(Sent)
  <2>1. Good \in SUBSET Seq(Sent)
    OBVIOUS
  <2> HIDE DEF Good
  <2> QED
    BY <1>1, <1>2, <2>1, SnocInduction
<1> QED
  BY <1>3

\* Lines are read one by one.
LEMMA BaredFacts ==
  /\ Bared(<< >>) = << >>
  /\ \A w \in Seq(Text) : Bared(w) \in Seq(Text) /\ Len(Bared(w)) = Len(w)
  /\ \A w \in Seq(Text), e \in Text : Bared(Append(w, e)) = Append(Bared(w), Bare(e))
<1>1. Bared(<< >>) = << >>
  BY DEF Bared
<1>2. ASSUME NEW w \in Seq(Text)
      PROVE  /\ Bared(w) \in Seq(Text) /\ Len(Bared(w)) = Len(w)
             /\ \A i \in 1..Len(w) : Bared(w)[i] = Bare(w[i])
  <2>1. \A i \in 1..Len(w) : w[i] \in Text /\ Bare(w[i]) \in Text
    BY BareText
  <2>2. Bared(w) = [i \in 1..Len(w) |-> Bare(w[i])]
    BY DEF Bared
  <2> QED
    BY <2>1, <2>2
<1>3. ASSUME NEW w \in Seq(Text), NEW e \in Text
      PROVE  Bared(Append(w, e)) = Append(Bared(w), Bare(e))
  <2> DEFINE more == Append(w, e)
             u == Bared(w)
             v == Bared(more)
             c == Bare(e)
             x == Append(u, c)
  <2>1. /\ more \in Seq(Text) /\ Len(w) \in Nat /\ Len(more) = Len(w) + 1 /\ more[Len(w) + 1] = e
        /\ \A i \in 1..Len(w) : more[i] = w[i]
    OBVIOUS
  <2> HIDE DEF more
  <2>2. /\ v \in Seq(Text) /\ Len(v) = Len(w) + 1
        /\ \A i \in 1..(Len(w) + 1) : v[i] = Bare(more[i])
    BY <1>2, <2>1
  <2>3. /\ u \in Seq(Text) /\ Len(u) = Len(w)
        /\ \A i \in 1..Len(w) : u[i] = Bare(w[i])
    BY <1>2
  <2>4. c \in Text
    BY BareText
  <2> HIDE DEF u, v, c
  <2>5. /\ x \in Seq(Text) /\ Len(x) = Len(w) + 1 /\ x[Len(w) + 1] = c
        /\ \A i \in 1..Len(w) : x[i] = u[i]
    BY <2>3, <2>4
  <2> HIDE DEF x
  <2>6. ASSUME NEW i \in 1..(Len(w) + 1) PROVE v[i] = x[i]
    <3>1. CASE i = Len(w) + 1
      BY <2>1, <2>2, <2>5, <3>1 DEF c
    <3>2. CASE i \in 1..Len(w)
      BY <2>1, <2>2, <2>3, <2>5, <3>2
    <3> QED
      BY <2>1, <3>1, <3>2
  <2>7. v = x
    BY <2>2, <2>5, <2>6
  <2> QED
    BY <2>7 DEF v, x, u, c, more
<1> QED
  BY <1>1, <1>2, <1>3


\* Lines that are closed are told as they read.
LEMMA ToldClosed ==
  ASSUME NEW w \in Seq(Text)
  PROVE  LinesOf(LinesRead(EndMark, w)) = Append(Bared(w), << >>)
<1> DEFINE Good == {z \in Seq(Text) : LinesOf(LinesRead(EndMark, z)) = Append(Bared(z), << >>)}
<1>0. << >> \in Text /\ << >> \in Ink /\ EndMark \in Int /\ << >> \in Seq(Text) /\ 0 \in Int
  BY InkFacts DEF Text, EndMark
<1>1. << >> \in Good
  <2>1. LinesRead(EndMark, << >>) = << >>
    BY <1>0, LinesReadSnoc
  <2>2. LinesOf(<< >>) = Append(<< >>, << >>)
    BY <1>0, LinesSnoc DEF Emptied
  <2>3. Bared(<< >>) = << >>
    BY BaredFacts
  <2>4. LinesOf(LinesRead(EndMark, << >>)) = Append(Bared(<< >>), << >>)
    BY <2>1, <2>2, <2>3
  <2> QED
    BY <1>0, <2>4
<1>2. ASSUME NEW z \in Good, NEW e \in Text PROVE Append(z, e) \in Good
  <2> DEFINE x == LinesRead(EndMark, z)
             u == Bared(z)
             f == Bare(e)
  <2>1. z \in Seq(Text) /\ Append(z, e) \in Seq(Text) /\ LinesOf(x) = Append(u, << >>)
    OBVIOUS
  <2>2. /\ x \in Ink /\ f \in Ink
        /\ LinesRead(EndMark, Append(z, e)) = x \o (f \o End(EndMark))
    BY <1>0, <2>1, LinesReadSnoc
  <2>3. End(EndMark) = << EndMark >> /\ << EndMark >> \in Ink
    <3>1. Mark(TRUE) = EndMark
      BY DEF Mark
    <3> QED
      BY <1>0, <3>1, MarkFacts DEF Ink
  <2>4. u \in Seq(Text) /\ f \in Text /\ Bared(Append(z, e)) = Append(u, f)
    BY <2>1, BaredFacts, BareText
  <2>5. u \in Seq(Ink)
    <3>1. \A t \in Text : t \in Ink
      BY InkFacts
    <3> QED
      BY <2>4, <3>1, SeqWiden
  <2> HIDE DEF x, u, f
  <2>6. LinesOf(x \o f) = Append(u, << >> \o f) /\ x \o f \in Ink /\ << >> \o f = f
    <3>1. \A y \in Text : LinesOf(x \o y) = Append(u, << >> \o y)
      BY <1>0, <2>1, <2>2, <2>5, LinesGrow
    <3> QED
      BY <2>2, <2>4, <3>1, InkFacts
  <2>7. LinesOf((x \o f) \o << EndMark >>) = Append(Append(u, f), << >>)
    <3> DEFINE v == x \o f
    <3>1. v \in Ink /\ LinesOf(v) = Append(u, f)
      BY <2>6
    <3> HIDE DEF v
    <3>2. LinesOf(v \o << EndMark >>) = Append(Append(u, f), << >>)
      BY <2>2, <2>5, <3>1, LinesGrow
    <3> QED
      BY <3>2 DEF v
  <2>8. x \o (f \o << EndMark >>) = (x \o f) \o << EndMark >>
    <3>1. ASSUME NEW a \in Ink, NEW b \in Ink, NEW c \in Ink PROVE a \o (b \o c) = (a \o b) \o c
      BY InkFacts
    <3> QED
      BY <2>2, <2>3, <3>1
  <2>9. LinesOf(LinesRead(EndMark, Append(z, e))) = Append(Bared(Append(z, e)), << >>)
    BY <2>2, <2>3, <2>4, <2>7, <2>8
  <2> QED
    BY <2>1, <2>9
<1>3. Good = Seq(Text)
  <2>1. Good \in SUBSET Seq(Text)
    OBVIOUS
  <2> HIDE DEF Good
  <2> QED
    BY <1>1, <1>2, <2>1, SnocInduction
<1> QED
  BY <1>3

\* Where wrapped rows are not joined, lines read as the text they are made of.
LEMMA FlatLines ==
  ASSUME NEW w \in Seq(Text)
  PROVE  /\ FlattenSeq(w) \in Ink /\ LinesRead(Blank, w) = Bare(FlattenSeq(w))
         /\ \A e \in Text : FlattenSeq(Append(w, e)) = FlattenSeq(w) \o e
<1> DEFINE Good == {z \in Seq(Text) : LinesRead(Blank, z) = Bare(FlattenSeq(z))}
<1>0. << >> \in Text /\ << >> \in Ink /\ Blank \in Int /\ << >> \in Seq(Text)
  BY InkFacts DEF Text, Blank
<1>f. ASSUME NEW z \in Seq(Text), NEW e \in Text
      PROVE  /\ FlattenSeq(<< >>) = << >> /\ FlattenSeq(z) \in Ink
             /\ FlattenSeq(Append(z, e)) = FlattenSeq(z) \o e
  <2>1. z \in Seq(Seq(Nat)) /\ e \in Seq(Nat)
    BY DEF Text
  <2>2. FlattenSeq(z) \in Text
    BY <2>1, FlattenType DEF Text
  <2> QED
    BY <2>1, <2>2, FlattenSnoc, InkFacts
<1>1. << >> \in Good
  <2>1. LinesRead(Blank, << >>) = << >>
    BY <1>0, LinesReadSnoc
  <2>2. FlattenSeq(<< >>) = << >> /\ Bare(<< >>) = << >>
    BY <1>0, <1>f, BareSnoc
  <2> QED
    BY <1>0, <2>1, <2>2
<1>2. ASSUME NEW z \in Good, NEW e \in Text PROVE Append(z, e) \in Good
  <2>1. z \in Seq(Text) /\ Append(z, e) \in Seq(Text) /\ LinesRead(Blank, z) = Bare(FlattenSeq(z))
    OBVIOUS
  <2>2. /\ LinesRead(Blank, z) \in Ink /\ Bare(e) \in Ink
        /\ LinesRead(Blank, Append(z, e)) = LinesRead(Blank, z) \o (Bare(e) \o End(Blank))
    BY <1>0, <2>1, LinesReadSnoc
  <2>3. End(Blank) = << >>
    <3>1. Mark(FALSE) = Blank
      BY DEF Mark
    <3> QED
      BY <3>1, MarkFacts
  <2>4. Bare(e) \o << >> = Bare(e)
    BY <2>2, InkFacts
  <2>5. FlattenSeq(z) \in Ink /\ FlattenSeq(Append(z, e)) = FlattenSeq(z) \o e /\ e \in Ink
    BY <1>f, <2>1, InkFacts
  <2>6. Bare(FlattenSeq(z) \o e) = Bare(FlattenSeq(z)) \o Bare(e)
    BY <2>5, BareJoin
  <2> QED
    BY <2>1, <2>2, <2>3, <2>4, <2>5, <2>6
<1>3. Good = Seq(Text)
  <2>1. Good \in SUBSET Seq(Text)
    OBVIOUS
  <2> HIDE DEF Good
  <2> QED
    BY <1>1, <1>2, <2>1, SnocInduction
<1> QED
  BY <1>0, <1>3, <1>f

\* What is above the rows in flight is told as it reads.
LEMMA AboveTold ==
  ASSUME NEW join \in BOOLEAN, NEW b \in Buffers
  PROVE  (IF join THEN Bared(b) ELSE << Bare(FlattenSeq(b)) >>) = LinesOf(OpenRead(Mark(join), b))
<1>1. PICK w \in Seq(Text), e \in Text : b = Append(w, e)
  BY BufferShape
<1>2. << >> \in Ink /\ Bare(e) \in Text /\ Bare(e) \in Ink /\ e \in Ink /\ EndMark \in Int /\ Blank \in Int
      /\ 0 \in Int /\ << >> \in Seq(Ink)
  BY BareText, InkFacts DEF EndMark, Blank
<1>3. CASE join
  <2>1. /\ OpenRead(EndMark, b) = LinesRead(EndMark, w) \o Bare(e)
        /\ LinesRead(EndMark, w) \in Ink
    BY <1>1, <1>2, LinesReadSnoc
  <2>2. LinesOf(LinesRead(EndMark, w)) = Append(Bared(w), << >>)
    BY ToldClosed
  <2>3. Bared(w) \in Seq(Ink)
    <3>1. Bared(w) \in Seq(Text) /\ \A t \in Text : t \in Ink
      BY BaredFacts, InkFacts
    <3> QED
      BY <3>1, SeqWiden
  <2>4. \A y \in Text : LinesOf(LinesRead(EndMark, w) \o y) = Append(Bared(w), << >> \o y)
    BY <1>2, <2>1, <2>2, <2>3, LinesGrow
  <2>5. << >> \o Bare(e) = Bare(e)
    BY <1>2, InkFacts
  <2>6. Bared(b) = Append(Bared(w), Bare(e))
    BY <1>1, BaredFacts
  <2> QED
    BY <1>2, <1>3, <2>1, <2>4, <2>5, <2>6 DEF Mark
<1>4. CASE ~join
  <2>1. /\ OpenRead(Blank, b) = LinesRead(Blank, w) \o Bare(e)
    BY <1>1, <1>2, LinesReadSnoc
  <2>2. /\ LinesRead(Blank, w) = Bare(FlattenSeq(w)) /\ FlattenSeq(w) \in Ink
        /\ FlattenSeq(b) = FlattenSeq(w) \o e
    BY <1>1, FlatLines
  <2>3. Bare(FlattenSeq(b)) = OpenRead(Blank, b)
    BY <1>2, <2>1, <2>2, BareJoin
  <2>4. Bare(FlattenSeq(b)) \in Text
    <3>1. b \in Seq(Seq(Nat))
      BY DEF Buffers, Text
    <3>2. FlattenSeq(b) \in Text
      BY <3>1, FlattenType DEF Text
    <3> QED
      BY <3>2, BareText
  <2> DEFINE x == Bare(FlattenSeq(b))
  <2> HIDE DEF x
  <2>5. LinesOf(<< >>) = Append(<< >>, << >>)
    BY <1>2, LinesSnoc DEF Emptied
  <2>6. \A y \in Text : LinesOf(<< >> \o y) = Append(<< >>, << >> \o y)
    BY <1>2, <2>5, LinesGrow
  <2>7. << >> \o x = x /\ Append(<< >>, x) = << x >>
    BY <2>4, InkFacts DEF x
  <2>8. LinesOf(x) = << x >>
    BY <2>4, <2>6, <2>7 DEF x
  <2> QED
    BY <1>4, <2>3, <2>8 DEF Mark, x
<1> QED
  BY <1>3, <1>4

-----------------------------------------------------------------------------
(* Rows of the grid read without their blanks *)

\* Rows that have left the grid, as lines are made of them where wrapped rows are joined.
GoneRead(m, rows) == Read(m, Onto(TRUE, rows))

\* Rows of the grid are read as they would leave it.
RowsRead(m, rows) == GoneRead(m, DepartedRows(rows))
RowInk(m, r) == IF r.wrapped THEN Bare(r.cells) ELSE Bare(r.cells) \o End(m)

\* Rows that have left are read one batch after another.
LEMMA GoneReadJoin ==
  ASSUME NEW m \in Int, NEW x \in Seq(Gone), NEW y \in Seq(Gone)
  PROVE  /\ GoneRead(m, << >>) = << >> /\ GoneRead(m, x) \in Ink
         /\ GoneRead(m, x \o y) = GoneRead(m, x) \o GoneRead(m, y)
<1>1. /\ Onto(TRUE, << >>) = << >> /\ Onto(TRUE, x) \in Seq(Sent) /\ Onto(TRUE, y) \in Seq(Sent)
      /\ Onto(TRUE, x \o y) = Onto(TRUE, x) \o Onto(TRUE, y)
  BY OntoFacts
<1>2. [text |-> << >>, newline |-> TRUE] \in Sent
  BY DEF Sent, Text
<1> DEFINE u == Onto(TRUE, x)
           v == Onto(TRUE, y)
<1> HIDE DEF u, v
<1>3. u \in Seq(Sent) /\ v \in Seq(Sent)
  BY <1>1 DEF u, v
<1>4. Read(m, u \o v) = Read(m, u) \o Read(m, v) /\ Read(m, u) \in Ink
  BY <1>3, ReadJoin
<1>5. Read(m, << >>) = << >>
  BY <1>2, <1>3, ReadSnoc
<1> QED
  BY <1>1, <1>4, <1>5 DEF GoneRead, u, v

\* A departed row is one that has left.
LEMMA DepartedType ==
  ASSUME NEW n \in Nat, NEW rows \in Seq(Width(n))
  PROVE  DepartedRows(rows) \in Seq(Gone)
<1>1. DepartedRows(rows) \in Seq(GoneAt(n)) /\ \A d \in GoneAt(n) : d \in Gone
  BY DepartedRowsType DEF GoneAt
<1> QED
  BY <1>1, SeqWiden

\* Rows are read one after another.
LEMMA RowsReadSnoc ==
  ASSUME NEW m \in Int, NEW n \in Nat, NEW x \in Seq(Width(n)), NEW r \in Width(n)
  PROVE  /\ RowsRead(m, << >>) = << >> /\ RowsRead(m, x) \in Ink
         /\ Bare(r.cells) \in Ink /\ RowInk(m, r) \in Ink /\ End(m) \in Ink
         /\ RowsRead(m, Append(x, r)) = RowsRead(m, x) \o RowInk(m, r)
<1> DEFINE y == Append(x, r)
           d == Departed(r)
           dx == DepartedRows(x)
           dy == DepartedRows(y)
           more == Append(dx, d)
<1>0. ASSUME NEW z \in Seq(Width(n))
      PROVE  /\ DepartedRows(z) \in Seq(Gone) /\ Len(DepartedRows(z)) = Len(z)
             /\ \A i \in 1..Len(z) : DepartedRows(z)[i] = Departed(z[i])
  <2>1. DepartedRows(z) = [i \in 1..Len(z) |-> Departed(z[i])]
    BY DEF DepartedRows
  <2> QED
    BY <2>1, DepartedType
<1>1. d \in Gone /\ DepartedRows(<< >>) = << >>
  BY DepartedAt DEF GoneAt, DepartedRows
<1>2. /\ y \in Seq(Width(n)) /\ Len(x) \in Nat /\ Len(y) = Len(x) + 1 /\ y[Len(x) + 1] = r
      /\ \A i \in 1..Len(x) : y[i] = x[i]
  OBVIOUS
<1> HIDE DEF y
<1>3. /\ dx \in Seq(Gone) /\ Len(dx) = Len(x)
      /\ \A i \in 1..Len(x) : dx[i] = Departed(x[i])
  BY <1>0
<1>4. /\ dy \in Seq(Gone) /\ Len(dy) = Len(x) + 1
      /\ \A i \in 1..(Len(x) + 1) : dy[i] = Departed(y[i])
  BY <1>0, <1>2
<1> HIDE DEF dx, dy, d
<1>5. /\ more \in Seq(Gone) /\ Len(more) = Len(x) + 1 /\ more[Len(x) + 1] = d
      /\ \A i \in 1..Len(x) : more[i] = dx[i]
  BY <1>1, <1>3
<1> HIDE DEF more
<1>6. ASSUME NEW i \in 1..(Len(x) + 1) PROVE dy[i] = more[i]
  <2>1. CASE i = Len(x) + 1
    BY <1>2, <1>4, <1>5, <2>1 DEF d
  <2>2. CASE i \in 1..Len(x)
    BY <1>2, <1>3, <1>4, <1>5, <2>2
  <2> QED
    BY <1>2, <2>1, <2>2
<1>7. dy = more
  BY <1>4, <1>5, <1>6, SameSeq
<1> DEFINE one == SentAs(TRUE, d)
           sx == Onto(TRUE, dx)
<1>8. /\ Onto(TRUE, << >>) = << >> /\ sx \in Seq(Sent) /\ one \in Sent
      /\ one.text = d.text /\ one.newline = ~(TRUE /\ d.wrapped)
      /\ Onto(TRUE, Append(dx, d)) = Append(sx, one)
  BY <1>1, <1>3, OntoFacts, SentType
<1> HIDE DEF one, sx
<1>9. Read(m, << >>) = << >> /\ Read(m, sx) \in Ink
      /\ Read(m, Append(sx, one)) = Read(m, sx) \o Glyphs(m, one)
  BY <1>8, ReadSnoc
<1>10. Glyphs(m, one) \in Ink /\ Bare(one.text) \in Ink /\ End(m) \in Ink
       /\ Glyphs(m, one) = IF one.newline THEN Bare(one.text) \o End(m) ELSE Bare(one.text)
  BY <1>8, GlyphFacts
<1>11. one.newline = ~r.wrapped /\ Bare(one.text) = Bare(r.cells)
  <2>1. Bare(LineCells(r)) = Bare(r.cells)
    BY BareTrim
  <2>2. d.text = LineCells(r) /\ d.wrapped = r.wrapped
    BY DEF d, Departed
  <2> QED
    BY <1>8, <2>1, <2>2
<1>12. Glyphs(m, one) = RowInk(m, r) /\ Bare(r.cells) \in Ink
  BY <1>10, <1>11 DEF RowInk
<1> QED
  BY <1>1, <1>7, <1>8, <1>9, <1>10, <1>12 DEF RowsRead, GoneRead, dx, dy, more, sx, y

\* Rows are read before those below them.
LEMMA RowsReadJoin ==
  ASSUME NEW m \in Int, NEW n \in Nat, NEW x \in Seq(Width(n)), NEW y \in Seq(Width(n))
  PROVE  /\ RowsRead(m, x \o y) = RowsRead(m, x) \o RowsRead(m, y)
         /\ RowsRead(m, x) \in Ink /\ RowsRead(m, y) \in Ink /\ RowsRead(m, << >>) = << >>
<1> DEFINE Good == {z \in Seq(Width(n)) : RowsRead(m, x \o z) = RowsRead(m, x) \o RowsRead(m, z)}
<1>t. ASSUME NEW z \in Seq(Width(n)) PROVE RowsRead(m, z) \in Ink /\ RowsRead(m, << >>) = << >>
  BY BlankWidth, RowsReadSnoc
<1>1. << >> \in Good
  <2>1. << >> \in Seq(Width(n)) /\ x \o << >> = x
    OBVIOUS
  <2>2. RowsRead(m, x) \o << >> = RowsRead(m, x)
    BY <1>t, InkFacts
  <2> QED
    BY <1>t, <2>1, <2>2
<1>2. ASSUME NEW w \in Good, NEW e \in Width(n) PROVE Append(w, e) \in Good
  <2> DEFINE g == RowInk(m, e)
  <2>1. /\ w \in Seq(Width(n)) /\ RowsRead(m, x \o w) = RowsRead(m, x) \o RowsRead(m, w)
        /\ Append(w, e) \in Seq(Width(n)) /\ x \o w \in Seq(Width(n))
        /\ x \o Append(w, e) = Append(x \o w, e)
    <3>1. w \in Seq(Width(n)) /\ RowsRead(m, x \o w) = RowsRead(m, x) \o RowsRead(m, w)
      OBVIOUS
    <3> QED
      BY <3>1, SnocJoin
  <2>2. ASSUME NEW z \in Seq(Width(n)) PROVE RowsRead(m, Append(z, e)) = RowsRead(m, z) \o g
    BY RowsReadSnoc
  <2>3. g \in Ink
    BY <2>1, RowsReadSnoc
  <2> HIDE DEF g
  <2>4. RowsRead(m, Append(x \o w, e)) = (RowsRead(m, x) \o RowsRead(m, w)) \o g
    BY <2>1, <2>2
  <2>5. RowsRead(m, Append(w, e)) = RowsRead(m, w) \o g
    BY <2>1, <2>2
  <2>6. RowsRead(m, x) \in Ink /\ RowsRead(m, w) \in Ink
    BY <1>t, <2>1
  <2>7. (RowsRead(m, x) \o RowsRead(m, w)) \o g = RowsRead(m, x) \o (RowsRead(m, w) \o g)
    BY <2>3, <2>6, InkFacts
  <2> QED
    BY <2>1, <2>4, <2>5, <2>7
<1>3. Good = Seq(Width(n))
  <2>1. Good \in SUBSET Seq(Width(n))
    OBVIOUS
  <2> HIDE DEF Good
  <2> QED
    BY <1>1, <1>2, <2>1, SnocInduction
<1> QED
  BY <1>3, <1>t

\* A blank row has nothing to read but the end of its line.
LEMMA BlankInk ==
  ASSUME NEW m \in Int, NEW n \in Nat
  PROVE  BlankRow(n) \in Width(n) /\ ~BlankRow(n).wrapped /\ Bare(BlankRow(n).cells) = << >>
<1>1. BlankRow(n) \in Width(n)
  BY BlankWidth
<1>2. BlankRow(n).cells = [i \in 1..n |-> Blank] /\ ~BlankRow(n).wrapped
  BY DEF BlankRow
<1>3. BlankRow(n).cells \in Text
  BY <1>1 DEF Width
<1>4. \A i \in 1..Len(BlankRow(n).cells) : BlankRow(n).cells[i] = Blank
  <2>1. Len(BlankRow(n).cells) = n
    BY <1>1 DEF Width
  <2> QED
    BY <1>2, <2>1
<1>5. BlankRow(n).cells \in Ink
  BY <1>3, InkFacts
<1> QED
  BY <1>1, <1>2, <1>4, <1>5, BareBlanks

-----------------------------------------------------------------------------
(* A screen whose cursor is at the end of its text *)

\* Nothing is on the rows from k on.
Below(n, s, k) == \A r \in k .. Len(s.rows) : s.rows[r] = BlankRow(n)

\* Nothing is below the cursor or to its right, and its row goes no further.
Tidy(n, s) ==
  /\ Whole(n, s) /\ s.autowrap
  /\ Below(n, s, s.row + 1)
  /\ ~s.rows[s.row].wrapped
  /\ \A i \in s.col + (IF s.pend THEN 2 ELSE 1) .. n : s.rows[s.row].cells[i] = Blank
  /\ s.pend => s.col = n - 1

\* What is on a screen, down to its cursor.
Above1(s) == SubSeq(s.rows, 1, s.row - 1)
Body(m, s) == RowsRead(m, Above1(s)) \o Bare(s.rows[s.row].cells)

\* The rows of a screen down to its cursor's are those above it and that one.
LEMMA BodyFacts ==
  ASSUME NEW m \in Int, NEW n, NEW s, Whole(n, s)
  PROVE  /\ Above1(s) \in Seq(Width(n)) /\ s.rows[s.row] \in Width(n) /\ n \in Nat
         /\ s.row \in 1..Len(s.rows)
         /\ SubSeq(s.rows, 1, s.row) = Append(Above1(s), s.rows[s.row])
         /\ Body(m, s) \in Ink
         /\ RowsRead(m, SubSeq(s.rows, 1, s.row)) =
              RowsRead(m, Above1(s)) \o RowInk(m, s.rows[s.row])
         /\ ~s.rows[s.row].wrapped =>
              RowsRead(m, SubSeq(s.rows, 1, s.row)) = Body(m, s) \o End(m)
<1>1. /\ n \in Nat /\ s.rows \in Seq(Width(n)) /\ s.row \in 1..Len(s.rows) /\ Len(s.rows) \in Nat
      /\ s.rows[s.row] \in Width(n)
  BY DEF Whole, Screens, Positive
<1> DEFINE up == Above1(s)
           r == s.rows[s.row]
<1>2. up \in Seq(Width(n)) /\ SubSeq(s.rows, 1, s.row) = Append(up, r)
  <2>1. ASSUME NEW S, NEW q \in Seq(S), NEW k \in 1..Len(q)
        PROVE  SubSeq(q, 1, k - 1) \in Seq(S) /\ SubSeq(q, 1, k) = Append(SubSeq(q, 1, k - 1), q[k])
    <3> DEFINE a == SubSeq(q, 1, k)
               b == SubSeq(q, 1, k - 1)
               c == Append(b, q[k])
    <3>1. /\ a \in Seq(S) /\ Len(a) = k /\ \A i \in 1..k : a[i] = q[i]
          /\ k \in Nat /\ q[k] \in S
      OBVIOUS
    <3>2. b \in Seq(S) /\ Len(b) = k - 1 /\ \A i \in 1..(k - 1) : b[i] = q[i]
      OBVIOUS
    <3> HIDE DEF a, b
    <3>3. c \in Seq(S) /\ Len(c) = k /\ c[k] = q[k] /\ \A i \in 1..(k - 1) : c[i] = b[i]
      BY <3>1, <3>2
    <3> HIDE DEF c
    <3>4. \A i \in 1..k : a[i] = c[i]
      BY <3>1, <3>2, <3>3
    <3>5. a = c
      BY <3>1, <3>3, <3>4, SameSeq
    <3> QED
      BY <3>2, <3>5 DEF a, b, c
  <2> QED
    BY <1>1, <2>1 DEF Above1
<1> HIDE DEF up, r
<1>3. r \in Width(n)
  BY <1>1 DEF r
<1>4. /\ RowsRead(m, up) \in Ink /\ Bare(r.cells) \in Ink /\ End(m) \in Ink
      /\ RowsRead(m, Append(up, r)) = RowsRead(m, up) \o RowInk(m, r)
  BY <1>1, <1>2, <1>3, RowsReadSnoc
<1>5. Body(m, s) = RowsRead(m, up) \o Bare(r.cells)
  BY DEF Body, up, r
<1>6. Body(m, s) \in Ink
  BY <1>4, <1>5, InkFacts
<1>7. (RowsRead(m, up) \o Bare(r.cells)) \o End(m) = RowsRead(m, up) \o (Bare(r.cells) \o End(m))
  BY <1>4, InkFacts
<1>8. ~r.wrapped => RowsRead(m, Append(up, r)) = Body(m, s) \o End(m)
  BY <1>4, <1>5, <1>7 DEF RowInk
<1> QED
  BY <1>1, <1>2, <1>4, <1>6, <1>8 DEF up, r


\* Scrolling up by one row moves every row up one and blanks the last (Screen::scroll_up).
LEMMA ScrollUpShape ==
  ASSUME NEW n, NEW s, Whole(n, s), NEW f, f = ScrollUp(s, 1)
  PROVE  /\ f.out = DepartedRows(SubSeq(s.rows, 1, 1))
         /\ f.s.rows = [r \in 1..Len(s.rows) |-> IF r + 1 <= Len(s.rows) THEN s.rows[r + 1] ELSE BlankRow(n)]
         /\ f.s.row = s.row /\ f.s.col = s.col /\ (f.s.pend <=> s.pend) /\ (f.s.autowrap <=> s.autowrap)
<1> DEFINE H == Len(s.rows)
           moved == [r \in 1..H |-> IF r + 1 <= H THEN s.rows[r + 1] ELSE BlankRow(n)]
           out == DepartedRows(SubSeq(s.rows, 1, 1))
           t == [s EXCEPT !.rows = moved, !.carried = Carry(s.carried, out)]
<1>1. /\ H \in Nat /\ H >= 1 /\ DOMAIN s.rows = 1..H /\ s \in Screens(n)
      /\ s.top = 1 /\ s.bottom = H /\ s.cols = n
  BY DEF Whole, Screens, Positive
<1>2. ScrollUp(s, 1) = [s |-> t, out |-> out]
  <2>1. Least(1, s.bottom + 1 - s.top) = 1
    <3>1. s.bottom + 1 - s.top = H
      BY <1>1
    <3> HIDE DEF H
    <3> QED
      BY <1>1, <3>1 DEF Least
  <2>2. FullRegion(s)
    BY <1>1 DEF FullRegion, Height
  <2>3. [r \in DOMAIN s.rows |->
           IF r \notin s.top..s.bottom THEN s.rows[r]
           ELSE IF r + 1 <= s.bottom THEN s.rows[r + 1] ELSE BlankRow(s.cols)] = moved
    BY <1>1
  <2> HIDE DEF moved, out
  <2> QED
    BY <2>1, <2>2, <2>3 DEF ScrollUp, moved, out
<1> HIDE DEF moved, out
<1>3. t.rows = moved /\ t.row = s.row /\ t.col = s.col /\ (t.pend <=> s.pend) /\ (t.autowrap <=> s.autowrap)
  BY <1>1 DEF Screens
<1> HIDE DEF t
<1>4. f.s = t /\ f.out = out
  BY <1>2
<1> QED
  BY <1>3, <1>4 DEF moved, out

\* A line feed f has opened a blank row below all there was on s, and nothing is lost.
Advanced(m, n, s, f) ==
  /\ Whole(n, f.s) /\ f.out \in Seq(Gone)
  /\ (f.s.autowrap <=> s.autowrap) /\ f.s.col = s.col /\ ~f.s.pend
  /\ Below(n, f.s, f.s.row)
  /\ GoneRead(m, f.out) \o RowsRead(m, Above1(f.s)) = RowsRead(m, SubSeq(s.rows, 1, s.row))

\* A line feed below which nothing stands opens a blank row there, whatever has to leave
\* the top for it (Screen::line_feed).
LEMMA Advance ==
  ASSUME NEW m \in Int, NEW n, NEW s, Whole(n, s), Below(n, s, s.row + 1),
         NEW f, f = LineFeed(s)
  PROVE  Advanced(m, n, s, f)
<1>1. Whole(n, f.s) /\ f.out \in Seq(Gone)
  <2>1. Keeps(n, s, f)
    BY LineFeedKeeps
  <2>2. \A d \in GoneAt(n) : d \in Gone
    BY DEF GoneAt
  <2> QED
    BY <2>1, <2>2, SeqWiden DEF Keeps
<1> DEFINE t == [s EXCEPT !.pend = FALSE]
           u == [t EXCEPT !.row = @ + 1]
           H == Len(s.rows)
<1>2. /\ n \in Nat /\ s.rows \in Seq(Width(n)) /\ H \in Nat /\ H >= 1 /\ s.row \in 1..H /\ s.bottom = H
      /\ Whole(n, t) /\ t.rows = s.rows /\ t.row = s.row /\ t.col = s.col /\ ~t.pend
      /\ (t.autowrap <=> s.autowrap) /\ t.bottom = H /\ Height(t) = H
  <2>1. /\ n \in Nat /\ s.rows \in Seq(Width(n)) /\ H \in Nat /\ H >= 1 /\ s.row \in 1..H /\ s.bottom = H
        /\ s \in Screens(n)
    BY DEF Whole, Screens, Positive
  <2>2. /\ t.rows = s.rows /\ t.row = s.row /\ t.col = s.col /\ ~t.pend
        /\ (t.autowrap <=> s.autowrap) /\ t.bottom = H /\ t \in Screens(n)
    BY <2>1 DEF Screens
  <2> HIDE DEF t
  <2>3. Whole(n, t) /\ Height(t) = H
    BY <2>1, <2>2 DEF Whole, Height
  <2> QED
    BY <2>1, <2>2, <2>3
<1>3. CASE s.row = H
  <2>1. f = ScrollUp(t, 1)
    <3> HIDE DEF ScrollUp
    <3> QED
      BY <1>2, <1>3 DEF LineFeed
  <2> HIDE DEF t, H
  <2>2. /\ f.out = DepartedRows(SubSeq(s.rows, 1, 1))
        /\ f.s.rows = [r \in 1..H |-> IF r + 1 <= H THEN s.rows[r + 1] ELSE BlankRow(n)]
        /\ f.s.row = s.row /\ f.s.col = s.col /\ ~f.s.pend /\ (f.s.autowrap <=> s.autowrap)
    <3>1. /\ f.out = DepartedRows(SubSeq(t.rows, 1, 1))
          /\ f.s.rows = [r \in 1..Len(t.rows) |->
                          IF r + 1 <= Len(t.rows) THEN t.rows[r + 1] ELSE BlankRow(n)]
          /\ f.s.row = t.row /\ f.s.col = t.col /\ (f.s.pend <=> t.pend)
          /\ (f.s.autowrap <=> t.autowrap)
      BY ONLY <1>2, <2>1, ScrollUpShape
    <3>2. t.rows = s.rows /\ t.row = s.row /\ t.col = s.col /\ ~t.pend
          /\ (t.autowrap <=> s.autowrap) /\ Len(s.rows) = H
      BY <1>2 DEF H
    <3> QED
      BY ONLY <3>1, <3>2
  <2>3. f.s.rows[H] = BlankRow(n) /\ f.s.rows \in Seq(Width(n)) /\ Len(f.s.rows) = H
    <3>1. f.s.rows \in Seq(Width(n))
      BY <1>1 DEF Whole, Screens
    <3>2. Len(f.s.rows) = H
      BY <1>2, <2>2, <3>1
    <3> QED
      BY <1>2, <2>2, <3>1, <3>2
  <2>4. Below(n, f.s, f.s.row)
    BY <1>2, <1>3, <2>2, <2>3 DEF Below
  <2> DEFINE top == SubSeq(s.rows, 1, 1)
             others == SubSeq(s.rows, 2, H)
  <2>5. /\ s.rows = top \o others /\ top \in Seq(Width(n)) /\ others \in Seq(Width(n))
        /\ Len(others) = H - 1 /\ \A i \in 1..(H - 1) : others[i] = s.rows[1 + i]
    <3>1. 1 \in 0..Len(s.rows)
      BY <1>2 DEF H
    <3> QED
      BY <1>2, <3>1, SplitSeq DEF H
  <2>6. Above1(f.s) = others
    <3> DEFINE a == SubSeq(f.s.rows, 1, H - 1)
    <3>1. a \in Seq(Width(n)) /\ Len(a) = H - 1 /\ \A i \in 1..(H - 1) : a[i] = f.s.rows[i]
      <4>1. ASSUME NEW q \in Seq(Width(n)), Len(q) = H
            PROVE  /\ SubSeq(q, 1, H - 1) \in Seq(Width(n)) /\ Len(SubSeq(q, 1, H - 1)) = H - 1
                   /\ \A i \in 1..(H - 1) : SubSeq(q, 1, H - 1)[i] = q[i]
        BY <1>2, <4>1
      <4> QED
        BY <2>3, <4>1
    <3>2. \A i \in 1..(H - 1) : f.s.rows[i] = s.rows[1 + i]
      BY <1>2, <2>2
    <3> HIDE DEF a, others
    <3>3. \A i \in 1..Len(a) : a[i] = others[i]
      BY <2>5, <3>1, <3>2
    <3>4. a = others
      BY <2>5, <3>1, <3>3, SameSeq
    <3> QED
      BY <1>3, <2>2, <3>4 DEF Above1, a
  <2>7. SubSeq(s.rows, 1, s.row) = s.rows
    BY <1>2, <1>3 DEF H
  <2> HIDE DEF top, others
  <2>8. RowsRead(m, top \o others) = RowsRead(m, top) \o RowsRead(m, others)
    BY <1>2, <2>5, RowsReadJoin
  <2>9. GoneRead(m, f.out) = RowsRead(m, top)
    BY <2>2 DEF RowsRead, top
  <2> QED
    BY <1>1, <2>2, <2>4, <2>5, <2>6, <2>7, <2>8, <2>9 DEF Advanced
<1>4. CASE s.row # H
  <2>1. f = Quiet(u)
    BY <1>2, <1>4 DEF LineFeed
  <2>2. f.s = u /\ f.out = << >>
    <3> HIDE DEF u
    <3> QED
      BY <2>1 DEF Quiet
  <2>3. /\ u.rows = s.rows /\ u.row = s.row + 1 /\ u.col = s.col /\ ~u.pend
        /\ (u.autowrap <=> s.autowrap)
    <3>1. s \in Screens(n)
      BY DEF Whole
    <3> QED
      BY <3>1 DEF Screens
  <2> HIDE DEF u
  <2>4. Below(n, f.s, f.s.row)
    BY <2>2, <2>3 DEF Below
  <2>5. Above1(f.s) = SubSeq(s.rows, 1, s.row)
    <3>1. (s.row + 1) - 1 = s.row
      BY <1>2
    <3> QED
      BY <2>2, <2>3, <3>1 DEF Above1
  <2>6. GoneRead(m, << >>) = << >>
    BY <1>1, GoneReadJoin
  <2>7. RowsRead(m, Above1(f.s)) \in Ink
    <3>1. Above1(f.s) \in Seq(Width(n))
      BY <1>1, BodyFacts
    <3> QED
      BY <1>2, <3>1, RowsReadJoin
  <2>8. << >> \o RowsRead(m, Above1(f.s)) = RowsRead(m, Above1(f.s))
    BY <2>7, InkFacts
  <2>9. GoneRead(m, f.out) \o RowsRead(m, Above1(f.s)) = RowsRead(m, SubSeq(s.rows, 1, s.row))
    BY <2>2, <2>5, <2>6, <2>8
  <2> QED
    BY <1>1, <2>2, <2>3, <2>4, <2>9 DEF Advanced
<1> QED
  BY <1>3, <1>4


Written(r, c, ch) == [r EXCEPT !.cells[c + 1] = ch]

\* A row holds nothing from column k on.
BlankFrom(k, n, r) == \A i \in k .. n : r.cells[i] = Blank

\* What CellWritten says of a row.
WrittenWell(n, r, c, ch) ==
  /\ Written(r, c, ch) \in Width(n)
  /\ Written(r, c, ch).wrapped <=> r.wrapped
  /\ Bare(Written(r, c, ch).cells) = Bare(r.cells) \o Bare(<< ch >>)
  /\ BlankFrom(c + 2, n, Written(r, c, ch))

\* A character written where only blanks follow is read after what the row held
\* (Row cells in Screen::place).
LEMMA CellWritten ==
  ASSUME NEW n \in Nat, NEW r \in Width(n), NEW c \in 0 .. n - 1, NEW ch \in Nat,
         BlankFrom(c + 1, n, r)
  PROVE  WrittenWell(n, r, c, ch)
<1> DEFINE x == Written(r, c, ch)
           old == r.cells
           new == [old EXCEPT ![c + 1] = ch]
<1>1. old \in Seq(Nat) /\ Len(old) = n /\ r \in [cells : Text, wrapped : BOOLEAN] /\ c + 1 \in 1..n
      /\ c \in 0..n
  BY DEF Width, Text
<1>2. x.cells = new /\ x = [r EXCEPT !.cells = new] /\ x.wrapped = r.wrapped
  BY <1>1 DEF Width, Written
<1> HIDE DEF old, x
<1>3. /\ new \in Seq(Nat) /\ Len(new) = n /\ new[c + 1] = ch
      /\ \A i \in 1..n : i # c + 1 => new[i] = old[i]
  BY <1>1
<1> HIDE DEF new
<1>4. x \in Width(n)
  BY <1>1, <1>2, <1>3 DEF Width, Text
<1> DEFINE a == SubSeq(old, 1, c)
           b == SubSeq(old, c + 1, n)
           d == SubSeq(new, 1, c)
           e == SubSeq(new, c + 1, n)
<1>5. /\ old = a \o b /\ a \in Seq(Nat) /\ Len(a) = c /\ b \in Seq(Nat) /\ Len(b) = n - c
      /\ \A i \in 1..c : a[i] = old[i]
      /\ \A i \in 1..(n - c) : b[i] = old[c + i]
  BY ONLY <1>1, SplitSeq
<1>6. /\ new = d \o e /\ d \in Seq(Nat) /\ Len(d) = c /\ e \in Seq(Nat) /\ Len(e) = n - c
      /\ \A i \in 1..c : d[i] = new[i]
      /\ \A i \in 1..(n - c) : e[i] = new[c + i]
  <2>1. ASSUME NEW q \in Seq(Nat), Len(q) = n
        PROVE  /\ q = SubSeq(q, 1, c) \o SubSeq(q, c + 1, n)
               /\ SubSeq(q, 1, c) \in Seq(Nat) /\ Len(SubSeq(q, 1, c)) = c
               /\ SubSeq(q, c + 1, n) \in Seq(Nat) /\ Len(SubSeq(q, c + 1, n)) = n - c
               /\ \A i \in 1..c : SubSeq(q, 1, c)[i] = q[i]
               /\ \A i \in 1..(n - c) : SubSeq(q, c + 1, n)[i] = q[c + i]
    <3>1. c \in 0..Len(q)
      BY <1>1, <2>1
    <3> QED
      BY <2>1, <3>1, SplitSeq
  <2>2. new \in Seq(Nat) /\ Len(new) = n
    BY <1>3
  <2> QED
    BY <2>1, <2>2
<1> HIDE DEF a, b, d, e
<1>7. d = a
  <2>1. ASSUME NEW i \in 1..c PROVE d[i] = a[i]
    <3>1. i \in 1..n /\ i # c + 1
      BY <1>1
    <3>2. d[i] = new[i] /\ new[i] = old[i] /\ a[i] = old[i]
      BY <1>3, <1>5, <1>6, <3>1
    <3> QED
      BY <3>2
  <2> QED
    BY <1>5, <1>6, <2>1, SameSeq
<1>8. \A i \in 1..Len(b) : b[i] = Blank
  <2> SUFFICES ASSUME NEW i \in 1..(n - c) PROVE b[i] = Blank
    BY <1>5
  <2>1. c + i \in c + 1 .. n
    BY <1>1
  <2> QED
    BY <1>5, <2>1 DEF old, BlankFrom
<1> DEFINE k == SubSeq(e, 1, 1)
           l == SubSeq(e, 2, n - c)
<1>9. /\ e = k \o l /\ k \in Seq(Nat) /\ Len(k) = 1 /\ l \in Seq(Nat) /\ Len(l) = n - c - 1
      /\ k[1] = e[1] /\ \A i \in 1..(n - c - 1) : l[i] = e[1 + i]
  <2>1. 1 \in 0..Len(e) /\ n - c \in Nat /\ Len(e) = n - c /\ e \in Seq(Nat)
    BY <1>1, <1>6
  <2>2. /\ e = SubSeq(e, 1, 1) \o SubSeq(e, 1 + 1, Len(e))
        /\ SubSeq(e, 1, 1) \in Seq(Nat) /\ Len(SubSeq(e, 1, 1)) = 1
        /\ SubSeq(e, 1 + 1, Len(e)) \in Seq(Nat) /\ Len(SubSeq(e, 1 + 1, Len(e))) = Len(e) - 1
        /\ \A i \in 1..1 : SubSeq(e, 1, 1)[i] = e[i]
        /\ \A i \in 1..(Len(e) - 1) : SubSeq(e, 1 + 1, Len(e))[i] = e[1 + i]
    BY <2>1, SplitSeq
  <2>3. 1 + 1 = 2 /\ 1 \in 1..1
    OBVIOUS
  <2>4. k = SubSeq(e, 1, 1) /\ l = SubSeq(e, 1 + 1, Len(e))
    BY <2>1, <2>3
  <2> HIDE DEF k, l
  <2> QED
    BY <2>1, <2>2, <2>3, <2>4
<1>10. k = << ch >>
  <2>1. e[1] = ch
    <3>1. 1 \in 1..(n - c)
      BY <1>1
    <3> QED
      BY <1>3, <1>6, <3>1
  <2>2. k = << k[1] >>
    <3> HIDE DEF k
    <3> QED
      BY <1>9
  <2> QED
    BY <1>9, <2>1, <2>2
<1> HIDE DEF k, l
<1>11. \A i \in 1..Len(l) : l[i] = Blank
  <2> SUFFICES ASSUME NEW i \in 1..(n - c - 1) PROVE l[i] = Blank
    BY <1>9
  <2>1. c + (1 + i) \in c + 1 .. n /\ c + (1 + i) # c + 1 /\ c + (1 + i) \in 1..n
        /\ 1 + i \in 1..(n - c)
    BY <1>1
  <2>2. l[i] = e[1 + i] /\ e[1 + i] = new[c + (1 + i)]
    BY <1>6, <1>9, <2>1
  <2> QED
    BY <1>3, <2>1, <2>2 DEF old, BlankFrom
<1>12. a \in Ink /\ b \in Ink /\ k \in Ink /\ l \in Ink
  <2>1. \A z \in Seq(Nat) : z \in Ink
    BY InkFacts DEF Text
  <2> QED
    BY <1>5, <1>9, <2>1
<1>13. Bare(b) = << >> /\ Bare(l) = << >>
  BY <1>8, <1>11, <1>12, BareBlanks
<1>14. Bare(old) = Bare(a)
  <2>1. Bare(a \o b) = Bare(a) \o Bare(b) /\ Bare(a) \in Ink
    BY <1>12, BareJoin, BareType
  <2> QED
    BY <1>5, <1>13, <2>1, InkFacts
<1>15. Bare(new) = Bare(a) \o Bare(k)
  <2>1. k \o l \in Ink /\ Bare(k \o l) = Bare(k) \o Bare(l) /\ Bare(k) \in Ink
    BY <1>12, BareJoin, BareType, InkFacts
  <2>2. Bare(k \o l) = Bare(k)
    BY <1>13, <2>1, InkFacts
  <2>3. Bare(a \o (k \o l)) = Bare(a) \o Bare(k \o l)
    BY <1>12, <2>1, BareJoin
  <2> QED
    BY <1>6, <1>7, <1>9, <2>2, <2>3
<1>16. BlankFrom(c + 2, n, x)
  <2> SUFFICES ASSUME NEW i \in c + 2 .. n PROVE new[i] = Blank
    BY <1>2 DEF BlankFrom
  <2>1. i \in 1..n /\ i # c + 1 /\ i \in c + 1 .. n
    BY <1>1
  <2> QED
    BY <1>3, <2>1 DEF old, BlankFrom
<1> QED
  BY <1>2, <1>4, <1>10, <1>14, <1>15, <1>16 DEF old, x, WrittenWell

\* Nothing is below a cursor, after it or where it is.
Clear1(n, v) ==
  /\ Whole(n, v) /\ v.autowrap
  /\ Below(n, v, v.row + 1)
  /\ ~v.rows[v.row].wrapped
  /\ \A i \in v.col + 1 .. n : v.rows[v.row].cells[i] = Blank

\* The screen u is v with a character written at the cursor, and the cursor after it.
Writes(n, v, ch, u) ==
  /\ Whole(n, u)
  /\ u.rows = [v.rows EXCEPT ![v.row] = Written(@, v.col, ch)]
  /\ u.row = v.row /\ (u.autowrap <=> v.autowrap)
  /\ u.col = IF v.col + 1 >= n THEN n - 1 ELSE v.col + 1
  /\ u.pend <=> (v.col + 1 >= n)

\* A character written at a cursor below and after which nothing stands is the next one
\* read, and the cursor stands after it (Screen::place).
LEMMA WriteTidy ==
  ASSUME NEW m \in Int, NEW n, NEW v, Clear1(n, v), NEW ch \in Nat, NEW u, Writes(n, v, ch, u)
  PROVE  Tidy(n, u) /\ Body(m, u) = Body(m, v) \o Bare(<< ch >>)
<1> USE DEF Clear1, Writes
<1>1. /\ n \in Nat /\ v.rows \in Seq(Width(n)) /\ Len(v.rows) \in Nat /\ v.row \in 1..Len(v.rows)
      /\ v.col \in 0 .. n - 1 /\ v.rows[v.row] \in Width(n) /\ n >= 1
  BY DEF Whole, Screens, Positive
<1> DEFINE r == v.rows[v.row]
           x == Written(r, v.col, ch)
<1>2. /\ x \in Width(n) /\ (x.wrapped <=> r.wrapped)
      /\ Bare(x.cells) = Bare(r.cells) \o Bare(<< ch >>)
      /\ \A i \in v.col + 2 .. n : x.cells[i] = Blank
  <2>1. n \in Nat /\ r \in Width(n) /\ v.col \in 0 .. n - 1
    BY <1>1
  <2>2. BlankFrom(v.col + 1, n, r)
    BY DEF BlankFrom
  <2> HIDE DEF r
  <2>3. WrittenWell(n, r, v.col, ch)
    BY <2>1, <2>2, CellWritten
  <2> QED
    BY <2>3 DEF WrittenWell, BlankFrom
<1> HIDE DEF r, x
<1>3. u.rows = [v.rows EXCEPT ![v.row] = x]
  BY <1>1 DEF r, x
<1>4. /\ u.rows \in Seq(Width(n)) /\ Len(u.rows) = Len(v.rows) /\ u.rows[v.row] = x
      /\ \A i \in 1..Len(v.rows) : i # v.row => u.rows[i] = v.rows[i]
  <2>1. ASSUME NEW S, NEW q \in Seq(S), NEW k \in 1..Len(q), NEW y \in S
        PROVE  /\ [q EXCEPT ![k] = y] \in Seq(S) /\ Len([q EXCEPT ![k] = y]) = Len(q)
               /\ [q EXCEPT ![k] = y][k] = y
               /\ \A i \in 1..Len(q) : i # k => [q EXCEPT ![k] = y][i] = q[i]
    OBVIOUS
  <2>2. /\ [v.rows EXCEPT ![v.row] = x] \in Seq(Width(n))
        /\ Len([v.rows EXCEPT ![v.row] = x]) = Len(v.rows)
        /\ [v.rows EXCEPT ![v.row] = x][v.row] = x
        /\ \A i \in 1..Len(v.rows) : i # v.row => [v.rows EXCEPT ![v.row] = x][i] = v.rows[i]
    BY <1>1, <1>2, <2>1
  <2> QED
    BY <1>3, <2>2
<1>5. Tidy(n, u)
  <2>1. Below(n, u, u.row + 1)
    BY <1>1, <1>4 DEF Below
  <2>2. ~u.rows[u.row].wrapped
    BY <1>2, <1>4 DEF r
  <2>3. \A i \in u.col + (IF u.pend THEN 2 ELSE 1) .. n : u.rows[u.row].cells[i] = Blank
    <3>1. CASE v.col + 1 >= n
      <4>1. u.col = n - 1 /\ u.pend
        BY <3>1
      <4>2. u.col + 2 > n
        BY <1>1, <4>1
      <4> QED
        BY <1>1, <4>1, <4>2
    <3>2. CASE ~(v.col + 1 >= n)
      <4>1. u.col = v.col + 1 /\ ~u.pend
        BY <3>2
      <4>2. u.col + 1 = v.col + 2
        BY <1>1, <4>1
      <4> QED
        BY <1>2, <1>4, <4>1, <4>2
    <3> QED
      BY <3>1, <3>2
  <2>4. u.pend => u.col = n - 1
    OBVIOUS
  <2> QED
    BY <2>1, <2>2, <2>3, <2>4 DEF Tidy
<1>6. Above1(u) = Above1(v)
  <2> DEFINE a == SubSeq(u.rows, 1, v.row - 1)
             b == SubSeq(v.rows, 1, v.row - 1)
  <2>1. ASSUME NEW S, NEW q \in Seq(S), NEW k \in 1..Len(q)
        PROVE  /\ SubSeq(q, 1, k - 1) \in Seq(S) /\ Len(SubSeq(q, 1, k - 1)) = k - 1
               /\ \A i \in 1..(k - 1) : SubSeq(q, 1, k - 1)[i] = q[i]
    OBVIOUS
  <2>2. /\ a \in Seq(Width(n)) /\ Len(a) = v.row - 1 /\ \A i \in 1..(v.row - 1) : a[i] = u.rows[i]
    <3>1. v.row \in 1..Len(u.rows) /\ u.rows \in Seq(Width(n))
      BY <1>1, <1>4
    <3> QED
      BY ONLY <2>1, <3>1
  <2>3. /\ b \in Seq(Width(n)) /\ Len(b) = v.row - 1 /\ \A i \in 1..(v.row - 1) : b[i] = v.rows[i]
    <3>1. v.row \in 1..Len(v.rows) /\ v.rows \in Seq(Width(n))
      BY <1>1
    <3> QED
      BY ONLY <2>1, <3>1
  <2> HIDE DEF a, b
  <2>4. \A i \in 1..Len(a) : a[i] = b[i]
    <3> SUFFICES ASSUME NEW i \in 1..(v.row - 1) PROVE a[i] = b[i]
      BY <2>2
    <3>1. i \in 1..Len(v.rows) /\ i # v.row
      BY <1>1
    <3> QED
      BY <1>4, <2>2, <2>3, <3>1
  <2>5. a = b
    BY <2>2, <2>3, <2>4, SameSeq
  <2> QED
    BY <2>5 DEF Above1, a, b
<1>7. Body(m, u) = RowsRead(m, Above1(v)) \o (Bare(r.cells) \o Bare(<< ch >>))
  BY <1>2, <1>4, <1>6 DEF Body
<1>8. /\ RowsRead(m, Above1(v)) \in Ink /\ Bare(r.cells) \in Ink /\ Bare(<< ch >>) \in Ink
  <2>1. << ch >> \in Ink
    BY DEF Ink
  <2>2. Above1(v) \in Seq(Width(n)) /\ r \in Width(n)
    BY <1>1, BodyFacts DEF r
  <2> QED
    BY <1>1, <2>1, <2>2, RowsReadSnoc, BareType
<1>9. ASSUME NEW a \in Ink, NEW b \in Ink, NEW c \in Ink PROVE a \o (b \o c) = (a \o b) \o c
  BY InkFacts
<1>10. Body(m, u) = (RowsRead(m, Above1(v)) \o Bare(r.cells)) \o Bare(<< ch >>)
  BY <1>7, <1>8, <1>9
<1> QED
  BY <1>5, <1>10 DEF Body, r


\* The cursor's row wraps, and the cursor is at its start (Screen::place).
Wrapping(s) == [s EXCEPT !.rows[s.row].wrapped = TRUE, !.col = 0]
Wrapped(s) == IF s.pend /\ s.autowrap THEN LineFeed(Wrapping(s)) ELSE Quiet(s)

\* A character is written where the cursor is once it has wrapped (Screen::place).
LEMMA PlaceShape ==
  ASSUME NEW n, NEW s, NEW ch \in Nat, Whole(n, Wrapped(s).s), Wrapped(s).s.autowrap,
         NEW f, f = Place(s, ch), Whole(n, f.s)
  PROVE  f.out = Wrapped(s).out /\ Writes(n, Wrapped(s).s, ch, f.s)
<1> DEFINE w == [s EXCEPT !.rows[s.row].wrapped = TRUE, !.col = 0]
           at == IF s.pend /\ s.autowrap THEN LineFeed(w) ELSE Quiet(s)
           v == at.s
           t == [v EXCEPT !.rows[v.row].cells[v.col + 1] = ch]
           atEdge == t.col + 1 >= t.cols
           u == [t EXCEPT !.col = IF atEdge THEN t.cols - 1 ELSE @ + 1,
                          !.pend = atEdge /\ t.autowrap]
<1>1. Place(s, ch) = [s |-> u, out |-> at.out]
  BY DEF Place, at
<1>2. at = Wrapped(s)
  BY DEF Wrapped, Wrapping
<1> HIDE DEF at
<1>3. /\ v \in Screens(n) /\ v.cols = n /\ v.autowrap
  BY <1>2 DEF Whole, Screens
<1> HIDE DEF v
<1>4. /\ t.rows = [v.rows EXCEPT ![v.row] = Written(v.rows[v.row], v.col, ch)]
      /\ t.row = v.row /\ t.col = v.col /\ t.cols = n /\ t.autowrap = v.autowrap
      /\ t = [v EXCEPT !.rows = t.rows]
  BY <1>3 DEF Screens, Written
<1> HIDE DEF t
<1>5. /\ u.rows = t.rows /\ u.row = t.row /\ (u.autowrap <=> t.autowrap)
      /\ u.col = (IF t.col + 1 >= n THEN n - 1 ELSE t.col + 1)
      /\ u.pend <=> (t.col + 1 >= n /\ t.autowrap)
  BY <1>3, <1>4 DEF Screens
<1> HIDE DEF u
<1>6. f.s = u /\ f.out = at.out
  BY <1>1
<1>7. Writes(n, v, ch, u)
  BY <1>3, <1>4, <1>5, <1>6 DEF Writes
<1> QED
  BY <1>2, <1>6, <1>7 DEF v

\* A wrapped row goes on in the next.
LEMMA WrappingFacts ==
  ASSUME NEW m \in Int, NEW n, NEW s, Whole(n, s), NEW w, w = Wrapping(s)
  PROVE  /\ Whole(n, w) /\ w.row = s.row /\ w.col = 0 /\ (w.autowrap <=> s.autowrap)
         /\ Len(w.rows) = Len(s.rows)
         /\ Below(n, s, s.row + 1) => Below(n, w, w.row + 1)
         /\ RowsRead(m, SubSeq(w.rows, 1, w.row)) = Body(m, s)
<1>1. /\ n \in Nat /\ s.rows \in Seq(Width(n)) /\ Len(s.rows) \in Nat /\ s.row \in 1..Len(s.rows)
      /\ s.rows[s.row] \in Width(n) /\ s \in Screens(n) /\ n \in Positive
      /\ Len(s.rows) >= 1 /\ s.bottom = Len(s.rows)
  BY DEF Whole, Screens, Positive
<1> DEFINE r == s.rows[s.row]
           x == [r EXCEPT !.wrapped = TRUE]
           rs == [s.rows EXCEPT ![s.row] = x]
<1>2. x \in Width(n) /\ x.wrapped /\ x.cells = r.cells
  <2>1. r \in Width(n)
    BY <1>1
  <2> HIDE DEF r
  <2> QED
    BY <2>1 DEF Width
<1>3. w = [s EXCEPT !.rows = rs, !.col = 0]
  BY <1>1 DEF Wrapping
<1> HIDE DEF r, x
<1>4. /\ rs \in Seq(Width(n)) /\ Len(rs) = Len(s.rows) /\ rs[s.row] = x
      /\ \A i \in 1..Len(s.rows) : i # s.row => rs[i] = s.rows[i]
  <2>1. ASSUME NEW S, NEW q \in Seq(S), NEW k \in 1..Len(q), NEW y \in S
        PROVE  /\ [q EXCEPT ![k] = y] \in Seq(S) /\ Len([q EXCEPT ![k] = y]) = Len(q)
               /\ [q EXCEPT ![k] = y][k] = y
               /\ \A i \in 1..Len(q) : i # k => [q EXCEPT ![k] = y][i] = q[i]
    OBVIOUS
  <2> QED
    BY <1>1, <1>2, <2>1
<1> HIDE DEF rs
<1>5. 0 \in 0 .. n - 1
  BY <1>1 DEF Positive
<1>6. /\ Whole(n, w) /\ w.row = s.row /\ w.col = 0 /\ (w.autowrap <=> s.autowrap) /\ w.rows = rs
  BY <1>1, <1>3, <1>4, <1>5 DEF Whole, Screens
<1>7. Below(n, s, s.row + 1) => Below(n, w, w.row + 1)
  BY <1>1, <1>4, <1>6 DEF Below
<1>8. Above1(w) = Above1(s)
  <2> DEFINE a == SubSeq(rs, 1, s.row - 1)
             b == SubSeq(s.rows, 1, s.row - 1)
  <2>1. ASSUME NEW S, NEW q \in Seq(S), NEW k \in 1..Len(q)
        PROVE  /\ SubSeq(q, 1, k - 1) \in Seq(S) /\ Len(SubSeq(q, 1, k - 1)) = k - 1
               /\ \A i \in 1..(k - 1) : SubSeq(q, 1, k - 1)[i] = q[i]
    OBVIOUS
  <2>2. /\ a \in Seq(Width(n)) /\ Len(a) = s.row - 1 /\ \A i \in 1..(s.row - 1) : a[i] = rs[i]
    <3>1. s.row \in 1..Len(rs) /\ rs \in Seq(Width(n))
      BY <1>1, <1>4
    <3> QED
      BY <2>1, <3>1
  <2>3. /\ b \in Seq(Width(n)) /\ Len(b) = s.row - 1 /\ \A i \in 1..(s.row - 1) : b[i] = s.rows[i]
    BY <1>1, <2>1
  <2> HIDE DEF a, b
  <2>4. \A i \in 1..Len(a) : a[i] = b[i]
    <3> SUFFICES ASSUME NEW i \in 1..(s.row - 1) PROVE a[i] = b[i]
      BY <2>2
    <3>1. i \in 1..Len(s.rows) /\ i # s.row
      BY <1>1
    <3> QED
      BY <1>4, <2>2, <2>3, <3>1
  <2>5. a = b
    BY <2>2, <2>3, <2>4, SameSeq
  <2> QED
    BY <1>6, <2>5 DEF Above1, a, b
<1>9. RowsRead(m, SubSeq(w.rows, 1, w.row)) = RowsRead(m, Above1(w)) \o RowInk(m, w.rows[w.row])
  BY <1>6, BodyFacts
<1>10. RowInk(m, w.rows[w.row]) = Bare(r.cells)
  BY <1>2, <1>4, <1>6 DEF RowInk
<1> QED
  BY <1>4, <1>6, <1>7, <1>8, <1>9, <1>10 DEF Body, r

\* What is on a screen and what left it read as what was there, and z after it.
Adds(m, n, s, z, f) ==
  /\ Tidy(n, f.s) /\ f.out \in Seq(Gone)
  /\ GoneRead(m, f.out) \o Body(m, f.s) = Body(m, s) \o z

\* A character printed at the end of a screen's text is the next one read, wherever it
\* wraps to and whatever leaves the top for it (Screen::place).
LEMMA PlaceTidy ==
  ASSUME NEW m \in Int, NEW n, NEW s, Tidy(n, s), NEW ch \in Nat, NEW f, f = Place(s, ch)
  PROVE  Adds(m, n, s, Bare(<< ch >>), f)
<1> DEFINE at == Wrapped(s)
           v == at.s
<1>1. Whole(n, s) /\ s.autowrap /\ n \in Nat /\ s.col \in 0 .. n - 1
  BY DEF Tidy, Whole, Screens, Positive
<1>2. Whole(n, f.s) /\ f.out \in Seq(Gone)
  <2>1. Keeps(n, s, f)
    BY <1>1, PlaceKeeps
  <2>2. \A d \in GoneAt(n) : d \in Gone
    BY DEF GoneAt
  <2> QED
    BY <2>1, <2>2, SeqWiden DEF Keeps
<1>3. /\ Whole(n, v) /\ v.autowrap
      /\ Below(n, v, v.row + 1)
      /\ ~v.rows[v.row].wrapped
      /\ \A i \in v.col + 1 .. n : v.rows[v.row].cells[i] = Blank
      /\ GoneRead(m, at.out) \o Body(m, v) = Body(m, s) /\ GoneRead(m, at.out) \in Ink
  <2>1. CASE s.pend
    <3> DEFINE w == Wrapping(s)
               g == LineFeed(w)
    <3>1. at = g
      <4> HIDE DEF g, w
      <4> QED
        BY <1>1, <2>1 DEF Wrapped, g, w
    <3>2. /\ Whole(n, w) /\ w.row = s.row /\ w.col = 0 /\ (w.autowrap <=> s.autowrap)
          /\ Len(w.rows) = Len(s.rows)
          /\ Below(n, s, s.row + 1) => Below(n, w, w.row + 1)
          /\ RowsRead(m, SubSeq(w.rows, 1, w.row)) = Body(m, s)
      <4> HIDE DEF w
      <4> QED
        BY <1>1, WrappingFacts DEF w
    <3> HIDE DEF w
    <3>3. Below(n, w, w.row + 1)
      BY <3>2 DEF Tidy
    <3>g. g = LineFeed(w)
      OBVIOUS
    <3> HIDE DEF g
    <3>4. /\ Whole(n, g.s) /\ g.out \in Seq(Gone)
          /\ (g.s.autowrap <=> w.autowrap) /\ g.s.col = w.col
          /\ Below(n, g.s, g.s.row)
          /\ GoneRead(m, g.out) \o RowsRead(m, Above1(g.s)) = RowsRead(m, SubSeq(w.rows, 1, w.row))
      <4>1. Advanced(m, n, w, g)
        BY <3>2, <3>3, <3>g, Advance
      <4> QED
        BY <4>1 DEF Advanced
    <3>5. g.s.row \in 1..Len(g.s.rows) /\ Len(g.s.rows) \in Nat
      BY <3>4 DEF Whole, Screens, Positive
    <3>6. g.s.rows[g.s.row] = BlankRow(n)
      BY <3>4, <3>5 DEF Below
    <3>7. ~BlankRow(n).wrapped /\ Bare(BlankRow(n).cells) = << >>
          /\ \A i \in 1..n : BlankRow(n).cells[i] = Blank
      BY <1>1, BlankInk DEF BlankRow
    <3>8. Body(m, g.s) = RowsRead(m, Above1(g.s)) /\ GoneRead(m, g.out) \in Ink
      <4>1. RowsRead(m, Above1(g.s)) \in Ink
        <5>1. Above1(g.s) \in Seq(Width(n))
          BY <3>4, BodyFacts
        <5> QED
          BY <1>1, <5>1, RowsReadJoin
      <4>2. RowsRead(m, Above1(g.s)) \o << >> = RowsRead(m, Above1(g.s))
        BY <4>1, InkFacts
      <4>3. GoneRead(m, g.out) \in Ink
        BY <3>4, GoneReadJoin
      <4> QED
        BY <3>6, <3>7, <4>2, <4>3 DEF Body
    <3>9. \A i \in g.s.col + 1 .. n : g.s.rows[g.s.row].cells[i] = Blank
      <4>1. g.s.col + 1 = 1
        BY <3>2, <3>4
      <4> QED
        BY <3>6, <3>7, <4>1
    <3>10. Below(n, g.s, g.s.row + 1)
      BY <3>4, <3>5 DEF Below
    <3> HIDE DEF at
    <3> QED
      BY <1>1, <3>1, <3>2, <3>4, <3>6, <3>7, <3>8, <3>9, <3>10
  <2>2. CASE ~s.pend
    <3>1. at = Quiet(s)
      BY <2>2 DEF Wrapped
    <3>2. at.s = s /\ at.out = << >>
      BY <3>1 DEF Quiet
    <3> HIDE DEF at
    <3>3. GoneRead(m, << >>) = << >> /\ << >> \in Ink
      BY <1>2, GoneReadJoin, InkFacts
    <3>4. Body(m, s) \in Ink
      BY <1>1, BodyFacts
    <3>5. << >> \o Body(m, s) = Body(m, s)
      BY <3>4, InkFacts
    <3> QED
      BY <1>1, <2>2, <3>2, <3>3, <3>5 DEF Tidy
  <2> QED
    BY <2>1, <2>2
<1> HIDE DEF at
<1>4. f.out = at.out /\ Writes(n, v, ch, f.s)
  BY <1>2, <1>3, PlaceShape DEF at
<1>5. Clear1(n, v)
  BY <1>3 DEF Clear1
<1> DEFINE u == f.s
<1> HIDE DEF v, u
<1>6. Tidy(n, u) /\ Body(m, u) = Body(m, v) \o Bare(<< ch >>)
  <2>1. Writes(n, v, ch, u)
    BY <1>4 DEF u
  <2> QED
    BY <1>5, <2>1, WriteTidy
<1>7. GoneRead(m, at.out) \o (Body(m, v) \o Bare(<< ch >>)) =
        (GoneRead(m, at.out) \o Body(m, v)) \o Bare(<< ch >>)
  <2>1. Body(m, v) \in Ink /\ << ch >> \in Ink
    BY <1>3, BodyFacts DEF Ink
  <2>2. Bare(<< ch >>) \in Ink
    BY <2>1, BareType
  <2>3. ASSUME NEW a \in Ink, NEW b \in Ink, NEW c \in Ink PROVE a \o (b \o c) = (a \o b) \o c
    BY InkFacts
  <2> QED
    BY <1>3, <2>1, <2>2, <2>3
<1> QED
  BY <1>2, <1>3, <1>4, <1>6, <1>7 DEF u, Adds

\* Each part of two sequences end to end is where it was.
LEMMA JoinedAt ==
  ASSUME NEW S, NEW p \in Seq(S), NEW q \in Seq(S)
  PROVE  /\ p \o q \in Seq(S) /\ Len(p \o q) = Len(p) + Len(q)
         /\ \A i \in 1..Len(p) : (p \o q)[i] = p[i]
         /\ \A i \in Len(p) + 1 .. Len(p) + Len(q) : (p \o q)[i] = q[i - Len(p)]
  OBVIOUS

\* What is read before the end of the same line is the same.
LEMMA EndCancel ==
  ASSUME NEW m \in Int, NEW x \in Ink, NEW y \in Ink, NEW z \in Ink,
         x \o (y \o End(m)) = z \o End(m)
  PROVE  x \o y = z
<1>1. << m >> \in Ink
  BY DEF Ink
<1>2. End(m) \in Ink /\ x \o y \in Ink
  BY <1>1, BareType, InkFacts DEF End
<1>3. x \o (y \o End(m)) = (x \o y) \o End(m)
  BY <1>2, InkFacts
<1> QED
  BY <1>2, <1>3, InkCancel

\* Rows cut off the top are read before those that stay.
LEMMA CutRead ==
  ASSUME NEW m \in Int, NEW n \in Nat, NEW grid \in Seq(Width(n)), NEW rows \in Seq(Width(n)),
         NEW g \in 0..Len(grid), NEW k \in 0..g, g - k <= Len(rows),
         \A i \in 1 .. g - k : rows[i] = grid[k + i],
         NEW out, out = DepartedRows(SubSeq(grid, 1, k))
  PROVE  /\ GoneRead(m, out) \o RowsRead(m, SubSeq(rows, 1, g - k)) = RowsRead(m, SubSeq(grid, 1, g))
         /\ GoneRead(m, out) \in Ink /\ out \in Seq(Gone)
<1>0. g \in Nat /\ k \in Nat /\ k <= g /\ g <= Len(grid) /\ Len(grid) \in Nat /\ Len(rows) \in Nat
      /\ g - k \in 0..Len(rows) /\ g - k \in Nat /\ k \in 0..Len(grid)
  OBVIOUS
<1> DEFINE whole == SubSeq(grid, 1, g)
           top == SubSeq(grid, 1, k)
           low == SubSeq(rows, 1, g - k)
           both == top \o low
<1>1. ASSUME NEW S, NEW q \in Seq(S), NEW j \in 0..Len(q)
      PROVE  /\ SubSeq(q, 1, j) \in Seq(S) /\ Len(SubSeq(q, 1, j)) = j
             /\ \A i \in 1..j : SubSeq(q, 1, j)[i] = q[i]
  OBVIOUS
<1>2. /\ whole \in Seq(Width(n)) /\ Len(whole) = g /\ \A i \in 1..g : whole[i] = grid[i]
  BY <1>1
<1>3. /\ top \in Seq(Width(n)) /\ Len(top) = k /\ \A i \in 1..k : top[i] = grid[i]
  BY <1>0, <1>1
<1>4. /\ low \in Seq(Width(n)) /\ Len(low) = g - k /\ \A i \in 1 .. g - k : low[i] = rows[i]
  BY <1>0, <1>1
<1> HIDE DEF whole, top, low
<1>5. /\ both \in Seq(Width(n)) /\ Len(both) = g
      /\ \A i \in 1..k : both[i] = top[i]
      /\ \A i \in k + 1 .. g : both[i] = low[i - k]
  <2>2. k + (g - k) = g
    BY <1>0
  <2>3. /\ top \o low \in Seq(Width(n)) /\ Len(top \o low) = Len(top) + Len(low)
        /\ \A i \in 1..Len(top) : (top \o low)[i] = top[i]
        /\ \A i \in Len(top) + 1 .. Len(top) + Len(low) : (top \o low)[i] = low[i - Len(top)]
    BY ONLY <1>3, <1>4, JoinedAt, Zenon
  <2>4. Len(top) = k /\ Len(low) = g - k
    BY <1>3, <1>4
  <2> HIDE DEF both
  <2> QED
    BY <2>2, <2>3, <2>4 DEF both
<1> HIDE DEF both
<1>6. ASSUME NEW i \in 1..g PROVE both[i] = whole[i]
  <2>1. CASE i \in 1..k
    BY <1>0, <1>2, <1>3, <1>5, <2>1
  <2>2. CASE i \in k + 1 .. g
    <3>1. i - k \in 1 .. g - k /\ k + (i - k) = i
      BY <1>0, <2>2
    <3> QED
      BY <1>2, <1>4, <1>5, <2>2, <3>1
  <2> QED
    BY <1>0, <2>1, <2>2
<1>7. both = whole
  BY <1>2, <1>5, <1>6, SameSeq
<1>8. RowsRead(m, top \o low) = RowsRead(m, top) \o RowsRead(m, low) /\ RowsRead(m, top) \in Ink
  BY <1>3, <1>4, RowsReadJoin
<1>9. GoneRead(m, out) = RowsRead(m, top) /\ out \in Seq(Gone)
  BY <1>3, DepartedType DEF RowsRead, top
<1> QED
  BY <1>7, <1>8, <1>9 DEF both, whole, low

\* A row has something if it has a character.
LEMMA BlankTextless ==
  ASSUME NEW n \in Nat
  PROVE  ~HasText(BlankRow(n))
  BY DEF HasText, BlankRow

\* Nothing below its cursor's row is in use on a tidy screen.
LEMMA TidyUsed ==
  ASSUME NEW n, NEW s, Tidy(n, s)
  PROVE  Used(s) = s.row
<1> DEFINE Marks == {1} \cup {r \in 1..Height(s) : HasText(s.rows[r])}
<1>1. /\ Height(s) \in Nat /\ Height(s) = Len(s.rows) /\ s.row \in 1..Height(s) /\ s.row \in Nat
      /\ n \in Nat
  BY DEF Tidy, Height, Whole, Screens, Positive
<1>2. \A r \in Marks : r \in 1..s.row
  <2> SUFFICES ASSUME NEW r \in 1..Height(s), HasText(s.rows[r]) PROVE r \in 1..s.row
    BY <1>1
  <2>1. CASE r \in s.row + 1 .. Len(s.rows)
    <3>1. s.rows[r] = BlankRow(n)
      BY <2>1 DEF Tidy, Below
    <3> QED
      BY <1>1, <3>1, BlankTextless
  <2> QED
    BY <1>1, <2>1
<1>3. Marks \in SUBSET (0..s.row) /\ Marks # {}
  BY <1>1, <1>2
<1>4. LastUsedRow(s) = Max(Marks)
  BY DEF LastUsedRow
<1> HIDE DEF Marks
<1>5. LastUsedRow(s) \in 0..s.row
  BY <1>1, <1>2, <1>3, <1>4, MaxBound
<1> HIDE DEF LastUsedRow
<1> QED
  BY <1>1, <1>5 DEF Used, Greatest

\* A row of the width it is resized to stays as it is.
LEMMA SameWidth ==
  ASSUME NEW n \in Nat, NEW r \in Width(n)
  PROVE  ResizeRow(r, n) = r
<1> DEFINE cs == [i \in 1..n |-> IF i \in DOMAIN r.cells THEN r.cells[i] ELSE Blank]
<1>1. r.cells \in Seq(Nat) /\ Len(r.cells) = n /\ r \in [cells : Text, wrapped : BOOLEAN]
  BY DEF Width, Text
<1>2. cs = r.cells
  BY <1>1
<1>3. ResizeRow(r, n) = [r EXCEPT !.cells = cs]
  BY DEF ResizeRow
<1> HIDE DEF cs
<1> QED
  BY <1>1, <1>2, <1>3

\* A change of height drops `shed` rows off the top, and keeps `left` rows below them.
Clamped(n, s, h, f, shed, left) ==
  /\ shed \in Nat /\ left \in Nat /\ shed + left <= Len(s.rows) /\ left <= h
  /\ shed + left >= Used(s)
  /\ shed > 0 => shed + left = Used(s) /\ left = h
  /\ f.out = DepartedRows(SubSeq(s.rows, 1, shed))
  /\ Len(f.s.rows) = h
  /\ \A i \in 1..left : f.s.rows[i] = s.rows[shed + i]
  /\ \A i \in left + 1 .. h : f.s.rows[i] = BlankRow(n)
  /\ f.s.row = Least(Greatest(s.row - shed, 1), h) /\ f.s.col = s.col
  /\ (f.s.pend <=> s.pend) /\ (f.s.autowrap <=> s.autowrap)

\* What a change of height leaves (Screen::resize, Resize::Clamp).
LEMMA ClampShape ==
  ASSUME NEW n, NEW s, Whole(n, s), NEW h \in Positive, NEW f, f = ClampTo(s, h, n)
  PROVE  \E shed, left : Clamped(n, s, h, f, shed, left)
<1> DEFINE H == Len(s.rows)
           cells == [r \in DOMAIN s.rows |-> ResizeRow(s.rows[r], n)]
           excess == Greatest(H - h, 0)
           spare == Least(H - Used(s), excess)
           shed == excess - spare
           kept == SubSeq(s.rows, shed + 1, H - spare)
           out == DepartedRows(SubSeq(s.rows, 1, shed))
           grid == kept \o [i \in 1 .. h - Len(kept) |-> BlankRow(n)]
           a == Least(Greatest(s.row - shed, 1), h)
           t == [s EXCEPT !.rows = grid, !.carried = Carry(@, out), !.row = a,
                          !.col = Least(@, n - 1)]
<1>1. /\ n \in Nat /\ n >= 1 /\ s.rows \in Seq(Width(n)) /\ H \in Nat /\ H >= 1
      /\ DOMAIN s.rows = 1..H /\ s \in Screens(n) /\ s.row \in 1..H /\ s.col \in 0 .. n - 1
      /\ \A r \in 1..H : s.rows[r] \in Width(n)
  BY DEF Whole, Screens, Positive
<1>2. cells = s.rows
  <2>1. \A r \in 1..H : ResizeRow(s.rows[r], n) = s.rows[r]
    BY <1>1, SameWidth
  <2>2. ASSUME NEW S, NEW q \in Seq(S) PROVE [r \in DOMAIN q |-> q[r]] = q
    OBVIOUS
  <2>3. [r \in DOMAIN s.rows |-> s.rows[r]] = s.rows
    BY <1>1, <2>2
  <2>4. cells = [r \in DOMAIN s.rows |-> s.rows[r]]
    BY <1>1, <2>1
  <2> QED
    BY <2>3, <2>4
<1> HIDE DEF cells
<1>3. [s EXCEPT !.rows = cells, !.cols = n] = s
  BY <1>1, <1>2 DEF Screens
<1>4. Height(s) = H
  BY DEF Height
<1>5. ClampTo(s, h, n) = [s |-> ResetRegion(t), out |-> out]
  <2> DEFINE cut == [s EXCEPT !.rows = cells, !.cols = n]
  <2>1. cut = s
    BY <1>3
  <2> HIDE DEF cut
  <2>2. ClampTo(s, h, n) =
          LET ex == Greatest(Height(cut) - h, 0)
              sp == Least(Height(cut) - Used(cut), ex)
              sh == ex - sp
              ke == SubSeq(cut.rows, sh + 1, Height(cut) - sp)
              ou == DepartedRows(SubSeq(cut.rows, 1, sh))
          IN  [s |-> ResetRegion(
                       [cut EXCEPT !.rows = ke \o [i \in 1 .. h - Len(ke) |-> BlankRow(n)],
                                   !.carried = Carry(@, ou),
                                   !.row = Least(Greatest(@ - sh, 1), h),
                                   !.col = Least(@, n - 1)]),
               out |-> ou]
    BY DEF ClampTo, cut, cells
  <2> QED
    BY <1>4, <2>1, <2>2
<1>6. Used(s) \in s.row .. H /\ Used(s) \in 1..H
  BY UsedWithin
<1> HIDE DEF H
<1> DEFINE left == H - excess
<1>7. /\ h \in Nat /\ h >= 1 /\ shed \in Nat /\ left \in Nat /\ shed + left <= H /\ left <= h
      /\ shed + left >= Used(s) /\ H - spare = shed + left
      /\ shed > 0 => shed + left = Used(s) /\ left = h
      /\ spare \in Nat /\ H - spare \in 0..H /\ shed + 1 <= (H - spare) + 1
  <2>1. H \in Nat /\ h \in Nat /\ h >= 1 /\ Used(s) \in Nat /\ 1 <= Used(s) /\ Used(s) <= H
    BY <1>1, <1>6 DEF Positive
  <2>2. excess \in 0..H /\ H - excess <= h /\ (excess > 0 => H - excess = h)
    BY ONLY <2>1 DEF Greatest
  <2>3. spare \in 0..excess /\ spare <= H - Used(s)
        /\ (spare < excess => spare = H - Used(s))
    BY ONLY <2>1, <2>2 DEF Least
  <2> HIDE DEF excess, spare
  <2> QED
    BY ONLY <2>1, <2>2, <2>3 DEF left
<1> HIDE DEF excess, spare, left
<1>8. shed \in Nat
  BY <1>7
<1> HIDE DEF shed
<1>9. /\ kept \in Seq(Width(n)) /\ Len(kept) = left /\ \A i \in 1..left : kept[i] = s.rows[shed + i]
  <2>1. ASSUME NEW S, NEW q \in Seq(S), NEW x \in Nat, NEW y \in Nat, x + y <= Len(q)
        PROVE  /\ SubSeq(q, x + 1, x + y) \in Seq(S) /\ Len(SubSeq(q, x + 1, x + y)) = y
               /\ \A i \in 1..y : SubSeq(q, x + 1, x + y)[i] = q[x + i]
    BY <2>1
  <2>2. /\ SubSeq(s.rows, shed + 1, shed + left) \in Seq(Width(n))
        /\ Len(SubSeq(s.rows, shed + 1, shed + left)) = left
        /\ \A i \in 1..left : SubSeq(s.rows, shed + 1, shed + left)[i] = s.rows[shed + i]
    <3>1. s.rows \in Seq(Width(n)) /\ shed \in Nat /\ left \in Nat /\ shed + left <= Len(s.rows)
      BY <1>1, <1>7 DEF H
    <3> QED
      BY ONLY <2>1, <3>1
  <2>3. kept = SubSeq(s.rows, shed + 1, shed + left)
    BY <1>7
  <2> HIDE DEF kept
  <2> QED
    BY <2>2, <2>3
<1> HIDE DEF kept
<1>10. grid \in Seq(Width(n)) /\ Len(grid) = h
       /\ (\A i \in 1..left : grid[i] = kept[i]) /\ \A i \in left + 1 .. h : grid[i] = BlankRow(n)
  <2> DEFINE k == h - Len(kept)
             blanks == [i \in 1..k |-> BlankRow(n)]
  <2>1. k \in Nat /\ k = h - left /\ Len(kept) = left
    BY <1>7, <1>9
  <2> HIDE DEF k
  <2>2. blanks \in Seq(Width(n)) /\ Len(blanks) = k /\ \A i \in 1..k : blanks[i] = BlankRow(n)
    BY <1>1, <2>1, BlankRows
  <2>3. grid = kept \o blanks
    BY DEF k
  <2> HIDE DEF blanks, grid
  <2>4. Len(kept) = left /\ Len(blanks) = k
    BY <1>9, <2>2
  <2>5. /\ kept \o blanks \in Seq(Width(n)) /\ Len(kept \o blanks) = left + k
        /\ \A i \in 1..left : (kept \o blanks)[i] = kept[i]
        /\ \A i \in left + 1 .. left + k : (kept \o blanks)[i] = blanks[i - left]
    <3> DEFINE both == kept \o blanks
    <3>1. /\ both \in Seq(Width(n)) /\ Len(both) = Len(kept) + Len(blanks)
          /\ \A i \in 1..Len(kept) : both[i] = kept[i]
          /\ \A i \in Len(kept) + 1 .. Len(kept) + Len(blanks) : both[i] = blanks[i - Len(kept)]
      BY <1>9, <2>2, JoinedAt
    <3> HIDE DEF both
    <3>2. /\ both \in Seq(Width(n)) /\ Len(both) = left + k
          /\ \A i \in 1..left : both[i] = kept[i]
          /\ \A i \in left + 1 .. left + k : both[i] = blanks[i - left]
      BY <2>4, <3>1
    <3> QED
      BY <3>2 DEF both
  <2>6. left + k = h
    BY <1>7, <2>1
  <2>7. ASSUME NEW i \in left + 1 .. h PROVE grid[i] = BlankRow(n)
    <3>1. i - left \in 1..k
      BY <1>7, <2>1
    <3> QED
      BY <2>2, <2>3, <2>5, <2>6, <3>1
  <2> QED
    BY <2>3, <2>5, <2>6, <2>7
<1> HIDE DEF grid, out, a
<1>11. /\ t.rows = grid /\ t.row = a /\ t.col = s.col /\ (t.pend <=> s.pend)
       /\ (t.autowrap <=> s.autowrap)
  <2>1. Least(s.col, n - 1) = s.col
    BY <1>1 DEF Least
  <2> QED
    BY <1>1, <2>1 DEF Screens
<1>12. t \in [rows : {t.rows}, cols : {t.cols}, row : {t.row}, col : {t.col}, pend : {t.pend},
              top : {t.top}, bottom : {t.bottom}, carried : {t.carried}, autowrap : {t.autowrap}]
  BY <1>1 DEF Screens
<1> HIDE DEF t
<1> DEFINE u == ResetRegion(t)
<1>13. /\ u.rows = grid /\ u.row = a /\ u.col = s.col /\ (u.pend <=> s.pend)
       /\ (u.autowrap <=> s.autowrap)
  BY <1>11, <1>12 DEF ResetRegion
<1> HIDE DEF u
<1>14. f.s = u /\ f.out = out
  BY <1>5 DEF u
<1>15. Clamped(n, s, h, f, shed, left)
  BY <1>7, <1>9, <1>10, <1>13, <1>14 DEF Clamped, out, a, H
<1> QED
  BY <1>15

\* A change of height keeps what is read of a tidy screen, its cursor at the end of it.
LEMMA ClampTidy ==
  ASSUME NEW m \in Int, NEW n, NEW s, Tidy(n, s), NEW h \in Positive, NEW f, f = ClampTo(s, h, n)
  PROVE  /\ Tidy(n, f.s) /\ f.out \in Seq(Gone)
         /\ GoneRead(m, f.out) \o Body(m, f.s) = Body(m, s)
<1>1. /\ Whole(n, s) /\ n \in Nat /\ s.rows \in Seq(Width(n)) /\ s.row \in 1..Len(s.rows)
      /\ Len(s.rows) \in Nat /\ s.row \in Nat /\ h \in Nat /\ h >= 1 /\ s.autowrap
  BY DEF Tidy, Whole, Screens, Positive
<1>2. Whole(n, f.s)
  BY <1>1, ClampKeeps DEF Keeps
<1>3. PICK shed, left : Clamped(n, s, h, f, shed, left)
  BY <1>1, ClampShape
<1>4. Used(s) = s.row
  BY TidyUsed
<1>5. /\ shed \in Nat /\ left \in Nat /\ shed + left <= Len(s.rows) /\ left <= h
      /\ shed + left >= s.row /\ (shed > 0 => shed + left = s.row /\ left = h)
      /\ f.out = DepartedRows(SubSeq(s.rows, 1, shed)) /\ Len(f.s.rows) = h
      /\ f.s.row = Least(Greatest(s.row - shed, 1), h) /\ f.s.col = s.col
      /\ (f.s.pend <=> s.pend) /\ (f.s.autowrap <=> s.autowrap)
  BY <1>3, <1>4 DEF Clamped
<1>6. f.s.row = s.row - shed /\ shed < s.row /\ s.row - shed <= left /\ s.row - shed >= 1
  BY <1>1, <1>5 DEF Least, Greatest
<1>7. \A i \in 1..left : f.s.rows[i] = s.rows[shed + i]
  BY <1>3 DEF Clamped
<1>8. \A i \in left + 1 .. h : f.s.rows[i] = BlankRow(n)
  BY <1>3 DEF Clamped
<1>9. f.s.rows[f.s.row] = s.rows[s.row]
  <2>1. s.row - shed \in 1..left /\ shed + (s.row - shed) = s.row
    BY <1>1, <1>5, <1>6
  <2> QED
    BY <1>6, <1>7, <2>1
<1>10. Below(n, f.s, f.s.row + 1)
  <2> SUFFICES ASSUME NEW i \in f.s.row + 1 .. Len(f.s.rows) PROVE f.s.rows[i] = BlankRow(n)
    BY DEF Below
  <2>1. CASE i \in 1..left
    <3>1. shed + i \in s.row + 1 .. Len(s.rows)
      BY <1>1, <1>5, <1>6, <2>1
    <3>2. s.rows[shed + i] = BlankRow(n)
      BY <3>1 DEF Tidy, Below
    <3> QED
      BY <1>7, <2>1, <3>2
  <2>2. CASE i \in left + 1 .. h
    BY <1>8, <2>2
  <2> QED
    BY <1>1, <1>5, <1>6, <2>1, <2>2
<1>11. Tidy(n, f.s)
  BY <1>1, <1>2, <1>5, <1>9, <1>10 DEF Tidy
<1> DEFINE low == SubSeq(f.s.rows, 1, f.s.row)
<1>12. /\ GoneRead(m, f.out) \o RowsRead(m, low) = RowsRead(m, SubSeq(s.rows, 1, s.row))
       /\ GoneRead(m, f.out) \in Ink /\ f.out \in Seq(Gone)
  <2>1. s.row \in 0..Len(s.rows) /\ shed \in 0..s.row /\ s.row - shed <= Len(f.s.rows)
    BY <1>1, <1>5, <1>6
  <2>2. \A i \in 1 .. s.row - shed : f.s.rows[i] = s.rows[shed + i]
    <3>1. \A i \in 1 .. s.row - shed : i \in 1..left
      BY <1>1, <1>5, <1>6
    <3> QED
      BY <1>7, <3>1
  <2>3. f.s.rows \in Seq(Width(n))
    BY <1>2 DEF Whole, Screens
  <2> QED
    <3> DEFINE k == s.row - shed
               part == SubSeq(f.s.rows, 1, k)
    <3>1. f.out = DepartedRows(SubSeq(s.rows, 1, shed))
      BY <1>5
    <3>2. /\ GoneRead(m, f.out) \o RowsRead(m, part) = RowsRead(m, SubSeq(s.rows, 1, s.row))
          /\ GoneRead(m, f.out) \in Ink /\ f.out \in Seq(Gone)
      BY <1>1, <2>1, <2>2, <2>3, <3>1, CutRead
    <3>3. part = low
      BY <1>6
    <3> HIDE DEF part, low
    <3> QED
      BY <3>2, <3>3
<1>13. RowsRead(m, low) = Body(m, f.s) \o End(m) /\ Body(m, f.s) \in Ink
  BY <1>11, BodyFacts DEF Tidy
<1>14. RowsRead(m, SubSeq(s.rows, 1, s.row)) = Body(m, s) \o End(m) /\ Body(m, s) \in Ink
  BY BodyFacts DEF Tidy
<1> HIDE DEF low
<1>15. GoneRead(m, f.out) \o Body(m, f.s) = Body(m, s)
  <2>1. GoneRead(m, f.out) \o (Body(m, f.s) \o End(m)) = Body(m, s) \o End(m)
    BY <1>12, <1>13, <1>14
  <2>2. GoneRead(m, f.out) \in Ink /\ Body(m, f.s) \in Ink /\ Body(m, s) \in Ink
    BY <1>12, <1>13, <1>14
  <2> QED
    BY ONLY m \in Int, <2>1, <2>2, EndCancel
<1> QED
  BY <1>11, <1>12, <1>15

\* What is sent is sent row by row.
LEMMA OntoAt ==
  ASSUME NEW join \in BOOLEAN, NEW x \in Seq(Gone)
  PROVE  /\ Onto(join, x) \in Seq(Sent) /\ Len(Onto(join, x)) = Len(x)
         /\ \A i \in 1..Len(x) : Onto(join, x)[i] = SentAs(join, x[i])
<1>1. \A i \in 1..Len(x) : x[i] \in Gone /\ SentAs(join, x[i]) \in Sent
  BY SentType
<1>2. Onto(join, x) = [i \in 1..Len(x) |-> SentAs(join, x[i])]
  BY DEF Onto
<1> QED
  BY <1>1, <1>2

\* A new line ends the one a tidy screen is on, and the screen stays tidy
\* (Screen::carriage_return, Screen::line_feed).
LEMMA NewlineTidy ==
  ASSUME NEW m \in Int, NEW n, NEW s, Tidy(n, s), NEW f, f = LineFeed(Goto(s, s.row, 0))
  PROVE  /\ Tidy(n, f.s) /\ f.out \in Seq(Gone)
         /\ GoneRead(m, f.out) \o Body(m, f.s) = Body(m, s) \o End(m)
<1> DEFINE home == Goto(s, s.row, 0)
<1>1. /\ Whole(n, s) /\ n \in Nat /\ n >= 1 /\ s.row \in 1..Len(s.rows) /\ Len(s.rows) \in Nat
      /\ s \in Screens(n) /\ s.autowrap /\ s.row \in Positive /\ 0 \in 0 .. n - 1
  BY DEF Tidy, Whole, Screens, Positive
<1>2. Whole(n, home)
  BY <1>1, GotoWhole
<1>3. home.rows = s.rows /\ home.row = s.row /\ home.col = 0 /\ ~home.pend /\ home.autowrap
  <2>1. Least(s.row, Height(s)) = s.row /\ Least(0, s.cols - 1) = 0
    BY <1>1 DEF Least, Height, Screens
  <2> QED
    BY <1>1, <2>1 DEF Goto, Screens
<1>g. f = LineFeed(home)
  OBVIOUS
<1> HIDE DEF home
<1>4. Below(n, home, home.row + 1)
  BY <1>3 DEF Tidy, Below
<1>5. /\ Whole(n, f.s) /\ f.out \in Seq(Gone)
      /\ (f.s.autowrap <=> home.autowrap) /\ f.s.col = home.col /\ ~f.s.pend
      /\ Below(n, f.s, f.s.row)
      /\ GoneRead(m, f.out) \o RowsRead(m, Above1(f.s)) = RowsRead(m, SubSeq(home.rows, 1, home.row))
  <2>1. Advanced(m, n, home, f)
    BY <1>2, <1>4, <1>g, Advance
  <2> QED
    BY <2>1 DEF Advanced
<1>6. f.s.row \in 1..Len(f.s.rows) /\ Len(f.s.rows) \in Nat
  BY <1>5 DEF Whole, Screens, Positive
<1>7. f.s.rows[f.s.row] = BlankRow(n) /\ Below(n, f.s, f.s.row + 1)
  BY <1>5, <1>6 DEF Below
<1>8. /\ ~BlankRow(n).wrapped /\ Bare(BlankRow(n).cells) = << >>
      /\ \A i \in 1..n : BlankRow(n).cells[i] = Blank
  BY <1>1, BlankInk DEF BlankRow
<1>9. Tidy(n, f.s)
  BY <1>3, <1>5, <1>7, <1>8 DEF Tidy
<1>10. Body(m, f.s) = RowsRead(m, Above1(f.s))
  <2>1. RowsRead(m, Above1(f.s)) \in Ink
    <3>1. Above1(f.s) \in Seq(Width(n))
      BY <1>5, BodyFacts
    <3> QED
      BY <1>1, <3>1, RowsReadJoin
  <2>2. RowsRead(m, Above1(f.s)) \o << >> = RowsRead(m, Above1(f.s))
    BY ONLY <2>1, InkFacts, Zenon
  <2> QED
    BY <1>7, <1>8, <2>2 DEF Body
<1>11. RowsRead(m, SubSeq(home.rows, 1, home.row)) = Body(m, s) \o End(m)
  BY <1>1, <1>3, BodyFacts DEF Tidy
<1> QED
  BY <1>5, <1>9, <1>10, <1>11

\* Rows are gathered one by one.
LEMMA PiecesSnoc ==
  ASSUME NEW n, NEW s, Whole(n, s), NEW k \in Nat, k + 1 <= Len(s.rows), NEW one,
         one = [text |-> LineCells(s.rows[k + 1]),
                newline |-> ~s.rows[k + 1].wrapped /\ k + 1 < Used(s)]
  PROVE  Pieces(s, k) \in Seq(Sent) /\ one \in Sent /\ Pieces(s, k + 1) = Append(Pieces(s, k), one)
<1>1. /\ n \in Nat /\ s.rows \in Seq(Width(n)) /\ Len(s.rows) \in Nat /\ k + 1 \in 1..Len(s.rows)
      /\ k \in 0..Len(s.rows) /\ k + 1 \in 0..Len(s.rows) /\ s.rows[k + 1] \in Width(n)
  BY DEF Whole, Screens, Positive
<1> DEFINE p == Pieces(s, k)
           q == Pieces(s, k + 1)
           more == Append(p, one)
<1>2. /\ p \in Seq(Sent) /\ Len(p) = k
      /\ \A i \in 1..k : p[i] = [text |-> LineCells(s.rows[i]),
                                 newline |-> ~s.rows[i].wrapped /\ i < Used(s)]
  BY <1>1, PiecesFacts
<1>3. /\ q \in Seq(Sent) /\ Len(q) = k + 1
      /\ \A i \in 1..(k + 1) : q[i] = [text |-> LineCells(s.rows[i]),
                                       newline |-> ~s.rows[i].wrapped /\ i < Used(s)]
  BY <1>1, PiecesFacts
<1> HIDE DEF p, q
<1>4. q[k + 1] = one /\ one \in Sent
  <2>1. k + 1 \in 1..(k + 1)
    OBVIOUS
  <2>2. q[k + 1] = one
    BY <1>3, <2>1
  <2> QED
    BY <1>3, <2>1, <2>2
<1>5. /\ more \in Seq(Sent) /\ Len(more) = k + 1 /\ more[k + 1] = one
      /\ \A i \in 1..k : more[i] = p[i]
  BY <1>2, <1>4
<1> HIDE DEF more
<1>6. ASSUME NEW i \in 1..(k + 1) PROVE q[i] = more[i]
  <2>1. CASE i = k + 1
    BY <1>4, <1>5, <2>1
  <2>2. CASE i \in 1..k
    BY <1>2, <1>3, <1>5, <2>2
  <2> QED
    BY <2>1, <2>2
<1>7. q = more
  BY <1>3, <1>5, <1>6, SameSeq
<1> QED
  BY <1>2, <1>4, <1>7 DEF p, q, more

\* The rows in use are read as the lines they make up, the last of them open
\* (Logical::push_row).
LEMMA PiecesRead ==
  ASSUME NEW m \in Int, NEW n, NEW s, Whole(n, s), NEW k, k + 1 = Used(s), k \in Nat
  PROVE  /\ Pieces(s, Used(s)) \in Seq(Sent)
         /\ Read(m, Pieces(s, Used(s))) =
              RowsRead(m, SubSeq(s.rows, 1, k)) \o Bare(s.rows[k + 1].cells)
<1>1. /\ n \in Nat /\ s.rows \in Seq(Width(n)) /\ Len(s.rows) \in Nat /\ k + 1 \in 1..Len(s.rows)
      /\ k \in 0..Len(s.rows) /\ k + 1 \in 0..Len(s.rows) /\ s.rows[k + 1] \in Width(n)
  <2>1. n \in Nat /\ s.rows \in Seq(Width(n)) /\ Len(s.rows) \in Nat
    BY DEF Whole, Screens, Positive
  <2> QED
    BY <2>1, UsedWithin
<1> DEFINE up == SubSeq(s.rows, 1, k)
           d == DepartedRows(up)
           o == Onto(TRUE, d)
           p == Pieces(s, k)
           q == Pieces(s, k + 1)
           r == s.rows[k + 1]
           one == [text |-> LineCells(r), newline |-> FALSE]
           more == Append(p, one)
<1>2. /\ up \in Seq(Width(n)) /\ Len(up) = k /\ \A i \in 1..k : up[i] = s.rows[i]
  <2>1. ASSUME NEW S, NEW z \in Seq(S), NEW j \in 0..Len(z)
        PROVE  /\ SubSeq(z, 1, j) \in Seq(S) /\ Len(SubSeq(z, 1, j)) = j
               /\ \A i \in 1..j : SubSeq(z, 1, j)[i] = z[i]
    OBVIOUS
  <2> QED
    BY <1>1, <2>1
<1> HIDE DEF up
<1>3. d \in Seq(Gone) /\ Len(d) = k /\ \A i \in 1..k : d[i] = Departed(up[i])
  <2>1. d = [i \in 1..k |-> Departed(up[i])]
    BY <1>2 DEF DepartedRows
  <2>2. d \in Seq(Gone)
    BY <1>1, <1>2, DepartedType
  <2> HIDE DEF d
  <2> QED
    BY <2>1, <2>2
<1> HIDE DEF d
<1>4. o \in Seq(Sent) /\ Len(o) = k /\ \A i \in 1..k : o[i] = SentAs(TRUE, d[i])
  BY <1>3, OntoAt
<1> HIDE DEF o
<1>5. /\ p \in Seq(Sent) /\ Len(p) = k
      /\ \A i \in 1..k : p[i] = [text |-> LineCells(s.rows[i]),
                                 newline |-> ~s.rows[i].wrapped /\ i < Used(s)]
  BY <1>1, PiecesFacts
<1>u. Pieces(s, Used(s)) = q
  OBVIOUS
<1> HIDE DEF p, q, r
<1>7. p = o
  <2>1. ASSUME NEW i \in 1..k PROVE p[i] = o[i]
    <3>1. d[i] = Departed(s.rows[i]) /\ i < Used(s)
      BY <1>2, <1>3
    <3>2. o[i] = [text |-> LineCells(s.rows[i]), newline |-> ~s.rows[i].wrapped]
      BY <1>4, <3>1 DEF SentAs, Departed
    <3> QED
      BY <1>5, <3>1, <3>2
  <2> QED
    BY <1>4, <1>5, <2>1, SameSeq
<1>8. one \in Sent /\ q = more
  <2>1. ~(k + 1 < Used(s)) /\ k + 1 <= Len(s.rows)
    BY <1>1
  <2>2. one = [text |-> LineCells(s.rows[k + 1]),
               newline |-> ~s.rows[k + 1].wrapped /\ k + 1 < Used(s)]
    BY <2>1 DEF r
  <2> HIDE DEF one
  <2> QED
    BY <2>1, <2>2, PiecesSnoc DEF p, q
<1> HIDE DEF one
<1>11. Read(m, more) = Read(m, p) \o Glyphs(m, one)
  BY <1>5, <1>8, ReadSnoc
<1>12. Read(m, p) = RowsRead(m, up)
  BY <1>7 DEF RowsRead, GoneRead, o, d
<1>13. Glyphs(m, one) = Bare(r.cells)
  <2>1. Glyphs(m, one) = Bare(one.text) /\ one.text = LineCells(r)
    BY DEF Glyphs, one
  <2>2. Bare(LineCells(r)) = Bare(r.cells)
    BY <1>1, BareTrim DEF r
  <2> QED
    BY <2>1, <2>2
<1> QED
  <2>1. q \in Seq(Sent)
    BY <1>1, PiecesFacts DEF q
  <2> QED
    BY <1>8, <1>11, <1>12, <1>13, <1>u, <2>1 DEF up, r

\* A tidy screen is read down to its cursor.
LEMMA TidyPieces ==
  ASSUME NEW m \in Int, NEW n, NEW s, Tidy(n, s)
  PROVE  Pieces(s, Used(s)) \in Seq(Sent) /\ Read(m, Pieces(s, Used(s))) = Body(m, s)
<1>1. Used(s) = s.row /\ Whole(n, s) /\ s.row - 1 \in Nat /\ (s.row - 1) + 1 = s.row
  <2>1. Whole(n, s)
    BY DEF Tidy
  <2>2. s.row - 1 \in Nat /\ (s.row - 1) + 1 = s.row
    BY <2>1 DEF Whole, Screens, Positive
  <2> QED
    BY <2>1, <2>2, TidyUsed
<1>2. /\ Pieces(s, Used(s)) \in Seq(Sent)
      /\ Read(m, Pieces(s, Used(s))) =
           RowsRead(m, SubSeq(s.rows, 1, s.row - 1)) \o Bare(s.rows[(s.row - 1) + 1].cells)
  BY <1>1, PiecesRead
<1> QED
  BY <1>1, <1>2 DEF Body, Above1

-----------------------------------------------------------------------------
(* A change of width, read *)

\* Lines that read alike line by line read alike.
LEMMA SameLines ==
  ASSUME NEW m \in Int, NEW x \in Seq(Text), NEW y \in Seq(Text), Len(x) = Len(y),
         \A i \in 1..Len(x) : Bare(x[i]) = Bare(y[i])
  PROVE  LinesRead(m, x) = LinesRead(m, y)
<1>1. ASSUME NEW z \in Seq(Text)
      PROVE  LinesRead(m, z) = FlattenSeq([i \in 1..Len(z) |-> Bare(z[i]) \o End(m)])
  <2> DEFINE c == Closed(z)
  <2>1. c = [i \in 1..Len(z) |-> [text |-> z[i], newline |-> TRUE]]
    BY DEF Closed
  <2>2. \A i \in 1..Len(z) : Glyphs(m, c[i]) = Bare(z[i]) \o End(m)
    <3> SUFFICES ASSUME NEW i \in 1..Len(z) PROVE Glyphs(m, c[i]) = Bare(z[i]) \o End(m)
      OBVIOUS
    <3>1. c[i] = [text |-> z[i], newline |-> TRUE] /\ z[i] \in Text
      BY <2>1
    <3>2. c[i] \in Sent /\ c[i].text = z[i] /\ c[i].newline = TRUE
      BY <3>1 DEF Sent
    <3> HIDE DEF c
    <3> QED
      BY <3>2, GlyphFacts
  <2>3. DOMAIN c = 1..Len(z)
    BY <2>1
  <2> HIDE DEF c
  <2>4. [i \in DOMAIN c |-> Glyphs(m, c[i])] = [i \in 1..Len(z) |-> Bare(z[i]) \o End(m)]
    BY <2>2, <2>3
  <2>5. LinesRead(m, z) = FlattenSeq([i \in DOMAIN c |-> Glyphs(m, c[i])])
    BY DEF LinesRead, Read, c
  <2> QED
    BY <2>4, <2>5
<1>2. [i \in 1..Len(x) |-> Bare(x[i]) \o End(m)] = [i \in 1..Len(y) |-> Bare(y[i]) \o End(m)]
  OBVIOUS
<1> QED
  BY <1>1, <1>2

\* Blanks at the end of a text add nothing to read.
LEMMA Padded ==
  ASSUME NEW x \in Text, NEW k \in Int, NEW y, y = x \o [i \in 1 .. Greatest(k, 0) |-> Blank]
  PROVE  y \in Text /\ Bare(y) = Bare(x) /\ Len(y) = Len(x) + Greatest(k, 0)
<1> DEFINE j == Greatest(k, 0)
           pad == [i \in 1..j |-> Blank]
<1>1. j \in Nat
  BY DEF Greatest
<1> HIDE DEF j
<1>2. pad \in Seq(Nat) /\ Len(pad) = j /\ \A i \in 1..Len(pad) : pad[i] = Blank
  BY <1>1 DEF Blank
<1>3. y = x \o pad
  BY DEF j
<1> HIDE DEF pad
<1>4. x \in Seq(Nat) /\ x \in Ink /\ pad \in Ink
  BY <1>2, InkFacts DEF Text
<1>5. Bare(pad) = << >>
  BY <1>2, <1>4, BareBlanks
<1>6. Bare(y) = Bare(x)
  <2>1. Bare(x \o pad) = Bare(x) \o Bare(pad)
    BY <1>4, BareJoin
  <2>2. Bare(x) \in Ink
    BY <1>4, BareType
  <2>3. Bare(x) \o << >> = Bare(x)
    BY <2>2, InkFacts
  <2> QED
    BY <1>3, <1>5, <2>1, <2>3
<1> QED
  BY <1>2, <1>3, <1>4, <1>6, Joined DEF Text, j

\* The logical lines of a screen read as its rows in use, the last of them ended
\* (Screen::reflow).
LEMMA LogicalRead ==
  ASSUME NEW m \in Int, NEW n, NEW s, Whole(n, s)
  PROVE  LinesRead(m, LogicalLines(s).lines) = Read(m, Pieces(s, Used(s))) \o End(m)
<1>1. PICK before, gathered, at, offset : Gathered(s, before, gathered, at, offset)
  BY LogicalGathered
<1> DEFINE line == gathered[at] \o [k \in 1 .. Greatest(offset - Len(gathered[at]), 0) |-> Blank]
           ls == [gathered EXCEPT ![at] = line]
<1>2. /\ gathered \in Seq(Text) /\ Len(gathered) \in Nat /\ Len(gathered) >= 1
      /\ at \in 1..Len(gathered) /\ gathered[at] \in Text /\ offset \in Nat
      /\ gathered = AppendTo(Emptied, Pieces(s, Used(s))) /\ gathered \in Buffers
  BY <1>1 DEF Gathered, Buffers
<1>3. line \in Text /\ Bare(line) = Bare(gathered[at])
  <2>1. offset - Len(gathered[at]) \in Int
    BY <1>2 DEF Text
  <2> QED
    BY <1>2, <2>1, Padded
<1>4. LogicalLines(s) = [lines |-> ls, at |-> at, offset |-> offset]
  BY <1>1 DEF Gathered
<1> HIDE DEF line
<1>5. /\ ls \in Seq(Text) /\ Len(ls) = Len(gathered)
      /\ \A i \in 1..Len(ls) : Bare(ls[i]) = Bare(gathered[i])
  BY <1>2, <1>3
<1> HIDE DEF ls
<1>6. LinesRead(m, ls) = LinesRead(m, gathered)
  BY <1>2, <1>5, SameLines
<1>7. Pieces(s, Used(s)) \in Seq(Sent)
  <2>1. Used(s) \in 0..Len(s.rows)
    <3>1. Used(s) \in 1..Len(s.rows) /\ Len(s.rows) \in Nat
      BY UsedWithin DEF Whole, Screens
    <3> QED
      BY <3>1
  <2> QED
    BY <2>1, PiecesFacts
<1>8. OpenRead(m, Emptied) = << >> /\ Emptied \in Buffers
  <2>1. << >> \in Text /\ << >> \in Seq(Text) /\ Emptied = Append(<< >>, << >>)
    BY DEF Text, Emptied
  <2>2. OpenRead(m, Append(<< >>, << >>)) = LinesRead(m, << >>) \o Bare(<< >>)
        /\ LinesRead(m, << >>) = << >>
    BY <2>1, LinesReadSnoc
  <2>3. Bare(<< >>) = << >> /\ << >> \o << >> = << >>
    BY InkFacts, BareSnoc
  <2> QED
    BY <2>1, <2>2, <2>3 DEF Buffers
<1>9. OpenRead(m, gathered) = Read(m, Pieces(s, Used(s)))
  <2>1. OpenRead(m, gathered) = << >> \o Read(m, Pieces(s, Used(s)))
    BY <1>2, <1>7, <1>8, OpenAppend
  <2>2. Read(m, Pieces(s, Used(s))) \in Ink
    BY <1>7, ReadJoin
  <2> QED
    BY <2>1, <2>2, InkFacts
<1>10. LinesRead(m, gathered) = OpenRead(m, gathered) \o End(m)
  BY <1>2, OpenFacts
<1> QED
  BY <1>4, <1>6, <1>9, <1>10

\* The cursor is at the end of the last of the lines, if there are any.
AtEnd(logical) ==
  logical.lines # << >> =>
    /\ logical.at = Len(logical.lines)
    /\ logical.offset = Len(logical.lines[Len(logical.lines)])

\* No more of a row has content than is before its blanks (Row::content_len).
LEMMA ContentBefore ==
  ASSUME NEW n \in Nat, NEW r \in Width(n), NEW k \in Nat,
         \A i \in k + 1 .. n : r.cells[i] = Blank
  PROVE  ContentLen(r) <= k
<1> DEFINE Marks == {0} \cup {i \in DOMAIN r.cells : r.cells[i] # Blank}
<1>1. DOMAIN r.cells = 1..n
  BY DEF Width, Text
<1>2. Marks \in SUBSET (0..n) /\ Marks # {} /\ \A i \in Marks : i <= k
  BY <1>1
<1>3. ContentLen(r) = Max(Marks)
  BY DEF ContentLen
<1> HIDE DEF Marks
<1> QED
  BY <1>2, <1>3, MaxBound

\* The cursor of a tidy screen is at the end of its last line.
LEMMA LogicalEnd ==
  ASSUME NEW n, NEW s, Tidy(n, s)
  PROVE  AtEnd(LogicalLines(s))
<1>1. PICK before, gathered, at, offset : Gathered(s, before, gathered, at, offset)
  BY LogicalGathered DEF Tidy
<1>2. /\ before \in Buffers /\ before = AppendTo(Emptied, Pieces(s, s.row - 1))
      /\ gathered = AppendTo(Emptied, Pieces(s, Used(s))) /\ gathered \in Buffers
      /\ at = Len(before) /\ at \in 1..Len(gathered)
      /\ offset = Len(Last(before)) + s.col + (IF s.pend THEN 1 ELSE 0)
  BY <1>1 DEF Gathered
<1>3. /\ Whole(n, s) /\ n \in Nat /\ s.row - 1 \in Nat /\ (s.row - 1) + 1 = s.row
      /\ s.row <= Len(s.rows) /\ s.rows[s.row] \in Width(n) /\ s.col \in Nat /\ Used(s) = s.row
      /\ ~s.rows[s.row].wrapped
      /\ s.col + 1 \in Nat
  <2>1. Whole(n, s) /\ Used(s) = s.row /\ ~s.rows[s.row].wrapped
    BY TidyUsed DEF Tidy
  <2> QED
    BY <2>1 DEF Whole, Screens, Positive
<1> DEFINE r == s.rows[s.row]
           one == [text |-> LineCells(r), newline |-> FALSE]
           ends == s.col + (IF s.pend THEN 1 ELSE 0)
<1>4. ends \in Nat /\ ContentLen(r) <= ends /\ ContentLen(r) \in Nat
  <2>1. ends \in Nat
    BY <1>3
  <2>2. \A i \in ends + 1 .. n : r.cells[i] = Blank
    <3>1. ends + 1 = s.col + (IF s.pend THEN 2 ELSE 1)
      BY <1>3
    <3> QED
      BY <3>1 DEF Tidy
  <2> HIDE DEF r, ends
  <2>3. r \in Width(n)
    BY <1>3 DEF r
  <2>4. ContentLen(r) \in 0..n
    BY <1>3, <2>3, ContentWithin
  <2>5. ContentLen(r) <= ends
    BY <1>3, <2>1, <2>2, <2>3, ContentBefore
  <2>6. ContentLen(r) \in Nat
    BY <1>3, <2>4
  <2> QED
    BY <2>1, <2>5, <2>6 DEF ends
<1>5. LineCells(r) \in Text /\ Len(LineCells(r)) = ContentLen(r)
  <2>1. LineCells(r) \in Text
    BY <1>3, BareTrim
  <2>2. LineCells(r) = SubSeq(r.cells, 1, ContentLen(r))
    BY <1>3 DEF LineCells
  <2>3. r.cells \in Seq(Nat) /\ ContentLen(r) \in 0..Len(r.cells)
    BY <1>3, ContentWithin DEF Width, Text
  <2> HIDE DEF r
  <2> QED
    BY <2>1, <2>2, <2>3
<1>6. Pieces(s, s.row - 1) \in Seq(Sent) /\ one \in Sent
      /\ Pieces(s, Used(s)) = Append(Pieces(s, s.row - 1), one)
  <2>1. one = [text |-> LineCells(s.rows[(s.row - 1) + 1]),
               newline |-> ~s.rows[(s.row - 1) + 1].wrapped /\ (s.row - 1) + 1 < Used(s)]
    <3>1. (~s.rows[(s.row - 1) + 1].wrapped /\ (s.row - 1) + 1 < Used(s)) = FALSE
      BY <1>3
    <3>2. s.rows[(s.row - 1) + 1] = r
      BY <1>3
    <3> QED
      BY <3>1, <3>2
  <2> HIDE DEF one
  <2>2. /\ Whole(n, s) /\ s.row - 1 \in Nat /\ (s.row - 1) + 1 <= Len(s.rows)
        /\ (s.row - 1) + 1 = Used(s)
    BY <1>3
  <2>3. /\ Pieces(s, s.row - 1) \in Seq(Sent) /\ one \in Sent
        /\ Pieces(s, (s.row - 1) + 1) = Append(Pieces(s, s.row - 1), one)
    BY ONLY <2>1, <2>2, PiecesSnoc
  <2> QED
    BY ONLY <2>2, <2>3
<1> HIDE DEF r
<1>7. gathered = Inserted(before, one)
  <2> HIDE DEF one
  <2> QED
    BY <1>2, <1>6, AppendSnoc
<1>8. PICK w \in Seq(Text), e \in Text : before = Append(w, e) /\ Len(w) + 1 = Len(before)
  BY <1>2, BufferShape
<1> DEFINE line == e \o LineCells(r)
<1>9. gathered = Append(w, line) /\ line \in Text /\ Len(line) = Len(e) + ContentLen(r)
  <2>1. line \in Text /\ Len(line) = Len(e) + ContentLen(r) /\ one.text = LineCells(r)
        /\ ~one.newline
    <3>1. Len(e) \in Nat /\ LineCells(r) \in Seq(Nat) /\ e \in Seq(Nat)
      BY <1>5 DEF Text
    <3>2. line \in Seq(Nat) /\ Len(line) = Len(e) + Len(LineCells(r))
      BY <3>1, Joined
    <3> HIDE DEF line
    <3> QED
      BY <1>5, <3>2 DEF Text
  <2> HIDE DEF one
  <2>2. e \o one.text \in Text
    BY <2>1
  <2>3. Inserted(Append(w, e), one) = Append(w, e \o one.text)
    <3>1. Inserted(Append(w, e), one) =
            IF one.newline THEN Append(Append(w, e \o one.text), << >>)
            ELSE Append(w, e \o one.text)
      BY <2>2, InsertedShape
    <3> QED
      BY <2>1, <3>1
  <2> QED
    BY <1>7, <1>8, <2>1, <2>3
<1> HIDE DEF line
<1>10. /\ at = Len(w) + 1 /\ Len(gathered) = at /\ gathered[at] = line /\ offset = Len(e) + ends
       /\ Len(e) \in Nat /\ Len(w) \in Nat
  <2>1. /\ Len(Append(w, e)) = Len(w) + 1 /\ Append(w, e)[Len(w) + 1] = e
        /\ Len(Append(w, line)) = Len(w) + 1 /\ Append(w, line)[Len(w) + 1] = line
        /\ Len(e) \in Nat /\ Len(w) \in Nat
    BY <1>9 DEF Text
  <2>2. Last(before) = e
    BY <1>8, <2>1 DEF Last
  <2>3. Len(w) + 1 = Len(before) /\ gathered = Append(w, line)
        /\ offset = Len(Last(before)) + s.col + (IF s.pend THEN 1 ELSE 0)
        /\ at = Len(before)
    BY <1>2, <1>8, <1>9
  <2>4. offset = Len(e) + ends
    <3>1. ASSUME NEW a \in Nat, NEW b \in Nat, NEW c \in Nat PROVE a + b + c = a + (b + c)
      OBVIOUS
    <3> DEFINE step == IF s.pend THEN 1 ELSE 0
    <3>2. step \in Nat
      OBVIOUS
    <3> HIDE DEF step
    <3>3. Len(e) + s.col + step = Len(e) + (s.col + step)
      BY <1>3, <2>1, <3>1, <3>2
    <3>4. Last(before) = e /\ offset = Len(Last(before)) + s.col + step
      BY <2>2, <2>3 DEF step
    <3>5. offset = Len(e) + (s.col + step)
      BY <3>3, <3>4
    <3> QED
      BY <3>5 DEF step
  <2> HIDE DEF ends
  <2>5. at = Len(w) + 1 /\ Len(gathered) = at /\ gathered[at] = line
    BY <2>1, <2>3
  <2> QED
    BY <2>1, <2>4, <2>5 DEF ends
<1> DEFINE full == line \o [k \in 1 .. Greatest(offset - Len(line), 0) |-> Blank]
           ls == [gathered EXCEPT ![at] = full]
<1>11. full \in Text /\ Len(full) = offset
  <2>1. offset - Len(line) \in Int /\ Len(line) + Greatest(offset - Len(line), 0) = offset
    BY <1>4, <1>9, <1>10 DEF Greatest
  <2> QED
    BY <1>9, <2>1, Padded
<1>12. LogicalLines(s) = [lines |-> ls, at |-> at, offset |-> offset]
  BY <1>1, <1>10 DEF Gathered
<1> HIDE DEF full
<1>13. Len(ls) = at /\ ls[at] = full
  <2>1. gathered \in Seq(Text)
    BY <1>2 DEF Buffers
  <2> QED
    BY <1>2, <1>10, <1>11, <2>1
<1> HIDE DEF ls
<1> QED
  BY <1>11, <1>12, <1>13 DEF AtEnd

\* The first line is read before the others.
LEMMA FirstRead ==
  ASSUME NEW m \in Int, NEW e \in Text, NEW w \in Seq(Text)
  PROVE  /\ << e >> \o w \in Seq(Text)
         /\ LinesRead(m, << e >> \o w) = (Bare(e) \o End(m)) \o LinesRead(m, w)
<1>1. << >> \in Seq(Text) /\ << e >> \in Seq(Text) /\ << e >> = Append(<< >>, e)
  OBVIOUS
<1>2. /\ LinesRead(m, << >>) = << >> /\ Bare(e) \in Ink /\ End(m) \in Ink
      /\ LinesRead(m, Append(<< >>, e)) = LinesRead(m, << >>) \o (Bare(e) \o End(m))
  BY <1>1, LinesReadSnoc
<1>3. LinesRead(m, << e >>) = Bare(e) \o End(m)
  BY <1>1, <1>2, InkFacts
<1>4. LinesRead(m, << e >> \o w) = LinesRead(m, << e >>) \o LinesRead(m, w)
  BY <1>1, LinesReadJoin
<1>5. ASSUME NEW x \in Seq(Text), NEW y \in Seq(Text) PROVE x \o y \in Seq(Text)
  OBVIOUS
<1> QED
  BY <1>1, <1>3, <1>4, <1>5

\* A sequence is its first element and the rest.
LEMMA HeadTail ==
  ASSUME NEW S, NEW s \in Seq(S), Len(s) >= 1
  PROVE  /\ s = << s[1] >> \o Tail(s) /\ Tail(s) \in Seq(S) /\ Len(Tail(s)) = Len(s) - 1
         /\ \A i \in 1 .. Len(s) - 1 : Tail(s)[i] = s[i + 1]
  OBVIOUS

\* A row alone, read as it leaves.
LEMMA OneRead ==
  ASSUME NEW m \in Int, NEW n \in Nat, NEW r \in Width(n)
  PROVE  GoneRead(m, << Departed(r) >>) = RowInk(m, r)
<1>1. << >> \in Seq(Width(n)) /\ Append(<< >>, r) = << r >>
  OBVIOUS
<1>2. /\ RowsRead(m, << >>) = << >> /\ RowInk(m, r) \in Ink
      /\ RowsRead(m, Append(<< >>, r)) = RowsRead(m, << >>) \o RowInk(m, r)
  BY <1>1, RowsReadSnoc
<1>3. DepartedRows(<< r >>) = << Departed(r) >>
  BY DEF DepartedRows
<1> QED
  BY <1>1, <1>2, <1>3, InkFacts DEF RowsRead

\* What realigning leaves of the lines once a part of the first is gone.
Realigned(m, logical, seam) ==
  /\ GoneRead(m, seam.out) \o LinesRead(m, seam.logical.lines) = LinesRead(m, logical.lines)
  /\ AtEnd(logical) => AtEnd(seam.logical)

\* The fragment that tops up the head in Emacs is read before what is left of its line
\* (Screen::reflow's middle).
LEMMA RealignRead ==
  ASSUME NEW m \in Int, NEW logical, Lined(logical), Len(logical.lines) >= 1, NEW told \in Nat,
         NEW n \in Positive, NEW seam, seam = Realign(logical, told, n)
  PROVE  Realigned(m, logical, seam)
<1> DEFINE ls == logical.lines
           first == ls[1]
           part == n - (told % n)
           split == Least(part, Len(first))
           ends == split = Len(first)
           fragment == [cells |-> SubSeq(first, 1, split), wrapped |-> ~ends]
           rest == SubSeq(first, split + 1, Len(first))
           offset == IF logical.at = 1 THEN Greatest(logical.offset - split, 0) ELSE logical.offset
           d == Departed(fragment)
<1>0. n \in Nat /\ n >= 1 /\ ls \in Seq(Text) /\ Len(ls) \in Nat /\ Len(ls) >= 1
      /\ logical.offset \in Nat /\ logical.at \in 1..Len(ls) /\ first \in Text
  <2>1. ls \in Seq(Text) /\ Len(ls) >= 1 /\ logical.at \in Nat /\ logical.at >= 1
        /\ logical.at <= Len(ls) /\ logical.offset \in Nat
    BY DEF Lined, Positive
  <2> QED
    BY <2>1 DEF Positive
<1>1. CASE told % n = 0
  <2>1. seam.logical = logical /\ seam.out = << >>
    BY <1>1 DEF Realign
  <2>2. GoneRead(m, << >>) = << >>
    <3>1. << >> \in Seq(Gone)
      OBVIOUS
    <3> QED
      BY <3>1, GoneReadJoin
  <2>3. LinesRead(m, ls) \in Ink
    BY <1>0, LinesReadJoin
  <2> QED
    BY <2>1, <2>2, <2>3, InkFacts DEF Realigned
<1>2. CASE told % n # 0
  <2>1. part \in 1..n
    BY ToppedUp
  <2>2. seam = [logical |-> [lines |-> IF ends THEN Tail(ls) ELSE <<rest>> \o Tail(ls),
                             at |-> IF ends THEN Greatest(logical.at - 1, 1) ELSE logical.at,
                             offset |-> offset],
                head |-> IF ends THEN 0 ELSE told + split,
                out |-> << d >>]
    BY <1>2 DEF Realign
  <2> HIDE DEF part
  <2>3. /\ first \in Seq(Nat) /\ Len(first) \in Nat /\ split \in 0..Len(first)
        /\ (~ends => split = part)
    <3>1. first \in Seq(Nat) /\ Len(first) \in Nat
      BY <1>0 DEF Text
    <3> HIDE DEF first
    <3>2. part \in Nat
      BY <1>0, <2>1
    <3> QED
      BY <3>1, <3>2 DEF Least
  <2> DEFINE cs == SubSeq(first, 1, split)
  <2>4. /\ first = cs \o rest /\ cs \in Text /\ rest \in Text
        /\ Len(cs) = split /\ Len(rest) = Len(first) - split
    <3> HIDE DEF first, split
    <3> QED
      <4>1. TwoParts(Nat, first, split)
        BY ONLY <2>3, SplitIn
      <4> QED
        BY ONLY <2>3, <4>1 DEF TwoParts, Text
  <2>5. fragment.cells = cs /\ (fragment.wrapped <=> ~ends) /\ fragment \in Width(split)
    <3>1. (~ends) \in BOOLEAN /\ fragment = [cells |-> cs, wrapped |-> ~ends]
      OBVIOUS
    <3>2. cs \in Text /\ Len(cs) = split
      BY <2>4
    <3> HIDE DEF cs, split, ends, fragment
    <3> QED
      BY <3>1, <3>2 DEF Width
  <2>6. GoneRead(m, << d >>) = RowInk(m, fragment)
    <3>1. split \in Nat
      BY <2>3
    <3> HIDE DEF split, fragment
    <3> QED
      BY <2>5, <3>1, OneRead
  <2>7. /\ ls = << first >> \o Tail(ls) /\ Tail(ls) \in Seq(Text) /\ Len(Tail(ls)) = Len(ls) - 1
        /\ \A i \in 1 .. Len(ls) - 1 : Tail(ls)[i] = ls[i + 1]
    <3> HIDE DEF ls
    <3> QED
      BY <1>0, HeadTail
  <2>8. /\ seam.out = << d >>
        /\ seam.logical.lines = IF ends THEN Tail(ls) ELSE <<rest>> \o Tail(ls)
        /\ seam.logical.at = IF ends THEN Greatest(logical.at - 1, 1) ELSE logical.at
        /\ seam.logical.offset = offset
    <3> DEFINE w == IF ends THEN Tail(ls) ELSE <<rest>> \o Tail(ls)
               a == IF ends THEN Greatest(logical.at - 1, 1) ELSE logical.at
               h == IF ends THEN 0 ELSE told + split
               o == << d >>
    <3>1. seam = [logical |-> [lines |-> w, at |-> a, offset |-> offset], head |-> h, out |-> o]
      BY <2>2
    <3>2. ASSUME NEW x1, NEW x2, NEW x3, NEW x4, NEW x5,
                 seam = [logical |-> [lines |-> x1, at |-> x2, offset |-> x3], head |-> x4, out |-> x5]
          PROVE  seam.out = x5 /\ seam.logical.lines = x1 /\ seam.logical.at = x2
                 /\ seam.logical.offset = x3
      BY <3>2
    <3>3. seam.out = o /\ seam.logical.lines = w /\ seam.logical.at = a /\ seam.logical.offset = offset
      <4> HIDE DEF w, a, h, o, offset
      <4> QED
        BY <3>1, <3>2
    <3> QED
      BY <3>3 DEF w, a, o
  <2> DEFINE tl == Tail(ls)
             F == Bare(first)
             C == Bare(cs)
             R == Bare(rest)
             E == End(m)
             Z == LinesRead(m, tl)
  <2>9. /\ F \in Ink /\ C \in Ink /\ R \in Ink /\ E \in Ink /\ Z \in Ink
        /\ F = C \o R
        /\ LinesRead(m, ls) = (F \o E) \o Z
        /\ LinesRead(m, <<rest>> \o tl) = (R \o E) \o Z
    <3>1. tl \in Seq(Text)
      BY <2>7
    <3> HIDE DEF tl, cs, rest, first
    <3>2. first \in Ink /\ cs \in Ink /\ rest \in Ink
      BY <1>0, <2>4, InkFacts
    <3>3. F \in Ink /\ C \in Ink /\ R \in Ink /\ F = C \o R
      BY <2>4, <3>2, BareType, BareJoin
    <3>4. E \in Ink /\ Z \in Ink
      BY <3>1, <1>0, LinesReadSnoc
    <3>5. LinesRead(m, << first >> \o tl) = (F \o E) \o Z
      BY <1>0, <3>1, FirstRead
    <3>6. LinesRead(m, << rest >> \o tl) = (R \o E) \o Z
      BY <2>4, <3>1, FirstRead
    <3>7. ls = << first >> \o tl
      BY <2>7 DEF tl
    <3> HIDE DEF ls
    <3> QED
      BY <3>3, <3>4, <3>5, <3>6, <3>7
  <2>10. GoneRead(m, << d >>) = IF ends THEN C \o E ELSE C
    <3> HIDE DEF ends, d, fragment, cs
    <3> QED
      BY <2>5, <2>6 DEF RowInk
  <2>11. ends => F = C
    <3>1. ASSUME ends PROVE Len(rest) = 0
      BY <2>3, <2>4, <3>1
    <3>2. ASSUME NEW x \in Text, NEW y \in Text, Len(y) = 0 PROVE x \o y = x
      BY <3>2 DEF Text
    <3> HIDE DEF ends, cs, rest, first
    <3> QED
      BY <2>4, <3>1, <3>2
  <2>12. GoneRead(m, seam.out) \o LinesRead(m, seam.logical.lines) = LinesRead(m, ls)
    <3>1. ASSUME NEW x \in Ink, NEW y \in Ink, NEW z \in Ink PROVE (x \o y) \o z = x \o (y \o z)
      BY InkFacts
    <3> HIDE DEF ends, d, ls, tl, F, C, R, E, Z, rest
    <3>3. C \o ((R \o E) \o Z) = ((C \o R) \o E) \o Z
      <4> DEFINE Shifts(u, v, x, y) == u \o ((v \o x) \o y) = ((u \o v) \o x) \o y
      <4>1. ASSUME NEW u \in Ink, NEW v \in Ink, NEW x \in Ink, NEW y \in Ink
            PROVE  Shifts(u, v, x, y)
        <5>1. v \o x \in Ink
          BY InkFacts
        <5>2. u \o ((v \o x) \o y) = (u \o (v \o x)) \o y
          BY ONLY u \in Ink, y \in Ink, <5>1, InkFacts, Zenon
        <5>3. u \o (v \o x) = (u \o v) \o x
          BY <3>1
        <5> QED
          BY <5>2, <5>3
      <4>2. C \in Ink /\ R \in Ink /\ E \in Ink /\ Z \in Ink
        BY <2>9
      <4>3. Shifts(C, R, E, Z)
        <5> HIDE DEF Shifts
        <5> QED
          BY <4>1, <4>2
      <4> QED
        BY <4>3
    <3>5. CASE ends
      <4>1. GoneRead(m, seam.out) = C \o E /\ seam.logical.lines = tl /\ F = C
        BY <2>8, <2>10, <2>11, <3>5 DEF tl
      <4> QED
        BY <2>9, <4>1 DEF Z
    <3>6. CASE ~ends
      <4>1. GoneRead(m, seam.out) = C /\ seam.logical.lines = <<rest>> \o tl
        BY <2>8, <2>10, <3>6 DEF tl
      <4> QED
        BY <2>9, <3>3, <4>1
    <3> QED
      BY <3>5, <3>6
  <2>13. ASSUME AtEnd(logical) PROVE AtEnd(seam.logical)
    <3>1. logical.at = Len(ls) /\ logical.offset = Len(ls[Len(ls)])
      BY <1>0, <2>13 DEF AtEnd
    <3>2. SUFFICES ASSUME seam.logical.lines # << >>
                   PROVE  /\ seam.logical.at = Len(seam.logical.lines)
                          /\ seam.logical.offset = Len(seam.logical.lines[Len(seam.logical.lines)])
      BY DEF AtEnd
    <3>3. tl \in Seq(Text) /\ Len(tl) = Len(ls) - 1 /\ (\A i \in 1 .. Len(ls) - 1 : tl[i] = ls[i + 1])
      BY <2>7
    <3>4. ASSUME Len(ls) >= 2 PROVE Len(tl[Len(tl)]) = logical.offset
      <4> HIDE DEF ls, tl
      <4>1. Len(tl) \in 1 .. Len(ls) - 1 /\ Len(tl) + 1 = Len(ls)
        BY <1>0, <3>3, <3>4
      <4> QED
        BY <3>1, <3>3, <4>1
    <3>5. CASE ends
      <4>1. seam.logical.lines = tl /\ seam.logical.at = Greatest(logical.at - 1, 1)
        BY <2>8, <3>5
      <4>2. Len(ls) >= 2
        <5>1. ASSUME NEW q \in Seq(Text), q # << >> PROVE Len(q) >= 1
          BY <5>1
        <5> HIDE DEF ls, tl
        <5> QED
          BY <1>0, <3>2, <3>3, <4>1, <5>1
      <4>3. seam.logical.offset = logical.offset
        <5> HIDE DEF ls
        <5>1. logical.at # 1
          BY <1>0, <3>1, <4>2
        <5> QED
          BY <2>8, <5>1
      <4>4. Greatest(logical.at - 1, 1) = Len(tl)
        <5> HIDE DEF ls, tl
        <5> QED
          BY <1>0, <3>1, <3>3, <4>2 DEF Greatest
      <4> HIDE DEF ls, tl
      <4> QED
        BY <3>4, <4>1, <4>2, <4>3, <4>4
    <3>6. CASE ~ends
      <4> DEFINE more == <<rest>> \o tl
      <4>1. seam.logical.lines = more /\ seam.logical.at = logical.at
        BY <2>8, <3>6
      <4>2. more \in Seq(Text) /\ Len(more) = Len(ls)
            /\ more[1] = rest /\ (\A i \in 2..Len(ls) : more[i] = tl[i - 1])
        <5>1. ASSUME NEW x \in Text, NEW q \in Seq(Text), NEW k \in Nat, Len(q) = k - 1
              PROVE  /\ <<x>> \o q \in Seq(Text) /\ Len(<<x>> \o q) = k
                     /\ (<<x>> \o q)[1] = x /\ (\A i \in 2..k : (<<x>> \o q)[i] = q[i - 1])
          BY <5>1
        <5> HIDE DEF tl, rest, ls
        <5>2. tl \in Seq(Text) /\ Len(ls) \in Nat /\ Len(tl) = Len(ls) - 1 /\ rest \in Text
          BY <1>0, <2>4, <3>3
        <5> QED
          BY ONLY <5>1, <5>2
      <4>3. seam.logical.offset = Len(more[Len(more)])
        <5>1. CASE Len(ls) = 1
          <6>1. logical.offset = Len(first) /\ logical.at = 1 /\ more[Len(more)] = rest
            BY <3>1, <4>2, <5>1
          <6>2. offset = Greatest(Len(first) - split, 0)
            BY <6>1
          <6>3. Greatest(Len(first) - split, 0) = Len(first) - split
            <7> HIDE DEF first, split
            <7> QED
              BY <2>3 DEF Greatest
          <6> HIDE DEF offset, more, first, split, rest
          <6> QED
            BY <2>4, <2>8, <6>1, <6>2, <6>3
        <5>2. CASE Len(ls) # 1
          <6>1. Len(ls) >= 2 /\ logical.at # 1
            <7>1. Len(ls) # 1
              BY <5>2
            <7>2. Len(ls) \in Nat /\ Len(ls) >= 1 /\ logical.at = Len(ls)
              BY <1>0, <3>1
            <7>3. ASSUME NEW l \in Nat, l >= 1, l # 1 PROVE l >= 2
              BY <7>3
            <7> HIDE DEF ls
            <7> QED
              BY <7>1, <7>2, <7>3
          <6>2. more[Len(more)] = tl[Len(tl)]
            <7> HIDE DEF more, tl, ls
            <7>1. Len(ls) \in 2..Len(ls) /\ Len(ls) - 1 = Len(tl)
              BY <1>0, <3>3, <6>1
            <7> QED
              BY <4>2, <7>1
          <6>3. offset = logical.offset
            BY <6>1
          <6> HIDE DEF offset, more, tl, ls
          <6> QED
            BY <2>8, <3>4, <6>1, <6>2, <6>3
        <5> QED
          BY <5>1, <5>2
      <4> HIDE DEF more, ls
      <4> QED
        BY <3>1, <4>1, <4>2, <4>3
    <3> QED
      BY <3>5, <3>6
  <2> HIDE DEF ls
  <2> QED
    BY <2>12, <2>13 DEF Realigned, ls
<1> QED
  BY <1>1, <1>2

-----------------------------------------------------------------------------
(* Lines cut up at a width *)

\* The cells in k rows.
Through(k, n) == k * n

LEMMA ThroughFacts ==
  ASSUME NEW n \in Positive
  PROVE  /\ Through(0, n) = 0
         /\ \A k \in Nat : Through(k, n) \in Nat /\ Through(k + 1, n) = Through(k, n) + n
         /\ \A j, k \in Nat : j <= k => Through(j, n) <= Through(k, n)
         /\ n \in Nat /\ n >= 1
<1>0. n \in Nat /\ n >= 1
  BY DEF Positive
<1>1. ASSUME NEW a \in Nat, NEW b \in Nat PROVE a * b \in Nat
  OBVIOUS
<1>2. ASSUME NEW k \in Nat PROVE Through(k, n) \in Nat /\ Through(k + 1, n) = Through(k, n) + n
  BY <1>0, <1>1 DEF Through
<1>3. ASSUME NEW j \in Nat, NEW k \in Nat, j <= k PROVE Through(j, n) <= Through(k, n)
  <2>1. k - j \in Nat /\ k = j + (k - j)
    BY <1>3
  <2>2. PICK d \in Nat : k = j + d
    BY <2>1
  <2>3. d * n \in Nat /\ j * n \in Nat
    BY <1>0, <1>1
  <2>4. k * n = j * n + d * n
    BY <1>0, <2>2
  <2> DEFINE x == j * n
             y == d * n
  <2>5. x \in Nat /\ y \in Nat
    BY <2>3
  <2>6. Through(j, n) = x /\ Through(k, n) = x + y
    BY <2>4 DEF Through
  <2> HIDE DEF x, y
  <2> QED
    BY <2>5, <2>6
<1>4. Through(0, n) = 0
  BY <1>0 DEF Through
<1> QED
  BY <1>0, <1>2, <1>3, <1>4

\* A row holds what a line has from an offset on, and blanks after it.
Holds(n, x, o, r) == \A i \in 1..n : r.cells[i] = IF o + i <= Len(x) THEN x[o + i] ELSE Blank

\* What a row holds of a line is read after what is before it.
LEMMA HoldsRead ==
  ASSUME NEW n \in Nat, NEW x \in Text, NEW o \in 0..Len(x), NEW r \in Width(n), Holds(n, x, o, r),
         NEW e, e = Least(o + n, Len(x))
  PROVE  /\ e \in 0..Len(x) /\ SubSeq(x, 1, o) \in Ink /\ SubSeq(x, 1, e) \in Ink
         /\ Bare(SubSeq(x, 1, e)) = Bare(SubSeq(x, 1, o)) \o Bare(r.cells)
<1>0. /\ x \in Seq(Nat) /\ Len(x) \in Nat /\ o \in Nat /\ o <= Len(x)
      /\ e \in Nat /\ o <= e /\ e <= Len(x) /\ e - o <= n
      /\ r.cells \in Seq(Nat) /\ Len(r.cells) = n
      /\ (e - o < n => e = Len(x))
  BY DEF Text, Width, Least
<1> DEFINE low == SubSeq(x, 1, o)
           top == SubSeq(x, 1, e)
           mid == SubSeq(r.cells, 1, e - o)
           pad == SubSeq(r.cells, (e - o) + 1, n)
           both == low \o mid
<1>1. ASSUME NEW q \in Seq(Nat), NEW j \in 0..Len(q)
      PROVE  /\ SubSeq(q, 1, j) \in Seq(Nat) /\ Len(SubSeq(q, 1, j)) = j
             /\ \A i \in 1..j : SubSeq(q, 1, j)[i] = q[i]
  OBVIOUS
<1>2. /\ low \in Seq(Nat) /\ Len(low) = o /\ \A i \in 1..o : low[i] = x[i]
  BY <1>0, <1>1
<1>3. /\ top \in Seq(Nat) /\ Len(top) = e /\ \A i \in 1..e : top[i] = x[i]
  BY <1>0, <1>1
<1>4. e - o \in 0..Len(r.cells) /\ e - o \in Nat
  BY <1>0
<1>5. /\ r.cells = mid \o pad /\ mid \in Seq(Nat) /\ Len(mid) = e - o
      /\ pad \in Seq(Nat) /\ Len(pad) = n - (e - o)
      /\ (\A i \in 1 .. e - o : mid[i] = r.cells[i])
      /\ (\A i \in 1 .. n - (e - o) : pad[i] = r.cells[(e - o) + i])
  <2>1. ASSUME NEW q \in Seq(Nat), NEW k \in 0..Len(q), Len(q) = n
        PROVE  /\ q = SubSeq(q, 1, k) \o SubSeq(q, k + 1, n)
               /\ SubSeq(q, 1, k) \in Seq(Nat) /\ Len(SubSeq(q, 1, k)) = k
               /\ SubSeq(q, k + 1, n) \in Seq(Nat) /\ Len(SubSeq(q, k + 1, n)) = n - k
               /\ \A i \in 1..k : SubSeq(q, 1, k)[i] = q[i]
               /\ \A i \in 1..(n - k) : SubSeq(q, k + 1, n)[i] = q[k + i]
    BY <2>1, SplitSeq
  <2> QED
    BY ONLY <1>0, <1>4, <2>1 DEF mid, pad
<1> HIDE DEF low, top, mid, pad
<1>6. /\ both \in Seq(Nat) /\ Len(both) = e
      /\ (\A i \in 1..o : both[i] = low[i])
      /\ (\A i \in o + 1 .. e : both[i] = mid[i - o])
  <2>1. o + (e - o) = e
    BY <1>0
  <2>2. /\ low \o mid \in Seq(Nat) /\ Len(low \o mid) = Len(low) + Len(mid)
        /\ (\A i \in 1..Len(low) : (low \o mid)[i] = low[i])
        /\ (\A i \in Len(low) + 1 .. Len(low) + Len(mid) : (low \o mid)[i] = mid[i - Len(low)])
    <3>1. low \in Seq(Nat) /\ mid \in Seq(Nat)
      BY <1>2, <1>5
    <3> QED
      BY ONLY <3>1, JoinedAt
  <2>3. Len(low) = o /\ Len(mid) = e - o
    BY <1>2, <1>5
  <2> HIDE DEF both
  <2> QED
    BY <2>1, <2>2, <2>3 DEF both
<1> HIDE DEF both
<1>7. ASSUME NEW i \in 1..e PROVE both[i] = top[i]
  <2>1. CASE i \in 1..o
    BY <1>2, <1>3, <1>6, <2>1
  <2>2. CASE i \in o + 1 .. e
    <3>1. i - o \in 1 .. e - o /\ i - o \in 1..n /\ o + (i - o) = i /\ i <= Len(x)
      BY <1>0, <2>2
    <3>2. r.cells[i - o] = x[i]
      BY <3>1 DEF Holds
    <3> QED
      BY <1>3, <1>5, <1>6, <2>2, <3>1, <3>2
  <2> QED
    BY <1>0, <2>1, <2>2
<1>8. both = top
  BY <1>3, <1>6, <1>7, SameSeq
<1>9. \A i \in 1..Len(pad) : pad[i] = Blank
  <2> SUFFICES ASSUME NEW i \in 1..Len(pad) PROVE pad[i] = Blank
    OBVIOUS
  <2>1. i \in 1 .. n - (e - o) /\ (e - o) + i \in 1..n
    <3>1. Len(pad) = n - (e - o)
      BY <1>5
    <3>2. ASSUME NEW l, l = n - (e - o), NEW j \in 1..l PROVE j \in 1 .. n - (e - o) /\ (e - o) + j \in 1..n
      BY <1>0, <3>2
    <3> QED
      BY <3>1, <3>2
  <2>2. e = Len(x)
    BY <1>0, <2>1
  <2>3. o + ((e - o) + i) = e + i /\ ~(e + i <= Len(x))
    BY <1>0, <2>1, <2>2
  <2>4. r.cells[(e - o) + i] = Blank
    BY <2>1, <2>3 DEF Holds
  <2> QED
    BY <1>5, <2>1, <2>4
<1>10. low \in Ink /\ mid \in Ink /\ pad \in Ink /\ top \in Ink
  BY <1>2, <1>3, <1>5, InkFacts DEF Text
<1>11. Bare(pad) = << >>
  BY <1>9, <1>10, BareBlanks
<1>12. Bare(r.cells) = Bare(mid)
  <2>1. Bare(mid \o pad) = Bare(mid) \o Bare(pad) /\ Bare(mid) \in Ink
    BY <1>10, BareJoin, BareType
  <2> QED
    BY <1>5, <1>11, <2>1, InkFacts
<1>13. Bare(low \o mid) = Bare(low) \o Bare(mid)
  BY <1>10, BareJoin
<1>14. Bare(top) = Bare(low) \o Bare(r.cells)
  BY <1>8, <1>12, <1>13 DEF both
<1> QED
  BY <1>0, <1>10, <1>14 DEF low, top

\* A line cut into rows of n cells, of which all but the last run on.
Chunked(n, x, ch) ==
  /\ ch \in Seq(Width(n)) /\ Len(ch) >= 1
  /\ \A k \in 1..Len(ch) : /\ Holds(n, x, Through(k - 1, n), ch[k])
                           /\ (ch[k].wrapped <=> k < Len(ch))
  /\ Through(Len(ch) - 1, n) <= Len(x) /\ Len(x) <= Through(Len(ch), n)

LEMMA ChunkFacts ==
  ASSUME NEW n \in Positive, NEW x \in Text
  PROVE  Chunked(n, x, Chunk(x, n))
<1> DEFINE a == Len(x) + n - 1
           k == Greatest(1, a \div n)
           Cell(j, i) == LET at == (j - 1) * n + i
                         IN  IF at <= Len(x) THEN x[at] ELSE Blank
           Laid(j) == [cells |-> [i \in 1..n |-> Cell(j, i)], wrapped |-> j < k]
           laid == [j \in 1..k |-> Laid(j)]
<1>0. n \in Nat /\ n >= 1 /\ Len(x) \in Nat /\ a \in Nat
  BY DEF Positive, Text
<1>1. Chunk(x, n) \in Seq(Width(n)) /\ Len(Chunk(x, n)) >= 1
  BY ChunkType
<1>2. Chunk(x, n) = laid
  BY DEF Chunk
<1>3. PICK d \in Nat : a \div n = d
  BY <1>0, DivMod
<1>4. PICK t \in 0 .. n - 1 : a = Through(d, n) + t
  <2> HIDE DEF a
  <2> QED
    BY <1>0, <1>3, DivMod DEF Through
<1>5. k \in Nat /\ k >= 1 /\ (k = d \/ (k = 1 /\ d = 0))
  BY <1>3 DEF Greatest
<1>6. Through(k - 1, n) <= Len(x) /\ Len(x) <= Through(k, n)
  <2> HIDE DEF k
  <2>1. CASE k = d
    <3>1. k - 1 \in Nat /\ (k - 1) + 1 = k
      BY <1>5
    <3>2. Through(k - 1, n) \in Nat /\ Through(k, n) = Through(k - 1, n) + n
      BY <3>1, ThroughFacts
    <3>3. Len(x) + n - 1 = Through(k - 1, n) + n + t
      BY <1>4, <2>1, <3>2
    <3> QED
      BY <1>0, <1>4, <3>2, <3>3
  <2>2. CASE k = 1 /\ d = 0
    <3>1. Through(0, n) = 0 /\ Through(0 + 1, n) = Through(0, n) + n
      BY ThroughFacts
    <3>2. Through(0, n) = 0 /\ Through(1, n) = n
      BY <1>0, <3>1
    <3>3. Len(x) + n - 1 = 0 + t
      BY <1>4, <2>2, <3>2
    <3> QED
      BY <1>0, <1>4, <2>2, <3>2, <3>3
  <2> QED
    BY <1>5, <2>1, <2>2
<1> HIDE DEF k, a
<1>7. Len(laid) = k
  BY <1>5
<1>8. ASSUME NEW j \in 1..k
      PROVE  Holds(n, x, Through(j - 1, n), laid[j]) /\ (laid[j].wrapped <=> j < k)
  <2>1. laid[j].cells = [i \in 1..n |-> Cell(j, i)] /\ (laid[j].wrapped <=> j < k)
    BY <1>8
  <2> HIDE DEF laid
  <2>2. ASSUME NEW i \in 1..n
        PROVE  laid[j].cells[i] = IF Through(j - 1, n) + i <= Len(x) THEN x[Through(j - 1, n) + i]
                                  ELSE Blank
    <3>1. laid[j].cells[i] = Cell(j, i)
      <4> HIDE DEF Cell
      <4> QED
        BY <2>1
    <3> QED
      BY <3>1 DEF Through
  <2> QED
    BY <2>1, <2>2 DEF Holds
<1> HIDE DEF laid
<1> QED
  BY <1>1, <1>2, <1>6, <1>7, <1>8 DEF Chunked

\* The rows a line is cut into are read as the line (Logical::chunk).
LEMMA ChunkRead ==
  ASSUME NEW m \in Int, NEW n \in Positive, NEW x \in Text, NEW ch, Chunked(n, x, ch)
  PROVE  RowsRead(m, ch) = Bare(x) \o End(m)
<1> DEFINE K == Len(ch)
           Part(j) == SubSeq(ch, 1, j)
           Done(j) == RowsRead(m, Part(j)) = Bare(SubSeq(x, 1, Through(j, n)))
           Good == {j \in Nat : j + 1 <= K => Done(j)}
<1>0. /\ n \in Nat /\ ch \in Seq(Width(n)) /\ K \in Nat /\ K >= 1 /\ x \in Seq(Nat) /\ Len(x) \in Nat
      /\ Through(K - 1, n) <= Len(x) /\ Len(x) <= Through(K, n)
  BY DEF Chunked, Positive, Text
<1>1. ASSUME NEW j \in 1..K
      PROVE  ch[j] \in Width(n) /\ Holds(n, x, Through(j - 1, n), ch[j]) /\ (ch[j].wrapped <=> j < K)
  BY DEF Chunked
<1>2. /\ Through(0, n) = 0
      /\ \A k \in Nat : Through(k, n) \in Nat /\ Through(k + 1, n) = Through(k, n) + n
      /\ \A j, k \in Nat : j <= k => Through(j, n) <= Through(k, n)
  BY ThroughFacts
<1>3. ASSUME NEW q \in Seq(Width(n)), NEW j \in Nat, j + 1 <= Len(q)
      PROVE  /\ SubSeq(q, 1, j) \in Seq(Width(n)) /\ q[j + 1] \in Width(n)
             /\ SubSeq(q, 1, j + 1) = Append(SubSeq(q, 1, j), q[j + 1])
  BY <1>3
<1>4. ASSUME NEW q \in Seq(Width(n)) PROVE SubSeq(q, 1, 0) = << >> /\ SubSeq(q, 1, Len(q)) = q
  OBVIOUS
<1>5. SubSeq(x, 1, 0) = << >> /\ SubSeq(x, 1, Len(x)) = x
  BY <1>0
<1>6. 0 \in Good
  <2>1. Bare(<< >>) = << >>
    <3>1. << >> \in Ink /\ 0 \in Int
      BY InkFacts
    <3> QED
      BY <3>1, BareSnoc
  <2>2. RowsRead(m, << >>) = << >>
    <3>1. << >> \in Seq(Width(n))
      OBVIOUS
    <3> QED
      BY <1>0, <3>1, RowsReadJoin
  <2>3. Done(0)
    BY <1>0, <1>2, <1>4, <1>5, <2>1, <2>2
  <2> HIDE DEF Done
  <2> QED
    BY <2>3
<1>7. ASSUME NEW j \in Nat, j + 1 <= K
      PROVE  /\ Through(j, n) \in 0..Len(x)
             /\ Part(j) \in Seq(Width(n)) /\ ch[j + 1] \in Width(n)
             /\ Part(j + 1) = Append(Part(j), ch[j + 1])
             /\ Holds(n, x, Through(j, n), ch[j + 1]) /\ (ch[j + 1].wrapped <=> j + 1 < K)
  <2>1. j + 1 \in 1..K /\ (j + 1) - 1 = j /\ j <= K - 1 /\ K - 1 \in Nat
    BY <1>0, <1>7
  <2>2. Through(j, n) \in Nat /\ Through(j, n) <= Through(K - 1, n) /\ Through(K - 1, n) \in Nat
    BY <1>2, <2>1
  <2>3. Through(j, n) \in 0..Len(x)
    BY <1>0, <2>2
  <2>4. /\ Part(j) \in Seq(Width(n)) /\ ch[j + 1] \in Width(n)
        /\ Part(j + 1) = Append(Part(j), ch[j + 1])
    <3> HIDE DEF K
    <3>1. j + 1 <= Len(ch)
      BY <1>7 DEF K
    <3> QED
      BY <1>0, <1>3, <3>1
  <2>5. Holds(n, x, Through(j, n), ch[j + 1]) /\ (ch[j + 1].wrapped <=> j + 1 < K)
    <3> HIDE DEF K
    <3>1. Holds(n, x, Through((j + 1) - 1, n), ch[j + 1]) /\ (ch[j + 1].wrapped <=> j + 1 < K)
      BY <1>1, <2>1
    <3> QED
      BY <2>1, <3>1
  <2> HIDE DEF Part, K
  <2> QED
    BY <2>3, <2>4, <2>5
<1> HIDE DEF K, Part
<1>8. ASSUME NEW j \in Nat, j + 1 <= K, Done(j)
      PROVE  /\ RowsRead(m, Part(j)) \o Bare(ch[j + 1].cells)
                  = Bare(SubSeq(x, 1, Least(Through(j, n) + n, Len(x))))
             /\ RowsRead(m, Part(j + 1)) = RowsRead(m, Part(j)) \o RowInk(m, ch[j + 1])
             /\ RowsRead(m, Part(j)) \in Ink /\ Bare(ch[j + 1].cells) \in Ink /\ End(m) \in Ink
  <2>1. Bare(SubSeq(x, 1, Least(Through(j, n) + n, Len(x)))) =
          Bare(SubSeq(x, 1, Through(j, n))) \o Bare(ch[j + 1].cells)
    <3> DEFINE o == Through(j, n)
               r == ch[j + 1]
    <3>1. o \in 0..Len(x) /\ r \in Width(n) /\ Holds(n, x, o, r) /\ n \in Nat
      BY <1>0, <1>7, <1>8
    <3>2. ASSUME NEW e, e = Least(o + n, Len(x))
          PROVE  Bare(SubSeq(x, 1, e)) = Bare(SubSeq(x, 1, o)) \o Bare(r.cells)
      <4> HIDE DEF o, r
      <4> QED
        BY <3>1, <3>2, HoldsRead
    <3> QED
      BY <3>2
  <2>2. /\ RowsRead(m, Part(j)) \in Ink /\ Bare(ch[j + 1].cells) \in Ink /\ End(m) \in Ink
        /\ RowsRead(m, Append(Part(j), ch[j + 1])) = RowsRead(m, Part(j)) \o RowInk(m, ch[j + 1])
    BY <1>0, <1>7, <1>8, RowsReadSnoc
  <2> QED
    BY <1>7, <1>8, <2>1, <2>2
<1>9. \A j \in Good : j + 1 \in Good
  <2> SUFFICES ASSUME NEW j \in Nat, j + 1 <= K => Done(j), (j + 1) + 1 <= K PROVE Done(j + 1)
    <3> HIDE DEF Done
    <3> QED
      OBVIOUS
  <2>1. j + 1 <= K /\ j + 1 < K /\ j + 1 <= K - 1 /\ K - 1 \in Nat /\ j + 1 \in Nat
    BY <1>0
  <2>2. Done(j)
    BY <2>1
  <2>3. RowInk(m, ch[j + 1]) = Bare(ch[j + 1].cells)
    BY <1>7, <2>1 DEF RowInk
  <2>4. Least(Through(j, n) + n, Len(x)) = Through(j + 1, n)
    <3>1. Through(j + 1, n) <= Through(K - 1, n) /\ Through(j + 1, n) \in Nat
          /\ Through(j + 1, n) = Through(j, n) + n /\ Through(K - 1, n) \in Nat
      BY <1>2, <2>1
    <3>2. ASSUME NEW u \in Nat, NEW v \in Nat, u <= v PROVE Least(u, v) = u
      BY <3>2 DEF Least
    <3>3. Through(j + 1, n) <= Len(x)
      BY <1>0, <3>1
    <3> QED
      BY <1>0, <3>1, <3>2, <3>3
  <2> QED
    BY <1>8, <2>1, <2>2, <2>3, <2>4
<1>10. Good = Nat
  <2>1. Good \in SUBSET Nat
    OBVIOUS
  <2> HIDE DEF Good
  <2> QED
    BY <1>6, <1>9, <2>1, SetInduction
<1>11. PICK j \in Nat : j + 1 = K
  BY <1>0
<1>12. Done(j)
  <2>1. j \in Good /\ j + 1 <= K
    <3> HIDE DEF Good
    <3> QED
      BY <1>0, <1>10, <1>11
  <2> HIDE DEF Done
  <2> QED
    BY <2>1
<1>13. RowInk(m, ch[j + 1]) = Bare(ch[j + 1].cells) \o End(m)
  <2>1. ~(j + 1 < K) /\ j + 1 <= K
    BY <1>0, <1>11
  <2> QED
    BY <1>7, <2>1 DEF RowInk
<1>14. Least(Through(j, n) + n, Len(x)) = Len(x)
  <2>1. Through(j + 1, n) = Through(j, n) + n
    BY <1>2
  <2>2. Through(j, n) + n \in Nat /\ Len(x) <= Through(j, n) + n
    BY <1>0, <1>2, <1>11, <2>1
  <2> QED
    BY <1>0, <2>2 DEF Least
<1>15. ch = Part(j + 1)
  BY <1>0, <1>4, <1>11 DEF K, Part
<1>16. /\ RowsRead(m, Part(j)) \o Bare(ch[j + 1].cells) = Bare(x)
       /\ RowsRead(m, ch) = RowsRead(m, Part(j)) \o RowInk(m, ch[j + 1])
       /\ RowsRead(m, Part(j)) \in Ink /\ Bare(ch[j + 1].cells) \in Ink /\ End(m) \in Ink
  <2>1. j + 1 <= K
    BY <1>0, <1>11
  <2> HIDE DEF Done
  <2>2. /\ RowsRead(m, Part(j)) \o Bare(ch[j + 1].cells)
             = Bare(SubSeq(x, 1, Least(Through(j, n) + n, Len(x))))
        /\ RowsRead(m, Part(j + 1)) = RowsRead(m, Part(j)) \o RowInk(m, ch[j + 1])
        /\ RowsRead(m, Part(j)) \in Ink /\ Bare(ch[j + 1].cells) \in Ink /\ End(m) \in Ink
    BY <1>8, <1>12, <2>1
  <2> QED
    BY <1>5, <1>14, <1>15, <2>2
<1>17. ASSUME NEW u \in Ink, NEW v \in Ink, NEW w \in Ink PROVE u \o (v \o w) = (u \o v) \o w
  BY InkFacts
<1> DEFINE R == RowsRead(m, Part(j))
           C == Bare(ch[j + 1].cells)
           E == End(m)
<1>18. R \o C = Bare(x) /\ RowsRead(m, ch) = R \o (C \o E) /\ R \in Ink /\ C \in Ink /\ E \in Ink
  BY <1>13, <1>16
<1> HIDE DEF R, C, E
<1>19. R \o (C \o E) = (R \o C) \o E
  BY <1>17, <1>18
<1> QED
  BY <1>18, <1>19 DEF E

\* Lines are laid out one after another.
LEMMA RelaidSnoc ==
  ASSUME NEW n \in Positive, NEW w \in Seq(Text), NEW e \in Text
  PROVE  /\ Relaid(<< >>, n) = << >> /\ Relaid(w, n) \in Seq(Width(n)) /\ Chunk(e, n) \in Seq(Width(n))
         /\ Relaid(Append(w, e), n) = Relaid(w, n) \o Chunk(e, n)
<1> DEFINE Each(ls) == [i \in DOMAIN ls |-> Chunk(ls[i], n)]
           c == Chunk(e, n)
<1>1. ASSUME NEW ls \in Seq(Text)
      PROVE  /\ Each(ls) \in Seq(Seq(Width(n))) /\ Len(Each(ls)) = Len(ls)
             /\ \A i \in 1..Len(ls) : Each(ls)[i] = Chunk(ls[i], n)
  <2>1. \A x \in Text : Chunk(x, n) \in Seq(Width(n))
    BY ChunkType
  <2>2. \A i \in 1..Len(ls) : Chunk(ls[i], n) \in Seq(Width(n))
    BY <2>1
  <2>3. Each(ls) \in Seq(Seq(Width(n)))
    BY <2>2
  <2>4. Len(Each(ls)) = Len(ls)
    OBVIOUS
  <2>5. \A i \in 1..Len(ls) : Each(ls)[i] = Chunk(ls[i], n)
    OBVIOUS
  <2> QED
    BY <2>3, <2>4, <2>5
<1>2. /\ Append(w, e) \in Seq(Text) /\ Len(Append(w, e)) = Len(w) + 1 /\ Len(w) \in Nat
      /\ Append(w, e)[Len(w) + 1] = e
      /\ \A i \in 1..Len(w) : Append(w, e)[i] = w[i]
  OBVIOUS
<1>3. c \in Seq(Width(n)) /\ << >> \in Seq(Text)
  BY ChunkType
<1> HIDE DEF c
<1> DEFINE more == Append(Each(w), c)
<1>4. Each(w) \in Seq(Seq(Width(n))) /\ Len(Each(w)) = Len(w)
      /\ (\A i \in 1..Len(w) : Each(w)[i] = Chunk(w[i], n))
  BY <1>1
<1>5. Each(Append(w, e)) \in Seq(Seq(Width(n))) /\ Len(Each(Append(w, e))) = Len(w) + 1
      /\ (\A i \in 1 .. Len(w) + 1 : Each(Append(w, e))[i] = Chunk(Append(w, e)[i], n))
  BY <1>1, <1>2
<1>6. more \in Seq(Seq(Width(n))) /\ Len(more) = Len(w) + 1 /\ more[Len(w) + 1] = c
      /\ \A i \in 1..Len(w) : more[i] = Each(w)[i]
  <2> HIDE DEF Each
  <2>1. ASSUME NEW S, NEW q \in Seq(S), NEW x \in S, NEW l \in Nat, Len(q) = l
        PROVE  /\ Append(q, x) \in Seq(S) /\ Len(Append(q, x)) = l + 1 /\ Append(q, x)[l + 1] = x
               /\ \A i \in 1..l : Append(q, x)[i] = q[i]
    BY <2>1
  <2> QED
    BY <1>2, <1>3, <1>4, <2>1
<1>7. ASSUME NEW i \in 1 .. Len(w) + 1 PROVE more[i] = Each(Append(w, e))[i]
  <2> HIDE DEF Each, more
  <2>1. CASE i \in 1..Len(w)
    BY <1>2, <1>4, <1>5, <1>6, <2>1
  <2>2. CASE i = Len(w) + 1
    BY <1>2, <1>5, <1>6, <2>2 DEF c
  <2> QED
    BY <1>2, <2>1, <2>2
<1>8. more = Each(Append(w, e))
  <2> HIDE DEF Each, more
  <2> QED
    BY <1>5, <1>6, <1>7, SameSeq
<1>9. FlattenSeq(more) = FlattenSeq(Each(w)) \o c /\ FlattenSeq(<< >>) = << >>
  <2> HIDE DEF Each
  <2> QED
    BY <1>3, <1>4, FlattenSnoc
<1>10. Relaid(<< >>, n) = << >>
  <2>1. Each(<< >>) = << >>
    OBVIOUS
  <2> QED
    BY <1>9, <2>1 DEF Relaid
<1>11. Relaid(w, n) = FlattenSeq(Each(w)) /\ Relaid(Append(w, e), n) = FlattenSeq(Each(Append(w, e)))
  BY DEF Relaid
<1>12. Relaid(w, n) \in Seq(Width(n))
  BY RelaidType
<1> HIDE DEF Each, more
<1> QED
  BY <1>3, <1>8, <1>9, <1>10, <1>11, <1>12 DEF c

\* The rows lines are cut into are read as the lines.
LEMMA RelaidRead ==
  ASSUME NEW m \in Int, NEW n \in Positive, NEW ls \in Seq(Text)
  PROVE  RowsRead(m, Relaid(ls, n)) = LinesRead(m, ls)
<1> DEFINE Good == {x \in Seq(Text) : RowsRead(m, Relaid(x, n)) = LinesRead(m, x)}
<1>0. n \in Nat /\ << >> \in Text /\ << >> \in Seq(Text) /\ << >> \in Seq(Width(n))
  BY DEF Positive, Text
<1>1. << >> \in Good
  <2>1. Relaid(<< >>, n) = << >> /\ LinesRead(m, << >>) = << >> /\ RowsRead(m, << >>) = << >>
    BY <1>0, RelaidSnoc, LinesReadSnoc, RowsReadJoin
  <2> QED
    BY <1>0, <2>1
<1>2. \A w \in Good : \A e \in Text : Append(w, e) \in Good
  <2> SUFFICES ASSUME NEW w \in Seq(Text), NEW e \in Text,
                      RowsRead(m, Relaid(w, n)) = LinesRead(m, w)
               PROVE  RowsRead(m, Relaid(Append(w, e), n)) = LinesRead(m, Append(w, e))
    OBVIOUS
  <2>1. /\ Relaid(w, n) \in Seq(Width(n)) /\ Chunk(e, n) \in Seq(Width(n))
        /\ Relaid(Append(w, e), n) = Relaid(w, n) \o Chunk(e, n)
    BY RelaidSnoc
  <2>2. RowsRead(m, Relaid(w, n) \o Chunk(e, n)) = RowsRead(m, Relaid(w, n)) \o RowsRead(m, Chunk(e, n))
    BY <1>0, <2>1, RowsReadJoin
  <2>3. Chunked(n, e, Chunk(e, n))
    BY ChunkFacts
  <2>4. RowsRead(m, Chunk(e, n)) = Bare(e) \o End(m)
    BY <2>3, ChunkRead
  <2>5. LinesRead(m, Append(w, e)) = LinesRead(m, w) \o (Bare(e) \o End(m))
    BY LinesReadSnoc
  <2> QED
    BY <2>1, <2>2, <2>4, <2>5
<1>3. Good = Seq(Text)
  <2>1. Good \in SUBSET Seq(Text)
    OBVIOUS
  <2> HIDE DEF Good
  <2> QED
    BY <1>1, <1>2, <2>1, SnocInduction
<1> QED
  BY <1>3

\* The cursor lands at the end of what is there, in its last row.
Landed(n, grid, c) ==
  /\ Len(grid) >= 1 /\ c.row = Len(grid) /\ c.col \in 0 .. n - 1 /\ c.pend \in BOOLEAN
  /\ ~grid[Len(grid)].wrapped
  /\ BlankFrom(c.col + (IF c.pend THEN 2 ELSE 1), n, grid[Len(grid)])
  /\ c.pend => c.col = n - 1

\* Where the end of a line is among the rows it was cut into (screen.rs place).
LEMMA ChunkEnd ==
  ASSUME NEW n \in Positive, NEW x \in Text, NEW ch, Chunked(n, x, ch),
         NEW c, c = CursorAt(Len(x), n, Len(ch))
  PROVE  Landed(n, ch, c)
<1> DEFINE K == Len(ch)
           L == Len(x)
<1>0. /\ n \in Nat /\ n >= 1 /\ K \in Nat /\ K >= 1 /\ L \in Nat
      /\ Through(K - 1, n) <= L /\ L <= Through(K, n)
  BY DEF Chunked, Positive, Text
<1>1. PICK d \in Nat : L \div n = d
  BY <1>0, DivMod
<1>2. PICK t \in 0 .. n - 1 : L % n = t /\ L = Through(d, n) + t
  <2> HIDE DEF L
  <2> QED
    BY <1>0, <1>1, DivMod DEF Through
<1>3. /\ \A k \in Nat : Through(k, n) \in Nat /\ Through(k + 1, n) = Through(k, n) + n
      /\ \A j, k \in Nat : j <= k => Through(j, n) <= Through(k, n)
      /\ Through(0, n) = 0
  BY ThroughFacts
<1>4. Holds(n, x, Through(K - 1, n), ch[K]) /\ ~ch[K].wrapped
  <2>1. K \in 1..Len(ch)
    BY <1>0
  <2> QED
    BY <1>0, <2>1 DEF Chunked
<1> HIDE DEF K, L
<1>5. c = IF t = 0 /\ d > 0 /\ d >= K THEN [row |-> d, col |-> n - 1, pend |-> TRUE]
          ELSE [row |-> Least(d, K - 1) + 1, col |-> t, pend |-> FALSE]
  BY <1>1, <1>2 DEF CursorAt, K, L
<1>6. K - 1 \in Nat /\ (K - 1) + 1 = K
  BY <1>0
<1>7. d <= K
  <2> SUFFICES ASSUME d > K PROVE FALSE
    BY <1>0
  <2>1. K + 1 <= d /\ K + 1 \in Nat
    BY <1>0
  <2>2. Through(K + 1, n) <= Through(d, n) /\ Through(K + 1, n) = Through(K, n) + n
        /\ Through(d, n) \in Nat /\ Through(K, n) \in Nat
    BY <1>0, <1>3, <2>1
  <2> QED
    BY <1>0, <1>2, <2>2
<1>8. d >= K - 1
  <2> SUFFICES ASSUME d + 1 <= K - 1, d + 1 \in Nat PROVE FALSE
    BY <1>0
  <2>1. Through(d + 1, n) <= Through(K - 1, n) /\ Through(d + 1, n) = Through(d, n) + n
        /\ Through(d, n) \in Nat /\ Through(K - 1, n) \in Nat
    BY <1>3, <1>6
  <2> QED
    BY <1>0, <1>2, <2>1
<1>9. CASE d = K
  <2>1. t = 0
    <3>1. Through(K, n) + t <= Through(K, n) /\ Through(K, n) \in Nat
      BY <1>0, <1>2, <1>3, <1>9
    <3> QED
      BY <3>1
  <2>2. c.row = K /\ c.col = n - 1 /\ c.pend /\ c.pend \in BOOLEAN
    BY <1>0, <1>5, <1>9, <2>1
  <2>3. BlankFrom(c.col + 2, n, ch[K])
    BY <1>0, <2>2 DEF BlankFrom
  <2>4. c.col \in 0 .. n - 1
    BY <1>0, <2>2
  <2> QED
    BY <1>0, <1>4, <2>2, <2>3, <2>4 DEF Landed, K
<1>10. CASE d = K - 1
  <2>1. Least(d, K - 1) + 1 = K
    BY <1>0, <1>10 DEF Least
  <2>2. c.row = K /\ c.col = t /\ ~c.pend /\ c.pend \in BOOLEAN
    BY <1>0, <1>5, <1>10, <2>1
  <2>3. BlankFrom(c.col + 1, n, ch[K])
    <3> SUFFICES ASSUME NEW i \in t + 1 .. n PROVE ch[K].cells[i] = Blank
      BY <2>2 DEF BlankFrom
    <3>1. i \in 1..n /\ Through(d, n) \in Nat
      <4>1. t \in 0 .. n - 1 /\ d \in Nat
        BY <1>1, <1>2
      <4>2. Through(d, n) \in Nat
        BY <1>3, <4>1
      <4>3. i \in 1..n
        BY <1>0, <4>1
      <4> QED
        BY <4>2, <4>3
    <3>2. ~(Through(d, n) + i <= L)
      BY <1>2, <3>1
    <3> QED
      BY <1>4, <1>10, <3>1, <3>2 DEF Holds, L
  <2>4. c.col \in 0 .. n - 1
    BY <2>2
  <2> QED
    BY <1>0, <1>4, <2>2, <2>3, <2>4 DEF Landed, K
<1> QED
  BY <1>0, <1>7, <1>8, <1>9, <1>10

\* A cursor at the end of the last line lands at the end of the rows the lines are cut into.
LEMMA LandingEnd ==
  ASSUME NEW n \in Positive, NEW logical, Lined(logical), AtEnd(logical), logical.lines # << >>
  PROVE  Landed(n, Relaid(logical.lines, n), Landing(logical, n))
<1> DEFINE ls == logical.lines
           l == Len(ls)
           w == SubSeq(ls, 1, l - 1)
           e == ls[l]
           ch == Chunk(e, n)
           above == Relaid(w, n)
           grid == Relaid(ls, n)
           cur == CursorAt(Len(e), n, Len(ch))
<1>1. /\ ls \in Seq(Text) /\ logical.at = l /\ logical.offset = Len(e)
  BY DEF Lined, AtEnd
<1>2. /\ w \in Seq(Text) /\ e \in Text /\ ls = Append(w, e)
  <2>1. ASSUME NEW q \in Seq(Text), q # << >>
        PROVE  /\ SubSeq(q, 1, Len(q) - 1) \in Seq(Text) /\ q[Len(q)] \in Text
               /\ q = Append(SubSeq(q, 1, Len(q) - 1), q[Len(q)])
    BY <2>1
  <2> HIDE DEF ls
  <2>2. ls # << >>
    BY DEF ls
  <2> QED
    BY <1>1, <2>1, <2>2
<1>3. Landing(logical, n) = [cur EXCEPT !.row = @ + Len(above)]
  BY <1>1 DEF Landing
<1>4. Chunked(n, e, ch)
  BY <1>2, ChunkFacts
<1>5. Landed(n, ch, cur)
  <2> HIDE DEF ch, e
  <2> QED
    BY <1>2, <1>4, ChunkEnd
<1>6. above \in Seq(Width(n)) /\ ch \in Seq(Width(n)) /\ grid = above \o ch
  <2> HIDE DEF e, w, ls
  <2> QED
    BY <1>2, RelaidSnoc
<1>7. cur \in [row : {cur.row}, col : {cur.col}, pend : {cur.pend}]
  BY DEF CursorAt
<1> HIDE DEF cur, above, ch, grid, e, w, l, ls
<1> DEFINE c == Landing(logical, n)
<1>8. c.row = cur.row + Len(above) /\ c.col = cur.col /\ c.pend = cur.pend
  BY <1>3, <1>7
<1> HIDE DEF c
<1>9. Len(ch) \in Nat /\ Len(ch) >= 1 /\ Len(above) \in Nat
  BY <1>5, <1>6 DEF Landed
<1>10. Len(grid) = Len(above) + Len(ch) /\ grid[Len(grid)] = ch[Len(ch)]
  <2>1. /\ Len(above \o ch) = Len(above) + Len(ch)
        /\ \A i \in Len(above) + 1 .. Len(above) + Len(ch) : (above \o ch)[i] = ch[i - Len(above)]
    BY ONLY <1>6, JoinedAt
  <2>2. Len(above) + Len(ch) \in Len(above) + 1 .. Len(above) + Len(ch)
        /\ (Len(above) + Len(ch)) - Len(above) = Len(ch)
    BY <1>9
  <2> QED
    BY <1>6, <2>1, <2>2
<1>11. Landed(n, grid, c)
  BY <1>5, <1>8, <1>9, <1>10 DEF Landed
<1> QED
  BY <1>11 DEF c, grid, ls

\* What Fit makes of the rows.
Fitted(n, s, h, grid, c, f, over) ==
  /\ over \in 0..Len(grid) /\ Len(grid) - over <= h /\ (over > 0 => Len(grid) - over = h)
  /\ f.out = DepartedRows(SubSeq(grid, 1, over))
  /\ Whole(n, f.s) /\ Len(f.s.rows) = h
  /\ \A i \in 1 .. Len(grid) - over : f.s.rows[i] = grid[over + i]
  /\ \A i \in Len(grid) - over + 1 .. h : f.s.rows[i] = BlankRow(n)
  /\ f.s.row = Least(Greatest(c.row - over, 1), h) /\ f.s.col = c.col
  /\ (f.s.pend <=> c.pend) /\ (f.s.autowrap <=> s.autowrap)

LEMMA FitShape ==
  ASSUME NEW m, NEW s, Whole(m, s), NEW h \in Positive, NEW n \in Positive,
         NEW grid \in Seq(Width(n)), NEW c, Spot(n, c), NEW told \in Nat,
         NEW f, f = Fit(s, h, n, grid, c, told)
  PROVE  \E over : Fitted(n, s, h, grid, c, f, over)
<1> DEFINE G == Len(grid)
           over == Greatest(G - h, 0)
           out == DepartedRows(SubSeq(grid, 1, over))
           k == Greatest(h - G, 0)
           spare == [i \in 1..k |-> BlankRow(n)]
           rest == SubSeq(grid, over + 1, G)
           rs == rest \o spare
           a == Least(Greatest(c.row - over, 1), h)
           count == Carry(told \div n, out)
           t == [s EXCEPT !.rows = rs, !.cols = n, !.row = a, !.col = c.col, !.pend = c.pend,
                          !.carried = count]
<1>0. n \in Nat /\ n >= 1 /\ h \in Nat /\ h >= 1 /\ G \in Nat
  BY DEF Positive
<1>1. /\ over \in 0..G /\ over \in Nat /\ k \in Nat /\ (G - over) + k = h /\ G - over \in Nat
      /\ G - over <= h /\ (over > 0 => G - over = h)
  <2> HIDE DEF G
  <2> QED
    BY <1>0 DEF Greatest
<1>2. Whole(n, f.s)
  BY FitKeeps
<1> HIDE DEF over, k
<1>3. f = [s |-> ResetRegion(t), out |-> out]
  BY DEF Fit, over, k
<1> HIDE DEF rs, a, count, out
<1>4. s \in Screens(m)
  BY DEF Whole
<1>5. ResetRegion(t).rows = rs /\ ResetRegion(t).row = a /\ ResetRegion(t).col = c.col
      /\ (ResetRegion(t).pend <=> c.pend) /\ (ResetRegion(t).autowrap <=> s.autowrap)
  <2>1. t \in [rows : {rs}, cols : {n}, row : {a}, col : {c.col}, pend : {c.pend}, top : {1},
               bottom : Positive, carried : {count}, autowrap : {s.autowrap}]
    BY <1>4 DEF Screens
  <2> HIDE DEF t
  <2>2. ResetRegion(t).rows = t.rows /\ ResetRegion(t).row = t.row /\ ResetRegion(t).col = t.col
        /\ ResetRegion(t).pend = t.pend /\ ResetRegion(t).autowrap = t.autowrap
    BY <2>1 DEF ResetRegion
  <2> QED
    BY <2>1, <2>2
<1> HIDE DEF t
<1>6. f.s.rows = rs /\ f.s.row = a /\ f.s.col = c.col /\ (f.s.pend <=> c.pend)
      /\ (f.s.autowrap <=> s.autowrap) /\ f.out = out
  BY <1>3, <1>5
<1>7. /\ rest \in Seq(Width(n)) /\ Len(rest) = G - over
      /\ \A i \in 1 .. G - over : rest[i] = grid[over + i]
  <2>1. over \in 0..Len(grid)
    BY <1>1
  <2> HIDE DEF rest
  <2> QED
    BY <2>1, SplitSeq DEF rest
<1>8. /\ spare \in Seq(Width(n)) /\ Len(spare) = k /\ \A i \in 1..k : spare[i] = BlankRow(n)
  BY <1>0, <1>1, BlankRows
<1> HIDE DEF rest, spare, G
<1>9. /\ Len(rs) = h
      /\ (\A i \in 1 .. G - over : rs[i] = rest[i])
      /\ (\A i \in G - over + 1 .. h : rs[i] = spare[i - (G - over)])
  <2>0. rest \in Seq(Width(n)) /\ spare \in Seq(Width(n))
    BY <1>7, <1>8
  <2>1. /\ Len(rest \o spare) = Len(rest) + Len(spare)
        /\ (\A i \in 1..Len(rest) : (rest \o spare)[i] = rest[i])
        /\ (\A i \in Len(rest) + 1 .. Len(rest) + Len(spare) :
              (rest \o spare)[i] = spare[i - Len(rest)])
    BY ONLY <2>0, JoinedAt
  <2>2. Len(rest) = G - over /\ Len(spare) = k
    BY <1>7, <1>8
  <2> QED
    BY <1>1, <2>1, <2>2 DEF rs
<1>10. \A i \in G - over + 1 .. h : rs[i] = BlankRow(n)
  <2> SUFFICES ASSUME NEW i \in G - over + 1 .. h PROVE rs[i] = BlankRow(n)
    OBVIOUS
  <2>1. i - (G - over) \in 1..k
    BY <1>0, <1>1
  <2> QED
    BY <1>8, <1>9, <2>1
<1>11. \A i \in 1 .. G - over : rs[i] = grid[over + i]
  BY <1>7, <1>9
<1>12. Fitted(n, s, h, grid, c, f, over)
  BY <1>1, <1>2, <1>6, <1>9, <1>10, <1>11 DEF Fitted, G, a, out
<1> QED
  BY <1>12

\* A screen and the rows that left it read as the rows that were fitted to it.
FitReads(m, n, grid, f) ==
  /\ Tidy(n, f.s) /\ f.out \in Seq(Gone)
  /\ GoneRead(m, f.out) \o (Body(m, f.s) \o End(m)) = RowsRead(m, grid)

\* Rows fitted to a screen are read as before (Screen::reflow).
LEMMA FitTidy ==
  ASSUME NEW m \in Int, NEW b, NEW s, Whole(b, s), s.autowrap, NEW h \in Positive,
         NEW n \in Positive, NEW grid \in Seq(Width(n)), NEW c, Landed(n, grid, c),
         NEW told \in Nat, NEW f, f = Fit(s, h, n, grid, c, told)
  PROVE  FitReads(m, n, grid, f)
<1> DEFINE G == Len(grid)
           u == f.s
<1>0. n \in Nat /\ n >= 1 /\ h \in Nat /\ h >= 1 /\ G \in Nat /\ G >= 1 /\ c.row = G
  BY DEF Positive, Landed
<1>1. Spot(n, c)
  BY <1>0 DEF Landed, Spot
<1>2. PICK over : Fitted(n, s, h, grid, c, f, over)
  BY <1>1, FitShape
<1>3. /\ over \in 0..G /\ over \in Nat /\ G - over <= h /\ (over > 0 => G - over = h)
      /\ Whole(n, u) /\ Len(u.rows) = h
      /\ (\A i \in 1 .. G - over : u.rows[i] = grid[over + i])
      /\ (\A i \in G - over + 1 .. h : u.rows[i] = BlankRow(n))
      /\ u.row = Least(Greatest(c.row - over, 1), h) /\ u.col = c.col
      /\ (u.pend <=> c.pend) /\ u.autowrap
      /\ f.out = DepartedRows(SubSeq(grid, 1, over))
  BY <1>2 DEF Fitted
<1>4. /\ ~grid[G].wrapped /\ BlankFrom(c.col + (IF c.pend THEN 2 ELSE 1), n, grid[G])
      /\ (c.pend => c.col = n - 1)
  BY DEF Landed
<1> HIDE DEF u, G
<1>5. G - over >= 1 /\ u.row = G - over /\ G - over \in 1 .. G - over /\ over + (G - over) = G
  <2>1. G - over >= 1
    BY <1>0, <1>3
  <2>2. Least(Greatest(G - over, 1), h) = G - over
    BY <1>0, <1>3, <2>1 DEF Least, Greatest
  <2> QED
    BY <1>0, <1>3, <2>1, <2>2
<1>6. u.rows[u.row] = grid[G]
  BY <1>3, <1>5
<1>7. Tidy(n, u)
  <2>1. Below(n, u, u.row + 1)
    BY <1>3, <1>5 DEF Below
  <2>2. \A i \in u.col + (IF u.pend THEN 2 ELSE 1) .. n : u.rows[u.row].cells[i] = Blank
    BY <1>3, <1>4, <1>6 DEF BlankFrom
  <2>3. ~u.rows[u.row].wrapped /\ (u.pend => u.col = n - 1)
    BY <1>3, <1>4, <1>6
  <2> QED
    BY <1>3, <2>1, <2>2, <2>3 DEF Tidy
<1>8. RowsRead(m, SubSeq(u.rows, 1, u.row)) = Body(m, u) \o End(m)
  BY <1>3, <1>4, <1>6, BodyFacts
<1>9. /\ GoneRead(m, f.out) \o RowsRead(m, SubSeq(u.rows, 1, G - over)) = RowsRead(m, SubSeq(grid, 1, G))
      /\ f.out \in Seq(Gone)
  <2>1. G \in 0..Len(grid) /\ u.rows \in Seq(Width(n)) /\ G - over <= Len(u.rows)
    BY <1>0, <1>3 DEF G, Whole, Screens
  <2>2. over \in 0..G /\ f.out = DepartedRows(SubSeq(grid, 1, over)) /\ n \in Nat
    BY <1>0, <1>3
  <2> DEFINE rows == u.rows
             out == f.out
  <2>3. \A i \in 1 .. G - over : rows[i] = grid[over + i]
    BY <1>3
  <2>4. rows \in Seq(Width(n)) /\ G - over <= Len(rows) /\ out = DepartedRows(SubSeq(grid, 1, over))
    BY <2>1, <2>2
  <2> HIDE DEF rows, out
  <2>5. /\ GoneRead(m, out) \o RowsRead(m, SubSeq(rows, 1, G - over)) = RowsRead(m, SubSeq(grid, 1, G))
        /\ GoneRead(m, out) \in Ink /\ out \in Seq(Gone)
    <3>1. G \in 0..Len(grid) /\ over \in 0..G /\ n \in Nat
      BY <2>1, <2>2
    <3> QED
      BY ONLY m \in Int, grid \in Seq(Width(n)), <3>1, <2>3, <2>4, CutRead, ZenonT(60)
  <2> QED
    BY <2>5 DEF rows, out
<1>10. SubSeq(grid, 1, G) = grid
  BY DEF G
<1> QED
  BY <1>5, <1>7, <1>8, <1>9, <1>10 DEF u, FitReads

\* No rows leave a blank screen.
LEMMA FitNone ==
  ASSUME NEW m \in Int, NEW b, NEW s, Whole(b, s), s.autowrap, NEW h \in Positive,
         NEW n \in Positive, NEW c, c = [row |-> 1, col |-> 0, pend |-> FALSE],
         NEW told \in Nat, NEW f, f = Fit(s, h, n, << >>, c, told)
  PROVE  /\ Tidy(n, f.s) /\ f.out = << >> /\ Body(m, f.s) = << >>
<1> DEFINE u == f.s
<1>0. n \in Nat /\ n >= 1 /\ h \in Nat /\ h >= 1 /\ Spot(n, c) /\ << >> \in Seq(Width(n))
      /\ Len(<< >>) = 0
  BY DEF Positive, Spot
<1>1. PICK over : Fitted(n, s, h, << >>, c, f, over)
  BY <1>0, FitShape
<1>2. over = 0
  BY <1>0, <1>1 DEF Fitted
<1>3. /\ Whole(n, u) /\ Len(u.rows) = h /\ (\A i \in 1..h : u.rows[i] = BlankRow(n))
      /\ u.row = Least(Greatest(1 - 0, 1), h) /\ u.col = 0 /\ ~u.pend /\ u.autowrap
      /\ f.out = DepartedRows(SubSeq(<< >>, 1, 0))
  BY <1>0, <1>1, <1>2 DEF Fitted
<1>4. f.out = << >>
  BY <1>3 DEF DepartedRows
<1> HIDE DEF u
<1>5. u.row = 1
  BY <1>0, <1>3 DEF Least, Greatest
<1>6. u.rows[1] = BlankRow(n)
  BY <1>0, <1>3
<1>7. /\ ~BlankRow(n).wrapped /\ Bare(BlankRow(n).cells) = << >>
      /\ \A i \in 1..n : BlankRow(n).cells[i] = Blank
  BY <1>0, BlankInk DEF BlankRow
<1>8. Tidy(n, u)
  <2>1. Below(n, u, u.row + 1)
    BY <1>0, <1>3, <1>5 DEF Below
  <2> QED
    BY <1>0, <1>3, <1>5, <1>6, <1>7, <2>1 DEF Tidy
<1>9. Body(m, u) = << >>
  <2>1. SubSeq(u.rows, 1, u.row - 1) = << >>
    <3>1. u.rows \in Seq(Width(n))
      BY <1>3 DEF Whole, Screens
    <3>2. ASSUME NEW q \in Seq(Width(n)) PROVE SubSeq(q, 1, 0) = << >>
      OBVIOUS
    <3> QED
      BY <1>5, <3>1, <3>2
  <2>2. RowsRead(m, << >>) = << >>
    BY <1>0, RowsReadJoin
  <2>3. << >> \o << >> = << >>
    OBVIOUS
  <2> QED
    BY <1>5, <1>6, <1>7, <2>1, <2>2, <2>3 DEF Body, Above1
<1> QED
  BY <1>4, <1>8, <1>9 DEF u

-----------------------------------------------------------------------------
(* A resize *)

\* The same text is on the screen or has left it, but that its last line may have ended.
Resized(m, n, s, f) ==
  /\ Tidy(n, f.s) /\ f.out \in Seq(Gone)
  /\ \/ GoneRead(m, f.out) \o Body(m, f.s) = Body(m, s)
     \/ GoneRead(m, f.out) \o Body(m, f.s) = Body(m, s) \o End(m)

\* A rewrap of a tidy screen cuts its text up again and loses none of it
\* (Screen::reflow: "truncating it to a narrower width destroys text outright").
LEMMA ReflowTidy ==
  ASSUME NEW m \in Int, NEW b, NEW s, Tidy(b, s), NEW h \in Positive, NEW n \in Positive
  PROVE  Resized(m, n, s, Reflow(s, h, n))
<1> DEFINE logical == LogicalLines(s)
           told == HeadOf(s)
           seam == Realign(logical, told, n)
           grid == Relaid(seam.logical.lines, n)
           c == Landing(seam.logical, n)
           kept == Fit(s, h, n, grid, c, seam.head)
           result == Reflow(s, h, n)
<1>0. Whole(b, s) /\ s.autowrap /\ n \in Nat
  BY DEF Tidy, Positive
<1>1. told \in Nat
  <2>1. s.carried \in Nat /\ s.cols \in Nat
    BY <1>0 DEF Whole, Screens, Positive
  <2>2. ASSUME NEW x \in Nat, NEW y \in Nat PROVE x * y \in Nat
    OBVIOUS
  <2> QED
    BY <2>1, <2>2 DEF HeadOf
<1>2. Lined(logical) /\ Len(logical.lines) >= 1 /\ AtEnd(logical)
  BY <1>0, LogicalFacts, LogicalEnd
<1>3. LinesRead(m, logical.lines) = Body(m, s) \o End(m)
  <2>1. LinesRead(m, LogicalLines(s).lines) = Read(m, Pieces(s, Used(s))) \o End(m)
    BY <1>0, LogicalRead
  <2>2. Read(m, Pieces(s, Used(s))) = Body(m, s)
    BY TidyPieces
  <2> QED
    BY <2>1, <2>2
<1> HIDE DEF logical, told
<1>s. seam = Realign(logical, told, n)
  OBVIOUS
<1> HIDE DEF seam
<1>4. Aligned(told, n, seam) /\ Realigned(m, logical, seam)
  BY <1>1, <1>2, <1>s, RealignFacts, RealignRead
<1>5. /\ Lined(seam.logical) /\ seam.out \in Seq(Gone) /\ seam.head \in Nat /\ AtEnd(seam.logical)
      /\ GoneRead(m, seam.out) \o LinesRead(m, seam.logical.lines) = Body(m, s) \o End(m)
  BY <1>2, <1>3, <1>4 DEF Aligned, Realigned
<1>6. /\ grid \in Seq(Width(n)) /\ RowsRead(m, grid) = LinesRead(m, seam.logical.lines)
  BY <1>5, RelaidType, RelaidRead DEF Lined
<1>7. result.s = kept.s /\ result.out = seam.out \o kept.out
  <2> DEFINE joined == seam.out \o kept.out
  <2>1. result = [kept EXCEPT !.out = joined]
    BY <1>s DEF Reflow, Rewrap, logical, told
  <2>2. kept \in [s : {kept.s}, out : {kept.out}]
    BY DEF Fit
  <2> HIDE DEF kept, result, joined
  <2>3. result.s = kept.s /\ result.out = joined
    BY <2>1, <2>2
  <2> QED
    BY <2>3 DEF joined
<1>8. kept = Fit(s, h, n, grid, c, seam.head)
  OBVIOUS
<1> DEFINE X == GoneRead(m, seam.out)
           Y == GoneRead(m, kept.out)
           B == Body(m, s)
           V == Body(m, kept.s)
           E == End(m)
<1>9. B \in Ink /\ E \in Ink /\ X \in Ink
  <2>1. << >> \in Seq(Gone) /\ << >> \in Seq(Text) /\ << >> \in Text
    BY DEF Text
  <2> QED
    BY <1>0, <1>5, <2>1, BodyFacts, GoneReadJoin, LinesReadSnoc
<1>r. SUFFICES Resized(m, n, s, result)
  OBVIOUS
<1> HIDE DEF kept, result, c
<1>10. CASE seam.logical.lines # << >>
  <2>1. Landed(n, grid, c)
    BY <1>5, <1>10, LandingEnd DEF c
  <2> HIDE DEF grid
  <2>2. /\ Tidy(n, kept.s) /\ kept.out \in Seq(Gone)
        /\ Y \o (V \o E) = RowsRead(m, grid)
    <3> DEFINE k == seam.head
    <3>1. grid \in Seq(Width(n)) /\ k \in Nat /\ Whole(b, s) /\ s.autowrap
      BY <1>0, <1>5, <1>6
    <3>2. kept = Fit(s, h, n, grid, c, k)
      BY <1>8
    <3> HIDE DEF k
    <3>3. ASSUME NEW f, f = Fit(s, h, n, grid, c, k)
          PROVE  FitReads(m, n, grid, f)
      BY <2>1, <3>1, <3>3, FitTidy
    <3> QED
      BY <3>2, <3>3 DEF FitReads
  <2>3. V \in Ink /\ Y \in Ink
    BY <2>2, BodyFacts, GoneReadJoin DEF Tidy
  <2>4. result.out \in Seq(Gone) /\ GoneRead(m, result.out) = X \o Y
    BY <1>5, <1>7, <2>2, GoneReadJoin, Joined
  <2>5. X \o (Y \o (V \o E)) = B \o E
    BY <1>5, <1>6, <2>2
  <2> HIDE DEF X, Y, V, B
  <2>6. X \o (Y \o (V \o E)) = (X \o Y) \o (V \o E) /\ X \o Y \in Ink
    <3>1. V \o E \in Ink /\ X \o Y \in Ink
      BY <1>9, <2>3, InkFacts
    <3> HIDE DEF E
    <3> DEFINE w == V \o E
    <3>2. w \in Ink
      BY <3>1
    <3> HIDE DEF w
    <3>3. X \o (Y \o w) = (X \o Y) \o w
      <4>1. Associates(X, Y, w)
        BY <1>9, <2>3, <3>2, InkAssoc
      <4> QED
        BY <4>1 DEF Associates
    <3> QED
      BY <3>1, <3>3 DEF w
  <2> DEFINE q == X \o Y
  <2>7. q \in Ink /\ q \o (V \o End(m)) = B \o End(m)
    BY <2>5, <2>6
  <2>8. q \o V = B
    <3> HIDE DEF q, E
    <3>1. V \in Ink /\ B \in Ink
      BY <1>9, <2>3
    <3> QED
      BY ONLY m \in Int, <2>7, <3>1, EndCancel
  <2> QED
    BY <1>7, <2>2, <2>4, <2>8 DEF Resized, V, B
<1>11. CASE seam.logical.lines = << >>
  <2>1. c = [row |-> 1, col |-> 0, pend |-> FALSE]
    BY <1>11 DEF c, Landing
  <2>2. grid = << >>
    <3>1. << >> \in Seq(Text) /\ << >> \in Text
      BY DEF Text
    <3> QED
      BY <1>11, <3>1, RelaidSnoc
  <2>3. Tidy(n, kept.s) /\ kept.out = << >> /\ V = << >>
    <3> HIDE DEF grid
    <3>1. kept = Fit(s, h, n, << >>, c, seam.head)
      BY <1>8, <2>2
    <3> QED
      BY <1>0, <1>5, <2>1, <3>1, FitNone
  <2>4. result.out = seam.out
    BY <1>5, <1>7, <2>3
  <2>5. X \o << >> = B \o E
    <3>1. LinesRead(m, << >>) = << >>
      <4>1. << >> \in Seq(Text) /\ << >> \in Text
        BY DEF Text
      <4> QED
        BY <4>1, LinesReadSnoc
    <3> QED
      BY <1>5, <1>11, <3>1
  <2> QED
    BY <1>5, <1>7, <2>3, <2>4, <2>5 DEF Resized
<1> QED
  BY <1>10, <1>11

\* A resize of a tidy screen, whichever way it is taken (Screen::resize).
LEMMA ResizeTidy ==
  ASSUME NEW m \in Int, NEW n, NEW s, Tidy(n, s), NEW h \in Positive, NEW w \in Positive
  PROVE  Resized(m, w, s, ResizeScreen(s, h, w))
<1>1. FullRegion(s) /\ s.cols = n
  BY DEF Tidy, FullRegion, Height, Whole, Screens
<1>2. CASE w = n
  <2>1. ResizeScreen(s, h, w) = ClampTo(s, h, n)
    BY <1>1, <1>2 DEF ResizeScreen
  <2> DEFINE f == ClampTo(s, h, n)
  <2>2. /\ Tidy(n, f.s) /\ f.out \in Seq(Gone)
        /\ GoneRead(m, f.out) \o Body(m, f.s) = Body(m, s)
    BY ClampTidy
  <2> HIDE DEF f
  <2> QED
    BY <1>2, <2>1, <2>2 DEF Resized, f
<1>3. CASE w # n
  <2>1. ResizeScreen(s, h, w) = Reflow(s, h, w)
    BY <1>1, <1>3 DEF ResizeScreen
  <2> QED
    BY <2>1, ReflowTidy
<1> QED
  BY <1>2, <1>3

-----------------------------------------------------------------------------
(* The transcript *)

\* All there is to read: the buffer, what is on its way to it, and the screen.
Sunk(m) == OpenRead(m, lines) \o Read(m, InFlight)
Stream(m) == (Sunk(m) \o GoneRead(m, pending)) \o Body(m, screen)

\* The invariant of a child that only prints: the seam's, and nothing below the cursor.
KeptInv == Printing => PrintingInv /\ Tidy(screen.cols, screen)

\* What is still to be sent, as it would be joined, is what has left the screen.
LEMMA BacklogOnto ==
  ASSUME pending \in Seq(Gone)
  PROVE  Backlog \in Seq(Sent) /\ Backlog = Onto(TRUE, pending)
<1>1. ASSUME NEW join \in BOOLEAN, join = TRUE
      PROVE  /\ Onto(join, pending) \in Seq(Sent) /\ Len(Onto(join, pending)) = Len(pending)
             /\ \A i \in 1..Len(pending) :
                  Onto(join, pending)[i] = [text |-> pending[i].text, newline |-> ~pending[i].wrapped]
  <2>1. /\ Onto(join, pending) \in Seq(Sent) /\ Len(Onto(join, pending)) = Len(pending)
        /\ \A i \in 1..Len(pending) : Onto(join, pending)[i] = SentAs(join, pending[i])
    BY OntoAt
  <2>2. ASSUME NEW i \in 1..Len(pending)
        PROVE  SentAs(join, pending[i]) = [text |-> pending[i].text, newline |-> ~pending[i].wrapped]
    <3>1. (~(join /\ pending[i].wrapped)) = (~pending[i].wrapped)
      BY <1>1
    <3> QED
      BY <3>1 DEF SentAs
  <2> QED
    BY <2>1, <2>2
<1>2. /\ Onto(TRUE, pending) \in Seq(Sent) /\ Len(Onto(TRUE, pending)) = Len(pending)
      /\ \A i \in 1..Len(pending) :
           Onto(TRUE, pending)[i] = [text |-> pending[i].text, newline |-> ~pending[i].wrapped]
  BY <1>1
<1>3. DOMAIN Backlog = 1..Len(pending)
      /\ \A i \in 1..Len(pending) :
           Backlog[i] = [text |-> pending[i].text, newline |-> ~pending[i].wrapped]
  BY DEF Backlog
<1>4. \A i \in 1..Len(pending) :
        [text |-> pending[i].text, newline |-> ~pending[i].wrapped] \in Sent
  <2> SUFFICES ASSUME NEW i \in 1..Len(pending)
               PROVE  [text |-> pending[i].text, newline |-> ~pending[i].wrapped] \in Sent
    OBVIOUS
  <2>1. pending[i].text \in Text
    <3>1. pending[i] \in Gone
      OBVIOUS
    <3> QED
      BY <3>1 DEF Gone
  <2>2. (~pending[i].wrapped) \in BOOLEAN
    OBVIOUS
  <2> QED
    BY <2>1, <2>2 DEF Sent
<1>5. Backlog \in Seq(Sent) /\ Len(Backlog) = Len(pending)
  <2>1. Backlog = [i \in 1..Len(pending) |-> [text |-> pending[i].text, newline |-> ~pending[i].wrapped]]
    BY DEF Backlog
  <2> QED
    BY <1>4, <2>1
<1>6. Backlog = Onto(TRUE, pending)
  <2> DEFINE o == Onto(TRUE, pending)
             b == Backlog
  <2>1. /\ o \in Seq(Sent) /\ b \in Seq(Sent) /\ Len(o) = Len(b)
        /\ \A i \in 1..Len(b) : b[i] = o[i]
    BY <1>2, <1>3, <1>5
  <2> HIDE DEF o, b
  <2>2. b = o
    BY <2>1, SameSeq
  <2> QED
    BY <2>2 DEF o, b
<1> QED
  BY <1>5, <1>6

\* What is read has the parts it has.
LEMMA StreamParts ==
  ASSUME PrintingInv, Tidy(screen.cols, screen), NEW m \in Int
  PROVE  /\ OpenRead(m, lines) \in Ink /\ Read(m, InFlight) \in Ink /\ Sunk(m) \in Ink
         /\ GoneRead(m, pending) \in Ink /\ Body(m, screen) \in Ink
         /\ Sunk(m) \o GoneRead(m, pending) \in Ink /\ Stream(m) \in Ink /\ End(m) \in Ink
<1>1. lines \in Buffers /\ InFlight \in Seq(Sent) /\ pending \in Seq(Gone) /\ Whole(screen.cols, screen)
  BY BufferedType DEF PrintingInv, Plain, Tidy
<1>2. OpenRead(m, lines) \in Ink
  BY <1>1, OpenFacts
<1>3. Read(m, InFlight) \in Ink
  <2>1. << >> \in Seq(Sent)
    OBVIOUS
  <2> QED
    BY <1>1, <2>1, ReadJoin
<1>4. GoneRead(m, pending) \in Ink
  <2>1. << >> \in Seq(Gone)
    OBVIOUS
  <2> QED
    BY <1>1, <2>1, GoneReadJoin
<1>5. Body(m, screen) \in Ink
  BY <1>1, BodyFacts
<1>6. \A x, y \in Ink : x \o y \in Ink
  BY InkFacts
<1>7. Sunk(m) \in Ink
  BY <1>2, <1>3, <1>6 DEF Sunk
<1>8. Sunk(m) \o GoneRead(m, pending) \in Ink
  BY <1>4, <1>6, <1>7
<1>9. Stream(m) \in Ink
  BY <1>5, <1>6, <1>8 DEF Stream
<1>10. End(m) \in Ink
  <2>1. << >> \in Seq(Text) /\ << >> \in Text
    BY DEF Text
  <2> QED
    BY <2>1, LinesReadSnoc
<1> QED
  BY <1>2, <1>3, <1>4, <1>5, <1>7, <1>8, <1>9, <1>10

\* The lines the user is given are those that are read.
LEMMA ToldStream ==
  ASSUME Printing, PrintingInv, Tidy(screen.cols, screen), NEW m, m = Mark(rejoin)
  PROVE  Told = LinesOf(Stream(m))
<1>1. rejoin \in BOOLEAN /\ lines \in Buffers /\ pending \in Seq(Gone) /\ InFlight \in Seq(Sent)
  BY BufferedType DEF PrintingInv, Plain
<1>2. m \in Int
  BY <1>1, MarkFacts
<1>3. /\ OpenRead(m, lines) \in Ink /\ Read(m, InFlight) \in Ink /\ Sunk(m) \in Ink
      /\ GoneRead(m, pending) \in Ink /\ Body(m, screen) \in Ink
      /\ Sunk(m) \o GoneRead(m, pending) \in Ink
  BY <1>2, StreamParts
<1>4. Above = LinesOf(OpenRead(m, lines))
  BY <1>1, AboveTold DEF Above
<1>5. ASSUME NEW rows PROVE Stripped(rows) = Strip(rejoin, rows)
  BY DEF Stripped, Strip
<1>6. ASSUME NEW ink \in Ink, NEW rows \in Seq(Sent)
      PROVE  AppendTo(LinesOf(ink), Stripped(rows)) = LinesOf(ink \o Read(m, rows))
  BY <1>1, <1>5, TellRows
<1>7. AppendTo(Above, Stripped(InFlight)) = LinesOf(Sunk(m))
  BY <1>1, <1>3, <1>4, <1>6 DEF Sunk
<1>8. Backlog \in Seq(Sent) /\ Read(m, Backlog) = GoneRead(m, pending)
  BY <1>1, BacklogOnto DEF GoneRead
<1>9. AppendTo(LinesOf(Sunk(m)), Stripped(Backlog)) = LinesOf(Sunk(m) \o GoneRead(m, pending))
  BY <1>3, <1>6, <1>8
<1>10. /\ Pieces(screen, Used(screen)) \in Seq(Sent)
       /\ Read(m, Pieces(screen, Used(screen))) = Body(m, screen)
  BY <1>2, TidyPieces
<1> DEFINE x == Sunk(m) \o GoneRead(m, pending)
           p == Pieces(screen, Used(screen))
<1>11. AppendTo(LinesOf(x), Stripped(p)) = LinesOf(x \o Body(m, screen))
  <2>1. x \in Ink /\ p \in Seq(Sent) /\ Read(m, p) = Body(m, screen)
    BY <1>3, <1>10
  <2> HIDE DEF x, p
  <2> QED
    BY <1>6, <2>1
<1>12. Told = AppendTo(AppendTo(AppendTo(Above, Stripped(InFlight)), Stripped(Backlog)), Stripped(p))
  BY DEF Told
<1> QED
  BY <1>7, <1>9, <1>11, <1>12 DEF Stream

\* The same, as a fact of any state.
LEMMA ToldRead ==
  Printing /\ PrintingInv /\ Tidy(screen.cols, screen) => Told = LinesOf(Stream(Mark(rejoin)))
BY ToldStream

\* The abstract steps, on lines that are read: a character goes on the last, or it ends.
LEMMA PutRead ==
  ASSUME NEW x \in Ink, NEW ch \in 1..MaxText
  PROVE  LinesOf(x \o << ch >>) \in T!Put(LinesOf(x))
<1>1. PICK w \in Seq(Ink), e \in Ink : LinesOf(x) = Append(w, e)
  BY LinesShape
<1>2. << ch >> \in Text
  BY DEF Text
<1>3. LinesOf(x \o << ch >>) = Append(w, e \o << ch >>)
  BY <1>1, <1>2, LinesGrow
<1>4. ASSUME NEW b, b = Append(w, e)
      PROVE  [b EXCEPT ![Len(b)] = Append(@, ch)] = Append(w, Append(e, ch))
  <2>1. /\ b \in Seq(Ink) /\ Len(b) = Len(w) + 1 /\ Len(w) \in Nat /\ b[Len(w) + 1] = e
        /\ \A i \in 1..Len(w) : b[i] = w[i]
    BY <1>4
  <2>2. Append(e, ch) \in Ink
    BY DEF Ink
  <2> DEFINE a == Append(e, ch)
             p == [b EXCEPT ![Len(w) + 1] = a]
             q == Append(w, a)
  <2>3. a \in Ink
    BY <2>2
  <2> HIDE DEF a
  <2>4. /\ q \in Seq(Ink) /\ Len(q) = Len(w) + 1 /\ q[Len(w) + 1] = a
        /\ \A i \in 1..Len(w) : q[i] = w[i]
    BY <2>3
  <2>5. /\ p \in Seq(Ink) /\ Len(p) = Len(w) + 1 /\ p[Len(w) + 1] = a
        /\ \A i \in 1..Len(w) : p[i] = b[i]
    BY <2>1, <2>3
  <2> HIDE DEF p, q
  <2>6. \A i \in 1..Len(p) : p[i] = q[i]
    BY <2>1, <2>4, <2>5
  <2>7. p = q
    BY <2>4, <2>5, <2>6, SameSeq
  <2>8. [b EXCEPT ![Len(b)] = Append(@, ch)] = p
    BY <2>1 DEF p, a
  <2> QED
    BY <2>7, <2>8 DEF q, a
<1>5. e \o << ch >> = Append(e, ch)
  BY DEF Ink
<1> DEFINE b == LinesOf(x)
<1>6. [b EXCEPT ![Len(b)] = Append(@, ch)] = LinesOf(x \o << ch >>)
  BY <1>1, <1>3, <1>4, <1>5
<1> HIDE DEF b
<1>7. LinesOf(x \o << ch >>) \in T!Put(b)
  BY <1>6 DEF T!Put
<1> QED
  BY <1>7 DEF b

LEMMA BreakRead ==
  ASSUME NEW x \in Ink
  PROVE  LinesOf(x \o << EndMark >>) \in T!Break(LinesOf(x))
<1>1. PICK w \in Seq(Ink), e \in Ink : LinesOf(x) = Append(w, e)
  BY LinesShape
<1>2. LinesOf(x \o << EndMark >>) = Append(Append(w, e), << >>)
  BY <1>1, LinesGrow
<1> QED
  BY <1>1, <1>2 DEF T!Break

\* An abstract step, or none.
Steps(b, c) == c = b \/ c \in T!Put(b) \cup T!Break(b)

\* What printing may add to what is read: nothing, a character, or the end of a line.
Added(m, z) ==
  z = << >> \/ z = End(m) \/ \E ch \in 1..MaxText : z = << ch >>

LEMMA AddedSteps ==
  ASSUME NEW join \in BOOLEAN, NEW x \in Ink, NEW z, Added(Mark(join), z)
  PROVE  Steps(LinesOf(x), LinesOf(x \o z))
<1>1. CASE z = << >>
  BY <1>1, InkFacts DEF Steps
<1>2. CASE z = End(Mark(join))
  <2>1. CASE join
    BY <1>2, <2>1, MarkFacts, BreakRead DEF Steps
  <2>2. CASE ~join
    <3>1. z = << >>
      BY <1>2, <2>2, MarkFacts
    <3> QED
      BY <3>1, InkFacts DEF Steps
  <2> QED
    BY <2>1, <2>2
<1>3. ASSUME NEW ch \in 1..MaxText, z = << ch >> PROVE Steps(LinesOf(x), LinesOf(x \o z))
  BY <1>3, PutRead DEF Steps
<1> QED
  BY <1>1, <1>2, <1>3 DEF Added

\* Told follows what is read.
LEMMA ToldSteps ==
  ASSUME Printing, Printing', KeptInv, KeptInv', rejoin' = rejoin,
         NEW m, m = Mark(rejoin), NEW z, Added(m, z), Stream(m)' = Stream(m) \o z
  PROVE  Steps(Told, Told')
<1>0. PrintingInv /\ PrintingInv' /\ Tidy(screen.cols, screen) /\ Tidy(screen'.cols, screen')
      /\ rejoin \in BOOLEAN
  BY DEF KeptInv, PrintingInv, Plain
<1>1. m \in Int
  BY <1>0, MarkFacts
<1>2. Told = LinesOf(Stream(m)) /\ Stream(m) \in Ink
  BY <1>0, <1>1, ToldStream, StreamParts
<1>3. Told' = LinesOf(Stream(m)')
  <2>1. (Printing /\ PrintingInv /\ Tidy(screen.cols, screen) => Told = LinesOf(Stream(Mark(rejoin))))'
    BY ToldRead, PTL
  <2>2. Told' = LinesOf(Stream(Mark(rejoin))')
    BY <1>0, <2>1
  <2>3. Stream(Mark(rejoin))' = Stream(m)'
    BY DEF Stream, Sunk
  <2> QED
    BY <2>2, <2>3
<1> QED
  BY <1>0, <1>2, <1>3, AddedSteps

\* A tidy screen is as wide as it is.
LEMMA TidyCols ==
  ASSUME NEW n, NEW s, Tidy(n, s)
  PROVE  s.cols = n
BY DEF Tidy, Whole, Screens

\* A step after which the screen is tidy, and that adds to what is read what printing may.
Follows(m) ==
  /\ Tidy(screen'.cols, screen')
  /\ \E z : Added(m, z) /\ Stream(m)' = Stream(m) \o z

\* A change to the screen that adds something to its text adds it to what is read.
LEMMA ShowFollows ==
  ASSUME PrintingInv, Tidy(screen.cols, screen), NEW m \in Int, NEW f, Show(f), UNCHANGED lispVars,
         NEW n, Tidy(n, f.s), f.out \in Seq(Gone), NEW z \in Ink, Added(m, z),
         GoneRead(m, f.out) \o Body(m, f.s) = Body(m, screen) \o z
  PROVE  Follows(m)
<1>0. /\ delta' = delta /\ lines' = lines /\ screen' = f.s /\ pending' = pending \o f.out
      /\ pending \in Seq(Gone)
  BY DEF lispVars, Show, PrintingInv, Plain
<1> DEFINE K == Sunk(m)
           P == GoneRead(m, pending)
           O == GoneRead(m, f.out)
           B == Body(m, screen)
           V == Body(m, f.s)
<1>1. K \in Ink /\ P \in Ink /\ B \in Ink
  BY StreamParts
<1>2. V \in Ink /\ O \in Ink
  BY BodyFacts, GoneReadJoin DEF Tidy
<1>3. GoneRead(m, pending') = P \o O
  BY <1>0, GoneReadJoin
<1>4. Sunk(m)' = K
  BY <1>0 DEF Sunk, InFlight
<1>5. Stream(m)' = (K \o (P \o O)) \o V /\ Stream(m) = (K \o P) \o B
  <2> HIDE DEF K, P, O, B, V
  <2> USE DEF B, V, P
  <2> QED
    BY <1>0, <1>3, <1>4 DEF Stream, K
<1>6. O \o V = B \o z
  OBVIOUS
<1> HIDE DEF K, P, O, B, V
<1>7. ASSUME NEW x \in Ink, NEW y \in Ink, NEW v \in Ink PROVE (x \o y) \o v = x \o (y \o v)
  BY InkFacts
<1>8. (K \o (P \o O)) \o V = ((K \o P) \o B) \o z
  <2>1. P \o O \in Ink /\ K \o P \in Ink
    BY <1>1, <1>2, InkFacts
  <2>2. K \o (P \o O) = (K \o P) \o O
    <3>1. Associates(K, P, O)
      BY ONLY <1>1, <1>2, InkAssoc, Zenon
    <3> QED
      BY ONLY <3>1 DEF Associates
  <2> DEFINE Q == K \o P
  <2>3. Q \in Ink
    BY <2>1
  <2> HIDE DEF Q
  <2>4. (Q \o O) \o V = Q \o (O \o V)
    BY <1>1, <1>2, <1>7, <2>3
  <2>5. (Q \o B) \o z = Q \o (B \o z)
    BY <1>1, <1>7, <2>3
  <2> QED
    BY <1>6, <2>2, <2>4, <2>5 DEF Q
<1>9. Tidy(screen'.cols, screen')
  <2>1. Tidy(n, f.s) /\ f.s.cols = n
    BY TidyCols
  <2> QED
    BY <1>0, <2>1
<1>10. Stream(m)' = Stream(m) \o z
  BY <1>5, <1>8
<1> QED
  BY <1>9, <1>10 DEF Follows

\* A character, a new line and a resize (Screen::place, Screen::line_feed, Screen::resize).
LEMMA FedFollows ==
  ASSUME PrintingInv, Tidy(screen.cols, screen), NEW m \in Int, PrintChar \/ Newline \/ Resize
  PROVE  Follows(m)
<1> DEFINE n == screen.cols
<1>0. /\ Tidy(n, screen) /\ session \in Sessions /\ typed \in Nat
      /\ session.text \in 0..MaxText
  BY SessionsAssumption DEF PrintingInv, Plain
<1>1. /\ << >> \in Ink /\ End(m) \in Ink /\ Body(m, screen) \in Ink
  BY InkFacts, StreamParts
<1> HIDE DEF n
<1>2. CASE PrintChar
  <2>1. PICK ch \in {typed + 1} \cup {Blank} : Feed("print", Place(screen, ch))
    BY <1>2 DEF PrintChar
  <2>2. ch \in Nat
    BY <1>0, <2>1 DEF Blank
  <2> DEFINE f == Place(screen, ch)
             z == Bare(<< ch >>)
  <2>p. f = Place(screen, ch)
    OBVIOUS
  <2> HIDE DEF f
  <2>3. /\ Tidy(n, f.s) /\ f.out \in Seq(Gone)
        /\ GoneRead(m, f.out) \o Body(m, f.s) = Body(m, screen) \o z
    <3>1. Adds(m, n, screen, Bare(<< ch >>), f)
      BY <1>0, <2>2, <2>p, PlaceTidy
    <3> QED
      BY <3>1 DEF Adds
  <2>4. Show(f) /\ UNCHANGED lispVars
    BY <2>1, <2>p DEF Feed
  <2>5. z \in Ink /\ Added(m, z)
    <3>1. << ch >> = Append(<< >>, ch) /\ << >> \in Ink /\ ch \in Int
      BY <2>2, InkFacts
    <3>2. Bare(<< ch >>) = IF ch = Blank THEN << >> ELSE Append(<< >>, ch)
      BY <3>1, BareSnoc
    <3>3. CASE ch = Blank
      BY <1>1, <3>2, <3>3 DEF Added
    <3>4. CASE ch # Blank
      <4>1. ch = typed + 1
        BY <2>1, <3>4
      <4>2. typed < session.text
        BY <1>2 DEF PrintChar
      <4>3. ch \in 1..MaxText
        <5>1. ASSUME NEW t \in 0..MaxText, typed < t PROVE typed + 1 \in 1..MaxText
          BY <1>0, <5>1, MaxTextAssumption
        <5> QED
          BY <1>0, <4>1, <4>2, <5>1
      <4>4. z = << ch >>
        BY <3>1, <3>2, <3>4
      <4>5. << ch >> \in Ink
        BY <2>2 DEF Ink
      <4> HIDE DEF z
      <4> QED
        BY <4>3, <4>4, <4>5 DEF Added
    <3> QED
      BY <3>3, <3>4
  <2> HIDE DEF z
  <2> QED
    BY <2>3, <2>4, <2>5, ShowFollows
<1>3. CASE Newline
  <2> DEFINE f == LineFeed(Goto(screen, screen.row, 0))
  <2>1. /\ Tidy(n, f.s) /\ f.out \in Seq(Gone)
        /\ GoneRead(m, f.out) \o Body(m, f.s) = Body(m, screen) \o End(m)
    BY <1>0, NewlineTidy
  <2>2. Show(f) /\ UNCHANGED lispVars
    BY <1>3 DEF Newline, Feed
  <2>3. Added(m, End(m))
    BY DEF Added
  <2> HIDE DEF f
  <2> QED
    BY <1>1, <2>1, <2>2, <2>3, ShowFollows
<1>4. CASE Resize
  <2>1. PICK size \in Sizes : Show(ResizeScreen(screen, size[1], size[2]))
    BY <1>4 DEF Resize
  <2>2. size[1] \in Positive /\ size[2] \in Positive
    BY <1>0, <2>1, SizesPositive
  <2> DEFINE f == ResizeScreen(screen, size[1], size[2])
             w == size[2]
  <2>3. Resized(m, w, screen, f)
    BY <1>0, <2>2, ResizeTidy
  <2>4. Show(f) /\ UNCHANGED lispVars
    BY <1>4, <2>1 DEF Resize
  <2> HIDE DEF f, w
  <2>5. Tidy(w, f.s) /\ f.out \in Seq(Gone)
    BY <2>3 DEF Resized
  <2>6. CASE GoneRead(m, f.out) \o Body(m, f.s) = Body(m, screen)
    <3>1. GoneRead(m, f.out) \o Body(m, f.s) = Body(m, screen) \o << >> /\ Added(m, << >>)
      BY <1>1, <2>6, InkFacts DEF Added
    <3> QED
      BY <1>1, <2>4, <2>5, <3>1, ShowFollows
  <2>7. CASE GoneRead(m, f.out) \o Body(m, f.s) = Body(m, screen) \o End(m)
    <3>1. Added(m, End(m))
      BY DEF Added
    <3> QED
      BY <1>1, <2>4, <2>5, <2>7, <3>1, ShowFollows
  <2> QED
    BY <2>3, <2>6, <2>7 DEF Resized
<1> QED
  BY <1>2, <1>3, <1>4

-----------------------------------------------------------------------------
(* Updates, and the transcript *)

\* Departed rows read the same however they are sent, the marks told apart or not
\* (lib.rs scrolled_rows).
LEMMA SentRead ==
  ASSUME NEW join \in BOOLEAN, NEW m, m = Mark(join), NEW x \in Seq(Gone)
  PROVE  Read(m, Onto(join, x)) = GoneRead(m, x)
<1>1. CASE join
  <2>1. ASSUME NEW i \in 1..Len(x) PROVE SentAs(join, x[i]) = SentAs(TRUE, x[i])
    BY <1>1 DEF SentAs
  <2>2. Onto(join, x) = Onto(TRUE, x)
    BY <1>1, <2>1 DEF Onto
  <2> QED
    BY <2>2 DEF GoneRead
<1>2. CASE ~join
  <2>1. m \in Int /\ End(m) = << >>
    BY <1>2, MarkFacts
  <2> DEFINE Good == {z \in Seq(Gone) : Read(m, Onto(join, z)) = Read(m, Onto(TRUE, z))}
  <2>2. << >> \in Good
    <3>1. \A j \in BOOLEAN : Onto(j, << >>) = << >>
      BY OntoFacts
    <3>2. << >> \in Seq(Gone)
      OBVIOUS
    <3> QED
      BY <3>1, <3>2
  <2>3. ASSUME NEW z \in Good, NEW d \in Gone PROVE Append(z, d) \in Good
    <3>1. z \in Seq(Gone) /\ Append(z, d) \in Seq(Gone) /\ Read(m, Onto(join, z)) = Read(m, Onto(TRUE, z))
      OBVIOUS
    <3>2. ASSUME NEW j \in BOOLEAN
          PROVE  Read(m, Onto(j, Append(z, d))) = Read(m, Onto(j, z)) \o Bare(d.text)
      <4>1. Onto(j, z) \in Seq(Sent) /\ SentAs(j, d) \in Sent /\ SentAs(j, d).text = d.text
        BY <3>1, OntoFacts, SentType
      <4>2. Onto(j, Append(z, d)) = Append(Onto(j, z), SentAs(j, d))
        BY <3>1, OntoFacts
      <4>3. Read(m, Append(Onto(j, z), SentAs(j, d))) = Read(m, Onto(j, z)) \o Glyphs(m, SentAs(j, d))
        BY <2>1, <4>1, ReadSnoc
      <4>4. Bare(d.text) \in Ink
        BY <2>1, <4>1, GlyphFacts
      <4>5. Glyphs(m, SentAs(j, d)) = Bare(d.text)
        BY <2>1, <4>1, <4>4, GlyphFacts, InkFacts
      <4> QED
        BY <4>2, <4>3, <4>5
    <3>3. Read(m, Onto(join, Append(z, d))) = Read(m, Onto(TRUE, Append(z, d)))
      BY <3>1, <3>2
    <3> QED
      BY <3>1, <3>3
  <2>i. Good \in SUBSET Seq(Gone)
    OBVIOUS
  <2> HIDE DEF Good
  <2>4. Good = Seq(Gone)
    BY <2>2, <2>3, <2>i, SnocInduction
  <2> QED
    BY <2>4 DEF Good, GoneRead
<1> QED
  BY <1>1, <1>2

\* Where there are no rows there is nothing to read.
LEMMA ReadNone ==
  ASSUME NEW m \in Int
  PROVE  Read(m, << >>) = << >> /\ GoneRead(m, << >>) = << >>
<1>1. << >> \in Seq(Gone)
  OBVIOUS
<1>2. GoneRead(m, << >>) = << >>
  BY <1>1, GoneReadJoin
<1>3. Onto(TRUE, << >>) = << >>
  BY OntoFacts
<1>4. GoneRead(m, << >>) = Read(m, Onto(TRUE, << >>))
  BY DEF GoneRead
<1> QED
  BY <1>2, <1>3, <1>4

\* An update that is taken moves the backlog into it (State::drain).
LEMMA DrainFollows ==
  ASSUME PrintingInv, Tidy(screen.cols, screen), NEW m, m = Mark(rejoin), Drain
  PROVE  Follows(m)
<1> DEFINE sent == Onto(rejoin, pending)
<1>0. /\ Idle /\ pending' = << >> /\ screen' = screen /\ lines' = lines
  BY DEF Drain
<1>1. /\ rejoin \in BOOLEAN /\ alt = FALSE /\ pending \in Seq(Gone)
  BY DEF PrintingInv, Plain
<1>2. m \in Int
  BY <1>1, MarkFacts
<1>3. InFlight' = sent
  <2>1. delta' = [scrolled |-> sent, head |-> HeadOf(screen), row |-> screen.row,
                  alt |-> FALSE, erase |-> erase]
    <3>1. delta' = Drained(screen, pending, erase)
      BY DEF Drain
    <3>2. [i \in DOMAIN pending |->
             [text |-> pending[i].text,
              newline |-> ~(rejoin /\ pending[i].wrapped /\ ~(i = Len(pending) /\ alt))]] = sent
      <4>1. ASSUME NEW i PROVE (~(rejoin /\ pending[i].wrapped /\ ~(i = Len(pending) /\ alt)))
                               = (~(rejoin /\ pending[i].wrapped))
        BY <1>1
      <4> QED
        BY <4>1 DEF Onto, SentAs
    <3> HIDE DEF sent
    <3> QED
      BY <1>1, <3>1, <3>2 DEF Drained
  <2> HIDE DEF sent
  <2>2. delta' # << >> /\ delta'.scrolled = sent
    BY <2>1, RecordFacts
  <2> QED
    BY <2>2 DEF InFlight
<1>4. Read(m, sent) = GoneRead(m, pending)
  BY <1>1, SentRead
<1>5. InFlight = << >>
  BY <1>0 DEF InFlight, Idle
<1>6. Read(m, << >>) = << >> /\ GoneRead(m, << >>) = << >>
  BY <1>2, ReadNone
<1> HIDE DEF sent
<1> DEFINE K == OpenRead(m, lines)
           P == GoneRead(m, pending)
           B == Body(m, screen)
<1>7. K \in Ink /\ P \in Ink /\ B \in Ink /\ Stream(m) \in Ink
  BY <1>2, StreamParts
<1>8. Sunk(m) = K \o << >> /\ Sunk(m)' = K \o P
  BY <1>0, <1>3, <1>4, <1>5, <1>6 DEF Sunk
<1>9. Stream(m) = (Sunk(m) \o P) \o B /\ Stream(m)' = (Sunk(m)' \o << >>) \o B
  BY <1>0, <1>6 DEF Stream
<1>10. Stream(m)' = Stream(m) \o << >>
  <2> HIDE DEF K, P, B
  <2>1. K \o P \in Ink
    BY <1>7, InkFacts
  <2> QED
    BY <1>7, <1>8, <1>9, <2>1, InkFacts
<1>11. Added(m, << >>) /\ Tidy(screen'.cols, screen')
  BY <1>0 DEF Added
<1> QED
  BY <1>10, <1>11 DEF Follows

\* An update that is applied moves from its way to the buffer into it (cooked--apply).
LEMMA ApplyFollows ==
  ASSUME PrintingInv, Tidy(screen.cols, screen), NEW m, m = Mark(rejoin), Apply, Cap = 0
  PROVE  Follows(m)
<1> DEFINE full == AppendTo(lines, delta.scrolled)
<1>1. /\ rejoin \in BOOLEAN /\ erase = FALSE /\ narrowed = FALSE /\ lines \in Buffers
      /\ ~Idle /\ delta.alt = FALSE /\ delta.erase = FALSE /\ delta.scrolled \in Seq(Sent)
  BY DEF PrintingInv, Plain, Apply
<1>2. m \in Int
  BY <1>1, MarkFacts
<1>3. Overgrown(full) = FALSE
  BY DEF Overgrown
<1>4. \E c : lines' = full /\ screen' = [screen EXCEPT !.carried = c]
  <2> HIDE DEF full
  <2>1. full = AppendTo(lines, delta.scrolled)
    BY DEF full
  <2> QED
    BY <1>1, <1>3, <2>1 DEF Apply
<1>5. delta' = << >> /\ pending' = pending
  BY DEF Apply
<1>6. InFlight = delta.scrolled /\ InFlight' = << >>
  BY <1>1, <1>5 DEF InFlight, Idle
<1>7. Tidy(screen'.cols, screen') /\ Body(m, screen') = Body(m, screen)
  <2>1. PICK c : screen' = [screen EXCEPT !.carried = c]
    BY <1>4
  <2> DEFINE n == screen.cols
             t == screen'
  <2>2. Whole(n, screen) /\ screen \in Screens(n)
    BY DEF Tidy, Whole
  <2>3. /\ t.rows = screen.rows /\ t.row = screen.row /\ t.col = screen.col /\ t.cols = screen.cols
        /\ (t.pend <=> screen.pend) /\ (t.autowrap <=> screen.autowrap)
    BY <2>1, <2>2 DEF Screens
  <2>4. Whole(t.cols, t)
    <3>1. PrintingInv'
      BY ApplyKeeps
    <3> QED
      BY <3>1 DEF PrintingInv, Plain
  <2> HIDE DEF t
  <2>5. Tidy(n, t)
    BY <2>3, <2>4 DEF Tidy, Below
  <2>6. Body(m, t) = Body(m, screen)
    BY <2>3 DEF Body, Above1
  <2> QED
    BY <2>3, <2>5, <2>6 DEF t
<1>8. OpenRead(m, full) = OpenRead(m, lines) \o Read(m, delta.scrolled)
  BY <1>1, <1>2, OpenAppend
<1>9. Read(m, << >>) = << >>
  BY <1>2, ReadNone
<1>10. Sunk(m) \in Ink /\ Stream(m) \in Ink
  BY <1>2, StreamParts
<1>11. lines' = full
  BY <1>4
<1> HIDE DEF full
<1>12. Sunk(m)' = Sunk(m) \o << >> /\ Sunk(m) = OpenRead(m, lines) \o Read(m, delta.scrolled)
  BY <1>6, <1>8, <1>9, <1>11 DEF Sunk
<1>13. Sunk(m)' = Sunk(m)
  BY <1>10, <1>12, InkFacts
<1>14. Stream(m)' = Stream(m) \o << >>
  <2>1. Stream(m)' = Stream(m)
    BY <1>5, <1>7, <1>13 DEF Stream
  <2> QED
    BY <1>10, <2>1, InkFacts
<1>15. Added(m, << >>)
  BY DEF Added
<1> QED
  BY <1>7, <1>14, <1>15 DEF Follows

\* A new screen is tidy and blank (Term::new).
LEMMA NewTidy ==
  ASSUME NEW h \in Positive, NEW n \in Positive, NEW m \in Int, NEW s, s = NewScreen(h, n)
  PROVE  Tidy(n, s) /\ s.cols = n /\ Body(m, s) = << >>
<1>1. Whole(n, s) /\ s.cols = n
  BY NewWhole
<1>2. h \in Nat /\ n \in Nat /\ h >= 1 /\ n >= 1
  BY DEF Positive
<1> DEFINE rs == [r \in 1..h |-> BlankRow(n)]
<1>3. rs \in Seq(Width(n)) /\ Len(rs) = h /\ rs[1] = BlankRow(n)
  BY <1>2, BlankRows
<1>4. s = [rows |-> rs, cols |-> n, row |-> 1, col |-> 0, pend |-> FALSE,
           top |-> 1, bottom |-> h, carried |-> 0, autowrap |-> TRUE]
  BY DEF NewScreen
<1>5. \A r \in 1..h : rs[r] = BlankRow(n)
  OBVIOUS
<1> HIDE DEF rs
<1>6. s.rows = rs /\ s.row = 1 /\ s.col = 0 /\ ~s.pend /\ s.autowrap
  BY <1>4
<1>7. ~rs[1].wrapped /\ Bare(rs[1].cells) = << >> /\ \A i \in 1..n : rs[1].cells[i] = Blank
  BY <1>2, <1>3, BlankInk DEF BlankRow
<1>8. Tidy(n, s)
  BY <1>1, <1>2, <1>3, <1>5, <1>6, <1>7 DEF Tidy, Below
<1>9. Body(m, s) = << >>
  <2>1. SubSeq(rs, 1, 0) = << >>
    BY <1>3
  <2>2. Above1(s) = << >>
    BY <1>6, <2>1 DEF Above1
  <2>3. << >> \in Seq(Width(n))
    OBVIOUS
  <2>4. RowsRead(m, << >>) = << >>
    BY <1>2, <2>3, RowsReadJoin
  <2> QED
    BY <1>6, <1>7, <2>2, <2>4, InkFacts DEF Body
<1> QED
  BY <1>1, <1>8, <1>9

\* Initially nothing is read, and the transcript is an open line with nothing on it.
LEMMA InitKept == Init => KeptInv /\ T!Init
<1> SUFFICES ASSUME Init PROVE KeptInv /\ T!Init
  OBVIOUS
<1>1. PICK size \in Sizes : screen = NewScreen(size[1], size[2])
  BY DEF Init
<1>2. session \in Sessions /\ rejoin \in BOOLEAN
  BY SessionsAssumption DEF Init
<1>3. size[1] \in Positive /\ size[2] \in Positive
  BY <1>1, <1>2, SizesPositive
<1> DEFINE m == Mark(rejoin)
<1>4. m \in Int
  BY <1>2, MarkFacts
<1>5. Tidy(screen.cols, screen) /\ Body(m, screen) = << >>
  BY <1>1, <1>3, <1>4, NewTidy
<1>6. Printing => PrintingInv
  BY InitSeam DEF SeamInv
<1>7. KeptInv
  BY <1>5, <1>6 DEF KeptInv
<1>8. T!Init
  <2>1. CASE ~Printing
    BY <2>1 DEF T!Init, Told, Emptied
  <2>2. CASE Printing
    <3>1. Told = LinesOf(Stream(m))
      BY <1>4, <1>5, <1>6, <2>2, ToldStream
    <3>2. lines = << << >> >> /\ pending = << >> /\ InFlight = << >>
      BY DEF Init, Emptied, InFlight
    <3>3. Read(m, << >>) = << >> /\ GoneRead(m, << >>) = << >>
      BY <1>4, ReadNone
    <3>4. OpenRead(m, << << >> >>) = << >>
      <4>1. << >> \in Seq(Text) /\ << >> \in Text /\ Append(<< >>, << >>) = << << >> >>
        BY DEF Text
      <4>2. OpenRead(m, Append(<< >>, << >>)) = LinesRead(m, << >>) \o Bare(<< >>)
            /\ LinesRead(m, << >>) = << >>
        BY <1>4, <4>1, LinesReadSnoc
      <4>3. Bare(<< >>) = << >>
        BY <1>4, InkFacts, BareSnoc
      <4> QED
        BY <4>1, <4>2, <4>3, InkFacts
    <3> HIDE DEF m
    <3>5. Stream(m) = << >>
      BY <1>5, <3>2, <3>3, <3>4, InkFacts DEF Stream, Sunk
    <3>6. LinesOf(<< >>) = Emptied
      BY <1>4, InkFacts, LinesSnoc
    <3> QED
      BY <3>1, <3>5, <3>6 DEF T!Init, Emptied
  <2> QED
    BY <2>1, <2>2
<1> QED
  BY <1>7, <1>8

\* Every step of a child that only prints is followed.
LEMMA NextFollows ==
  ASSUME Printing, PrintingInv, Tidy(screen.cols, screen), NEW m, m = Mark(rejoin), [Next]_vars
  PROVE  Follows(m) /\ rejoin' = rejoin
<1>1. rejoin \in BOOLEAN
  BY DEF PrintingInv, Plain
<1>2. m \in Int
  BY <1>1, MarkFacts
<1>3. CASE UNCHANGED vars
  <2>1. screen' = screen /\ pending' = pending /\ lines' = lines /\ delta' = delta /\ rejoin' = rejoin
    BY <1>3 DEF vars, termVars, lispVars
  <2>2. Stream(m)' = Stream(m)
    BY <2>1 DEF Stream, Sunk, InFlight
  <2>3. Stream(m) \in Ink
    BY <1>2, StreamParts
  <2>4. Stream(m)' = Stream(m) \o << >> /\ Added(m, << >>)
    BY <2>2, <2>3, InkFacts DEF Added
  <2>5. Tidy(screen'.cols, screen')
    BY <2>1
  <2> QED
    BY <2>1, <2>4, <2>5 DEF Follows
<1>4. CASE Next
  <2>1. PrintChar \/ Newline \/ Resize \/ Drain \/ Apply
    BY <1>4, OnlyThese DEF Printing
  <2>2. rejoin' = rejoin
    BY <2>1 DEF PrintChar, Newline, Resize, Drain, Apply, Feed, lispVars
  <2>3. Follows(m)
    BY <1>2, <2>1, FedFollows, DrainFollows, ApplyFollows DEF Printing
  <2> QED
    BY <2>2, <2>3
<1> QED
  BY <1>3, <1>4

\* Every step keeps the invariant, and is a step of the transcript or none.
LEMMA NextKept == KeptInv /\ [Next]_vars => KeptInv' /\ [T!Next]_Told
<1> SUFFICES ASSUME KeptInv, [Next]_vars PROVE KeptInv' /\ Steps(Told, Told')
  BY DEF Steps, T!Next
<1>1. Printing' <=> Printing
  BY SameSession DEF Printing, OnlyPrints, Cap
<1>2. CASE ~Printing
  BY <1>1, <1>2 DEF KeptInv, Told, Steps
<1>3. CASE Printing
  <2>1. PrintingInv /\ Tidy(screen.cols, screen) /\ SeamInv
    BY <1>3 DEF KeptInv, SeamInv
  <2>2. PrintingInv'
    BY <1>1, <1>3, <2>1, NextSeam DEF SeamInv
  <2>m. PICK m : m = Mark(rejoin)
    OBVIOUS
  <2>3. Follows(m) /\ rejoin' = rejoin
    BY <1>3, <2>1, <2>m, NextFollows
  <2>4. KeptInv'
    BY <2>2, <2>3 DEF KeptInv, Follows
  <2>5. PICK z : Added(m, z) /\ Stream(m)' = Stream(m) \o z
    BY <2>3 DEF Follows
  <2>6. Steps(Told, Told')
    <3>1. Printing /\ Printing'
      BY <1>1, <1>3
    <3> QED
      BY <2>3, <2>4, <2>5, <2>m, <3>1, ToldSteps
  <2> QED
    BY <2>4, <2>6
<1> QED
  BY <1>2, <1>3

\* A child that only prints has its lines in the buffer and on the screen, in order and
\* once each: whatever it prints and however wide its windows, every step of the seam,
\* resize, eviction and drain, is a character of the transcript, the end of a line of it,
\* or nothing at all.
THEOREM TranscriptImplemented == Spec => TranscriptKept
<1> QED
  BY InitKept, NextKept, PTL DEF Spec, TranscriptKept, T!Spec
=============================================================================
