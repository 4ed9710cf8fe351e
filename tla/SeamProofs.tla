----------------------------- MODULE SeamProofs -----------------------------
(***************************************************************************)
(* That both ends of the seam agree, proved for a child that prints any    *)
(* text in a window of any sizes: however wrapped lines are split, sent,   *)
(* rewrapped and joined again, the line at the seam is as long in the      *)
(* buffer as the emulator says.                                            *)
(*                                                                         *)
(* The invariant follows the line across its four places: the buffer, the  *)
(* update Emacs is applying, the backlog, and the emulator's count of it.  *)
(***************************************************************************)
EXTENDS Seam, WellFoundedInduction, TLAPS

-----------------------------------------------------------------------------
(* Sets and sequences *)

\* A set of naturals that holds 0 and the successor of every member is all of them.
LEMMA SetInduction ==
  ASSUME NEW S \in SUBSET Nat, 0 \in S, \A n \in S : n + 1 \in S
  PROVE  S = Nat
<1> DEFINE Marks == Nat \ S
<1> SUFFICES ASSUME Marks # {} PROVE FALSE
  OBVIOUS
<1>1. PICK least \in Marks : \A n \in Marks : ~(<<n, least>> \in OpToRel(<, Nat))
  <2>1. Marks \subseteq Nat
    OBVIOUS
  <2> HIDE DEF Marks
  <2> QED
    BY <2>1, WFMin, NatLessThanWellFounded
<1>2. ASSUME NEW n \in Nat, n < least PROVE n \notin Marks
  <2>1. <<n, least>> \in {pair \in Nat \X Nat : pair[1] < pair[2]}
    BY <1>2
  <2> QED
    BY <1>1, <2>1 DEF OpToRel
<1>3. least # 0 /\ least \in Nat
  OBVIOUS
<1>4. least - 1 \in Nat /\ least - 1 < least /\ least - 1 \in S
  BY <1>2, <1>3
<1> QED
  BY <1>4

\* A set of numbers no greater than n that is not empty has a greatest one.
LEMMA MaxBound ==
  ASSUME NEW n \in Nat, NEW Marks \in SUBSET (0..n), Marks # {}
  PROVE  Max(Marks) \in Marks /\ \A x \in Marks : x <= Max(Marks)
<1> DEFINE Topped(U) == \E x \in U : \A y \in U : x >= y
           Bounds == {m \in Nat : \A U \in SUBSET (0..m) : U # {} => Topped(U)}
<1>1. 0 \in Bounds
  <2> SUFFICES ASSUME NEW U \in SUBSET (0..0), U # {} PROVE Topped(U)
    OBVIOUS
  <2>1. PICK x \in U : TRUE
    OBVIOUS
  <2>2. \A y \in U : y \in 0..0
    OBVIOUS
  <2>3. \A y \in U : y = 0
    BY <2>2
  <2> QED
    BY <2>1, <2>3
<1>2. ASSUME NEW m \in Bounds PROVE m + 1 \in Bounds
  <2> SUFFICES ASSUME NEW U \in SUBSET (0..(m + 1)), U # {} PROVE Topped(U)
    OBVIOUS
  <2>0. m \in Nat
    OBVIOUS
  <2>1. CASE m + 1 \in U
    BY <2>0, <2>1
  <2>2. CASE m + 1 \notin U
    <3>1. U \in SUBSET (0..m)
      BY <2>0, <2>2
    <3> QED
      BY <3>1
  <2> QED
    BY <2>1, <2>2
<1>3. Bounds = Nat
  <2> HIDE DEF Bounds
  <2> QED
    BY <1>1, <1>2, SetInduction DEF Bounds
<1>4. Topped(Marks)
  BY <1>3
<1> QED
  BY <1>4 DEF Max

\* FlattenSeq is computed a sequence at a time: the function its definition chooses exists.
LEMMA FlattenStep ==
  ASSUME NEW seqs, Len(seqs) \in Nat, Len(seqs) # 0
  PROVE  \E flat :
           /\ flat = [n \in 1..Len(seqs) |-> IF n = 1 THEN seqs[n] ELSE flat[n - 1] \o seqs[n]]
           /\ FlattenSeq(seqs) = flat[Len(seqs)]
<1> DEFINE Upto(m, flat) ==
             flat = [n \in 1..m |-> IF n = 1 THEN seqs[n] ELSE flat[n - 1] \o seqs[n]]
           Lengths == {m \in Nat : \E flat : Upto(m, flat)}
<1>1. 0 \in Lengths
  <2>1. Upto(0, [n \in 1..0 |-> << >>])
    OBVIOUS
  <2> QED
    BY <2>1
<1>2. ASSUME NEW m \in Lengths PROVE m + 1 \in Lengths
  <2>1. PICK flat : Upto(m, flat)
    OBVIOUS
  <2> DEFINE last == IF m = 0 THEN seqs[1] ELSE flat[m] \o seqs[m + 1]
             more == [n \in 1..(m + 1) |-> IF n = m + 1 THEN last ELSE flat[n]]
  <2>2. ASSUME NEW n \in 1..(m + 1)
        PROVE  more[n] = IF n = 1 THEN seqs[n] ELSE more[n - 1] \o seqs[n]
    <3>1. CASE n = m + 1
      BY <3>1
    <3>2. CASE n \in 1..m
      <4>1. more[n] = flat[n] /\ (n # 1 => n - 1 \in 1..m /\ more[n - 1] = flat[n - 1])
        BY <3>2
      <4>2. flat[n] = IF n = 1 THEN seqs[n] ELSE flat[n - 1] \o seqs[n]
        BY <2>1, <3>2
      <4> QED
        BY <4>1, <4>2
    <3> QED
      BY <3>1, <3>2
  <2>3. Upto(m + 1, more)
    BY <2>2
  <2> HIDE DEF Upto, more
  <2> QED
    BY <2>3
<1>3. Lengths = Nat
  <2> HIDE DEF Lengths
  <2> QED
    BY <1>1, <1>2, SetInduction DEF Lengths
<1>4. \E flat : Upto(Len(seqs), flat)
  BY <1>3
<1> DEFINE it == CHOOSE flat : Upto(Len(seqs), flat)
<1>5. Upto(Len(seqs), it)
  BY <1>4
<1>6. FlattenSeq(seqs) = it[Len(seqs)]
  BY DEF FlattenSeq
<1> QED
  BY <1>5, <1>6

\* Sequences over a set, laid end to end, are one over that set.
LEMMA FlattenType ==
  ASSUME NEW S, NEW seqs \in Seq(Seq(S))
  PROVE  FlattenSeq(seqs) \in Seq(S)
<1>0. Len(seqs) \in Nat /\ \A i \in 1..Len(seqs) : seqs[i] \in Seq(S)
  OBVIOUS
<1>1. CASE Len(seqs) = 0
  <2>1. seqs = << >>
    BY <1>1
  <2> QED
    BY <1>1, <2>1 DEF FlattenSeq
<1>2. CASE Len(seqs) # 0
  <2>1. PICK flat :
          /\ flat = [n \in 1..Len(seqs) |-> IF n = 1 THEN seqs[n] ELSE flat[n - 1] \o seqs[n]]
          /\ FlattenSeq(seqs) = flat[Len(seqs)]
    BY <1>0, <1>2, FlattenStep
  <2>2. \A n \in 1..Len(seqs) : flat[n] = IF n = 1 THEN seqs[n] ELSE flat[n - 1] \o seqs[n]
    BY <2>1
  <2> DEFINE Lengths == {n \in Nat : n + 1 <= Len(seqs) => flat[n + 1] \in Seq(S)}
  <2>3. 0 \in Lengths
    BY <1>0, <1>2, <2>2
  <2>4. ASSUME NEW m \in Lengths PROVE m + 1 \in Lengths
    <3> SUFFICES ASSUME m + 2 <= Len(seqs) PROVE flat[m + 2] \in Seq(S)
      OBVIOUS
    <3>1. m \in Nat /\ flat[m + 1] \in Seq(S) /\ m + 2 \in 1..Len(seqs) /\ m + 2 # 1 /\ (m + 2) - 1 = m + 1
      BY <1>0
    <3>2. flat[m + 2] = flat[m + 1] \o seqs[m + 2] /\ seqs[m + 2] \in Seq(S)
      BY <1>0, <2>2, <3>1
    <3> QED
      BY <3>1, <3>2
  <2>5. Lengths = Nat
    <3> HIDE DEF Lengths
    <3> QED
      BY <2>3, <2>4, SetInduction DEF Lengths
  <2>6. PICK n \in Nat : n + 1 = Len(seqs)
    <3>1. Len(seqs) - 1 \in Nat /\ (Len(seqs) - 1) + 1 = Len(seqs)
      BY <1>0, <1>2
    <3> QED
      BY <3>1
  <2>7. n \in Lengths
    <3> HIDE DEF Lengths
    <3> QED
      BY <2>5
  <2>8. flat[n + 1] \in Seq(S)
    BY <1>0, <2>6, <2>7
  <2> QED
    BY <2>1, <2>6, <2>8
<1> QED
  BY <1>1, <1>2

-----------------------------------------------------------------------------
(* Rows put into the buffer *)

Text == Seq(Nat)
Sent == [text : Text, newline : BOOLEAN]
Buffers == {b \in Seq(Text) : Len(b) >= 1}

\* AppendTo is computed a row at a time: the function its definition chooses exists.
LEMMA AppendStep ==
  ASSUME NEW buffer, NEW rows, Len(rows) \in Nat
  PROVE  \E upto :
           /\ upto = [n \in 0..Len(rows) |->
                       IF n = 0 THEN buffer ELSE Inserted(upto[n - 1], rows[n])]
           /\ AppendTo(buffer, rows) = upto[Len(rows)]
<1> DEFINE Upto(m, upto) ==
             upto = [n \in 0..m |-> IF n = 0 THEN buffer ELSE Inserted(upto[n - 1], rows[n])]
           Lengths == {m \in Nat : \E upto : Upto(m, upto)}
<1>1. 0 \in Lengths
  <2>1. Upto(0, [n \in 0..0 |-> buffer])
    OBVIOUS
  <2> QED
    BY <2>1
<1>2. ASSUME NEW m \in Lengths PROVE m + 1 \in Lengths
  <2>1. PICK upto : Upto(m, upto)
    OBVIOUS
  <2> DEFINE last == Inserted(upto[m], rows[m + 1])
             more == [n \in 0..(m + 1) |-> IF n = m + 1 THEN last ELSE upto[n]]
  <2>2. ASSUME NEW n \in 0..(m + 1)
        PROVE  more[n] = IF n = 0 THEN buffer ELSE Inserted(more[n - 1], rows[n])
    <3>1. CASE n = m + 1
      <4>1. more[n] = last /\ more[m] = upto[m] /\ n # 0 /\ n - 1 = m
        BY <3>1
      <4> QED
        BY <3>1, <4>1
    <3>2. CASE n \in 0..m
      <4>1. more[n] = upto[n] /\ (n # 0 => n - 1 \in 0..m /\ more[n - 1] = upto[n - 1])
        BY <3>2
      <4>2. upto[n] = IF n = 0 THEN buffer ELSE Inserted(upto[n - 1], rows[n])
        BY <2>1, <3>2
      <4> QED
        BY <4>1, <4>2
    <3> QED
      BY <3>1, <3>2
  <2>3. Upto(m + 1, more)
    BY <2>2
  <2> HIDE DEF Upto, more
  <2> QED
    BY <2>3
<1>3. Lengths = Nat
  <2> HIDE DEF Lengths
  <2> QED
    BY <1>1, <1>2, SetInduction DEF Lengths
<1>4. \E upto : Upto(Len(rows), upto)
  BY <1>3
<1> DEFINE it == CHOOSE upto : Upto(Len(rows), upto)
<1>5. Upto(Len(rows), it)
  BY <1>4
<1>6. AppendTo(buffer, rows) = it[Len(rows)]
  BY DEF AppendTo
<1> QED
  BY <1>5, <1>6

\* No rows change nothing; a batch is its rows but the last, and then the last
\* (cooked--render-scrolled).
LEMMA AppendSnoc ==
  ASSUME NEW buffer, NEW S, NEW rows \in Seq(S), NEW r \in S
  PROVE  /\ AppendTo(buffer, << >>) = buffer
         /\ AppendTo(buffer, Append(rows, r)) = Inserted(AppendTo(buffer, rows), r)
<1>0. Len(rows) \in Nat /\ Len(Append(rows, r)) = Len(rows) + 1
      /\ Append(rows, r)[Len(rows) + 1] = r
      /\ \A n \in 1..Len(rows) : Append(rows, r)[n] = rows[n]
  OBVIOUS
<1>1. AppendTo(buffer, << >>) = buffer
  <2>1. PICK upto :
          /\ upto = [n \in 0..Len(<< >>) |->
                      IF n = 0 THEN buffer ELSE Inserted(upto[n - 1], << >>[n])]
          /\ AppendTo(buffer, << >>) = upto[Len(<< >>)]
    <3>1. Len(<< >>) \in Nat
      OBVIOUS
    <3> QED
      BY <3>1, AppendStep
  <2>2. Len(<< >>) = 0 /\ 0 \in 0..Len(<< >>)
    OBVIOUS
  <2>3. upto[0] = buffer
    BY <2>1, <2>2
  <2> QED
    BY <2>1, <2>2, <2>3
<1>2. PICK f :
        /\ f = [n \in 0..Len(rows) |-> IF n = 0 THEN buffer ELSE Inserted(f[n - 1], rows[n])]
        /\ AppendTo(buffer, rows) = f[Len(rows)]
  BY <1>0, AppendStep
<1>3. PICK g :
        /\ g = [n \in 0..Len(Append(rows, r)) |->
                 IF n = 0 THEN buffer ELSE Inserted(g[n - 1], Append(rows, r)[n])]
        /\ AppendTo(buffer, Append(rows, r)) = g[Len(Append(rows, r))]
  <2>1. Len(Append(rows, r)) \in Nat
    BY <1>0
  <2> QED
    BY <2>1, AppendStep
<1>4. \A n \in 0..Len(rows) : f[n] = IF n = 0 THEN buffer ELSE Inserted(f[n - 1], rows[n])
  BY <1>2
<1>5. \A n \in 0..(Len(rows) + 1) :
        g[n] = IF n = 0 THEN buffer ELSE Inserted(g[n - 1], Append(rows, r)[n])
  BY <1>0, <1>3
<1> DEFINE Same == {n \in Nat : n <= Len(rows) => f[n] = g[n]}
<1>6. 0 \in Same
  BY <1>0, <1>4, <1>5
<1>7. ASSUME NEW m \in Same PROVE m + 1 \in Same
  <2> SUFFICES ASSUME m + 1 <= Len(rows) PROVE f[m + 1] = g[m + 1]
    OBVIOUS
  <2>1. m \in Nat /\ f[m] = g[m] /\ m + 1 \in 1..Len(rows) /\ m + 1 \in 0..Len(rows)
        /\ m + 1 \in 0..(Len(rows) + 1) /\ m + 1 # 0 /\ (m + 1) - 1 = m
    BY <1>0
  <2>2. f[m + 1] = Inserted(f[m], rows[m + 1])
    BY <1>4, <2>1
  <2>3. g[m + 1] = Inserted(g[m], Append(rows, r)[m + 1])
    BY <1>5, <2>1
  <2> QED
    BY <1>0, <2>1, <2>2, <2>3
<1>8. Same = Nat
  <2> HIDE DEF Same
  <2> QED
    BY <1>6, <1>7, SetInduction DEF Same
<1>9. f[Len(rows)] = g[Len(rows)]
  <2>1. Len(rows) \in Same
    <3> HIDE DEF Same
    <3> QED
      BY <1>0, <1>8
  <2> QED
    BY <1>0, <2>1
<1>10. Len(rows) + 1 \in 0..(Len(rows) + 1) /\ Len(rows) + 1 # 0 /\ (Len(rows) + 1) - 1 = Len(rows)
  BY <1>0
<1>11. g[Len(rows) + 1] = Inserted(g[Len(rows)], r)
  BY <1>0, <1>5, <1>10
<1> QED
  BY <1>0, <1>1, <1>2, <1>3, <1>9, <1>11

\* A sequence that is not empty is the rest of it and its last element.
LEMMA Unsnoc ==
  ASSUME NEW S, NEW s \in Seq(S), NEW m \in Nat, Len(s) = m + 1
  PROVE  \E w \in Seq(S), e \in S : s = Append(w, e) /\ Len(w) = m
<1> DEFINE w == [i \in 1..m |-> s[i]]
           e == s[m + 1]
<1>1. /\ \A i \in 1..(m + 1) : s[i] \in S
      /\ DOMAIN s = 1..(m + 1)
  OBVIOUS
<1>2. w \in Seq(S) /\ Len(w) = m /\ e \in S
  BY <1>1
<1>3. Append(w, e) \in Seq(S) /\ Len(Append(w, e)) = m + 1
  BY <1>2
<1>4. \A i \in 1..(m + 1) : Append(w, e)[i] = s[i]
  BY <1>1, <1>2
<1>5. s = Append(w, e)
  <2> HIDE DEF w, e
  <2> QED
    BY <1>3, <1>4
<1> QED
  BY <1>2, <1>5

\* A row joins the line the buffer ends with, and a newline opens the next.
LEMMA InsertedFacts ==
  ASSUME NEW b \in Buffers, NEW r \in Sent
  PROVE  /\ Inserted(b, r) \in Buffers
         /\ Last(Inserted(b, r)) = IF r.newline THEN << >> ELSE Last(b) \o r.text
<1> DEFINE joined == [b EXCEPT ![Len(b)] = @ \o r.text]
<1>1. b \in Seq(Text) /\ Len(b) \in Nat /\ Len(b) >= 1 /\ Len(b) \in 1..Len(b) /\ b[Len(b)] \in Text
      /\ r.text \in Text /\ r.newline \in BOOLEAN
  BY DEF Buffers, Sent
<1>2. b[Len(b)] \o r.text \in Text
  BY <1>1 DEF Text
<1>3. joined \in Seq(Text) /\ Len(joined) = Len(b) /\ joined[Len(b)] = b[Len(b)] \o r.text
  <2> DEFINE i == Len(b)
             x == b[i] \o r.text
  <2>1. i \in 1..Len(b) /\ x \in Text /\ b \in Seq(Text)
    BY <1>1, <1>2
  <2>2. joined = [b EXCEPT ![i] = x]
    OBVIOUS
  <2> HIDE DEF i, x, joined
  <2>3. joined \in Seq(Text) /\ Len(joined) = Len(b) /\ joined[i] = x
    BY <2>1, <2>2
  <2> QED
    BY <2>3 DEF i, x
<1>4. << >> \in Text
  BY DEF Text
<1>5. /\ Append(joined, << >>) \in Seq(Text) /\ Len(Append(joined, << >>)) = Len(b) + 1
      /\ Append(joined, << >>)[Len(b) + 1] = << >>
  <2> HIDE DEF joined
  <2> QED
    BY <1>1, <1>3, <1>4
<1>6. Inserted(b, r) = IF r.newline THEN Append(joined, << >>) ELSE joined
  BY DEF Inserted
<1> HIDE DEF joined
<1>7. CASE r.newline
  BY <1>1, <1>5, <1>6, <1>7 DEF Last, Buffers
<1>8. CASE ~r.newline
  BY <1>1, <1>3, <1>6, <1>8 DEF Last, Buffers
<1> QED
  BY <1>1, <1>7, <1>8

\* A batch in the buffer leaves it a buffer.
LEMMA AppendType ==
  ASSUME NEW b \in Buffers, NEW rows \in Seq(Sent)
  PROVE  AppendTo(b, rows) \in Buffers
<1> DEFINE Lengths == {n \in Nat : \A x \in Seq(Sent) : Len(x) = n => AppendTo(b, x) \in Buffers}
<1>1. 0 \in Lengths
  <2> SUFFICES ASSUME NEW x \in Seq(Sent), Len(x) = 0 PROVE AppendTo(b, x) \in Buffers
    OBVIOUS
  <2>1. x = << >>
    OBVIOUS
  <2>2. PICK r : r \in Sent
    <3>1. [text |-> << >>, newline |-> TRUE] \in Sent
      BY DEF Sent, Text
    <3> QED
      BY <3>1
  <2> QED
    BY <2>1, <2>2, AppendSnoc
<1>2. ASSUME NEW m \in Lengths PROVE m + 1 \in Lengths
  <2> SUFFICES ASSUME NEW x \in Seq(Sent), Len(x) = m + 1 PROVE AppendTo(b, x) \in Buffers
    OBVIOUS
  <2>0. m \in Nat
    OBVIOUS
  <2>1. PICK w \in Seq(Sent), e \in Sent : x = Append(w, e) /\ Len(w) = m
    BY <2>0, Unsnoc
  <2>2. AppendTo(b, w) \in Buffers
    BY <2>1
  <2>3. AppendTo(b, x) = Inserted(AppendTo(b, w), e)
    BY <2>1, AppendSnoc
  <2> HIDE DEF Lengths
  <2> QED
    BY <2>1, <2>2, <2>3, InsertedFacts
<1>3. Lengths = Nat
  <2> HIDE DEF Lengths
  <2> QED
    BY <1>1, <1>2, SetInduction DEF Lengths
<1> QED
  BY <1>3

\* Two batches one after the other are one batch.
LEMMA AppendBoth ==
  ASSUME NEW b, NEW S, NEW x \in Seq(S), NEW y \in Seq(S)
  PROVE  AppendTo(b, x \o y) = AppendTo(AppendTo(b, x), y)
<1> DEFINE Both(z) == AppendTo(b, x \o z) = AppendTo(AppendTo(b, x), z)
           Lengths == {n \in Nat : \A z \in Seq(S) : Len(z) = n => Both(z)}
<1>1. 0 \in Lengths
  <2> SUFFICES ASSUME NEW z \in Seq(S), Len(z) = 0 PROVE Both(z)
    OBVIOUS
  <2>1. z = << >> /\ x \o z = x
    OBVIOUS
  <2>2. \A buffer : AppendTo(buffer, << >>) = buffer
    <3>1. ASSUME NEW buffer PROVE AppendTo(buffer, << >>) = buffer
      <4>1. << >> \in Seq({0}) /\ 0 \in {0}
        OBVIOUS
      <4> QED
        BY <4>1, AppendSnoc
    <3> QED
      BY <3>1
  <2> QED
    BY <2>1, <2>2
<1>2. ASSUME NEW m \in Lengths PROVE m + 1 \in Lengths
  <2> SUFFICES ASSUME NEW z \in Seq(S), Len(z) = m + 1 PROVE Both(z)
    OBVIOUS
  <2>0. m \in Nat
    OBVIOUS
  <2>1. PICK w \in Seq(S), e \in S : z = Append(w, e) /\ Len(w) = m
    BY <2>0, Unsnoc
  <2>2. Both(w)
    BY <2>1
  <2>3. x \o Append(w, e) = Append(x \o w, e) /\ x \o w \in Seq(S)
    OBVIOUS
  <2>4. AppendTo(b, Append(x \o w, e)) = Inserted(AppendTo(b, x \o w), e)
    <3> HIDE DEF Lengths, Both
    <3> DEFINE v == x \o w
    <3>1. v \in Seq(S)
      BY <2>3
    <3> HIDE DEF v
    <3>2. AppendTo(b, Append(v, e)) = Inserted(AppendTo(b, v), e)
      BY <3>1, AppendSnoc
    <3> QED
      BY <3>2 DEF v
  <2>5. AppendTo(AppendTo(b, x), Append(w, e)) = Inserted(AppendTo(AppendTo(b, x), w), e)
    BY AppendSnoc
  <2> QED
    BY <2>1, <2>2, <2>3, <2>4, <2>5
<1>3. Lengths = Nat
  <2> HIDE DEF Lengths
  <2> QED
    BY <1>1, <1>2, SetInduction DEF Lengths
<1> QED
  BY <1>3

-----------------------------------------------------------------------------
(* Rows on their way to the buffer, and the emulator's count of them *)

Gone == [text : Text, wrapped : BOOLEAN]
GoneAt(n) == {d \in Gone : d.wrapped => Len(d.text) = n}

\* A sequence over a set is one over any that contains it.
LEMMA SeqWiden ==
  ASSUME NEW S, NEW R, \A x \in S : x \in R, NEW s \in Seq(S)
  PROVE  s \in Seq(R)
  OBVIOUS

\* A departed row as Emacs is sent it, where wrapped rows are joined and where not.
SentAs(join, d) == [text |-> d.text, newline |-> ~(join /\ d.wrapped)]
Onto(join, rows) == [i \in DOMAIN rows |-> SentAs(join, rows[i])]

\* A departed row is sent with its text, and ends its line unless it is joined to the next.
LEMMA SentType ==
  ASSUME NEW join \in BOOLEAN, NEW d \in Gone
  PROVE  /\ SentAs(join, d) \in Sent /\ SentAs(join, d).text = d.text
         /\ SentAs(join, d).newline = ~(join /\ d.wrapped)
  BY DEF SentAs, Sent, Gone

\* What is sent is a row for a row, and two batches are sent as one.
LEMMA OntoFacts ==
  ASSUME NEW join \in BOOLEAN
  PROVE  /\ Onto(join, << >>) = << >>
         /\ \A x \in Seq(Gone) : Onto(join, x) \in Seq(Sent)
         /\ \A x, y \in Seq(Gone) : Onto(join, x \o y) = Onto(join, x) \o Onto(join, y)
         /\ \A x \in Seq(Gone), d \in Gone :
              Onto(join, Append(x, d)) = Append(Onto(join, x), SentAs(join, d))
<1>1. Onto(join, << >>) = << >>
  BY DEF Onto
<1>2. ASSUME NEW x \in Seq(Gone)
      PROVE  /\ Onto(join, x) \in Seq(Sent) /\ Len(Onto(join, x)) = Len(x)
             /\ DOMAIN Onto(join, x) = 1..Len(x)
             /\ \A i \in 1..Len(x) : Onto(join, x)[i] = SentAs(join, x[i])
  <2>1. \A i \in 1..Len(x) : x[i] \in Gone /\ SentAs(join, x[i]) \in Sent
    BY SentType
  <2>2. Onto(join, x) = [i \in 1..Len(x) |-> SentAs(join, x[i])]
    BY DEF Onto
  <2> QED
    BY <2>1, <2>2
<1>3. ASSUME NEW x \in Seq(Gone), NEW y \in Seq(Gone)
      PROVE  Onto(join, x \o y) = Onto(join, x) \o Onto(join, y)
  <2> DEFINE both == Onto(join, x \o y)
             parts == Onto(join, x) \o Onto(join, y)
  <2> DEFINE u == Onto(join, x)
             v == Onto(join, y)
  <2>0. x \o y \in Seq(Gone) /\ Len(x \o y) = Len(x) + Len(y)
        /\ Len(x) \in Nat /\ Len(y) \in Nat
    OBVIOUS
  <2>u. /\ u \in Seq(Sent) /\ Len(u) = Len(x)
        /\ \A i \in 1..Len(x) : u[i] = SentAs(join, x[i])
    BY <1>2
  <2>v. /\ v \in Seq(Sent) /\ Len(v) = Len(y)
        /\ \A i \in 1..Len(y) : v[i] = SentAs(join, y[i])
    BY <1>2
  <2> HIDE DEF u, v
  <2>p. parts = u \o v
    BY DEF u, v
  <2>1. both \in Seq(Sent) /\ parts \in Seq(Sent) /\ Len(both) = Len(x) + Len(y)
        /\ Len(parts) = Len(x) + Len(y)
    <3>1. both \in Seq(Sent) /\ Len(both) = Len(x) + Len(y)
      BY <1>2, <2>0
    <3>2. parts \in Seq(Sent) /\ Len(parts) = Len(x) + Len(y)
      <4>1. ASSUME NEW p \in Seq(Sent), NEW q \in Seq(Sent)
            PROVE  p \o q \in Seq(Sent) /\ Len(p \o q) = Len(p) + Len(q)
        OBVIOUS
      <4> HIDE DEF parts
      <4> QED
        BY <2>u, <2>v, <2>p, <4>1
    <3> QED
      BY <3>1, <3>2
  <2>2. ASSUME NEW i \in 1..(Len(x) + Len(y)) PROVE both[i] = parts[i]
    <3>1. both[i] = SentAs(join, (x \o y)[i])
      BY <1>2, <2>0
    <3> HIDE DEF both, parts
    <3>2. CASE i <= Len(x)
      <4>1. i \in 1..Len(x) /\ (x \o y)[i] = x[i]
        BY <2>0, <3>2
      <4>2. parts[i] = u[i]
        BY <2>u, <2>v, <2>p, <2>0, <3>2
      <4> QED
        BY <2>u, <3>1, <4>1, <4>2
    <3>3. CASE i > Len(x)
      <4>1. i - Len(x) \in 1..Len(y) /\ (x \o y)[i] = y[i - Len(x)]
        BY <2>0, <3>3
      <4>2. parts[i] = v[i - Len(x)]
        BY <2>u, <2>v, <2>p, <2>0, <3>3
      <4> QED
        BY <2>v, <3>1, <4>1, <4>2
    <3> QED
      BY <2>0, <3>2, <3>3
  <2> HIDE DEF both, parts
  <2>3. both = parts
    BY <2>1, <2>2
  <2> QED
    BY <2>3 DEF both, parts
<1>4. ASSUME NEW x \in Seq(Gone), NEW d \in Gone
      PROVE  Onto(join, Append(x, d)) = Append(Onto(join, x), SentAs(join, d))
  <2> DEFINE more == Onto(join, Append(x, d))
             parts == Append(Onto(join, x), SentAs(join, d))
  <2>0. Append(x, d) \in Seq(Gone) /\ Len(Append(x, d)) = Len(x) + 1 /\ Len(x) \in Nat
        /\ Append(x, d)[Len(x) + 1] = d /\ \A i \in 1..Len(x) : Append(x, d)[i] = x[i]
    OBVIOUS
  <2>1. more \in Seq(Sent) /\ Len(more) = Len(x) + 1
    BY <1>2, <2>0
  <2>2. parts \in Seq(Sent) /\ Len(parts) = Len(x) + 1
        /\ parts[Len(x) + 1] = SentAs(join, d) /\ \A i \in 1..Len(x) : parts[i] = SentAs(join, x[i])
    BY <1>2, SentType
  <2>3. \A i \in 1..(Len(x) + 1) : more[i] = SentAs(join, Append(x, d)[i])
    BY <1>2, <2>0
  <2>4. ASSUME NEW i \in 1..(Len(x) + 1) PROVE more[i] = parts[i]
    <3> HIDE DEF more, parts
    <3>1. CASE i = Len(x) + 1
      BY <2>0, <2>2, <2>3, <3>1
    <3>2. CASE i \in 1..Len(x)
      BY <2>0, <2>2, <2>3, <3>2
    <3> QED
      BY <2>0, <3>1, <3>2
  <2> HIDE DEF more, parts
  <2>5. more = parts
    BY <2>1, <2>2, <2>4
  <2> QED
    BY <2>5 DEF more, parts
<1> QED
  BY <1>1, <1>2, <1>3, <1>4

\* Where wrapped rows are not joined the buffer always ends at the start of a line.
LEMMA SplitRows ==
  ASSUME NEW b \in Buffers, Last(b) = << >>, NEW rows \in Seq(Gone)
  PROVE  Last(AppendTo(b, Onto(FALSE, rows))) = << >>
<1>1. CASE Len(rows) = 0
  <2>1. rows = << >>
    BY <1>1
  <2>2. << >> \in Seq({0}) /\ 0 \in {0}
    OBVIOUS
  <2> QED
    BY <2>1, <2>2, OntoFacts, AppendSnoc
<1>2. CASE Len(rows) # 0
  <2>1. PICK m \in Nat : Len(rows) = m + 1
    <3>1. Len(rows) - 1 \in Nat /\ Len(rows) = (Len(rows) - 1) + 1
      BY <1>2
    <3> QED
      BY <3>1
  <2>2. PICK w \in Seq(Gone), e \in Gone : rows = Append(w, e) /\ Len(w) = m
    BY <2>1, Unsnoc
  <2>3. /\ Onto(FALSE, w) \in Seq(Sent) /\ SentAs(FALSE, e) \in Sent
        /\ SentAs(FALSE, e).newline = TRUE
        /\ Onto(FALSE, rows) = Append(Onto(FALSE, w), SentAs(FALSE, e))
    BY <2>2, OntoFacts, SentType
  <2>4. AppendTo(b, Onto(FALSE, rows)) = Inserted(AppendTo(b, Onto(FALSE, w)), SentAs(FALSE, e))
    <3>1. ASSUME NEW v \in Seq(Sent), NEW r \in Sent
          PROVE  AppendTo(b, Append(v, r)) = Inserted(AppendTo(b, v), r)
      BY AppendSnoc
    <3> QED
      BY <2>3, <3>1
  <2>5. AppendTo(b, Onto(FALSE, w)) \in Buffers
    BY <2>3, AppendType
  <2> QED
    BY <2>3, <2>4, <2>5, InsertedFacts
<1> QED
  BY <1>1, <1>2

\* Screen::carry, a row at a time: a row that wraps is one more, and one that does not
\* starts the count over.
LEMMA CarrySnoc ==
  ASSUME NEW c \in Nat
  PROVE  /\ Carry(c, << >>) = c
         /\ \A x \in Seq(Gone), d \in Gone :
              /\ Carry(c, x) \in Nat
              /\ Carry(c, Append(x, d)) = IF d.wrapped THEN Carry(c, x) + 1 ELSE 0
<1> DEFINE Ends(x) == {0} \cup {i \in DOMAIN x : ~x[i].wrapped}
<1>1. ASSUME NEW x \in Seq(Gone)
      PROVE  /\ Len(x) \in Nat /\ DOMAIN x = 1..Len(x)
             /\ Max(Ends(x)) \in 0..Len(x) /\ Max(Ends(x)) \in Ends(x)
             /\ \A i \in Ends(x) : i <= Max(Ends(x))
  <2>1. Len(x) \in Nat /\ DOMAIN x = 1..Len(x)
    OBVIOUS
  <2>2. Ends(x) \in SUBSET (0..Len(x)) /\ Ends(x) # {}
    BY <2>1
  <2> HIDE DEF Ends
  <2> QED
    BY <2>1, <2>2, MaxBound
<1>2. \A x : Carry(c, x) = LET run == Len(x) - Max(Ends(x))
                           IN  IF run = Len(x) THEN c + run ELSE run
  BY DEF Carry
<1> HIDE DEF Ends
<1>3. ASSUME NEW x \in Seq(Gone)
      PROVE  Carry(c, x) \in Nat
  BY <1>1, <1>2
<1>4. Carry(c, << >>) = c
  <2>1. << >> \in Seq(Gone) /\ Len(<< >>) = 0
    OBVIOUS
  <2> DEFINE m == Max(Ends(<< >>))
  <2>2. m \in 0..0
    BY <1>1, <2>1
  <2>3. m = 0
    <3> HIDE DEF m
    <3> QED
      BY <2>2
  <2> QED
    BY <1>2, <2>1, <2>3
<1>5. ASSUME NEW x \in Seq(Gone), NEW d \in Gone
      PROVE  Carry(c, Append(x, d)) = IF d.wrapped THEN Carry(c, x) + 1 ELSE 0
  <2> DEFINE y == Append(x, d)
  <2>0. /\ y \in Seq(Gone) /\ Len(y) = Len(x) + 1 /\ Len(x) \in Nat /\ y[Len(x) + 1] = d
        /\ DOMAIN y = 1..(Len(x) + 1) /\ DOMAIN x = 1..Len(x)
        /\ \A i \in 1..Len(x) : y[i] = x[i]
    OBVIOUS
  <2> HIDE DEF y
  <2>1. CASE d.wrapped
    <3>1. Ends(y) = Ends(x)
      BY <2>0, <2>1 DEF Ends
    <3> DEFINE m == Max(Ends(x))
    <3>2. m \in 0..Len(x) /\ Max(Ends(y)) = m
      BY <1>1, <3>1
    <3>3. Carry(c, y) = IF Len(y) - m = Len(y) THEN c + (Len(y) - m) ELSE Len(y) - m
      BY <1>2, <3>2
    <3>4. Carry(c, x) = IF Len(x) - m = Len(x) THEN c + (Len(x) - m) ELSE Len(x) - m
      BY <1>2
    <3> HIDE DEF m
    <3>5. Carry(c, y) = Carry(c, x) + 1
      <4>1. CASE m = 0
        <5>1. Carry(c, y) = c + Len(y) /\ Carry(c, x) = c + Len(x)
          BY <2>0, <3>3, <3>4, <4>1
        <5> QED
          BY <2>0, <5>1
      <4>2. CASE m # 0
        <5>0. m \in Nat /\ Len(y) - m # Len(y) /\ Len(x) - m # Len(x)
          <6>1. ASSUME NEW a \in Nat, NEW k \in 0..a, k # 0
                PROVE  k \in Nat /\ (a + 1) - k # a + 1 /\ a - k # a
            BY <6>1
          <6>2. Len(x) \in Nat /\ Len(y) = Len(x) + 1
            BY <2>0
          <6> QED
            BY <3>2, <4>2, <6>1, <6>2
        <5>1. Carry(c, y) = Len(y) - m /\ Carry(c, x) = Len(x) - m
          BY <3>3, <3>4, <5>0
        <5> QED
          BY <2>0, <3>2, <5>1
      <4> QED
        BY <4>1, <4>2
    <3> QED
      BY <2>1, <3>5 DEF y
  <2>2. CASE ~d.wrapped
    <3>1. Len(x) + 1 \in Ends(y)
      BY <2>0, <2>2 DEF Ends
    <3> DEFINE m == Max(Ends(y))
    <3>2. m \in 0..Len(y) /\ Len(x) + 1 <= m
      BY <1>1, <2>0, <3>1
    <3>3. Carry(c, y) = LET run == Len(y) - m IN IF run = Len(y) THEN c + run ELSE run
      BY <1>2
    <3> HIDE DEF m
    <3>4. Carry(c, y) = 0
      BY <2>0, <3>2, <3>3
    <3> QED
      BY <2>2, <3>4 DEF y
  <2> QED
    BY <2>1, <2>2
<1> QED
  BY <1>3, <1>4, <1>5

\* Whole rows that wrap make the line longer by as many widths as the emulator counts.
LEMMA CarryMeasures ==
  ASSUME NEW c \in Nat, NEW n \in Nat, NEW b \in Buffers, Len(Last(b)) = c * n,
         NEW rows \in Seq(GoneAt(n))
  PROVE  Len(Last(AppendTo(b, Onto(TRUE, rows)))) = Carry(c, rows) * n
<1> DEFINE Right(x) == Len(Last(AppendTo(b, Onto(TRUE, x)))) = Carry(c, x) * n
           Lengths == {m \in Nat : \A x \in Seq(GoneAt(n)) : Len(x) = m => Right(x)}
<1>1. 0 \in Lengths
  <2> SUFFICES ASSUME NEW x \in Seq(GoneAt(n)), Len(x) = 0 PROVE Right(x)
    OBVIOUS
  <2>1. x = << >>
    OBVIOUS
  <2>2. << >> \in Seq({0}) /\ 0 \in {0}
    OBVIOUS
  <2>3. AppendTo(b, Onto(TRUE, x)) = b /\ Carry(c, x) = c
    BY <2>1, <2>2, OntoFacts, AppendSnoc, CarrySnoc
  <2> QED
    BY <2>3
<1>2. ASSUME NEW m \in Lengths PROVE m + 1 \in Lengths
  <2> HIDE DEF Right
  <2> SUFFICES ASSUME NEW x \in Seq(GoneAt(n)), Len(x) = m + 1 PROVE Right(x)
    OBVIOUS
  <2>0. m \in Nat
    OBVIOUS
  <2>1. PICK w \in Seq(GoneAt(n)), e \in GoneAt(n) : x = Append(w, e) /\ Len(w) = m
    BY <2>0, Unsnoc
  <2>2. Right(w)
    BY <2>1
  <2> HIDE DEF Lengths
  <2> USE DEF Right
  <2>3. /\ w \in Seq(Gone) /\ e \in Gone /\ e.text \in Text /\ e.wrapped \in BOOLEAN
        /\ (e.wrapped => Len(e.text) = n)
    <3>1. \A d \in GoneAt(n) : d \in Gone /\ (d.wrapped => Len(d.text) = n)
      BY DEF GoneAt
    <3>2. w \in Seq(Gone)
      BY <3>1, SeqWiden
    <3> QED
      BY <3>1, <3>2 DEF Gone
  <2>4. /\ Onto(TRUE, w) \in Seq(Sent) /\ SentAs(TRUE, e) \in Sent
        /\ SentAs(TRUE, e).newline = ~e.wrapped /\ SentAs(TRUE, e).text = e.text
        /\ Onto(TRUE, x) = Append(Onto(TRUE, w), SentAs(TRUE, e))
    BY <2>1, <2>3, OntoFacts, SentType
  <2> DEFINE before == AppendTo(b, Onto(TRUE, w))
             after == AppendTo(b, Onto(TRUE, x))
             count == Carry(c, w)
  <2>5. after = Inserted(before, SentAs(TRUE, e))
    <3>1. ASSUME NEW v \in Seq(Sent), NEW r \in Sent
          PROVE  AppendTo(b, Append(v, r)) = Inserted(AppendTo(b, v), r)
      BY AppendSnoc
    <3> QED
      BY <2>4, <3>1
  <2>6. before \in Buffers
    BY <2>4, AppendType
  <2>7. Last(after) = IF e.wrapped THEN Last(before) \o e.text ELSE << >>
    <3> HIDE DEF before, after
    <3> QED
      BY <2>3, <2>4, <2>5, <2>6, InsertedFacts
  <2>8. count \in Nat /\ Carry(c, x) = IF e.wrapped THEN count + 1 ELSE 0
    BY <2>1, <2>3, CarrySnoc
  <2>9. Len(Last(before)) = count * n
    BY <2>2
  <2>10. Last(before) \in Text
    <3> HIDE DEF before
    <3> QED
      BY <2>6 DEF Buffers, Last
  <2> HIDE DEF before, after, count
  <2>11. CASE e.wrapped
    <3>1. Len(Last(after)) = Len(Last(before)) + Len(e.text)
      BY <2>3, <2>7, <2>10, <2>11 DEF Text
    <3>2. (count + 1) * n = count * n + n
      BY <2>8
    <3> QED
      BY <2>3, <2>8, <2>9, <2>11, <3>1, <3>2 DEF after
  <2>12. CASE ~e.wrapped
    <3>1. Len(Last(after)) = 0 /\ 0 * n = 0
      BY <2>7, <2>12
    <3> QED
      BY <2>8, <2>12, <3>1 DEF after
  <2> QED
    BY <2>3, <2>11, <2>12
<1>3. Lengths = Nat
  <2> HIDE DEF Lengths
  <2> QED
    BY <1>1, <1>2, SetInduction DEF Lengths
<1>4. Right(rows)
  <2> HIDE DEF Right
  <2> QED
    BY <1>3
<1> QED
  BY <1>4

-----------------------------------------------------------------------------
(* Screens *)

Positive == Nat \ {0}
Width(n) == {r \in [cells : Text, wrapped : BOOLEAN] : Len(r.cells) = n}
Screens(n) ==
  [rows : Seq(Width(n)), cols : {n}, row : Positive, col : 0 .. n - 1, pend : BOOLEAN,
   top : {1}, bottom : Positive, carried : Nat, autowrap : BOOLEAN]

\* A screen n columns wide, with no margins set and the cursor on it.
Whole(n, s) ==
  /\ n \in Positive /\ s \in Screens(n)
  /\ Len(s.rows) >= 1 /\ s.row <= Len(s.rows) /\ s.bottom = Len(s.rows)

\* A screen operation leaves a whole screen, and hands over whole rows or ends of lines,
\* counted as Screen::carry counts.
Keeps(n, s, result) ==
  /\ Whole(n, result.s)
  /\ result.out \in Seq(GoneAt(n))
  /\ result.s.carried = Carry(s.carried, result.out)

\* A blank row is a row (BlankRow).
LEMMA BlankWidth == ASSUME NEW n \in Nat PROVE BlankRow(n) \in Width(n)
  BY DEF BlankRow, Width, Text, Blank

\* The trimmed length of a row is within it (Row::content_len).
LEMMA ContentWithin ==
  ASSUME NEW n \in Nat, NEW r \in Width(n)
  PROVE  ContentLen(r) \in 0..n
<1> DEFINE Marks == {0} \cup {i \in DOMAIN r.cells : r.cells[i] # Blank}
<1>1. DOMAIN r.cells = 1..n
  BY DEF Width, Text
<1>2. Marks \in SUBSET (0..n) /\ Marks # {}
  BY <1>1
<1>3. ContentLen(r) = Max(Marks)
  BY DEF ContentLen
<1> HIDE DEF Marks
<1> QED
  BY <1>2, <1>3, MaxBound

\* A row that wraps leaves with all its cells (Row::line_runs).
LEMMA DepartedAt ==
  ASSUME NEW n \in Nat, NEW r \in Width(n)
  PROVE  Departed(r) \in GoneAt(n)
<1>1. r.cells \in Seq(Nat) /\ Len(r.cells) = n /\ r.wrapped \in BOOLEAN
  BY DEF Width, Text
<1>2. ASSUME NEW k \in 0..n PROVE SubSeq(r.cells, 1, k) \in Seq(Nat) /\ Len(SubSeq(r.cells, 1, k)) = k
  BY <1>1
<1>3. LineCells(r) \in Seq(Nat) /\ (r.wrapped => Len(LineCells(r)) = n)
  BY <1>1, <1>2, ContentWithin DEF LineCells
<1> HIDE DEF LineCells
<1> QED
  BY <1>1, <1>3 DEF Departed, GoneAt, Gone, Text

\* Rows that leave are rows for the buffer, whole where they wrap.
LEMMA DepartedRowsType ==
  ASSUME NEW n \in Nat, NEW rows \in Seq(Width(n))
  PROVE  DepartedRows(rows) \in Seq(GoneAt(n))
<1>1. \A i \in 1..Len(rows) : Departed(rows[i]) \in GoneAt(n)
  BY DepartedAt
<1>2. DepartedRows(rows) = [i \in 1..Len(rows) |-> Departed(rows[i])]
  BY DEF DepartedRows
<1> QED
  BY <1>1, <1>2

\* An operation that pushes nothing off keeps the count.
LEMMA QuietKeeps ==
  ASSUME NEW n, NEW s, Whole(n, s), NEW t, Whole(n, t), t.carried = s.carried
  PROVE  Keeps(n, s, Quiet(t))
<1>1. s.carried \in Nat
  BY DEF Whole, Screens
<1>2. Carry(s.carried, << >>) = s.carried
  BY <1>1, CarrySnoc
<1>3. << >> \in Seq(GoneAt(n))
  OBVIOUS
<1> QED
  BY <1>2, <1>3 DEF Keeps, Quiet

\* Scrolling up by one row hands over the top one (Screen::scroll_up).
LEMMA ScrollUpKeeps ==
  ASSUME NEW n, NEW s, Whole(n, s)
  PROVE  Keeps(n, s, ScrollUp(s, 1))
<1> DEFINE H == Len(s.rows)
           moved == [r \in 1..H |-> IF r + 1 <= H THEN s.rows[r + 1] ELSE BlankRow(n)]
           out == DepartedRows(SubSeq(s.rows, 1, 1))
           t == [s EXCEPT !.rows = moved, !.carried = Carry(s.carried, out)]
<1>1. /\ n \in Nat /\ s.rows \in Seq(Width(n)) /\ H \in Nat /\ H >= 1 /\ DOMAIN s.rows = 1..H
      /\ s.top = 1 /\ s.bottom = H /\ s.cols = n /\ s.carried \in Nat
      /\ \A r \in 1..H : s.rows[r] \in Width(n)
  BY DEF Whole, Screens, Positive
<1>2. SubSeq(s.rows, 1, 1) \in Seq(Width(n))
  BY <1>1
<1>3. out \in Seq(GoneAt(n)) /\ out \in Seq(Gone)
  <2>1. out \in Seq(GoneAt(n))
    BY <1>1, <1>2, DepartedRowsType
  <2>2. \A d \in GoneAt(n) : d \in Gone
    BY DEF GoneAt
  <2> QED
    BY <2>1, <2>2, SeqWiden
<1>4. moved \in Seq(Width(n)) /\ Len(moved) = H
  <2>1. \A r \in 1..H : (IF r + 1 <= H THEN s.rows[r + 1] ELSE BlankRow(n)) \in Width(n)
    BY <1>1, BlankWidth
  <2> QED
    BY ONLY <1>1, <2>1
<1>5. ScrollUp(s, 1) = [s |-> t, out |-> out]
  <2>1. Least(1, s.bottom + 1 - s.top) = 1
    <3>1. s.bottom + 1 - s.top = H
      BY <1>1
    <3> HIDE DEF H
    <3> QED
      BY <1>1, <3>1 DEF Least
  <2>2. FullRegion(s)
    BY <1>1 DEF FullRegion, Height
  <2>3. [r \in DOMAIN s.rows |->
           IF r \notin s.top..s.bottom THEN s.rows[r]
           ELSE IF r + 1 <= s.bottom THEN s.rows[r + 1] ELSE BlankRow(s.cols)] = moved
    BY <1>1
  <2> HIDE DEF moved, out
  <2> QED
    BY <2>1, <2>2, <2>3 DEF ScrollUp, moved, out
<1>6. Carry(s.carried, out) \in Nat
  <2> HIDE DEF out
  <2>1. out \in Seq(Gone) /\ s.carried \in Nat
    BY <1>1, <1>3
  <2>2. [text |-> << >>, wrapped |-> FALSE] \in Gone
    BY DEF Gone, Text
  <2> QED
    BY <2>1, <2>2, CarrySnoc
<1> HIDE DEF moved, out
<1>7. Whole(n, t) /\ t.carried = Carry(s.carried, out)
  BY <1>1, <1>4, <1>6 DEF Whole, Screens
<1> HIDE DEF t
<1> QED
  BY <1>3, <1>5, <1>7 DEF Keeps

\* A line feed moves down, or scrolls at the bottom (Screen::line_feed).
LEMMA LineFeedKeeps ==
  ASSUME NEW n, NEW s, Whole(n, s)
  PROVE  Keeps(n, s, LineFeed(s))
<1> DEFINE t == [s EXCEPT !.pend = FALSE]
           u == [t EXCEPT !.row = @ + 1]
<1>1. Whole(n, t) /\ t.carried = s.carried /\ t.row = s.row /\ t.bottom = s.bottom
      /\ Height(t) = Len(s.rows)
  BY DEF Whole, Screens, Height
<1>2. ASSUME t.row < Height(t) PROVE Whole(n, u) /\ u.carried = s.carried
  <2> HIDE DEF t
  <2>1. t.row + 1 \in Positive /\ t.row + 1 <= Len(t.rows) /\ t \in Screens(n)
    BY <1>1, <1>2 DEF Whole, Screens, Positive, Height
  <2>2. u \in Screens(n) /\ u.row = t.row + 1 /\ u.rows = t.rows /\ u.bottom = t.bottom
        /\ u.carried = t.carried
    BY ONLY <2>1 DEF Screens
  <2> QED
    BY <1>1, <2>1, <2>2 DEF Whole
<1>3. CASE t.row = t.bottom
  <2>1. Keeps(n, t, ScrollUp(t, 1))
    <3> HIDE DEF t
    <3> QED
      BY <1>1, ScrollUpKeeps
  <2>2. LineFeed(s) = ScrollUp(t, 1)
    <3> HIDE DEF ScrollUp
    <3> QED
      BY <1>3 DEF LineFeed
  <2> HIDE DEF t
  <2> QED
    BY <1>1, <2>1, <2>2 DEF Keeps
<1>4. CASE t.row # t.bottom
  <2>1. LineFeed(s) = Quiet(IF t.row < Height(t) THEN u ELSE t)
    BY <1>4 DEF LineFeed
  <2> HIDE DEF t, u
  <2> QED
    BY <1>1, <1>2, <2>1, QuietKeeps
<1> QED
  BY <1>3, <1>4

\* Moving the cursor within the screen changes nothing else (Screen::goto).
LEMMA GotoWhole ==
  ASSUME NEW n, NEW s, Whole(n, s), NEW r \in Positive, NEW c \in Nat
  PROVE  Whole(n, Goto(s, r, c)) /\ Goto(s, r, c).carried = s.carried
<1>1. Least(r, Height(s)) \in 1..Len(s.rows) /\ Least(c, s.cols - 1) \in 0 .. n - 1
  BY DEF Least, Height, Whole, Screens, Positive
<1> DEFINE a == Least(r, Height(s))
           b == Least(c, s.cols - 1)
<1>2. Goto(s, r, c) = [s EXCEPT !.row = a, !.col = b, !.pend = FALSE]
  BY DEF Goto
<1>3. /\ s \in Screens(n) /\ n \in Positive /\ Len(s.rows) >= 1 /\ s.bottom = Len(s.rows)
      /\ Len(s.rows) \in Nat
  BY DEF Whole, Screens
<1> HIDE DEF a, b
<1>4. a \in Positive /\ a <= Len(s.rows) /\ b \in 0 .. n - 1
  BY <1>1, <1>3 DEF a, b, Positive
<1> QED
  BY <1>2, <1>3, <1>4 DEF Whole, Screens

\* A printed character takes the wrap it deferred and one cell (Screen::place).
LEMMA PlaceKeeps ==
  ASSUME NEW n, NEW s, Whole(n, s), NEW ch \in Nat
  PROVE  Keeps(n, s, Place(s, ch))
<1> DEFINE w == [s EXCEPT !.rows[s.row].wrapped = TRUE, !.col = 0]
           at == IF s.pend /\ s.autowrap THEN LineFeed(w) ELSE Quiet(s)
           t == [at.s EXCEPT !.rows[at.s.row].cells[at.s.col + 1] = ch]
           atEdge == t.col + 1 >= t.cols
           u == [t EXCEPT !.col = IF atEdge THEN t.cols - 1 ELSE @ + 1,
                          !.pend = atEdge /\ t.autowrap]
<1>1. Whole(n, w) /\ w.carried = s.carried
  <2>1. /\ s.rows \in Seq(Width(n)) /\ s.row \in 1..Len(s.rows) /\ s \in Screens(n) /\ n \in Positive
        /\ Len(s.rows) >= 1 /\ s.bottom = Len(s.rows)
    BY DEF Whole, Screens, Positive
  <2>2. [s.rows[s.row] EXCEPT !.wrapped = TRUE] \in Width(n)
    <3>1. s.rows[s.row] \in Width(n)
      BY <2>1
    <3> QED
      BY <3>1 DEF Width
  <2> DEFINE x == [s.rows[s.row] EXCEPT !.wrapped = TRUE]
             rs == [s.rows EXCEPT ![s.row] = x]
  <2>3. rs \in Seq(Width(n)) /\ Len(rs) = Len(s.rows)
    <3> HIDE DEF x
    <3> QED
      BY <2>1, <2>2 DEF x
  <2>4. w = [s EXCEPT !.rows = rs, !.col = 0]
    BY <2>1
  <2>5. 0 \in 0 .. n - 1 /\ s.row <= Len(s.rows)
    BY <2>1 DEF Positive
  <2> HIDE DEF x, rs, w
  <2> QED
    BY <2>1, <2>3, <2>4, <2>5 DEF Whole, Screens
<1>2. Keeps(n, s, at)
  <2>1. Keeps(n, w, LineFeed(w))
    <3> HIDE DEF w
    <3> QED
      BY <1>1, LineFeedKeeps
  <2>2. Keeps(n, s, LineFeed(w))
    <3> HIDE DEF w
    <3> QED
      BY <1>1, <2>1 DEF Keeps
  <2>3. Keeps(n, s, Quiet(s))
    BY QuietKeeps
  <2> HIDE DEF w
  <2> QED
    BY <2>2, <2>3
<1> DEFINE v == at.s
<1>3. Whole(n, v) /\ v.carried = Carry(s.carried, at.out) /\ at.out \in Seq(GoneAt(n))
  <2> HIDE DEF at
  <2> QED
    BY <1>2 DEF Keeps
<1> HIDE DEF at
<1>4. Whole(n, t) /\ t.carried = v.carried
  <2> HIDE DEF v
  <2>1. /\ v.rows \in Seq(Width(n)) /\ v.row \in 1..Len(v.rows) /\ v \in Screens(n) /\ n \in Positive
        /\ Len(v.rows) >= 1 /\ v.bottom = Len(v.rows) /\ v.col + 1 \in 1..n
    BY <1>3 DEF Whole, Screens, Positive
  <2> DEFINE y == v.rows[v.row]
             x == [y EXCEPT !.cells[v.col + 1] = ch]
             rs == [v.rows EXCEPT ![v.row] = x]
  <2>2. x \in Width(n)
    <3>1. y \in Width(n)
      BY <2>1
    <3>2. y.cells \in Seq(Nat) /\ Len(y.cells) = n /\ y.wrapped \in BOOLEAN
          /\ y \in [cells : Text, wrapped : BOOLEAN]
      BY <3>1 DEF Width, Text
    <3>3. [y.cells EXCEPT ![v.col + 1] = ch] \in Seq(Nat) /\ Len([y.cells EXCEPT ![v.col + 1] = ch]) = n
      <4> HIDE DEF y
      <4> QED
        BY <2>1, <3>2
    <3>4. x = [y EXCEPT !.cells = [y.cells EXCEPT ![v.col + 1] = ch]]
      OBVIOUS
    <3> DEFINE z == [y.cells EXCEPT ![v.col + 1] = ch]
    <3> HIDE DEF y, x, z
    <3> QED
      BY <3>2, <3>3, <3>4 DEF Width, Text, z
  <2>3. rs \in Seq(Width(n)) /\ Len(rs) = Len(v.rows)
    <3> HIDE DEF x
    <3> QED
      BY <2>1, <2>2
  <2>4. t = [v EXCEPT !.rows = rs]
    BY <2>1 DEF v
  <2> HIDE DEF y, x, rs, t
  <2> QED
    BY <1>3, <2>1, <2>3, <2>4 DEF Whole, Screens
<1>5. Whole(n, u) /\ u.carried = t.carried
  <2> HIDE DEF t
  <2> DEFINE c == IF atEdge THEN t.cols - 1 ELSE t.col + 1
  <2>1. t.cols = n /\ n \in Nat /\ n >= 1 /\ t.col \in 0 .. n - 1 /\ t.autowrap \in BOOLEAN
    BY <1>4 DEF Whole, Screens, Positive
  <2>2. c \in 0 .. n - 1
    BY <2>1
  <2>3. u = [t EXCEPT !.col = c, !.pend = atEdge /\ t.autowrap]
    BY <1>4 DEF Whole, Screens
  <2>4. (atEdge /\ t.autowrap) \in BOOLEAN
    OBVIOUS
  <2> HIDE DEF c, u, atEdge
  <2> QED
    BY <1>4, <2>2, <2>3, <2>4 DEF Whole, Screens
<1>6. Place(s, ch) = [s |-> u, out |-> at.out]
  <2> HIDE DEF LineFeed, Quiet
  <2> QED
    BY DEF Place, at
<1> HIDE DEF u, t, v
<1> QED
  BY <1>3, <1>4, <1>5, <1>6 DEF Keeps

-----------------------------------------------------------------------------
(* Arithmetic of widths *)

\* A number is its whole rows and what is left over.
LEMMA DivMod ==
  ASSUME NEW a \in Nat, NEW n \in Positive
  PROVE  /\ a \div n \in Nat /\ a % n \in 0 .. n - 1
         /\ a = (a \div n) * n + (a % n)
<1>1. n \in Nat /\ n > 0
  BY DEF Positive
<1>2. a % n \in 0 .. n - 1 /\ a = n * (a \div n) + (a % n) /\ a \div n \in Int
  BY <1>1
<1>3. a \div n >= 0
  BY <1>1
<1> QED
  BY <1>1, <1>2, <1>3

\* Whole rows are as many as they are.
LEMMA DivExact ==
  ASSUME NEW q \in Nat, NEW n \in Positive
  PROVE  (q * n) \div n = q
<1> DEFINE a == q * n
<1>0. n \in Nat /\ n > 0 /\ a \in Nat
  BY DEF Positive
<1>1. PICK d \in Nat : a \div n = d
  <2> HIDE DEF a
  <2> QED
    BY <1>0, DivMod
<1>2. PICK m \in 0 .. n - 1 : a = d * n + m
  <2> HIDE DEF a
  <2> QED
    BY <1>0, <1>1, DivMod
<1>3. (q - d) * n = m
  BY <1>0, <1>2
<1>4. q - d \in Int /\ m \in Int /\ m < n /\ m >= 0
  BY <1>0
<1>5. ASSUME q - d >= 1 PROVE FALSE
  <2> DEFINE p == (q - d) * n
  <2>1. p >= n /\ p \in Int
    BY <1>0, <1>4, <1>5
  <2>2. p = m
    BY <1>3
  <2> HIDE DEF p
  <2> QED
    BY <1>0, <1>4, <2>1, <2>2
<1>6. ASSUME q - d <= -1 PROVE FALSE
  <2> DEFINE p == (q - d) * n
  <2>1. p < 0 /\ p \in Int
    BY <1>0, <1>4, <1>6
  <2>2. p = m
    BY <1>3
  <2> HIDE DEF p
  <2> QED
    BY <1>4, <2>1, <2>2
<1>7. q = d
  BY <1>4, <1>5, <1>6
<1> QED
  BY <1>1, <1>7

\* The cells that complete a visual row of a head at a new width (Screen::reflow).
LEMMA ToppedUp ==
  ASSUME NEW a \in Nat, NEW n \in Positive
  PROVE  /\ n - (a % n) \in 1..n
         /\ a + (n - (a % n)) = ((a \div n) + 1) * n
<1>1. PICK d \in Nat : a \div n = d
  BY DivMod
<1>2. PICK m \in 0 .. n - 1 : a % n = m /\ a = d * n + m
  BY <1>1, DivMod
<1>3. n \in Nat
  BY DEF Positive
<1>4. (d + 1) * n = d * n + n
  BY <1>3
<1> QED
  BY <1>1, <1>2, <1>3, <1>4

-----------------------------------------------------------------------------
(* A change of height *)

\* The rows in use reach down to the cursor's and no further than the screen (Screen::used).
LEMMA UsedWithin ==
  ASSUME NEW n, NEW s, Whole(n, s)
  PROVE  Used(s) \in s.row .. Len(s.rows) /\ Used(s) \in 1..Len(s.rows)
<1> DEFINE Marks == {1} \cup {r \in 1..Height(s) : HasText(s.rows[r])}
<1>1. Height(s) \in Nat /\ Height(s) = Len(s.rows) /\ Height(s) >= 1 /\ s.row \in 1..Len(s.rows)
  BY DEF Height, Whole, Screens, Positive
<1>2. Marks \in SUBSET (0..Height(s)) /\ Marks # {} /\ Marks \in SUBSET (1..Height(s))
  BY <1>1
<1>3. LastUsedRow(s) = Max(Marks)
  BY DEF LastUsedRow
<1> HIDE DEF Marks
<1>4. LastUsedRow(s) \in 1..Len(s.rows)
  BY <1>1, <1>2, <1>3, MaxBound
<1> HIDE DEF LastUsedRow
<1> QED
  BY <1>1, <1>4 DEF Used, Greatest

\* Part of a sequence is a sequence.
LEMMA PartType ==
  ASSUME NEW S, NEW s \in Seq(S), NEW i \in Positive, NEW j \in 0..Len(s), i <= j + 1
  PROVE  SubSeq(s, i, j) \in Seq(S) /\ Len(SubSeq(s, i, j)) = j + 1 - i
  BY DEF Positive

\* Blank rows are rows.
LEMMA BlankRows ==
  ASSUME NEW n \in Nat, NEW k \in Nat
  PROVE  [i \in 1..k |-> BlankRow(n)] \in Seq(Width(n)) /\ Len([i \in 1..k |-> BlankRow(n)]) = k
<1>1. BlankRow(n) \in Width(n)
  BY BlankWidth
<1> QED
  BY <1>1

\* Two sequences over a set are one over it when joined.
LEMMA Joined ==
  ASSUME NEW S, NEW p \in Seq(S), NEW q \in Seq(S)
  PROVE  p \o q \in Seq(S) /\ Len(p \o q) = Len(p) + Len(q)
  OBVIOUS

\* A row cut or padded to a width has that width (Row::resize).
LEMMA ResizedRow ==
  ASSUME NEW n \in Nat, NEW m \in Nat, NEW r \in Width(m)
  PROVE  ResizeRow(r, n) \in Width(n)
<1>1. r.cells \in Seq(Nat) /\ Len(r.cells) = m /\ r \in [cells : Text, wrapped : BOOLEAN]
  BY DEF Width, Text
<1> DEFINE cs == [i \in 1..n |-> IF i \in DOMAIN r.cells THEN r.cells[i] ELSE Blank]
<1>2. cs \in Seq(Nat) /\ Len(cs) = n
  <2>1. \A i \in 1..n : (IF i \in DOMAIN r.cells THEN r.cells[i] ELSE Blank) \in Nat
    BY <1>1 DEF Blank
  <2> QED
    BY <2>1
<1>3. ResizeRow(r, n) = [r EXCEPT !.cells = cs]
  BY DEF ResizeRow
<1> HIDE DEF cs
<1> QED
  BY <1>1, <1>2, <1>3 DEF Width, Text

\* A row number clamped to the screen is one of its rows.
LEMMA Within ==
  ASSUME NEW x \in Int, NEW h \in Positive
  PROVE  Least(Greatest(x, 1), h) \in 1..h
  BY DEF Least, Greatest, Positive

\* A change of height takes blank rows from below the content, and then rows off the top
\* (Screen::resize, Resize::Clamp).
LEMMA ClampKeeps ==
  ASSUME NEW n, NEW s, Whole(n, s), NEW h \in Positive
  PROVE  Keeps(n, s, ClampTo(s, h, n))
<1> DEFINE H == Len(s.rows)
           cells == [r \in DOMAIN s.rows |-> ResizeRow(s.rows[r], n)]
           cut == [s EXCEPT !.rows = cells, !.cols = n]
           excess == Greatest(Height(cut) - h, 0)
           spare == Least(Height(cut) - Used(cut), excess)
           shed == excess - spare
           kept == SubSeq(cut.rows, shed + 1, Height(cut) - spare)
           out == DepartedRows(SubSeq(cut.rows, 1, shed))
           grid == kept \o [i \in 1 .. h - Len(kept) |-> BlankRow(n)]
           t == [cut EXCEPT !.rows = grid, !.carried = Carry(@, out),
                            !.row = Least(Greatest(@ - shed, 1), h),
                            !.col = Least(@, n - 1)]
<1>1. /\ n \in Nat /\ n >= 1 /\ s.rows \in Seq(Width(n)) /\ H \in Nat /\ H >= 1
      /\ DOMAIN s.rows = 1..H /\ s \in Screens(n) /\ s.carried \in Nat /\ s.row \in 1..H
      /\ s.col \in 0 .. n - 1
      /\ \A r \in 1..H : s.rows[r] \in Width(n)
  BY DEF Whole, Screens, Positive
<1>2. cells \in Seq(Width(n)) /\ Len(cells) = H
  <2>1. \A r \in 1..H : ResizeRow(s.rows[r], n) \in Width(n)
    BY <1>1, ResizedRow
  <2> QED
    BY <1>1, <2>1
<1> HIDE DEF cells
<1>3. Whole(n, cut) /\ cut.rows = cells /\ Height(cut) = H /\ cut.carried = s.carried
      /\ cut.row = s.row /\ cut.col = s.col
  BY <1>1, <1>2 DEF Whole, Screens, Height
<1>4. Used(cut) \in 1..H
  <2> HIDE DEF cut
  <2> QED
    BY <1>2, <1>3, UsedWithin
<1>5. /\ h \in Nat /\ h >= 1
      /\ excess \in 0..H /\ spare \in 0..excess /\ shed \in 0..H
      /\ H - spare \in 0..H /\ shed + 1 <= (H - spare) + 1
      /\ (H - spare) + 1 - (shed + 1) = H - excess /\ H - excess <= h
  <2> HIDE DEF cut, H
  <2>1. H \in Nat /\ h \in Nat /\ h >= 1 /\ Height(cut) = H /\ Used(cut) \in Nat
        /\ 1 <= Used(cut) /\ Used(cut) <= H
    BY <1>1, <1>3, <1>4 DEF Positive
  <2>2. excess \in 0..H /\ H - excess <= h
    BY ONLY <2>1 DEF Greatest
  <2>3. spare \in 0..excess /\ spare <= H - Used(cut)
    BY ONLY <2>1, <2>2 DEF Least
  <2> HIDE DEF excess, spare
  <2> QED
    BY ONLY <2>1, <2>2, <2>3
<1>6. kept \in Seq(Width(n)) /\ Len(kept) = H - excess
  <2> HIDE DEF cut, excess, spare, shed, H
  <2>1. /\ shed + 1 \in Positive /\ H - spare \in 0..Len(cut.rows) /\ cut.rows \in Seq(Width(n))
        /\ shed + 1 <= (H - spare) + 1
    BY <1>2, <1>3, <1>5 DEF Positive
  <2>2. /\ SubSeq(cut.rows, shed + 1, H - spare) \in Seq(Width(n))
        /\ Len(SubSeq(cut.rows, shed + 1, H - spare)) = (H - spare) + 1 - (shed + 1)
    BY ONLY <2>1, PartType, Zenon
  <2>3. Height(cut) = H /\ (H - spare) + 1 - (shed + 1) = H - excess
    BY <1>3, <1>5
  <2> QED
    BY ONLY <2>2, <2>3
<1>7. out \in Seq(GoneAt(n)) /\ out \in Seq(Gone)
  <2> HIDE DEF cut, excess, spare, shed
  <2>1. SubSeq(cut.rows, 1, shed) \in Seq(Width(n))
    <3>1. /\ 1 \in Positive /\ shed \in 0..Len(cut.rows) /\ 1 <= shed + 1
          /\ cut.rows \in Seq(Width(n))
      BY <1>2, <1>3, <1>5 DEF Positive
    <3> QED
      BY ONLY <3>1, PartType, Zenon
  <2>2. out \in Seq(GoneAt(n))
    BY <1>1, <2>1, DepartedRowsType
  <2>3. \A d \in GoneAt(n) : d \in Gone
    BY DEF GoneAt
  <2> QED
    BY <2>2, <2>3, SeqWiden
<1>8. grid \in Seq(Width(n)) /\ Len(grid) = h
  <2> DEFINE k == h - Len(kept)
             blanks == [i \in 1..k |-> BlankRow(n)]
  <2>1. k \in Nat /\ Len(kept) + k = h
    <3>1. Len(kept) \in Nat /\ Len(kept) <= h /\ h \in Nat
      <4> HIDE DEF kept, excess, H
      <4> QED
        BY <1>1, <1>5, <1>6
    <3> HIDE DEF kept
    <3> QED
      BY ONLY <3>1
  <2>2. blanks \in Seq(Width(n)) /\ Len(blanks) = k
    <3> HIDE DEF k
    <3> QED
      BY <1>1, <2>1, BlankRows
  <2>3. grid = kept \o blanks
    OBVIOUS
  <2> HIDE DEF kept, blanks, k, grid
  <2> QED
    BY <1>6, <2>1, <2>2, <2>3, Joined
<1>9. Carry(s.carried, out) \in Nat
  <2> HIDE DEF out
  <2>1. [text |-> << >>, wrapped |-> FALSE] \in Gone
    BY DEF Gone, Text
  <2> QED
    BY <1>1, <1>7, <2>1, CarrySnoc
<1> DEFINE a == Least(Greatest(s.row - shed, 1), h)
           b == Least(s.col, n - 1)
           c == Carry(s.carried, out)
<1>10. a \in 1..h /\ b \in 0 .. n - 1
  <2>1. s.row - shed \in Int /\ s.col \in Int
    <3>1. shed \in Int /\ s.row \in Int /\ s.col \in Int
      <4> HIDE DEF excess, spare, H
      <4> QED
        BY <1>1, <1>5
    <3> HIDE DEF shed
    <3> QED
      BY ONLY <3>1
  <2>2. a \in 1..h
    BY <2>1, Within
  <2>3. b \in 0 .. n - 1
    BY <1>1 DEF Least
  <2> QED
    BY <2>2, <2>3
<1>11. ClampTo(s, h, n) = [s |-> ResetRegion(t), out |-> out]
  BY DEF ClampTo, cells
<1>12. t = [cut EXCEPT !.rows = grid, !.carried = c, !.row = a, !.col = b]
  <2> HIDE DEF cut, grid, out, shed
  <2> QED
    BY <1>3 DEF Whole, Screens
<1>13. Whole(n, ResetRegion(t)) /\ ResetRegion(t).carried = c
  <2> DEFINE u == [cut EXCEPT !.rows = grid, !.carried = c, !.row = a, !.col = b,
                              !.top = 1, !.bottom = h]
  <2>1. ResetRegion(t) = u
    <3> HIDE DEF cut, grid, c, a, b, t
    <3>1. t.rows = grid
      BY <1>3, <1>12 DEF Whole, Screens
    <3> QED
      BY <1>3, <1>8, <1>12, <3>1 DEF ResetRegion, Height, Whole, Screens
  <2>2. a \in Positive /\ a <= h /\ c \in Nat /\ h >= 1
    <3>1. \A x \in 1..h : x \in Positive /\ x <= h
      BY ONLY h \in Nat DEF Positive
    <3> QED
      BY <1>5, <1>9, <1>10, <3>1
  <2> HIDE DEF cut, grid, c, a, b, t
  <2> QED
    BY <1>3, <1>8, <1>10, <2>1, <2>2 DEF Whole, Screens
<1> HIDE DEF t, out
<1> QED
  BY <1>7, <1>11, <1>13 DEF Keeps

-----------------------------------------------------------------------------
(* A change of width *)

\* What holds of no elements, and of a sequence with one more, holds of every sequence.
LEMMA SnocInduction ==
  ASSUME NEW S, NEW Good \in SUBSET Seq(S), << >> \in Good,
         \A w \in Good : \A e \in S : Append(w, e) \in Good
  PROVE  Good = Seq(S)
<1> DEFINE Lengths == {n \in Nat : \A x \in Seq(S) : Len(x) = n => x \in Good}
<1>1. 0 \in Lengths
  <2>1. ASSUME NEW x \in Seq(S), Len(x) = 0 PROVE x = << >>
    BY <2>1
  <2> QED
    BY <2>1
<1>2. ASSUME NEW m \in Lengths PROVE m + 1 \in Lengths
  <2> SUFFICES ASSUME NEW x \in Seq(S), Len(x) = m + 1 PROVE x \in Good
    OBVIOUS
  <2>1. m \in Nat
    OBVIOUS
  <2>2. PICK w \in Seq(S), e \in S : x = Append(w, e) /\ Len(w) = m
    BY <2>1, Unsnoc
  <2>3. w \in Good
    BY <2>2
  <2> QED
    BY <2>2, <2>3
<1>3. Lengths = Nat
  <2> HIDE DEF Lengths
  <2> QED
    BY <1>1, <1>2, SetInduction DEF Lengths
<1>4. ASSUME NEW x \in Seq(S) PROVE x \in Good
  <2>1. Len(x) \in Lengths
    <3>1. Len(x) \in Nat
      OBVIOUS
    <3> HIDE DEF Lengths
    <3> QED
      BY <1>3, <3>1
  <2> QED
    BY <2>1
<1> QED
  BY <1>4

\* A buffer is the lines it has closed and the one it is on.
LEMMA BufferShape ==
  ASSUME NEW b \in Buffers
  PROVE  \E w \in Seq(Text), e \in Text : b = Append(w, e) /\ Len(w) + 1 = Len(b)
<1>1. PICK m \in Nat : Len(b) = m + 1
  <2>1. Len(b) \in Nat /\ Len(b) >= 1
    BY DEF Buffers
  <2>2. Len(b) - 1 \in Nat /\ Len(b) = (Len(b) - 1) + 1
    BY <2>1
  <2> QED
    BY <2>2
<1> QED
  BY <1>1, Unsnoc DEF Buffers

\* A row goes on the line a text ends with, and may open the next (Inserted).
LEMMA InsertedShape ==
  ASSUME NEW S, NEW w \in Seq(S), NEW e, NEW r, e \o r.text \in S, e \in S
  PROVE  /\ Inserted(Append(w, e), r) = IF r.newline THEN Append(Append(w, e \o r.text), << >>)
                                        ELSE Append(w, e \o r.text)
<1> DEFINE b == Append(w, e)
           x == e \o r.text
           joined == [b EXCEPT ![Len(b)] = @ \o r.text]
<1>1. Len(w) \in Nat /\ Len(b) = Len(w) + 1 /\ b \in Seq(S) /\ b[Len(b)] = e
      /\ \A i \in 1..Len(w) : b[i] = w[i]
  OBVIOUS
<1>2. joined = [b EXCEPT ![Len(b)] = x]
  BY <1>1
<1>3. x \in S
  OBVIOUS
<1> HIDE DEF x
<1>4. Append(w, x) \in Seq(S) /\ Len(Append(w, x)) = Len(w) + 1 /\ Append(w, x)[Len(w) + 1] = x
      /\ \A i \in 1..Len(w) : Append(w, x)[i] = w[i]
  BY <1>3
<1>5. [b EXCEPT ![Len(b)] = x] = Append(w, x)
  <2> DEFINE k == Len(b)
             new == [b EXCEPT ![k] = x]
  <2>1. b \in Seq(S) /\ k \in 1..Len(b) /\ k = Len(w) + 1
    BY <1>1
  <2> HIDE DEF b, k
  <2>2. new \in Seq(S) /\ Len(new) = Len(b) /\ new[k] = x
        /\ \A i \in 1..Len(b) : i # k => new[i] = b[i]
    BY <1>3, <2>1
  <2>3. Len(new) = Len(w) + 1
    BY <1>1, <2>2 DEF b
  <2>4. \A i \in 1..(Len(w) + 1) : new[i] = Append(w, x)[i]
    <3> SUFFICES ASSUME NEW i \in 1..(Len(w) + 1) PROVE new[i] = Append(w, x)[i]
      OBVIOUS
    <3>1. CASE i = Len(w) + 1
      BY <1>4, <2>1, <2>2, <3>1
    <3>2. CASE i \in 1..Len(w)
      BY <1>1, <1>4, <2>1, <2>2, <3>2
    <3> QED
      BY <1>1, <3>1, <3>2
  <2> HIDE DEF new
  <2>5. new = Append(w, x)
    BY <1>4, <2>2, <2>3, <2>4
  <2> QED
    BY <2>5 DEF new, k
<1>6. Inserted(b, r) = IF r.newline THEN Append(joined, << >>) ELSE joined
  BY DEF Inserted
<1> QED
  BY <1>2, <1>5, <1>6 DEF x

\* The same as one fact.
InsertsOnto(w, e, r) ==
  Inserted(Append(w, e), r) = IF r.newline THEN Append(Append(w, e \o r.text), << >>)
                              ELSE Append(w, e \o r.text)
LEMMA InsertedOnto ==
  ASSUME NEW S, NEW w \in Seq(S), NEW e, NEW r, e \o r.text \in S, e \in S
  PROVE  InsertsOnto(w, e, r)
  BY InsertedShape DEF InsertsOnto

\* A batch of rows never makes a text shorter.
LEMMA AppendGrows ==
  ASSUME NEW b \in Buffers, NEW rows \in Seq(Sent)
  PROVE  Len(AppendTo(b, rows)) >= Len(b)
<1> DEFINE Good == {x \in Seq(Sent) : Len(AppendTo(b, x)) >= Len(b)}
<1>1. << >> \in Good
  <2>1. PICK r : r \in Sent
    <3>1. [text |-> << >>, newline |-> TRUE] \in Sent
      BY DEF Sent, Text
    <3> QED
      BY <3>1
  <2>2. AppendTo(b, << >>) = b
    <3>1. << >> \in Seq(Sent)
      OBVIOUS
    <3> QED
      BY <2>1, <3>1, AppendSnoc
  <2>3. << >> \in Seq(Sent) /\ Len(b) \in Nat
    BY DEF Buffers
  <2> QED
    BY <2>2, <2>3
<1>2. ASSUME NEW x \in Good, NEW r \in Sent PROVE Append(x, r) \in Good
  <2>1. x \in Seq(Sent) /\ Len(AppendTo(b, x)) >= Len(b) /\ Append(x, r) \in Seq(Sent)
    OBVIOUS
  <2>2. AppendTo(b, x) \in Buffers
    BY <2>1, AppendType
  <2>3. AppendTo(b, Append(x, r)) = Inserted(AppendTo(b, x), r)
    BY <2>1, AppendSnoc
  <2> DEFINE a == AppendTo(b, x)
  <2>4. PICK w \in Seq(Text), e \in Text : a = Append(w, e) /\ Len(w) + 1 = Len(a)
    BY <2>2, BufferShape
  <2>5. e \o r.text \in Text
    BY DEF Text, Sent
  <2>6. Inserted(Append(w, e), r) = IF r.newline THEN Append(Append(w, e \o r.text), << >>)
                                    ELSE Append(w, e \o r.text)
    <3>1. InsertsOnto(w, e, r)
      BY ONLY w \in Seq(Text), e \in Text, <2>5, InsertedOnto
    <3> QED
      BY ONLY <3>1 DEF InsertsOnto
  <2>7. /\ Len(Append(w, e \o r.text)) = Len(w) + 1 /\ Len(w) \in Nat
        /\ Len(Append(Append(w, e \o r.text), << >>)) = Len(w) + 2
    <3>1. ASSUME NEW y \in Text
          PROVE  Len(Append(w, y)) = Len(w) + 1 /\ Len(w) \in Nat
                 /\ Len(Append(Append(w, y), << >>)) = Len(w) + 2
      <4>1. << >> \in Text
        BY DEF Text
      <4> QED
        BY <4>1
    <3> QED
      BY <2>5, <3>1
  <2>8. Len(Inserted(a, r)) >= Len(a)
    <3> HIDE DEF a
    <3> QED
      BY <2>4, <2>6, <2>7
  <2>9. Len(a) \in Nat /\ Len(b) \in Nat /\ Len(Inserted(a, r)) \in Nat
    <3>1. Inserted(a, r) \in Buffers
      BY <2>2, InsertedFacts
    <3> QED
      BY <2>2, <3>1 DEF Buffers
  <2>10. Len(Inserted(a, r)) >= Len(b)
    <3>1. Len(a) >= Len(b)
      BY <2>1
    <3> HIDE DEF a
    <3> QED
      BY <2>8, <2>9, <3>1
  <2> HIDE DEF a
  <2> QED
    BY <2>1, <2>3, <2>10 DEF a
<1>3. Good = Seq(Sent)
  <2> HIDE DEF Good
  <2>1. Good \in SUBSET Seq(Sent)
    BY DEF Good
  <2> QED
    BY <1>1, <1>2, <2>1, SnocInduction
<1> QED
  BY <1>3

\* A sequence is its first elements and the rest.
LEMMA SplitSeq ==
  ASSUME NEW S, NEW s \in Seq(S), NEW k \in 0..Len(s)
  PROVE  /\ s = SubSeq(s, 1, k) \o SubSeq(s, k + 1, Len(s))
         /\ SubSeq(s, 1, k) \in Seq(S) /\ Len(SubSeq(s, 1, k)) = k
         /\ SubSeq(s, k + 1, Len(s)) \in Seq(S) /\ Len(SubSeq(s, k + 1, Len(s))) = Len(s) - k
         /\ \A i \in 1..k : SubSeq(s, 1, k)[i] = s[i]
         /\ \A i \in 1..(Len(s) - k) : SubSeq(s, k + 1, Len(s))[i] = s[k + i]
<1> DEFINE front == SubSeq(s, 1, k)
           rest == SubSeq(s, k + 1, Len(s))
<1>1. k \in Nat /\ Len(s) \in Nat /\ k <= Len(s)
  OBVIOUS
<1>2. /\ front \in Seq(S) /\ Len(front) = k
      /\ \A i \in 1..k : front[i] = s[i]
  BY <1>1
<1>3. /\ rest \in Seq(S) /\ Len(rest) = Len(s) - k
      /\ \A i \in 1..(Len(s) - k) : rest[i] = s[k + i]
  BY <1>1
<1>4. /\ Len(front \o rest) = Len(s) /\ front \o rest \in Seq(S)
      /\ \A i \in 1..Len(s) : (front \o rest)[i] = s[i]
  <2> HIDE DEF front, rest
  <2>1. /\ Len(front \o rest) = Len(front) + Len(rest) /\ front \o rest \in Seq(S)
        /\ \A i \in 1..Len(front) : (front \o rest)[i] = front[i]
        /\ \A i \in 1..Len(rest) : (front \o rest)[Len(front) + i] = rest[i]
    BY <1>2, <1>3
  <2>2. ASSUME NEW i \in 1..Len(s) PROVE (front \o rest)[i] = s[i]
    <3>1. CASE i <= k
      <4>1. i \in 1..Len(front) /\ i \in 1..k
        BY <1>1, <1>2, <3>1
      <4> QED
        BY <1>2, <2>1, <4>1
    <3>2. CASE i > k
      <4>1. i - k \in 1..(Len(s) - k) /\ k + (i - k) = i
        BY <1>1, <3>2
      <4>2. (front \o rest)[k + (i - k)] = rest[i - k] /\ rest[i - k] = s[k + (i - k)]
        <5>1. i - k \in 1..Len(rest) /\ Len(front) = k
          BY <1>2, <1>3, <4>1
        <5> QED
          BY <1>2, <1>3, <2>1, <4>1, <5>1
      <4> QED
        BY <4>1, <4>2
    <3>3. i <= k \/ i > k
      BY <1>1
    <3> QED
      BY <3>1, <3>2, <3>3
  <2>3. Len(front \o rest) = Len(s)
    BY <1>1, <1>2, <1>3, <2>1
  <2> QED
    BY <2>1, <2>2, <2>3
<1>5. s = front \o rest
  <2> DEFINE both == front \o rest
  <2>1. both \in Seq(S) /\ Len(both) = Len(s) /\ \A i \in 1..Len(s) : both[i] = s[i]
    BY <1>4
  <2> HIDE DEF both
  <2>2. s = both
    BY <1>1, <2>1
  <2> QED
    BY <2>2 DEF both
<1> QED
  BY <1>2, <1>3, <1>5

\* The same as one fact, to be cited where the parts are not wanted at once.
TwoParts(S, s, k) ==
  /\ s = SubSeq(s, 1, k) \o SubSeq(s, k + 1, Len(s))
  /\ SubSeq(s, 1, k) \in Seq(S) /\ Len(SubSeq(s, 1, k)) = k
  /\ SubSeq(s, k + 1, Len(s)) \in Seq(S) /\ Len(SubSeq(s, k + 1, Len(s))) = Len(s) - k
  /\ \A i \in 1..k : SubSeq(s, 1, k)[i] = s[i]
  /\ \A i \in 1..(Len(s) - k) : SubSeq(s, k + 1, Len(s))[i] = s[k + i]
LEMMA SplitIn ==
  ASSUME NEW S, NEW s \in Seq(S), NEW k \in 0..Len(s)
  PROVE  TwoParts(S, s, k)
  BY ONLY s \in Seq(S), k \in 0..Len(s), SplitSeq DEF TwoParts

\* The rows in use as they are gathered into lines (Logical::push_row).
LEMMA PiecesFacts ==
  ASSUME NEW n, NEW s, Whole(n, s), NEW k \in 0..Len(s.rows)
  PROVE  /\ Pieces(s, k) \in Seq(Sent) /\ Len(Pieces(s, k)) = k
         /\ \A r \in 1..k : Pieces(s, k)[r] = [text |-> LineCells(s.rows[r]),
                                               newline |-> ~s.rows[r].wrapped /\ r < Used(s)]
<1>1. /\ n \in Nat /\ k \in Nat /\ Len(s.rows) \in Nat /\ k <= Len(s.rows)
      /\ \A r \in 1..Len(s.rows) : s.rows[r] \in Width(n)
  BY DEF Whole, Screens, Positive
<1>2. ASSUME NEW r \in Width(n) PROVE LineCells(r) \in Text
  <2>1. Departed(r) \in GoneAt(n) /\ Departed(r).text = LineCells(r)
    BY <1>1, DepartedAt DEF Departed
  <2> QED
    BY <2>1 DEF GoneAt, Gone
<1> DEFINE Piece(r) == [text |-> LineCells(s.rows[r]), newline |-> ~s.rows[r].wrapped /\ r < Used(s)]
<1>3. ASSUME NEW r \in 1..k PROVE Piece(r) \in Sent
  <2>1. LineCells(s.rows[r]) \in Text
    BY <1>1, <1>2
  <2>2. (~s.rows[r].wrapped /\ r < Used(s)) \in BOOLEAN
    OBVIOUS
  <2> QED
    BY <2>1, <2>2 DEF Sent
<1>4. Pieces(s, k) = [r \in 1..k |-> Piece(r)]
  BY DEF Pieces
<1> HIDE DEF Piece
<1>5. /\ Pieces(s, k) \in Seq(Sent) /\ Len(Pieces(s, k)) = k
      /\ \A r \in 1..k : Pieces(s, k)[r] = Piece(r)
  BY <1>1, <1>3, <1>4
<1> QED
  BY <1>5 DEF Piece

\* The pieces of the first rows come first among those of more.
LEMMA PiecesPrefix ==
  ASSUME NEW n, NEW s, Whole(n, s), NEW k \in 0..Len(s.rows), NEW j \in 0..k
  PROVE  /\ Pieces(s, k) = Pieces(s, j) \o SubSeq(Pieces(s, k), j + 1, k)
         /\ SubSeq(Pieces(s, k), j + 1, k) \in Seq(Sent)
<1> DEFINE p == Pieces(s, k)
           q == Pieces(s, j)
           more == SubSeq(p, j + 1, Len(p))
<1>1. k \in Nat /\ j \in Nat /\ j <= k /\ Len(s.rows) \in Nat /\ j \in 0..Len(s.rows)
  BY DEF Whole, Screens
<1>2. /\ p \in Seq(Sent) /\ Len(p) = k
      /\ \A r \in 1..k : p[r] = [text |-> LineCells(s.rows[r]),
                                 newline |-> ~s.rows[r].wrapped /\ r < Used(s)]
  BY PiecesFacts
<1>3. /\ q \in Seq(Sent) /\ Len(q) = j
      /\ \A r \in 1..j : q[r] = [text |-> LineCells(s.rows[r]),
                                 newline |-> ~s.rows[r].wrapped /\ r < Used(s)]
  BY <1>1, PiecesFacts
<1> HIDE DEF p, q
<1>4. /\ p = SubSeq(p, 1, j) \o more /\ SubSeq(p, 1, j) \in Seq(Sent) /\ Len(SubSeq(p, 1, j)) = j
      /\ more \in Seq(Sent) /\ \A i \in 1..j : SubSeq(p, 1, j)[i] = p[i]
  <2>1. p \in Seq(Sent) /\ j \in 0..Len(p)
    BY ONLY <1>1, <1>2
  <2>2. TwoParts(Sent, p, j)
    BY ONLY <2>1, SplitIn
  <2> QED
    BY ONLY <2>2 DEF TwoParts
<1>5. SubSeq(p, 1, j) = q
  BY <1>1, <1>2, <1>3, <1>4
<1> QED
  BY <1>2, <1>4, <1>5 DEF p, q

\* Lines as the rewrap gathers them, with the cursor in one of them.
Lined(logical) ==
  /\ logical.lines \in Seq(Text) /\ logical.offset \in Nat /\ logical.at \in Positive
  /\ Len(logical.lines) # 0 => logical.at <= Len(logical.lines)

\* A line padded with blanks to a length is text.
LEMMA PaddedType ==
  ASSUME NEW line \in Text, NEW k \in Int
  PROVE  line \o [i \in 1 .. Greatest(k, 0) |-> Blank] \in Text
<1> DEFINE m == Greatest(k, 0)
           pad == [i \in 1..m |-> Blank]
<1>1. m \in Nat
  BY DEF Greatest
<1> HIDE DEF m
<1>2. pad \in Seq(Nat)
  BY <1>1 DEF Blank
<1> HIDE DEF pad
<1>3. line \o pad \in Text
  BY <1>2 DEF Text
<1> QED
  BY <1>3 DEF pad, m

\* What the rewrap gathers of a screen: the lines of the rows above the cursor's, of all
\* the rows in use, and where the cursor is among them.
Gathered(s, before, gathered, at, offset) ==
  /\ before = AppendTo(Emptied, Pieces(s, s.row - 1)) /\ before \in Buffers
  /\ gathered = AppendTo(Emptied, Pieces(s, Used(s))) /\ gathered \in Buffers
  /\ at = Len(before) /\ at \in 1..Len(gathered)
  /\ offset = Len(Last(before)) + s.col + (IF s.pend THEN 1 ELSE 0) /\ offset \in Nat
  /\ LogicalLines(s) =
       [lines |-> [gathered EXCEPT
                     ![at] = @ \o [k \in 1 .. Greatest(offset - Len(@), 0) |-> Blank]],
        at |-> at, offset |-> offset]

LEMMA LogicalGathered ==
  ASSUME NEW n, NEW s, Whole(n, s)
  PROVE  \E before, gathered, at, offset : Gathered(s, before, gathered, at, offset)
<1> DEFINE before == AppendTo(Emptied, Pieces(s, s.row - 1))
           gathered == AppendTo(Emptied, Pieces(s, Used(s)))
           at == Len(before)
           offset == Len(before[at]) + s.col + (IF s.pend THEN 1 ELSE 0)
<1>1. /\ Len(s.rows) \in Nat /\ s.row \in 1..Len(s.rows) /\ s.col \in Nat
      /\ Used(s) \in s.row..Len(s.rows)
  <2>1. Len(s.rows) \in Nat /\ s.row \in 1..Len(s.rows) /\ s.col \in Nat
    BY DEF Whole, Screens, Positive
  <2> QED
    BY <2>1, UsedWithin
<1>2. /\ s.row - 1 \in 0..Len(s.rows) /\ Used(s) \in 0..Len(s.rows) /\ s.row - 1 \in 0..Used(s)
  BY <1>1
<1>3. Emptied \in Buffers
  <2>1. << >> \in Text
    BY DEF Text
  <2> QED
    BY <2>1 DEF Emptied, Buffers
<1>4. Pieces(s, s.row - 1) \in Seq(Sent)
  BY <1>2, PiecesFacts
<1>5. PICK more \in Seq(Sent) : Pieces(s, Used(s)) = Pieces(s, s.row - 1) \o more
  <2> DEFINE more == SubSeq(Pieces(s, Used(s)), (s.row - 1) + 1, Used(s))
  <2>1. Pieces(s, Used(s)) = Pieces(s, s.row - 1) \o more /\ more \in Seq(Sent)
    BY <1>2, PiecesPrefix
  <2> HIDE DEF more
  <2> QED
    BY <2>1
<1>6. before \in Buffers
  BY <1>3, <1>4, AppendType
<1>7. gathered = AppendTo(before, more)
  <2>1. AppendTo(Emptied, Pieces(s, s.row - 1) \o more) = AppendTo(before, more)
    BY <1>4, AppendBoth
  <2> QED
    BY <1>5, <2>1
<1> HIDE DEF before
<1>8. gathered \in Buffers /\ Len(gathered) >= Len(before)
  BY <1>5, <1>6, <1>7, AppendType, AppendGrows
<1>9. at \in 1..Len(gathered)
  <2>1. Len(before) \in Nat /\ Len(before) >= 1 /\ Len(gathered) \in Nat
    BY <1>6, <1>8 DEF Buffers
  <2> HIDE DEF gathered
  <2> QED
    BY <1>8, <2>1
<1>10. before[at] = Last(before) /\ Last(before) \in Text
  BY <1>6 DEF Last, Buffers
<1>11. offset \in Nat
  <2>1. Len(before[at]) \in Nat
    BY <1>10 DEF Text
  <2> HIDE DEF at
  <2> QED
    BY <1>1, <2>1
<1>12. LogicalLines(s) =
         [lines |-> [gathered EXCEPT
                       ![at] = @ \o [k \in 1 .. Greatest(offset - Len(@), 0) |-> Blank]],
          at |-> at, offset |-> offset]
  BY DEF LogicalLines, before
<1>13. Gathered(s, before, gathered, at, offset)
  <2>1. offset = Len(Last(before)) + s.col + (IF s.pend THEN 1 ELSE 0)
    BY <1>10
  <2> HIDE DEF offset, at, gathered
  <2> QED
    BY <1>6, <1>8, <1>9, <1>11, <1>12, <2>1 DEF Gathered, gathered, at, before
<1> QED
  BY <1>13

\* The logical lines of a screen are lines, at least one, and the cursor is in one of them.
LEMMA LogicalFacts ==
  ASSUME NEW n, NEW s, Whole(n, s)
  PROVE  Lined(LogicalLines(s)) /\ Len(LogicalLines(s).lines) >= 1
<1>1. PICK before, gathered, at, offset : Gathered(s, before, gathered, at, offset)
  BY LogicalGathered
<1> DEFINE line == gathered[at] \o [k \in 1 .. Greatest(offset - Len(gathered[at]), 0) |-> Blank]
           ls == [gathered EXCEPT ![at] = line]
<1>2. /\ gathered \in Seq(Text) /\ Len(gathered) \in Nat /\ Len(gathered) >= 1
      /\ at \in 1..Len(gathered) /\ gathered[at] \in Text /\ offset \in Nat
  BY <1>1 DEF Gathered, Buffers
<1>3. line \in Text
  <2>1. offset - Len(gathered[at]) \in Int
    BY <1>2 DEF Text
  <2> QED
    BY <1>2, <2>1, PaddedType
<1>4. LogicalLines(s) = [lines |-> ls, at |-> at, offset |-> offset]
  BY <1>1 DEF Gathered
<1> HIDE DEF line
<1>5. ls \in Seq(Text) /\ Len(ls) = Len(gathered)
  BY <1>2, <1>3
<1> HIDE DEF ls
<1>6. at \in Positive /\ at <= Len(ls)
  BY <1>2, <1>5 DEF Positive
<1> QED
  BY <1>2, <1>4, <1>5, <1>6 DEF Lined

\* A line is laid out in rows of the new width (Logical::chunk).
LEMMA ChunkType ==
  ASSUME NEW n \in Positive, NEW line \in Text
  PROVE  Chunk(line, n) \in Seq(Width(n)) /\ Len(Chunk(line, n)) >= 1
<1> DEFINE k == Greatest(1, (Len(line) + n - 1) \div n)
           Cell(j, i) == LET at == (j - 1) * n + i
                         IN  IF at <= Len(line) THEN line[at] ELSE Blank
           Laid(j) == [cells |-> [i \in 1..n |-> Cell(j, i)], wrapped |-> j < k]
           laid == [j \in 1..k |-> Laid(j)]
<1>0. n \in Nat /\ n >= 1 /\ line \in Seq(Nat) /\ Len(line) \in Nat
  BY DEF Positive, Text
<1>1. k \in Nat /\ k >= 1
  <2>1. Len(line) + n - 1 \in Nat
    BY <1>0
  <2>2. (Len(line) + n - 1) \div n \in Nat
    BY <2>1, DivMod
  <2> QED
    BY <2>2 DEF Greatest
<1> HIDE DEF k
<1>2. ASSUME NEW j \in 1..k, NEW i \in 1..n PROVE Cell(j, i) \in Nat
  <2>1. (j - 1) * n \in Nat
    <3>1. j - 1 \in Nat
      BY <1>1
    <3>2. ASSUME NEW a \in Nat, NEW b \in Nat PROVE a * b \in Nat
      OBVIOUS
    <3> QED
      BY <1>0, <3>1, <3>2
  <2> DEFINE q == (j - 1) * n
  <2>2. q \in Nat
    BY <2>1
  <2>3. Cell(j, i) = IF q + i <= Len(line) THEN line[q + i] ELSE Blank
    OBVIOUS
  <2> HIDE DEF q, Cell
  <2>4. CASE q + i <= Len(line)
    <3>1. q + i \in 1..Len(line)
      BY <1>0, <2>2, <2>4
    <3> QED
      BY <1>0, <2>3, <2>4, <3>1
  <2>5. CASE ~(q + i <= Len(line))
    BY <2>3, <2>5 DEF Blank
  <2> QED
    BY <2>4, <2>5
<1> HIDE DEF Cell
<1>3. ASSUME NEW j \in 1..k PROVE Laid(j) \in Width(n)
  <2> DEFINE cs == [i \in 1..n |-> Cell(j, i)]
  <2>1. cs \in Seq(Nat) /\ Len(cs) = n
    BY <1>0, <1>2
  <2>2. Laid(j) = [cells |-> cs, wrapped |-> j < k]
    OBVIOUS
  <2> HIDE DEF cs, Laid
  <2>3. (j < k) \in BOOLEAN
    OBVIOUS
  <2> QED
    BY <2>1, <2>2, <2>3 DEF Width, Text
<1> HIDE DEF Laid
<1>4. laid \in Seq(Width(n)) /\ Len(laid) = k
  BY <1>1, <1>3
<1>5. Chunk(line, n) = laid
  BY DEF Chunk, k, Laid, Cell
<1> HIDE DEF laid
<1> QED
  BY <1>1, <1>4, <1>5

\* So are all the lines.
LEMMA RelaidType ==
  ASSUME NEW n \in Positive, NEW ls \in Seq(Text)
  PROVE  Relaid(ls, n) \in Seq(Width(n))
<1> DEFINE parts == [i \in DOMAIN ls |-> Chunk(ls[i], n)]
<1>1. \A i \in 1..Len(ls) : Chunk(ls[i], n) \in Seq(Width(n))
  BY ChunkType
<1>2. parts \in Seq(Seq(Width(n)))
  BY <1>1
<1>3. Relaid(ls, n) = FlattenSeq(parts)
  BY DEF Relaid
<1> HIDE DEF parts
<1> QED
  BY <1>2, <1>3, FlattenType

\* Where a cursor may land: in some column of the new width.
Spot(n, c) == c.row \in Int /\ c.col \in 0 .. n - 1 /\ c.pend \in BOOLEAN

\* The cursor lands in a column of the new width (screen.rs place).
LEMMA LandingSpot ==
  ASSUME NEW n \in Positive, NEW logical, Lined(logical)
  PROVE  Spot(n, Landing(logical, n))
<1>0. n \in Nat /\ n >= 1 /\ logical.lines \in Seq(Text) /\ Len(logical.lines) \in Nat
      /\ logical.offset \in Nat
  BY DEF Positive, Lined
<1>1. CASE logical.lines = << >>
  <2>1. Landing(logical, n) = [row |-> 1, col |-> 0, pend |-> FALSE]
    BY <1>1 DEF Landing
  <2> QED
    BY <1>0, <2>1 DEF Spot
<1>2. CASE logical.lines # << >>
  <2> DEFINE chunks == Len(Chunk(logical.lines[logical.at], n))
             cursor == CursorAt(logical.offset, n, chunks)
             before == SubSeq(logical.lines, 1, logical.at - 1)
             above == Len(Relaid(before, n))
  <2>1. Len(logical.lines) # 0 /\ logical.at \in 1..Len(logical.lines)
    <3>1. Len(logical.lines) # 0
      BY <1>0, <1>2
    <3> QED
      BY <1>0, <3>1 DEF Lined, Positive
  <2>2. chunks \in Nat
    <3>1. logical.lines[logical.at] \in Text
      BY <1>0, <2>1
    <3>2. Chunk(logical.lines[logical.at], n) \in Seq(Width(n))
      BY <3>1, ChunkType
    <3> QED
      BY <3>2
  <2>3. above \in Nat
    <3>1. before \in Seq(Text)
      BY <1>0, <2>1
    <3>2. Relaid(before, n) \in Seq(Width(n))
      <4> HIDE DEF before
      <4> QED
        BY <3>1, RelaidType
    <3> QED
      BY <3>2
  <2> HIDE DEF chunks, above
  <2>4. cursor \in [row : Int, col : 0 .. n - 1, pend : BOOLEAN]
    <3>1. PICK q \in Nat : logical.offset \div n = q
      BY <1>0, DivMod
    <3>2. PICK m \in 0 .. n - 1 : logical.offset % n = m
      BY <1>0, DivMod
    <3>3. Least(q, chunks - 1) + 1 \in Int
      BY <2>2, <3>1 DEF Least
    <3> QED
      BY <1>0, <3>1, <3>2, <3>3 DEF CursorAt
  <2>5. Landing(logical, n) = [cursor EXCEPT !.row = @ + above]
    BY <1>2 DEF Landing, above, chunks
  <2> HIDE DEF cursor
  <2> QED
    BY <2>3, <2>4, <2>5 DEF Spot
<1> QED
  BY <1>1, <1>2

\* What does not fit leaves off the top, whole rows or ends of lines, and is counted
\* from the whole rows Emacs has (Screen::reflow).
LEMMA FitKeeps ==
  ASSUME NEW m, NEW s, Whole(m, s), NEW h \in Positive, NEW n \in Positive,
         NEW grid \in Seq(Width(n)), NEW c, Spot(n, c), NEW told \in Nat
  PROVE  LET kept == Fit(s, h, n, grid, c, told)
         IN  /\ Whole(n, kept.s) /\ kept.out \in Seq(GoneAt(n))
             /\ kept.s.carried = Carry(told \div n, kept.out)
<1> DEFINE G == Len(grid)
           over == Greatest(G - h, 0)
           out == DepartedRows(SubSeq(grid, 1, over))
           k == Greatest(h - G, 0)
           spare == [i \in 1..k |-> BlankRow(n)]
           rest == SubSeq(grid, over + 1, G)
           rs == rest \o spare
           a == Least(Greatest(c.row - over, 1), h)
           count == Carry(told \div n, out)
           t == [s EXCEPT !.rows = rs, !.cols = n, !.row = a, !.col = c.col, !.pend = c.pend,
                          !.carried = count]
<1>0. n \in Nat /\ n >= 1 /\ h \in Nat /\ h >= 1 /\ G \in Nat
  BY DEF Positive
<1>1. over \in 0..G /\ k \in Nat /\ (G - over) + k = h
  <2> HIDE DEF G
  <2> QED
    BY <1>0 DEF Greatest
<1> HIDE DEF over, k
<1>2. out \in Seq(GoneAt(n)) /\ out \in Seq(Gone)
  <2>1. 1 \in Positive /\ 1 <= over + 1
    BY <1>1 DEF Positive
  <2>2. SubSeq(grid, 1, over) \in Seq(Width(n))
    BY <1>1, <2>1, PartType
  <2>3. out \in Seq(GoneAt(n))
    BY <1>0, <2>2, DepartedRowsType
  <2>4. \A d \in GoneAt(n) : d \in Gone
    BY DEF GoneAt
  <2> HIDE DEF out
  <2> QED
    BY <2>3, <2>4, SeqWiden
<1> HIDE DEF out
<1>3. rest \in Seq(Width(n)) /\ Len(rest) = G - over
  <2>1. over + 1 \in Positive /\ G \in 0..Len(grid) /\ over + 1 <= G + 1
    <3>1. over + 1 \in Positive /\ over + 1 <= G + 1
      <4> HIDE DEF G
      <4> QED
        BY <1>0, <1>1 DEF Positive
    <3> QED
      BY <1>0, <3>1
  <2>2. rest \in Seq(Width(n)) /\ Len(rest) = G + 1 - (over + 1)
    BY <2>1, PartType
  <2> HIDE DEF rest, G
  <2> QED
    BY <1>0, <1>1, <2>2
<1>4. spare \in Seq(Width(n)) /\ Len(spare) = k
  BY <1>0, <1>1, BlankRows
<1>5. rs \in Seq(Width(n)) /\ Len(rs) = h
  <2> HIDE DEF rest, spare, G
  <2> QED
    BY <1>1, <1>3, <1>4, Joined
<1> HIDE DEF rs
<1>6. a \in 1..h
  <2>1. c.row - over \in Int
    BY <1>1 DEF Spot
  <2> QED
    BY <2>1, Within
<1> HIDE DEF a
<1>7. count \in Nat
  <2>1. told \div n \in Nat
    BY DivMod
  <2>2. [text |-> << >>, wrapped |-> FALSE] \in Gone
    BY DEF Gone, Text
  <2> QED
    BY <1>2, <2>1, <2>2, CarrySnoc
<1> HIDE DEF count
<1>8. Fit(s, h, n, grid, c, told) = [s |-> ResetRegion(t), out |-> out]
  BY DEF Fit, out, over, k, rs, a, count
<1>9. Whole(n, ResetRegion(t)) /\ ResetRegion(t).carried = count
  <2> DEFINE u == [s EXCEPT !.rows = rs, !.cols = n, !.row = a, !.col = c.col, !.pend = c.pend,
                            !.carried = count, !.top = 1, !.bottom = h]
  <2>1. ResetRegion(t) = u
    <3>1. t.rows = rs
      BY DEF Whole, Screens
    <3>2. ResetRegion(t) = [t EXCEPT !.top = 1, !.bottom = h]
      <4> HIDE DEF t
      <4> QED
        BY <1>5, <3>1 DEF ResetRegion, Height
    <3> QED
      BY <3>2 DEF Whole, Screens
  <2>2. a \in Positive /\ a <= h
    BY <1>0, <1>6 DEF Positive
  <2>3. c.col \in 0 .. n - 1 /\ c.pend \in BOOLEAN
    BY DEF Spot
  <2>4. u \in Screens(n) /\ u.rows = rs /\ u.row = a /\ u.bottom = h /\ u.carried = count
    BY <1>0, <1>5, <1>7, <2>2, <2>3 DEF Whole, Screens
  <2> HIDE DEF u, t
  <2> QED
    BY <1>0, <1>5, <2>1, <2>2, <2>4 DEF Whole
<1> HIDE DEF t
<1> DEFINE made == ResetRegion(t)
<1>10. Fit(s, h, n, grid, c, told).s = made /\ Fit(s, h, n, grid, c, told).out = out
  BY <1>8
<1>11. Whole(n, made) /\ made.carried = Carry(told \div n, out)
  BY <1>9 DEF count
<1> HIDE DEF made
<1> QED
  BY <1>2, <1>10, <1>11

\* One departed row, sent as wrapped rows are joined: its text goes on the open line, or
\* ends it.
LEMMA OneSent ==
  ASSUME NEW b \in Buffers, NEW d \in Gone
  PROVE  Last(AppendTo(b, Onto(TRUE, << d >>))) = IF d.wrapped THEN Last(b) \o d.text ELSE << >>
<1>1. << >> \in Seq(Gone) /\ << >> \in Seq(Sent) /\ << d >> = Append(<< >>, d)
  OBVIOUS
<1>2. Onto(TRUE, << d >>) = Append(<< >>, SentAs(TRUE, d))
  BY <1>1, OntoFacts
<1>3. SentAs(TRUE, d) \in Sent /\ SentAs(TRUE, d).text = d.text
      /\ SentAs(TRUE, d).newline = ~d.wrapped /\ d.wrapped \in BOOLEAN
  BY SentType DEF Gone
<1>4. AppendTo(b, Onto(TRUE, << d >>)) = Inserted(b, SentAs(TRUE, d))
  <2>1. ASSUME NEW r \in Sent
        PROVE  AppendTo(b, Append(<< >>, r)) = Inserted(b, r)
    <3>1. AppendTo(b, << >>) = b
      BY <1>1, AppendSnoc
    <3>2. ASSUME NEW v \in Seq(Sent)
          PROVE  AppendTo(b, Append(v, r)) = Inserted(AppendTo(b, v), r)
      BY AppendSnoc
    <3> QED
      BY <1>1, <3>1, <3>2
  <2> QED
    BY <1>2, <1>3, <2>1
<1> QED
  BY <1>3, <1>4, InsertedFacts

\* The head in Emacs is whole rows at width n, and a buffer that held `told` of it holds it.
Aligned(told, n, seam) ==
  /\ Lined(seam.logical) /\ seam.out \in Seq(Gone) /\ seam.head \in Nat
  /\ seam.head = (seam.head \div n) * n
  /\ \A b \in Buffers :
       Len(Last(b)) = told => Len(Last(AppendTo(b, Onto(TRUE, seam.out)))) = seam.head

\* The head in Emacs is topped up to whole rows of the new width, or its line ends there
\* (Screen::reflow's middle).
LEMMA RealignFacts ==
  ASSUME NEW logical, Lined(logical), Len(logical.lines) >= 1, NEW told \in Nat, NEW n \in Positive,
         NEW seam, seam = Realign(logical, told, n)
  PROVE  Aligned(told, n, seam)
<1> DEFINE ls == logical.lines
           first == ls[1]
           part == n - (told % n)
           split == Least(part, Len(first))
           ends == split = Len(first)
           fragment == [cells |-> SubSeq(first, 1, split), wrapped |-> ~ends]
           rest == SubSeq(first, split + 1, Len(first))
           offset == IF logical.at = 1 THEN Greatest(logical.offset - split, 0) ELSE logical.offset
           d == Departed(fragment)
<1>0. n \in Nat /\ n >= 1 /\ ls \in Seq(Text) /\ Len(ls) \in Nat /\ Len(ls) >= 1
      /\ logical.offset \in Nat /\ logical.at \in 1..Len(ls) /\ first \in Text
  <2>1. ls \in Seq(Text) /\ Len(ls) >= 1 /\ logical.at \in Nat /\ logical.at >= 1
        /\ logical.at <= Len(ls) /\ logical.offset \in Nat
    BY DEF Lined, Positive
  <2> QED
    BY <2>1 DEF Positive
<1>1. CASE told % n = 0
  <2>1. seam.logical = logical /\ seam.head = told /\ seam.out = << >>
    BY <1>1 DEF Realign
  <2>2. told = (told \div n) * n
    <3>1. PICK d0 \in Nat : told \div n = d0
      BY DivMod
    <3>2. told = d0 * n + (told % n)
      BY <3>1, DivMod
    <3>3. d0 * n \in Nat
      <4>1. ASSUME NEW x \in Nat, NEW y \in Nat PROVE x * y \in Nat
        OBVIOUS
      <4> QED
        BY <1>0, <4>1
    <3>4. ASSUME NEW x \in Nat, told = x + (told % n) PROVE told = x
      BY <1>1, <3>4
    <3> QED
      BY <3>1, <3>2, <3>3, <3>4
  <2>3. ASSUME NEW b \in Buffers PROVE AppendTo(b, Onto(TRUE, << >>)) = b
    <3>1. Onto(TRUE, << >>) = << >>
      BY OntoFacts
    <3>2. << >> \in Seq({0}) /\ 0 \in {0}
      OBVIOUS
    <3> QED
      BY <3>1, <3>2, AppendSnoc
  <2>4. << >> \in Seq(Gone)
    OBVIOUS
  <2> QED
    BY <2>1, <2>2, <2>3, <2>4 DEF Aligned
<1>2. CASE told % n # 0
  <2>1. part \in 1..n /\ told + part = ((told \div n) + 1) * n
    BY ToppedUp
  <2>2. seam = [logical |-> [lines |-> IF ends THEN Tail(ls) ELSE <<rest>> \o Tail(ls),
                             at |-> IF ends THEN Greatest(logical.at - 1, 1) ELSE logical.at,
                             offset |-> offset],
                head |-> IF ends THEN 0 ELSE told + split,
                out |-> << d >>]
    BY <1>2 DEF Realign
  <2> HIDE DEF part
  <2>3. /\ first \in Seq(Nat) /\ Len(first) \in Nat /\ split \in 0..Len(first)
        /\ (~ends => split = part)
    <3>1. first \in Seq(Nat) /\ Len(first) \in Nat
      BY <1>0 DEF Text
    <3> HIDE DEF first
    <3>2. part \in Nat
      BY <1>0, <2>1
    <3> QED
      BY <3>1, <3>2 DEF Least
  <2>4. fragment \in Width(split)
    <3>1. SubSeq(first, 1, split) \in Seq(Nat) /\ Len(SubSeq(first, 1, split)) = split
      <4> HIDE DEF first, split
      <4>1. 1 \in Positive /\ 1 <= split + 1
        BY <2>3 DEF Positive
      <4>2. Len(SubSeq(first, 1, split)) = split + 1 - 1 /\ SubSeq(first, 1, split) \in Seq(Nat)
        BY <2>3, <4>1, PartType
      <4> QED
        BY <2>3, <4>2
    <3> DEFINE cs == SubSeq(first, 1, split)
    <3>2. (~ends) \in BOOLEAN
      OBVIOUS
    <3>3. cs \in Seq(Nat) /\ Len(cs) = split /\ fragment = [cells |-> cs, wrapped |-> ~ends]
      BY <3>1
    <3> HIDE DEF cs, split, ends, fragment
    <3> QED
      BY <3>2, <3>3 DEF Width, Text
  <2>5. d \in Gone /\ d.wrapped = ~ends /\ (d.wrapped => Len(d.text) = split) /\ d.text \in Text
    <3>1. d.wrapped = ~ends
      BY DEF Departed
    <3>2. split \in Nat
      BY <2>3
    <3>3. d \in GoneAt(split)
      <4> HIDE DEF split, fragment
      <4> QED
        BY <2>4, <3>2, DepartedAt
    <3> HIDE DEF split, d
    <3> QED
      BY <3>1, <3>3 DEF GoneAt, Gone
  <2> HIDE DEF d, fragment
  <2>6. rest \in Text
    <3> HIDE DEF first, split
    <3>1. split + 1 \in Positive /\ Len(first) \in 0..Len(first) /\ split + 1 <= Len(first) + 1
      BY <2>3 DEF Positive
    <3> QED
      BY <2>3, <3>1, PartType DEF Text
  <2>7. offset \in Nat
    <3>1. split \in Nat
      BY <2>3
    <3> HIDE DEF split
    <3> QED
      BY <1>0, <3>1 DEF Greatest
  <2> HIDE DEF rest, offset
  <2>8. Tail(ls) \in Seq(Text) /\ Len(Tail(ls)) = Len(ls) - 1
    <3>1. ASSUME NEW q \in Seq(Text), Len(q) >= 1
          PROVE  Tail(q) \in Seq(Text) /\ Len(Tail(q)) = Len(q) - 1
      BY <3>1
    <3> HIDE DEF ls
    <3> QED
      BY <1>0, <3>1
  <2>9. Lined(seam.logical)
    <3> HIDE DEF ls
    <3>1. CASE ends
      <4>1. /\ seam.logical.lines = Tail(ls) /\ seam.logical.offset = offset
            /\ seam.logical.at = Greatest(logical.at - 1, 1)
        BY <2>2, <3>1
      <4>2. /\ Greatest(logical.at - 1, 1) \in Positive
            /\ (Len(ls) - 1 # 0 => Greatest(logical.at - 1, 1) <= Len(ls) - 1)
        <5>1. ASSUME NEW l \in Nat, NEW i \in 1..l
              PROVE  /\ Greatest(i - 1, 1) \in Positive
                     /\ (l - 1 # 0 => Greatest(i - 1, 1) <= l - 1)
          BY DEF Greatest, Positive
        <5> QED
          BY <1>0, <5>1
      <4> QED
        BY <2>7, <2>8, <4>1, <4>2 DEF Lined
    <3>2. CASE ~ends
      <4> DEFINE more == <<rest>> \o Tail(ls)
      <4>1. /\ seam.logical.lines = more /\ seam.logical.offset = offset
            /\ seam.logical.at = logical.at
        BY <2>2, <3>2
      <4>2. more \in Seq(Text) /\ Len(more) = 1 + (Len(ls) - 1)
        <5>1. <<rest>> \in Seq(Text) /\ Len(<<rest>>) = 1
          BY <2>6
        <5> QED
          BY <2>8, <5>1, Joined
      <4>3. logical.at \in Positive /\ logical.at <= 1 + (Len(ls) - 1)
        BY <1>0 DEF Positive
      <4> HIDE DEF more
      <4> QED
        BY <2>7, <4>1, <4>2, <4>3 DEF Lined
    <3> QED
      BY <3>1, <3>2
  <2>10. seam.out = << d >> /\ seam.out \in Seq(Gone)
    BY <2>2, <2>5
  <2>11. ASSUME NEW b \in Buffers
         PROVE  LET l == Len(Last(AppendTo(b, Onto(TRUE, seam.out))))
                IN  (ends => l = 0) /\ (~ends => l = Len(Last(b)) + split)
    <3>1. Last(AppendTo(b, Onto(TRUE, seam.out))) = IF d.wrapped THEN Last(b) \o d.text ELSE << >>
      BY <2>5, <2>10, OneSent
    <3>2. Last(b) \in Text
      BY DEF Buffers, Last
    <3>3. Len(Last(b) \o d.text) = Len(Last(b)) + Len(d.text)
      BY <2>5, <3>2 DEF Text
    <3>4. CASE ends
      <4>1. Last(AppendTo(b, Onto(TRUE, seam.out))) = << >>
        BY <2>5, <3>1, <3>4
      <4>2. Len(<< >>) = 0
        OBVIOUS
      <4> QED
        BY <3>4, <4>1, <4>2
    <3>5. CASE ~ends
      <4>1. Last(AppendTo(b, Onto(TRUE, seam.out))) = Last(b) \o d.text /\ Len(d.text) = split
        BY <2>5, <3>1, <3>5
      <4> HIDE DEF split, ends
      <4> QED
        BY <3>3, <3>5, <4>1
    <3> HIDE DEF ends, split
    <3> QED
      BY <3>4, <3>5
  <2>12. CASE ends
    <3>1. seam.head = 0
      BY <2>2, <2>12
    <3>2. (0 \div n) * n = 0
      <4>1. 0 * n = 0
        BY <1>0
      <4>2. (0 * n) \div n = 0
        BY DivExact
      <4> QED
        BY <4>1, <4>2
    <3> HIDE DEF split, ends
    <3>3. seam.head \in Nat /\ seam.head = (seam.head \div n) * n
      BY <3>1, <3>2
    <3>4. ASSUME NEW b \in Buffers, Len(Last(b)) = told
          PROVE  Len(Last(AppendTo(b, Onto(TRUE, seam.out)))) = seam.head
      BY <2>11, <2>12, <3>1
    <3> QED
      BY <2>9, <2>10, <3>3, <3>4 DEF Aligned
  <2>13. CASE ~ends
    <3>1. seam.head = told + split /\ split = part
      BY <2>2, <2>3, <2>13
    <3>2. PICK q \in Nat : told \div n = q
      BY DivMod
    <3>3. told + part = (q + 1) * n /\ part \in Nat
      BY <1>0, <2>1, <3>2
    <3>4. q + 1 \in Nat
      BY <3>2
    <3>5. ((q + 1) * n) \div n = q + 1
      BY <3>4, DivExact
    <3>6. seam.head = (q + 1) * n
      BY <3>1, <3>3
    <3>7. seam.head \in Nat
      BY <3>1, <3>3
    <3>8. (seam.head \div n) * n = seam.head
      BY <3>5, <3>6
    <3> HIDE DEF split, ends
    <3>9. ASSUME NEW b \in Buffers, Len(Last(b)) = told
          PROVE  Len(Last(AppendTo(b, Onto(TRUE, seam.out)))) = seam.head
      BY <2>11, <2>13, <3>1, <3>9
    <3> QED
      BY <2>9, <2>10, <3>7, <3>8, <3>9 DEF Aligned
  <2> QED
    BY <2>12, <2>13
<1> QED
  BY <1>1, <1>2

\* A change to the screen is told: whatever rows it hands over, where the line at the seam
\* was as long as the emulator said, it is again once they are in the buffer.
Tells(s, result) ==
  /\ result.out \in Seq(Gone)
  /\ \E n : Whole(n, result.s)
  /\ \A b \in Buffers :
       Len(Last(b)) = HeadOf(s) =>
         Len(Last(AppendTo(b, Onto(TRUE, result.out)))) = HeadOf(result.s)

\* What keeps the count tells it.
LEMMA KeepsTells ==
  ASSUME NEW n, NEW s, Whole(n, s), NEW result, Keeps(n, s, result)
  PROVE  Tells(s, result)
<1>1. /\ n \in Nat /\ s.carried \in Nat /\ HeadOf(s) = s.carried * n
      /\ HeadOf(result.s) = result.s.carried * n
      /\ result.s.carried = Carry(s.carried, result.out) /\ result.out \in Seq(GoneAt(n))
  BY DEF Keeps, Whole, Screens, Positive, HeadOf
<1>2. result.out \in Seq(Gone)
  <2>1. \A d \in GoneAt(n) : d \in Gone
    BY DEF GoneAt
  <2> QED
    BY <1>1, <2>1, SeqWiden
<1>3. ASSUME NEW b \in Buffers, Len(Last(b)) = HeadOf(s)
      PROVE  Len(Last(AppendTo(b, Onto(TRUE, result.out)))) = HeadOf(result.s)
  BY <1>1, <1>3, CarryMeasures
<1> QED
  BY <1>2, <1>3 DEF Tells, Keeps

\* A rewrap tells: the head's top-up and the rows that no longer fit follow it in order
\* (Screen::reflow).
LEMMA ReflowTells ==
  ASSUME NEW m, NEW s, Whole(m, s), NEW h \in Positive, NEW n \in Positive
  PROVE  Tells(s, Reflow(s, h, n))
<1> DEFINE logical == LogicalLines(s)
           told == HeadOf(s)
           seam == Realign(logical, told, n)
           kept == Fit(s, h, n, Relaid(seam.logical.lines, n), Landing(seam.logical, n), seam.head)
           result == Reflow(s, h, n)
           q == seam.head \div n
<1>1. told \in Nat
  <2>1. s.carried \in Nat /\ s.cols \in Nat
    BY DEF Whole, Screens, Positive
  <2>2. ASSUME NEW x \in Nat, NEW y \in Nat PROVE x * y \in Nat
    OBVIOUS
  <2> QED
    BY <2>1, <2>2 DEF HeadOf
<1>2. Lined(logical) /\ Len(logical.lines) >= 1
  BY LogicalFacts
<1> HIDE DEF logical, told
<1>s. seam = Realign(logical, told, n)
  OBVIOUS
<1> HIDE DEF seam
<1>a. Aligned(told, n, seam)
  BY <1>1, <1>2, <1>s, RealignFacts
<1>3. /\ Lined(seam.logical) /\ seam.out \in Seq(Gone) /\ seam.head \in Nat
      /\ seam.head = (seam.head \div n) * n
      /\ \A b \in Buffers :
           Len(Last(b)) = told => Len(Last(AppendTo(b, Onto(TRUE, seam.out)))) = seam.head
  BY <1>a DEF Aligned
<1>4. Relaid(seam.logical.lines, n) \in Seq(Width(n)) /\ Spot(n, Landing(seam.logical, n))
  BY <1>3, RelaidType, LandingSpot DEF Lined
<1>5. Whole(n, kept.s) /\ kept.out \in Seq(GoneAt(n)) /\ kept.s.carried = Carry(q, kept.out)
  BY <1>3, <1>4, FitKeeps
<1>6. result.s = kept.s /\ result.out = seam.out \o kept.out
  <2> DEFINE joined == seam.out \o kept.out
  <2>1. result = [kept EXCEPT !.out = joined]
    BY <1>s DEF Reflow, Rewrap, logical, told
  <2>2. kept \in [s : {kept.s}, out : {kept.out}]
    BY DEF Fit
  <2> HIDE DEF kept, result, joined
  <2>3. result.s = kept.s /\ result.out = joined
    BY <2>1, <2>2
  <2> QED
    BY <2>3 DEF joined
<1> HIDE DEF kept, result
<1>7. kept.out \in Seq(Gone)
  <2>1. \A d \in GoneAt(n) : d \in Gone
    BY DEF GoneAt
  <2> QED
    BY <1>5, <2>1, SeqWiden
<1>8. result.out \in Seq(Gone)
  BY <1>3, <1>6, <1>7, Joined
<1>9. n \in Nat /\ q \in Nat /\ HeadOf(result.s) = Carry(q, kept.out) * n
  <2>1. q \in Nat
    BY <1>3, DivMod
  <2>2. kept.s.cols = n /\ n \in Nat
    BY <1>5 DEF Whole, Screens, Positive
  <2> HIDE DEF q
  <2> QED
    BY <1>5, <1>6, <2>1, <2>2 DEF HeadOf
<1>10. ASSUME NEW b \in Buffers, Len(Last(b)) = told
       PROVE  Len(Last(AppendTo(b, Onto(TRUE, result.out)))) = HeadOf(result.s)
  <2> DEFINE x == Onto(TRUE, seam.out)
             y == Onto(TRUE, kept.out)
             near == AppendTo(b, x)
  <2>1. x \in Seq(Sent) /\ y \in Seq(Sent) /\ Onto(TRUE, result.out) = x \o y
    BY <1>3, <1>6, <1>7, OntoFacts
  <2>2. near \in Buffers /\ Len(Last(near)) = q * n
    BY <1>3, <1>10, <2>1, AppendType
  <2> HIDE DEF x, y, near, q
  <2>3. AppendTo(b, Onto(TRUE, result.out)) = AppendTo(near, y)
    <3>1. ASSUME NEW u \in Seq(Sent), NEW v \in Seq(Sent)
          PROVE  AppendTo(b, u \o v) = AppendTo(AppendTo(b, u), v)
      BY AppendBoth
    <3> QED
      BY <2>1, <3>1 DEF near
  <2>4. Len(Last(AppendTo(near, y))) = Carry(q, kept.out) * n
    BY <1>5, <1>9, <2>2, CarryMeasures DEF y
  <2> QED
    BY <1>9, <2>3, <2>4
<1>11. \E w : Whole(w, result.s)
  BY <1>5, <1>6
<1> QED
  BY <1>8, <1>10, <1>11 DEF Tells, told, result

\* A resize tells, whichever way it is taken (Screen::resize).
LEMMA ResizeTells ==
  ASSUME NEW n, NEW s, Whole(n, s), NEW h \in Positive, NEW w \in Positive
  PROVE  Tells(s, ResizeScreen(s, h, w))
<1>1. FullRegion(s) /\ s.cols = n
  BY DEF FullRegion, Height, Whole, Screens
<1>2. CASE w = n
  <2>1. ResizeScreen(s, h, w) = ClampTo(s, h, n)
    BY <1>1, <1>2 DEF ResizeScreen
  <2> QED
    BY <2>1, ClampKeeps, KeepsTells
<1>3. CASE w # n
  <2>1. ResizeScreen(s, h, w) = Reflow(s, h, w)
    BY <1>1, <1>3 DEF ResizeScreen
  <2> QED
    BY <2>1, ReflowTells
<1> QED
  BY <1>2, <1>3

-----------------------------------------------------------------------------
(* The invariant *)

\* The buffer as it will be once the update Emacs is applying is in it.
Buffered == AppendTo(lines, InFlight)

\* What a session that only prints never touches, and the shape of what it does.
Plain ==
  /\ session \in Sessions /\ rejoin \in BOOLEAN /\ typed \in Nat
  /\ alt = FALSE /\ erase = FALSE /\ narrowed = FALSE
  /\ Whole(screen.cols, screen)
  /\ lines \in Buffers /\ pending \in Seq(Gone)
  /\ ~Idle => /\ delta.scrolled \in Seq(Sent)
              /\ delta.alt = FALSE /\ delta.erase = FALSE

\* Where wrapped rows are joined, the line at the seam is as long as the emulator counts
\* once the backlog is in the buffer too, and as an update says once that update is.
Counted ==
  rejoin => /\ Len(Last(AppendTo(Buffered, Onto(TRUE, pending)))) = HeadOf(screen)
            /\ ~Idle => delta.head = Len(Last(Buffered))

\* Where they are not, the buffer ends at the start of a line.
Rowwise == ~rejoin => Last(Buffered) = << >>

PrintingInv == Plain /\ Counted /\ Rowwise /\ CheckSeam

SeamInv == Printing => PrintingInv

\* An update is not the absence of one.
LEMMA RecordFacts ==
  ASSUME NEW a, NEW b, NEW c, NEW d, NEW e
  PROVE  [scrolled |-> a, head |-> b, row |-> c, alt |-> d, erase |-> e] # << >>
<1> DEFINE r == [scrolled |-> a, head |-> b, row |-> c, alt |-> d, erase |-> e]
<1>1. "head" \in DOMAIN r
  OBVIOUS
<1>2. DOMAIN << >> = {}
  OBVIOUS
<1> QED
  BY <1>1, <1>2

\* The text in flight is in shape.
LEMMA BufferedType ==
  ASSUME Plain
  PROVE  Buffered \in Buffers /\ InFlight \in Seq(Sent) /\ lines \in Buffers
<1>1. InFlight \in Seq(Sent)
  <2>1. << >> \in Seq(Sent)
    OBVIOUS
  <2> QED
    BY <2>1 DEF Plain, InFlight, Idle
<1> QED
  BY <1>1, AppendType DEF Plain, Buffered

\* Nothing appended.
LEMMA AppendNone == ASSUME NEW b PROVE AppendTo(b, << >>) = b
<1>1. << >> \in Seq({0}) /\ 0 \in {0}
  OBVIOUS
<1> QED
  BY <1>1, AppendSnoc

\* A change of the screen that is told keeps the invariant (State::archive).
LEMMA ShowKeeps ==
  ASSUME PrintingInv, NEW result, Tells(screen, result), Show(result), typed' \in Nat,
         UNCHANGED <<alt, erase, lispVars, session>>
  PROVE  PrintingInv'
<1>0. /\ delta' = delta /\ lines' = lines /\ rejoin' = rejoin /\ narrowed' = narrowed
      /\ checked' = checked /\ alt' = alt /\ erase' = erase /\ session' = session
      /\ screen' = result.s /\ pending' = pending \o result.out
  BY DEF lispVars, Show
<1>1. Buffered' = Buffered /\ (Idle' <=> Idle)
  BY <1>0 DEF Buffered, InFlight, Idle
<1>2. pending \in Seq(Gone) /\ result.out \in Seq(Gone)
  BY DEF PrintingInv, Plain, Tells
<1>3. Whole(result.s.cols, result.s)
  <2>1. PICK n : Whole(n, result.s)
    BY DEF Tells
  <2>2. result.s.cols = n
    BY <2>1 DEF Whole, Screens
  <2> QED
    BY <2>1, <2>2
<1>4. Plain'
  <2>1. pending' \in Seq(Gone)
    BY <1>0, <1>2, Joined
  <2>2. Whole(screen.cols, screen)'
    BY <1>0, <1>3
  <2>3. session' \in Sessions /\ rejoin' \in BOOLEAN /\ alt' = FALSE /\ erase' = FALSE
        /\ narrowed' = FALSE /\ lines' \in Buffers
    BY <1>0 DEF PrintingInv, Plain
  <2>4. (~Idle => /\ delta.scrolled \in Seq(Sent)
                  /\ delta.alt = FALSE /\ delta.erase = FALSE)'
    BY <1>0, <1>1 DEF PrintingInv, Plain
  <2> QED
    BY <2>1, <2>2, <2>3, <2>4 DEF Plain
<1>5. Counted'
  <2> SUFFICES ASSUME rejoin
               PROVE  /\ Len(Last(AppendTo(Buffered, Onto(TRUE, pending'))))  = HeadOf(screen')
                      /\ ~Idle => delta.head = Len(Last(Buffered))
    BY <1>0, <1>1 DEF Counted
  <2>1. Buffered \in Buffers
    BY BufferedType DEF PrintingInv
  <2> DEFINE b == AppendTo(Buffered, Onto(TRUE, pending))
  <2>2. Onto(TRUE, pending) \in Seq(Sent) /\ Onto(TRUE, result.out) \in Seq(Sent)
        /\ Onto(TRUE, pending') = Onto(TRUE, pending) \o Onto(TRUE, result.out)
    BY <1>0, <1>2, OntoFacts
  <2>3. b \in Buffers
    BY <2>1, <2>2, AppendType
  <2>4. AppendTo(Buffered, Onto(TRUE, pending')) = AppendTo(b, Onto(TRUE, result.out))
    <3>1. ASSUME NEW u \in Seq(Sent), NEW v \in Seq(Sent)
          PROVE  AppendTo(Buffered, u \o v) = AppendTo(AppendTo(Buffered, u), v)
      BY AppendBoth
    <3> QED
      BY <2>2, <3>1
  <2>5. Len(Last(b)) = HeadOf(screen) /\ (~Idle => delta.head = Len(Last(Buffered)))
    BY DEF PrintingInv, Counted
  <2> HIDE DEF b
  <2>6. Len(Last(AppendTo(b, Onto(TRUE, result.out)))) = HeadOf(result.s)
    BY <2>3, <2>5 DEF Tells
  <2> QED
    BY <1>0, <2>4, <2>5, <2>6
<1>6. Rowwise'
  BY <1>0, <1>1 DEF PrintingInv, Rowwise
<1>7. CheckSeam'
  BY <1>0 DEF PrintingInv, CheckSeam
<1> QED
  BY <1>4, <1>5, <1>6, <1>7 DEF PrintingInv

\* Taking an update moves the backlog into it, with the count as it stands
\* (State::drain, scrolled_rows).
LEMMA DrainKeeps ==
  ASSUME PrintingInv, Drain
  PROVE  PrintingInv'
<1> DEFINE sent == Onto(rejoin, pending)
<1>0. /\ Idle /\ pending' = << >> /\ erase' = FALSE /\ screen' = screen /\ alt' = alt
      /\ lines' = lines /\ rejoin' = rejoin /\ narrowed' = narrowed /\ checked' = checked
      /\ typed' = typed /\ session' = session
  BY DEF Drain
<1>1. /\ session \in Sessions /\ rejoin \in BOOLEAN /\ typed \in Nat
      /\ alt = FALSE /\ erase = FALSE /\ narrowed = FALSE
      /\ Whole(screen.cols, screen) /\ lines \in Buffers /\ pending \in Seq(Gone)
  BY DEF PrintingInv, Plain
<1>2. delta' = [scrolled |-> sent, head |-> HeadOf(screen), row |-> screen.row,
                alt |-> FALSE, erase |-> FALSE]
  <2>1. delta' = Drained(screen, pending, erase)
    BY DEF Drain
  <2>2. [i \in DOMAIN pending |->
           [text |-> pending[i].text,
            newline |-> ~(rejoin /\ pending[i].wrapped /\ ~(i = Len(pending) /\ alt))]] = sent
    <3>1. ASSUME NEW i PROVE (~(rejoin /\ pending[i].wrapped /\ ~(i = Len(pending) /\ alt)))
                             = (~(rejoin /\ pending[i].wrapped))
      BY <1>1
    <3> QED
      BY <3>1 DEF Onto, SentAs
  <2> HIDE DEF sent
  <2> QED
    BY <1>1, <2>1, <2>2 DEF Drained
<1>3. sent \in Seq(Sent)
  BY <1>1, OntoFacts
<1>4. delta' # << >> /\ delta'.scrolled = sent /\ delta'.head = HeadOf(screen)
      /\ delta'.alt = FALSE /\ delta'.erase = FALSE
  <2> HIDE DEF sent
  <2> QED
    BY <1>2, RecordFacts
<1>5. InFlight = << >> /\ Buffered = lines
  BY <1>0, AppendNone DEF InFlight, Idle, Buffered
<1>6. InFlight' = sent
  <2> HIDE DEF sent
  <2> QED
    BY <1>4 DEF InFlight
<1>7. Buffered' = AppendTo(lines, sent)
  <2> HIDE DEF sent
  <2> QED
    BY <1>0, <1>6 DEF Buffered
<1> DEFINE full == AppendTo(lines, sent)
<1>8. Plain'
  <2>1. << >> \in Seq(Gone)
    OBVIOUS
  <2> HIDE DEF sent
  <2> QED
    BY <1>0, <1>1, <1>3, <1>4, <2>1 DEF Plain
<1>9. Counted'
  <2> SUFFICES ASSUME rejoin
               PROVE  /\ Len(Last(AppendTo(full, Onto(TRUE, << >>)))) = HeadOf(screen)
                      /\ HeadOf(screen) = Len(Last(full))
    BY <1>0, <1>4, <1>7 DEF Counted
  <2>1. rejoin = TRUE
    BY <1>1
  <2>2. Len(Last(full)) = HeadOf(screen)
    BY <1>5, <2>1 DEF PrintingInv, Counted
  <2> HIDE DEF full
  <2>3. AppendTo(full, Onto(TRUE, << >>)) = full
    BY OntoFacts, AppendNone
  <2> QED
    BY <2>2, <2>3
<1>10. Rowwise'
  <2> SUFFICES ASSUME ~rejoin PROVE Last(full) = << >>
    BY <1>0, <1>7 DEF Rowwise
  <2>1. rejoin = FALSE /\ Last(lines) = << >>
    BY <1>1, <1>5 DEF PrintingInv, Rowwise
  <2> QED
    BY <1>1, <2>1, SplitRows
<1>11. CheckSeam'
  BY <1>0 DEF PrintingInv, CheckSeam
<1> QED
  BY <1>8, <1>9, <1>10, <1>11 DEF PrintingInv

\* Applying an update brings the buffer to the line the update measured
\* (cooked--apply, cooked--check-seam).
LEMMA ApplyKeeps ==
  ASSUME PrintingInv, Apply, Cap = 0
  PROVE  PrintingInv'
<1> DEFINE full == Buffered
           column == Len(Last(full))
           told == delta.head
           split == ~rejoin /\ told # 0 /\ column = 0
           carried == IF split THEN 0 ELSE screen.carried
<1>1. /\ session \in Sessions /\ rejoin \in BOOLEAN /\ typed \in Nat
      /\ alt = FALSE /\ erase = FALSE /\ narrowed = FALSE
      /\ Whole(screen.cols, screen) /\ lines \in Buffers /\ pending \in Seq(Gone)
      /\ ~Idle /\ delta.alt = FALSE /\ delta.erase = FALSE
  BY DEF PrintingInv, Plain, Apply
<1>2. full = AppendTo(lines, delta.scrolled) /\ full \in Buffers
  BY <1>1, BufferedType DEF PrintingInv, Buffered, InFlight, Idle
<1>3. Overgrown(AppendTo(lines, delta.scrolled)) = FALSE
  BY DEF Overgrown
<1>4. full[Len(full)] = Last(full)
  BY DEF Last
<1>5. /\ lines' = full /\ checked' = [buffer |-> column, told |-> IF split THEN 0 ELSE told]
      /\ screen' = [screen EXCEPT !.carried = carried]
      /\ narrowed' = FALSE /\ delta' = << >>
      /\ alt' = alt /\ pending' = pending /\ erase' = erase /\ rejoin' = rejoin
      /\ typed' = typed /\ session' = session
  <2> HIDE DEF full
  <2> QED
    BY <1>1, <1>2, <1>3, <1>4 DEF Apply
<1> HIDE DEF full
<1>6. Whole(screen'.cols, screen') /\ (~split => HeadOf(screen') = HeadOf(screen))
  <2>1. carried \in Nat /\ (~split => carried = screen.carried)
    BY <1>1 DEF Whole, Screens
  <2> HIDE DEF carried, split
  <2> DEFINE t == [screen EXCEPT !.carried = carried]
  <2>2. Whole(screen.cols, t) /\ t.cols = screen.cols /\ t.carried = carried
    BY <1>1, <2>1 DEF Whole, Screens
  <2>3. screen' = t
    BY <1>5
  <2> HIDE DEF t
  <2> QED
    BY <2>1, <2>2, <2>3 DEF HeadOf
<1>7. Idle' /\ Buffered' = full
  <2>1. InFlight' = << >>
    BY <1>5 DEF InFlight
  <2> QED
    BY <1>5, <2>1, AppendNone DEF Buffered, Idle
<1>8. Plain'
  BY <1>1, <1>2, <1>5, <1>6, <1>7 DEF Plain
<1>9. rejoin => /\ Len(Last(AppendTo(full, Onto(TRUE, pending)))) = HeadOf(screen)
                /\ told = column
  BY <1>1 DEF PrintingInv, Counted, full
<1>10. ~rejoin => Last(full) = << >>
  BY DEF PrintingInv, Rowwise, full
<1>11. Counted'
  <2> SUFFICES ASSUME rejoin
               PROVE  Len(Last(AppendTo(full, Onto(TRUE, pending)))) = HeadOf(screen')
    BY <1>5, <1>7 DEF Counted
  <2> QED
    BY <1>6, <1>9
<1>12. Rowwise'
  BY <1>5, <1>7, <1>10 DEF Rowwise
<1>13. CheckSeam'
  <2> DEFINE says == IF split THEN 0 ELSE told
  <2>1. column = says
    <3>1. CASE rejoin
      BY <1>9, <3>1
    <3>2. CASE ~rejoin
      <4>1. column = 0
        <5>1. Len(<< >>) = 0
          OBVIOUS
        <5> QED
          BY <1>10, <3>2, <5>1
      <4> HIDE DEF column
      <4> QED
        BY <3>2, <4>1
    <3> QED
      BY <3>1, <3>2
  <2>2. checked'.buffer = column /\ checked'.told = says
    <3> HIDE DEF column, says
    <3> QED
      BY <1>5 DEF says
  <2> QED
    BY <2>1, <2>2 DEF CheckSeam
<1> QED
  BY <1>8, <1>11, <1>12, <1>13 DEF PrintingInv

\* The session is the session.
LEMMA SameSession == ASSUME [Next]_vars PROVE session' = session
<1>1. CASE Child
  <2>1. ASSUME NEW op, NEW result, Feed(op, result) PROVE session' = session
    BY <2>1 DEF Feed
  <2> QED
    BY <1>1, <2>1 DEF Child, PrintChar, Newline, Index, ReverseIndexed, Scroll, Move, Margins,
       Autowrap, EraseInLine, ErasePart, Clear, EditLines, EditChars, OpenPrompt, EraseSaved,
       SwitchScreen
<1>2. CASE Emacs
  BY <1>2 DEF Emacs, Resize, Drain, Apply, ToggleRejoin, ClearScrollback, DeleteOutput
<1>3. CASE UNCHANGED vars
  BY <1>3 DEF vars
<1> QED
  BY <1>1, <1>2, <1>3 DEF Next

\* A child that only prints does nothing else.
LEMMA OnlyThese ==
  ASSUME OnlyPrints, Next
  PROVE  PrintChar \/ Newline \/ Resize \/ Drain \/ Apply
<1>1. ASSUME NEW op, NEW result, Feed(op, result)
      PROVE  op \in {"print", "space", "newline", "resize"}
  BY <1>1 DEF Feed, OnlyPrints
<1>2. \A op \in session.ops : op \in {"print", "space", "newline", "resize"}
  BY DEF OnlyPrints
<1>3. ~Index /\ ~ReverseIndexed /\ ~Scroll /\ ~Move /\ ~Margins
  BY <1>1 DEF Index, ReverseIndexed, Scroll, Move, Margins
<1>4. ~EraseInLine /\ ~ErasePart /\ ~Clear /\ ~EditLines /\ ~EditChars
  BY <1>1 DEF EraseInLine, ErasePart, Clear, EditLines, EditChars
<1>5. ~Autowrap /\ ~OpenPrompt /\ ~EraseSaved /\ ~SwitchScreen
  BY <1>2 DEF Autowrap, OpenPrompt, EraseSaved, SwitchScreen
<1>6. ~ToggleRejoin /\ ~ClearScrollback /\ ~DeleteOutput
  BY <1>2 DEF ToggleRejoin, ClearScrollback, DeleteOutput
<1> QED
  BY <1>3, <1>4, <1>5, <1>6 DEF Next, Child, Emacs

\* A window has at least a row and a column (lib.rs, Screen::resize).
LEMMA SizesPositive ==
  ASSUME session \in Sessions, NEW size \in Sizes
  PROVE  size[1] \in Positive /\ size[2] \in Positive
<1>1. Sizes \subseteq (Nat \ {0}) \X (Nat \ {0})
  BY SessionsAssumption DEF Sizes
<1> QED
  BY <1>1 DEF Positive

\* Printing, starting a new line and resizing are told.
LEMMA FedKeeps ==
  ASSUME PrintingInv, PrintChar \/ Newline \/ Resize
  PROVE  PrintingInv'
<1> DEFINE n == screen.cols
<1>0. /\ Whole(n, screen) /\ session \in Sessions /\ typed \in Nat /\ screen.row \in Positive
  BY DEF PrintingInv, Plain, Whole, Screens
<1> HIDE DEF n
<1>1. CASE PrintChar
  <2>1. PICK ch \in {typed + 1} \cup {Blank} : Feed("print", Place(screen, ch))
    BY <1>1 DEF PrintChar
  <2>2. ch \in Nat
    BY <1>0, <2>1 DEF Blank
  <2>3. Tells(screen, Place(screen, ch))
    BY <1>0, <2>2, PlaceKeeps, KeepsTells
  <2>4. Show(Place(screen, ch)) /\ UNCHANGED <<alt, erase, lispVars, session>>
    BY <2>1 DEF Feed
  <2>5. typed' \in Nat
    BY <1>0, <1>1 DEF PrintChar
  <2> QED
    BY <2>3, <2>4, <2>5, ShowKeeps
<1>2. CASE Newline
  <2> DEFINE home == Goto(screen, screen.row, 0)
  <2>1. Whole(n, home) /\ home.carried = screen.carried
    BY <1>0, GotoWhole
  <2>2. Tells(screen, LineFeed(home))
    <3> HIDE DEF home
    <3>1. Keeps(n, home, LineFeed(home))
      BY <2>1, LineFeedKeeps
    <3>2. Keeps(n, screen, LineFeed(home))
      BY <2>1, <3>1 DEF Keeps
    <3> QED
      BY <1>0, <3>2, KeepsTells
  <2>3. Show(LineFeed(home)) /\ UNCHANGED <<alt, erase, lispVars, session>>
    BY <1>2 DEF Newline, Feed
  <2>4. typed' \in Nat
    BY <1>0, <1>2 DEF Newline
  <2> HIDE DEF home
  <2> QED
    BY <2>2, <2>3, <2>4, ShowKeeps
<1>3. CASE Resize
  <2>1. PICK size \in Sizes : Show(ResizeScreen(screen, size[1], size[2]))
    BY <1>3 DEF Resize
  <2>2. size[1] \in Positive /\ size[2] \in Positive
    BY <1>0, <2>1, SizesPositive
  <2>3. Tells(screen, ResizeScreen(screen, size[1], size[2]))
    BY <1>0, <2>2, ResizeTells
  <2>4. UNCHANGED <<alt, erase, lispVars, session>> /\ typed' \in Nat
    BY <1>0, <1>3 DEF Resize
  <2> QED
    BY <2>1, <2>3, <2>4, ShowKeeps
<1> QED
  BY <1>1, <1>2, <1>3

\* A new screen is a whole one with nothing of it in Emacs.
LEMMA NewWhole ==
  ASSUME NEW h \in Positive, NEW n \in Positive
  PROVE  Whole(n, NewScreen(h, n)) /\ NewScreen(h, n).cols = n /\ HeadOf(NewScreen(h, n)) = 0
<1> DEFINE rs == [r \in 1..h |-> BlankRow(n)]
<1>1. h \in Nat /\ n \in Nat /\ h >= 1 /\ n >= 1
  BY DEF Positive
<1>2. rs \in Seq(Width(n)) /\ Len(rs) = h
  BY <1>1, BlankRows
<1>3. NewScreen(h, n) = [rows |-> rs, cols |-> n, row |-> 1, col |-> 0, pend |-> FALSE,
                         top |-> 1, bottom |-> h, carried |-> 0, autowrap |-> TRUE]
  BY DEF NewScreen
<1> HIDE DEF rs
<1> DEFINE s == NewScreen(h, n)
<1>4. s \in Screens(n) /\ s.rows = rs /\ s.row = 1 /\ s.bottom = h /\ s.cols = n /\ s.carried = 0
  BY <1>1, <1>2, <1>3 DEF Screens, Positive
<1> HIDE DEF s
<1>5. Whole(n, s) /\ HeadOf(s) = 0
  BY <1>1, <1>2, <1>4 DEF Whole, HeadOf
<1> QED
  BY <1>4, <1>5 DEF s

\* Initially nothing has been said or held (Term::new).
LEMMA InitSeam == Init => SeamInv
<1> SUFFICES ASSUME Init PROVE PrintingInv
  BY DEF SeamInv
<1>1. PICK size \in Sizes : screen = NewScreen(size[1], size[2])
  BY DEF Init
<1>2. session \in Sessions /\ rejoin \in session.joins /\ rejoin \in BOOLEAN
  BY SessionsAssumption DEF Init
<1>3. size[1] \in Positive /\ size[2] \in Positive
  BY <1>1, <1>2, SizesPositive
<1>4. Whole(screen.cols, screen) /\ HeadOf(screen) = 0
  BY <1>1, <1>3, NewWhole
<1>5. /\ alt = FALSE /\ pending = << >> /\ erase = FALSE /\ delta = << >> /\ lines = << << >> >>
      /\ narrowed = FALSE /\ typed = 0 /\ Idle /\ checked = [buffer |-> 0, told |-> 0]
  BY DEF Init, Idle, Emptied
<1>6. lines \in Buffers /\ Last(lines) = << >> /\ pending \in Seq(Gone)
  <2>1. << >> \in Text /\ << >> \in Seq(Gone)
    BY DEF Text
  <2> QED
    BY <1>5, <2>1 DEF Buffers, Last
<1>7. Buffered = lines
  BY <1>5, AppendNone DEF Buffered, InFlight
<1>8. AppendTo(lines, Onto(TRUE, pending)) = lines
  BY <1>5, OntoFacts, AppendNone
<1>9. Plain
  BY <1>2, <1>4, <1>5, <1>6 DEF Plain
<1>10. Counted /\ Rowwise
  <2>1. Len(<< >>) = 0
    OBVIOUS
  <2> QED
    BY <1>4, <1>5, <1>6, <1>7, <1>8, <2>1 DEF Counted, Rowwise
<1>11. CheckSeam
  BY <1>5 DEF CheckSeam
<1> QED
  BY <1>9, <1>10, <1>11 DEF PrintingInv

\* Every step keeps the invariant.
LEMMA NextSeam == SeamInv /\ [Next]_vars => SeamInv'
<1> SUFFICES ASSUME SeamInv, [Next]_vars, Printing' PROVE PrintingInv'
  BY DEF SeamInv
<1>1. Printing
  BY SameSession DEF Printing, OnlyPrints, Cap
<1>2. PrintingInv
  BY <1>1 DEF SeamInv
<1>3. CASE UNCHANGED vars
  BY <1>2, <1>3 DEF vars, termVars, lispVars, PrintingInv, Plain, Counted, Rowwise, CheckSeam,
     Buffered, InFlight, Idle
<1>4. CASE Next
  <2>1. PrintChar \/ Newline \/ Resize \/ Drain \/ Apply
    BY <1>1, <1>4, OnlyThese DEF Printing
  <2> QED
    BY <1>1, <1>2, <2>1, FedKeeps, DrainKeeps, ApplyKeeps DEF Printing
<1> QED
  BY <1>3, <1>4

\* cooked--check-seam never fails of a child that prints, in windows of any sizes and with
\* any number of resizes: the line at the seam is exactly as long in the buffer as the
\* emulator says, so nothing is doubled or dropped where a wrapped line was split.
THEOREM SeamAgrees == Spec => []PrintedSeam
<1>1. SeamInv => PrintedSeam
  BY DEF SeamInv, PrintingInv, PrintedSeam
<1> QED
  BY <1>1, InitSeam, NextSeam, PTL DEF Spec

=============================================================================
