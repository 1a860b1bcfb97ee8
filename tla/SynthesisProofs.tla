-------------------------- MODULE SynthesisProofs --------------------------
(***************************************************************************)
(* What the pipelines of AudioPipelines hand over, for every text, limit,   *)
(* chain of effects, source and story, and every block size.                *)
(*                                                                         *)
(* The module folds sequences (FoldLeft) in three places: what is spoken of *)
(* a text, the enabled effects of a chain, and its segments.  The folds are *)
(* unfolded first, into the values they pass through; then come the text,   *)
(* the render and the mix, each with an invariant of its own, and the       *)
(* theorems at the end.                                                     *)
(***************************************************************************)
EXTENDS AudioPipelines, SequenceTheorems, FiniteSetTheorems, DataLemmas

(* The step of each of the three folds, named by fold[1]; fold[2] is the    *)
(* chain.                                                                   *)

FoldedBy(fold, v, c) ==
    CASE fold[1] = "spoken" -> (IF c = Space THEN v ELSE Append(v, c))
      [] fold[1] = "enabled" -> (IF fold[2][c].on THEN Append(v, c) ELSE v)
      [] fold[1] = "segments" ->
            (IF fold[2][c].pitch THEN Append(v, [kind |-> "pitch", effects |-> <<c>>])
             ELSE IF v # <<>> /\ Last(v).kind = "stream"
             THEN [v EXCEPT ![Len(v)].effects = Append(@, c)]
             ELSE Append(v, [kind |-> "stream", effects |-> <<c>>]))

FoldOf(fold, base, seq, g, s) ==
    IF s = {} THEN base ELSE FoldedBy(fold, g[s \ {Max(s)}], seq[Max(s)])
IsFoldOf(fold, base, seq, S, g) == g = [s \in SUBSET S |-> FoldOf(fold, base, seq, g, s)]

LEMMA GreatestIs ==
    ASSUME NEW n \in Nat, NEW s \in SUBSET (1..n), s # {}
    PROVE  Max(s) \in s /\ \A x \in s : Max(s) >= x
<1>1. IsFiniteSet(1..n) /\ 1..n \subseteq Int
  BY FS_Interval
<1>2. IsFiniteSet(s) /\ s \in SUBSET Int
  BY <1>1, FS_Subset
<1>3. \E m \in s : \A x \in s : m >= x
  BY <1>2, GreatestExists
<1> QED
  BY <1>3 DEF Max

ChosenFold(fold, base, seq, n) == CHOOSE g : IsFoldOf(fold, base, seq, 1..n, g)

LEMMA FoldOfExists ==
    ASSUME NEW fold, NEW base, NEW seq, NEW n \in Nat
    PROVE  \E g : IsFoldOf(fold, base, seq, 1..n, g)
<1> DEFINE T == {m \in Nat : \E g : IsFoldOf(fold, base, seq, 1..m, g)}
<1>1. 0 \in T
  <2>1. SUBSET (1..0) = {{}}
    OBVIOUS
  <2>2. \A s \in SUBSET (1..0) : FoldOf(fold, base, seq, [t \in SUBSET (1..0) |-> base], s) = base
    BY <2>1 DEF FoldOf
  <2>3. [t \in SUBSET (1..0) |-> base] = [s \in SUBSET (1..0) |-> FoldOf(fold, base, seq, [t \in SUBSET (1..0) |-> base], s)]
    BY <2>2
  <2> QED
    BY <2>3 DEF IsFoldOf
<1>2. ASSUME NEW m \in T PROVE m + 1 \in T
  <2>1. PICK g : IsFoldOf(fold, base, seq, 1..m, g)
    OBVIOUS
  <2>2. m \in Nat /\ m + 1 \in Nat
    OBVIOUS
  <2> DEFINE h == [s \in SUBSET (1..(m + 1)) |-> FoldOf(fold, base, seq, g, s)]
  <2>3. \A s \in SUBSET (1..m) : s \in SUBSET (1..(m + 1)) /\ h[s] = g[s]
    <3> SUFFICES ASSUME NEW s \in SUBSET (1..m) PROVE s \in SUBSET (1..(m + 1)) /\ h[s] = g[s]
      OBVIOUS
    <3>1. s \in SUBSET (1..(m + 1))
      BY <2>2
    <3>2. g[s] = FoldOf(fold, base, seq, g, s)
      BY <2>1 DEF IsFoldOf
    <3> QED
      BY <3>1, <3>2
  <2>4. ASSUME NEW s \in SUBSET (1..(m + 1)), s # {} PROVE s \ {Max(s)} \in SUBSET (1..m)
    <3>1. Max(s) \in s /\ \A x \in s : Max(s) >= x
      BY <2>2, <2>4, GreatestIs
    <3>2. \A x \in s : x \in 1..(m + 1)
      OBVIOUS
    <3>3. \A x \in s : x # Max(s) => x \in 1..m
      <4>1. PICK b \in 1..(m + 1) : b = Max(s) /\ \A x \in s : b >= x
        BY <3>1, <3>2
      <4> QED
        BY <2>2, <3>2, <4>1
    <3> QED
      BY <3>3
  <2>5. \A s \in SUBSET (1..(m + 1)) : FoldOf(fold, base, seq, g, s) = FoldOf(fold, base, seq, h, s)
    <3> SUFFICES ASSUME NEW s \in SUBSET (1..(m + 1)), s # {}
                 PROVE  FoldOf(fold, base, seq, g, s) = FoldOf(fold, base, seq, h, s)
      BY DEF FoldOf
    <3>1. h[s \ {Max(s)}] = g[s \ {Max(s)}]
      BY <2>3, <2>4
    <3> HIDE DEF h
    <3> QED
      BY <3>1 DEF FoldOf
  <2>6. h = [s \in SUBSET (1..(m + 1)) |-> FoldOf(fold, base, seq, h, s)]
    BY <2>5
  <2>7. IsFoldOf(fold, base, seq, 1..(m + 1), h)
    <3> HIDE DEF h
    <3> QED
      BY <2>6 DEF IsFoldOf
  <2> HIDE DEF h
  <2> QED
    BY <2>2, <2>7
<1>3. T = Nat
  <2> HIDE DEF T
  <2>1. T \in SUBSET Nat
    BY DEF T
  <2> QED
    BY <1>1, <1>2, <2>1, NatSetInduction
<1> QED
  BY <1>3

(* The values a fold passes through. *)
Passes(fold, base, seq, n, h) ==
    /\ DOMAIN h = 0..n /\ h[0] = base
    /\ \A k \in 1..n : h[k] = FoldedBy(fold, h[k - 1], seq[k])

LEMMA FoldPasses ==
    ASSUME NEW fold, NEW base, NEW seq, NEW n \in Nat, NEW g, IsFoldOf(fold, base, seq, 1..n, g)
    PROVE  \E h : Passes(fold, base, seq, n, h) /\ g[1..n] = h[n]
<1> DEFINE h == [k \in 0..n |-> g[1..k]]
<1>1. \A k \in 0..n : 1..k \in SUBSET (1..n) /\ g[1..k] = FoldOf(fold, base, seq, g, 1..k)
  BY DEF IsFoldOf
<1>2. h[0] = base
  <2>1. 0 \in 0..n /\ 1..0 = {}
    OBVIOUS
  <2> QED
    BY <1>1, <2>1 DEF FoldOf
<1>3. ASSUME NEW k \in 1..n PROVE h[k] = FoldedBy(fold, h[k - 1], seq[k])
  <2>1. k \in 0..n /\ k - 1 \in 0..n /\ k \in 1..k /\ 1..k \in SUBSET (1..n)
    OBVIOUS
  <2>2. Max(1..k) \in 1..k /\ Max(1..k) >= k
    BY <2>1, GreatestIs
  <2>3. Max(1..k) = k
    BY <2>1, <2>2
  <2>4. (1..k) \ {k} = 1..(k - 1)
    BY <2>1
  <2>5. g[1..k] = FoldedBy(fold, g[1..(k - 1)], seq[k])
    BY <1>1, <2>1, <2>3, <2>4 DEF FoldOf
  <2> QED
    BY <2>1, <2>5
<1>4. DOMAIN h = 0..n /\ n \in 0..n /\ h[n] = g[1..n]
  OBVIOUS
<1> HIDE DEF h
<1> QED
  BY <1>2, <1>3, <1>4 DEF Passes

LEMMA ChosenPasses ==
    ASSUME NEW fold, NEW base, NEW seq, NEW n \in Nat
    PROVE  \E h : Passes(fold, base, seq, n, h) /\ ChosenFold(fold, base, seq, n)[1..n] = h[n]
<1>1. IsFoldOf(fold, base, seq, 1..n, ChosenFold(fold, base, seq, n))
  BY FoldOfExists DEF ChosenFold
<1> QED
  BY <1>1, FoldPasses

(* c is a and then b. *)
Joint(c, a, b) == c = a \o b

LEMMA JointEmpty == ASSUME NEW S, NEW a \in Seq(S) PROVE Joint(a, a, <<>>) /\ Joint(a, <<>>, a)
BY DEF Joint

LEMMA JointAppend ==
    ASSUME NEW S, NEW a \in Seq(S), NEW b \in Seq(S), NEW e \in S, NEW c, Joint(c, a, b)
    PROVE  Joint(Append(c, e), a, Append(b, e))
<1>1. Append(a \o b, e) = a \o Append(b, e)
  OBVIOUS
<1> QED
  BY <1>1 DEF Joint

-----------------------------------------------------------------------------
(* Pieces of a sequence. *)
LEMMA PieceOf ==
    ASSUME NEW S, NEW t \in Seq(S), NEW n \in Nat, n = Len(t), NEW i \in Nat \ {0}, NEW j \in Nat, i <= j + 1, j <= n
    PROVE  /\ SubSeq(t, i, j) \in Seq(S) /\ Len(SubSeq(t, i, j)) = j - i + 1
           /\ \A k \in 1..(j - i + 1) : SubSeq(t, i, j)[k] = t[i + k - 1]
<1>1. \A k \in i..j : t[k] \in S
  OBVIOUS
<1> QED
  BY <1>1

LEMMA Halves ==
    ASSUME NEW S, NEW t \in Seq(S), NEW n \in Nat, n = Len(t), NEW p \in 0..n
    PROVE  t = SubSeq(t, 1, p) \o SubSeq(t, p + 1, n)
<1>1. PICK a, b : a = SubSeq(t, 1, p) /\ b = SubSeq(t, p + 1, n)
  OBVIOUS
<1>2. a \in Seq(S) /\ Len(a) = p /\ \A k \in 1..p : a[k] = t[k]
  BY <1>1
<1>3. b \in Seq(S) /\ Len(b) = n - p /\ \A k \in 1..(n - p) : b[k] = t[p + k]
  BY <1>1
<1>4. PICK c : c = a \o b
  OBVIOUS
<1>5. c \in Seq(S) /\ Len(c) = n
  <2>1. Len(c) = p + (n - p)
    BY <1>2, <1>3, <1>4, ConcatProperties
  <2> QED
    BY <1>2, <1>3, <1>4, <2>1, ConcatProperties
<1>6. \A k \in 1..n : c[k] = t[k]
  <2> SUFFICES ASSUME NEW k \in 1..n PROVE c[k] = t[k]
    OBVIOUS
  <2>1. CASE k <= p
    BY <1>2, <1>3, <1>4, <2>1
  <2>2. CASE k > p
    <3>1. k - p \in 1..(n - p) /\ p + (k - p) = k
      BY <2>2
    <3>2. c[k] = b[k - p]
      BY <1>2, <1>3, <1>4, <2>2, <3>1
    <3> QED
      BY <1>3, <3>1, <3>2
  <2> QED
    BY <2>1, <2>2
<1>7. c = t
  BY <1>5, <1>6
<1> QED
  BY <1>1, <1>4, <1>7

Row(c, a, b, n, m) == /\ Len(c) = n + m
                      /\ \A i \in 1..n : c[i] = a[i]
                      /\ \A i \in n + 1..n + m : c[i] = b[i - n]

LEMMA JointIs ==
    ASSUME NEW S, NEW a \in Seq(S), NEW b \in Seq(S), NEW c, Joint(c, a, b),
           NEW n \in Nat, n = Len(a), NEW m \in Nat, m = Len(b)
    PROVE  c \in Seq(S) /\ Row(c, a, b, n, m)
BY ConcatProperties DEF Joint, Row

LEMMA JointAssociative ==
    ASSUME NEW S, NEW a \in Seq(S), NEW b \in Seq(S), NEW c \in Seq(S), NEW bc, Joint(bc, b, c),
           NEW ab, Joint(ab, a, b), NEW x, Joint(x, a, bc)
    PROVE  Joint(x, ab, c)
<1>1. PICK n \in Nat, m \in Nat, k \in Nat : n = Len(a) /\ m = Len(b) /\ k = Len(c)
  OBVIOUS
<1>2. bc \in Seq(S) /\ Row(bc, b, c, m, k)
  BY <1>1, JointIs
<1>3. ab \in Seq(S) /\ Row(ab, a, b, n, m)
  BY <1>1, JointIs
<1>4. PICK y : Joint(y, ab, c)
  BY DEF Joint
<1>n. PICK nm \in Nat, mk \in Nat : nm = n + m /\ nm = Len(ab) /\ mk = m + k /\ mk = Len(bc)
  BY <1>2, <1>3 DEF Row
<1>5. y \in Seq(S) /\ Row(y, ab, c, nm, k)
  BY <1>1, <1>3, <1>4, <1>n, JointIs
<1>6. x \in Seq(S) /\ Row(x, a, bc, n, mk)
  BY <1>1, <1>2, <1>n, JointIs
<1>7. ASSUME NEW i \in 1..n + mk PROVE x[i] = y[i]
  <2>1. CASE i <= n
    <3>1. i \in 1..n /\ i \in 1..nm
      BY <1>n, <2>1
    <3> QED
      BY <1>3, <1>5, <1>6, <3>1 DEF Row
  <2>2. CASE i > n /\ i <= nm
    <3>1. PICK j \in 1..m : j = i - n
      <4>1. i - n \in 1..m
        BY <1>n, <2>2
      <4> QED
        BY <4>1
    <3>2. i \in n + 1..n + mk /\ i \in n + 1..n + m /\ i \in 1..nm
      BY <1>n, <2>2
    <3>3. x[i] = bc[j]
      BY <1>6, <3>1, <3>2 DEF Row
    <3>4. y[i] = b[j]
      BY <1>3, <1>5, <3>1, <3>2 DEF Row
    <3> QED
      BY <1>2, <3>3, <3>4 DEF Row
  <2>3. CASE i > nm
    <3>1. PICK j \in m + 1..m + k : j = i - n
      <4>1. i - n \in m + 1..m + k
        BY <1>n, <2>3
      <4> QED
        BY <4>1
    <3>2. i \in n + 1..n + mk /\ i \in nm + 1..nm + k
      BY <1>n, <2>3
    <3>3. x[i] = bc[j]
      BY <1>6, <3>1, <3>2 DEF Row
    <3>4. y[i] = c[i - nm]
      BY <1>5, <3>2 DEF Row
    <3>5. j - m = i - nm
      BY <1>n, <3>1
    <3> QED
      BY <1>2, <3>1, <3>3, <3>4, <3>5 DEF Row
  <2> QED
    BY <2>1, <2>2, <2>3
<1>8. x = y
  <2>1. Len(x) = n + mk /\ Len(y) = n + mk
    <3>1. nm + k = n + mk
      BY <1>n
    <3>2. Len(x) = n + mk
      BY <1>6 DEF Row
    <3>3. Len(y) = nm + k
      BY <1>5 DEF Row
    <3> QED
      BY <3>1, <3>2, <3>3
  <2> QED
    BY <1>5, <1>6, <1>7, <2>1
<1> QED
  BY <1>4, <1>8

-----------------------------------------------------------------------------
(* What is spoken of a text. *)
LEMMA SpokenPasses ==
    ASSUME NEW t, NEW n \in Nat, DOMAIN t = 1..n
    PROVE  \E h : Passes(<<"spoken">>, <<>>, t, n, h) /\ Spoken(t) = h[n]
<1>1. Spoken(t) = ChosenFold(<<"spoken">>, <<>>, t, n)[1..n]
  BY DEF Spoken, FoldLeft, MapThenFoldSet, ChosenFold, IsFoldOf, FoldOf, FoldedBy
<1> QED
  BY <1>1, ChosenPasses

SpokenSteps(t, n, h) ==
    /\ DOMAIN h = 0..n /\ h[0] = <<>>
    /\ \A k \in 1..n : h[k] = IF t[k] = Space THEN h[k - 1] ELSE Append(h[k - 1], t[k])
    /\ \A k \in 0..n : h[k] \in Seq(Characters)

LEMMA SpokenIs ==
    ASSUME NEW t \in Seq(Characters), NEW n \in Nat, n = Len(t)
    PROVE  \E h : SpokenSteps(t, n, h) /\ Spoken(t) = h[n]
<1>1. PICK h : Passes(<<"spoken">>, <<>>, t, n, h) /\ Spoken(t) = h[n]
  BY SpokenPasses
<1>2. \A k \in 1..n : h[k] = IF t[k] = Space THEN h[k - 1] ELSE Append(h[k - 1], t[k])
  BY <1>1 DEF Passes, FoldedBy
<1> DEFINE T == {k \in Nat : k <= n => h[k] \in Seq(Characters)}
<1>3. 0 \in T
  BY <1>1, EmptySeq DEF Passes
<1>4. ASSUME NEW k \in T PROVE k + 1 \in T
  <2> SUFFICES ASSUME k + 1 <= n PROVE h[k + 1] \in Seq(Characters)
    OBVIOUS
  <2>1. k \in Nat /\ k <= n /\ k + 1 \in 1..n /\ (k + 1) - 1 = k
    OBVIOUS
  <2>2. h[k] \in Seq(Characters) /\ t[k + 1] \in Characters
    BY <2>1
  <2>3. h[k + 1] = IF t[k + 1] = Space THEN h[k] ELSE Append(h[k], t[k + 1])
    BY <1>2, <2>1
  <2> QED
    BY <2>2, <2>3
<1>5. T = Nat
  <2> HIDE DEF T
  <2>1. T \in SUBSET Nat
    BY DEF T
  <2> QED
    BY <1>3, <1>4, <2>1, NatSetInduction
<1>6. \A k \in 0..n : h[k] \in Seq(Characters)
  BY <1>5
<1> QED
  BY <1>1, <1>2, <1>6 DEF Passes, SpokenSteps

(* Two texts, one after the other. *)
LEMMA SpokenConcat ==
    ASSUME NEW s \in Seq(Characters), NEW t \in Seq(Characters)
    PROVE  Spoken(s \o t) = Spoken(s) \o Spoken(t)
<1>1. PICK n \in Nat, m \in Nat : n = Len(s) /\ m = Len(t)
  OBVIOUS
<1>2. PICK st : st = s \o t
  OBVIOUS
<1>3. /\ st \in Seq(Characters) /\ Len(st) = n + m
      /\ \A k \in 1..n : st[k] = s[k]
      /\ \A k \in 1..m : st[n + k] = t[k]
  BY <1>1, <1>2
<1>4. PICK f : SpokenSteps(s, n, f) /\ Spoken(s) = f[n]
  BY <1>1, SpokenIs
<1>5. PICK g : SpokenSteps(t, m, g) /\ Spoken(t) = g[m]
  BY <1>1, SpokenIs
<1>6. PICK l \in Nat : l = n + m
  OBVIOUS
<1>7. PICK h : SpokenSteps(st, l, h) /\ Spoken(st) = h[l]
  BY <1>3, <1>6, SpokenIs
<1> DEFINE T == {k \in Nat : k <= n => h[k] = f[k]}
<1>8. T = Nat
  <2>1. 0 \in T
    BY <1>4, <1>7 DEF SpokenSteps
  <2>2. ASSUME NEW k \in T PROVE k + 1 \in T
    <3> SUFFICES ASSUME k + 1 <= n PROVE h[k + 1] = f[k + 1]
      OBVIOUS
    <3>1. k \in Nat /\ k <= n /\ k + 1 \in 1..n /\ (k + 1) - 1 = k /\ k + 1 \in 1..l
      BY <1>6
    <3>2. h[k + 1] = IF st[k + 1] = Space THEN h[k] ELSE Append(h[k], st[k + 1])
      BY <1>7, <3>1 DEF SpokenSteps
    <3>3. f[k + 1] = IF s[k + 1] = Space THEN f[k] ELSE Append(f[k], s[k + 1])
      BY <1>4, <3>1 DEF SpokenSteps
    <3>4. h[k] = f[k] /\ st[k + 1] = s[k + 1]
      BY <1>3, <3>1
    <3> QED
      BY <3>2, <3>3, <3>4
  <2> HIDE DEF T
  <2>3. T \in SUBSET Nat
    BY DEF T
  <2> QED
    BY <2>1, <2>2, <2>3, NatSetInduction
<1>9. h[n] = f[n]
  BY <1>8
<1>10. PICK r : r = [k \in 0..m |-> h[n + k]]
  OBVIOUS
<1>11. r[0] = f[n] /\ r[m] = Spoken(st)
  <2>1. 0 \in 0..m /\ m \in 0..m /\ n + 0 = n
    OBVIOUS
  <2> QED
    BY <1>6, <1>7, <1>9, <1>10, <2>1
<1>12. ASSUME NEW k \in 1..m PROVE r[k] = IF t[k] = Space THEN r[k - 1] ELSE Append(r[k - 1], t[k])
  <2>1. PICK j \in 1..l : j = n + k
    BY <1>6
  <2>2. h[j] = IF st[j] = Space THEN h[j - 1] ELSE Append(h[j - 1], st[j])
    BY <1>7 DEF SpokenSteps
  <2>3. j - 1 = n + (k - 1) /\ k \in 0..m /\ k - 1 \in 0..m
    BY <2>1
  <2>4. st[j] = t[k]
    BY <1>3, <2>1
  <2>5. r[k] = h[j] /\ r[k - 1] = h[j - 1]
    BY <1>10, <2>1, <2>3
  <2> QED
    BY <2>2, <2>4, <2>5
<1> DEFINE U == {k \in Nat : k <= m => Joint(r[k], f[n], g[k])}
<1>13. f[n] \in Seq(Characters)
  BY <1>4 DEF SpokenSteps
<1>14. U = Nat
  <2>1. 0 \in U
    <3>1. g[0] = <<>>
      BY <1>5 DEF SpokenSteps
    <3> QED
      BY <1>11, <1>13, <3>1, JointEmpty
  <2>2. ASSUME NEW k \in U PROVE k + 1 \in U
    <3> SUFFICES ASSUME k + 1 <= m PROVE Joint(r[k + 1], f[n], g[k + 1])
      OBVIOUS
    <3>1. k \in Nat /\ k <= m /\ k + 1 \in 1..m /\ (k + 1) - 1 = k /\ k \in 0..m
      OBVIOUS
    <3>2. r[k + 1] = IF t[k + 1] = Space THEN r[k] ELSE Append(r[k], t[k + 1])
      BY <1>12, <3>1
    <3>3. g[k + 1] = IF t[k + 1] = Space THEN g[k] ELSE Append(g[k], t[k + 1])
      BY <1>5, <3>1 DEF SpokenSteps
    <3>4. Joint(r[k], f[n], g[k])
      BY <3>1
    <3>5. g[k] \in Seq(Characters) /\ t[k + 1] \in Characters
      BY <1>1, <1>5, <3>1 DEF SpokenSteps
    <3>6. Joint(Append(r[k], t[k + 1]), f[n], Append(g[k], t[k + 1]))
      BY <1>13, <3>4, <3>5, JointAppend
    <3> QED
      BY <3>2, <3>3, <3>4, <3>6
  <2> HIDE DEF U
  <2>3. U \in SUBSET Nat
    BY DEF U
  <2> QED
    BY <2>1, <2>2, <2>3, NatSetInduction
<1>15. Joint(r[m], f[n], g[m])
  BY <1>14
<1> QED
  BY <1>2, <1>4, <1>5, <1>11, <1>15 DEF Joint

(* White space is not spoken. *)
LEMMA SpokenSpaces ==
    ASSUME NEW t \in Seq(Characters), \A i \in 1..Len(t) : t[i] = Space
    PROVE  Spoken(t) = <<>>
<1>1. PICK n \in Nat : n = Len(t)
  OBVIOUS
<1>2. PICK h : SpokenSteps(t, n, h) /\ Spoken(t) = h[n]
  BY <1>1, SpokenIs
<1> DEFINE T == {k \in Nat : k <= n => h[k] = <<>>}
<1>3. 0 \in T
  BY <1>2 DEF SpokenSteps
<1>4. ASSUME NEW k \in T PROVE k + 1 \in T
  <2> SUFFICES ASSUME k + 1 <= n PROVE h[k + 1] = <<>>
    OBVIOUS
  <2>1. k \in Nat /\ k <= n /\ k + 1 \in 1..n /\ (k + 1) - 1 = k
    OBVIOUS
  <2> QED
    BY <1>1, <1>2, <2>1 DEF SpokenSteps
<1>5. T = Nat
  <2> HIDE DEF T
  <2>1. T \in SUBSET Nat
    BY DEF T
  <2> QED
    BY <1>3, <1>4, <2>1, NatSetInduction
<1> QED
  BY <1>2, <1>5

-----------------------------------------------------------------------------
(* FlattenSeq is a function that exists, and one chunk more goes behind.    *)
IsFlat(seqs, n, g) == g = [i \in 1..n |-> IF i = 1 THEN seqs[i] ELSE g[i - 1] \o seqs[i]]
Flat(seqs, n) == CHOOSE g : IsFlat(seqs, n, g)

FlatBySteps(seqs, n, g) == /\ n > 0 => g[1] = seqs[1]
                           /\ \A i \in 2..n : Joint(g[i], g[i - 1], seqs[i])

LEMMA FlatSteps ==
    ASSUME NEW seqs, NEW n \in Nat, NEW g, IsFlat(seqs, n, g)
    PROVE  FlatBySteps(seqs, n, g)
<1>1. g = [i \in 1..n |-> IF i = 1 THEN seqs[i] ELSE g[i - 1] \o seqs[i]]
  BY DEF IsFlat
<1>2. \A i \in 1..n : g[i] = IF i = 1 THEN seqs[i] ELSE g[i - 1] \o seqs[i]
  <2> DEFINE F(i) == IF i = 1 THEN seqs[i] ELSE g[i - 1] \o seqs[i]
  <2>1. g = [i \in 1..n |-> F(i)]
    BY <1>1
  <2> HIDE DEF F
  <2>2. \A i \in 1..n : g[i] = F(i)
    BY <2>1
  <2> QED
    BY <2>2 DEF F
<1>3. n > 0 => 1 \in 1..n
  OBVIOUS
<1>4. \A i \in 2..n : i \in 1..n /\ i # 1
  OBVIOUS
<1>5. \A i \in 2..n : g[i] = g[i - 1] \o seqs[i]
  BY <1>2, <1>4, Zenon
<1>6. \A i \in 2..n : Joint(g[i], g[i - 1], seqs[i])
  BY <1>5, Zenon DEF Joint
<1>7. n > 0 => g[1] = seqs[1]
  BY <1>2, <1>3, Zenon
<1> QED
  BY <1>6, <1>7, Zenon DEF FlatBySteps

LEMMA FlatExists ==
    ASSUME NEW seqs, NEW n \in Nat
    PROVE  IsFlat(seqs, n, Flat(seqs, n))
<1> DEFINE T == {m \in Nat : \E g : IsFlat(seqs, m, g)}
           F(g, i) == IF i = 1 THEN seqs[i] ELSE g[i - 1] \o seqs[i]
<1>0. \A m, g : IsFlat(seqs, m, g) <=> g = [i \in 1..m |-> F(g, i)]
  BY DEF IsFlat
<1>1. 0 \in T
  <2>1. 1..0 = {}
    OBVIOUS
  <2>2. [i \in 1..0 |-> <<>>] = [i \in 1..0 |-> F([j \in 1..0 |-> <<>>], i)]
    BY <2>1
  <2> QED
    BY <1>0, <2>2
<1>2. ASSUME NEW m \in T PROVE m + 1 \in T
  <2>0. PICK g : IsFlat(seqs, m, g)
    OBVIOUS
  <2>1. g = [i \in 1..m |-> F(g, i)]
    BY <1>0, <2>0
  <2>2. PICK h : h = [i \in 1..(m + 1) |-> F(g, i)]
    OBVIOUS
  <2> HIDE DEF F
  <2>3. m \in Nat /\ \A i \in 1..m : i \in 1..(m + 1) /\ h[i] = g[i]
    BY <2>1, <2>2
  <2>4. \A i \in 1..(m + 1) : i # 1 => i - 1 \in 1..m
    BY <2>3
  <2>5. \A i \in 1..(m + 1) : F(g, i) = F(h, i)
    BY <2>3, <2>4 DEF F
  <2>6. h = [i \in 1..(m + 1) |-> F(h, i)]
    BY <2>2, <2>5
  <2> QED
    BY <1>0, <2>3, <2>6
<1>3. T = Nat
  <2> HIDE DEF T
  <2>1. T \in SUBSET Nat
    BY DEF T
  <2> QED
    BY <1>1, <1>2, <2>1, NatSetInduction
<1>4. \E g : IsFlat(seqs, n, g)
  BY <1>3
<1> QED
  BY <1>4 DEF Flat

Alike(s, t, n) == \A i \in 1..n : s[i] = t[i]

LEMMA FlatAgree ==
    ASSUME NEW s, NEW t, NEW n \in Nat, NEW m \in Nat, NEW g, NEW h, IsFlat(s, n, g), IsFlat(t, m, h),
           n <= m, Alike(s, t, n)
    PROVE  Alike(g, h, n)
<1> DEFINE T == {k \in Nat : k \in 1..n => g[k] = h[k]}
<1>0. FlatBySteps(s, n, g) /\ FlatBySteps(t, m, h)
  BY FlatSteps
<1>1. 0 \in T
  OBVIOUS
<1>2. ASSUME NEW k \in T PROVE k + 1 \in T
  <2>1. PICK j \in Nat : j = k + 1
    OBVIOUS
  <2> SUFFICES ASSUME j \in 1..n PROVE g[j] = h[j]
    BY <2>1
  <2>2. j \in 1..m /\ s[j] = t[j] /\ n > 0 /\ m > 0 /\ j - 1 = k
    BY <2>1 DEF Alike
  <2>3. CASE j = 1
    BY <1>0, <2>2, <2>3 DEF FlatBySteps
  <2>4. CASE j # 1
    <3>1. j \in 2..n /\ j \in 2..m /\ k \in 1..n
      BY <2>1, <2>2, <2>4
    <3>2. Joint(g[j], g[j - 1], s[j]) /\ Joint(h[j], h[j - 1], t[j])
      BY <1>0, <3>1 DEF FlatBySteps
    <3>3. g[j - 1] = h[j - 1]
      BY <2>2, <3>1
    <3> QED
      BY <2>2, <3>2, <3>3, Zenon DEF Joint
  <2> QED
    BY <2>3, <2>4
<1>3. T = Nat
  <2> HIDE DEF T
  <2>1. T \in SUBSET Nat
    BY DEF T
  <2> QED
    BY <1>1, <1>2, <2>1, NatSetInduction
<1> QED
  BY <1>3 DEF Alike

LEMMA FlattenIs ==
    ASSUME NEW seqs, NEW n \in Nat, n = Len(seqs), n # 0
    PROVE  FlattenSeq(seqs) = Flat(seqs, n)[n]
BY DEF FlattenSeq, Flat, IsFlat

LEMMA FlattenEmpty == FlattenSeq(<<>>) = <<>>
<1>1. Len(<<>>) = 0
  OBVIOUS
<1> QED
  BY <1>1 DEF FlattenSeq

LEMMA FlattenAppend ==
    ASSUME NEW S, NEW seqs \in Seq(Seq(S)), NEW c \in Seq(S)
    PROVE  Joint(FlattenSeq(Append(seqs, c)), FlattenSeq(seqs), c)
<1>1. PICK n \in Nat : n = Len(seqs)
  OBVIOUS
<1>2. PICK t : t = Append(seqs, c)
  OBVIOUS
<1>3. /\ t \in Seq(Seq(S)) /\ Len(t) = n + 1 /\ t[n + 1] = c
      /\ \A i \in 1..n : t[i] = seqs[i]
  BY <1>1, <1>2
<1>4. PICK m \in Nat : m = n + 1
  OBVIOUS
<1>5. PICK g, h : g = Flat(seqs, n) /\ h = Flat(t, m)
  OBVIOUS
<1>6. IsFlat(seqs, n, g) /\ IsFlat(t, m, h) /\ FlattenSeq(t) = h[m]
  BY <1>3, <1>4, <1>5, FlatExists, FlattenIs
<1>7. CASE n = 0
  <2>1. seqs = <<>> /\ m = 1
    <3>1. seqs \in Seq(Seq(S)) /\ Len(seqs) = 0
      BY <1>1, <1>7
    <3>2. seqs = <<>>
      BY <3>1, EmptySeq, Zenon
    <3> QED
      BY <1>4, <1>7, <3>2
  <2>2. h[1] = t[1] /\ t[1] = c
    <3>1. m > 0 /\ t[m] = c
      BY <1>3, <1>4
    <3>2. h[1] = t[1]
      BY <1>6, <3>1, FlatSteps DEF FlatBySteps
    <3> QED
      BY <2>1, <3>1, <3>2
  <2> QED
    BY <1>2, <1>6, <2>1, <2>2, FlattenEmpty, JointEmpty
<1>8. CASE n # 0
  <2>1. \A i \in 1..n : g[i] = h[i]
    <3>1. n <= m /\ Alike(seqs, t, n)
      BY <1>3, <1>4 DEF Alike
    <3>2. Alike(g, h, n)
      BY <1>6, <3>1, FlatAgree
    <3> QED
      BY <3>2 DEF Alike
  <2>2. m \in 2..m /\ m - 1 = n /\ n \in 1..n
    BY <1>4, <1>8
  <2>3. Joint(h[m], h[m - 1], t[m])
    BY <1>6, <2>2, FlatSteps DEF FlatBySteps
  <2>4. Joint(h[m], g[n], c)
    BY <1>3, <1>4, <2>1, <2>2, <2>3
  <2>5. FlattenSeq(seqs) = g[n]
    BY <1>1, <1>5, <1>8, FlattenIs
  <2> QED
    BY <1>2, <1>6, <2>4, <2>5
<1> QED
  BY <1>7, <1>8

-----------------------------------------------------------------------------
(* Pieces of a text. *)
LEMMA SpokenHalves ==
    ASSUME NEW t \in Seq(Characters), NEW n \in Nat, n = Len(t), NEW p \in 0..n
    PROVE  /\ SubSeq(t, 1, p) \in Seq(Characters) /\ Len(SubSeq(t, 1, p)) = p
           /\ From(t, p + 1) \in Seq(Characters) /\ Len(From(t, p + 1)) = n - p
           /\ Joint(Spoken(t), Spoken(SubSeq(t, 1, p)), Spoken(From(t, p + 1)))
<1>1. PICK a, b : a = SubSeq(t, 1, p) /\ b = From(t, p + 1)
  OBVIOUS
<1>2. a \in Seq(Characters) /\ Len(a) = p
  BY <1>1
<1>3. b \in Seq(Characters) /\ Len(b) = n - p
  BY <1>1 DEF From
<1>4. t = a \o b
  BY <1>1, Halves DEF From
<1>5. Spoken(t) = Spoken(a) \o Spoken(b)
  BY <1>2, <1>3, <1>4, SpokenConcat
<1> QED
  BY <1>1, <1>2, <1>3, <1>5 DEF Joint

LEMMA GreatestOf ==
    ASSUME NEW n \in Nat, NEW S \in SUBSET (0..n), S # {}
    PROVE  Greatest(S) \in S /\ \A q \in S : q <= Greatest(S)
<1>1. IsFiniteSet(0..n) /\ 0..n \subseteq Int
  BY FS_Interval
<1>2. IsFiniteSet(S) /\ S \in SUBSET Int
  BY <1>1, FS_Subset
<1>3. PICK m \in S : \A x \in S : m >= x
  BY <1>2, GreatestExists
<1>4. \E p \in S : \A q \in S : q <= p
  BY <1>2, <1>3
<1> QED
  BY <1>4 DEF Greatest

LEMMA SpokenEmpty == <<>> \in Seq(Characters) /\ Len(<<>>) = 0 /\ Spoken(<<>>) = <<>>
<1>1. <<>> \in Seq(Characters) /\ Len(<<>>) = 0
  BY EmptySeq
<1>2. PICK t : t = <<>>
  OBVIOUS
<1>3. t \in Seq(Characters) /\ Len(t) = 0 /\ \A i \in 1..Len(t) : t[i] = Space
  BY <1>1, <1>2
<1>4. Spoken(t) = <<>>
  BY <1>3, SpokenSpaces
<1> QED
  BY <1>1, <1>2, <1>4

LEMMA SpokenTyped == \A t \in Seq(Characters) : Spoken(t) \in Seq(Characters)
<1> SUFFICES ASSUME NEW t \in Seq(Characters) PROVE Spoken(t) \in Seq(Characters)
  OBVIOUS
<1>1. PICK n \in Nat : n = Len(t)
  OBVIOUS
<1>2. PICK h : SpokenSteps(t, n, h) /\ Spoken(t) = h[n]
  BY <1>1, SpokenIs
<1> QED
  BY <1>2 DEF SpokenSteps

LEMMA LStripIs ==
    ASSUME NEW t \in Seq(Characters), NEW n \in Nat, n = Len(t)
    PROVE  /\ LStrip(t) \in Seq(Characters) /\ Len(LStrip(t)) <= n /\ Spoken(LStrip(t)) = Spoken(t)
           /\ LStrip(t) # <<>> => Printed(LStrip(t)) # {}
<1>1. CASE Printed(t) = {}
  <2>1. \A i \in 1..Len(t) : t[i] = Space
    BY <1>1 DEF Printed
  <2>2. Spoken(t) = <<>>
    BY <2>1, SpokenSpaces
  <2>3. <<>> \in Seq(Characters) /\ Len(<<>>) = 0
    BY EmptySeq
  <2>4. Spoken(<<>>) = <<>>
    BY SpokenEmpty
  <2>5. LStrip(t) = <<>>
    BY <1>1 DEF LStrip
  <2> QED
    BY <2>2, <2>3, <2>4, <2>5
<1>2. CASE Printed(t) # {}
  <2>1. Printed(t) \subseteq 1..n
    BY DEF Printed
  <2>3. PICK p \in Printed(t) : \A q \in Printed(t) : p <= q
    <3> DEFINE mirrored == {k \in 0..n : n - k \in Printed(t)}
    <3>1. mirrored \in SUBSET (0..n)
      OBVIOUS
    <3>2. mirrored # {}
      <4>1. PICK i \in 1..n : i \in Printed(t)
        BY <1>2, <2>1
      <4>2. n - i \in 0..n /\ n - (n - i) = i
        OBVIOUS
      <4> QED
        BY <4>1, <4>2
    <3>3. PICK k \in mirrored : \A j \in mirrored : j <= k
      <4> HIDE DEF mirrored
      <4> QED
        BY <3>1, <3>2, GreatestOf
    <3>4. k \in 0..n /\ n - k \in Printed(t)
      OBVIOUS
    <3>5. ASSUME NEW q \in Printed(t) PROVE n - k <= q
      <4>1. q \in 1..n
        BY <2>1
      <4>2. n - q \in 0..n /\ n - (n - q) = q
        BY <4>1
      <4>3. n - q \in mirrored
        BY <4>2
      <4>4. n - q <= k
        BY <3>3, <4>3
      <4> QED
        BY <3>4, <4>1, <4>4
    <3> QED
      BY <3>4, <3>5
  <2>4. PICK f \in Printed(t) : f = (CHOOSE g \in Printed(t) : \A q \in Printed(t) : g <= q) /\ \A q \in Printed(t) : f <= q
    BY <2>3
  <2>5. LStrip(t) = From(t, f)
    BY <1>2, <2>4 DEF LStrip
  <2>6. PICK p0 \in 0..n : p0 + 1 = f
    <3>1. f - 1 \in 0..n /\ (f - 1) + 1 = f
      BY <2>1
    <3> QED
      BY <3>1
  <2>7. PICK a : a = SubSeq(t, 1, p0)
    OBVIOUS
  <2>8. /\ a \in Seq(Characters) /\ Len(a) = p0
        /\ From(t, f) \in Seq(Characters) /\ Len(From(t, f)) = n - p0
        /\ Joint(Spoken(t), Spoken(a), Spoken(From(t, f)))
    BY <2>6, <2>7, SpokenHalves
  <2>9. \A i \in 1..Len(a) : a[i] = Space
    <3> SUFFICES ASSUME NEW i \in 1..p0 PROVE a[i] = Space
      BY <2>8
    <3>1. a[i] = t[i] /\ i \in 1..n /\ i < f
      BY <2>6, <2>7
    <3>2. i \notin Printed(t)
      BY <2>4, <2>1, <3>1
    <3> QED
      BY <3>1, <3>2 DEF Printed
  <2>10. Spoken(a) = <<>>
    BY <2>8, <2>9, SpokenSpaces
  <2>11. Spoken(From(t, f)) \in Seq(Characters)
    BY <2>8, SpokenTyped
  <2>12. Spoken(t) = Spoken(From(t, f))
    BY <2>8, <2>10, <2>11 DEF Joint
  <2>13. Printed(From(t, f)) # {}
    <3>1. f \in 1..n /\ t[f] # Space
      BY <2>1 DEF Printed
    <3>2. 1 \in DOMAIN From(t, f) /\ From(t, f)[1] = t[f]
      BY <3>1 DEF From
    <3> QED
      BY <3>1, <3>2 DEF Printed
  <2> QED
    BY <2>5, <2>6, <2>8, <2>12, <2>13
<1> QED
  BY <1>1, <1>2

LEMMA StripIs ==
    ASSUME NEW t \in Seq(Characters), NEW n \in Nat, n = Len(t)
    PROVE  Strip(t) \in Seq(Characters) /\ Len(Strip(t)) <= n /\ Spoken(Strip(t)) = Spoken(t)
<1>1. PICK u : u = LStrip(t)
  OBVIOUS
<1>2. u \in Seq(Characters) /\ Len(u) <= n /\ Spoken(u) = Spoken(t) /\ (u # <<>> => Printed(u) # {})
  BY <1>1, LStripIs
<1>3. CASE u = <<>>
  BY <1>1, <1>2, <1>3 DEF Strip
<1>4. CASE u # <<>>
  <2>1. PICK m \in Nat : m = Len(u)
    BY <1>2
  <2>2. Printed(u) # {} /\ Printed(u) \in SUBSET (0..m) /\ Printed(u) \subseteq 1..m
    BY <1>2, <1>4, <2>1 DEF Printed
  <2>3. PICK p : p = Greatest(Printed(u)) /\ p \in Printed(u) /\ \A q \in Printed(u) : q <= p
    BY <2>2, GreatestOf
  <2>4. p \in 0..m /\ Strip(t) = SubSeq(u, 1, p)
    BY <1>1, <1>4, <2>2, <2>3 DEF Strip
  <2>5. PICK a, b : a = SubSeq(u, 1, p) /\ b = From(u, p + 1)
    OBVIOUS
  <2>6. /\ a \in Seq(Characters) /\ Len(a) = p
        /\ b \in Seq(Characters) /\ Len(b) = m - p
        /\ Joint(Spoken(u), Spoken(a), Spoken(b))
    BY <1>2, <2>1, <2>4, <2>5, SpokenHalves
  <2>7. \A i \in 1..Len(b) : b[i] = Space
    <3> SUFFICES ASSUME NEW i \in 1..(m - p) PROVE b[i] = Space
      BY <2>6
    <3>1. b[i] = u[p + i] /\ p + i \in 1..m /\ p + i > p
      BY <1>2, <2>1, <2>4, <2>5 DEF From
    <3>2. p + i \notin Printed(u)
      <4>1. PICK j \in 1..m : j = p + i /\ j > p
        BY <3>1
      <4> QED
        BY <2>2, <2>3, <2>4, <4>1
    <3> QED
      BY <1>2, <2>1, <3>1, <3>2 DEF Printed
  <2>8. Spoken(b) = <<>> /\ Spoken(a) \in Seq(Characters)
    BY <2>6, <2>7, SpokenSpaces, SpokenTyped
  <2>9. Spoken(u) = Spoken(a)
    BY <2>6, <2>8 DEF Joint
  <2> QED
    BY <1>2, <2>1, <2>4, <2>5, <2>6, <2>9
<1> QED
  BY <1>3, <1>4

-----------------------------------------------------------------------------
(* A cut falls inside the segment: at an end of something in it, or before  *)
(* the one tag that reaches its end.                                        *)
LEMMA TagIsUnique ==
    ASSUME NEW t \in Seq(Characters), NEW g \in Tags(t), NEW h \in Tags(t), g[2] = h[2]
    PROVE  ~(g[1] < h[1])
<1> SUFFICES ASSUME g[1] < h[1] PROVE FALSE
  OBVIOUS
<1>1. PICK n \in Nat : n = Len(t)
  OBVIOUS
<1>2. PICK a \in 1..n, b \in 1..n, c \in 1..n : a = g[1] /\ b = h[1] /\ c = g[2] /\ c = h[2]
  BY <1>1 DEF Tags
<1>3. t[a] = "[" /\ a \in 1..(b - 1)
  BY <1>1, <1>2 DEF Tags
<1>4. PICK l \in (a + 1)..(b - 1) : t[l] = "]"
  BY <1>2, <1>3 DEF Tags
<1>5. b < c /\ \A k \in (a + 1)..(c - 1) : t[k] # "]"
  BY <1>2 DEF Tags, Closes
<1> QED
  BY <1>2, <1>4, <1>5

LEMMA HardCutIs ==
    ASSUME NEW t \in Seq(Characters), NEW n \in Nat \ {0}, n = Len(t)
    PROVE  HardCut(t) \in 1..n
<1> DEFINE hit == {g \in Tags(t) : g[1] < n /\ n <= g[2]}
<1>1. HardCut(t) = IF \E g \in hit : g[1] > 1 THEN (CHOOSE g \in hit : TRUE)[1] - 1 ELSE n
  BY DEF HardCut
<1>2. \A g \in hit : g[1] \in 1..n /\ g[2] = n
  BY DEF Tags
<1>3. CASE \E g \in hit : g[1] > 1
  <2>1. PICK g \in hit : g[1] > 1
    BY <1>3
  <2>2. PICK h \in hit : h = CHOOSE x \in hit : TRUE
    BY <2>1
  <2>3. g[1] \in 1..n /\ h[1] \in 1..n /\ g[2] = h[2] /\ g \in Tags(t) /\ h \in Tags(t)
    BY <1>2
  <2>4. ~(g[1] < h[1]) /\ ~(h[1] < g[1])
    BY <2>3, TagIsUnique
  <2>5. h[1] - 1 \in 1..n
    BY <2>1, <2>3, <2>4
  <2> HIDE DEF hit
  <2> QED
    BY <1>1, <1>3, <2>2, <2>5
<1>4. CASE ~ \E g \in hit : g[1] > 1
  <2> HIDE DEF hit
  <2> QED
    BY <1>1, <1>4
<1> QED
  BY <1>3, <1>4

LEMMA SplitAtIs ==
    ASSUME NEW t \in Seq(Characters), NEW n \in Nat \ {0}, n = Len(t)
    PROVE  SplitAt(t) \in 1..n
<1>1. /\ SentenceEnds(t) \in SUBSET (1..n) /\ ClauseEnds(t) \in SUBSET (1..n)
      /\ Spaces(t) \in SUBSET (1..n)
  BY DEF SentenceEnds, ClauseEnds, Spaces
<1>2. ASSUME NEW S \in SUBSET (1..n), S # {} PROVE Greatest(S) \in 1..n
  <2>1. S \in SUBSET (0..n)
    OBVIOUS
  <2> QED
    BY <1>2, <2>1, GreatestOf
<1>3. HardCut(t) \in 1..n
  BY HardCutIs
<1> QED
  BY <1>1, <1>2, <1>3 DEF SplitAt

-----------------------------------------------------------------------------
(* The loop. *)
SplitTypes ==
    /\ text \in Seq(Characters) /\ limit \in Nat \ {0} /\ rest \in Seq(Characters)
    /\ chunks \in Seq(Seq(Characters)) /\ FlattenSeq(chunks) \in Seq(Characters)

SpokenSoFar == Joint(Spoken(text), Spoken(FlattenSeq(chunks)), Spoken(rest))
ShortChunks == \A i \in DOMAIN chunks : Len(chunks[i]) \in 1..limit

SplitInv == SplitTypes /\ SpokenSoFar /\ ShortChunks

LEMMA SplitStarts == SplitInit \/ NoText => SplitInv
<1> SUFFICES ASSUME SplitInit \/ NoText PROVE SplitInv
  OBVIOUS
<1>1. text \in Seq(Characters) /\ limit \in Nat \ {0} /\ chunks = <<>>
  <2>1. CASE SplitInit
    BY <2>1, SplitAssumption DEF SplitInit
  <2>2. CASE NoText
    BY <2>2, SpokenEmpty DEF NoText
  <2> QED
    BY <2>1, <2>2
<1>2. rest \in Seq(Characters) /\ Spoken(rest) = Spoken(text)
  <2>1. CASE rest = Strip(text)
    <3>1. PICK n \in Nat : n = Len(text)
      BY <1>1
    <3> QED
      BY <1>1, <2>1, <3>1, StripIs
  <2>2. CASE rest = text
    BY <1>1, <2>2
  <2> QED
    BY <2>1, <2>2 DEF SplitInit, NoText
<1>3. FlattenSeq(chunks) = <<>> /\ <<>> \in Seq(Characters) /\ <<>> \in Seq(Seq(Characters)) /\ Len(<<>>) = 0
  BY <1>1, FlattenEmpty, EmptySeq
<1>4. Spoken(<<>>) = <<>>
  BY SpokenEmpty
<1>5. Spoken(rest) \in Seq(Characters)
  BY <1>2, SpokenTyped
<1>6. Joint(Spoken(rest), <<>>, Spoken(rest))
  BY <1>5, JointEmpty
<1>7. SpokenSoFar
  BY <1>2, <1>3, <1>4, <1>6 DEF SpokenSoFar
<1>8. ShortChunks
  BY <1>1 DEF ShortChunks
<1> QED
  BY <1>1, <1>2, <1>3, <1>7, <1>8 DEF SplitInv, SplitTypes

(* One chunk more, and what is left. *)
LEMMA ChunkTaken ==
    ASSUME SplitInv, NEW c \in Seq(Characters), NEW left \in Seq(Characters), Len(c) <= limit,
           Joint(Spoken(rest), Spoken(c), Spoken(left)),
           chunks' = Added(c), rest' = left, text' = text, limit' = limit
    PROVE  SplitInv'
<1>0. PICK said, s, r, l, new : /\ said = Spoken(FlattenSeq(chunks)) /\ s = Spoken(c) /\ r = Spoken(rest)
                                /\ l = Spoken(left) /\ new = Spoken(FlattenSeq(chunks'))
  OBVIOUS
<1>1. said \in Seq(Characters) /\ s \in Seq(Characters) /\ l \in Seq(Characters) /\ r = s \o l
      /\ Spoken(text) = said \o r
  BY <1>0, SpokenTyped DEF SplitInv, SplitTypes, SpokenSoFar, Joint
<1>2. CASE c = <<>>
  <2>1. chunks' = chunks
    BY <1>2 DEF Added
  <2>2. s = <<>>
    BY <1>0, <1>2, SpokenEmpty
  <2>3. r = l
    BY <1>1, <2>2
  <2>4. SpokenSoFar'
    BY <1>0, <1>1, <2>1, <2>3 DEF SpokenSoFar, Joint
  <2> QED
    BY <2>1, <2>4 DEF SplitInv, SplitTypes, ShortChunks
<1>3. CASE c # <<>>
  <2>1. chunks' = Append(chunks, c) /\ chunks \in Seq(Seq(Characters)) /\ chunks' \in Seq(Seq(Characters))
    BY <1>3 DEF Added, SplitInv, SplitTypes
  <2>2. Joint(FlattenSeq(chunks'), FlattenSeq(chunks), c)
    BY <2>1, FlattenAppend
  <2>3. FlattenSeq(chunks') \in Seq(Characters) /\ new = said \o s
    <3>1. PICK f, g : f = FlattenSeq(chunks) /\ g = FlattenSeq(chunks')
      OBVIOUS
    <3>2. f \in Seq(Characters) /\ g = f \o c
      BY <2>2, <3>1 DEF Joint, SplitInv, SplitTypes
    <3>3. Spoken(f \o c) = Spoken(f) \o Spoken(c) /\ f \o c \in Seq(Characters)
      BY <3>2, SpokenConcat, ConcatProperties
    <3> QED
      BY <1>0, <3>1, <3>2, <3>3
  <2>4. said \o (s \o l) = (said \o s) \o l
    <3>1. PICK sl, ss, x : Joint(sl, s, l) /\ Joint(ss, said, s) /\ Joint(x, said, sl)
      BY DEF Joint
    <3>2. Joint(x, ss, l)
      BY <1>1, <3>1, JointAssociative
    <3> QED
      BY <3>1, <3>2 DEF Joint
  <2>5. SpokenSoFar'
    BY <1>0, <1>1, <2>3, <2>4 DEF SpokenSoFar, Joint
  <2>6. ShortChunks'
    <3> SUFFICES ASSUME NEW i \in DOMAIN chunks' PROVE Len(chunks'[i]) \in 1..limit
      BY DEF ShortChunks
    <3>1. PICK n \in Nat : n = Len(chunks)
      BY <2>1
    <3>2. i \in 1..(n + 1) /\ chunks'[n + 1] = c /\ \A k \in 1..n : chunks'[k] = chunks[k] /\ k \in DOMAIN chunks
      BY <2>1, <3>1
    <3>3. Len(c) \in 1..limit
      <4>1. Len(c) \in Nat /\ Len(c) # 0
        BY <1>3, EmptySeq
      <4> QED
        BY <4>1 DEF SplitInv, SplitTypes
    <3>4. CASE i = n + 1
      BY <3>2, <3>3, <3>4
    <3>5. CASE i # n + 1
      <4>1. i \in 1..n
        BY <3>1, <3>2, <3>5
      <4> QED
        BY <3>2, <4>1 DEF SplitInv, ShortChunks
    <3> QED
      BY <3>4, <3>5
  <2> QED
    BY <2>1, <2>3, <2>5, <2>6 DEF SplitInv, SplitTypes
<1> QED
  BY <1>2, <1>3

LEMMA SplitStep == SplitInv /\ SplitNext => SplitInv'
<1> SUFFICES ASSUME SplitInv, SplitNext PROVE SplitInv'
  OBVIOUS
<1>1. text' = text /\ limit' = limit
  BY DEF SplitNext
<1>2. rest \in Seq(Characters) /\ limit \in Nat \ {0}
  BY DEF SplitInv, SplitTypes
<1>3. PICK r \in Seq(Characters) : r = LStrip(rest) /\ Spoken(r) = Spoken(rest)
  <2>1. PICK n \in Nat : n = Len(rest)
    BY <1>2
  <2>2. LStrip(rest) \in Seq(Characters) /\ Spoken(LStrip(rest)) = Spoken(rest)
    BY <1>2, <2>1, LStripIs
  <2> QED
    BY <2>2
<1>m. PICK m \in Nat : m = Len(r)
  OBVIOUS
<1>4. CASE Cut
  <2>1. PICK p : p = SplitAt(SubSeq(r, 1, limit))
    OBVIOUS
  <2>2. m > limit /\ chunks' = Added(Strip(SubSeq(r, 1, p))) /\ rest' = From(r, p + 1)
    BY <1>3, <1>m, <1>4, <2>1 DEF Cut
  <2>3. SubSeq(r, 1, limit) \in Seq(Characters) /\ Len(SubSeq(r, 1, limit)) = limit
    BY <1>2, <1>3, <1>m, <2>2
  <2>4. p \in 1..limit /\ p \in 0..m /\ p \in Nat
    <3>1. PICK seg \in Seq(Characters), lim \in Nat \ {0} : seg = SubSeq(r, 1, limit) /\ lim = limit /\ lim = Len(seg)
      BY <1>2, <2>3
    <3>2. SplitAt(seg) \in 1..lim
      BY <3>1, SplitAtIs
    <3> QED
      BY <1>2, <2>1, <2>2, <3>1, <3>2
  <2>5. PICK a, b : a = SubSeq(r, 1, p) /\ b = From(r, p + 1)
    OBVIOUS
  <2>6. /\ a \in Seq(Characters) /\ Len(a) = p /\ b \in Seq(Characters)
        /\ Joint(Spoken(r), Spoken(a), Spoken(b))
    BY <1>3, <1>m, <2>4, <2>5, SpokenHalves
  <2>7. PICK c : c = Strip(a) /\ c \in Seq(Characters) /\ Len(c) <= p /\ Spoken(c) = Spoken(a)
    BY <2>4, <2>6, StripIs
  <2>8. Len(c) <= limit
    <3>1. Len(c) \in Nat
      BY <2>7
    <3> QED
      BY <1>2, <2>4, <2>7, <3>1
  <2>9. Joint(Spoken(rest), Spoken(c), Spoken(b)) /\ chunks' = Added(c) /\ rest' = b
    BY <1>3, <2>2, <2>5, <2>6, <2>7
  <2> QED
    BY <1>1, <2>6, <2>7, <2>8, <2>9, ChunkTaken
<1>5. CASE LastChunk
  <2>1. m <= limit /\ chunks' = Added(r) /\ rest' = <<>>
    BY <1>3, <1>m, <1>5 DEF LastChunk
  <2>2. <<>> \in Seq(Characters) /\ Len(<<>>) = 0
    BY EmptySeq
  <2>3. Spoken(<<>>) = <<>>
    BY SpokenEmpty
  <2>4. Joint(Spoken(r), Spoken(r), <<>>)
    BY <1>3, SpokenTyped, JointEmpty
  <2>5. Joint(Spoken(rest), Spoken(r), Spoken(<<>>)) /\ Len(r) <= limit
    BY <1>3, <1>m, <2>1, <2>3, <2>4
  <2> QED
    BY <1>1, <1>3, <2>1, <2>2, <2>5, ChunkTaken
<1> QED
  BY <1>4, <1>5 DEF SplitNext

LEMMA SplitHolds == SplitInv => ChunksPartitionText
<1> SUFFICES ASSUME SplitInv PROVE ChunksPartitionText
  OBVIOUS
<1>1. FlattenSeq(chunks) \in Seq(Characters) /\ rest \in Seq(Characters)
  BY DEF SplitInv, SplitTypes
<1>2. Spoken(FlattenSeq(chunks) \o rest) = Spoken(FlattenSeq(chunks)) \o Spoken(rest)
  BY <1>1, SpokenConcat
<1>3. Spoken(text) = Spoken(FlattenSeq(chunks)) \o Spoken(rest)
  BY DEF SplitInv, SpokenSoFar, Joint
<1> QED
  BY <1>2, <1>3 DEF SplitInv, ShortChunks, ChunksPartitionText

-----------------------------------------------------------------------------
(* Frames of a render.  A row of frames as the stages keep it: the frames   *)
(* start + 1 .. start + n of the source, gone through the effects b, and    *)
(* nothing where the source has ended.                                      *)
Slice(start, n, d, b) == [i \in 1..n |-> IF start + i <= d THEN [of |-> start + i, by |-> b] ELSE Hole]

Steps == Nat \cup {"n"}

LEMMA MaxOfTwo == ASSUME NEW a \in Int, NEW b \in Int PROVE Max({a, b}) = IF a >= b THEN a ELSE b
<1>1. \E x \in {a, b} : \A y \in {a, b} : x >= y
  OBVIOUS
<1>2. PICK m : m = Max({a, b}) /\ m \in {a, b} /\ \A y \in {a, b} : m >= y
  BY <1>1 DEF Max
<1> QED
  BY <1>2

LEMMA MinOfTwo == ASSUME NEW a \in Int, NEW b \in Int PROVE Min({a, b}) = IF a <= b THEN a ELSE b
<1>1. \E x \in {a, b} : \A y \in {a, b} : x <= y
  OBVIOUS
<1>2. PICK m : m = Min({a, b}) /\ m \in {a, b} /\ \A y \in {a, b} : m <= y
  BY <1>1 DEF Min
<1> QED
  BY <1>2

LEMMA SliceIs ==
    ASSUME NEW start \in Nat, NEW n \in Nat, NEW d \in Nat, NEW b
    PROVE  /\ DOMAIN Slice(start, n, d, b) = 1..n /\ Len(Slice(start, n, d, b)) = n
           /\ \A i \in 1..n : Slice(start, n, d, b)[i] = IF start + i <= d THEN [of |-> start + i, by |-> b] ELSE Hole
BY DEF Slice

LEMMA SliceLength == \A start \in Nat, n \in Nat, d \in Nat : \A b : Len(Slice(start, n, d, b)) = n
BY SliceIs

LEMMA SliceEmpty == ASSUME NEW d, NEW b PROVE Slice(0, 0, d, b) = <<>>
BY DEF Slice

LEMMA SourceIs == job.decoded \in Nat => Source = Slice(0, job.decoded, job.decoded, <<>>)
BY DEF Source, Slice, Frame

LEMMA ReadSlice ==
    ASSUME NEW n \in Nat, NEW d \in Nat, d <= n, NEW b, NEW start \in Nat, NEW k \in Nat
    PROVE  Read(Slice(0, n, d, b), start, k) = Slice(start, k, d, b)
<1>1. PICK f : f = Slice(0, n, d, b)
  OBVIOUS
<1>2. DOMAIN f = 1..n /\ \A i \in 1..n : f[i] = IF i <= d THEN [of |-> i, by |-> b] ELSE Hole
  BY <1>1 DEF Slice
<1>3. ASSUME NEW i \in 1..k
      PROVE  (IF start + i \in DOMAIN f THEN f[start + i] ELSE Hole)
                = (IF start + i <= d THEN [of |-> start + i, by |-> b] ELSE Hole)
  <2>1. PICK j \in Nat \ {0} : j = start + i
    OBVIOUS
  <2>2. (IF j \in DOMAIN f THEN f[j] ELSE Hole) = (IF j <= d THEN [of |-> j, by |-> b] ELSE Hole)
    <3>1. CASE j <= n
      <4>1. j \in 1..n
        BY <3>1
      <4> QED
        BY <1>2, <4>1
    <3>2. CASE ~(j <= n)
      <4>1. j \notin 1..n /\ ~(j <= d)
        BY <3>2
      <4> QED
        BY <1>2, <4>1
    <3> QED
      BY <3>1, <3>2
  <2> QED
    BY <2>1, <2>2
<1>4. Read(f, start, k) = [i \in 1..k |-> IF start + i <= d THEN [of |-> start + i, by |-> b] ELSE Hole]
  BY <1>3 DEF Read
<1> QED
  BY <1>1, <1>4 DEF Slice

LEMMA ThroughSlice ==
    ASSUME NEW start \in Nat, NEW n \in Nat, NEW d \in Nat, start + n <= d, NEW b, NEW e, NEW c, Joint(c, b, e)
    PROVE  Through(Slice(start, n, d, b), e) = Slice(start, n, d, c)
<1>1. PICK f : f = Slice(start, n, d, b)
  OBVIOUS
<1>2. DOMAIN f = 1..n /\ \A i \in 1..n : f[i] = [of |-> start + i, by |-> b]
  BY <1>1 DEF Slice
<1>3. ASSUME NEW i \in 1..n
      PROVE  [f[i] EXCEPT !.by = @ \o e] = (IF start + i <= d THEN [of |-> start + i, by |-> c] ELSE Hole)
  <2>1. start + i <= d
    OBVIOUS
  <2>2. PICK j : j = start + i
    OBVIOUS
  <2>3. f[i] = [of |-> j, by |-> b]
    BY <1>2, <2>2
  <2>4. \A x : [[of |-> j, by |-> b] EXCEPT !.by = x] = [of |-> j, by |-> x]
    OBVIOUS
  <2>5. [f[i] EXCEPT !.by = @ \o e] = [of |-> j, by |-> c]
    <3>1. PICK r : r = f[i]
      OBVIOUS
    <3>2. r = [of |-> j, by |-> b] /\ r.by = b
      BY <2>3, <3>1
    <3>3. [r EXCEPT !.by = @ \o e] = [r EXCEPT !.by = c]
      BY <3>2 DEF Joint
    <3> QED
      BY <2>4, <3>1, <3>2, <3>3
  <2> QED
    BY <2>1, <2>2, <2>5
<1>4. Through(f, e) = [i \in 1..n |-> IF start + i <= d THEN [of |-> start + i, by |-> c] ELSE Hole]
  BY <1>2, <1>3 DEF Through
<1> QED
  BY <1>1, <1>4 DEF Slice

LEMMA WriteSlice ==
    ASSUME NEW m \in Nat, NEW start \in Nat, start <= m, NEW k \in Nat, m <= start + k, NEW d \in Nat, NEW b
    PROVE  Written(Slice(0, m, d, b), start, Slice(start, k, d, b)) = Slice(0, start + k, d, b)
<1>1. PICK f, g : f = Slice(0, m, d, b) /\ g = Slice(start, k, d, b)
  OBVIOUS
<1>2. PICK q \in Nat : q = start + k
  OBVIOUS
<1>3. DOMAIN f = 1..m /\ Len(f) = m /\ \A i \in 1..m : f[i] = IF i <= d THEN [of |-> i, by |-> b] ELSE Hole
  BY <1>1, SliceIs
<1>4. DOMAIN g = 1..k /\ Len(g) = k /\ \A i \in 1..k : g[i] = IF start + i <= d THEN [of |-> start + i, by |-> b] ELSE Hole
  BY <1>1, SliceIs
<1>5. Max({Len(f), start + Len(g)}) = q
  BY <1>2, <1>3, <1>4, MaxOfTwo
<1>6. ASSUME NEW i \in 1..q
      PROVE  (IF i \in start + 1 .. start + Len(g) THEN g[i - start]
              ELSE IF i \in DOMAIN f THEN f[i] ELSE Hole)
                = (IF 0 + i <= d THEN [of |-> 0 + i, by |-> b] ELSE Hole)
  <2>1. CASE i \in start + 1 .. start + k
    <3>1. PICK j \in 1..k : j = i - start
      <4>1. i - start \in 1..k
        BY <2>1
      <4> QED
        BY <4>1
    <3>2. g[j] = IF start + j <= d THEN [of |-> start + j, by |-> b] ELSE Hole
      BY <1>4
    <3>3. start + j = i /\ 0 + i = i
      BY <3>1
    <3> QED
      BY <1>4, <2>1, <3>1, <3>2, <3>3
  <2>2. CASE i \notin start + 1 .. start + k
    <3>1. i \in 1..m /\ 0 + i = i
      BY <1>2, <2>2
    <3> QED
      BY <1>3, <1>4, <2>2, <3>1
  <2> QED
    BY <2>1, <2>2
<1>7. Written(f, start, g) = [i \in 1..q |-> IF 0 + i <= d THEN [of |-> 0 + i, by |-> b] ELSE Hole]
  BY <1>5, <1>6 DEF Written
<1> QED
  BY <1>1, <1>2, <1>7 DEF Slice

(* Two pieces, one after the other. *)
LEMMA JoinSlices ==
    ASSUME NEW n \in Nat, NEW k \in Nat, NEW d \in Nat, NEW b
    PROVE  Joint(Slice(0, n + k, d, b), Slice(0, n, d, b), Slice(n, k, d, b))
<1> DEFINE MaybeFrames == {Hole} \cup {[of |-> i, by |-> b] : i \in Nat}
<1>1. PICK f, g, h : f = Slice(0, n, d, b) /\ g = Slice(n, k, d, b) /\ h = Slice(0, n + k, d, b)
  OBVIOUS
<1>2. DOMAIN f = 1..n /\ Len(f) = n /\ \A i \in 1..n : f[i] = IF i <= d THEN [of |-> i, by |-> b] ELSE Hole
  BY <1>1, SliceIs
<1>3. DOMAIN g = 1..k /\ Len(g) = k /\ \A i \in 1..k : g[i] = IF n + i <= d THEN [of |-> n + i, by |-> b] ELSE Hole
  BY <1>1, SliceIs
<1>4. PICK nk \in Nat : nk = n + k
  OBVIOUS
<1>5. DOMAIN h = 1..nk /\ Len(h) = nk /\ \A i \in 1..nk : h[i] = IF i <= d THEN [of |-> i, by |-> b] ELSE Hole
  BY <1>1, <1>4, SliceIs
<1>6. f \in Seq(MaybeFrames) /\ g \in Seq(MaybeFrames) /\ h \in Seq(MaybeFrames)
  <2>1. f = [i \in 1..n |-> f[i]] /\ g = [i \in 1..k |-> g[i]] /\ h = [i \in 1..nk |-> h[i]]
    BY <1>1, <1>4 DEF Slice
  <2>2. /\ \A i \in 1..n : f[i] \in MaybeFrames
        /\ \A i \in 1..k : g[i] \in MaybeFrames
        /\ \A i \in 1..nk : h[i] \in MaybeFrames
    BY <1>2, <1>3, <1>5
  <2> HIDE DEF MaybeFrames
  <2>3. f \in [1..n -> MaybeFrames] /\ g \in [1..k -> MaybeFrames] /\ h \in [1..nk -> MaybeFrames]
    BY <2>1, <2>2
  <2> QED
    BY <2>3
<1> HIDE DEF MaybeFrames
<1>7. PICK c : Joint(c, f, g)
  BY DEF Joint
<1>8. c \in Seq(MaybeFrames) /\ Row(c, f, g, n, k)
  BY <1>2, <1>3, <1>6, <1>7, JointIs
<1>9. ASSUME NEW i \in 1..nk PROVE c[i] = h[i]
  <2>1. CASE i <= n
    BY <1>2, <1>5, <1>8, <2>1 DEF Row
  <2>2. CASE i > n
    <3>1. PICK j \in 1..k : j = i - n
      <4>1. i - n \in 1..k
        BY <1>4, <2>2
      <4> QED
        BY <4>1
    <3>2. i \in n + 1..n + k /\ n + j = i
      BY <1>4, <2>2, <3>1
    <3>3. c[i] = g[j]
      BY <1>8, <3>1, <3>2 DEF Row
    <3>4. g[j] = IF n + j <= d THEN [of |-> n + j, by |-> b] ELSE Hole
      BY <1>3
    <3> QED
      BY <1>5, <3>2, <3>3, <3>4
  <2> QED
    BY <2>1, <2>2
<1>10. c = h
  <2>1. Len(c) = nk
    BY <1>4, <1>8 DEF Row
  <2> QED
    BY <1>5, <1>6, <1>8, <1>9, <2>1
<1> QED
  BY <1>1, <1>7, <1>10

(* A window laid over what is already there: the same frames twice.         *)
LEMMA CrossfadeIs ==
    ASSUME NEW from \in Nat, NEW n \in Nat, NEW d \in Nat, NEW b, NEW seam \in 0..n
    PROVE  Joint(Slice(from, n, d, b), Joined(Slice(from, seam, d, b), SubSeq(Slice(from, n, d, b), 1, seam)),
                 SubSeq(Slice(from, n, d, b), seam + 1, n))
<1> DEFINE MaybeFrames == {Hole} \cup {[of |-> i, by |-> b] : i \in Nat}
<1>1. PICK g, p : g = Slice(from, n, d, b) /\ p = Slice(from, seam, d, b)
  OBVIOUS
<1>2. DOMAIN g = 1..n /\ Len(g) = n /\ \A i \in 1..n : g[i] = IF from + i <= d THEN [of |-> from + i, by |-> b] ELSE Hole
  BY <1>1, SliceIs
<1>3. DOMAIN p = 1..seam /\ Len(p) = seam /\ \A i \in 1..seam : p[i] = IF from + i <= d THEN [of |-> from + i, by |-> b] ELSE Hole
  BY <1>1, SliceIs
<1>4. g \in Seq(MaybeFrames) /\ p \in Seq(MaybeFrames)
  <2>1. g = [i \in 1..n |-> g[i]] /\ p = [i \in 1..seam |-> p[i]]
    BY <1>1 DEF Slice
  <2>2. (\A i \in 1..n : g[i] \in MaybeFrames) /\ \A i \in 1..seam : p[i] \in MaybeFrames
    BY <1>2, <1>3
  <2> HIDE DEF MaybeFrames
  <2>3. g \in [1..n -> MaybeFrames] /\ p \in [1..seam -> MaybeFrames]
    BY <2>1, <2>2
  <2> QED
    BY <2>3
<1> HIDE DEF MaybeFrames
<1>5. PICK r : r = SubSeq(g, 1, seam)
  OBVIOUS
<1>6. r \in Seq(MaybeFrames) /\ Len(r) = seam /\ \A i \in 1..seam : r[i] = g[i]
  BY <1>2, <1>4, <1>5, PieceOf
<1>7. r = p
  <2>1. \A i \in 1..seam : r[i] = p[i]
    BY <1>2, <1>3, <1>6
  <2> QED
    BY <1>3, <1>4, <1>6, <2>1
<1>8. Joined(p, r) = p
  <2>1. p = [i \in 1..seam |-> p[i]]
    BY <1>1 DEF Slice
  <2> QED
    BY <1>3, <1>7, <2>1 DEF Joined
<1>9. g = SubSeq(g, 1, seam) \o SubSeq(g, seam + 1, n)
  BY <1>2, <1>4, Halves
<1> QED
  BY <1>1, <1>5, <1>7, <1>8, <1>9 DEF Joint

-----------------------------------------------------------------------------
(* The chain of effects, and what a frame has gone through after each of    *)
(* its segments.                                                            *)
Effect == [pitch : BOOLEAN, on : BOOLEAN]
Segment == [kind : {"pitch", "stream"}, effects : Seq(Nat)]

LEMMA EnabledIs == ASSUME NEW chain \in Seq(Effect) PROVE Enabled(chain) \in Seq(Nat)
<1>1. PICK n \in Nat : n = Len(chain) /\ DOMAIN chain = 1..n
  OBVIOUS
<1>2. PICK ids : ids = [k \in 1..n |-> k]
  OBVIOUS
<1>3. DOMAIN ids = 1..n /\ \A k \in 1..n : ids[k] = k
  BY <1>2
<1>4. Enabled(chain) = ChosenFold(<<"enabled", chain>>, <<>>, ids, n)[1..n]
  BY <1>1, <1>2, <1>3 DEF Enabled, FoldLeft, MapThenFoldSet, ChosenFold, IsFoldOf, FoldOf, FoldedBy
<1>5. PICK h : Passes(<<"enabled", chain>>, <<>>, ids, n, h) /\ Enabled(chain) = h[n]
  BY <1>4, ChosenPasses
<1>6. h[0] = <<>> /\ \A k \in 1..n : h[k] = IF chain[k].on THEN Append(h[k - 1], k) ELSE h[k - 1]
  BY <1>3, <1>5 DEF Passes, FoldedBy
<1> DEFINE T == {k \in Nat : k <= n => h[k] \in Seq(Nat)}
<1>7. 0 \in T
  BY <1>6, EmptySeq
<1>8. ASSUME NEW k \in T PROVE k + 1 \in T
  <2> SUFFICES ASSUME k + 1 <= n PROVE h[k + 1] \in Seq(Nat)
    OBVIOUS
  <2>1. k \in Nat /\ k <= n /\ k + 1 \in 1..n /\ (k + 1) - 1 = k
    OBVIOUS
  <2>2. h[k] \in Seq(Nat)
    BY <2>1
  <2>3. h[k + 1] = IF chain[k + 1].on THEN Append(h[k], k + 1) ELSE h[k]
    BY <1>6, <2>1
  <2> QED
    BY <2>1, <2>2, <2>3
<1>9. T = Nat
  <2> HIDE DEF T
  <2>1. T \in SUBSET Nat
    BY DEF T
  <2> QED
    BY <1>7, <1>8, <2>1, NatSetInduction
<1> QED
  BY <1>5, <1>9

Chained(segs, n, e, all) ==
    /\ e[0] = <<>> /\ e[n] = all
    /\ \A k \in 0..n : e[k] \in Seq(Nat)
    /\ \A k \in 1..n : Joint(e[k], e[k - 1], segs[k].effects)

Extended(new, n, all) == new \in Seq(Segment) /\ Len(new) = n /\ \E f : Chained(new, n, f, all)

LEMMA ChainGrows ==
    ASSUME NEW segs \in Seq(Segment), NEW n \in Nat, n = Len(segs), NEW e, NEW all, Chained(segs, n, e, all),
           NEW k \in Nat, NEW kind \in {"pitch", "stream"},
           NEW new, new = Append(segs, [kind |-> kind, effects |-> <<k>>])
    PROVE  Extended(new, n + 1, Append(all, k))
<1>1. all \in Seq(Nat) /\ e[n] = all /\ <<k>> \in Seq(Nat) /\ Append(all, k) \in Seq(Nat)
  BY DEF Chained
<1>2. PICK s \in Segment : s = [kind |-> kind, effects |-> <<k>>] /\ s.effects = <<k>>
  <2>1. PICK x \in Seq(Nat) : x = <<k>>
    BY <1>1
  <2>2. [kind |-> kind, effects |-> x] \in Segment
    BY DEF Segment
  <2> QED
    BY <2>1, <2>2
<1>3. /\ new \in Seq(Segment) /\ Len(new) = n + 1 /\ new[n + 1] = s
      /\ \A i \in 1..n : new[i] = segs[i]
  BY <1>2
<1>4. Joint(Append(all, k), all, <<k>>)
  BY <1>1, AppendIsConcat DEF Joint
<1> DEFINE f == [i \in 0..n + 1 |-> IF i <= n THEN e[i] ELSE Append(all, k)]
<1>5. (\A i \in 0..n : f[i] = e[i]) /\ f[n + 1] = Append(all, k)
  OBVIOUS
<1> HIDE DEF f
<1>6. ASSUME NEW i \in 1..n + 1 PROVE Joint(f[i], f[i - 1], new[i].effects)
  <2>1. CASE i \in 1..n
    <3>1. i \in 0..n /\ i - 1 \in 0..n
      BY <2>1
    <3>2. f[i] = e[i] /\ f[i - 1] = e[i - 1] /\ new[i] = segs[i]
      BY <1>3, <1>5, <2>1, <3>1
    <3> QED
      BY <2>1, <3>2 DEF Chained
  <2>2. CASE i = n + 1
    <3>1. i - 1 = n /\ n \in 0..n
      BY <2>2
    <3>2. f[i] = Append(all, k) /\ f[i - 1] = all /\ new[i].effects = <<k>>
      BY <1>1, <1>2, <1>3, <1>5, <2>2, <3>1
    <3> QED
      BY <1>4, <3>2
  <2> QED
    BY <2>1, <2>2
<1>7. Chained(new, n + 1, f, Append(all, k))
  <2>1. f[0] = <<>>
    BY <1>5 DEF Chained
  <2>2. ASSUME NEW i \in 0..n + 1 PROVE f[i] \in Seq(Nat)
    <3>1. CASE i \in 0..n
      BY <1>5, <3>1 DEF Chained
    <3>2. CASE i = n + 1
      BY <1>1, <1>5, <3>2
    <3> QED
      BY <3>1, <3>2
  <2> QED
    BY <1>5, <1>6, <2>1, <2>2 DEF Chained
<1> QED
  BY <1>3, <1>7 DEF Extended

LEMMA ChainMerges ==
    ASSUME NEW segs \in Seq(Segment), NEW n \in Nat \ {0}, n = Len(segs), NEW e, NEW all, Chained(segs, n, e, all),
           NEW k \in Nat, NEW new, new = [segs EXCEPT ![n].effects = Append(@, k)]
    PROVE  Extended(new, n, Append(all, k))
<1>1. all \in Seq(Nat) /\ e[n] = all /\ Append(all, k) \in Seq(Nat) /\ e[n - 1] \in Seq(Nat)
  <2>1. n - 1 \in 0..n /\ n \in 0..n
    OBVIOUS
  <2> QED
    BY <2>1 DEF Chained
<1>2. PICK s : s = segs[n]
  OBVIOUS
<1>3. s \in Segment /\ s.effects \in Seq(Nat) /\ Append(s.effects, k) \in Seq(Nat)
  <2>1. s \in Segment
    BY <1>2
  <2>2. PICK es \in Seq(Nat) : es = s.effects
    BY <2>1 DEF Segment
  <2> QED
    BY <2>1, <2>2
<1>4. PICK x \in Segment : x = [s EXCEPT !.effects = Append(@, k)] /\ x.effects = Append(s.effects, k)
  <2>1. PICK es \in Seq(Nat) : es = Append(s.effects, k)
    BY <1>3
  <2>2. [s EXCEPT !.effects = es] \in Segment /\ [s EXCEPT !.effects = es].effects = es
    BY <1>3 DEF Segment
  <2> QED
    BY <2>1, <2>2
<1>5. new = [segs EXCEPT ![n] = x]
  BY <1>2, <1>4
<1>6. /\ new \in Seq(Segment) /\ Len(new) = n /\ new[n] = x
      /\ \A i \in 1..n : i # n => new[i] = segs[i]
  <2>1. n \in Nat /\ n \in 1..n /\ DOMAIN segs = 1..n
    OBVIOUS
  <2>2. segs \in [1..n -> Segment]
    OBVIOUS
  <2>3. new \in [1..n -> Segment]
    BY <1>5, <2>1, <2>2
  <2>4. new \in Seq(Segment) /\ Len(new) = n
    BY <2>3
  <2> QED
    BY <1>5, <2>1, <2>4
<1>7. Joint(Append(all, k), e[n - 1], Append(s.effects, k))
  <2>1. Joint(all, e[n - 1], s.effects)
    BY <1>1, <1>2 DEF Chained
  <2> QED
    BY <1>1, <1>3, <2>1, JointAppend
<1> DEFINE f == [i \in 0..n |-> IF i < n THEN e[i] ELSE Append(all, k)]
<1>8. (\A i \in 0..n : i # n => f[i] = e[i]) /\ f[n] = Append(all, k)
  OBVIOUS
<1> HIDE DEF f
<1>9. ASSUME NEW i \in 1..n PROVE Joint(f[i], f[i - 1], new[i].effects)
  <2>0. i - 1 \in 0..n /\ i \in 0..n /\ i - 1 # n
    OBVIOUS
  <2>1. f[i - 1] = e[i - 1]
    BY <1>8, <2>0
  <2>2. CASE i # n
    <3>1. f[i] = e[i] /\ new[i] = segs[i]
      BY <1>6, <1>8, <2>0, <2>2
    <3> QED
      BY <2>1, <3>1 DEF Chained
  <2>3. CASE i = n
    BY <1>4, <1>6, <1>7, <1>8, <2>1, <2>3
  <2> QED
    BY <2>2, <2>3
<1>10. Chained(new, n, f, Append(all, k))
  <2>1. f[0] = <<>>
    <3>1. 0 \in 0..n /\ 0 # n
      OBVIOUS
    <3> QED
      BY <1>8, <3>1 DEF Chained
  <2>2. ASSUME NEW i \in 0..n PROVE f[i] \in Seq(Nat)
    BY <1>1, <1>8 DEF Chained
  <2> QED
    BY <1>8, <1>9, <2>1, <2>2 DEF Chained
<1> QED
  BY <1>6, <1>10 DEF Extended

LEMMA PrefixGrows ==
    ASSUME NEW S, NEW t \in Seq(S), NEW n \in Nat, n = Len(t), NEW k \in Nat, NEW j \in 1..n, j = k + 1
    PROVE  t[j] \in S /\ SubSeq(t, 1, j) = Append(SubSeq(t, 1, k), t[j])
<1>1. PICK u, v : u = SubSeq(t, 1, j) /\ v = SubSeq(t, 1, k)
  OBVIOUS
<1>2. u \in Seq(S) /\ Len(u) = j /\ \A i \in 1..j : u[i] = t[i]
  BY <1>1, PieceOf
<1>3. v \in Seq(S) /\ Len(v) = k /\ \A i \in 1..k : v[i] = t[i]
  BY <1>1, PieceOf
<1>4. PICK x \in S : x = t[j]
  OBVIOUS
<1>5. PICK w : w = Append(v, x)
  OBVIOUS
<1>6. w \in Seq(S) /\ Len(w) = j /\ w[j] = x /\ \A i \in 1..k : w[i] = v[i]
  BY <1>3, <1>4, <1>5
<1>7. ASSUME NEW i \in 1..j PROVE u[i] = w[i]
  <2>1. CASE i = j
    BY <1>2, <1>4, <1>6, <2>1
  <2>2. CASE i # j
    <3>1. i \in 1..k
      BY <2>2
    <3> QED
      BY <1>2, <1>3, <1>6, <3>1
  <2> QED
    BY <2>1, <2>2
<1>8. u = w
  BY <1>2, <1>6, <1>7
<1> QED
  BY <1>1, <1>4, <1>5, <1>8

LEMMA SegmentsAre ==
    ASSUME NEW chain \in Seq(Effect)
    PROVE  /\ Segments(chain) \in Seq(Segment)
           /\ \E e : Chained(Segments(chain), Len(Segments(chain)), e, Enabled(chain))
<1>1. PICK en : en = Enabled(chain)
  OBVIOUS
<1>2. PICK n \in Nat : en \in Seq(Nat) /\ n = Len(en) /\ DOMAIN en = 1..n
  BY <1>1, EnabledIs
<1>3. Segments(chain) = ChosenFold(<<"segments", chain>>, <<>>, en, n)[1..n]
  BY <1>1, <1>2 DEF Segments, FoldLeft, MapThenFoldSet, ChosenFold, IsFoldOf, FoldOf, FoldedBy
<1>4. PICK h : Passes(<<"segments", chain>>, <<>>, en, n, h) /\ Segments(chain) = h[n]
  BY <1>3, ChosenPasses
<1>5. \A k \in 1..n : h[k] = IF chain[en[k]].pitch THEN Append(h[k - 1], [kind |-> "pitch", effects |-> <<en[k]>>])
                             ELSE IF h[k - 1] # <<>> /\ Last(h[k - 1]).kind = "stream"
                             THEN [h[k - 1] EXCEPT ![Len(h[k - 1])].effects = Append(@, en[k])]
                             ELSE Append(h[k - 1], [kind |-> "stream", effects |-> <<en[k]>>])
  BY <1>4 DEF Passes, FoldedBy
<1> DEFINE Good(k) == /\ h[k] \in Seq(Segment)
                      /\ \E e : Chained(h[k], Len(h[k]), e, SubSeq(en, 1, k))
           T == {k \in Nat : k <= n => Good(k)}
<1>6. 0 \in T
  <2>1. h[0] = <<>>
    BY <1>4 DEF Passes
  <2>2. SubSeq(en, 1, 0) = <<>> /\ Len(<<>>) = 0 /\ <<>> \in Seq(Nat) /\ <<>> \in Seq(Segment)
    BY <1>2
  <2>3. Chained(<<>>, 0, [i \in 0..0 |-> <<>>], <<>>)
    BY <2>2 DEF Chained
  <2> QED
    BY <2>1, <2>2, <2>3
<1>7. ASSUME NEW k \in T PROVE k + 1 \in T
  <2> SUFFICES ASSUME k + 1 <= n PROVE Good(k + 1)
    OBVIOUS
  <2>1. PICK j \in 1..n : j = k + 1 /\ j - 1 = k /\ j \in Nat
    <3>1. k \in Nat
      OBVIOUS
    <3> HIDE DEF T
    <3> QED
      BY <3>1
  <2>0. Good(k)
    <3>1. k \in Nat /\ k <= n
      BY <2>1
    <3> QED
      BY <3>1
  <2> HIDE DEF T
  <2>2. PICK segs \in Seq(Segment) : segs = h[k] /\ \E e : Chained(segs, Len(segs), e, SubSeq(en, 1, k))
    BY <2>0
  <2>m. PICK m \in Nat : m = Len(segs)
    OBVIOUS
  <2>a. PICK all : all = SubSeq(en, 1, k)
    OBVIOUS
  <2>e. PICK e : Chained(segs, m, e, all)
    BY <2>2, <2>m, <2>a
  <2> HIDE DEF Good
  <2>3. en[j] \in Nat /\ SubSeq(en, 1, j) = Append(all, en[j])
    <3>1. PICK q \in Nat : q = k
      BY <2>1
    <3> QED
      BY <1>2, <2>1, <2>a, <3>1, PrefixGrows
  <2>4. PICK x \in Nat : x = en[j]
    BY <2>3
  <2>5. h[j] = IF chain[x].pitch THEN Append(segs, [kind |-> "pitch", effects |-> <<x>>])
               ELSE IF segs # <<>> /\ Last(segs).kind = "stream"
               THEN [segs EXCEPT ![m].effects = Append(@, x)]
               ELSE Append(segs, [kind |-> "stream", effects |-> <<x>>])
    BY <1>5, <2>1, <2>2, <2>m, <2>a, <2>4
  <2>6. PICK new : new = h[j]
    OBVIOUS
  <2>7. new \in Seq(Segment) /\ \E f : Chained(new, Len(new), f, Append(all, x))
    <3>1. ASSUME NEW kind \in {"pitch", "stream"}, new = Append(segs, [kind |-> kind, effects |-> <<x>>])
          PROVE  new \in Seq(Segment) /\ \E f : Chained(new, Len(new), f, Append(all, x))
      <4>1. Extended(new, m + 1, Append(all, x))
        BY <2>m, <2>e, <3>1, ChainGrows
      <4> QED
        BY <4>1 DEF Extended
    <3>3. CASE segs # <<>> /\ new = [segs EXCEPT ![m].effects = Append(@, x)]
      <4>1. m \in Nat \ {0}
        BY <2>m, <3>3, EmptySeq
      <4>2. Extended(new, m, Append(all, x))
        BY <2>m, <2>e, <3>3, <4>1, ChainMerges
      <4> QED
        BY <4>2 DEF Extended
    <3> QED
      BY <2>5, <2>6, <3>1, <3>3
  <2>8. h[j] \in Seq(Segment) /\ \E f : Chained(h[j], Len(h[j]), f, SubSeq(en, 1, j))
    BY <2>3, <2>4, <2>6, <2>7
  <2> QED
    BY <2>1, <2>8 DEF Good
<1> HIDE DEF T, Good
<1>8. T = Nat
  <2>1. T \in SUBSET Nat
    BY DEF T
  <2> QED
    BY <1>6, <1>7, <2>1, NatSetInduction
<1>g. Good(n)
  BY <1>8 DEF T
<1>9. SubSeq(en, 1, n) = en
  BY <1>2
<1> QED
  BY <1>1, <1>2, <1>4, <1>g, <1>9 DEF Good

(* What a frame has gone through before segment k + 1: the normalisation,   *)
(* if it was asked for, and the effects of the segments before.             *)
Normal(j) == IF j.normalize THEN <<"n">> ELSE <<>>
Carries(chain, b, e) ==
    /\ e[0] = b /\ Joint(e[Len(Segments(chain))], b, Enabled(chain))
    /\ \A k \in 0..Len(Segments(chain)) : e[k] \in Seq(Steps)
    /\ \A k \in 1..Len(Segments(chain)) : Joint(e[k], e[k - 1], Segments(chain)[k].effects)
Route(j) == CHOOSE e : Carries(j.chain, Normal(j), e)

LEMMA NatSteps == \A s \in Seq(Nat) : s \in Seq(Steps)
<1> SUFFICES ASSUME NEW s \in Seq(Nat) PROVE s \in Seq(Steps)
  OBVIOUS
<1>1. PICK n \in Nat : n = Len(s) /\ s \in [1..n -> Nat]
  OBVIOUS
<1>2. s \in [1..n -> Steps]
  BY <1>1 DEF Steps
<1> QED
  BY <1>2

LEMMA NormalIs == \A j \in Job : Normal(j) \in Seq(Steps)
<1>1. <<"n">> \in Seq(Steps) /\ <<>> \in Seq(Steps)
  BY EmptySeq DEF Steps
<1> QED
  BY <1>1 DEF Normal

LEMMA RouteIs == ASSUME NEW j \in Job PROVE Carries(j.chain, Normal(j), Route(j))
<1>1. PICK chain \in Seq(Effect) : chain = j.chain
  BY DEF Job, Effect
<1>2. PICK b \in Seq(Steps) : b = Normal(j)
  BY NormalIs
<1>s. PICK segs \in Seq(Segment) : segs = Segments(chain) /\ \E e : Chained(segs, Len(segs), e, Enabled(chain))
  BY SegmentsAre
<1>n. PICK n \in Nat : n = Len(segs)
  OBVIOUS
<1>3. PICK e : Chained(segs, n, e, Enabled(chain))
  BY <1>s, <1>n
<1> DEFINE g == [k \in 0..n |-> b \o e[k]]
<1>4. \A k \in 0..n : Joint(g[k], b, e[k])
  BY DEF Joint
<1> HIDE DEF g
<1>5. \A k \in 0..n : e[k] \in Seq(Steps)
  BY <1>3, NatSteps DEF Chained
<1>6. \A k \in 0..n : g[k] \in Seq(Steps)
  <2> SUFFICES ASSUME NEW k \in 0..n PROVE g[k] \in Seq(Steps)
    OBVIOUS
  <2>1. PICK y \in Seq(Steps) : y = e[k]
    BY <1>5
  <2> QED
    BY <1>4, <2>1, ConcatProperties DEF Joint
<1>7. ASSUME NEW k \in 1..n PROVE Joint(g[k], g[k - 1], segs[k].effects)
  <2>1. k \in 0..n /\ k - 1 \in 0..n
    OBVIOUS
  <2>2. segs[k] \in Segment
    BY <1>n
  <2>3. segs[k].effects \in Seq(Nat)
    BY <2>2 DEF Segment
  <2>4. PICK fx \in Seq(Steps) : fx = segs[k].effects
    BY <2>3, NatSteps
  <2>5. PICK x \in Seq(Steps) : x = e[k - 1]
    BY <1>5, <2>1
  <2>6. Joint(e[k], x, fx)
    BY <1>3, <2>4, <2>5 DEF Chained
  <2>7. Joint(g[k - 1], b, x) /\ Joint(g[k], b, e[k])
    BY <1>4, <2>1, <2>5
  <2> QED
    BY <2>4, <2>6, <2>7, JointAssociative
<1>8. g[0] = b
  <2>1. 0 \in 0..n /\ e[0] = <<>>
    BY <1>3 DEF Chained
  <2> QED
    BY <1>4, <2>1, ConcatEmptySeq DEF Joint
<1>9. Joint(g[n], b, Enabled(chain))
  <2>1. n \in 0..n /\ e[n] = Enabled(chain)
    BY <1>3 DEF Chained
  <2> QED
    BY <1>4, <2>1
<1>10. Carries(chain, b, g)
  BY <1>s, <1>n, <1>6, <1>7, <1>8, <1>9 DEF Carries
<1> QED
  BY <1>1, <1>2, <1>10 DEF Route

-----------------------------------------------------------------------------
(* How far a stage has written when it has read p frames.                   *)
Yields(j, n) == IF Enabled(j.chain) = <<>> THEN n ELSE Max({0, n - j.latency})
KeptOf(j, p) == AtMost(Yields(j, IF p = j.decoded THEN p + Flush ELSE p), j.frames)
PutAt(j, kind, p) == IF p = 0 THEN 0 ELSE IF kind = "pitch" THEN AtMost(j.frames, p + Overlap) ELSE KeptOf(j, p)

LEMMA JobIs ==
    ASSUME NEW j \in Job
    PROVE  /\ j.frames \in Nat /\ j.decoded \in Nat /\ j.latency \in Nat
           /\ j.normalize \in BOOLEAN /\ j.stored \in BOOLEAN /\ j.chain \in Seq(Effect)
BY DEF Job, Effect

LEMMA YieldsIs ==
    ASSUME NEW j \in Job
    PROVE  /\ \A n \in Nat : Yields(j, n) \in Nat /\ Yields(j, n) <= n /\ n <= Yields(j, n) + j.latency
           /\ \A m \in Nat, n \in Nat : m <= n => Yields(j, m) <= Yields(j, n)
<1>1. \A n \in Nat : Yields(j, n) = IF Enabled(j.chain) = <<>> THEN n ELSE IF 0 >= n - j.latency THEN 0 ELSE n - j.latency
  BY JobIs, MaxOfTwo DEF Yields
<1>2. PICK l \in Nat : l = j.latency
  BY JobIs
<1>3. CASE Enabled(j.chain) = <<>>
  BY <1>1, <1>2, <1>3
<1>4. CASE Enabled(j.chain) # <<>>
  <2>1. \A n \in Nat : Yields(j, n) = IF 0 >= n - l THEN 0 ELSE n - l
    BY <1>1, <1>2, <1>4
  <2> QED
    BY <1>2, <2>1
<1> QED
  BY <1>3, <1>4

LEMMA KeptIs ==
    ASSUME NEW j \in Job
    PROVE  /\ \A p \in Nat : KeptOf(j, p) \in Nat /\ KeptOf(j, p) <= j.frames
           /\ \A p \in Nat, q \in Nat : p < q /\ q <= j.decoded => KeptOf(j, p) <= KeptOf(j, q)
           /\ Works(j) => KeptOf(j, j.frames) = j.frames
<1>1. PICK N \in Nat, D \in Nat : N = j.frames /\ D = j.decoded
  BY JobIs
<1>2. \A n \in Nat : Yields(j, n) \in Nat
  BY YieldsIs
<1> DEFINE fed(p) == IF p = D THEN p + Flush ELSE p
<1>3. \A p \in Nat : fed(p) \in Nat /\ p <= fed(p)
  BY RenderAssumption
<1>4. \A p \in Nat : KeptOf(j, p) = IF Yields(j, fed(p)) <= N THEN Yields(j, fed(p)) ELSE N
  BY <1>1, <1>2, <1>3, MinOfTwo DEF KeptOf, AtMost
<1>5. \A p \in Nat, q \in Nat : p < q /\ q <= D => fed(p) <= fed(q)
  BY RenderAssumption
<1>6. Works(j) => N <= Yields(j, fed(N))
  <2> SUFFICES ASSUME Works(j) PROVE N <= Yields(j, fed(N))
    OBVIOUS
  <2>1. PICK l \in Nat : l = j.latency /\ l <= Flush /\ N = D
    BY <1>1, JobIs DEF Works
  <2>2. fed(N) = N + Flush /\ N + Flush \in Nat
    BY <2>1, RenderAssumption
  <2>3. PICK y \in Nat : y = Yields(j, N + Flush) /\ N + Flush <= y + l
    BY <2>1, <2>2, YieldsIs
  <2> QED
    BY <2>1, <2>2, <2>3, RenderAssumption
<1> HIDE DEF fed
<1>7. \A p \in Nat : KeptOf(j, p) \in Nat /\ KeptOf(j, p) <= N
  BY <1>2, <1>3, <1>4
<1>8. ASSUME NEW p \in Nat, NEW q \in Nat, p < q, q <= D PROVE KeptOf(j, p) <= KeptOf(j, q)
  <2>1. PICK x \in Nat, y \in Nat : x = Yields(j, fed(p)) /\ y = Yields(j, fed(q)) /\ x <= y
    BY <1>3, <1>5, <1>8, YieldsIs
  <2>2. KeptOf(j, p) = (IF x <= N THEN x ELSE N) /\ KeptOf(j, q) = (IF y <= N THEN y ELSE N)
    BY <1>4, <2>1
  <2> QED
    BY <2>1, <2>2
<1>9. Works(j) => KeptOf(j, N) = N
  BY <1>2, <1>3, <1>4, <1>6
<1> QED
  BY <1>1, <1>7, <1>8, <1>9

-----------------------------------------------------------------------------
(* A stage on disk, as the invariant holds of it: segment s of job j has    *)
(* read p frames and written w, from file c of f into the other one.        *)
Names == {"a", "b", "wav"}
StageHolds(j, s, p, w, f, c) ==
    /\ j.decoded = j.frames /\ j.frames > 0 /\ DOMAIN f = Names /\ c \in {"a", "b"}
    /\ s \in 1..Len(Segments(j.chain)) + 1 /\ p \in Nat /\ p <= j.frames /\ w \in Nat
    /\ f[c] = Slice(0, j.frames, j.frames, Route(j)[s - 1])
    /\ s <= Len(Segments(j.chain)) =>
          /\ f["wav"] = <<>> /\ w = PutAt(j, Segments(j.chain)[s].kind, p)
          /\ p = 0 \/ f[Others[c]] = Slice(0, w, j.frames, Route(j)[s])
    /\ s > Len(Segments(j.chain)) => f["wav"] = Slice(0, p, j.frames, Route(j)[Len(Segments(j.chain))])

FilesPut(f, d, x, g) == /\ DOMAIN g = Names /\ g[d] = x
                        /\ \A e \in Names \ {d} : g[e] = f[e]

LEMMA FilesPutIs ==
    ASSUME NEW f, DOMAIN f = Names, NEW d \in Names, NEW x, NEW g, g = [f EXCEPT ![d] = x]
    PROVE  FilesPut(f, d, x, g)
BY DEF FilesPut

LEMMA OtherFile == \A c \in {"a", "b"} : Others[c] \in {"a", "b"} /\ Others[c] # c /\ Others[c] # "wav"
BY DEF Others

LEMMA SegmentIs ==
    ASSUME NEW j \in Job, NEW s \in 1..Len(Segments(j.chain))
    PROVE  /\ Segments(j.chain)[s].kind \in {"pitch", "stream"}
           /\ Joint(Route(j)[s], Route(j)[s - 1], Segments(j.chain)[s].effects)
<1>1. Segments(j.chain) \in Seq(Segment)
  BY JobIs, SegmentsAre
<1>2. Segments(j.chain)[s] \in Segment
  BY <1>1
<1>3. Carries(j.chain, Normal(j), Route(j))
  BY RouteIs
<1> QED
  BY <1>2, <1>3 DEF Segment, Carries

LEMMA SegmentCount == ASSUME NEW j \in Job PROVE Len(Segments(j.chain)) \in Nat
<1>1. Segments(j.chain) \in Seq(Segment)
  BY JobIs, SegmentsAre
<1> QED
  BY <1>1

LEMMA StageStarts ==
    ASSUME NEW j \in Job, j.decoded = j.frames, j.frames > 0, NEW f, DOMAIN f = Names, f["wav"] = <<>>,
           f["a"] = Slice(0, j.frames, j.frames, Normal(j))
    PROVE  StageHolds(j, 1, 0, 0, f, "a")
<1>1. Carries(j.chain, Normal(j), Route(j)) /\ Route(j)[0] = Normal(j)
  BY RouteIs DEF Carries
<1>2. PICK n \in Nat : n = Len(Segments(j.chain))
  BY SegmentCount
<1>3. 1 \in 1..n + 1 /\ 0 <= j.frames /\ 1 - 1 = 0
  BY <1>2, JobIs
<1>4. Slice(0, 0, j.frames, Route(j)[n]) = <<>>
  BY SliceEmpty
<1> QED
  BY <1>1, <1>2, <1>3, <1>4 DEF StageHolds, PutAt

(* Whatever a stage of segment s has written, written on to where it now    *)
(* is.                                                                      *)
LEMMA StageWrites ==
    ASSUME NEW j \in Job, NEW s, NEW p, NEW w, NEW f, NEW c, StageHolds(j, s, p, w, f, c), s <= Len(Segments(j.chain)),
           NEW q \in Nat, q # 0, q <= j.frames, NEW v \in Nat, v = PutAt(j, Segments(j.chain)[s].kind, q),
           NEW g, FilesPut(f, Others[c], Slice(0, v, j.frames, Route(j)[s]), g)
    PROVE  StageHolds(j, s, q, v, g, c)
<1>1. Others[c] \in Names /\ c \in Names \ {Others[c]} /\ "wav" \in Names \ {Others[c]}
  BY OtherFile DEF StageHolds, Names
<1>2. DOMAIN g = Names /\ g[c] = f[c] /\ g["wav"] = f["wav"] /\ g[Others[c]] = Slice(0, v, j.frames, Route(j)[s])
  BY <1>1 DEF FilesPut
<1>3. ~(s > Len(Segments(j.chain)))
  BY SegmentCount DEF StageHolds
<1> QED
  BY <1>2, <1>3 DEF StageHolds

LEMMA StreamWrites ==
    ASSUME NEW j \in Job, NEW s, NEW p, NEW w, NEW f, NEW c, StageHolds(j, s, p, w, f, c), s <= Len(Segments(j.chain)),
           Segments(j.chain)[s].kind = "stream",
           NEW q \in Nat, p < q, q <= j.frames, NEW g,
           g = [f EXCEPT ![Others[c]] =
                  Written(IF p = 0 THEN <<>> ELSE f[Others[c]], w,
                          Through(Read(f[c], w, Max({0, KeptOf(j, q) - w})), Segments(j.chain)[s].effects))]
    PROVE  StageHolds(j, s, q, Max({w, KeptOf(j, q)}), g, c)
<1>1. PICK N \in Nat : N = j.frames /\ j.decoded = N
  BY JobIs DEF StageHolds
<1>2. PICK k \in Nat : k = KeptOf(j, q) /\ k <= N
  BY <1>1, KeptIs
<1>3. p \in Nat /\ w \in Nat /\ q # 0 /\ s \in 1..Len(Segments(j.chain)) /\ c \in {"a", "b"}
  BY SegmentCount DEF StageHolds
<1>4. w <= k
  <2>1. CASE p = 0
    BY <1>2, <2>1 DEF StageHolds, PutAt
  <2>2. CASE p # 0
    <3>1. w = KeptOf(j, p)
      BY <2>2 DEF StageHolds, PutAt
    <3>2. KeptOf(j, p) <= KeptOf(j, q)
      BY <1>1, <1>3, KeptIs
    <3> QED
      BY <1>2, <3>1, <3>2
  <2> QED
    BY <2>1, <2>2
<1>6. PICK d \in Nat : d = k - w
  BY <1>2, <1>3, <1>4
<1>5. Max({0, k - w}) = d /\ Max({w, k}) = k
  <2>1. PICK m \in Nat : m = w
    BY <1>3
  <2>2. Max({0, d}) = (IF 0 >= d THEN 0 ELSE d) /\ Max({m, k}) = IF m >= k THEN m ELSE k
    BY MaxOfTwo
  <2>3. Max({0, d}) = d
    BY <2>2
  <2>4. Max({m, k}) = k
    BY <1>4, <2>1, <2>2
  <2> QED
    BY <1>6, <2>1, <2>3, <2>4
<1>7. PICK r, t : r = Route(j)[s - 1] /\ t = Route(j)[s]
  OBVIOUS
<1>8. Read(f[c], w, d) = Slice(w, d, N, r)
  <2>1. f[c] = Slice(0, N, N, r)
    BY <1>1, <1>7 DEF StageHolds
  <2> QED
    BY <1>3, <2>1, ReadSlice
<1>9. Through(Slice(w, d, N, r), Segments(j.chain)[s].effects) = Slice(w, d, N, t)
  <2>1. Joint(t, r, Segments(j.chain)[s].effects)
    BY <1>3, <1>7, SegmentIs
  <2>2. w + d <= N
    BY <1>2, <1>3, <1>6
  <2> QED
    BY <1>3, <2>1, <2>2, ThroughSlice
<1>10. (IF p = 0 THEN <<>> ELSE f[Others[c]]) = Slice(0, w, N, t)
  <2>1. CASE p = 0
    <3>1. w = 0
      BY <2>1 DEF StageHolds, PutAt
    <3> QED
      BY <2>1, <3>1, SliceEmpty
  <2>2. CASE p # 0
    BY <1>1, <1>7, <2>2 DEF StageHolds
  <2> QED
    BY <2>1, <2>2
<1>11. Written(Slice(0, w, N, t), w, Slice(w, d, N, t)) = Slice(0, k, N, t)
  <2>1. w + d = k
    BY <1>2, <1>3, <1>6
  <2>2. Written(Slice(0, w, N, t), w, Slice(w, d, N, t)) = Slice(0, w + d, N, t)
    BY <1>3, WriteSlice
  <2> QED
    BY <2>1, <2>2
<1>12. g = [f EXCEPT ![Others[c]] = Slice(0, k, N, t)]
  BY <1>2, <1>5, <1>6, <1>8, <1>9, <1>10, <1>11
<1>13. FilesPut(f, Others[c], Slice(0, k, N, t), g)
  <2>1. Others[c] \in Names /\ DOMAIN f = Names
    BY <1>3, OtherFile DEF Names, StageHolds
  <2> QED
    BY <1>12, <2>1, FilesPutIs
<1>14. k = PutAt(j, Segments(j.chain)[s].kind, q)
  BY <1>2, <1>3 DEF PutAt
<1>15. StageHolds(j, s, q, k, g, c)
  BY <1>1, <1>3, <1>7, <1>13, <1>14, StageWrites
<1> QED
  BY <1>2, <1>5, <1>15

(* The window of a pitch stage, between what is there and what comes next.  *)
Laid(j, p, w, from, q, to) ==
    /\ p < q /\ from < to /\ to <= j.frames /\ to = PutAt(j, "pitch", q) /\ q <= j.frames
    /\ (w = 0) = (p = 0) /\ (p = 0 => from = 0)
    /\ p # 0 => from < w /\ w <= to

LEMMA PitchWrites ==
    ASSUME NEW j \in Job, NEW s, NEW p, NEW w, NEW f, NEW c, StageHolds(j, s, p, w, f, c), s <= Len(Segments(j.chain)),
           Segments(j.chain)[s].kind = "pitch", p < j.frames,
           NEW from \in Nat, from = (IF p >= Overlap THEN p - Overlap ELSE 0),
           NEW q \in Nat, q = AtMost(j.frames, p + Block),
           NEW to \in Nat, to = AtMost(j.frames, q + Overlap)
    PROVE  Laid(j, p, w, from, q, to)
<1>1. PICK N \in Nat : N = j.frames
  BY JobIs
<1>2. PICK o \in Nat \ {0}, bl \in Nat \ {0} : o = Overlap /\ bl = Block
  BY RenderAssumption
<1>3. p \in Nat /\ w \in Nat /\ p <= N
  BY <1>1 DEF StageHolds
<1>4. w = IF p = 0 THEN 0 ELSE AtMost(N, p + o)
  BY <1>1, <1>2 DEF StageHolds, PutAt
<1>5. \A x \in Nat : AtMost(N, x) = IF N <= x THEN N ELSE x
  BY MinOfTwo DEF AtMost
<1>6. q = (IF N <= p + bl THEN N ELSE p + bl) /\ to = (IF N <= q + o THEN N ELSE q + o)
  <2>1. p + bl \in Nat /\ q + o \in Nat
    BY <1>3
  <2> QED
    BY <1>1, <1>2, <1>5, <2>1
<1>7. w = IF p = 0 THEN 0 ELSE IF N <= p + o THEN N ELSE p + o
  <2>1. p + o \in Nat
    BY <1>3
  <2> QED
    BY <1>4, <1>5, <2>1
<1>8. from = (IF p >= o THEN p - o ELSE 0) /\ p < N
  BY <1>1, <1>2
<1>9. p < q /\ q <= N /\ q # 0
  BY <1>3, <1>6, <1>8
<1>10. to = PutAt(j, "pitch", q)
  BY <1>1, <1>9 DEF PutAt
<1>11. from < to /\ to <= N
  BY <1>3, <1>6, <1>8, <1>9
<1>12. (w = 0) = (p = 0) /\ (p = 0 => from = 0)
  BY <1>3, <1>7, <1>8
<1>13. p # 0 => from < w /\ w <= to
  BY <1>3, <1>6, <1>7, <1>8, <1>9
<1> QED
  BY <1>1, <1>9, <1>10, <1>11, <1>12, <1>13 DEF Laid

LEMMA ShiftedIs ==
    ASSUME job \in Job, NEW from \in Nat, NEW to \in Nat, from < to, to <= job.frames,
           NEW win, win.left = Max({0, from - Guard}), win.right = AtMost(job.frames, to + Guard),
           NEW d \in Nat, d = to - from, NEW r, NEW t, NEW fx, Joint(t, r, fx), NEW in, in = Slice(from, d, job.frames, r)
    PROVE  [i \in DOMAIN in |-> IF Sound(win, from + i) THEN Through(in, fx)[i] ELSE Hole] = Slice(from, d, job.frames, t)
<1>1. PICK N \in Nat : N = job.frames
  BY JobIs
<1>2. PICK gu \in Nat : gu = Guard
  BY RenderAssumption
<1>3. win.left = IF 0 >= from - gu THEN 0 ELSE from - gu
  <2>1. PICK x \in Int : x = from - gu
    OBVIOUS
  <2>2. Max({0, x}) = IF 0 >= x THEN 0 ELSE x
    BY <2>1, MaxOfTwo
  <2> QED
    BY <1>2, <2>1, <2>2
<1>4. win.right = IF N <= to + gu THEN N ELSE to + gu
  <2>1. PICK x \in Nat : x = to + gu
    OBVIOUS
  <2>2. AtMost(N, x) = IF N <= x THEN N ELSE x
    BY <2>1, MinOfTwo DEF AtMost
  <2> QED
    BY <1>1, <1>2, <2>1, <2>2
<1>5. PICK left \in Nat, right \in Nat : left = win.left /\ right = win.right
  BY <1>3, <1>4
<1>6. ASSUME NEW i \in 1..d PROVE Sound(win, from + i)
  <2>1. from + i <= to
    OBVIOUS
  <2>2. left = 0 \/ left = from - gu
    BY <1>3, <1>5
  <2>3. right = N \/ right = to + gu
    BY <1>4, <1>5
  <2>4. left = 0 \/ from + i - left > gu
    BY <2>2
  <2>5. right = N \/ right - (from + i) >= gu
    BY <2>1, <2>3
  <2> QED
    BY <1>1, <1>2, <1>5, <2>4, <2>5 DEF Sound
<1>7. DOMAIN in = 1..d
  BY DEF Slice
<1>8. Through(in, fx) = Slice(from, d, N, t)
  <2>1. from + d <= N
    BY <1>1
  <2> QED
    BY <1>1, <2>1, ThroughSlice
<1>9. Slice(from, d, N, t) = [i \in 1..d |-> Slice(from, d, N, t)[i]]
  BY DEF Slice
<1> QED
  BY <1>1, <1>6, <1>7, <1>8, <1>9

(* A window laid over the frames that are there already. *)
LEMMA WindowIs ==
    ASSUME NEW from \in Nat, NEW to \in Nat, from < to, NEW N \in Nat, to <= N, NEW t,
           NEW d \in Nat, d = to - from, NEW shifted, shifted = Slice(from, d, N, t),
           NEW w \in Nat, from < w, w <= to, NEW seam, seam = w - from, NEW file, file = Slice(0, w, N, t)
    PROVE  /\ seam > 0 /\ ~(seam > Len(shifted))
           /\ Written(file, from, Joined(Read(file, from, seam), SubSeq(shifted, 1, seam))
                                    \o SubSeq(shifted, seam + 1, Len(shifted))) = Slice(0, to, N, t)
<1>1. PICK m \in Nat : m = seam
  BY SMT
<1>2. m \in 0..d /\ m # 0
  BY <1>1
<1>3. Len(shifted) = d
  <2>1. Len(Slice(from, d, N, t)) = d
    BY SliceIs
  <2> QED
    BY <2>1
<1>4. Read(file, from, m) = Slice(from, m, N, t)
  <2>1. CASE w <= N
    <3> DEFINE rd(n) == [i \in 1..n |-> IF from + i \in DOMAIN file THEN file[from + i] ELSE Hole]
    <3>1. DOMAIN file = 1..w /\ \A i \in 1..w : file[i] = IF i <= N THEN [of |-> i, by |-> t] ELSE Hole
      BY SliceIs
    <3>2. ASSUME NEW i \in 1..m
          PROVE  (IF from + i \in DOMAIN file THEN file[from + i] ELSE Hole)
                    = (IF from + i <= N THEN [of |-> from + i, by |-> t] ELSE Hole)
      <4>1. PICK k \in Nat : k = from + i
        OBVIOUS
      <4>2. k \in 1..w
        BY <1>1, <4>1
      <4> QED
        BY <3>1, <4>1, <4>2
    <3> QED
      BY <3>2 DEF Read, Slice
  <2> QED
    BY <2>1
<1>5. Joint(shifted, Joined(Slice(from, m, N, t), SubSeq(shifted, 1, m)), SubSeq(shifted, m + 1, d))
  BY <1>2, CrossfadeIs
<1>6. Written(Slice(0, w, N, t), from, Slice(from, d, N, t)) = Slice(0, from + d, N, t)
  <2>1. from <= w /\ w <= from + d
    OBVIOUS
  <2> QED
    BY <2>1, WriteSlice
<1>7. from + d = to
  OBVIOUS
<1>8. seam > 0 /\ ~(seam > Len(shifted))
  BY <1>1, <1>2, <1>3
<1>9. Joined(Read(file, from, m), SubSeq(shifted, 1, m)) \o SubSeq(shifted, m + 1, d) = shifted
  BY <1>4, <1>5 DEF Joint
<1>10. Written(file, from, shifted) = Slice(0, to, N, t)
  BY <1>6, <1>7
<1> QED
  BY <1>1, <1>3, <1>8, <1>9, <1>10

LEMMA StageDone ==
    ASSUME NEW j \in Job, NEW s, NEW p, NEW w, NEW f, NEW c, StageHolds(j, s, p, w, f, c), s <= Len(Segments(j.chain)),
           p >= j.frames, w = j.frames
    PROVE  StageHolds(j, s + 1, 0, 0, f, Others[c])
<1>1. PICK N \in Nat, n \in Nat : N = j.frames /\ n = Len(Segments(j.chain))
  BY JobIs, SegmentCount
<1>2. s \in 1..n /\ s + 1 \in 1..n + 1 /\ (s + 1) - 1 = s /\ p = N /\ p # 0 /\ N > 0
  BY <1>1 DEF StageHolds
<1>3. f[Others[c]] = Slice(0, N, N, Route(j)[s]) /\ f["wav"] = <<>> /\ c \in {"a", "b"} /\ DOMAIN f = Names /\ j.decoded = N
  BY <1>1, <1>2 DEF StageHolds
<1>4. Slice(0, 0, N, Route(j)[n]) = <<>> /\ Others[c] \in {"a", "b"}
  BY <1>3, SliceEmpty, OtherFile
<1>5. PutAt(j, Segments(j.chain)[s + 1].kind, 0) = 0
  BY DEF PutAt
<1> QED
  BY <1>1, <1>2, <1>3, <1>4, <1>5 DEF StageHolds

LEMMA StageEncodes ==
    ASSUME NEW j \in Job, NEW s, NEW p, NEW w, NEW f, NEW c, StageHolds(j, s, p, w, f, c), s > Len(Segments(j.chain)),
           NEW n \in Nat, p + n <= j.frames, NEW g, g = [f EXCEPT !["wav"] = f["wav"] \o Read(f[c], p, n)]
    PROVE  StageHolds(j, s, p + n, w, g, c)
<1>1. PICK N \in Nat, l \in Nat : N = j.frames /\ l = Len(Segments(j.chain))
  BY JobIs, SegmentCount
<1>2. s = l + 1 /\ p \in Nat /\ s - 1 = l /\ ~(s <= l)
  BY <1>1 DEF StageHolds
<1>3. PICK t : t = Route(j)[l]
  OBVIOUS
<1>4. f[c] = Slice(0, N, N, t) /\ f["wav"] = Slice(0, p, N, t) /\ DOMAIN f = Names /\ c \in {"a", "b"}
  BY <1>1, <1>2, <1>3 DEF StageHolds
<1>5. Read(f[c], p, n) = Slice(p, n, N, t)
  BY <1>2, <1>4, ReadSlice
<1>6. Slice(0, p, N, t) \o Slice(p, n, N, t) = Slice(0, p + n, N, t)
  <2>1. Joint(Slice(0, p + n, N, t), Slice(0, p, N, t), Slice(p, n, N, t))
    BY <1>2, JoinSlices
  <2> QED
    BY <2>1 DEF Joint
<1>7. g = [f EXCEPT !["wav"] = Slice(0, p + n, N, t)]
  BY <1>4, <1>5, <1>6
<1>8. FilesPut(f, "wav", Slice(0, p + n, N, t), g)
  BY <1>4, <1>7, FilesPutIs DEF Names
<1>9. DOMAIN g = Names /\ g[c] = f[c] /\ g["wav"] = Slice(0, p + n, N, t)
  BY <1>4, <1>8 DEF FilesPut, Names
<1>10. p + n \in Nat /\ p + n <= N
  BY <1>1, <1>2
<1> QED
  BY <1>1, <1>2, <1>3, <1>4, <1>9, <1>10 DEF StageHolds

-----------------------------------------------------------------------------
(* The invariant of a render, phase by phase. *)
StreamHolds(j, p, w, f) ==
    /\ ~j.normalize /\ j.frames > 0 /\ p <= j.decoded
    /\ w = (IF p = 0 THEN 0 ELSE KeptOf(j, p)) /\ f["wav"] = Slice(0, w, j.decoded, Enabled(j.chain))

SpoolHolds(j, p, f) ==
    /\ j.frames > 0 /\ p <= j.decoded /\ p <= j.frames
    /\ f["a"] = Slice(0, p, j.decoded, <<>>) /\ f["wav"] = <<>>

Halfway(p, n) == [i \in 1..n |-> [of |-> i, by |-> IF i <= p THEN <<"n">> ELSE <<>>]]

NormalHolds(j, s, p, w, f, c) ==
    /\ j.decoded = j.frames /\ j.frames > 0 /\ j.normalize
    /\ s = 1 /\ w = 0 /\ c = "a" /\ p <= j.frames
    /\ f["a"] = Halfway(p, j.frames) /\ f["wav"] = <<>>

Complete(j, f) == f["wav"] = Slice(0, j.frames, j.frames, Route(j)[Len(Segments(j.chain))])

RenderTypes == job \in Job /\ pos \in Nat /\ put \in Nat /\ DOMAIN files = Names
PhaseHolds ==
    /\ doing \in {"probe", "once"} => pos = 0 /\ put = 0 /\ files["wav"] = <<>> /\ files["a"] = <<>>
    /\ doing = "stream" => StreamHolds(job, pos, put, files)
    /\ doing = "spool" => SpoolHolds(job, pos, files)
    /\ doing = "normalize" => NormalHolds(job, segment, pos, put, files, current)
    /\ doing = "stage" => StageHolds(job, segment, pos, put, files, current)
    /\ doing \in {"written", "done"} => Complete(job, files)
    /\ doing = "done" => ~(touched /\ job.stored)

RenderInv == RenderTypes /\ PhaseHolds

AtWork == {"once", "stream", "spool", "normalize", "stage"}
Reason == doing \in AtWork /\ doing' = "failed" => stopped \/ ~Works(job)
SameRequest == job' = job /\ stopped' = stopped /\ touched' = touched

LEMMA RouteEnds ==
    ASSUME NEW j \in Job, NEW r, r = Route(j)[Len(Segments(j.chain))]
    PROVE  /\ Joint(r, Normal(j), Enabled(j.chain))
           /\ ~j.normalize => r = Enabled(j.chain)
<1>1. Joint(r, Normal(j), Enabled(j.chain))
  BY RouteIs DEF Carries
<1>2. ASSUME ~j.normalize PROVE r = Enabled(j.chain)
  <2>1. Normal(j) = <<>>
    BY <1>2 DEF Normal
  <2>2. PICK e \in Seq(Nat) : e = Enabled(j.chain)
    BY JobIs, EnabledIs
  <2>3. Joint(e, <<>>, e)
    BY JointEmpty
  <2> QED
    BY <1>1, <2>1, <2>2, <2>3 DEF Joint
<1> QED
  BY <1>1, <1>2

LEMMA CompleteIs ==
    ASSUME NEW j \in Job, NEW f, Complete(j, f)
    PROVE  f["wav"] = [i \in 1 .. j.frames |->
              [of |-> i, by |-> (IF j.normalize THEN <<"n">> ELSE <<>>) \o Enabled(j.chain)]]
<1>1. PICK r : r = Route(j)[Len(Segments(j.chain))]
  OBVIOUS
<1>2. r = (IF j.normalize THEN <<"n">> ELSE <<>>) \o Enabled(j.chain)
  BY <1>1, RouteEnds DEF Joint, Normal
<1>3. PICK N \in Nat : N = j.frames
  BY JobIs
<1>4. Slice(0, N, N, r) = [i \in 1..N |-> [of |-> i, by |-> r]]
  <2>1. \A i \in 1..N : (IF 0 + i <= N THEN [of |-> 0 + i, by |-> r] ELSE Hole) = [of |-> i, by |-> r]
    OBVIOUS
  <2> QED
    BY <2>1 DEF Slice
<1> QED
  BY <1>1, <1>2, <1>3, <1>4 DEF Complete

LEMMA RenderStarts == RenderInit \/ NoRender => RenderInv
<1>1. ASSUME RenderInit PROVE RenderInv
  BY <1>1, RendersAssumption DEF RenderInit, RenderInv, RenderTypes, PhaseHolds, Empty, Names
<1>2. ASSUME NoRender PROVE RenderInv
  <2>1. NoJob \in Job
    <3>1. PICK c \in Seq([pitch : BOOLEAN, on : BOOLEAN]) : c = <<>>
      BY EmptySeq
    <3>2. [frames |-> 0, decoded |-> 0, chain |-> c, normalize |-> FALSE, latency |-> 0, stored |-> FALSE] \in Job
      BY DEF Job
    <3> QED
      BY <3>1, <3>2 DEF NoJob
  <2> QED
    BY <1>2, <2>1 DEF NoRender, RenderInv, RenderTypes, PhaseHolds, Empty, Names
<1> QED
  BY <1>1, <1>2

LEMMA FailKeeps == RenderInv /\ Fails /\ SameRequest => RenderInv'
BY DEF RenderInv, RenderTypes, PhaseHolds, Fails, SameRequest

LEMMA RenderHolds == RenderInv => RenderedInFull
BY CompleteIs DEF RenderInv, RenderTypes, PhaseHolds, RenderedInFull

-----------------------------------------------------------------------------
LEMMA AcceptKeeps ==
    ASSUME RenderInv, Refused \/ Accept, SameRequest
    PROVE  RenderInv' /\ Reason
<1>1. doing = "probe"
  BY DEF Refused, Accept
<1>2. Reason
  BY <1>1 DEF Reason, AtWork
<1>3. CASE Fails
  BY <1>2, <1>3, FailKeeps
<1>4. CASE ~Fails
  <2>1. /\ doing' = IF job.frames <= Block THEN "once" ELSE IF OnDisk THEN "spool" ELSE "stream"
        /\ pos' = pos /\ put' = put /\ files' = files /\ job' = job
    BY <1>4 DEF Refused, Accept, Checked, SameRequest
  <2>2. job \in Job /\ pos = 0 /\ put = 0 /\ files["wav"] = <<>> /\ files["a"] = <<>> /\ DOMAIN files = Names
    BY <1>1 DEF RenderInv, RenderTypes, PhaseHolds
  <2>3. PICK N \in Nat, D \in Nat : N = job.frames /\ D = job.decoded
    BY <2>2, JobIs
  <2>4. Slice(0, 0, D, <<>>) = <<>> /\ Slice(0, 0, D, Enabled(job.chain)) = <<>>
    BY SliceEmpty
  <2>5. RenderTypes'
    BY <2>1, <2>2 DEF RenderTypes
  <2>6. CASE doing' = "once"
    BY <1>2, <2>1, <2>2, <2>5, <2>6 DEF RenderInv, PhaseHolds
  <2>7. CASE doing' = "spool"
    <3>1. N > 0
      BY <2>1, <2>3, <2>7, RenderAssumption
    <3>2. SpoolHolds(job, 0, files)
      BY <2>2, <2>3, <2>4, <3>1 DEF SpoolHolds
    <3> QED
      BY <1>2, <2>1, <2>2, <2>5, <2>7, <3>2 DEF RenderInv, PhaseHolds
  <2>8. CASE doing' = "stream"
    <3>1. N > 0 /\ ~job.normalize
      BY <2>1, <2>3, <2>8, RenderAssumption DEF OnDisk
    <3>2. StreamHolds(job, 0, 0, files)
      BY <2>2, <2>3, <2>4, <3>1 DEF StreamHolds
    <3> QED
      BY <1>2, <2>1, <2>2, <2>5, <2>8, <3>2 DEF RenderInv, PhaseHolds
  <2> QED
    BY <1>2, <2>1, <2>6, <2>7, <2>8
<1> QED
  BY <1>3, <1>4

LEMMA OnceKeeps ==
    ASSUME RenderInv, Once, SameRequest
    PROVE  RenderInv' /\ Reason
<1>1. doing = "once" /\ job \in Job /\ DOMAIN files = Names /\ pos \in Nat /\ put \in Nat
  BY DEF Once, RenderInv, RenderTypes
<1>2. CASE Fails
  <2>1. stopped \/ job.decoded # job.frames
    BY <1>2 DEF Once, Checked, Fails
  <2> QED
    BY <1>2, <2>1, FailKeeps DEF Reason, Works
<1>3. CASE ~Fails
  <2>1. /\ job.decoded = job.frames /\ doing' = "written" /\ job' = job /\ pos' = pos /\ put' = put
        /\ files' = [files EXCEPT !.wav =
              Through(Through(Source, IF job.normalize THEN <<"n">> ELSE <<>>), Enabled(job.chain))]
    BY <1>3 DEF Once, Checked, SameRequest
  <2>2. PICK N \in Nat : N = job.frames /\ N = job.decoded
    BY <1>1, <2>1, JobIs
  <2>3. PICK r, b, e : r = Route(job)[Len(Segments(job.chain))] /\ b = Normal(job) /\ e = Enabled(job.chain)
    OBVIOUS
  <2>4. Joint(r, b, e)
    BY <1>1, <2>3, RouteEnds
  <2>5. Joint(b, <<>>, b)
    <3>1. b \in Seq(Steps)
      BY <1>1, <2>3, NormalIs
    <3> QED
      BY <3>1, JointEmpty
  <2>6. Source = Slice(0, N, N, <<>>)
    BY <2>2, SourceIs
  <2>7. Through(Slice(0, N, N, <<>>), b) = Slice(0, N, N, b) /\ Through(Slice(0, N, N, b), e) = Slice(0, N, N, r)
    <3>1. 0 + N <= N
      OBVIOUS
    <3> QED
      BY <2>4, <2>5, <3>1, ThroughSlice
  <2>8. files' = [files EXCEPT !["wav"] = Slice(0, N, N, r)]
    BY <2>1, <2>3, <2>6, <2>7 DEF Normal
  <2>9. FilesPut(files, "wav", Slice(0, N, N, r), files')
    <3>1. PICK g : g = files'
      OBVIOUS
    <3>2. FilesPut(files, "wav", Slice(0, N, N, r), g)
      BY <1>1, <2>8, <3>1, FilesPutIs DEF Names
    <3> QED
      BY <3>1, <3>2
  <2>10. Complete(job, files')
    BY <2>2, <2>3, <2>9 DEF Complete, FilesPut
  <2> QED
    BY <1>1, <2>1, <2>9, <2>10 DEF RenderInv, RenderTypes, PhaseHolds, FilesPut, Reason
<1> QED
  BY <1>2, <1>3

LEMMA BlockIs ==
    ASSUME NEW p \in Nat, NEW e \in Nat
    PROVE  /\ AtMost(Block, e - p) \in Int /\ p + AtMost(Block, e - p) <= e
           /\ p < e => AtMost(Block, e - p) > 0 /\ AtMost(Block, e - p) \in Nat
           /\ AtMost(Block, e - p) > 0 => p < e /\ AtMost(Block, e - p) \in Nat
<1>1. PICK x \in Int, b \in Nat \ {0} : x = e - p /\ b = Block
  BY RenderAssumption
<1>2. AtMost(b, x) = IF b <= x THEN b ELSE x
  BY MinOfTwo DEF AtMost
<1> QED
  BY <1>1, <1>2

(* The next block of the source, read after p frames. *)
LEMMA NextBlockIs ==
    ASSUME job \in Job, pos \in Nat, MoreBlocks, NEW n, n = AtMost(Block, job.decoded - pos)
    PROVE  /\ n \in Nat /\ n > 0 /\ pos + n <= job.decoded
           /\ NextBlock = Slice(pos, n, job.decoded, <<>>) /\ Len(NextBlock) = n
<1>1. PICK D \in Nat, p \in Nat : D = job.decoded /\ p = pos
  BY JobIs
<1>2. p < D
  BY <1>1 DEF MoreBlocks
<1>3. n \in Nat /\ n > 0 /\ p + n <= D
  BY <1>1, <1>2, BlockIs
<1>4. Source = Slice(0, D, D, <<>>)
  BY <1>1, SourceIs
<1>5. Read(Slice(0, D, D, <<>>), p, n) = Slice(p, n, D, <<>>)
  BY <1>3, ReadSlice
<1>6. NextBlock = Slice(p, n, D, <<>>)
  BY <1>1, <1>4, <1>5 DEF NextBlock
<1>7. Len(Slice(p, n, D, <<>>)) = n
  BY <1>3, SliceIs
<1> QED
  BY <1>1, <1>3, <1>6, <1>7

LEMMA StreamOutKeeps ==
    ASSUME RenderInv, StreamOut, SameRequest
    PROVE  RenderInv' /\ Reason
<1>1. doing = "stream" /\ job \in Job /\ DOMAIN files = Names /\ pos \in Nat /\ put \in Nat /\ StreamHolds(job, pos, put, files)
  BY DEF StreamOut, RenderInv, RenderTypes, PhaseHolds
<1>2. PICK N \in Nat, D \in Nat, p \in Nat, w \in Nat : N = job.frames /\ D = job.decoded /\ p = pos /\ w = put
  BY <1>1, JobIs
<1>3. PICK e : e = Enabled(job.chain)
  OBVIOUS
<1>4. /\ ~job.normalize /\ N > 0 /\ p <= D /\ w = (IF p = 0 THEN 0 ELSE KeptOf(job, p))
      /\ files["wav"] = Slice(0, w, D, e)
  BY <1>1, <1>2, <1>3 DEF StreamHolds
<1>5. CASE Fails
  <2>1. CASE MoreBlocks
    <3>1. stopped
      <4>1. doing' # doing
        BY <1>1, <1>5 DEF Fails
      <4> QED
        BY <1>1, <2>1, <4>1 DEF StreamOut, Checked
    <3> QED
      BY <1>5, <3>1, FailKeeps DEF Reason
  <2>2. CASE ~MoreBlocks
    <3>1. p = D /\ (pos # job.frames \/ put # job.frames)
      <4>1. doing' # "written"
        BY <1>5 DEF Fails
      <4> QED
        BY <1>2, <1>4, <2>2, <4>1 DEF StreamOut, MoreBlocks
    <3>2. ~Works(job)
      <4> SUFFICES ASSUME Works(job) PROVE FALSE
        OBVIOUS
      <4>1. D = N /\ KeptOf(job, N) = N
        BY <1>1, <1>2, KeptIs DEF Works
      <4>2. p = N /\ w = N
        BY <1>4, <3>1, <4>1
      <4> QED
        BY <1>2, <3>1, <4>2
    <3> QED
      BY <1>5, <3>2, FailKeeps DEF Reason
  <2> QED
    BY <2>1, <2>2
<1>6. CASE ~Fails /\ MoreBlocks
  <2>1. PICK n \in Nat : n = AtMost(Block, job.decoded - pos) /\ n > 0 /\ p + n <= D /\ Len(NextBlock) = n
    BY <1>1, <1>2, <1>6, NextBlockIs
  <2>2. PICK q \in Nat : q = p + n /\ p < q /\ q # 0 /\ q <= D
    BY <2>1
  <2>3. PICK k \in Nat : k = KeptOf(job, q)
    BY <1>1, KeptIs
  <2>4. w <= k
    <3>1. CASE p = 0
      BY <1>4, <3>1
    <3>2. CASE p # 0
      BY <1>1, <1>2, <1>4, <2>2, <2>3, <3>2, KeptIs
    <3> QED
      BY <3>1, <3>2
  <2>5. PICK d \in Nat : d = k - w
    BY <2>4
  <2>6. Max({0, k - w}) = d /\ Max({w, k}) = k
    <3>1. Max({0, d}) = (IF 0 >= d THEN 0 ELSE d) /\ Max({w, k}) = IF w >= k THEN w ELSE k
      BY MaxOfTwo
    <3>2. Max({0, d}) = d
      BY <3>1
    <3>3. Max({w, k}) = k
      BY <2>4, <3>1
    <3> QED
      BY <2>5, <3>2, <3>3
  <2>7. PICK s : s = Streamed(files.wav, NextBlock, e)
    OBVIOUS
  <2>8. s = [fed |-> q, put |-> k, file |-> Written(files.wav, put, Read(Through(Source, e), put, d))]
    <3>1. pos + Len(NextBlock) = q
      BY <1>2, <2>1, <2>2
    <3>2. AtMost(Yielded(IF q = job.decoded THEN q + Flush ELSE q), job.frames) = k
      BY <2>3 DEF KeptOf, Yields, Yielded
    <3> QED
      BY <1>2, <2>6, <2>7, <3>1, <3>2 DEF Streamed
  <2>9. Through(Source, e) = Slice(0, D, D, e)
    <3>1. PICK x \in Seq(Nat) : x = e
      BY <1>1, <1>3, JobIs, EnabledIs
    <3>2. Joint(x, <<>>, x)
      BY JointEmpty
    <3>3. 0 + D <= D
      OBVIOUS
    <3>4. Through(Slice(0, D, D, <<>>), x) = Slice(0, D, D, x)
      BY <3>2, <3>3, ThroughSlice
    <3> QED
      BY <1>2, <3>1, <3>4, SourceIs
  <2>10. Read(Slice(0, D, D, e), w, d) = Slice(w, d, D, e)
    BY ReadSlice
  <2>11. Written(Slice(0, w, D, e), w, Slice(w, d, D, e)) = Slice(0, k, D, e)
    <3>1. w + d = k /\ w <= w + d
      BY <2>4, <2>5
    <3>2. Written(Slice(0, w, D, e), w, Slice(w, d, D, e)) = Slice(0, w + d, D, e)
      BY <3>1, WriteSlice
    <3> QED
      BY <3>1, <3>2
  <2>12. s.fed = q /\ s.put = k /\ s.file = Slice(0, k, D, e)
    BY <1>2, <1>4, <2>8, <2>9, <2>10, <2>11
  <2>13. pos' = q /\ put' = k /\ doing' = "stream" /\ job' = job /\ files' = [files EXCEPT !["wav"] = Slice(0, k, D, e)]
    BY <1>1, <1>3, <1>6, <2>7, <2>12 DEF StreamOut, Checked, SameRequest
  <2>14. PICK g : g = files' /\ FilesPut(files, "wav", Slice(0, k, D, e), g)
    BY <1>1, <2>13, FilesPutIs DEF Names
  <2>15. StreamHolds(job, q, k, g)
    BY <1>2, <1>3, <1>4, <2>2, <2>3, <2>14 DEF StreamHolds, FilesPut
  <2> QED
    BY <1>1, <2>13, <2>14, <2>15 DEF RenderInv, RenderTypes, PhaseHolds, FilesPut, Reason
<1>7. CASE ~Fails /\ ~MoreBlocks
  <2>1. pos = job.frames /\ put = job.frames /\ doing' = "written" /\ job' = job /\ files' = files /\ pos' = pos /\ put' = put
    BY <1>7 DEF StreamOut, SameRequest
  <2>2. p = D /\ p = N /\ w = N
    <3>1. ~(p < D) /\ p <= D
      BY <1>2, <1>4, <1>7 DEF MoreBlocks
    <3>2. p = D
      BY <3>1
    <3> QED
      BY <1>2, <2>1, <3>2
  <2>3. PICK r : r = Route(job)[Len(Segments(job.chain))] /\ r = e
    BY <1>1, <1>3, <1>4, RouteEnds
  <2>4. Complete(job, files)
    BY <1>2, <1>4, <2>2, <2>3 DEF Complete
  <2> QED
    BY <1>1, <2>1, <2>4 DEF RenderInv, RenderTypes, PhaseHolds, Reason
<1> QED
  BY <1>5, <1>6, <1>7

LEMMA SpoolKeeps ==
    ASSUME RenderInv, Spool, SameRequest
    PROVE  RenderInv' /\ Reason
<1>1. doing = "spool" /\ job \in Job /\ DOMAIN files = Names /\ pos \in Nat /\ put \in Nat /\ SpoolHolds(job, pos, files)
  BY DEF Spool, RenderInv, RenderTypes, PhaseHolds
<1>2. PICK N \in Nat, D \in Nat, p \in Nat : N = job.frames /\ D = job.decoded /\ p = pos
  BY <1>1, JobIs
<1>3. N > 0 /\ p <= D /\ p <= N /\ files["a"] = Slice(0, p, D, <<>>) /\ files["wav"] = <<>>
  BY <1>1, <1>2 DEF SpoolHolds
<1>4. CASE Fails
  <2>1. doing' # doing /\ doing' # "normalize" /\ doing' # "stage"
    BY <1>1, <1>4 DEF Fails
  <2>2. CASE MoreBlocks
    <3>1. PICK n \in Nat : n = Len(NextBlock) /\ p + n <= D
      BY <1>1, <1>2, <2>2, NextBlockIs
    <3>2. stopped \/ pos + Len(NextBlock) > job.frames
      BY <1>1, <2>1, <2>2 DEF Spool, Checked
    <3>3. stopped \/ D # N
      BY <1>2, <3>1, <3>2
    <3> QED
      BY <1>2, <1>4, <3>3, FailKeeps DEF Reason, Works
  <2>3. CASE ~MoreBlocks
    <3>1. p = D /\ p # N
      BY <1>2, <1>3, <2>1, <2>3 DEF Spool, MoreBlocks
    <3> QED
      BY <1>2, <1>4, <3>1, FailKeeps DEF Reason, Works
  <2> QED
    BY <2>2, <2>3
<1>5. CASE ~Fails /\ MoreBlocks
  <2>1. PICK n \in Nat : n > 0 /\ p + n <= D /\ Len(NextBlock) = n /\ NextBlock = Slice(p, n, D, <<>>)
    BY <1>1, <1>2, <1>5, NextBlockIs
  <2>2. PICK q \in Nat : q = p + n
    OBVIOUS
  <2>3. /\ q <= N /\ doing' = "spool" /\ job' = job /\ put' = put /\ pos' = q
        /\ files' = [files EXCEPT !["a"] = Written(files["a"], p, NextBlock)]
    BY <1>1, <1>2, <1>5, <2>1, <2>2 DEF Spool, Checked, SameRequest
  <2>4. Written(Slice(0, p, D, <<>>), p, Slice(p, n, D, <<>>)) = Slice(0, q, D, <<>>)
    <3>1. p <= p + n
      OBVIOUS
    <3>2. Written(Slice(0, p, D, <<>>), p, Slice(p, n, D, <<>>)) = Slice(0, p + n, D, <<>>)
      BY <3>1, WriteSlice
    <3> QED
      BY <2>2, <3>2
  <2>5. files' = [files EXCEPT !["a"] = Slice(0, q, D, <<>>)]
    BY <1>3, <2>1, <2>3, <2>4
  <2>6. PICK g : g = files' /\ FilesPut(files, "a", Slice(0, q, D, <<>>), g)
    BY <1>1, <2>5, FilesPutIs DEF Names
  <2>7. g["a"] = Slice(0, q, D, <<>>) /\ g["wav"] = <<>> /\ DOMAIN g = Names
    BY <1>3, <2>6 DEF FilesPut, Names
  <2>8. SpoolHolds(job, q, g)
    BY <1>2, <1>3, <2>1, <2>2, <2>3, <2>7 DEF SpoolHolds
  <2> QED
    BY <1>1, <2>3, <2>6, <2>7, <2>8 DEF RenderInv, RenderTypes, PhaseHolds, Reason
<1>6. CASE ~Fails /\ ~MoreBlocks
  <2>1. /\ pos = job.frames /\ doing' = (IF job.normalize THEN "normalize" ELSE "stage") /\ segment' = 1
        /\ pos' = 0 /\ put' = 0 /\ current' = "a" /\ files' = files /\ job' = job
    BY <1>6 DEF Spool, SameRequest
  <2>2. p = D /\ p = N
    BY <1>2, <1>3, <1>6, <2>1 DEF MoreBlocks
  <2>3. CASE job.normalize
    <3>1. Slice(0, N, N, <<>>) = Halfway(0, N)
      <4>1. \A i \in 1..N : (IF 0 + i <= N THEN [of |-> 0 + i, by |-> <<>>] ELSE Hole)
                               = [of |-> i, by |-> IF i <= 0 THEN <<"n">> ELSE <<>>]
        OBVIOUS
      <4> QED
        BY <4>1 DEF Slice, Halfway
    <3>2. NormalHolds(job, 1, 0, 0, files, "a")
      BY <1>2, <1>3, <2>2, <2>3, <3>1 DEF NormalHolds
    <3> QED
      BY <1>1, <2>1, <2>3, <3>2 DEF RenderInv, RenderTypes, PhaseHolds, Reason
  <2>4. CASE ~job.normalize
    <3>1. Normal(job) = <<>>
      BY <2>4 DEF Normal
    <3>2. PICK j, f : j = job /\ f = files
      OBVIOUS
    <3>3. StageHolds(j, 1, 0, 0, f, "a")
      <4>1. /\ j \in Job /\ j.decoded = j.frames /\ j.frames > 0 /\ DOMAIN f = Names /\ f["wav"] = <<>>
            /\ f["a"] = Slice(0, j.frames, j.frames, Normal(j))
        BY <1>1, <1>2, <1>3, <2>2, <3>1, <3>2
      <4> QED
        BY <4>1, StageStarts
    <3> QED
      BY <1>1, <2>1, <2>4, <3>2, <3>3 DEF RenderInv, RenderTypes, PhaseHolds, Reason
  <2> QED
    BY <1>1, <2>3, <2>4
<1> QED
  BY <1>4, <1>5, <1>6

LEMMA HalfwayGoesOn ==
    ASSUME NEW N \in Nat, NEW p \in Nat, NEW n \in Nat, p + n <= N
    PROVE  Written(Halfway(p, N), p, Through(Read(Halfway(p, N), p, n), <<"n">>)) = Halfway(p + n, N)
<1>1. PICK f : f = Halfway(p, N)
  OBVIOUS
<1>2. DOMAIN f = 1..N /\ \A i \in 1..N : f[i] = [of |-> i, by |-> IF i <= p THEN <<"n">> ELSE <<>>]
  BY <1>1 DEF Halfway
<1>3. Len(f) = N
  BY <1>1 DEF Halfway
<1>4. Read(f, p, n) = Slice(p, n, N, <<>>)
  <2>1. ASSUME NEW i \in 1..n
        PROVE  (IF p + i \in DOMAIN f THEN f[p + i] ELSE Hole)
                  = (IF p + i <= N THEN [of |-> p + i, by |-> <<>>] ELSE Hole)
    <3>1. PICK k \in 1..N : k = p + i
      <4>1. p + i \in 1..N
        OBVIOUS
      <4> QED
        BY <4>1
    <3>2. ~(k <= p)
      BY <3>1
    <3>3. f[k] = [of |-> k, by |-> <<>>]
      BY <1>2, <3>2
    <3> QED
      BY <1>2, <3>1, <3>3
  <2> QED
    BY <2>1 DEF Read, Slice
<1>5. Through(Slice(p, n, N, <<>>), <<"n">>) = Slice(p, n, N, <<"n">>)
  <2>1. <<"n">> \in Seq(Steps)
    BY DEF Steps
  <2>2. PICK b \in Seq(Steps) : b = <<"n">>
    BY <2>1
  <2>3. Joint(b, <<>>, b)
    BY JointEmpty
  <2>4. Through(Slice(p, n, N, <<>>), b) = Slice(p, n, N, b)
    BY <2>3, ThroughSlice
  <2> QED
    BY <2>2, <2>4
<1>6. PICK g : g = Slice(p, n, N, <<"n">>)
  OBVIOUS
<1>7. Len(g) = n /\ \A i \in 1..n : g[i] = IF p + i <= N THEN [of |-> p + i, by |-> <<"n">>] ELSE Hole
  BY <1>6, SliceIs
<1>8. Max({Len(f), p + Len(g)}) = N
  <2>1. PICK x \in Nat : x = p + n /\ x <= N
    OBVIOUS
  <2>2. Max({N, x}) = IF N >= x THEN N ELSE x
    BY MaxOfTwo
  <2>3. Max({N, x}) = N
    BY <2>1, <2>2
  <2> QED
    BY <1>3, <1>7, <2>1, <2>3
<1>9. ASSUME NEW i \in 1..N
      PROVE  (IF i \in p + 1 .. p + Len(g) THEN g[i - p] ELSE IF i \in DOMAIN f THEN f[i] ELSE Hole)
                = [of |-> i, by |-> IF i <= p + n THEN <<"n">> ELSE <<>>]
  <2>1. CASE i \in p + 1 .. p + n
    <3>1. PICK k \in 1..n : k = i - p /\ p + k = i
      <4>1. i - p \in 1..n /\ p + (i - p) = i
        BY <2>1
      <4> QED
        BY <4>1
    <3>2. g[k] = [of |-> i, by |-> <<"n">>]
      BY <1>7, <3>1
    <3>3. i <= p + n
      BY <2>1
    <3> QED
      BY <1>7, <2>1, <3>1, <3>2, <3>3
  <2>2. CASE i \notin p + 1 .. p + n
    <3>1. (i <= p) = (i <= p + n)
      BY <2>2
    <3> QED
      BY <1>2, <1>7, <2>2, <3>1
  <2> QED
    BY <2>1, <2>2
<1>10. Written(f, p, g) = [i \in 1..N |-> [of |-> i, by |-> IF i <= p + n THEN <<"n">> ELSE <<>>]]
  BY <1>8, <1>9 DEF Written
<1> QED
  BY <1>1, <1>4, <1>5, <1>6, <1>10 DEF Halfway

LEMMA NormalizeKeeps ==
    ASSUME RenderInv, Normalize, SameRequest
    PROVE  RenderInv' /\ Reason
<1>1. doing = "normalize" /\ job \in Job /\ DOMAIN files = Names /\ pos \in Nat /\ NormalHolds(job, segment, pos, put, files, current)
  BY DEF Normalize, RenderInv, RenderTypes, PhaseHolds
<1>2. PICK N \in Nat, p \in Nat : N = job.frames /\ p = pos
  BY <1>1, JobIs
<1>3. /\ job.decoded = N /\ N > 0 /\ job.normalize /\ segment = 1 /\ put = 0 /\ current = "a" /\ p <= N
      /\ files["a"] = Halfway(p, N) /\ files["wav"] = <<>>
  BY <1>1, <1>2 DEF NormalHolds
<1>4. PICK n \in Int : n = AtMost(Block, job.frames - pos) /\ p + n <= N /\ (p < N => n > 0) /\ (n > 0 => n \in Nat)
  BY <1>2, BlockIs
<1>5. CASE Fails
  <2>1. stopped
    <3>1. doing' # doing /\ doing' # "stage"
      BY <1>1, <1>5 DEF Fails
    <3> QED
      BY <1>1, <3>1 DEF Normalize, Checked
  <2> QED
    BY <1>5, <2>1, FailKeeps DEF Reason
<1>6. CASE ~Fails /\ n > 0
  <2>1. PICK q \in Nat : q = p + n /\ q <= N
    BY <1>4, <1>6
  <2>2. /\ doing' = doing /\ segment' = segment /\ put' = put /\ current' = current /\ job' = job /\ pos' = q
        /\ files' = [files EXCEPT !["a"] = Written(files["a"], p, Through(Read(files["a"], p, n), <<"n">>)),
                                  !["b"] = [i \in 1..N |-> Hole]]
    BY <1>2, <1>4, <1>6, <2>1 DEF Normalize, Checked, SameRequest
  <2>3. Written(Halfway(p, N), p, Through(Read(Halfway(p, N), p, n), <<"n">>)) = Halfway(q, N)
    <3>1. n \in Nat
      BY <1>4, <1>6
    <3> QED
      BY <1>4, <2>1, <3>1, HalfwayGoesOn
  <2>4. files' = [files EXCEPT !["a"] = Halfway(q, N), !["b"] = [i \in 1..N |-> Hole]]
    BY <1>3, <2>2, <2>3
  <2>5. DOMAIN files' = Names /\ files'["a"] = Halfway(q, N) /\ files'["wav"] = <<>>
    BY <1>1, <1>3, <2>4 DEF Names
  <2>6. PICK g : g = files'
    OBVIOUS
  <2>7. NormalHolds(job, 1, q, 0, g, "a")
    BY <1>2, <1>3, <2>1, <2>5, <2>6 DEF NormalHolds
  <2> QED
    BY <1>1, <1>3, <2>2, <2>5, <2>6, <2>7 DEF RenderInv, RenderTypes, PhaseHolds, Reason
<1>7. CASE ~Fails /\ ~(n > 0)
  <2>1. doing' = "stage" /\ pos' = 0 /\ segment' = segment /\ put' = put /\ files' = files /\ current' = current /\ job' = job
    BY <1>4, <1>7 DEF Normalize, SameRequest
  <2>2. p = N
    BY <1>3, <1>4, <1>7
  <2>3. Halfway(N, N) = Slice(0, N, N, <<"n">>)
    <3>1. \A i \in 1..N : (IF 0 + i <= N THEN [of |-> 0 + i, by |-> <<"n">>] ELSE Hole)
                             = [of |-> i, by |-> IF i <= N THEN <<"n">> ELSE <<>>]
      OBVIOUS
    <3> QED
      BY <3>1 DEF Slice, Halfway
  <2>4. Normal(job) = <<"n">>
    BY <1>3 DEF Normal
  <2>5. PICK j, f : j = job /\ f = files
    OBVIOUS
  <2>6. StageHolds(j, 1, 0, 0, f, "a")
    <3>1. /\ j \in Job /\ j.decoded = j.frames /\ j.frames > 0 /\ DOMAIN f = Names /\ f["wav"] = <<>>
          /\ f["a"] = Slice(0, j.frames, j.frames, Normal(j))
      BY <1>1, <1>2, <1>3, <2>2, <2>3, <2>4, <2>5
    <3> QED
      BY <3>1, StageStarts
  <2> QED
    BY <1>1, <1>3, <2>1, <2>5, <2>6 DEF RenderInv, RenderTypes, PhaseHolds, Reason
<1> QED
  BY <1>5, <1>6, <1>7

LEMMA InStage ==
    ASSUME RenderInv, doing = "stage"
    PROVE  /\ job \in Job /\ DOMAIN files = Names /\ pos \in Nat /\ put \in Nat
           /\ StageHolds(job, segment, pos, put, files, current) /\ Works(job) = (job.latency <= Flush)
BY DEF RenderInv, RenderTypes, PhaseHolds, StageHolds, Works

LEMMA StageEndsWell ==
    ASSUME RenderInv, doing = "stage", StageEnds, SameRequest, segment <= Len(Segments(job.chain)),
           pos >= job.frames, put = job.frames
    PROVE  RenderInv' /\ Reason
<1>1. PICK j, s, p, w, f, c : j = job /\ s = segment /\ p = pos /\ w = put /\ f = files /\ c = current
  OBVIOUS
<1>2. j \in Job /\ StageHolds(j, s, p, w, f, c)
  BY <1>1, InStage
<1>3. StageHolds(j, s + 1, 0, 0, f, Others[c])
  BY <1>1, <1>2, StageDone
<1>4. segment' = s + 1 /\ pos' = 0 /\ put' = 0 /\ current' = Others[c] /\ doing' = "stage" /\ files' = f /\ job' = j
  BY <1>1 DEF StageEnds, SameRequest, Destination
<1>5. DOMAIN f = Names
  BY <1>2 DEF StageHolds
<1> QED
  BY <1>2, <1>3, <1>4, <1>5 DEF RenderInv, RenderTypes, PhaseHolds, Reason

LEMMA StreamStageKeeps ==
    ASSUME RenderInv, StreamStage, SameRequest
    PROVE  RenderInv' /\ Reason
<1>1. /\ doing = "stage" /\ segment <= Len(Segments(job.chain)) /\ Segments(job.chain)[segment].kind = "stream"
  BY DEF StreamStage, InSegment
<1>2. PICK j, s, p, w, f, c : j = job /\ s = segment /\ p = pos /\ w = put /\ f = files /\ c = current
  OBVIOUS
<1>3. j \in Job /\ StageHolds(j, s, p, w, f, c) /\ p \in Nat /\ w \in Nat /\ DOMAIN f = Names /\ Works(j) = (j.latency <= Flush)
  BY <1>1, <1>2, InStage
<1>4. PICK N \in Nat : N = j.frames /\ N = j.decoded /\ N > 0 /\ p <= N
  BY <1>3, JobIs DEF StageHolds
<1>5. PICK n \in Int : n = AtMost(Block, N - p) /\ p + n <= N /\ (p < N => n > 0) /\ (n > 0 => n \in Nat)
  BY <1>3, <1>4, BlockIs
<1>6. CASE n > 0
  <2>1. PICK q \in Nat : q = p + n /\ p < q /\ q <= N /\ q # 0
    BY <1>3, <1>5, <1>6
  <2>2. AtMost(Yielded(IF q = N THEN q + Flush ELSE q), N) = KeptOf(j, q)
    BY <1>2, <1>4 DEF KeptOf, Yields, Yielded
  <2>3. CASE Fails
    <3>1. doing' # doing
      BY <1>1, <2>3 DEF Fails
    <3>2. stopped
      BY <1>2, <1>4, <1>5, <1>6, <3>1 DEF StreamStage, Checked
    <3> QED
      BY <2>3, <3>2, FailKeeps DEF Reason
  <2>4. CASE ~Fails
    <3>1. PICK g : g = files'
      OBVIOUS
    <3>2. /\ g = [f EXCEPT ![Others[c]] =
                   Written(IF p = 0 THEN <<>> ELSE f[Others[c]], w,
                           Through(Read(f[c], w, Max({0, KeptOf(j, q) - w})), Segments(j.chain)[s].effects))]
          /\ pos' = q /\ put' = Max({w, KeptOf(j, q)})
      BY <1>2, <1>4, <1>5, <1>6, <2>1, <2>2, <2>4, <3>1 DEF StreamStage, Checked, Destination, Prepared, Effects
    <3>3. doing' = "stage" /\ segment' = s /\ current' = c /\ job' = j
      BY <1>1, <1>2, <1>4, <1>5, <1>6, <2>4 DEF StreamStage, Checked, SameRequest
    <3>4. s <= Len(Segments(j.chain)) /\ Segments(j.chain)[s].kind = "stream"
      BY <1>1, <1>2
    <3>5. StageHolds(j, s, q, Max({w, KeptOf(j, q)}), g, c)
      BY <1>3, <1>4, <2>1, <3>2, <3>4, StreamWrites
    <3>6. DOMAIN g = Names /\ Max({w, KeptOf(j, q)}) \in Nat
      BY <3>5 DEF StageHolds
    <3> QED
      BY <1>3, <2>1, <3>1, <3>2, <3>3, <3>5, <3>6 DEF RenderInv, RenderTypes, PhaseHolds, Reason
  <2> QED
    BY <2>3, <2>4
<1>7. CASE ~(n > 0)
  <2>1. p = N
    BY <1>3, <1>4, <1>5, <1>7
  <2>2. w = KeptOf(j, N)
    BY <1>1, <1>2, <1>3, <1>4, <2>1 DEF StageHolds, PutAt
  <2>3. CASE put # job.frames
    <3>1. Fails
      BY <1>2, <1>4, <1>5, <1>7, <2>3 DEF StreamStage
    <3>2. ~Works(j)
      BY <1>2, <1>3, <1>4, <2>2, <2>3, KeptIs
    <3> QED
      BY <1>2, <3>1, <3>2, FailKeeps DEF Reason
  <2>4. CASE put = job.frames
    <3>1. StageEnds
      BY <1>2, <1>4, <1>5, <1>7, <2>4 DEF StreamStage
    <3>2. pos >= job.frames
      BY <1>2, <1>4, <2>1
    <3> QED
      BY <1>1, <2>4, <3>1, <3>2, StageEndsWell
  <2> QED
    BY <2>3, <2>4
<1> QED
  BY <1>6, <1>7

(* A step of the pitch stage, with its window and the window's frames named. *)
FramesLaid(win, shifted, seam) ==
    Checked(IF put > 0 /\ (seam <= 0 \/ seam > Len(shifted)) THEN Fails
            ELSE /\ files' = [files EXCEPT ![Destination(current)] =
                       IF put = 0 THEN Written(Prepared, win.from, shifted)
                       ELSE Written(@, win.from,
                              Joined(Read(@, win.from, seam), SubSeq(shifted, 1, seam))
                                \o SubSeq(shifted, seam + 1, Len(shifted)))]
                 /\ put' = win.to /\ pos' = AtMost(job.frames, pos + Block)
                 /\ UNCHANGED <<doing, segment, current>>)
WindowLaid(win) ==
    LET in == Read(files[current], win.from, win.to - win.from) IN
    FramesLaid(win, [i \in DOMAIN in |-> IF Sound(win, win.from + i) THEN Through(in, Effects)[i] ELSE Hole],
               put - win.from)

LEMMA PitchStageKeeps ==
    ASSUME RenderInv, PitchStage, SameRequest
    PROVE  RenderInv' /\ Reason
<1>1. /\ doing = "stage" /\ segment <= Len(Segments(job.chain)) /\ Segments(job.chain)[segment].kind = "pitch"
  BY DEF PitchStage, InSegment
<1>2. PICK j, s, p, w, f, c : j = job /\ s = segment /\ p = pos /\ w = put /\ f = files /\ c = current
  OBVIOUS
<1>3. j \in Job /\ StageHolds(j, s, p, w, f, c) /\ p \in Nat /\ w \in Nat /\ DOMAIN f = Names
  BY <1>1, <1>2, InStage
<1>4. PICK N \in Nat : N = j.frames /\ N = j.decoded /\ N > 0 /\ p <= N
  BY <1>3, JobIs DEF StageHolds
<1>5. s <= Len(Segments(j.chain)) /\ Segments(j.chain)[s].kind = "pitch"
  BY <1>1, <1>2
<1>6. CASE p >= N
  <2>1. p = N /\ p # 0
    BY <1>3, <1>4, <1>6
  <2>2. w = N
    <3>1. w = AtMost(N, N + Overlap)
      BY <1>3, <1>4, <1>5, <2>1 DEF StageHolds, PutAt
    <3>2. PICK x \in Nat : x = N + Overlap /\ N <= x
      BY RenderAssumption
    <3>3. AtMost(N, x) = N
      BY <3>2, MinOfTwo DEF AtMost
    <3> QED
      BY <3>1, <3>2, <3>3
  <2>3. StageEnds
    BY <1>2, <1>4, <1>6, <2>2 DEF PitchStage
  <2>4. pos >= job.frames /\ put = job.frames
    BY <1>2, <1>4, <1>6, <2>2
  <2> QED
    BY <1>1, <2>3, <2>4, StageEndsWell
<1>7. CASE p < N
  <2>1. PICK from \in Nat : from = (IF p >= Overlap THEN p - Overlap ELSE 0) /\ from = Max({0, p - Overlap})
    <3>1. PICK x \in Int, o \in Nat : x = p - o /\ o = Overlap
      BY <1>3, RenderAssumption
    <3>2. Max({0, x}) = IF 0 >= x THEN 0 ELSE x
      BY MaxOfTwo
    <3>3. (IF 0 >= x THEN 0 ELSE x) = (IF p >= o THEN p - o ELSE 0) /\ (IF p >= o THEN p - o ELSE 0) \in Nat
      BY <1>3, <3>1
    <3> QED
      BY <3>1, <3>2, <3>3
  <2>2. PICK q \in Nat : q = AtMost(N, p + Block)
    <3>1. PICK x \in Nat : x = p + Block
      BY <1>3, RenderAssumption
    <3>2. AtMost(N, x) \in Nat
      BY MinOfTwo DEF AtMost
    <3> QED
      BY <3>1, <3>2
  <2>3. PICK to \in Nat : to = AtMost(N, q + Overlap)
    <3>1. PICK x \in Nat : x = q + Overlap
      BY RenderAssumption
    <3>2. AtMost(N, x) \in Nat
      BY MinOfTwo DEF AtMost
    <3> QED
      BY <3>1, <3>2
  <2>4. /\ p < q /\ from < to /\ to <= N /\ to = PutAt(j, "pitch", q) /\ q <= N
        /\ (w = 0) = (p = 0) /\ (p = 0 => from = 0)
        /\ p # 0 => from < w /\ w <= to
    <3>1. q = AtMost(j.frames, p + Block) /\ to = AtMost(j.frames, q + Overlap) /\ p < j.frames
      BY <1>4, <1>7, <2>2, <2>3
    <3>2. from = IF p >= Overlap THEN p - Overlap ELSE 0
      BY <2>1
    <3>3. Laid(j, p, w, from, q, to)
      BY <1>3, <1>5, <3>1, <3>2, PitchWrites
    <3> QED
      BY <1>4, <3>3 DEF Laid
  <2>5. PICK win : win = Window(pos)
    OBVIOUS
  <2>6. /\ win.from = from /\ win.to = to
        /\ win.left = Max({0, from - Guard}) /\ win.right = AtMost(job.frames, to + Guard)
    BY <1>2, <1>4, <2>1, <2>2, <2>3, <2>5 DEF Window
  <2>7. PICK d \in Nat : d = to - from
    BY <2>4
  <2>8. PICK r, t, fx : r = Route(j)[s - 1] /\ t = Route(j)[s] /\ fx = Segments(j.chain)[s].effects
    OBVIOUS
  <2>9. Joint(t, r, fx)
    <3>1. s \in 1..Len(Segments(j.chain))
      BY <1>3, <1>5, SegmentCount DEF StageHolds
    <3> QED
      BY <1>3, <2>8, <3>1, SegmentIs
  <2>10. PICK in : in = Read(f[c], from, d)
    OBVIOUS
  <2>11. in = Slice(from, d, N, r)
    <3>1. f[c] = Slice(0, N, N, r)
      BY <1>3, <1>4, <2>8 DEF StageHolds
    <3> QED
      BY <2>10, <3>1, ReadSlice
  <2>12. PICK shifted : shifted = [i \in DOMAIN in |-> IF Sound(win, from + i) THEN Through(in, fx)[i] ELSE Hole]
    OBVIOUS
  <2>13. shifted = Slice(from, d, N, t)
    <3>1. job \in Job /\ to <= job.frames /\ in = Slice(from, d, job.frames, r)
      BY <1>2, <1>3, <1>4, <2>4, <2>11
    <3>2. shifted = Slice(from, d, job.frames, t)
      BY <2>4, <2>6, <2>7, <2>9, <2>12, <3>1, ShiftedIs
    <3> QED
      BY <1>2, <1>4, <3>2
  <2>14. PICK seam : seam = w - from
    OBVIOUS
  <2>15. PICK g : g = files'
    OBVIOUS
  <2>16. \/ stopped /\ Fails
         \/ w > 0 /\ (seam <= 0 \/ seam > Len(shifted)) /\ Fails
         \/ /\ w > 0 => ~(seam <= 0 \/ seam > Len(shifted))
            /\ g = [f EXCEPT ![Others[c]] =
                     IF w = 0 THEN Written(IF p = 0 THEN <<>> ELSE f[Others[c]], from, shifted)
                     ELSE Written(f[Others[c]], from,
                            Joined(Read(f[Others[c]], from, seam), SubSeq(shifted, 1, seam))
                              \o SubSeq(shifted, seam + 1, Len(shifted)))]
            /\ put' = to /\ pos' = q /\ doing' = doing /\ segment' = segment /\ current' = current
    <3>1. ~(pos >= job.frames)
      BY <1>2, <1>3, <1>4, <1>7
    <3>2. WindowLaid(win)
      BY <2>5, <3>1 DEF PitchStage, WindowLaid, FramesLaid
    <3>3. FramesLaid(win, [i \in DOMAIN Read(files[current], win.from, win.to - win.from) |->
                             IF Sound(win, win.from + i)
                             THEN Through(Read(files[current], win.from, win.to - win.from), Effects)[i] ELSE Hole],
                     put - win.from)
      BY <3>2 DEF WindowLaid
    <3>4. FramesLaid(win, [i \in DOMAIN Read(f[c], from, win.to - win.from) |->
                             IF Sound(win, from + i) THEN Through(Read(f[c], from, win.to - win.from), fx)[i] ELSE Hole],
                     w - from)
      BY <1>2, <2>6, <2>8, <3>3 DEF Effects
    <3>5. Read(f[c], from, win.to - win.from) = in
      BY <2>6, <2>7, <2>10
    <3>6. FramesLaid(win, shifted, seam)
      BY <2>12, <2>14, <3>4, <3>5
    <3>7. \/ stopped /\ Fails
          \/ put > 0 /\ (seam <= 0 \/ seam > Len(shifted)) /\ Fails
          \/ /\ put > 0 => ~(seam <= 0 \/ seam > Len(shifted))
             /\ files' = [files EXCEPT ![Others[current]] =
                     IF put = 0 THEN Written(IF pos = 0 THEN <<>> ELSE files[Others[current]], win.from, shifted)
                     ELSE Written(files[Others[current]], win.from,
                            Joined(Read(files[Others[current]], win.from, seam), SubSeq(shifted, 1, seam))
                              \o SubSeq(shifted, seam + 1, Len(shifted)))]
             /\ put' = win.to /\ pos' = AtMost(job.frames, pos + Block)
             /\ doing' = doing /\ segment' = segment /\ current' = current
      BY <3>6 DEF FramesLaid, Checked, Destination, Prepared
    <3>8. AtMost(job.frames, pos + Block) = q
      BY <1>2, <1>4, <2>2
    <3> QED
      BY <1>2, <2>6, <2>15, <3>7, <3>8
  <2>17. CASE Fails /\ stopped
    BY <2>17, FailKeeps DEF Reason
  <2>18. CASE ~(Fails /\ stopped)
    <3>1. Len(shifted) = d
      <4>1. Len(Slice(from, d, N, t)) = d
        BY SliceLength
      <4> QED
        BY <2>13, <4>1
    <3>2. w > 0 => ~(seam <= 0 \/ seam > Len(shifted))
      BY <1>3, <2>4, <2>7, <2>14, <3>1
    <3>3. g = [f EXCEPT ![Others[c]] = Slice(0, to, N, t)]
      <4>1. CASE p = 0
        <5>1. from = 0 /\ w = 0 /\ d = to
          BY <2>4, <2>7, <4>1
        <5>2. Written(Slice(0, 0, N, t), 0, Slice(0, d, N, t)) = Slice(0, 0 + d, N, t)
          <6>1. 0 <= 0 + d
            OBVIOUS
          <6> QED
            BY <6>1, WriteSlice
        <5>3. Slice(0, 0, N, t) = <<>> /\ 0 + d = to
          BY <5>1, SliceEmpty
        <5> QED
          BY <2>13, <2>16, <2>18, <3>2, <4>1, <5>1, <5>2, <5>3
      <4>2. CASE p # 0
        <5>1. PICK file : file = f[Others[c]] /\ file = Slice(0, w, N, t)
          BY <1>3, <1>4, <1>5, <2>8, <4>2 DEF StageHolds
        <5>2. w # 0 /\ from < w /\ w <= to
          BY <2>4, <4>2
        <5>3. Written(file, from, Joined(Read(file, from, seam), SubSeq(shifted, 1, seam))
                                    \o SubSeq(shifted, seam + 1, Len(shifted))) = Slice(0, to, N, t)
          BY <1>3, <2>4, <2>7, <2>13, <2>14, <5>1, <5>2, WindowIs
        <5> QED
          BY <2>16, <2>18, <3>2, <5>1, <5>2, <5>3
      <4> QED
        BY <4>1, <4>2
    <3>4. put' = to /\ pos' = q /\ doing' = "stage" /\ segment' = s /\ current' = c /\ job' = j
      BY <1>1, <1>2, <2>16, <2>18, <3>2 DEF SameRequest
    <3>5. FilesPut(f, Others[c], Slice(0, to, N, t), g)
      <4>1. Others[c] \in Names
        BY <1>3, OtherFile DEF StageHolds, Names
      <4> QED
        BY <1>3, <3>3, <4>1, FilesPutIs
    <3>6. StageHolds(j, s, q, to, g, c)
      <4>1. q # 0 /\ q <= j.frames /\ to = PutAt(j, Segments(j.chain)[s].kind, q)
        BY <1>3, <1>4, <1>5, <2>4
      <4>2. FilesPut(f, Others[c], Slice(0, to, j.frames, Route(j)[s]), g)
        BY <1>4, <2>8, <3>5
      <4> QED
        BY <1>3, <1>5, <4>1, <4>2, StageWrites
    <3>7. DOMAIN g = Names
      BY <3>5 DEF FilesPut
    <3> QED
      BY <1>3, <2>15, <3>4, <3>6, <3>7 DEF RenderInv, RenderTypes, PhaseHolds, Reason
  <2> QED
    BY <2>17, <2>18
<1> QED
  BY <1>3, <1>4, <1>6, <1>7

LEMMA EncodeKeeps ==
    ASSUME RenderInv, Encode, SameRequest
    PROVE  RenderInv' /\ Reason
<1>1. doing = "stage" /\ segment > Len(Segments(job.chain))
  BY DEF Encode
<1>2. PICK j, s, p, w, f, c : j = job /\ s = segment /\ p = pos /\ w = put /\ f = files /\ c = current
  OBVIOUS
<1>3. j \in Job /\ StageHolds(j, s, p, w, f, c) /\ p \in Nat /\ w \in Nat /\ DOMAIN f = Names
  BY <1>1, <1>2, InStage
<1>4. PICK N \in Nat : N = j.frames /\ p <= N
  BY <1>3, JobIs DEF StageHolds
<1>5. PICK n \in Int : n = AtMost(Block, N - p) /\ p + n <= N /\ (p < N => n > 0) /\ (n > 0 => n \in Nat)
  BY <1>3, <1>4, BlockIs
<1>6. CASE n > 0
  <2>1. CASE Fails
    <3>1. doing' # doing
      BY <1>1, <2>1 DEF Fails
    <3>2. stopped
      BY <1>2, <1>4, <1>5, <1>6, <3>1 DEF Encode, Checked
    <3> QED
      BY <2>1, <3>2, FailKeeps DEF Reason
  <2>2. CASE ~Fails
    <3>1. PICK g : g = files'
      OBVIOUS
    <3>2. g = [f EXCEPT !["wav"] = f["wav"] \o Read(f[c], p, n)] /\ pos' = p + n
      BY <1>2, <1>4, <1>5, <1>6, <2>2, <3>1 DEF Encode, Checked
    <3>3. doing' = "stage" /\ segment' = s /\ current' = c /\ job' = j /\ put' = w
      BY <1>1, <1>2, <1>4, <1>5, <1>6, <2>2 DEF Encode, Checked, SameRequest
    <3>4. n \in Nat /\ p + n <= j.frames /\ s > Len(Segments(j.chain)) /\ p + n \in Nat
      BY <1>1, <1>2, <1>3, <1>4, <1>5, <1>6
    <3>5. StageHolds(j, s, p + n, w, g, c)
      BY <1>3, <3>2, <3>4, StageEncodes
    <3>6. DOMAIN g = Names
      BY <3>5 DEF StageHolds
    <3> QED
      BY <1>3, <3>1, <3>2, <3>3, <3>4, <3>5, <3>6 DEF RenderInv, RenderTypes, PhaseHolds, Reason
  <2> QED
    BY <2>1, <2>2
<1>7. CASE ~(n > 0)
  <2>1. p = N
    BY <1>3, <1>4, <1>5, <1>7
  <2>2. doing' = "written" /\ pos' = p /\ put' = w /\ files' = f /\ job' = j
    BY <1>2, <1>4, <1>5, <1>7 DEF Encode, SameRequest
  <2>3. Complete(j, f)
    BY <1>1, <1>2, <1>3, <1>4, <2>1 DEF StageHolds, Complete
  <2> QED
    BY <1>3, <2>2, <2>3 DEF RenderInv, RenderTypes, PhaseHolds, Reason
<1> QED
  BY <1>6, <1>7

LEMMA AcceptWrittenKeeps ==
    ASSUME RenderInv, AcceptWritten, SameRequest
    PROVE  RenderInv' /\ Reason
BY DEF AcceptWritten, SameRequest, RenderInv, RenderTypes, PhaseHolds, Reason, AtWork

(* Every step of a render keeps the invariant, and fails for a reason only. *)
LEMMA RenderStep == RenderInv /\ [RenderNext]_renderVars => RenderInv' /\ Reason
<1> SUFFICES ASSUME RenderInv, [RenderNext]_renderVars PROVE RenderInv' /\ Reason
  OBVIOUS
<1>1. CASE Work
  <2>1. SameRequest
    BY <1>1 DEF Work, SameRequest
  <2> QED
    BY <1>1, <2>1, AcceptKeeps, OnceKeeps, StreamOutKeeps, SpoolKeeps, NormalizeKeeps, StreamStageKeeps,
       PitchStageKeeps, EncodeKeeps, AcceptWrittenKeeps DEF Work
<1>2. CASE Cancel \/ Touch
  BY <1>2 DEF Cancel, Touch, Finished, RenderInv, RenderTypes, PhaseHolds, Reason
<1>3. CASE UNCHANGED renderVars
  <2>1. RenderInv'
    BY <1>3 DEF renderVars, RenderInv, RenderTypes, PhaseHolds
  <2>2. Reason
    BY <1>3 DEF renderVars, Reason, AtWork
  <2> QED
    BY <2>1, <2>2
<1> QED
  BY <1>1, <1>2, <1>3 DEF RenderNext

-----------------------------------------------------------------------------
(* Lengths in frames. *)
LEMMA Quotient ==
    ASSUME NEW a \in Nat, NEW r \in Nat \ {0}
    PROVE  a \div r \in Nat /\ r * (a \div r) <= a /\ a < r * (a \div r) + r
OBVIOUS

LEMMA QuotientIs ==
    ASSUME NEW a \in Nat, NEW r \in Nat \ {0}, NEW q \in Nat, r * q <= a, a < r * q + r
    PROVE  a \div r = q
<1>1. PICK p \in Nat : p = a \div r /\ r * p <= a /\ a < r * p + r
  BY Quotient
<1>2. ASSUME p < q PROVE FALSE
  <2>1. PICK e \in Nat : q = p + 1 + e
    BY <1>2
  <2>2. r * q = r * p + r + r * e
    BY <2>1
  <2>3. r * e >= 0
    OBVIOUS
  <2> QED
    BY <1>1, <2>2, <2>3
<1>3. ASSUME q < p PROVE FALSE
  <2>1. PICK e \in Nat : p = q + 1 + e
    BY <1>3
  <2>2. r * p = r * q + r + r * e
    BY <2>1
  <2>3. r * e >= 0
    OBVIOUS
  <2> QED
    BY <1>1, <2>2, <2>3
<1> QED
  BY <1>1, <1>2, <1>3

LEMMA FramesIn == \A t \in Nat : InFrames(t) \in Nat
<1> SUFFICES ASSUME NEW t \in Nat PROVE InFrames(t) \in Nat
  OBVIOUS
<1>1. PICK x \in Nat : x = t * Rate
  BY MixAssumption
<1>2. Second \in Nat \ {0}
  BY MixAssumption
<1> QED
  BY <1>1, <1>2, Quotient DEF InFrames

(* The prober's rounding is the resampler's. *)
LEMMA LengthsAgree ==
    ASSUME NEW c \in Clip, c.rate > 0
    PROVE  OutFrames(c) \in Nat /\ Resampled(c) = OutFrames(c)
<1>1. PICK fr \in Nat, r \in Nat \ {0} : fr = c.frames /\ r = c.rate
  BY DEF Clip
<1>2. PICK x \in Nat : x = fr * Rate /\ 2 * fr * Rate = 2 * x
  BY MixAssumption
<1>3. PICK h \in Nat : h = r \div 2 /\ (r = 2 * h \/ r = 2 * h + 1)
  OBVIOUS
<1>4. PICK q \in Nat : q = (2 * x + r) \div (2 * r) /\ (2 * r) * q <= 2 * x + r /\ 2 * x + r < (2 * r) * q + 2 * r
  <2>1. 2 * x + r \in Nat /\ 2 * r \in Nat \ {0}
    OBVIOUS
  <2> QED
    BY <2>1, Quotient
<1>5. PICK y \in Nat : y = r * q /\ (2 * r) * q = 2 * y
  OBVIOUS
<1>6. y <= x + h /\ x + h < y + r
  BY <1>3, <1>4, <1>5
<1>7. (x + h) \div r = q
  BY <1>5, <1>6, QuotientIs
<1> QED
  BY <1>1, <1>2, <1>3, <1>4, <1>7 DEF OutFrames, Resampled

-----------------------------------------------------------------------------
(* What has been mixed: the frames of a mix as lists of clip frames. *)
Pairs == Nat \X Nat

(* The list s names every member of S once. *)
Lists(s, S) == s \in Seq(Pairs) /\ ToSet(s) = S /\ IsFiniteSet(S) /\ Len(s) = Cardinality(S)

LEMMA ListsEmpty == Lists(<<>>, {})
BY EmptySeq, FS_EmptySet DEF Lists, ToSet

LEMMA ListsMore ==
    ASSUME NEW s, NEW S, Lists(s, S), NEW x \in Pairs, x \notin S
    PROVE  Lists(s \o <<x>>, S \cup {x})
<1>1. s \in Seq(Pairs) /\ ToSet(s) = S /\ IsFiniteSet(S) /\ Len(s) = Cardinality(S)
  BY DEF Lists
<1>2. PICK n \in Nat : n = Len(s)
  BY <1>1
<1>y. PICK y : y = <<x>>
  OBVIOUS
<1>3. y \in Seq(Pairs) /\ Len(y) = 1 /\ y[1] = x
  BY <1>y
<1>4. PICK t : t = s \o y
  OBVIOUS
<1>5. t \in Seq(Pairs) /\ Len(t) = n + 1
  <2>1. t \in Seq(Pairs)
    BY <1>1, <1>3, <1>4, ConcatProperties
  <2>2. Len(t) = Len(s) + Len(y)
    BY <1>1, <1>3, <1>4, ConcatProperties
  <2> QED
    BY <1>2, <1>3, <2>1, <2>2
<1>6. \A i \in 1..n : t[i] = s[i]
  BY <1>1, <1>2, <1>3, <1>4
<1>7. t[n + 1] = x
  <2>1. n + 1 \in 1 .. Len(s) + Len(y) /\ ~(n + 1 <= Len(s)) /\ (n + 1) - Len(s) = 1
    BY <1>2, <1>3
  <2>2. t[n + 1] = y[(n + 1) - Len(s)]
    BY <1>1, <1>3, <1>4, <2>1, ConcatProperties
  <2> QED
    BY <1>3, <2>1, <2>2
<1>8. DOMAIN t = 1..n + 1 /\ DOMAIN s = 1..n
  BY <1>1, <1>2, <1>5
<1>9. {t[i] : i \in 1..n + 1} = {s[i] : i \in 1..n} \cup {x}
  <2>1. 1..n + 1 = (1..n) \cup {n + 1}
    OBVIOUS
  <2> QED
    BY <1>6, <1>7, <2>1
<1>10. ToSet(t) = S \cup {x}
  BY <1>1, <1>8, <1>9 DEF ToSet
<1>11. IsFiniteSet(S \cup {x}) /\ Cardinality(S \cup {x}) = Cardinality(S) + 1
  BY <1>1, FS_AddElement
<1>12. t = s \o <<x>>
  BY <1>y, <1>4
<1>13. Lists(t, S \cup {x})
  BY <1>1, <1>2, <1>5, <1>10, <1>11 DEF Lists
<1> QED
  BY <1>12, <1>13

LEMMA SequenceOfNone == SetToSeq({}) = <<>>
<1>1. Cardinality({}) = 0
  BY FS_EmptySet
<1>2. \A g \in [1..0 -> {}] : g = <<>>
  OBVIOUS
<1>3. <<>> \in [1..0 -> {}] /\ IsInjective(<<>>)
  BY DEF IsInjective
<1>4. \E g \in [1..0 -> {}] : IsInjective(g)
  BY <1>3
<1> QED
  BY <1>1, <1>2, <1>4 DEF SetToSeq

LEMMA SequenceOfOne == ASSUME NEW x PROVE SetToSeq({x}) = <<x>>
<1>1. Cardinality({x}) = 1
  BY FS_Singleton
<1>2. 1..1 = {1}
  OBVIOUS
<1>3. PICK y : y = <<x>>
  OBVIOUS
<1>4. DOMAIN y = {1} /\ y[1] = x
  BY <1>3
<1>5. y \in [1..1 -> {x}]
  BY <1>2, <1>3
<1>6. \A g \in [1..1 -> {x}] : g = y
  BY <1>2, <1>4, <1>5
<1>7. IsInjective(y)
  BY <1>4 DEF IsInjective
<1>8. \E g \in [1..1 -> {x}] : IsInjective(g)
  BY <1>5, <1>7
<1>9. PICK g : g = SetToSeq({x}) /\ g \in [1..1 -> {x}]
  BY <1>1, <1>8 DEF SetToSeq
<1> QED
  BY <1>3, <1>6, <1>9

(* The frames up to p that trims leave of clip k and that belong to frame f *)
(* of the mix; and all that has been added to it when clip k is there.      *)
Given(cs, k, p, f) ==
    {<<k, i>> : i \in {j \in 1..p : InFrames(cs[k].head) < j /\ j <= KeepEnd(cs[k]) /\ Placed(cs[k], j) = f}}
Whole(cs, k, f) == Given(cs, k, OutFrames(cs[k]), f)
Before(cs, k, f) == UNION {Whole(cs, m, f) : m \in 1..k - 1}
AddedTo(cs, k, p, f) == Before(cs, k, f) \cup (IF k <= Len(cs) THEN Given(cs, k, p, f) ELSE {})

(* What the frames p + 1 .. p + n of clip k bring to frame f. *)
Coming(cs, k, p, n, f) ==
    {<<k, i>> : i \in {j \in {i \in p + 1 .. p + n : InFrames(cs[k].head) < i /\ i <= KeepEnd(cs[k])} :
                            Placed(cs[k], j) = f}}

Sounds(cs) == \A k \in DOMAIN cs : Probes(cs[k])

LEMMA ClipIs ==
    ASSUME NEW c \in Clip
    PROVE  /\ c.frames \in Nat /\ c.rate \in Nat /\ InFrames(c.start) \in Nat
           /\ InFrames(c.head) \in Nat /\ InFrames(c.tail) \in Nat
BY FramesIn DEF Clip

LEMMA KeepEndIs == ASSUME NEW c \in Clip, Probes(c)
                   PROVE  KeepEnd(c) \in Nat /\ KeepEnd(c) <= OutFrames(c) /\ Kept(c) \in Nat \ {0}
                          /\ Kept(c) = KeepEnd(c) - InFrames(c.head) /\ Resampled(c) = OutFrames(c) /\ OutFrames(c) \in Nat
<1>1. PICK h \in Nat, t \in Nat : h = InFrames(c.head) /\ t = InFrames(c.tail)
  BY ClipIs
<1>2. OutFrames(c) \in Nat /\ Resampled(c) = OutFrames(c)
  BY LengthsAgree DEF Probes
<1>3. PICK o \in Nat : o = OutFrames(c) /\ h + t < o
  BY <1>1, <1>2 DEF Probes
<1>4. KeepEnd(c) = o - t /\ Kept(c) = (o - t) - h
  BY <1>1, <1>3 DEF KeepEnd, Kept
<1> QED
  BY <1>1, <1>2, <1>3, <1>4

(* Everything a clip gives fits the timeline. *)
LEMMA LengthHolds ==
    ASSUME NEW cs \in Seq(Clip), Sounds(cs)
    PROVE  /\ Length(cs) \in Nat
           /\ \A k \in DOMAIN cs : InFrames(cs[k].start) + Kept(cs[k]) <= Length(cs)
<1> DEFINE e == [k \in DOMAIN cs |-> InFrames(cs[k].start) + Kept(cs[k])]
           S == {0} \cup {e[k] : k \in DOMAIN cs}
<1>1. \A k \in DOMAIN cs : e[k] \in Nat
  <2> SUFFICES ASSUME NEW k \in DOMAIN cs PROVE e[k] \in Nat
    OBVIOUS
  <2>1. cs[k] \in Clip /\ Probes(cs[k])
    BY DEF Sounds
  <2>2. PICK a \in Nat, b \in Nat : a = InFrames(cs[k].start) /\ b = Kept(cs[k])
    BY <2>1, ClipIs, KeepEndIs
  <2> QED
    BY <2>2
<1>2. Length(cs) = Max(S)
  <2>1. {InFrames(cs[i].start) + Kept(cs[i]) : i \in DOMAIN cs} = {e[k] : k \in DOMAIN cs}
    OBVIOUS
  <2> QED
    BY <2>1 DEF Length
<1> HIDE DEF e
<1>3. IsFiniteSet({e[k] : k \in DOMAIN cs})
  <2>1. PICK n \in Nat : n = Len(cs) /\ DOMAIN cs = 1..n
    OBVIOUS
  <2>2. IsFiniteSet(1..n)
    BY FS_Interval
  <2> QED
    BY <2>1, <2>2, FiniteImage
<1>4. IsFiniteSet(S) /\ S \in SUBSET Int /\ S # {} /\ 0 \in S
  <2>1. S = {e[k] : k \in DOMAIN cs} \cup {0}
    OBVIOUS
  <2>2. IsFiniteSet(S)
    BY <1>3, <2>1, FS_AddElement
  <2>3. S \in SUBSET Int
    BY <1>1
  <2> QED
    BY <2>2, <2>3
<1>5. \A k \in DOMAIN cs : e[k] \in S
  OBVIOUS
<1>6. S \in SUBSET Nat
  BY <1>1
<1> HIDE DEF S
<1>7. \E m \in S : \A x \in S : m >= x
  BY <1>4, GreatestExists
<1>8. Max(S) \in S /\ \A x \in S : Max(S) >= x
  BY <1>7 DEF Max
<1>9. PICK m \in Nat : m = Max(S) /\ \A k \in DOMAIN cs : m >= e[k]
  BY <1>5, <1>6, <1>8
<1>10. \A k \in DOMAIN cs : e[k] <= m
  BY <1>1, <1>9
<1>11. \A k \in DOMAIN cs : InFrames(cs[k].start) + Kept(cs[k]) = e[k]
  BY DEF e
<1> QED
  BY <1>2, <1>9, <1>10, <1>11

(* One block more of clip k.                                                *)
LEMMA GivenGrows ==
    ASSUME NEW cs \in Seq(Clip), NEW k \in DOMAIN cs, NEW p \in Nat, NEW n \in Nat, NEW f,
           NEW A, A = Coming(cs, k, p, n, f)
    PROVE  AddedTo(cs, k, p + n, f) = AddedTo(cs, k, p, f) \cup A
<1>1. k <= Len(cs) /\ 1..p + n = (1..p) \cup (p + 1 .. p + n)
  OBVIOUS
<1>2. PICK a, b, c : a = 1..p /\ b = p + 1 .. p + n /\ c = 1..p + n /\ c = a \cup b
  BY <1>1
<1>3. Given(cs, k, p + n, f) = Given(cs, k, p, f) \cup A
  BY <1>2 DEF Given, Coming
<1> QED
  BY <1>1, <1>3 DEF AddedTo

LEMMA BlockIsOne ==
    ASSUME NEW cs \in Seq(Clip), NEW k \in DOMAIN cs, NEW p \in Nat, NEW n \in Nat, NEW f \in Int,
           NEW A, A = Coming(cs, k, p, n, f)
    PROVE  A = {} \/ \E x \in Pairs : A = {x} /\ x \notin AddedTo(cs, k, p, f)
<1>1. cs[k] \in Clip /\ k \in Nat
  OBVIOUS
<1>2. PICK h \in Nat, s \in Nat : h = InFrames(cs[k].head) /\ s = InFrames(cs[k].start)
  BY <1>1, ClipIs
<1>3. PICK I : I = {j \in {i \in p + 1 .. p + n : InFrames(cs[k].head) < i /\ i <= KeepEnd(cs[k])} : Placed(cs[k], j) = f}
  OBVIOUS
<1>4. A = {<<k, i>> : i \in I}
  BY <1>3 DEF Coming
<1>5. I \subseteq Nat /\ \A i \in I : i > p /\ s + i - h = f
  BY <1>2, <1>3 DEF Placed
<1>6. CASE I = {}
  BY <1>4, <1>6
<1>7. CASE I # {}
  <2>1. PICK i \in Nat : i \in I /\ i > p
    BY <1>5, <1>7
  <2>2. \A j \in I : j = i
    BY <1>5, <2>1
  <2>3. I = {i}
    BY <2>1, <2>2
  <2>4. A = {<<k, i>>} /\ <<k, i>> \in Pairs
    BY <1>1, <1>4, <2>3 DEF Pairs
  <2>5. <<k, i>> \notin Given(cs, k, p, f)
    BY <2>1 DEF Given
  <2>6. \A m \in 1..k - 1 : <<k, i>> \notin Whole(cs, m, f)
    <3>1. \A m \in 1..k - 1 : m # k
      BY <1>1
    <3> QED
      BY <3>1 DEF Whole, Given
  <2>7. <<k, i>> \notin Before(cs, k, f)
    BY <2>6 DEF Before
  <2> QED
    BY <2>4, <2>5, <2>7 DEF AddedTo
<1> QED
  BY <1>6, <1>7

LEMMA ListsBlock ==
    ASSUME NEW cs \in Seq(Clip), NEW k \in DOMAIN cs, NEW p \in Nat, NEW n \in Nat, NEW f \in Int,
           NEW A, A = Coming(cs, k, p, n, f),
           NEW s, Lists(s, AddedTo(cs, k, p, f))
    PROVE  Lists(s \o SetToSeq(A), AddedTo(cs, k, p + n, f))
<1>1. AddedTo(cs, k, p + n, f) = AddedTo(cs, k, p, f) \cup A
  BY GivenGrows
<1>2. CASE A = {}
  <2>1. s \o <<>> = s
    BY DEF Lists
  <2> QED
    BY <1>1, <1>2, <2>1, SequenceOfNone
<1>3. CASE A # {}
  <2>1. PICK x \in Pairs : A = {x} /\ x \notin AddedTo(cs, k, p, f)
    BY <1>3, BlockIsOne
  <2>2. Lists(s \o <<x>>, AddedTo(cs, k, p, f) \cup {x})
    BY <2>1, ListsMore
  <2>3. SetToSeq(A) = <<x>>
    BY <2>1, SequenceOfOne
  <2> QED
    BY <1>1, <2>1, <2>2, <2>3
<1> QED
  BY <1>2, <1>3

(* The next clip has given nothing yet.                                     *)
LEMMA NextClip ==
    ASSUME NEW cs \in Seq(Clip), NEW k \in DOMAIN cs, NEW f
    PROVE  AddedTo(cs, k + 1, 0, f) = AddedTo(cs, k, OutFrames(cs[k]), f)
<1>1. k \in Nat \ {0} /\ k <= Len(cs) /\ (k + 1) - 1 = k
  OBVIOUS
<1>2. 1..k = (1..k - 1) \cup {k}
  BY <1>1
<1>3. Before(cs, k + 1, f) = Before(cs, k, f) \cup Whole(cs, k, f)
  BY <1>1, <1>2 DEF Before
<1>4. Given(cs, k + 1, 0, f) = {}
  <2>1. 1..0 = {}
    OBVIOUS
  <2> QED
    BY <2>1 DEF Given
<1> QED
  BY <1>1, <1>3, <1>4 DEF AddedTo, Whole

LEMMA FirstClip == ASSUME NEW cs \in Seq(Clip), NEW f PROVE AddedTo(cs, 1, 0, f) = {}
<1>1. 1..0 = {} /\ 1 - 1 = 0
  OBVIOUS
<1> QED
  BY <1>1 DEF AddedTo, Before, Given

LEMMA LastClip ==
    ASSUME NEW cs \in Seq(Clip), NEW k, k = Len(cs) + 1, NEW p, NEW f
    PROVE  AddedTo(cs, k, p, f) = UNION {Whole(cs, m, f) : m \in DOMAIN cs}
<1>1. k - 1 = Len(cs) /\ ~(k <= Len(cs)) /\ DOMAIN cs = 1..Len(cs)
  OBVIOUS
<1> QED
  BY <1>1 DEF AddedTo, Before

LEMMA ContributedIs ==
    ASSUME clips \in Seq(Clip), NEW k \in DOMAIN clips, NEW f
    PROVE  Contributed(k, f) = Whole(clips, k, f)
BY DEF Contributed, Whole, Given, KeepEnd, Placed

-----------------------------------------------------------------------------
(* The invariant of a mix. *)
Laying(cs, k, p, t) ==
    /\ Sounds(cs) /\ k \in 1..Len(cs) + 1
    /\ k <= Len(cs) => p <= OutFrames(cs[k])
    /\ DOMAIN t = 1..Length(cs) /\ Len(t) = Length(cs)
    /\ \A f \in 1..Length(cs) : Lists(t[f], AddedTo(cs, k, p, f))

Exact(cs, w) ==
    /\ Sounds(cs) /\ DOMAIN w = 1..Length(cs) /\ Len(w) = Length(cs)
    /\ \A f \in 1..Length(cs) : /\ Lists(w[f].of, UNION {Whole(cs, m, f) : m \in DOMAIN cs})
                                /\ Len(w[f].of) <= w[f].over

MixInv ==
    /\ clips \in Seq(Clip) /\ clip \in Nat /\ position \in Nat
    /\ mixing = "probe" => clip \in 1..Len(clips) + 1 /\ \A k \in 1..clip - 1 : Probes(clips[k])
    /\ mixing = "mix" => Laying(clips, clip, position, timeline)
    /\ mixing = "mixed" => Exact(clips, wav)

Excused == mixing = "mix" /\ mixing' = "failed" => cancelled \/ replaced # {}
SameStory == clips' = clips /\ cancelled' = cancelled /\ replaced' = replaced

LEMMA MixStarts == MixInit \/ NoMix => MixInv
<1>1. ASSUME MixInit PROVE MixInv
  <2>1. clips \in Seq(Clip) /\ clip = 1 /\ position = 0 /\ mixing = "probe"
    BY <1>1, MixAssumption DEF MixInit
  <2>2. 1 \in 1..Len(clips) + 1 /\ 1..1 - 1 = {}
    BY <2>1
  <2> QED
    BY <2>1, <2>2 DEF MixInv
<1>2. ASSUME NoMix PROVE MixInv
  BY <1>2, EmptySeq DEF NoMix, MixInv
<1> QED
  BY <1>1, <1>2

LEMMA MixHolds == MixInv => MixIsExact
<1> SUFFICES ASSUME MixInv, mixing = "mixed" PROVE MixIsExact
  BY DEF MixIsExact
<1>1. clips \in Seq(Clip) /\ Exact(clips, wav)
  BY DEF MixInv
<1>2. Len(wav) = Length(clips) /\ DOMAIN wav = 1..Length(clips)
  BY <1>1 DEF Exact
<1>3. ASSUME NEW f \in DOMAIN wav
      PROVE  /\ ToSet(wav[f].of) = UNION {Contributed(k, f) : k \in DOMAIN clips}
             /\ Len(wav[f].of) = Cardinality(ToSet(wav[f].of))
             /\ Len(wav[f].of) <= wav[f].over
  <2>1. Lists(wav[f].of, UNION {Whole(clips, m, f) : m \in DOMAIN clips}) /\ Len(wav[f].of) <= wav[f].over
    BY <1>1, <1>2 DEF Exact
  <2>2. \A m \in DOMAIN clips : Contributed(m, f) = Whole(clips, m, f)
    BY <1>1, ContributedIs
  <2>3. {Contributed(m, f) : m \in DOMAIN clips} = {Whole(clips, m, f) : m \in DOMAIN clips}
    BY <2>2
  <2> QED
    BY <2>1, <2>3 DEF Lists
<1> QED
  BY <1>2, <1>3 DEF MixIsExact

LEMMA MixFailKeeps == MixInv /\ Fail /\ SameStory => MixInv'
BY DEF MixInv, Fail, SameStory

LEMMA ProbeKeeps ==
    ASSUME MixInv, Probe \/ Unreadable, SameStory
    PROVE  MixInv' /\ Excused
<1>1. mixing = "probe" /\ clip <= Len(clips) /\ Excused
  BY DEF Probe, Unreadable, Excused
<1>2. CASE Fail
  BY <1>1, <1>2, MixFailKeeps
<1>3. CASE ~Fail
  <2>1. Probes(clips[clip]) /\ clip' = clip + 1 /\ mixing' = mixing /\ position' = position
    BY <1>3 DEF Probe, Unreadable
  <2>2. PICK cs, k : cs = clips /\ k = clip
    OBVIOUS
  <2>3. cs \in Seq(Clip) /\ k \in 1..Len(cs) /\ position \in Nat /\ \A m \in 1..k - 1 : Probes(cs[m])
    BY <1>1, <2>2 DEF MixInv
  <2>4. k + 1 \in Nat /\ k + 1 \in 1..Len(cs) + 1 /\ \A m \in 1..(k + 1) - 1 : m = k \/ m \in 1..k - 1
    BY <2>3
  <2>5. \A m \in 1..(k + 1) - 1 : Probes(cs[m])
    BY <2>1, <2>2, <2>3, <2>4
  <2>6. clips' = cs /\ clip' = k + 1 /\ mixing' = "probe" /\ position' = position
    BY <1>1, <2>1, <2>2 DEF SameStory
  <2> QED
    BY <1>1, <2>3, <2>4, <2>5, <2>6 DEF MixInv
<1> QED
  BY <1>2, <1>3

LEMMA ReserveKeeps ==
    ASSUME MixInv, Reserve, SameStory
    PROVE  MixInv' /\ Excused
<1>1. mixing = "probe" /\ clip > Len(clips) /\ Excused
  BY DEF Reserve, Excused
<1>2. CASE Fail
  BY <1>1, <1>2, MixFailKeeps
<1>3. CASE ~Fail
  <2>1. /\ mixing' = "mix" /\ clip' = 1 /\ position' = 0
        /\ timeline' = [i \in 1 .. Length(clips) |-> <<>>]
    BY <1>3 DEF Reserve
  <2>2. PICK cs, t : cs = clips /\ t = timeline'
    OBVIOUS
  <2>3. cs \in Seq(Clip) /\ Sounds(cs)
    <3>1. clips \in Seq(Clip) /\ clip - 1 = Len(clips) /\ \A k \in 1..clip - 1 : Probes(clips[k])
      BY <1>1 DEF MixInv
    <3> QED
      BY <2>2, <3>1 DEF Sounds
  <2>4. PICK L \in Nat : L = Length(cs)
    BY <2>3, LengthHolds
  <2>5. DOMAIN t = 1..L /\ Len(t) = L /\ \A f \in 1..L : t[f] = <<>>
    BY <2>1, <2>2, <2>4
  <2>6. \A f \in 1..L : Lists(t[f], AddedTo(cs, 1, 0, f))
    BY <2>3, <2>5, FirstClip, ListsEmpty
  <2>7. 1 \in 1..Len(cs) + 1 /\ (1 <= Len(cs) => 0 <= OutFrames(cs[1]))
    <3>1. 1 <= Len(cs) => cs[1] \in Clip /\ Probes(cs[1])
      BY <2>3 DEF Sounds
    <3> QED
      BY <2>3, <3>1, KeepEndIs
  <2>8. Laying(cs, 1, 0, t)
    BY <2>3, <2>4, <2>5, <2>6, <2>7 DEF Laying
  <2>9. clips' = cs
    BY <2>2 DEF SameStory
  <2> QED
    BY <1>1, <2>1, <2>2, <2>3, <2>8, <2>9 DEF MixInv
<1> QED
  BY <1>2, <1>3

(* No kept frame of a sound clip runs past the timeline.                    *)
LEMMA PlacedWithin ==
    ASSUME NEW cs \in Seq(Clip), Sounds(cs), NEW k \in DOMAIN cs, NEW i \in Nat, i <= KeepEnd(cs[k])
    PROVE  ~(Placed(cs[k], i) > Length(cs))
<1>1. cs[k] \in Clip /\ Probes(cs[k])
  BY DEF Sounds
<1>2. PICK s \in Nat, h \in Nat, e \in Nat, L \in Nat :
          s = InFrames(cs[k].start) /\ h = InFrames(cs[k].head) /\ e = KeepEnd(cs[k]) /\ L = Length(cs)
  BY <1>1, ClipIs, KeepEndIs, LengthHolds
<1>3. Kept(cs[k]) = e - h
  BY <1>1, <1>2, KeepEndIs
<1>4. s + (e - h) <= L
  BY <1>2, <1>3, LengthHolds
<1>5. Placed(cs[k], i) = s + i - h
  BY <1>2 DEF Placed
<1> QED
  BY <1>2, <1>4, <1>5

LEMMA MixBlockKeeps ==
    ASSUME MixInv, NEW n \in 1..BlockFrames, MixBlock(n), SameStory
    PROVE  MixInv' /\ Excused
<1>1. mixing = "mix" /\ clip <= Len(clips)
  BY DEF MixBlock
<1>2. PICK cs, k, p, t : cs = clips /\ k = clip /\ p = position /\ t = timeline
  OBVIOUS
<1>3. cs \in Seq(Clip) /\ p \in Nat /\ k \in Nat /\ Laying(cs, k, p, t)
  BY <1>1, <1>2 DEF MixInv
<1>4. n \in Nat /\ k \in DOMAIN cs /\ k <= Len(cs) /\ Sounds(cs)
  BY <1>1, <1>2, <1>3, MixAssumption DEF Laying
<1>5. cs[k] \in Clip /\ Probes(cs[k])
  BY <1>3, <1>4 DEF Sounds
<1>6. PICK L \in Nat : L = Length(cs) /\ DOMAIN t = 1..L /\ Len(t) = L
  BY <1>3, <1>4, LengthHolds DEF Laying
<1>7. PICK kept : kept = {i \in p + 1 .. p + n : InFrames(cs[k].head) < i /\ i <= KeepEnd(cs[k])}
  OBVIOUS
<1>8. ~(\E i \in kept : Placed(cs[k], i) > Len(t))
  <2>1. ASSUME NEW i \in kept PROVE ~(Placed(cs[k], i) > Length(cs))
    <3>1. i \in Nat /\ i <= KeepEnd(cs[k])
      BY <1>3, <1>4, <1>7
    <3> QED
      BY <1>3, <1>4, <3>1, PlacedWithin
  <2> QED
    BY <1>6, <2>1
<1>9. /\ p + n <= Resampled(cs[k])
      /\ timeline' = [f \in DOMAIN t |-> t[f] \o SetToSeq({<<k, i>> : i \in {j \in kept : Placed(cs[k], j) = f}})]
      /\ position' = p + n /\ mixing' = mixing /\ clip' = k
  BY <1>2, <1>7, <1>8 DEF MixBlock
<1>10. PICK u : u = timeline'
  OBVIOUS
<1>11. \A f \in 1..L : {<<k, i>> : i \in {j \in kept : Placed(cs[k], j) = f}} = Coming(cs, k, p, n, f)
  BY <1>7 DEF Coming
<1>12. u = [f \in 1..L |-> t[f] \o SetToSeq(Coming(cs, k, p, n, f))]
  BY <1>6, <1>9, <1>10, <1>11
<1>13. DOMAIN u = 1..L /\ Len(u) = L /\ \A f \in 1..L : u[f] = t[f] \o SetToSeq(Coming(cs, k, p, n, f))
  BY <1>12
<1>14. ASSUME NEW f \in 1..L PROVE Lists(u[f], AddedTo(cs, k, p + n, f))
  <2>1. PICK s, A : s = t[f] /\ A = Coming(cs, k, p, n, f)
    OBVIOUS
  <2>2. Lists(s, AddedTo(cs, k, p, f)) /\ f \in Int
    BY <1>3, <1>6, <2>1 DEF Laying
  <2>3. Lists(s \o SetToSeq(A), AddedTo(cs, k, p + n, f))
    BY <1>3, <1>4, <2>1, <2>2, ListsBlock
  <2> QED
    BY <1>13, <2>1, <2>3
<1>15. p + n <= OutFrames(cs[k]) /\ p + n \in Nat
  BY <1>3, <1>4, <1>5, <1>9, KeepEndIs
<1>16. k \in 1..Len(cs) + 1
  BY <1>3 DEF Laying
<1>17. Laying(cs, k, p + n, u)
  BY <1>4, <1>6, <1>13, <1>14, <1>15, <1>16 DEF Laying
<1>18. clips' = cs /\ mixing' = "mix"
  BY <1>1, <1>2, <1>9 DEF SameStory
<1> QED
  BY <1>3, <1>9, <1>10, <1>15, <1>17, <1>18 DEF MixInv, Excused

LEMMA ClipEndsKeeps ==
    ASSUME MixInv, ClipEnds, SameStory
    PROVE  MixInv' /\ Excused
<1>1. mixing = "mix" /\ clip <= Len(clips)
  BY DEF ClipEnds
<1>2. PICK cs, k, p, t : cs = clips /\ k = clip /\ p = position /\ t = timeline
  OBVIOUS
<1>3. cs \in Seq(Clip) /\ p \in Nat /\ k \in Nat /\ Laying(cs, k, p, t)
  BY <1>1, <1>2 DEF MixInv
<1>4. k \in DOMAIN cs /\ k <= Len(cs) /\ Sounds(cs)
  BY <1>1, <1>2, <1>3 DEF Laying
<1>5. cs[k] \in Clip /\ Probes(cs[k])
  BY <1>3, <1>4 DEF Sounds
<1>6. p = OutFrames(cs[k])
  BY <1>2, <1>5, KeepEndIs DEF ClipEnds
<1>7. clip' = k + 1 /\ position' = 0 /\ mixing' = "mix" /\ timeline' = t /\ clips' = cs
  BY <1>1, <1>2, <1>6 DEF ClipEnds, SameStory
<1>8. PICK L : L = Length(cs) /\ DOMAIN t = 1..L /\ Len(t) = L
  BY <1>3 DEF Laying
<1>9. \A f \in 1..L : Lists(t[f], AddedTo(cs, k + 1, 0, f))
  BY <1>3, <1>4, <1>6, <1>8, NextClip DEF Laying
<1>10. k + 1 \in 1..Len(cs) + 1 /\ (k + 1 <= Len(cs) => 0 <= OutFrames(cs[k + 1]))
  <2>1. k + 1 <= Len(cs) => cs[k + 1] \in Clip /\ Probes(cs[k + 1])
    BY <1>3, <1>4 DEF Sounds
  <2> QED
    BY <1>3, <1>4, <2>1, KeepEndIs
<1>11. Laying(cs, k + 1, 0, t)
  BY <1>4, <1>8, <1>9, <1>10 DEF Laying
<1> QED
  BY <1>3, <1>7, <1>11 DEF MixInv, Excused

(* The peak is no less than any frame. *)
LEMMA PeakIs ==
    ASSUME NEW L \in Nat, NEW t, t = timeline, DOMAIN t = 1..L, \A f \in 1..L : Len(t[f]) \in Nat,
           NEW f \in 1..L
    PROVE  Len(t[f]) <= Max({1, Peak})
<1> DEFINE e == [k \in 1..L |-> Len(t[k])]
           S == {e[k] : k \in 1..L}
<1>1. Peak = Max(S)
  <2>1. {Len(timeline[k]) : k \in DOMAIN timeline} = S
    OBVIOUS
  <2> QED
    BY <2>1 DEF Peak
<1>2. IsFiniteSet(S)
  <2>1. IsFiniteSet(1..L)
    BY FS_Interval
  <2> HIDE DEF e
  <2> QED
    BY <2>1, FiniteImage
<1>3. S \in SUBSET Nat /\ S \in SUBSET Int /\ Len(t[f]) \in S
  OBVIOUS
<1> HIDE DEF S
<1>4. \E m \in S : \A x \in S : m >= x
  BY <1>2, <1>3, GreatestExists
<1>5. Max(S) \in S /\ \A x \in S : Max(S) >= x
  BY <1>4 DEF Max
<1>6. PICK m \in Nat, l \in Nat : m = Max(S) /\ l = Len(t[f]) /\ m >= l
  BY <1>3, <1>5
<1>7. Max({1, m}) = IF 1 >= m THEN 1 ELSE m
  BY MaxOfTwo
<1>8. l <= Max({1, m})
  BY <1>6, <1>7
<1> QED
  BY <1>1, <1>6, <1>8

LEMMA WriteKeeps ==
    ASSUME MixInv, Write, SameStory
    PROVE  MixInv' /\ Excused
<1>1. mixing = "mix" /\ clip > Len(clips)
  BY DEF Write
<1>2. CASE Fail
  <2>1. cancelled
    BY <1>2 DEF Write, Fail
  <2> QED
    BY <1>2, <2>1, MixFailKeeps DEF Excused
<1>3. CASE ~Fail
  <2>1. PICK cs, k, p, t, w : cs = clips /\ k = clip /\ p = position /\ t = timeline /\ w = wav'
    OBVIOUS
  <2>2. cs \in Seq(Clip) /\ p \in Nat /\ k \in Nat /\ Laying(cs, k, p, t) /\ clips' = cs
    BY <1>1, <2>1 DEF MixInv, SameStory
  <2>3. k = Len(cs) + 1 /\ Sounds(cs)
    BY <1>1, <2>1, <2>2 DEF Laying
  <2>4. PICK L \in Nat : L = Length(cs) /\ DOMAIN t = 1..L /\ Len(t) = L
    BY <2>2, <2>3, LengthHolds DEF Laying
  <2>5. mixing' = "mixed" /\ clip' = k /\ position' = p
        /\ w = [f \in DOMAIN t |-> [of |-> t[f], over |-> Max({1, Peak})]]
    BY <1>3, <2>1 DEF Write
  <2>6. PICK o : o = Max({1, Peak})
    OBVIOUS
  <2>7. w = [f \in 1..L |-> [of |-> t[f], over |-> o]]
    BY <2>4, <2>5, <2>6
  <2>8. DOMAIN w = 1..L /\ Len(w) = L /\ \A f \in 1..L : w[f].of = t[f] /\ w[f].over = o
    BY <2>7
  <2>9. \A f \in 1..L : Lists(t[f], UNION {Whole(cs, m, f) : m \in DOMAIN cs})
    <3>1. \A f \in 1..L : AddedTo(cs, k, p, f) = UNION {Whole(cs, m, f) : m \in DOMAIN cs}
      BY <2>2, <2>3, LastClip
    <3> QED
      BY <2>2, <2>4, <3>1 DEF Laying
  <2>10. \A f \in 1..L : Len(t[f]) \in Nat
    BY <2>9 DEF Lists
  <2>11. \A f \in 1..L : Len(t[f]) <= o
    BY <2>1, <2>4, <2>6, <2>10, PeakIs
  <2>12. Exact(cs, w)
    BY <2>3, <2>4, <2>8, <2>9, <2>11 DEF Exact
  <2> QED
    BY <2>1, <2>2, <2>5, <2>12 DEF MixInv, Excused
<1> QED
  BY <1>2, <1>3

LEMMA UndecodableKeeps ==
    ASSUME MixInv, Undecodable, SameStory
    PROVE  MixInv' /\ Excused
<1>1. Fail /\ (cancelled \/ replaced # {})
  BY DEF Undecodable
<1> QED
  BY <1>1, MixFailKeeps DEF Excused

(* Every step of a mix keeps the invariant, and fails for a reason only. *)
LEMMA MixStep == MixInv /\ [MixNext]_mixVars => MixInv' /\ Excused
<1> SUFFICES ASSUME MixInv, [MixNext]_mixVars PROVE MixInv' /\ Excused
  OBVIOUS
<1>1. CASE SameStory /\ (Probe \/ Unreadable \/ Reserve \/ Undecodable \/ ClipEnds \/ Write)
  BY <1>1, ProbeKeeps, ReserveKeeps, UndecodableKeeps, ClipEndsKeeps, WriteKeeps
<1>2. CASE SameStory /\ \E n \in 1 .. BlockFrames : MixBlock(n)
  BY <1>2, MixBlockKeeps
<1>3. CASE MixCancel \/ \E k \in DOMAIN clips : Replace(k)
  <2>1. clips' = clips /\ mixing' = mixing /\ clip' = clip /\ position' = position /\ timeline' = timeline /\ wav' = wav
        /\ (mixing \in {"probe", "mix"})
    BY <1>3 DEF MixCancel, Replace, Mixing
  <2>2. MixInv'
    BY <2>1 DEF MixInv
  <2> QED
    BY <2>1, <2>2 DEF Excused
<1>4. CASE UNCHANGED mixVars
  <2>1. clips' = clips /\ mixing' = mixing /\ clip' = clip /\ position' = position /\ timeline' = timeline /\ wav' = wav
    BY <1>4 DEF mixVars
  <2>2. MixInv'
    BY <2>1 DEF MixInv
  <2> QED
    BY <2>1, <2>2 DEF Excused
<1> QED
  BY <1>1, <1>2, <1>3, <1>4 DEF MixNext, SameStory

-----------------------------------------------------------------------------
(* The theorems.  A pipeline that does not run keeps its initial state, of  *)
(* which its invariant holds too.                                           *)
PipelineInv == SplitInv /\ RenderInv /\ MixInv

LEMMA PipelineStarts == PipelineInit => PipelineInv
BY SplitStarts, RenderStarts, MixStarts DEF PipelineInit, PipelineInv

LEMMA SplitStutters == SplitInv /\ UNCHANGED splitVars => SplitInv'
BY DEF SplitInv, SplitTypes, SpokenSoFar, ShortChunks, splitVars

LEMMA PipelineStep == PipelineInv /\ [PipelineNext]_pipelineVars => PipelineInv' /\ Reason /\ Excused
<1> SUFFICES ASSUME PipelineInv, [PipelineNext]_pipelineVars PROVE PipelineInv' /\ Reason /\ Excused
  OBVIOUS
<1>1. SplitNext \/ UNCHANGED splitVars
  BY DEF PipelineNext, pipelineVars
<1>2. [RenderNext]_renderVars
  BY DEF PipelineNext, pipelineVars
<1>3. [MixNext]_mixVars
  BY DEF PipelineNext, pipelineVars
<1>4. SplitInv'
  BY <1>1, SplitStep, SplitStutters DEF PipelineInv
<1>5. RenderInv' /\ Reason
  BY <1>2, RenderStep DEF PipelineInv
<1>6. MixInv' /\ Excused
  BY <1>3, MixStep DEF PipelineInv
<1> QED
  BY <1>4, <1>5, <1>6 DEF PipelineInv

(* Of every behaviour of the pipelines: the chunks cut so far, each file of *)
(* a render and the timeline of a mix hold at every step what their         *)
(* invariant says, for every text, job and story.                           *)
THEOREM PipelineInvariant == PipelineSpec => []PipelineInv
<1>1. PipelineInit => PipelineInv
  BY PipelineStarts
<1>2. PipelineInv /\ [PipelineNext]_pipelineVars => PipelineInv'
  BY PipelineStep
<1> QED
  BY <1>1, <1>2, PTL DEF PipelineSpec

(* No chunking speaks a character of the text twice, leaves one out or      *)
(* moves it, whatever the text, its tags and its limit, and no chunk is     *)
(* empty or longer than the limit (split_text_into_chunks).                 *)
THEOREM TextIsPartitioned == PipelineSpec => []ChunksPartitionText
<1>1. PipelineInv => ChunksPartitionText
  BY SplitHolds DEF PipelineInv
<1> QED
  BY <1>1, PipelineInvariant, PTL

(* A finished render or mix holds every frame once, in its place and        *)
(* through every effect, for every chain, length, rate and trim and every   *)
(* size of block, overlap and guard that RenderAssumption allows.           *)
THEOREM RendersStayExact == PipelineSpec => []RendersAreExact
<1>1. PipelineInv => RendersAreExact
  BY RenderHolds, MixHolds DEF PipelineInv, RendersAreExact
<1> QED
  BY <1>1, PipelineInvariant, PTL

(* The workers' own consistency checks never refuse a sound source: what    *)
(* is computed beforehand is what the stages produce.                       *)
THEOREM StagesNeverDisagree == PipelineSpec => StagesAgree
<1>1. PipelineInv /\ [PipelineNext]_pipelineVars =>
        [(doing \in {"once", "stream", "spool", "normalize", "stage"} /\ doing' = "failed") =>
            stopped \/ ~Works(job)]_renderVars
  BY PipelineStep DEF Reason, AtWork
<1>2. PipelineInv /\ [PipelineNext]_pipelineVars =>
        [mixing = "mix" /\ mixing' = "failed" => cancelled \/ replaced # {}]_mixVars
  BY PipelineStep DEF Excused
<1>3. PipelineSpec => FailsForAReason
  BY <1>1, PipelineInvariant, PTL DEF PipelineSpec, FailsForAReason
<1>4. PipelineSpec => ProbedLengthsHold
  BY <1>2, PipelineInvariant, PTL DEF PipelineSpec, ProbedLengthsHold
<1> QED
  BY <1>3, <1>4 DEF StagesAgree

=============================================================================
