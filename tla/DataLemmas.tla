-------------------------------- MODULE DataLemmas --------------------------------
(* Sums of a function over a finite set: SumFunctionOnSet folds the values  *)
(* in an order nobody knows, and these lemmas say that it does not matter.  *)
EXTENDS Functions, FiniteSetTheorems, TLAPS

(* Induction, over sets instead of predicates.                              *)
LEMMA NatSetInduction ==
    ASSUME NEW T \in SUBSET Nat, 0 \in T, \A n \in T : n + 1 \in T
    PROVE  T = Nat
<1> SUFFICES ASSUME Nat \ T # {} PROVE FALSE
  OBVIOUS
<1>1. \E v \in Nat \ T : \A w \in Nat \ T : ~(<<w, v>> \in OpToRel(<, Nat))
  BY NatLessThanWellFounded, WFMin, Nat \ T \subseteq Nat
<1>2. \A v, w \in Nat : w < v => <<w, v>> \in OpToRel(<, Nat)
  BY DEF OpToRel
<1>3. PICK v \in Nat \ T : \A w \in Nat \ T : ~(w < v)
  BY <1>1, <1>2
<1>4. v # 0 /\ v - 1 \in Nat /\ v - 1 < v
  OBVIOUS
<1>5. v - 1 \in T
  BY <1>3, <1>4
<1>6. (v - 1) + 1 = v
  OBVIOUS
<1> QED
  BY <1>5, <1>6

LEMMA FiniteSetInduction ==
    ASSUME NEW S, IsFiniteSet(S), NEW C \in SUBSET SUBSET S,
           {} \in C, \A T \in C : \A x \in S \ T : T \cup {x} \in C
    PROVE  S \in C
<1> DEFINE N == {n \in Nat : \A T \in SUBSET S : Cardinality(T) = n => T \in C}
<1>1. \A T \in SUBSET S : IsFiniteSet(T) /\ Cardinality(T) \in Nat
  BY FS_Subset, FS_CardinalityType
<1>2. 0 \in N
  BY <1>1, FS_EmptySet
<1>3. ASSUME NEW n \in N PROVE n + 1 \in N
  <2> SUFFICES ASSUME NEW T \in SUBSET S, Cardinality(T) = n + 1 PROVE T \in C
    OBVIOUS
  <2>1. T # {}
    <3>1. n + 1 # 0
      OBVIOUS
    <3> QED
      BY <3>1, FS_EmptySet
  <2>2. PICK x \in T : TRUE
    BY <2>1
  <2>3. Cardinality(T \ {x}) = n
    BY <1>1, FS_RemoveElement
  <2>4. T \ {x} \in C /\ x \in S \ (T \ {x}) /\ (T \ {x}) \cup {x} = T
    BY <1>3, <2>2, <2>3
  <2> QED
    BY <2>4
<1>4. N = Nat
  <2> HIDE DEF N
  <2>1. N \in SUBSET Nat
    BY DEF N
  <2> QED
    BY <1>2, <1>3, <2>1, NatSetInduction
<1> QED
  BY <1>1, <1>4

-----------------------------------------------------------------------------
(* The recursive function behind the fold exists, and is only one.          *)
FoldFirst(s) == CHOOSE x \in s : TRUE
FoldStep(f, g, s) == IF s = {} THEN 0 ELSE f[FoldFirst(s)] + g[s \ {FoldFirst(s)}]
IsFold(f, S, g) == g = [s \in SUBSET S |-> FoldStep(f, g, s)]

LEMMA SumDef == ASSUME NEW f, NEW S PROVE SumFunctionOnSet(f, S) = (CHOOSE g : IsFold(f, S, g))[S]
BY DEF SumFunctionOnSet, FoldFunctionOnSet, MapThenFoldSet, IsFold, FoldStep, FoldFirst

LEMMA ChosenIsIn == ASSUME NEW s, s # {} PROVE FoldFirst(s) \in s
BY DEF FoldFirst

LEMMA FoldExists == ASSUME NEW f, NEW S, IsFiniteSet(S) PROVE \E g : IsFold(f, S, g)
<1> DEFINE Small(n) == {s \in SUBSET S : Cardinality(s) <= n}
           Made(n) == \E g : g = [s \in Small(n) |-> FoldStep(f, g, s)]
           N == {n \in Nat : Made(n)}
<1>1. \A T \in SUBSET S : IsFiniteSet(T) /\ Cardinality(T) \in Nat /\ Cardinality(T) <= Cardinality(S)
  BY FS_Subset, FS_CardinalityType
<1>2. 0 \in N
  <2>1. \A s \in Small(0) : s = {}
    BY <1>1, FS_EmptySet
  <2>2. [s \in Small(0) |-> 0] = [s \in Small(0) |-> FoldStep(f, [t \in Small(0) |-> 0], s)]
    BY <2>1 DEF FoldStep
  <2> QED
    BY <2>2
<1>3. ASSUME NEW n \in N PROVE n + 1 \in N
  <2>1. n \in Nat
    OBVIOUS
  <2>2. PICK g : g = [s \in Small(n) |-> FoldStep(f, g, s)]
    OBVIOUS
  <2> DEFINE h == [s \in Small(n + 1) |-> FoldStep(f, g, s)]
  <2>3. ASSUME NEW s \in Small(n + 1), s # {} PROVE s \ {FoldFirst(s)} \in Small(n)
    <3>1. FoldFirst(s) \in s
      BY <2>3, ChosenIsIn
    <3>2. Cardinality(s \ {FoldFirst(s)}) = Cardinality(s) - 1
      BY <3>1, <1>1, FS_RemoveElement
    <3> QED
      BY <3>2, <1>1, <2>1
  <2>4. \A s \in Small(n) : s \in Small(n + 1) /\ h[s] = g[s]
    <3> SUFFICES ASSUME NEW s \in Small(n) PROVE s \in Small(n + 1) /\ h[s] = g[s]
      OBVIOUS
    <3>1. s \in Small(n + 1)
      BY <1>1, <2>1
    <3>2. g[s] = FoldStep(f, g, s)
      BY <2>2
    <3> QED
      BY <3>1, <3>2
  <2>5. \A s \in Small(n + 1) : FoldStep(f, g, s) = FoldStep(f, h, s)
    BY <2>3, <2>4 DEF FoldStep
  <2>6. h = [s \in Small(n + 1) |-> FoldStep(f, h, s)]
    BY <2>5
  <2>7. Made(n + 1)
    <3> HIDE DEF h
    <3> QED
      BY <2>6
  <2> QED
    <3> HIDE DEF Made
    <3> QED
      BY <2>1, <2>7
<1>4. N = Nat
  <2> HIDE DEF N
  <2>1. N \in SUBSET Nat
    BY DEF N
  <2> QED
    BY <1>2, <1>3, <2>1, NatSetInduction
<1>5. Small(Cardinality(S)) = SUBSET S
  BY <1>1
<1>6. Cardinality(S) \in N
  BY <1>1, <1>4
<1> QED
  BY <1>5, <1>6 DEF IsFold

LEMMA FoldIsUnique ==
    ASSUME NEW f, NEW S, IsFiniteSet(S), NEW T \in SUBSET S, NEW g, NEW h, IsFold(f, S, g), IsFold(f, T, h)
    PROVE  g[T] = h[T]
<1> DEFINE N == {n \in Nat : \A s \in SUBSET T : Cardinality(s) = n => g[s] = h[s]}
<1>1. \A s \in SUBSET T : IsFiniteSet(s) /\ Cardinality(s) \in Nat /\ s \in SUBSET S
  BY FS_Subset, FS_CardinalityType
<1>2. \A s \in SUBSET T : g[s] = FoldStep(f, g, s) /\ h[s] = FoldStep(f, h, s)
  BY <1>1 DEF IsFold
<1>3. 0 \in N
  <2>1. \A s \in SUBSET T : Cardinality(s) = 0 => s = {}
    BY <1>1, FS_EmptySet
  <2> QED
    BY <2>1, <1>2 DEF FoldStep
<1>4. ASSUME NEW n \in N PROVE n + 1 \in N
  <2> SUFFICES ASSUME NEW s \in SUBSET T, Cardinality(s) = n + 1 PROVE g[s] = h[s]
    OBVIOUS
  <2>1. s # {}
    <3>1. n + 1 # 0
      OBVIOUS
    <3> QED
      BY <3>1, FS_EmptySet
  <2>2. FoldFirst(s) \in s
    BY <2>1, ChosenIsIn
  <2>3. Cardinality(s \ {FoldFirst(s)}) = n
    BY <1>1, <2>2, FS_RemoveElement
  <2>4. g[s \ {FoldFirst(s)}] = h[s \ {FoldFirst(s)}]
    BY <2>3
  <2> QED
    BY <1>2, <2>1, <2>4 DEF FoldStep
<1>5. N = Nat
  <2> HIDE DEF N
  <2>1. N \in SUBSET Nat
    BY DEF N
  <2> QED
    BY <1>3, <1>4, <2>1, NatSetInduction
<1> QED
  BY <1>1, <1>5

(* The sum in the order of the fold. *)
LEMMA SumUnfolds ==
    ASSUME NEW f, NEW S, IsFiniteSet(S)
    PROVE  SumFunctionOnSet(f, S) = IF S = {} THEN 0 ELSE f[FoldFirst(S)] + SumFunctionOnSet(f, S \ {FoldFirst(S)})
<1>1. PICK g : IsFold(f, S, g) /\ SumFunctionOnSet(f, S) = g[S]
  BY FoldExists, SumDef
<1>2. g[S] = FoldStep(f, g, S)
  BY <1>1 DEF IsFold
<1>3. CASE S = {}
  BY <1>1, <1>2, <1>3 DEF FoldStep
<1>4. CASE S # {}
  <2> DEFINE T == S \ {FoldFirst(S)}
  <2>1. IsFiniteSet(T) /\ T \in SUBSET S
    BY FS_Subset
  <2>2. PICK h : IsFold(f, T, h) /\ SumFunctionOnSet(f, T) = h[T]
    BY <2>1, FoldExists, SumDef
  <2>3. g[T] = h[T]
    BY <1>1, <2>1, <2>2, FoldIsUnique
  <2> QED
    BY <1>1, <1>2, <1>4, <2>2, <2>3 DEF FoldStep
<1> QED
  BY <1>3, <1>4

-----------------------------------------------------------------------------
(* What is known of a sum of integers. *)
LEMMA SumEmpty == ASSUME NEW f PROVE SumFunctionOnSet(f, {}) = 0
BY SumUnfolds, FS_EmptySet

LEMMA SumType ==
    ASSUME NEW D, NEW f \in [D -> Int], NEW S \in SUBSET D, IsFiniteSet(S)
    PROVE  SumFunctionOnSet(f, S) \in Int
<1> DEFINE N == {n \in Nat : \A T \in SUBSET S : Cardinality(T) = n => SumFunctionOnSet(f, T) \in Int}
<1>1. \A T \in SUBSET S : IsFiniteSet(T) /\ Cardinality(T) \in Nat
  BY FS_Subset, FS_CardinalityType
<1>2. 0 \in N
  <2>1. \A T \in SUBSET S : Cardinality(T) = 0 => T = {}
    BY <1>1, FS_EmptySet
  <2> QED
    BY <2>1, SumEmpty
<1>3. ASSUME NEW n \in N PROVE n + 1 \in N
  <2> SUFFICES ASSUME NEW T \in SUBSET S, Cardinality(T) = n + 1 PROVE SumFunctionOnSet(f, T) \in Int
    OBVIOUS
  <2>1. T # {}
    <3>1. n + 1 # 0
      OBVIOUS
    <3> QED
      BY <3>1, FS_EmptySet
  <2>2. FoldFirst(T) \in T
    BY <2>1, ChosenIsIn
  <2>3. Cardinality(T \ {FoldFirst(T)}) = n
    <3>1. Cardinality(T \ {FoldFirst(T)}) = Cardinality(T) - 1 /\ n \in Nat
      BY <1>1, <2>2, FS_RemoveElement
    <3> QED
      BY <3>1
  <2>4. SumFunctionOnSet(f, T \ {FoldFirst(T)}) \in Int
    BY <2>3
  <2>5. f[FoldFirst(T)] \in Int
    BY <2>2
  <2> QED
    BY <1>1, <2>1, <2>4, <2>5, SumUnfolds
<1>4. N = Nat
  <2> HIDE DEF N
  <2>1. N \in SUBSET Nat
    BY DEF N
  <2> QED
    BY <1>2, <1>3, <2>1, NatSetInduction
<1> QED
  BY <1>1, <1>4

(* Any element may be taken out first. *)
LEMMA SumTakes ==
    ASSUME NEW D, NEW f \in [D -> Int], NEW S \in SUBSET D, IsFiniteSet(S), NEW x \in S
    PROVE  SumFunctionOnSet(f, S) = f[x] + SumFunctionOnSet(f, S \ {x})
<1> DEFINE Takes(T) == \A y \in T : SumFunctionOnSet(f, T) = f[y] + SumFunctionOnSet(f, T \ {y})
           N == {n \in Nat : \A T \in SUBSET S : Cardinality(T) = n => Takes(T)}
<1>1. \A T \in SUBSET S : IsFiniteSet(T) /\ Cardinality(T) \in Nat /\ SumFunctionOnSet(f, T) \in Int
  <2>1. \A T \in SUBSET S : IsFiniteSet(T) /\ Cardinality(T) \in Nat /\ T \in SUBSET D
    BY FS_Subset, FS_CardinalityType
  <2> QED
    BY <2>1, SumType
<1>2. 0 \in N
  BY <1>1, FS_EmptySet
<1>3. ASSUME NEW n \in N PROVE n + 1 \in N
  <2> SUFFICES ASSUME NEW T \in SUBSET S, Cardinality(T) = n + 1, NEW y \in T
               PROVE  SumFunctionOnSet(f, T) = f[y] + SumFunctionOnSet(f, T \ {y})
    OBVIOUS
  <2> DEFINE c == FoldFirst(T)
  <2>1. c \in T
    BY ChosenIsIn
  <2>2. SumFunctionOnSet(f, T) = f[c] + SumFunctionOnSet(f, T \ {c})
    BY <1>1, SumUnfolds
  <2> HIDE DEF c
  <2>3. CASE y = c
    BY <2>2, <2>3
  <2>4. CASE y # c
    <3>1. \A z \in T : T \ {z} \in SUBSET S /\ Cardinality(T \ {z}) = n
      BY <1>1, FS_RemoveElement
    <3>2. \A z \in T : Takes(T \ {z})
      BY <3>1
    <3>3. SumFunctionOnSet(f, T \ {c}) = f[y] + SumFunctionOnSet(f, (T \ {c}) \ {y})
      BY <2>1, <2>4, <3>2
    <3>4. SumFunctionOnSet(f, T \ {y}) = f[c] + SumFunctionOnSet(f, (T \ {y}) \ {c})
      BY <2>1, <2>4, <3>2
    <3>5. (T \ {y}) \ {c} = (T \ {c}) \ {y}
      OBVIOUS
    <3>6. f[y] \in Int /\ f[c] \in Int /\ SumFunctionOnSet(f, (T \ {c}) \ {y}) \in Int
      BY <1>1, <2>1
    <3> DEFINE r == SumFunctionOnSet(f, (T \ {c}) \ {y})
    <3>7. SumFunctionOnSet(f, T) = f[c] + (f[y] + r) /\ SumFunctionOnSet(f, T \ {y}) = f[c] + r
      BY <2>2, <3>3, <3>4, <3>5
    <3> HIDE DEF r
    <3>8. f[y] \in Int /\ f[c] \in Int /\ r \in Int
      BY <3>6 DEF r
    <3>9. f[c] + (f[y] + r) = f[y] + (f[c] + r)
      BY <3>8
    <3> QED
      BY <3>7, <3>9
  <2> QED
    BY <2>3, <2>4
<1>4. N = Nat
  <2> HIDE DEF N
  <2>1. N \in SUBSET Nat
    BY DEF N
  <2> QED
    BY <1>2, <1>3, <2>1, NatSetInduction
<1> QED
  BY <1>1, <1>4

LEMMA SumAdds ==
    ASSUME NEW D, NEW f \in [D -> Int], NEW S \in SUBSET D, IsFiniteSet(S), NEW x \in D \ S
    PROVE  SumFunctionOnSet(f, S \cup {x}) = f[x] + SumFunctionOnSet(f, S)
<1>1. IsFiniteSet(S \cup {x}) /\ S \cup {x} \in SUBSET D /\ (S \cup {x}) \ {x} = S
  BY FS_AddElement
<1> QED
  BY <1>1, SumTakes

(* Greater values make a greater sum. *)
LEMMA SumGrows ==
    ASSUME NEW D, NEW f \in [D -> Int], NEW E, NEW g \in [E -> Int],
           NEW S \in SUBSET (D \cap E), IsFiniteSet(S), \A x \in S : f[x] <= g[x]
    PROVE  SumFunctionOnSet(f, S) <= SumFunctionOnSet(g, S)
<1> DEFINE C == {T \in SUBSET S : SumFunctionOnSet(f, T) <= SumFunctionOnSet(g, T)}
<1>1. \A T \in SUBSET S : /\ IsFiniteSet(T) /\ T \in SUBSET D /\ T \in SUBSET E
                          /\ SumFunctionOnSet(f, T) \in Int /\ SumFunctionOnSet(g, T) \in Int
  <2>1. \A T \in SUBSET S : IsFiniteSet(T) /\ T \in SUBSET D /\ T \in SUBSET E
    BY FS_Subset
  <2> QED
    BY <2>1, SumType
<1>2. {} \in C
  BY SumEmpty
<1>3. ASSUME NEW T \in C, NEW x \in S \ T PROVE T \cup {x} \in C
  <2>1. T \in SUBSET S /\ SumFunctionOnSet(f, T) <= SumFunctionOnSet(g, T) /\ x \in D \ T /\ x \in E \ T
    OBVIOUS
  <2>2. SumFunctionOnSet(f, T \cup {x}) = f[x] + SumFunctionOnSet(f, T)
    BY <1>1, <2>1, SumAdds
  <2>3. SumFunctionOnSet(g, T \cup {x}) = g[x] + SumFunctionOnSet(g, T)
    BY <1>1, <2>1, SumAdds
  <2>4. f[x] \in Int /\ g[x] \in Int /\ f[x] <= g[x]
    OBVIOUS
  <2> QED
    BY <1>1, <2>1, <2>2, <2>3, <2>4
<1>4. S \in C
  <2> HIDE DEF C
  <2>1. C \in SUBSET SUBSET S
    BY DEF C
  <2> QED
    BY <1>2, <1>3, <2>1, FiniteSetInduction
<1> QED
  BY <1>4

(* Equal values make an equal sum. *)
LEMMA SumEquals ==
    ASSUME NEW D, NEW f \in [D -> Int], NEW E, NEW g \in [E -> Int],
           NEW S \in SUBSET (D \cap E), IsFiniteSet(S), \A x \in S : f[x] = g[x]
    PROVE  SumFunctionOnSet(f, S) = SumFunctionOnSet(g, S)
<1>1. SumFunctionOnSet(f, S) \in Int /\ SumFunctionOnSet(g, S) \in Int
  BY SumType
<1>2. \A x \in S : f[x] <= g[x] /\ g[x] <= f[x]
  OBVIOUS
<1>3. SumFunctionOnSet(f, S) <= SumFunctionOnSet(g, S)
  BY <1>2, SumGrows
<1>4. SumFunctionOnSet(g, S) <= SumFunctionOnSet(f, S)
  BY <1>2, SumGrows
<1> QED
  BY <1>1, <1>3, <1>4

(* One value has changed. *)
LEMMA SumChanges ==
    ASSUME NEW D, NEW f \in [D -> Int], NEW g \in [D -> Int], NEW S \in SUBSET D, IsFiniteSet(S),
           NEW x \in S, \A y \in S \ {x} : f[y] = g[y]
    PROVE  SumFunctionOnSet(g, S) = SumFunctionOnSet(f, S) - f[x] + g[x]
<1>1. IsFiniteSet(S \ {x}) /\ S \ {x} \in SUBSET D
  BY FS_RemoveElement
<1>2. SumFunctionOnSet(f, S \ {x}) = SumFunctionOnSet(g, S \ {x})
  BY <1>1, SumEquals
<1>3. SumFunctionOnSet(f, S) = f[x] + SumFunctionOnSet(f, S \ {x})
  BY SumTakes
<1>4. SumFunctionOnSet(g, S) = g[x] + SumFunctionOnSet(g, S \ {x})
  BY SumTakes
<1>5. f[x] \in Int /\ g[x] \in Int /\ SumFunctionOnSet(f, S \ {x}) \in Int
  BY <1>1, SumType
<1> QED
  BY <1>2, <1>3, <1>4, <1>5

(* Nothing negative, no negative sum, and every value is at most the sum.   *)
LEMMA SumOfNats ==
    ASSUME NEW D, NEW f \in [D -> Int], NEW S \in SUBSET D, IsFiniteSet(S), \A x \in S : f[x] >= 0
    PROVE  SumFunctionOnSet(f, S) \in Nat /\ \A x \in S : f[x] <= SumFunctionOnSet(f, S)
<1> DEFINE C == {T \in SUBSET S : SumFunctionOnSet(f, T) >= 0}
<1>1. \A T \in SUBSET S : IsFiniteSet(T) /\ T \in SUBSET D /\ SumFunctionOnSet(f, T) \in Int
  <2>1. \A T \in SUBSET S : IsFiniteSet(T) /\ T \in SUBSET D
    BY FS_Subset
  <2> QED
    BY <2>1, SumType
<1>2. {} \in C
  BY SumEmpty
<1>3. ASSUME NEW T \in C, NEW x \in S \ T PROVE T \cup {x} \in C
  <2>1. T \in SUBSET S /\ SumFunctionOnSet(f, T) >= 0 /\ x \in D \ T
    OBVIOUS
  <2>2. SumFunctionOnSet(f, T \cup {x}) = f[x] + SumFunctionOnSet(f, T)
    BY <1>1, <2>1, SumAdds
  <2>3. f[x] \in Int /\ f[x] >= 0
    OBVIOUS
  <2> QED
    BY <1>1, <2>1, <2>2, <2>3
<1>4. C = SUBSET S
  <2> SUFFICES ASSUME NEW T \in SUBSET S PROVE T \in C
    OBVIOUS
  <2> DEFINE B == C \cap SUBSET T
  <2>1. {} \in B /\ B \in SUBSET SUBSET T /\ \A U \in B : \A x \in T \ U : U \cup {x} \in B
    BY <1>2, <1>3
  <2>2. T \in B
    <3> HIDE DEF B
    <3> QED
      BY <1>1, <2>1, FiniteSetInduction
  <2> QED
    BY <2>2
<1>5. ASSUME NEW x \in S PROVE f[x] <= SumFunctionOnSet(f, S)
  <2>1. SumFunctionOnSet(f, S) = f[x] + SumFunctionOnSet(f, S \ {x})
    BY SumTakes
  <2>2. SumFunctionOnSet(f, S \ {x}) \in Int /\ SumFunctionOnSet(f, S \ {x}) >= 0 /\ f[x] \in Int
    BY <1>1, <1>4
  <2> QED
    BY <2>1, <2>2
<1> QED
  BY <1>1, <1>4, <1>5

(* Zeros add up to zero. *)
LEMMA SumOfZeros ==
    ASSUME NEW D, NEW f \in [D -> Int], NEW S \in SUBSET D, IsFiniteSet(S), \A x \in S : f[x] = 0
    PROVE  SumFunctionOnSet(f, S) = 0
<1> DEFINE C == {T \in SUBSET S : SumFunctionOnSet(f, T) = 0}
<1>1. {} \in C
  BY SumEmpty
<1>2. ASSUME NEW T \in C, NEW x \in S \ T PROVE T \cup {x} \in C
  <2>1. IsFiniteSet(T) /\ T \in SUBSET D /\ x \in D \ T
    BY FS_Subset
  <2>2. SumFunctionOnSet(f, T \cup {x}) = f[x] + SumFunctionOnSet(f, T)
    BY <2>1, SumAdds
  <2> QED
    BY <2>2
<1>3. S \in C
  <2> HIDE DEF C
  <2>1. C \in SUBSET SUBSET S
    BY DEF C
  <2> QED
    BY <1>1, <1>2, <2>1, FiniteSetInduction
<1> QED
  BY <1>3

(* One member comes or goes, or has another value. *)
LEMMA SumMoves ==
    ASSUME NEW D, NEW f \in [D -> Int], NEW g \in [D -> Int], NEW S \in SUBSET D, NEW T \in SUBSET D,
           IsFiniteSet(D), NEW x \in D, S \ {x} = T \ {x}, \A y \in S \ {x} : f[y] = g[y]
    PROVE  SumFunctionOnSet(g, T) =
              SumFunctionOnSet(f, S) - (IF x \in S THEN f[x] ELSE 0) + (IF x \in T THEN g[x] ELSE 0)
<1> DEFINE r == SumFunctionOnSet(f, S \ {x})
<1>1. IsFiniteSet(S) /\ IsFiniteSet(T) /\ IsFiniteSet(S \ {x}) /\ S \ {x} \in SUBSET D
  BY FS_Subset
<1>2. r = SumFunctionOnSet(g, T \ {x})
  BY <1>1, SumEquals
<1>3. r \in Int
  BY <1>1, SumType
<1> HIDE DEF r
<1>4. SumFunctionOnSet(f, S) = r + (IF x \in S THEN f[x] ELSE 0)
  <2>1. CASE x \in S
    <3>1. SumFunctionOnSet(f, S) = f[x] + r
      BY <1>1, <2>1, SumTakes DEF r
    <3> QED
      BY <1>3, <2>1, <3>1
  <2>2. CASE x \notin S
    <3>1. S \ {x} = S
      BY <2>2
    <3>2. SumFunctionOnSet(f, S) = r
      BY <3>1 DEF r
    <3> QED
      BY <1>3, <2>2, <3>2
  <2> QED
    BY <2>1, <2>2
<1>5. SumFunctionOnSet(g, T) = r + (IF x \in T THEN g[x] ELSE 0)
  <2>1. CASE x \in T
    <3>1. SumFunctionOnSet(g, T) = g[x] + SumFunctionOnSet(g, T \ {x})
      BY <1>1, <2>1, SumTakes
    <3> QED
      BY <1>2, <1>3, <2>1, <3>1
  <2>2. CASE x \notin T
    <3>1. T \ {x} = T
      BY <2>2
    <3> QED
      BY <1>2, <1>3, <2>2, <3>1
  <2> QED
    BY <2>1, <2>2
<1> QED
  BY <1>3, <1>4, <1>5

-----------------------------------------------------------------------------
(* The values of a function on a finite set: no more than its members. *)
LEMMA FiniteImage ==
    ASSUME NEW S, IsFiniteSet(S), NEW f
    PROVE  IsFiniteSet({f[x] : x \in S}) /\ Cardinality({f[x] : x \in S}) <= Cardinality(S)
<1> DEFINE Im(T) == {f[x] : x \in T}
           C == {T \in SUBSET S : IsFiniteSet(Im(T)) /\ Cardinality(Im(T)) <= Cardinality(T)}
<1>1. {} \in C
  <2>1. Im({}) = {}
    OBVIOUS
  <2>2. IsFiniteSet({}) /\ Cardinality({}) = 0 /\ 0 <= 0
    BY FS_EmptySet
  <2> HIDE DEF Im
  <2> QED
    BY <2>1, <2>2
<1>2. ASSUME NEW T \in C, NEW x \in S \ T PROVE T \cup {x} \in C
  <2>1. Im(T \cup {x}) = Im(T) \cup {f[x]}
    OBVIOUS
  <2>2. IsFiniteSet(Im(T)) /\ Cardinality(Im(T)) <= Cardinality(T) /\ IsFiniteSet(T)
    BY FS_Subset
  <2> HIDE DEF Im
  <2>3. IsFiniteSet(Im(T) \cup {f[x]})
    BY <2>2, FS_AddElement
  <2>4. PICK m \in Nat, n \in Nat : m = Cardinality(Im(T)) /\ n = Cardinality(T) /\ m <= n
    BY <2>2, FS_CardinalityType
  <2>5. Cardinality(T \cup {x}) = n + 1
    BY <2>2, <2>4, FS_AddElement
  <2>6. Cardinality(Im(T) \cup {f[x]}) \in {m, m + 1}
    BY <2>2, <2>4, FS_AddElement
  <2>7. m <= n + 1 /\ m + 1 <= n + 1
    BY <2>4
  <2> QED
    BY <2>1, <2>3, <2>5, <2>6, <2>7
<1>3. S \in C
  <2>1. C \in SUBSET SUBSET S
    OBVIOUS
  <2> HIDE DEF C
  <2> QED
    BY <1>1, <1>2, <2>1, FiniteSetInduction
<1> QED
  BY <1>3

-----------------------------------------------------------------------------
(* A finite set of integers has a greatest member. *)
LEMMA GreatestExists ==
    ASSUME NEW S \in SUBSET Int, IsFiniteSet(S), S # {}
    PROVE  \E m \in S : \A x \in S : m >= x
<1> DEFINE Greatest(T) == \E m \in T : \A x \in T : m >= x
           C == {T \in SUBSET S : T = {} \/ Greatest(T)}
<1>1. ASSUME NEW T \in C, NEW y \in S \ T PROVE T \cup {y} \in C
  <2>1. CASE T = {}
    BY <2>1
  <2>2. CASE T # {}
    <3>1. PICK m \in T : \A x \in T : m >= x
      BY <2>2
    <3>2. m \in Int /\ y \in Int /\ T \subseteq Int
      OBVIOUS
    <3>3. CASE m >= y
      BY <3>1, <3>3
    <3>4. CASE ~(m >= y)
      <4>1. \A x \in T : y >= x
        BY <3>1, <3>2, <3>4
      <4> QED
        BY <3>2, <4>1
    <3> QED
      BY <3>3, <3>4
  <2> QED
    BY <2>1, <2>2
<1>2. {} \in C /\ C \in SUBSET SUBSET S
  OBVIOUS
<1>3. S \in C
  <2> HIDE DEF C
  <2> QED
    BY <1>1, <1>2, FiniteSetInduction
<1> QED
  BY <1>3

(* The least number that is not taken is at most the number of those that   *)
(* are: what a search for a free name finds.                                *)
LEMMA LeastFree ==
    ASSUME NEW N \in SUBSET Nat, IsFiniteSet(N)
    PROVE  \E n \in 0..Cardinality(N) : n \notin N /\ \A k \in 0..n - 1 : k \in N
<1> DEFINE Found(n) == (\A k \in 0..n : k \in N) \/ \E m \in 0..n : m \notin N /\ \A k \in 0..m - 1 : k \in N
           T == {n \in Nat : Found(n)}
<1>1. Found(0)
  OBVIOUS
<1>2. ASSUME NEW n \in Nat, Found(n) PROVE Found(n + 1)
  <2>1. CASE \E m \in 0..n : m \notin N /\ \A k \in 0..m - 1 : k \in N
    BY <2>1
  <2>2. CASE \A k \in 0..n : k \in N
    <3>1. \A k \in 0..n + 1 : k \in 0..n \/ k = n + 1
      OBVIOUS
    <3>2. (n + 1) - 1 = n /\ n + 1 \in 0..n + 1
      OBVIOUS
    <3>3. CASE n + 1 \in N
      BY <2>2, <3>1, <3>3
    <3>4. CASE n + 1 \notin N
      BY <2>2, <3>2, <3>4
    <3> QED
      BY <3>3, <3>4
  <2> QED
    BY <1>2, <2>1, <2>2
<1>3. T = Nat
  <2>1. 0 \in T
    BY <1>1
  <2>2. \A n \in T : n + 1 \in T
    BY <1>2
  <2>3. T \in SUBSET Nat
    OBVIOUS
  <2> HIDE DEF T
  <2> QED
    BY <2>1, <2>2, <2>3, NatSetInduction
<1>4. PICK c \in Nat : c = Cardinality(N)
  BY FS_CardinalityType
<1>5. ~ \A k \in 0..c : k \in N
  <2>1. IsFiniteSet(0..c) /\ Cardinality(0..c) = c + 1
    BY FS_Interval
  <2>2. (0..c \subseteq N) => Cardinality(0..c) <= c
    BY <1>4, FS_Subset
  <2> QED
    BY <2>1, <2>2
<1> QED
  BY <1>3, <1>4, <1>5


=============================================================================
