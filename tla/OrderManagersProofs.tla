------------------------ MODULE OrderManagersProofs -------------------------
(* Proofs about OrderManagers, for any setups, strategies, limits and bounds: *)
(* no order stands beside one it replaces, a logical order has one open order *)
(* on record, and what the managers bring about passes the lineage contract.  *)
(* The decisions of the managers are folds over the projection.  Part one     *)
(* says of such folds what is in their result, by induction over the length   *)
(* (from the least element of a set of numbers).  Part two says what each     *)
(* manager asks for, part three what a submission and the venue leave behind, *)
(* and part four puts them together, one action of Next after the other.      *)
(* Part five does the same once more for the lineage contract: the record     *)
(* only grows, and what is appended to it passes.                             *)
EXTENDS OrderManagers, WellFoundedInduction, SequenceTheorems, FiniteSetTheorems, TLAPS

-----------------------------------------------------------------------------
(* Induction, as a fact about sets of numbers.                                *)
LEMMA LeastNumber ==
    ASSUME NEW T \in SUBSET Nat, T # {}
    PROVE  \E m \in T : \A k \in T : m <= k
<1> DEFINE R == OpToRel(<, Nat)
<1>1. IsWellFoundedOn(R, Nat)
  BY NatLessThanWellFounded, Zenon
<1>2. \A x, y \in Nat : x < y => <<x, y>> \in R
  BY DEF OpToRel
<1> HIDE DEF R
<1>3. PICK x \in T : \A y \in T : ~(<<y, x>> \in R)
  BY <1>1, WFMin, Zenon
<1>4. \A y \in T : ~(y < x)
  BY <1>2, <1>3, Zenon
<1>5. \A y \in T : x <= y
  BY <1>4
<1> QED
  BY <1>5, Zenon

LEMMA NumberInduction ==
    ASSUME NEW S \in SUBSET Nat, 0 \in S, \A n \in Nat : n \in S => n + 1 \in S
    PROVE  S = Nat
<1> SUFFICES ASSUME S # Nat PROVE FALSE
  OBVIOUS
<1>1. Nat \ S # {} /\ Nat \ S \in SUBSET Nat
  OBVIOUS
<1>2. PICK m \in Nat \ S : \A k \in Nat \ S : m <= k
  BY <1>1, LeastNumber, Zenon
<1>3. m # 0 /\ m - 1 \in Nat /\ m - 1 \in S
  BY <1>2
<1> QED
  BY <1>2, <1>3

-----------------------------------------------------------------------------
(* Sequences, whatever they are of.                                           *)
IsSequence(s) == \E S : s \in Seq(S)

LEMMA SequenceDomain ==
    ASSUME NEW s, IsSequence(s)
    PROVE  Len(s) \in Nat /\ DOMAIN s = 1..Len(s) /\ s \in Seq(ToSet(s))
<1> PICK S : s \in Seq(S)
  BY DEF IsSequence
<1>1. Len(s) \in Nat /\ DOMAIN s = 1..Len(s) /\ s = [i \in 1..Len(s) |-> s[i]]
  OBVIOUS
<1>2. \A i \in 1..Len(s) : s[i] \in ToSet(s)
  BY <1>1 DEF ToSet
<1>3. s \in [1..Len(s) -> ToSet(s)]
  BY <1>1, <1>2
<1> QED
  BY <1>1, <1>3, SeqDef

LEMMA FunctionIsSequence ==
    ASSUME NEW n \in Nat, NEW f, f = [i \in 1..n |-> f[i]]
    PROVE  IsSequence(f)
<1> DEFINE S == {f[i] : i \in 1..n}
<1>1. f \in [1..n -> S]
  OBVIOUS
<1>2. f \in Seq(S)
  BY <1>1, SeqDef
<1> QED
  BY <1>2 DEF IsSequence

LEMMA ConcatIsSequence ==
    ASSUME NEW s, NEW t, IsSequence(s), IsSequence(t)
    PROVE  IsSequence(s \o t) /\ ToSet(s \o t) = ToSet(s) \cup ToSet(t)
<1>1. PICK S : s \in Seq(S)
  BY DEF IsSequence
<1>2. PICK T : t \in Seq(T)
  BY DEF IsSequence
<1>3. s \in Seq(S \cup T) /\ t \in Seq(S \cup T)
  BY <1>1, <1>2
<1>4. s \o t \in Seq(S \cup T)
  BY <1>3
<1>5. /\ Len(s \o t) = Len(s) + Len(t) /\ Len(s) \in Nat /\ Len(t) \in Nat
      /\ DOMAIN s = 1..Len(s) /\ DOMAIN t = 1..Len(t) /\ DOMAIN (s \o t) = 1..Len(s \o t)
      /\ \A i \in 1..Len(s) : (s \o t)[i] = s[i]
      /\ \A i \in 1..(Len(s) + Len(t)) : i > Len(s) => (s \o t)[i] = t[i - Len(s)]
  BY <1>3
<1>6. ToSet(s \o t) \subseteq ToSet(s) \cup ToSet(t)
  BY <1>5 DEF ToSet
<1>7. ToSet(s) \subseteq ToSet(s \o t)
  BY <1>5 DEF ToSet
<1>8. ASSUME NEW i \in 1..Len(t)
      PROVE  t[i] \in ToSet(s \o t)
  <2>1. Len(s) + i \in 1..(Len(s) + Len(t)) /\ Len(s) + i > Len(s) /\ (Len(s) + i) - Len(s) = i
    BY <1>5
  <2>2. (s \o t)[Len(s) + i] = t[i]
    BY <1>5, <2>1
  <2> QED
    BY <1>5, <2>1, <2>2 DEF ToSet
<1>9. ToSet(t) \subseteq ToSet(s \o t)
  BY <1>5, <1>8 DEF ToSet
<1> QED
  BY <1>4, <1>6, <1>7, <1>9 DEF IsSequence

LEMMA AppendOne ==
    ASSUME NEW s, IsSequence(s), NEW c
    PROVE  IsSequence(Append(s, c)) /\ ToSet(Append(s, c)) = ToSet(s) \cup {c}
<1>1. PICK S : s \in Seq(S)
  BY DEF IsSequence
<1>2. s \in Seq(S \cup {c})
  BY <1>1
<1>3. /\ Append(s, c) \in Seq(S \cup {c}) /\ Len(s) \in Nat
      /\ DOMAIN s = 1..Len(s)
      /\ DOMAIN Append(s, c) = 1..(Len(s) + 1)
      /\ \A i \in 1..Len(s) : Append(s, c)[i] = s[i]
      /\ Append(s, c)[Len(s) + 1] = c
  BY <1>2
<1>4. ToSet(Append(s, c)) \subseteq ToSet(s) \cup {c}
  BY <1>3 DEF ToSet
<1>5. ToSet(s) \subseteq ToSet(Append(s, c))
  BY <1>3 DEF ToSet
<1>6. c \in ToSet(Append(s, c))
  <2>1. Len(s) + 1 \in 1..(Len(s) + 1)
    BY <1>3
  <2> QED
    BY <1>3, <2>1 DEF ToSet
<1> QED
  BY <1>3, <1>4, <1>5, <1>6 DEF IsSequence

LEMMA OneElement ==
    ASSUME NEW c
    PROVE  IsSequence(<<c>>) /\ ToSet(<<c>>) = {c}
<1>1. <<c>> \in Seq({c})
  OBVIOUS
<1>2. ToSet(<<c>>) = {c}
  BY DEF ToSet
<1> QED
  BY <1>1, <1>2 DEF IsSequence

LEMMA NoElement == IsSequence(<< >>) /\ ToSet(<< >>) = {}
<1>1. << >> \in Seq({})
  OBVIOUS
<1>2. ToSet(<< >>) = {}
  BY DEF ToSet
<1> QED
  BY <1>1, <1>2 DEF IsSequence

-----------------------------------------------------------------------------
(* Flat puts the sequences of s one after the other.                          *)
FlatFold(s, n, f) ==
    [T \in SUBSET (1..n) |-> IF T = {} THEN << >> ELSE Join(f[T \ {Max(T)}], s[Max(T)])]

LEMMA GreatestOfInterval ==
    ASSUME NEW n \in Nat, NEW T \in SUBSET (1..n), n \in T
    PROVE  Max(T) = n
<1>1. \A y \in T : n >= y
  OBVIOUS
<1>2. \A x \in T : (\A y \in T : x >= y) => x = n
  OBVIOUS
<1> QED
  BY <1>1, <1>2 DEF Max

LEMMA FlatFoldExists ==
    ASSUME NEW s
    PROVE  \A n \in Nat : \E f : f = FlatFold(s, n, f)
<1> DEFINE S == {n \in Nat : \E f : f = FlatFold(s, n, f)}
<1>1. 0 \in S
  <2> DEFINE f == [T \in SUBSET (1..0) |-> << >>]
  <2>1. \A T \in SUBSET (1..0) : T = {}
    OBVIOUS
  <2>2. f = FlatFold(s, 0, f)
    BY <2>1 DEF FlatFold
  <2> QED
    BY <2>2
<1>2. ASSUME NEW n \in Nat, n \in S
      PROVE  n + 1 \in S
  <2>1. PICK g : g = FlatFold(s, n, g)
    BY <1>2
  <2> DEFINE f == [T \in SUBSET (1..(n + 1)) |->
                     IF n + 1 \in T THEN Join(g[T \ {n + 1}], s[n + 1]) ELSE g[T]]
  <2>2. \A T \in SUBSET (1..(n + 1)) : n + 1 \in T => Max(T) = n + 1
    BY GreatestOfInterval
  <2>3. \A T \in SUBSET (1..(n + 1)) : T \in SUBSET (1..n) <=> n + 1 \notin T
    OBVIOUS
  <2>4. \A T \in SUBSET (1..n) : f[T] = g[T]
    OBVIOUS
  <2>5. ASSUME NEW T \in SUBSET (1..(n + 1))
        PROVE  f[T] = IF T = {} THEN << >> ELSE Join(f[T \ {Max(T)}], s[Max(T)])
    <3>1. CASE n + 1 \in T
      <4>1. T \ {n + 1} \in SUBSET (1..n)
        OBVIOUS
      <4>2. f[T] = Join(g[T \ {n + 1}], s[n + 1])
        BY <3>1
      <4>3. f[T \ {n + 1}] = g[T \ {n + 1}]
        BY <2>4, <4>1
      <4>4. Max(T) = n + 1 /\ T # {}
        BY <2>2, <3>1
      <4> HIDE DEF f
      <4> QED
        BY <4>2, <4>3, <4>4
    <3>2. CASE n + 1 \notin T
      <4>0. T \in SUBSET (1..n)
        BY <2>3, <3>2
      <4>1. T \in SUBSET (1..n) /\ T \ {Max(T)} \in SUBSET (1..n)
        BY <4>0
      <4>2. g[T] = IF T = {} THEN << >> ELSE Join(g[T \ {Max(T)}], s[Max(T)])
        BY <2>1, <4>1 DEF FlatFold
      <4> HIDE DEF f
      <4> QED
        BY <2>4, <4>1, <4>2
    <3> QED
      BY <3>1, <3>2
  <2>6. f = FlatFold(s, n + 1, f)
    BY <2>5 DEF FlatFold
  <2> QED
    BY <2>6
<1> HIDE DEF S
<1>3. S = Nat
  <2>1. S \in SUBSET Nat
    BY DEF S
  <2> QED
    BY <1>1, <1>2, <2>1, NumberInduction
<1> QED
  BY <1>3 DEF S

LEMMA FlatSteps ==
    ASSUME NEW s, NEW n \in Nat, DOMAIN s = 1..n
    PROVE  \E g : /\ g[0] = << >>
                  /\ \A k \in 1..n : g[k] = Join(g[k - 1], s[k])
                  /\ Flat(s) = g[n]
<1> DEFINE f == CHOOSE f : f = FlatFold(s, n, f)
<1> DEFINE g == [k \in 0..n |-> f[1..k]]
<1>1. Flat(s) = f[1..n]
  BY Zenon DEF Flat, FoldLeft, MapThenFoldSet, FlatFold
<1>2. f = FlatFold(s, n, f)
  BY FlatFoldExists, Zenon
<1> HIDE DEF f
<1>3. g[0] = << >>
  <2>1. 1..0 = {} /\ 1..0 \in SUBSET (1..n)
    OBVIOUS
  <2>2. f[1..0] = << >>
    BY <1>2, <2>1 DEF FlatFold
  <2> QED
    BY <2>2
<1>4. ASSUME NEW k \in 1..n
      PROVE  g[k] = Join(g[k - 1], s[k])
  <2>1. 1..k \in SUBSET (1..n) /\ k \in 1..k
    OBVIOUS
  <2>2. Max(1..k) = k
    BY GreatestOfInterval
  <2>3. (1..k) \ {k} = 1..(k - 1)
    OBVIOUS
  <2>4. f[1..k] = Join(f[(1..k) \ {Max(1..k)}], s[Max(1..k)])
    <3>1. 1..k # {}
      BY <2>1
    <3> QED
      BY <1>2, <2>1, <3>1 DEF FlatFold
  <2>5. f[1..k] = Join(f[1..(k - 1)], s[k])
    BY <2>2, <2>3, <2>4
  <2>6. g[k] = f[1..k] /\ g[k - 1] = f[1..(k - 1)]
    OBVIOUS
  <2> QED
    BY <2>5, <2>6
<1>5. g[n] = f[1..n]
  OBVIOUS
<1> HIDE DEF g
<1> QED
  BY <1>1, <1>3, <1>4, <1>5

-----------------------------------------------------------------------------
(* Seeded takes the operator's commands one after the other.                  *)
SeedFold(s, n, f) ==
    [T \in SUBSET (1..n) |-> IF T = {} THEN EmptyTruth ELSE Seed(f[T \ {Max(T)}], s[Max(T)])]

LEMMA SeedFoldExists ==
    ASSUME NEW s
    PROVE  \A n \in Nat : \E f : f = SeedFold(s, n, f)
<1> DEFINE S == {n \in Nat : \E f : f = SeedFold(s, n, f)}
<1>1. 0 \in S
  <2> DEFINE f == [T \in SUBSET (1..0) |-> EmptyTruth]
  <2>1. \A T \in SUBSET (1..0) : T = {}
    OBVIOUS
  <2>2. f = SeedFold(s, 0, f)
    BY <2>1 DEF SeedFold
  <2> QED
    BY <2>2
<1>2. ASSUME NEW n \in Nat, n \in S
      PROVE  n + 1 \in S
  <2>1. PICK g : g = SeedFold(s, n, g)
    BY <1>2
  <2> DEFINE f == [T \in SUBSET (1..(n + 1)) |->
                     IF n + 1 \in T THEN Seed(g[T \ {n + 1}], s[n + 1]) ELSE g[T]]
  <2>2. \A T \in SUBSET (1..(n + 1)) : n + 1 \in T => Max(T) = n + 1
    BY GreatestOfInterval
  <2>3. \A T \in SUBSET (1..(n + 1)) : T \in SUBSET (1..n) <=> n + 1 \notin T
    OBVIOUS
  <2>4. \A T \in SUBSET (1..n) : f[T] = g[T]
    OBVIOUS
  <2>5. ASSUME NEW T \in SUBSET (1..(n + 1))
        PROVE  f[T] = IF T = {} THEN EmptyTruth ELSE Seed(f[T \ {Max(T)}], s[Max(T)])
    <3>1. CASE n + 1 \in T
      <4>1. T \ {n + 1} \in SUBSET (1..n)
        OBVIOUS
      <4>2. f[T] = Seed(g[T \ {n + 1}], s[n + 1])
        BY <3>1
      <4>3. f[T \ {n + 1}] = g[T \ {n + 1}]
        BY <2>4, <4>1
      <4>4. Max(T) = n + 1 /\ T # {}
        BY <2>2, <3>1
      <4> HIDE DEF f
      <4> QED
        BY <4>2, <4>3, <4>4
    <3>2. CASE n + 1 \notin T
      <4>0. T \in SUBSET (1..n)
        BY <2>3, <3>2
      <4>1. T \in SUBSET (1..n) /\ T \ {Max(T)} \in SUBSET (1..n)
        BY <4>0
      <4>2. g[T] = IF T = {} THEN EmptyTruth ELSE Seed(g[T \ {Max(T)}], s[Max(T)])
        BY <2>1, <4>1 DEF SeedFold
      <4> HIDE DEF f
      <4> QED
        BY <2>4, <4>1, <4>2
    <3> QED
      BY <3>1, <3>2
  <2>6. f = SeedFold(s, n + 1, f)
    BY <2>5 DEF SeedFold
  <2> QED
    BY <2>6
<1> HIDE DEF S
<1>3. S = Nat
  <2>1. S \in SUBSET Nat
    BY DEF S
  <2> QED
    BY <1>1, <1>2, <2>1, NumberInduction
<1> QED
  BY <1>3 DEF S

LEMMA SeededSteps ==
    ASSUME NEW s, s = Seeds, NEW n \in Nat, DOMAIN s = 1..n
    PROVE  \E g : /\ g[0] = EmptyTruth
                  /\ \A k \in 1..n : g[k] = Seed(g[k - 1], s[k])
                  /\ Seeded = g[n]
<1> DEFINE f == CHOOSE f : f = SeedFold(s, n, f)
<1> DEFINE g == [k \in 0..n |-> f[1..k]]
<1>1. Seeded = f[1..n]
  BY Zenon DEF Seeded, FoldLeft, MapThenFoldSet, SeedFold
<1>2. f = SeedFold(s, n, f)
  BY SeedFoldExists, Zenon
<1> HIDE DEF f
<1>3. g[0] = EmptyTruth
  <2>1. 1..0 = {} /\ 1..0 \in SUBSET (1..n)
    OBVIOUS
  <2>2. f[1..0] = EmptyTruth
    BY <1>2, <2>1 DEF SeedFold
  <2> QED
    BY <2>2
<1>4. ASSUME NEW k \in 1..n
      PROVE  g[k] = Seed(g[k - 1], s[k])
  <2>1. 1..k \in SUBSET (1..n) /\ k \in 1..k
    OBVIOUS
  <2>2. Max(1..k) = k
    BY GreatestOfInterval
  <2>3. (1..k) \ {k} = 1..(k - 1)
    OBVIOUS
  <2>4. f[1..k] = Seed(f[(1..k) \ {Max(1..k)}], s[Max(1..k)])
    <3>1. 1..k # {}
      BY <2>1
    <3> QED
      BY <1>2, <2>1, <3>1 DEF SeedFold
  <2>5. f[1..k] = Seed(f[1..(k - 1)], s[k])
    BY <2>2, <2>3, <2>4
  <2>6. g[k] = f[1..k] /\ g[k - 1] = f[1..(k - 1)]
    OBVIOUS
  <2> QED
    BY <2>5, <2>6
<1>5. g[n] = f[1..n]
  OBVIOUS
<1> HIDE DEF g
<1> QED
  BY <1>1, <1>3, <1>4, <1>5


-----------------------------------------------------------------------------
(* Position k of c lies in a copy of s[i] that begins after position d.       *)
At(c, s, k, i, d) ==
    /\ d \in Nat /\ k - d \in DOMAIN s[i]
    /\ \A m \in DOMAIN s[i] : d + m \in DOMAIN c /\ c[d + m] = s[i][m]
(* c is made of copies of sequences s[i], i in I, no two of the same.         *)
Blocks(c, s, I) ==
    /\ IsSequence(c)
    /\ \A k, l \in DOMAIN c : \E i, j \in I : \E d, e \in Nat :
          At(c, s, k, i, d) /\ At(c, s, l, j, e) /\ (i = j => d = e)

LEMMA ConcatParts ==
    ASSUME NEW s, NEW t, IsSequence(s), IsSequence(t)
    PROVE  /\ IsSequence(s \o t) /\ Len(s) \in Nat /\ Len(t) \in Nat
           /\ DOMAIN s = 1..Len(s) /\ DOMAIN t = 1..Len(t)
           /\ DOMAIN (s \o t) = 1..(Len(s) + Len(t))
           /\ \A i \in 1..Len(s) : (s \o t)[i] = s[i]
           /\ \A i \in 1..Len(t) : (s \o t)[Len(s) + i] = t[i]
<1>1. PICK S : s \in Seq(S)
  BY DEF IsSequence
<1>2. PICK T : t \in Seq(T)
  BY DEF IsSequence
<1>3. s \in Seq(S \cup T) /\ t \in Seq(S \cup T)
  BY <1>1, <1>2
<1>4. s \o t \in Seq(S \cup T)
  BY <1>3
<1>5. /\ Len(s \o t) = Len(s) + Len(t) /\ Len(s) \in Nat /\ Len(t) \in Nat
      /\ DOMAIN s = 1..Len(s) /\ DOMAIN t = 1..Len(t) /\ DOMAIN (s \o t) = 1..Len(s \o t)
      /\ \A i \in 1..Len(s) : (s \o t)[i] = s[i]
      /\ \A i \in 1..(Len(s) + Len(t)) : i > Len(s) => (s \o t)[i] = t[i - Len(s)]
  BY <1>3
<1>6. ASSUME NEW i \in 1..Len(t)
      PROVE  (s \o t)[Len(s) + i] = t[i]
  <2>1. Len(s) + i \in 1..(Len(s) + Len(t)) /\ Len(s) + i > Len(s) /\ (Len(s) + i) - Len(s) = i
    BY <1>5
  <2> QED
    BY <1>5, <2>1
<1> QED
  BY <1>4, <1>5, <1>6 DEF IsSequence

LEMMA OneMoreBlock ==
    ASSUME NEW c, NEW s, NEW k \in Nat, Blocks(c, s, 1..k), IsSequence(s[k + 1])
    PROVE  Blocks(c \o s[k + 1], s, 1..(k + 1))
<1> DEFINE t == s[k + 1]
<1> DEFINE q == c \o t
<1>1. IsSequence(c)
  BY DEF Blocks
<1>2. /\ IsSequence(q) /\ Len(c) \in Nat /\ Len(t) \in Nat
      /\ DOMAIN c = 1..Len(c) /\ DOMAIN t = 1..Len(t)
      /\ DOMAIN q = 1..(Len(c) + Len(t))
      /\ \A i \in 1..Len(c) : q[i] = c[i]
      /\ \A i \in 1..Len(t) : q[Len(c) + i] = t[i]
  BY <1>1, ConcatParts
<1> HIDE DEF q, t
<1>3. ASSUME NEW a \in 1..Len(c), NEW i, NEW d, At(c, s, a, i, d)
      PROVE  At(q, s, a, i, d)
  <2>1. d \in Nat /\ a - d \in DOMAIN s[i] /\ \A m \in DOMAIN s[i] : d + m \in DOMAIN c /\ c[d + m] = s[i][m]
    BY <1>3 DEF At
  <2>2. \A m \in DOMAIN s[i] : d + m \in DOMAIN q /\ q[d + m] = s[i][m]
    BY <1>2, <2>1
  <2> QED
    BY <2>1, <2>2 DEF At
<1>4. ASSUME NEW a \in DOMAIN q, a \notin 1..Len(c)
      PROVE  At(q, s, a, k + 1, Len(c))
  <2>1. a - Len(c) \in DOMAIN t
    BY <1>2, <1>4
  <2>2. \A m \in DOMAIN t : Len(c) + m \in DOMAIN q /\ q[Len(c) + m] = t[m]
    BY <1>2
  <2> QED
    BY <1>2, <2>1, <2>2 DEF At, t
<1>5. /\ \A i \in 1..k : i \in 1..(k + 1) /\ i # k + 1
      /\ k + 1 \in 1..(k + 1)
  OBVIOUS
<1>6. ASSUME NEW a \in DOMAIN q, NEW b \in DOMAIN q
      PROVE  \E i, j \in 1..(k + 1) : \E d, e \in Nat :
                At(q, s, a, i, d) /\ At(q, s, b, j, e) /\ (i = j => d = e)
  <2>1. CASE a \in 1..Len(c) /\ b \in 1..Len(c)
    <3>1. PICK i \in 1..k, j \in 1..k : \E d, e \in Nat :
             At(c, s, a, i, d) /\ At(c, s, b, j, e) /\ (i = j => d = e)
      BY <1>2, <2>1 DEF Blocks
    <3>2. PICK d \in Nat, e \in Nat : At(c, s, a, i, d) /\ At(c, s, b, j, e) /\ (i = j => d = e)
      BY <3>1
    <3>3. At(q, s, a, i, d) /\ At(q, s, b, j, e)
      BY <1>3, <2>1, <3>2
    <3> QED
      BY <1>5, <3>2, <3>3
  <2>2. CASE a \in 1..Len(c) /\ b \notin 1..Len(c)
    <3>1. PICK i \in 1..k : \E d \in Nat : At(c, s, a, i, d)
      BY <1>2, <2>2 DEF Blocks
    <3>2. PICK d \in Nat : At(c, s, a, i, d)
      BY <3>1
    <3> QED
      BY <1>2, <1>3, <1>4, <1>5, <2>2, <3>2
  <2>3. CASE a \notin 1..Len(c) /\ b \in 1..Len(c)
    <3>1. PICK i \in 1..k : \E d \in Nat : At(c, s, b, i, d)
      BY <1>2, <2>3 DEF Blocks
    <3>2. PICK d \in Nat : At(c, s, b, i, d)
      BY <3>1
    <3> QED
      BY <1>2, <1>3, <1>4, <1>5, <2>3, <3>2
  <2>4. CASE a \notin 1..Len(c) /\ b \notin 1..Len(c)
    BY <1>2, <1>4, <1>5, <2>4
  <2> QED
    BY <2>1, <2>2, <2>3, <2>4
<1> QED
  BY <1>2, <1>6 DEF Blocks, q, t

LEMMA FlatBlocks ==
    ASSUME NEW s, NEW n \in Nat, DOMAIN s = 1..n, \A i \in 1..n : IsSequence(s[i])
    PROVE  Blocks(Flat(s), s, 1..n)
<1>1. PICK g : /\ g[0] = << >>
               /\ \A k \in 1..n : g[k] = Join(g[k - 1], s[k])
               /\ Flat(s) = g[n]
  BY FlatSteps
<1> DEFINE S == {k \in Nat : k <= n => Blocks(g[k], s, 1..k)}
<1>2. 0 \in S
  <2>1. DOMAIN << >> = {}
    OBVIOUS
  <2> QED
    BY <1>1, <2>1, NoElement DEF Blocks
<1>3. ASSUME NEW k \in Nat, k \in S
      PROVE  k + 1 \in S
  <2> SUFFICES ASSUME k + 1 <= n PROVE Blocks(g[k + 1], s, 1..(k + 1))
    OBVIOUS
  <2>1. k + 1 \in 1..n /\ (k + 1) - 1 = k /\ k <= n
    OBVIOUS
  <2>2. g[k + 1] = g[k] \o s[k + 1]
    BY <1>1, <2>1 DEF Join
  <2>3. Blocks(g[k], s, 1..k) /\ IsSequence(s[k + 1])
    BY <1>3, <2>1
  <2> QED
    BY <2>2, <2>3, OneMoreBlock
<1> HIDE DEF S
<1>4. S = Nat
  <2>1. S \in SUBSET Nat
    BY DEF S
  <2> QED
    BY <1>2, <1>3, <2>1, NumberInduction
<1>5. n \in S /\ n <= n
  BY <1>4
<1> QED
  BY <1>1, <1>5 DEF S

LEMMA UpToFacts ==
    ASSUME NEW s, IsSequence(s), NEW n \in Nat
    PROVE  /\ IsSequence(UpTo(n, s)) /\ DOMAIN UpTo(n, s) \subseteq DOMAIN s
           /\ \A i \in DOMAIN UpTo(n, s) : i <= n /\ UpTo(n, s)[i] = s[i]
<1>1. PICK S : s \in Seq(S)
  BY DEF IsSequence
<1>2. Len(s) \in Nat /\ DOMAIN s = 1..Len(s)
  BY <1>1
<1> DEFINE m == IF Len(s) < n THEN Len(s) ELSE n
<1>3. m \in Nat /\ m <= n /\ m <= Len(s)
  BY <1>2
<1>4. UpTo(n, s) = SubSeq(s, 1, m)
  BY DEF UpTo
<1> HIDE DEF m
<1>5. SubSeq(s, 1, m) = [i \in 1..m |-> s[i]]
  <2>1. SubSeq(s, 1, m) = [i \in 1..(m - 1 + 1) |-> s[i + 1 - 1]]
    BY <1>1, <1>2, <1>3
  <2>2. m - 1 + 1 = m /\ \A i \in 1..m : i + 1 - 1 = i
    BY <1>3
  <2> QED
    BY <2>1, <2>2
<1>6. IsSequence(SubSeq(s, 1, m))
  <2>1. SubSeq(s, 1, m) = [i \in 1..m |-> SubSeq(s, 1, m)[i]]
    BY <1>5
  <2> QED
    BY <1>3, <2>1, FunctionIsSequence
<1> QED
  BY <1>2, <1>3, <1>4, <1>5, <1>6

(* What a decision takes from its candidates: whole blocks, each once, and    *)
(* one only if the limit is one.                                              *)
LEMMA TakeFirstFacts ==
    ASSUME NEW s, NEW n \in Nat, DOMAIN s = 1..n, \A i \in 1..n : IsSequence(s[i]), NEW max \in Nat
    PROVE  LET c == TakeFirst(s, max)
           IN  /\ Blocks(c, s, 1..n)
               /\ max = 1 => \A k, l \in DOMAIN c : \E i \in 1..n : \E d \in Nat :
                                At(c, s, k, i, d) /\ At(c, s, l, i, d)
<1> DEFINE ones == [i \in DOMAIN s |-> IF s[i] = << >> THEN << >> ELSE <<s[i]>>]
<1> DEFINE g == Giving(s)
<1> DEFINE u == UpTo(max, g)
<1> DEFINE c == Flat(u)
<1>1. g = Flat(ones) /\ TakeFirst(s, max) = c
  BY DEF Giving, TakeFirst
<1>2. DOMAIN ones = 1..n /\ \A i \in 1..n : IsSequence(ones[i])
  BY NoElement, OneElement
<1>3. Blocks(g, ones, 1..n)
  <2> HIDE DEF ones
  <2> QED
    BY <1>1, <1>2, FlatBlocks
<1>4. \A i \in 1..n : \A m \in DOMAIN ones[i] : m = 1 /\ ones[i] = <<s[i]>>
  <2>1. DOMAIN << >> = {} /\ \A x : DOMAIN <<x>> = {1}
    OBVIOUS
  <2> QED
    BY <2>1
<1> HIDE DEF ones, g, u, c
<1>5. \A k, l \in DOMAIN g : \E i, j \in 1..n : g[k] = s[i] /\ g[l] = s[j] /\ (i = j => k = l)
  <2> SUFFICES ASSUME NEW k \in DOMAIN g, NEW l \in DOMAIN g
               PROVE  \E i, j \in 1..n : g[k] = s[i] /\ g[l] = s[j] /\ (i = j => k = l)
    OBVIOUS
  <2>0. k \in Int /\ l \in Int
    <3>1. IsSequence(g)
      BY <1>3 DEF Blocks
    <3>2. Len(g) \in Nat /\ DOMAIN g = 1..Len(g)
      BY <3>1, SequenceDomain
    <3> QED
      BY <3>2
  <2>1. PICK i \in 1..n, j \in 1..n : \E d, e \in Nat :
            At(g, ones, k, i, d) /\ At(g, ones, l, j, e) /\ (i = j => d = e)
    BY <1>3 DEF Blocks
  <2>2. PICK d \in Nat, e \in Nat : At(g, ones, k, i, d) /\ At(g, ones, l, j, e) /\ (i = j => d = e)
    BY <2>1
  <2>3. k - d \in DOMAIN ones[i] /\ g[d + (k - d)] = ones[i][k - d]
    BY <2>2 DEF At
  <2>4. l - e \in DOMAIN ones[j] /\ g[e + (l - e)] = ones[j][l - e]
    BY <2>2 DEF At
  <2>5. k - d = 1 /\ l - e = 1 /\ ones[i] = <<s[i]>> /\ ones[j] = <<s[j]>>
    BY <1>4, <2>3, <2>4
  <2>6. d + (k - d) = k /\ e + (l - e) = l
    BY <2>0
  <2>7. g[k] = s[i] /\ g[l] = s[j]
    BY <2>3, <2>4, <2>5, <2>6
  <2>8. i = j => k = l
    <3>1. i = j => d = e
      BY <2>2
    <3> QED
      BY <2>0, <2>5, <3>1
  <2> QED
    BY <2>7, <2>8
<1>6. IsSequence(g)
  BY <1>3 DEF Blocks
<1>7. IsSequence(u) /\ DOMAIN u \subseteq DOMAIN g /\ \A i \in DOMAIN u : i <= max /\ u[i] = g[i]
  BY <1>6, UpToFacts DEF u
<1>8. Len(u) \in Nat /\ DOMAIN u = 1..Len(u)
  BY <1>7, SequenceDomain
<1>9. \A i \in 1..Len(u) : IsSequence(u[i])
  BY <1>5, <1>7, <1>8
<1>10. Blocks(c, u, 1..Len(u))
  BY <1>8, <1>9, FlatBlocks DEF c
<1>11. ASSUME NEW a \in 1..Len(u), NEW i \in 1..n, u[a] = s[i], NEW k, NEW d, At(c, u, k, a, d)
       PROVE  At(c, s, k, i, d)
  BY <1>11 DEF At
<1>12. ASSUME NEW k \in DOMAIN c, NEW l \in DOMAIN c
       PROVE  /\ \E i, j \in 1..n : \E d, e \in Nat :
                    At(c, s, k, i, d) /\ At(c, s, l, j, e) /\ (i = j => d = e)
              /\ max = 1 => \E i \in 1..n : \E d \in Nat : At(c, s, k, i, d) /\ At(c, s, l, i, d)
  <2>1. PICK a \in 1..Len(u), b \in 1..Len(u) : \E d, e \in Nat :
            At(c, u, k, a, d) /\ At(c, u, l, b, e) /\ (a = b => d = e)
    BY <1>10, <1>12 DEF Blocks
  <2>2. PICK d \in Nat, e \in Nat : At(c, u, k, a, d) /\ At(c, u, l, b, e) /\ (a = b => d = e)
    BY <2>1
  <2>3. PICK i \in 1..n, j \in 1..n : u[a] = s[i] /\ u[b] = s[j] /\ (i = j => a = b)
    BY <1>5, <1>7, <1>8
  <2>4. At(c, s, k, i, d) /\ At(c, s, l, j, e)
    BY <1>11, <2>2, <2>3
  <2>5. max = 1 => a = 1 /\ b = 1
    BY <1>7, <1>8
  <2>6. max = 1 => At(c, s, k, i, d) /\ At(c, s, l, i, d)
    <3>1. max = 1 => At(c, u, l, a, d)
      BY <2>2, <2>5
    <3> QED
      BY <1>11, <2>3, <2>4, <3>1
  <2> QED
    BY <2>2, <2>3, <2>4, <2>6
<1>13. Blocks(c, s, 1..n)
  BY <1>10, <1>12 DEF Blocks
<1> QED
  BY <1>1, <1>12, <1>13


-----------------------------------------------------------------------------
(* The projection: identifiers are those of actions, orders and placements    *)
(* have one each, and a placement is of an order and under a logical order.   *)
OrderFields == {"id", "status", "size", "filled", "price", "side", "known"}
Unique(s) == \A i, j \in DOMAIN s : s[i].id = s[j].id => i = j
TruthOk(p) ==
    /\ DOMAIN p = {"actions", "orders", "logical", "places", "fills"}
    /\ IsSequence(p.orders) /\ IsSequence(p.logical) /\ IsSequence(p.places) /\ IsSequence(p.fills)
    /\ Unique(p.orders) /\ Unique(p.places)
    /\ \A i \in DOMAIN p.orders : DOMAIN p.orders[i] = OrderFields /\ p.orders[i].id \in p.actions
    /\ Ids(p.logical) \subseteq p.actions
    /\ \A x \in ToSet(p.places) : /\ x.id \in Ids(p.orders) /\ x.logical \in Ids(p.logical)
                                  /\ x.id \in Ids(p.logical) => x.logical = x.id
StatusOf(p, id) == ById(p.orders, id).status

LEMMA UniqueIndex ==
    ASSUME NEW s, Unique(s), NEW i \in DOMAIN s
    PROVE  IndexOf(s, s[i].id) = i /\ ById(s, s[i].id) = s[i]
<1> DEFINE k == CHOOSE k \in DOMAIN s : s[k].id = s[i].id
<1>1. k \in DOMAIN s /\ s[k].id = s[i].id
  OBVIOUS
<1> HIDE DEF k
<1>2. k = i
  BY <1>1 DEF Unique
<1> QED
  BY <1>2 DEF IndexOf, ById, k

LEMMA KnownIndex ==
    ASSUME NEW s, NEW id \in Ids(s)
    PROVE  IndexOf(s, id) \in DOMAIN s /\ s[IndexOf(s, id)].id = id /\ ById(s, id) = s[IndexOf(s, id)]
  BY DEF IndexOf, ById, Ids

(* A step that changes fields of orders, and none of their ids.               *)
LEMMA OrdersChanged ==
    ASSUME NEW p, TruthOk(p), NEW q, DOMAIN q = DOMAIN p,
           q.actions = p.actions, q.logical = p.logical, q.places = p.places, IsSequence(q.fills),
           IsSequence(q.orders), DOMAIN q.orders = DOMAIN p.orders,
           \A i \in DOMAIN p.orders : DOMAIN q.orders[i] = OrderFields /\ q.orders[i].id = p.orders[i].id
    PROVE  /\ TruthOk(q) /\ Ids(q.orders) = Ids(p.orders)
           /\ \A i \in DOMAIN p.orders : /\ StatusOf(q, p.orders[i].id) = q.orders[i].status
                                         /\ StatusOf(p, p.orders[i].id) = p.orders[i].status
<1>1. Ids(q.orders) = Ids(p.orders)
  BY DEF Ids
<1>2. Unique(q.orders)
  BY DEF Unique, TruthOk
<1>3. TruthOk(q)
  BY <1>1, <1>2 DEF TruthOk
<1>4. ASSUME NEW i \in DOMAIN p.orders
      PROVE  /\ StatusOf(q, p.orders[i].id) = q.orders[i].status
             /\ StatusOf(p, p.orders[i].id) = p.orders[i].status
  BY <1>2, UniqueIndex DEF StatusOf, TruthOk
<1> QED
  BY <1>1, <1>3, <1>4

LEMMA ExceptIsSequence ==
    ASSUME NEW s, IsSequence(s), NEW k, NEW e
    PROVE  /\ IsSequence([s EXCEPT ![k] = e]) /\ DOMAIN [s EXCEPT ![k] = e] = DOMAIN s
           /\ \A i \in DOMAIN s : [s EXCEPT ![k] = e][i] = IF i = k THEN e ELSE s[i]
<1> DEFINE f == [s EXCEPT ![k] = e]
<1>1. DOMAIN s = 1..Len(s) /\ Len(s) \in Nat /\ s \in Seq(ToSet(s))
  BY SequenceDomain
<1>2. DOMAIN f = DOMAIN s /\ \A i \in DOMAIN s : f[i] = IF i = k THEN e ELSE s[i]
  OBVIOUS
<1>3. f = [i \in 1..Len(s) |-> f[i]]
  BY <1>1
<1> HIDE DEF f
<1>4. IsSequence(f)
  BY <1>1, <1>3, FunctionIsSequence
<1> QED
  BY <1>2, <1>4 DEF f

LEMMA SetOrderFacts ==
    ASSUME NEW p, TruthOk(p), NEW id \in Ids(p.orders), NEW status
    PROVE  LET q == SetOrder(p, id, status)
           IN  /\ TruthOk(q) /\ q.actions = p.actions /\ Ids(q.orders) = Ids(p.orders)
               /\ q.logical = p.logical /\ q.places = p.places /\ Len(q.orders) = Len(p.orders)
               /\ StatusOf(q, id) = status
               /\ \A k \in Ids(p.orders) : k # id => StatusOf(q, k) = StatusOf(p, k)
<1> DEFINE n == IndexOf(p.orders, id)
<1> DEFINE f == [p.orders EXCEPT ![n] = [p.orders[n] EXCEPT !.status = status]]
<1> DEFINE q == SetOrder(p, id, status)
<1>1. n \in DOMAIN p.orders /\ p.orders[n].id = id
  BY KnownIndex
<1>2. q = [p EXCEPT !.orders = f]
  BY DEF SetOrder
<1>3. /\ DOMAIN q = DOMAIN p /\ q.actions = p.actions /\ q.logical = p.logical /\ q.places = p.places
      /\ q.fills = p.fills /\ q.orders = f
  BY <1>2 DEF TruthOk
<1>4. /\ IsSequence(f) /\ DOMAIN f = DOMAIN p.orders
      /\ \A i \in DOMAIN p.orders : f[i] = IF i = n THEN [p.orders[n] EXCEPT !.status = status] ELSE p.orders[i]
  <2>1. IsSequence(p.orders)
    BY DEF TruthOk
  <2> DEFINE e == [p.orders[n] EXCEPT !.status = status]
  <2> HIDE DEF e
  <2>2. f = [p.orders EXCEPT ![n] = e]
    BY DEF e
  <2>3. /\ IsSequence([p.orders EXCEPT ![n] = e]) /\ DOMAIN [p.orders EXCEPT ![n] = e] = DOMAIN p.orders
        /\ \A i \in DOMAIN p.orders : [p.orders EXCEPT ![n] = e][i] = IF i = n THEN e ELSE p.orders[i]
    BY <2>1, ExceptIsSequence
  <2> HIDE DEF f
  <2> QED
    BY <2>2, <2>3 DEF e
<1> HIDE DEF f, q, n
<1>5. \A i \in DOMAIN p.orders : /\ DOMAIN f[i] = OrderFields /\ f[i].id = p.orders[i].id
                                 /\ f[i].status = IF i = n THEN status ELSE p.orders[i].status
  BY <1>4 DEF TruthOk, OrderFields
<1>6. /\ TruthOk(q) /\ Ids(q.orders) = Ids(p.orders)
      /\ \A i \in DOMAIN p.orders : /\ StatusOf(q, p.orders[i].id) = q.orders[i].status
                                    /\ StatusOf(p, p.orders[i].id) = p.orders[i].status
  BY <1>3, <1>4, <1>5, OrdersChanged DEF TruthOk
<1>7. StatusOf(q, id) = status
  BY <1>1, <1>3, <1>5, <1>6
<1>8. ASSUME NEW k \in Ids(p.orders), k # id
      PROVE  StatusOf(q, k) = StatusOf(p, k)
  <2>1. PICK i \in DOMAIN p.orders : p.orders[i].id = k
    BY DEF Ids
  <2> QED
    BY <1>1, <1>3, <1>5, <1>6, <1>8, <2>1
<1>9. Len(q.orders) = Len(p.orders)
  <2>1. IsSequence(p.orders) /\ IsSequence(q.orders) /\ DOMAIN q.orders = DOMAIN p.orders
    BY <1>3, <1>4 DEF TruthOk
  <2>2. Len(p.orders) \in Nat /\ Len(q.orders) \in Nat /\ 1..Len(p.orders) = 1..Len(q.orders)
    BY <2>1, SequenceDomain
  <2> QED
    BY <2>2
<1> QED
  BY <1>3, <1>6, <1>7, <1>8, <1>9 DEF q

LEMMA AppendParts ==
    ASSUME NEW s, IsSequence(s), NEW e
    PROVE  /\ IsSequence(Append(s, e)) /\ Len(s) \in Nat /\ DOMAIN s = 1..Len(s)
           /\ Len(Append(s, e)) = Len(s) + 1 /\ DOMAIN Append(s, e) = 1..(Len(s) + 1)
           /\ \A i \in 1..Len(s) : Append(s, e)[i] = s[i]
           /\ Append(s, e)[Len(s) + 1] = e
           /\ ToSet(Append(s, e)) = ToSet(s) \cup {e}
           /\ Ids(Append(s, e)) = Ids(s) \cup {e.id}
<1>1. PICK S : s \in Seq(S)
  BY DEF IsSequence
<1>2. s \in Seq(S \cup {e})
  BY <1>1
<1>3. /\ IsSequence(Append(s, e)) /\ Len(s) \in Nat /\ DOMAIN s = 1..Len(s)
      /\ Len(Append(s, e)) = Len(s) + 1 /\ DOMAIN Append(s, e) = 1..(Len(s) + 1)
      /\ \A i \in 1..Len(s) : Append(s, e)[i] = s[i]
      /\ Append(s, e)[Len(s) + 1] = e
  BY <1>2 DEF IsSequence
<1>4. ToSet(Append(s, e)) = ToSet(s) \cup {e}
  BY AppendOne
<1>5. \A t : Ids(t) = {x.id : x \in ToSet(t)}
  BY DEF Ids, ToSet
<1>6. Ids(Append(s, e)) = Ids(s) \cup {e.id}
  BY <1>4, <1>5
<1> QED
  BY <1>3, <1>4, <1>6

(* The record of a request: a new action, and a new order unless it cancels.  *)
Grows(p, q, c) ==
    /\ TruthOk(q) /\ q.actions = p.actions \cup {c.id} /\ q.places = p.places
    /\ Ids(q.orders) = Ids(p.orders) \cup (IF c.type = "cancel" THEN {} ELSE {c.id})
    /\ Ids(p.logical) \subseteq Ids(q.logical)
    /\ \A id \in Ids(p.orders) : StatusOf(q, id) = StatusOf(p, id)

LEMMA RequestFacts ==
    ASSUME NEW p, TruthOk(p), NEW c, c.id \notin p.actions, NEW status
    PROVE  LET q == Request(p, c, status)
           IN  /\ Grows(p, q, c) /\ q.logical = p.logical
               /\ c.type # "cancel" => /\ Len(q.orders) \in DOMAIN q.orders
                                       /\ q.orders[Len(q.orders)].id = c.id
                                       /\ StatusOf(q, c.id) = status
<1> DEFINE e == [id |-> c.id, status |-> status, size |-> c.size, filled |-> 0, price |-> c.price,
                 side |-> c.side, known |-> FALSE]
<1> DEFINE q == Request(p, c, status)
<1>1. /\ DOMAIN q = DOMAIN p /\ q.actions = p.actions \cup {c.id} /\ q.logical = p.logical
      /\ q.places = p.places /\ q.fills = p.fills
      /\ q.orders = IF c.type = "cancel" THEN p.orders ELSE Append(p.orders, e)
  BY DEF Request, TruthOk
<1>2. DOMAIN e = OrderFields /\ e.id = c.id
  BY DEF OrderFields
<1> HIDE DEF q, e
<1>3. CASE c.type = "cancel"
  <2>1. TruthOk(q)
    BY <1>1, <1>3 DEF TruthOk
  <2> QED
    BY <1>1, <1>3, <2>1 DEF Grows, StatusOf, q
<1>4. CASE c.type # "cancel"
  <2>1. /\ IsSequence(q.orders) /\ Len(p.orders) \in Nat /\ DOMAIN p.orders = 1..Len(p.orders)
        /\ Len(q.orders) = Len(p.orders) + 1 /\ DOMAIN q.orders = 1..(Len(p.orders) + 1)
        /\ \A i \in 1..Len(p.orders) : q.orders[i] = p.orders[i]
        /\ q.orders[Len(p.orders) + 1] = e
        /\ Ids(q.orders) = Ids(p.orders) \cup {c.id}
    <3> DEFINE s == p.orders
    <3>1. IsSequence(s)
      BY DEF TruthOk
    <3>2. q.orders = Append(s, e)
      BY <1>1, <1>4
    <3> HIDE DEF s
    <3>3. IsSequence(Append(s, e)) /\ Len(s) \in Nat /\ DOMAIN s = 1..Len(s)
      BY <3>1, AppendParts
    <3>4. Len(Append(s, e)) = Len(s) + 1 /\ DOMAIN Append(s, e) = 1..(Len(s) + 1)
      BY <3>1, AppendParts
    <3>5. \A i \in 1..Len(s) : Append(s, e)[i] = s[i]
      BY <3>1, AppendParts
    <3>6. Append(s, e)[Len(s) + 1] = e /\ Ids(Append(s, e)) = Ids(s) \cup {e.id}
      BY <3>1, AppendParts
    <3> DEFINE t == Append(s, e)
    <3> HIDE DEF t
    <3> QED
      BY <1>2, <3>2, <3>3, <3>4, <3>5, <3>6 DEF s, t
  <2>2. \A i \in 1..Len(p.orders) : DOMAIN p.orders[i] = OrderFields /\ p.orders[i].id \in p.actions
    BY <2>1 DEF TruthOk
  <2>3. Unique(q.orders)
    <3> SUFFICES ASSUME NEW i \in DOMAIN q.orders, NEW j \in DOMAIN q.orders, q.orders[i].id = q.orders[j].id
                 PROVE  i = j
      BY DEF Unique
    <3>1. i \in 1..Len(p.orders) \/ i = Len(p.orders) + 1
      BY <2>1
    <3>2. j \in 1..Len(p.orders) \/ j = Len(p.orders) + 1
      BY <2>1
    <3>3. CASE i \in 1..Len(p.orders) /\ j \in 1..Len(p.orders)
      BY <2>1, <3>3 DEF TruthOk, Unique
    <3> QED
      BY <1>2, <2>1, <2>2, <3>1, <3>2, <3>3
  <2>4. \A i \in DOMAIN q.orders : DOMAIN q.orders[i] = OrderFields /\ q.orders[i].id \in q.actions
    <3> SUFFICES ASSUME NEW i \in DOMAIN q.orders
                 PROVE  DOMAIN q.orders[i] = OrderFields /\ q.orders[i].id \in q.actions
      OBVIOUS
    <3>1. i \in 1..Len(p.orders) \/ i = Len(p.orders) + 1
      BY <2>1
    <3> QED
      BY <1>1, <1>2, <2>1, <2>2, <3>1
  <2>5. TruthOk(q)
    BY <1>1, <2>1, <2>3, <2>4 DEF TruthOk
  <2>6. ASSUME NEW id \in Ids(p.orders)
        PROVE  StatusOf(q, id) = StatusOf(p, id)
    <3>1. PICK i \in DOMAIN p.orders : p.orders[i].id = id
      BY DEF Ids
    <3>2. i \in DOMAIN q.orders /\ q.orders[i] = p.orders[i]
      BY <2>1
    <3> QED
      BY <2>3, <3>1, <3>2, UniqueIndex DEF StatusOf, TruthOk
  <2>7. Len(q.orders) \in DOMAIN q.orders /\ q.orders[Len(q.orders)].id = c.id
    BY <1>2, <2>1
  <2>8. StatusOf(q, c.id) = status
    <3>1. q.orders[Len(q.orders)].status = status
      BY <2>1 DEF e
    <3>2. ById(q.orders, q.orders[Len(q.orders)].id) = q.orders[Len(q.orders)]
      BY <2>3, <2>7, UniqueIndex
    <3> QED
      BY <2>7, <3>1, <3>2 DEF StatusOf
  <2> QED
    BY <1>1, <1>4, <2>1, <2>5, <2>6, <2>7, <2>8 DEF Grows, q
<1> QED
  BY <1>3, <1>4


(* The logical order a command names: its own, or one on record.              *)
Names(p, c) == c.type # "cancel" => c.logical = c.id \/ c.logical \in Ids(p.logical)

LEMMA AcceptedFacts ==
    ASSUME NEW p, TruthOk(p), NEW c, c.id \notin p.actions, Names(p, c)
    PROVE  LET q == Accepted(p, c)
           IN  /\ Grows(p, q, c) /\ Ids(q.logical) \subseteq Ids(p.logical) \cup {c.logical}
               /\ c.type # "cancel" => /\ Len(q.orders) \in DOMAIN q.orders
                                       /\ q.orders[Len(q.orders)].id = c.id
                                       /\ StatusOf(q, c.id) = "accepted"
                                       /\ c.logical \in Ids(q.logical)
                                       /\ c.id \in Ids(q.logical) => c.logical = c.id
<1> DEFINE r == Request(p, c, "accepted")
<1> DEFINE q == Accepted(p, c)
<1>1. /\ Grows(p, r, c) /\ r.logical = p.logical
      /\ c.type # "cancel" => /\ Len(r.orders) \in DOMAIN r.orders
                              /\ r.orders[Len(r.orders)].id = c.id
                              /\ StatusOf(r, c.id) = "accepted"
  BY RequestFacts
<1>2. q = CreateLogical(r, c)
  BY DEF Accepted
<1> HIDE DEF r, q
<1>3. c.id \notin Ids(p.logical)
  BY DEF TruthOk
<1>4. CASE c.type = "cancel" \/ c.logical \in Ids(r.logical)
  <2>1. q = r
    BY <1>2, <1>4 DEF CreateLogical
  <2> QED
    BY <1>1, <1>3, <1>4, <2>1 DEF Grows, q
<1>5. CASE ~(c.type = "cancel" \/ c.logical \in Ids(r.logical))
  <2>1. PICK e : e.id = c.logical /\ q = [r EXCEPT !.logical = Append(r.logical, e)]
    <3> DEFINE l == LogicalOrder(c)
    <3> DEFINE e == [id |-> c.logical, size |-> c.size, relation |-> l.relation, root |-> l.root,
                     parent |-> l.parent, sources |-> l.sources, product |-> l.product,
                     side |-> l.side, approved |-> l.approved]
    <3>1. q = [r EXCEPT !.logical = Append(r.logical, e)]
      BY <1>2, <1>5 DEF CreateLogical
    <3>2. e.id = c.logical
      OBVIOUS
    <3> HIDE DEF e
    <3> QED
      BY <3>1, <3>2
  <2>2. TruthOk(r)
    BY <1>1 DEF Grows
  <2>3. /\ DOMAIN q = DOMAIN r /\ q.actions = r.actions /\ q.orders = r.orders
        /\ q.places = r.places /\ q.fills = r.fills /\ q.logical = Append(r.logical, e)
    BY <2>1, <2>2 DEF TruthOk
  <2>4. c.logical = c.id
    BY <1>1, <1>5 DEF Names
  <2>5. IsSequence(q.logical) /\ Ids(q.logical) = Ids(p.logical) \cup {c.id}
    <3> DEFINE s == r.logical
    <3>1. IsSequence(s)
      BY <2>2 DEF TruthOk
    <3> HIDE DEF s
    <3>2. IsSequence(Append(s, e)) /\ Ids(Append(s, e)) = Ids(s) \cup {e.id}
      BY <3>1, AppendParts
    <3> QED
      BY <1>1, <2>1, <2>3, <2>4, <3>2 DEF s
  <2>6. c.id \in r.actions
    BY <1>1 DEF Grows
  <2>7. \A x \in ToSet(r.places) : x.id # c.id
    <3>1. \A x \in ToSet(p.places) : x.id \in Ids(p.orders)
      BY DEF TruthOk
    <3>2. \A x \in Ids(p.orders) : x \in p.actions
      BY DEF TruthOk, Ids
    <3> QED
      BY <1>1, <3>1, <3>2 DEF Grows
  <2>8. TruthOk(q)
    <3>1. \A x \in ToSet(q.places) : /\ x.id \in Ids(q.orders) /\ x.logical \in Ids(q.logical)
                                     /\ x.id \in Ids(q.logical) => x.logical = x.id
      BY <1>1, <2>2, <2>3, <2>5, <2>7 DEF TruthOk
    <3>2. Ids(q.logical) \subseteq q.actions
      BY <1>1, <2>2, <2>3, <2>5, <2>6 DEF TruthOk
    <3> QED
      BY <2>2, <2>3, <2>5, <3>1, <3>2 DEF TruthOk
  <2> QED
    BY <1>1, <2>3, <2>4, <2>5, <2>8 DEF Grows, StatusOf, q
<1> QED
  BY <1>4, <1>5

(* q is p with a placement of c on record.                                    *)
Placed(p, q, c) ==
    /\ TruthOk(q)
    /\ q.actions = p.actions /\ q.orders = p.orders /\ q.logical = p.logical
    /\ \E x : /\ x.id = c.id /\ x.logical = c.logical /\ x.kind = c.kind
              /\ ToSet(q.places) = ToSet(p.places) \cup {x}

LEMMA PlacementFacts ==
    ASSUME NEW p, TruthOk(p), NEW c, NEW status,
           c.id \in Ids(p.orders), c.id \notin Ids(p.places), c.logical \in Ids(p.logical),
           c.id \in Ids(p.logical) => c.logical = c.id
    PROVE  Placed(p, Placement(p, c, status), c)
<1> DEFINE e == [id |-> c.id, logical |-> c.logical, kind |-> c.kind, status |-> status, of |-> c.of,
                 size |-> c.size, price |-> c.price, side |-> c.side]
<1> DEFINE s == p.places
<1> DEFINE q == Placement(p, c, status)
<1>1. /\ DOMAIN q = DOMAIN p /\ q.actions = p.actions /\ q.orders = p.orders
      /\ q.logical = p.logical /\ q.fills = p.fills /\ q.places = Append(s, e)
  BY DEF Placement, TruthOk
<1>2. e.id = c.id /\ e.logical = c.logical /\ e.kind = c.kind
  OBVIOUS
<1>3. IsSequence(s)
  BY DEF TruthOk
<1>4. c.id \notin Ids(s) /\ Unique(s)
  BY DEF TruthOk
<1>5. \A x \in ToSet(s) : /\ x.id \in Ids(p.orders) /\ x.logical \in Ids(p.logical)
                          /\ x.id \in Ids(p.logical) => x.logical = x.id
  BY DEF TruthOk
<1> HIDE DEF e, s, q
<1>6. IsSequence(q.places) /\ ToSet(q.places) = ToSet(s) \cup {e}
  <2>1. q.places = Append(s, e)
    BY <1>1
  <2>2. IsSequence(Append(s, e)) /\ ToSet(Append(s, e)) = ToSet(s) \cup {e}
    BY <1>3, AppendParts
  <2> DEFINE t == Append(s, e)
  <2> HIDE DEF t
  <2> QED
    BY <2>1, <2>2 DEF t
<1>7. Unique(q.places)
  <2> DEFINE n == Len(s)
  <2>1. n \in Nat /\ DOMAIN s = 1..n /\ DOMAIN Append(s, e) = 1..(n + 1)
    BY <1>3, AppendParts
  <2>2. \A i \in 1..n : Append(s, e)[i] = s[i]
    BY <1>3, AppendParts
  <2>3. Append(s, e)[n + 1] = e
    BY <1>3, AppendParts
  <2> DEFINE t == Append(s, e)
  <2> HIDE DEF n, t
  <2>4. \A i \in 1..n : s[i].id # c.id
    BY <1>4, <2>1 DEF Ids
  <2> SUFFICES ASSUME NEW i \in DOMAIN t, NEW j \in DOMAIN t, t[i].id = t[j].id
               PROVE  i = j
    BY <1>1 DEF Unique, t
  <2>5. i \in 1..n \/ i = n + 1
    BY <2>1 DEF t
  <2>6. j \in 1..n \/ j = n + 1
    BY <2>1 DEF t
  <2>7. CASE i \in 1..n /\ j \in 1..n
    <3>1. t[i] = s[i] /\ t[j] = s[j]
      BY <2>2, <2>7 DEF t
    <3>2. i \in DOMAIN s /\ j \in DOMAIN s
      BY <2>1, <2>7
    <3> QED
      BY <1>4, <3>1, <3>2 DEF Unique
  <2> QED
    BY <1>2, <2>2, <2>3, <2>4, <2>5, <2>6, <2>7 DEF t
<1>8. \A x \in ToSet(q.places) : /\ x.id \in Ids(q.orders) /\ x.logical \in Ids(q.logical)
                                 /\ x.id \in Ids(q.logical) => x.logical = x.id
  BY <1>1, <1>2, <1>5, <1>6
<1>9. TruthOk(q)
  BY <1>1, <1>6, <1>7, <1>8 DEF TruthOk
<1> QED
  BY <1>1, <1>2, <1>6, <1>9 DEF Placed, q, s


(* A step that puts another record in the place of one order.                 *)
Changed(p, q, n, e) ==
    /\ TruthOk(q) /\ Ids(q.orders) = Ids(p.orders)
    /\ \A id \in Ids(p.orders) :
          StatusOf(q, id) = IF n \in DOMAIN p.orders /\ id = p.orders[n].id
                            THEN e.status ELSE StatusOf(p, id)
LEMMA OneOrderChanged ==
    ASSUME NEW p, TruthOk(p), NEW q, DOMAIN q = DOMAIN p,
           q.actions = p.actions, q.logical = p.logical, q.places = p.places, IsSequence(q.fills),
           NEW n, NEW e, q.orders = [p.orders EXCEPT ![n] = e],
           n \in DOMAIN p.orders => DOMAIN e = OrderFields /\ e.id = p.orders[n].id
    PROVE  Changed(p, q, n, e)
<1> DEFINE s == p.orders
<1> DEFINE f == [s EXCEPT ![n] = e]
<1>1. IsSequence(s)
  BY DEF TruthOk
<1>2. \A i \in DOMAIN s : DOMAIN s[i] = OrderFields
  BY DEF TruthOk
<1> HIDE DEF s
<1>3. /\ IsSequence(f) /\ DOMAIN f = DOMAIN s
      /\ \A i \in DOMAIN s : f[i] = IF i = n THEN e ELSE s[i]
  BY <1>1, ExceptIsSequence
<1>4. q.orders = f
  BY DEF s
<1> HIDE DEF f
<1>5. \A i \in DOMAIN s : DOMAIN f[i] = OrderFields /\ f[i].id = s[i].id
  BY <1>2, <1>3 DEF s
<1>6. /\ TruthOk(q) /\ Ids(q.orders) = Ids(p.orders)
      /\ \A i \in DOMAIN s : StatusOf(q, s[i].id) = f[i].status /\ StatusOf(p, s[i].id) = s[i].status
  BY <1>3, <1>4, <1>5, OrdersChanged DEF s
<1>7. ASSUME NEW id \in Ids(p.orders)
      PROVE  StatusOf(q, id) = IF n \in DOMAIN p.orders /\ id = p.orders[n].id
                               THEN e.status ELSE StatusOf(p, id)
  <2>1. PICK i \in DOMAIN s : s[i].id = id
    BY DEF Ids, s
  <2>2. n \in DOMAIN s /\ id = s[n].id => i = n
    BY <2>1 DEF TruthOk, Unique, s
  <2>3. i = n => n \in DOMAIN s /\ id = s[n].id
    BY <2>1
  <2> QED
    BY <1>3, <1>6, <2>1, <2>2, <2>3 DEF s
<1> QED
  BY <1>6, <1>7 DEF Changed

LEMMA FailedFacts ==
    ASSUME NEW p, TruthOk(p), NEW c, c.id \notin p.actions, Names(p, c), NEW status
    PROVE  LET q == Failed(p, c, status)
           IN  Grows(p, q, c) /\ (c.type # "cancel" => StatusOf(q, c.id) = status)
<1>1. CASE c.type = "cancel"
  BY <1>1, RequestFacts DEF Failed
<1>2. CASE c.type # "cancel"
  <2> DEFINE r == Accepted(p, c)
  <2> DEFINE q == SetOrder(r, c.id, status)
  <2>1. Grows(p, r, c)
    BY AcceptedFacts
  <2> HIDE DEF r
  <2>2. TruthOk(r) /\ c.id \in Ids(r.orders)
    BY <1>2, <2>1 DEF Grows
  <2>3. /\ TruthOk(q) /\ q.actions = r.actions /\ Ids(q.orders) = Ids(r.orders)
        /\ q.logical = r.logical /\ q.places = r.places /\ StatusOf(q, c.id) = status
        /\ \A k \in Ids(r.orders) : k # c.id => StatusOf(q, k) = StatusOf(r, k)
    BY <2>2, SetOrderFacts
  <2>4. \A k \in Ids(p.orders) : k # c.id /\ k \in Ids(r.orders)
    <3>1. Ids(p.orders) \subseteq p.actions
      BY DEF TruthOk, Ids
    <3> QED
      BY <2>1, <3>1 DEF Grows
  <2>5. Failed(p, c, status) = q
    BY <1>2 DEF Failed, r
  <2> HIDE DEF q
  <2>6. Grows(p, q, c)
    BY <2>1, <2>3, <2>4 DEF Grows
  <2> QED
    BY <2>3, <2>5, <2>6
<1> QED
  BY <1>1, <1>2

(* What an executed command leaves on record: an order placed is open and has *)
(* its placement, an order cancelled is closed.                               *)
Done(p, q, c) ==
    /\ TruthOk(q) /\ q.actions = p.actions \cup {c.id}
    /\ Ids(q.orders) = Ids(p.orders) \cup (IF c.type = "cancel" THEN {} ELSE {c.id})
    /\ Ids(p.logical) \subseteq Ids(q.logical)
    /\ IF c.type = "cancel"
       THEN /\ q.places = p.places /\ StatusOf(q, c.target) = "cancelled"
            /\ \A id \in Ids(p.orders) : id # c.target => StatusOf(q, id) = StatusOf(p, id)
       ELSE /\ StatusOf(q, c.id) = "open"
            /\ \A id \in Ids(p.orders) : StatusOf(q, id) = StatusOf(p, id)
            /\ \E x : /\ x.id = c.id /\ x.logical = c.logical /\ x.kind = c.kind
                      /\ ToSet(q.places) = ToSet(p.places) \cup {x}

LEMMA ExecutedFacts ==
    ASSUME NEW p, TruthOk(p), NEW c, c.id \notin p.actions, Names(p, c),
           c.type = "cancel" => c.target \in Ids(p.orders)
    PROVE  LET q == Executed(p, c)
           IN  /\ Done(p, q, c)
               /\ c.type # "cancel" => Ids(q.logical) \subseteq Ids(p.logical) \cup {c.logical}
<1>1. CASE c.type = "cancel"
  <2> DEFINE r == Request(p, c, "")
  <2> DEFINE q == SetOrder(r, c.target, "cancelled")
  <2>1. Grows(p, r, c) /\ r.logical = p.logical
    BY RequestFacts
  <2> HIDE DEF r
  <2>2. TruthOk(r) /\ c.target \in Ids(r.orders)
    BY <1>1, <2>1 DEF Grows
  <2>3. /\ TruthOk(q) /\ q.actions = r.actions /\ Ids(q.orders) = Ids(r.orders)
        /\ q.logical = r.logical /\ q.places = r.places /\ StatusOf(q, c.target) = "cancelled"
        /\ \A k \in Ids(r.orders) : k # c.target => StatusOf(q, k) = StatusOf(r, k)
    BY <2>2, SetOrderFacts
  <2>4. Executed(p, c) = q
    BY <1>1 DEF Executed, r
  <2> HIDE DEF q
  <2> QED
    BY <1>1, <2>1, <2>3, <2>4 DEF Grows, Done
<1>2. CASE c.type # "cancel"
  <2> DEFINE a == Accepted(p, c)
  <2> DEFINE r == SetOrder(a, c.id, "open")
  <2> DEFINE t == [r EXCEPT !.orders[Len(r.orders)].known = TRUE]
  <2> DEFINE q == Placement(t, c, "accepted")
  <2>1. /\ Grows(p, a, c) /\ c.logical \in Ids(a.logical)
        /\ c.id \in Ids(a.logical) => c.logical = c.id
        /\ Ids(a.logical) \subseteq Ids(p.logical) \cup {c.logical}
    BY <1>2, AcceptedFacts
  <2> HIDE DEF a
  <2>2. TruthOk(a) /\ c.id \in Ids(a.orders)
    BY <1>2, <2>1 DEF Grows
  <2>3. /\ TruthOk(r) /\ r.actions = a.actions /\ Ids(r.orders) = Ids(a.orders)
        /\ r.logical = a.logical /\ r.places = a.places /\ StatusOf(r, c.id) = "open"
        /\ \A k \in Ids(a.orders) : k # c.id => StatusOf(r, k) = StatusOf(a, k)
    BY <2>2, SetOrderFacts
  <2> HIDE DEF r
  <2> DEFINE n == Len(r.orders)
  <2> DEFINE e == [r.orders[n] EXCEPT !.known = TRUE]
  <2>4. n \in DOMAIN r.orders => DOMAIN e = OrderFields /\ e.id = r.orders[n].id /\ e.status = r.orders[n].status
    BY <2>3 DEF TruthOk, OrderFields
  <2>5. /\ DOMAIN t = DOMAIN r /\ t.actions = r.actions /\ t.logical = r.logical /\ t.places = r.places
        /\ t.fills = r.fills /\ t.orders = [r.orders EXCEPT ![n] = e]
    BY <2>3 DEF TruthOk
  <2> HIDE DEF t, n, e
  <2>6. /\ IsSequence(t.fills)
        /\ n \in DOMAIN r.orders => DOMAIN e = OrderFields /\ e.id = r.orders[n].id
    BY <2>3, <2>4, <2>5 DEF TruthOk
  <2>7. Changed(r, t, n, e)
    BY <2>3, <2>5, <2>6, OneOrderChanged
  <2>8. n \in DOMAIN r.orders => StatusOf(r, r.orders[n].id) = r.orders[n].status
    BY <2>3, UniqueIndex DEF TruthOk, StatusOf
  <2>9. \A id \in Ids(r.orders) : StatusOf(t, id) = StatusOf(r, id)
    BY <2>4, <2>7, <2>8 DEF Changed
  <2>10. c.id \notin Ids(t.places)
    <3>1. t.places = p.places
      BY <2>1, <2>3, <2>5 DEF Grows
    <3>2. Ids(p.places) \subseteq Ids(p.orders)
      BY DEF TruthOk, Ids, ToSet
    <3>3. Ids(p.orders) \subseteq p.actions
      BY DEF TruthOk, Ids
    <3> QED
      BY <3>1, <3>2, <3>3
  <2>11. Placed(t, q, c)
    <3>1. /\ TruthOk(t) /\ c.id \in Ids(t.orders) /\ c.logical \in Ids(t.logical)
          /\ c.id \in Ids(t.logical) => c.logical = c.id
      BY <2>1, <2>2, <2>3, <2>5, <2>7 DEF Changed
    <3> QED
      BY <2>10, <3>1, PlacementFacts
  <2>12. Executed(p, c) = q
    BY <1>2 DEF Executed, t, r, a
  <2> HIDE DEF q
  <2>13. \A k \in Ids(p.orders) : k # c.id /\ k \in Ids(a.orders)
    <3>1. Ids(p.orders) \subseteq p.actions
      BY DEF TruthOk, Ids
    <3> QED
      BY <2>1, <3>1 DEF Grows
  <2>14. \A id \in Ids(a.orders) : StatusOf(q, id) = StatusOf(r, id)
    BY <2>3, <2>9, <2>11 DEF StatusOf, Placed
  <2>15. /\ StatusOf(q, c.id) = "open"
         /\ \A id \in Ids(p.orders) : StatusOf(q, id) = StatusOf(p, id)
    BY <2>1, <2>2, <2>3, <2>13, <2>14 DEF Grows
  <2>16. /\ q.actions = p.actions \cup {c.id} /\ Ids(q.orders) = Ids(p.orders) \cup {c.id}
         /\ Ids(p.logical) \subseteq Ids(q.logical) /\ t.places = p.places
    BY <1>2, <2>1, <2>3, <2>5, <2>7, <2>11 DEF Grows, Changed, Placed
  <2>17. Done(p, q, c)
    BY <1>2, <2>11, <2>15, <2>16 DEF Done, Placed
  <2>18. Ids(q.logical) \subseteq Ids(p.logical) \cup {c.logical}
    BY <2>1, <2>3, <2>5, <2>11 DEF Placed
  <2> QED
    BY <2>12, <2>17, <2>18
<1> QED
  BY <1>1, <1>2


(* A staged placement is on record with an order that nobody has sent.        *)
LEMMA StagedFacts ==
    ASSUME NEW p, TruthOk(p), NEW c, c.id \notin p.actions, Names(p, c), c.type # "cancel"
    PROVE  \E a : /\ Grows(p, a, c) /\ Placed(a, StagedIn(p, c), c)
                  /\ Ids(a.logical) \subseteq Ids(p.logical) \cup {c.logical}
                  /\ StatusOf(a, c.id) = "accepted"
<1> DEFINE a == Accepted(p, c)
<1>1. /\ Grows(p, a, c) /\ c.logical \in Ids(a.logical)
      /\ c.id \in Ids(a.logical) => c.logical = c.id
      /\ Ids(a.logical) \subseteq Ids(p.logical) \cup {c.logical}
      /\ StatusOf(a, c.id) = "accepted"
  BY AcceptedFacts
<1>2. StagedIn(p, c) = Placement(a, c, "staged")
  BY DEF StagedIn
<1> HIDE DEF a
<1>3. TruthOk(a) /\ c.id \in Ids(a.orders)
  BY <1>1 DEF Grows
<1>4. c.id \notin Ids(a.places)
  <2>1. a.places = p.places
    BY <1>1 DEF Grows
  <2>2. Ids(p.places) \subseteq Ids(p.orders)
    BY DEF TruthOk, Ids, ToSet
  <2>3. Ids(p.orders) \subseteq p.actions
    BY DEF TruthOk, Ids
  <2> QED
    BY <2>1, <2>2, <2>3
<1>5. Placed(a, Placement(a, c, "staged"), c)
  BY <1>1, <1>3, <1>4, PlacementFacts
<1> QED
  BY <1>1, <1>2, <1>5

(* What leaves all but the fields of known orders alone.                      *)
Refreshed(p, q) ==
    /\ TruthOk(q) /\ q.actions = p.actions /\ Ids(q.orders) = Ids(p.orders)
    /\ q.logical = p.logical /\ q.places = p.places

LEMMA UpdatedFacts ==
    ASSUME NEW p, TruthOk(p), NEW u, u.id \in Ids(p.orders)
    PROVE  LET q == Updated(p, u)
           IN  /\ Refreshed(p, q) /\ StatusOf(q, u.id) = u.status
               /\ \A id \in Ids(p.orders) : id # u.id => StatusOf(q, id) = StatusOf(p, id)
<1> DEFINE n == IndexOf(p.orders, u.id)
<1> DEFINE e == [p.orders[n] EXCEPT !.status = u.status, !.size = u.left, !.known = TRUE]
<1> DEFINE q == Updated(p, u)
<1>1. n \in DOMAIN p.orders /\ p.orders[n].id = u.id
  BY KnownIndex
<1>2. /\ DOMAIN q = DOMAIN p /\ q.actions = p.actions /\ q.logical = p.logical /\ q.places = p.places
      /\ q.fills = p.fills /\ q.orders = [p.orders EXCEPT ![n] = e]
  BY DEF Updated, TruthOk
<1>3. DOMAIN e = OrderFields /\ e.id = p.orders[n].id /\ e.status = u.status
  BY <1>1 DEF TruthOk, OrderFields
<1> HIDE DEF n, e, q
<1>4. IsSequence(q.fills)
  BY <1>2 DEF TruthOk
<1>5. Changed(p, q, n, e)
  BY <1>2, <1>3, <1>4, OneOrderChanged
<1> QED
  BY <1>1, <1>2, <1>3, <1>5 DEF Changed, Refreshed, q

LEMMA FilledFacts ==
    ASSUME NEW p, TruthOk(p), NEW f
    PROVE  LET q == Filled(p, f)
           IN  Refreshed(p, q) /\ \A id \in Ids(p.orders) : StatusOf(q, id) = StatusOf(p, id)
<1> DEFINE r == [p EXCEPT !.fills = Append(p.fills, f)]
<1> DEFINE q == Filled(p, f)
<1>1. /\ DOMAIN r = DOMAIN p /\ r.actions = p.actions /\ r.logical = p.logical /\ r.places = p.places
      /\ r.orders = p.orders
  BY DEF TruthOk
<1>2. IsSequence(r.fills)
  <2> DEFINE s == p.fills
  <2>1. IsSequence(s)
    BY DEF TruthOk
  <2>2. r.fills = Append(s, f)
    BY DEF TruthOk
  <2> HIDE DEF s, r
  <2>3. IsSequence(Append(s, f))
    BY <2>1, AppendParts
  <2> QED
    BY <2>2, <2>3
<1>3. q = IF ~ById(p.orders, f.order).known THEN r
          ELSE [r EXCEPT !.orders[IndexOf(p.orders, f.order)].filled = @ + f.size]
  BY DEF Filled
<1> HIDE DEF r
<1>4. TruthOk(r)
  BY <1>1, <1>2 DEF TruthOk
<1>5. Refreshed(p, r) /\ \A id \in Ids(p.orders) : StatusOf(r, id) = StatusOf(p, id)
  BY <1>1, <1>4 DEF Refreshed, StatusOf
<1>6. CASE ~ById(p.orders, f.order).known
  BY <1>3, <1>5, <1>6
<1>7. CASE ById(p.orders, f.order).known
  <2> DEFINE n == IndexOf(p.orders, f.order)
  <2> DEFINE e == [r.orders[n] EXCEPT !.filled = @ + f.size]
  <2>1. /\ DOMAIN q = DOMAIN r /\ q.actions = r.actions /\ q.logical = r.logical
        /\ q.places = r.places /\ q.fills = r.fills /\ q.orders = [r.orders EXCEPT ![n] = e]
    BY <1>3, <1>4, <1>7 DEF TruthOk
  <2>2. n \in DOMAIN r.orders =>
          DOMAIN e = OrderFields /\ e.id = r.orders[n].id /\ e.status = r.orders[n].status
    BY <1>4 DEF TruthOk, OrderFields
  <2> HIDE DEF q, n, e
  <2>3. /\ IsSequence(q.fills)
        /\ n \in DOMAIN r.orders => DOMAIN e = OrderFields /\ e.id = r.orders[n].id
    BY <1>2, <2>1, <2>2
  <2>4. Changed(r, q, n, e)
    BY <1>4, <2>1, <2>3, OneOrderChanged
  <2>5. n \in DOMAIN r.orders => StatusOf(r, r.orders[n].id) = r.orders[n].status
    BY <1>4, UniqueIndex DEF TruthOk, StatusOf
  <2>6. \A id \in Ids(p.orders) : StatusOf(q, id) = StatusOf(r, id)
    BY <1>1, <2>2, <2>4, <2>5 DEF Changed
  <2> QED
    BY <1>1, <1>5, <2>1, <2>4, <2>6 DEF Changed, Refreshed, q
<1> QED
  BY <1>6, <1>7


-----------------------------------------------------------------------------
(* The invariant.  The venue has no order that is not on record, and every    *)
(* order on record as open; its updates and the placements on record are true *)
(* of it, as far as they go: an order that has ended is not reported open     *)
(* last, and a placement whose order is open there is open on record.         *)
VenueFields == {"status", "left", "logical", "of", "side", "replaces"}
VenueOk ==
    /\ DOMAIN venue \subseteq Ids(truth.orders)
    /\ \A id \in DOMAIN venue : /\ DOMAIN venue[id] = VenueFields
                                /\ venue[id].replaces \subseteq truth.actions
    /\ \A id \in Ids(truth.orders) : StatusOf(truth, id) = "open" => id \in DOMAIN venue

FeedOk ==
    /\ IsSequence(feed)
    /\ \A u \in ToSet(feed) : /\ u.id \in DOMAIN venue
                              /\ u.status # "open" => venue[u.id].status # "open"

PlacesTrue ==
    \A x \in ToSet(truth.places) :
        /\ x.kind # "staged_release" <=> x.id \in DOMAIN venue
        /\ x.id \in DOMAIN venue =>
              /\ venue[x.id].logical = x.logical
              /\ venue[x.id].status = "open" => StatusOf(truth, x.id) = "open"

(* The commands still to be submitted: one that replaces an order comes after *)
(* the one that cancels it.                                                   *)
CancelledBefore(todo, k, id) ==
    \E j \in DOMAIN todo : j < k /\ todo[j].type = "cancel" /\ todo[j].target = id
PlaceOk(todo, k) ==
    /\ \/ todo[k].kind = "initial" /\ todo[k].logical = todo[k].id
       \/ todo[k].kind \in {"release", "cancel_replace"} /\ todo[k].logical \in Ids(truth.logical)
    /\ todo[k].replaces \subseteq truth.actions
    /\ \A x \in todo[k].replaces \cap OpenIds : CancelledBefore(todo, k, x)
CommandsOk(todo) ==
    /\ IsSequence(todo)
    /\ \A k \in DOMAIN todo : \/ todo[k].type = "cancel" /\ todo[k].target \in DOMAIN venue
                              \/ todo[k].type = "place" /\ PlaceOk(todo, k)
JobOk == DOMAIN job = {"at", "todo"} /\ CommandsOk(job.todo)

ManagersInv == TruthOk(truth) /\ VenueOk /\ FeedOk /\ PlacesTrue /\ JobOk /\ NoDoubleExposure

(* For one order per logical order: what is placed under a logical order on   *)
(* record comes after its open order is cancelled, and there is one such.     *)
Dependent(c) == c.type = "place" /\ c.kind # "initial"
InTurn(todo) ==
    \A k \in DOMAIN todo : Dependent(todo[k]) =>
        /\ \A x \in ToSet(truth.places) :
              x.id \in OpenIds /\ x.logical = todo[k].logical => CancelledBefore(todo, k, x.id)
        /\ \A j \in DOMAIN todo :
              Dependent(todo[j]) /\ todo[j].logical = todo[k].logical => j = k
TurnInv == ManagersInv /\ OneLivePlacement /\ InTurn(job.todo)

(* A step of the venue: new orders, and others that stay what they were or    *)
(* end.                                                                       *)
VenueMoves(added) ==
    /\ DOMAIN venue' = DOMAIN venue \cup added
    /\ \A id \in DOMAIN venue' : DOMAIN venue'[id] = VenueFields
    /\ \A id \in DOMAIN venue \ added :
          /\ venue'[id].logical = venue[id].logical /\ venue'[id].replaces = venue[id].replaces
          /\ venue'[id].status = "open" => venue[id].status = "open"
    /\ FeedOk'
Added(c) == IF c.type = "place" THEN {c.id} ELSE {}
Affects(c) ==
    /\ VenueMoves(Added(c))
    /\ c.type = "place" => venue'[c.id].logical = c.logical /\ venue'[c.id].replaces = c.replaces
    /\ c.type = "cancel" => venue'[c.target].status # "open"

LEMMA ReportFacts ==
    ASSUME IsSequence(feed), NEW id, NEW status, NEW left, Report(id, status, left)
    PROVE  /\ IsSequence(feed')
           /\ \E u : u.id = id /\ u.status = status /\ ToSet(feed') = ToSet(feed) \cup {u}
<1> DEFINE u == [id |-> id, status |-> status, left |-> left]
<1>1. feed' = Append(feed, u) /\ u.id = id /\ u.status = status
  BY DEF Report
<1> HIDE DEF u
<1>2. IsSequence(Append(feed, u)) /\ ToSet(Append(feed, u)) = ToSet(feed) \cup {u}
  BY AppendOne
<1>3. IsSequence(feed') /\ ToSet(feed') = ToSet(feed) \cup {u}
  BY <1>1, <1>2
<1> QED
  BY <1>1, <1>3

LEMMA EffectFacts ==
    ASSUME VenueOk, FeedOk, NEW c, c.id \notin DOMAIN venue,
           \/ c.type = "cancel" /\ c.target \in DOMAIN venue
           \/ c.type = "place",
           Effect(c)
    PROVE  Affects(c)
<1>0. IsSequence(feed)
  BY DEF FeedOk
<1>1. CASE c.type = "cancel" /\ c.target \in DOMAIN venue
  <2>1. /\ venue' = [venue EXCEPT ![c.target].status = "cancelled"]
        /\ Report(c.target, "cancelled", venue[c.target].left)
    BY <1>1 DEF Effect
  <2>2. IsSequence(feed')
    BY <1>0, <2>1, ReportFacts
  <2>3. PICK u : u.id = c.target /\ u.status = "cancelled" /\ ToSet(feed') = ToSet(feed) \cup {u}
    BY <1>0, <2>1, ReportFacts
  <2>4. /\ DOMAIN venue' = DOMAIN venue
        /\ venue'[c.target] = [venue[c.target] EXCEPT !.status = "cancelled"]
        /\ \A id \in DOMAIN venue : id # c.target => venue'[id] = venue[id]
    BY <1>1, <2>1
  <2>5. /\ DOMAIN venue'[c.target] = VenueFields /\ venue'[c.target].status = "cancelled"
        /\ venue'[c.target].logical = venue[c.target].logical
        /\ venue'[c.target].replaces = venue[c.target].replaces
    BY <1>1, <2>4 DEF VenueOk, VenueFields
  <2>6. FeedOk'
    BY <2>2, <2>3, <2>4, <2>5, <1>1 DEF FeedOk
  <2>7. VenueMoves({})
    BY <2>4, <2>5, <2>6 DEF VenueMoves, VenueOk
  <2> QED
    BY <1>1, <2>5, <2>7 DEF Affects, Added
<1>2. CASE c.type = "place"
  <2>1. /\ venue' = [id \in DOMAIN venue \cup {c.id} |-> IF id = c.id THEN NewOrder(c) ELSE venue[id]]
        /\ Report(c.id, "open", c.size)
    BY <1>2 DEF Effect
  <2>2. IsSequence(feed')
    BY <1>0, <2>1, ReportFacts
  <2>3. PICK u : u.id = c.id /\ u.status = "open" /\ ToSet(feed') = ToSet(feed) \cup {u}
    BY <1>0, <2>1, ReportFacts
  <2>4. /\ DOMAIN venue' = DOMAIN venue \cup {c.id} /\ venue'[c.id] = NewOrder(c)
        /\ \A id \in DOMAIN venue : id # c.id => venue'[id] = venue[id]
    BY <2>1
  <2>5. /\ DOMAIN venue'[c.id] = VenueFields
        /\ venue'[c.id].logical = c.logical /\ venue'[c.id].replaces = c.replaces
    BY <2>4 DEF NewOrder, VenueFields
  <2>6. FeedOk'
    <3>1. \A w \in ToSet(feed) : w.id \in DOMAIN venue' /\ (w.status # "open" => venue'[w.id].status # "open")
      BY <2>4 DEF FeedOk
    <3> QED
      BY <2>2, <2>3, <2>4, <3>1 DEF FeedOk
  <2>7. VenueMoves({c.id})
    BY <2>4, <2>5, <2>6 DEF VenueMoves, VenueOk
  <2> QED
    BY <1>2, <2>5, <2>7 DEF Affects, Added
<1> QED
  BY <1>1, <1>2

LEMMA NoEffectFacts ==
    ASSUME VenueOk, FeedOk, UNCHANGED <<venue, feed>>
    PROVE  VenueMoves({})
<1>1. FeedOk'
  BY DEF FeedOk
<1> QED
  BY <1>1 DEF VenueMoves, VenueOk

(* A step without a new placement: what was true of the venue stays true.     *)
LEMMA NothingPlaced ==
    ASSUME TruthOk(truth), VenueOk, PlacesTrue, NoDoubleExposure,
           TruthOk(truth'), truth'.places = truth.places,
           truth.actions \subseteq truth'.actions, Ids(truth.orders) \subseteq Ids(truth'.orders),
           NEW added, VenueMoves(added), added \cap truth.actions = {}, added \subseteq Ids(truth'.orders),
           \A id \in added : /\ venue'[id].replaces \subseteq truth.actions
                             /\ venue'[id].replaces \cap OpenIds = {},
           \A id \in Ids(truth'.orders) : StatusOf(truth', id) = "open" => id \in DOMAIN venue',
           \A id \in DOMAIN venue :
              venue'[id].status = "open" /\ StatusOf(truth, id) = "open" => StatusOf(truth', id) = "open"
    PROVE  VenueOk' /\ PlacesTrue' /\ NoDoubleExposure' /\ (OneLivePlacement => OneLivePlacement')
<1>1. Ids(truth.orders) \subseteq truth.actions
  BY DEF TruthOk, Ids
<1>2. \A id \in DOMAIN venue : id \notin added
  BY <1>1 DEF VenueOk
<1>3. \A x \in ToSet(truth.places) : x.id \in truth.actions /\ x.id \notin added
  BY <1>1 DEF TruthOk
<1>4. VenueOk'
  BY <1>2 DEF VenueOk, VenueMoves
<1>5. PlacesTrue'
  BY <1>2, <1>3 DEF PlacesTrue, VenueMoves
<1>6. OpenIds' \subseteq OpenIds \cup added
  BY <1>2 DEF OpenIds, VenueMoves
<1>7. NoDoubleExposure'
  BY <1>2, <1>6 DEF NoDoubleExposure, VenueMoves, VenueOk
<1>8. OneLivePlacement => OneLivePlacement'
  <2>1. Ids(truth'.places) = Ids(truth.places) /\ Ids(truth.places) \cap added = {}
    BY <1>3 DEF Ids, ToSet
  <2>2. \A i \in OpenIds' \cap Ids(truth'.places) :
           i \in OpenIds \cap Ids(truth.places) /\ venue'[i].logical = venue[i].logical
    BY <1>6, <2>1 DEF VenueMoves, OpenIds
  <2> QED
    BY <2>2 DEF OneLivePlacement
<1> QED
  BY <1>4, <1>5, <1>7, <1>8


LEMMA HeadFacts ==
    ASSUME NEW s, IsSequence(s), s # << >>
    PROVE  /\ Len(s) \in Nat \ {0} /\ DOMAIN s = 1..Len(s) /\ 1 \in DOMAIN s /\ Head(s) = s[1]
           /\ IsSequence(Tail(s)) /\ DOMAIN Tail(s) = 1..(Len(s) - 1)
           /\ \A k \in DOMAIN Tail(s) : Tail(s)[k] = s[k + 1]
<1>1. PICK S : s \in Seq(S)
  BY DEF IsSequence
<1>2. Len(s) \in Nat \ {0} /\ DOMAIN s = 1..Len(s) /\ 1 \in DOMAIN s /\ Head(s) = s[1]
  BY <1>1
<1>3. Tail(s) \in Seq(S) /\ Len(Tail(s)) = Len(s) - 1
  BY <1>1
<1>4. DOMAIN Tail(s) = 1..(Len(s) - 1)
  BY <1>1, <1>2, <1>3
<1>5. \A k \in 1..(Len(s) - 1) : Tail(s)[k] = s[k + 1]
  BY <1>1, <1>2
<1> QED
  BY <1>2, <1>3, <1>4, <1>5 DEF IsSequence

(* What is left of the commands when the first one was executed.              *)
LEMMA RestOfJob ==
    ASSUME JobOk, job.todo # << >>, job' = Submitted
    PROVE  /\ DOMAIN job' = {"at", "todo"} /\ IsSequence(job'.todo)
           /\ \A k \in DOMAIN job'.todo :
                 k \in Nat \ {0} /\ k + 1 \in DOMAIN job.todo /\ job'.todo[k] = job.todo[k + 1]
           /\ \A k \in DOMAIN job.todo : k = 1 \/ k - 1 \in DOMAIN job'.todo
           /\ Head(job.todo) = job.todo[1] /\ 1 \in DOMAIN job.todo /\ DOMAIN job.todo \subseteq Nat
<1> DEFINE s == job.todo
<1> DEFINE t == job'.todo
<1>1. IsSequence(s) /\ s # << >>
  BY DEF JobOk, CommandsOk
<1>2. DOMAIN job' = {"at", "todo"} /\ t = IF Len(s) = 1 THEN << >> ELSE Tail(s)
  BY DEF JobOk, Submitted, NextStrategy, IdleJob
<1> HIDE DEF s, t
<1>3. /\ Len(s) \in Nat \ {0} /\ DOMAIN s = 1..Len(s) /\ 1 \in DOMAIN s /\ Head(s) = s[1]
      /\ IsSequence(Tail(s)) /\ DOMAIN Tail(s) = 1..(Len(s) - 1)
      /\ \A k \in DOMAIN Tail(s) : Tail(s)[k] = s[k + 1]
  BY <1>1, HeadFacts
<1>4. DOMAIN t = 1..(Len(s) - 1) /\ IsSequence(t) /\ \A k \in DOMAIN t : t[k] = s[k + 1]
  <2>1. CASE Len(s) = 1
    <3>1. t = << >> /\ IsSequence(<< >>) /\ DOMAIN << >> = {}
      BY <1>2, <2>1, NoElement
    <3> QED
      BY <2>1, <3>1
  <2>2. CASE Len(s) # 1
    BY <1>2, <1>3, <2>2
  <2> QED
    BY <2>1, <2>2
<1>5. \A k \in DOMAIN t : k \in Nat \ {0} /\ k + 1 \in DOMAIN s
  BY <1>3, <1>4
<1>6. \A k \in DOMAIN s : k = 1 \/ k - 1 \in DOMAIN t
  BY <1>3, <1>4
<1>7. DOMAIN s \subseteq Nat
  BY <1>3
<1> QED
  BY <1>2, <1>3, <1>4, <1>5, <1>6, <1>7 DEF s, t

LEMMA ExecutedCommandGone ==
    ASSUME TruthOk(truth), VenueOk, JobOk, job.todo # << >>, job' = Submitted,
           NEW c, c = Head(job.todo), c.id \notin truth.actions, Affects(c),
           truth.actions \subseteq truth'.actions, Ids(truth.logical) \subseteq Ids(truth'.logical)
    PROVE  /\ JobOk'
           /\ \A k \in DOMAIN job'.todo : \A id \in truth.actions :
                 CancelledBefore(job.todo, k + 1, id) =>
                    \/ CancelledBefore(job'.todo, k, id)
                    \/ id \notin OpenIds'
<1>1. /\ DOMAIN job' = {"at", "todo"} /\ IsSequence(job'.todo)
      /\ \A k \in DOMAIN job'.todo :
            k \in Nat \ {0} /\ k + 1 \in DOMAIN job.todo /\ job'.todo[k] = job.todo[k + 1]
      /\ \A k \in DOMAIN job.todo : k = 1 \/ k - 1 \in DOMAIN job'.todo
      /\ c = job.todo[1] /\ 1 \in DOMAIN job.todo /\ DOMAIN job.todo \subseteq Nat
  BY RestOfJob
<1>2. ASSUME NEW k \in DOMAIN job'.todo, NEW id, CancelledBefore(job.todo, k + 1, id)
      PROVE  CancelledBefore(job'.todo, k, id) \/ id \notin OpenIds'
  <2>1. PICK j \in DOMAIN job.todo : j < k + 1 /\ job.todo[j].type = "cancel" /\ job.todo[j].target = id
    BY <1>2 DEF CancelledBefore
  <2>2. CASE j = 1
    <3>1. c.type = "cancel" /\ c.target = id
      BY <1>1, <2>1, <2>2
    <3>2. venue'[id].status # "open"
      BY <3>1 DEF Affects
    <3> QED
      BY <3>2 DEF OpenIds
  <2>3. CASE j # 1
    <3>1. j - 1 \in DOMAIN job'.todo /\ j \in Nat /\ k \in Nat
      BY <1>1, <2>3
    <3>2. job'.todo[j - 1] = job.todo[(j - 1) + 1] /\ (j - 1) + 1 = j /\ j - 1 < k
      BY <1>1, <2>1, <3>1
    <3>3. job'.todo[j - 1].type = "cancel" /\ job'.todo[j - 1].target = id
      BY <2>1, <3>2
    <3> QED
      BY <3>1, <3>2, <3>3 DEF CancelledBefore
  <2> QED
    BY <2>2, <2>3
<1>3. Ids(truth.orders) \subseteq truth.actions
  BY DEF TruthOk, Ids
<1>4. DOMAIN venue \subseteq DOMAIN venue' /\ OpenIds' \subseteq OpenIds \cup Added(c)
  <2>1. Added(c) \cap DOMAIN venue = {}
    BY <1>3 DEF Added, VenueOk
  <2> QED
    BY <2>1 DEF Affects, VenueMoves, OpenIds
<1>5. ASSUME NEW k \in DOMAIN job'.todo, PlaceOk(job.todo, k + 1)
      PROVE  PlaceOk(job.todo, k)'
  <2>1. job'.todo[k] = job.todo[k + 1]
    BY <1>1
  <2>2. job.todo[k + 1].replaces \subseteq truth.actions
    BY <1>5 DEF PlaceOk
  <2>3. ASSUME NEW x \in job'.todo[k].replaces \cap OpenIds'
        PROVE  CancelledBefore(job'.todo, k, x)
    <3>1. x \in job.todo[k + 1].replaces \cap OpenIds
      BY <1>4, <2>1, <2>2, <2>3 DEF Added
    <3>2. CancelledBefore(job.todo, k + 1, x)
      BY <1>5, <3>1 DEF PlaceOk
    <3> QED
      BY <1>2, <2>3, <3>2
  <2>4. \A x \in job'.todo[k].replaces \cap OpenIds' : CancelledBefore(job.todo, k, x)'
    BY <2>3 DEF CancelledBefore
  <2>5. /\ \/ job'.todo[k].kind = "initial" /\ job'.todo[k].logical = job'.todo[k].id
           \/ job'.todo[k].kind \in {"release", "cancel_replace"} /\ job'.todo[k].logical \in Ids(truth'.logical)
        /\ job'.todo[k].replaces \subseteq truth'.actions
    BY <1>5, <2>1 DEF PlaceOk
  <2> QED
    BY <2>4, <2>5 DEF PlaceOk
<1>6. ASSUME NEW k \in DOMAIN job'.todo
      PROVE  \/ job'.todo[k].type = "cancel" /\ job'.todo[k].target \in DOMAIN venue'
             \/ job'.todo[k].type = "place" /\ PlaceOk(job.todo, k)'
  <2>1. k + 1 \in DOMAIN job.todo /\ job'.todo[k] = job.todo[k + 1]
    BY <1>1
  <2>2. \/ job.todo[k + 1].type = "cancel" /\ job.todo[k + 1].target \in DOMAIN venue
        \/ job.todo[k + 1].type = "place" /\ PlaceOk(job.todo, k + 1)
    BY <2>1 DEF JobOk, CommandsOk
  <2> QED
    BY <1>4, <1>5, <2>1, <2>2
<1>7. JobOk'
  BY <1>1, <1>6 DEF JobOk, CommandsOk
<1> QED
  BY <1>2, <1>7


(* What the invariant says of the next command.                               *)
LEMMA NextCommand ==
    ASSUME ManagersInv, job.todo # << >>, NEW c, c = Head(job.todo)
    PROVE  /\ Names(truth, c)
           /\ Ids(truth.orders) \subseteq truth.actions /\ DOMAIN venue \subseteq Ids(truth.orders)
           /\ \/ c.type = "cancel" /\ c.target \in DOMAIN venue
              \/ /\ c.type = "place" /\ c.kind # "staged_release" /\ c.replaces \subseteq truth.actions
                 /\ c.replaces \cap OpenIds = {}
                 /\ ~Dependent(c) => c.logical = c.id
           /\ InTurn(job.todo) /\ Dependent(c) =>
                 /\ c.logical \in Ids(truth.logical)
                 /\ \A x \in ToSet(truth.places) : x.id \in OpenIds => x.logical # c.logical
<1>1. IsSequence(job.todo)
  BY DEF ManagersInv, JobOk, CommandsOk
<1>2. 1 \in DOMAIN job.todo /\ c = job.todo[1] /\ DOMAIN job.todo \subseteq Nat \ {0}
  <2> DEFINE s == job.todo
  <2>1. IsSequence(s) /\ s # << >> /\ c = Head(s)
    BY <1>1
  <2> HIDE DEF s
  <2>2. 1 \in DOMAIN s /\ Head(s) = s[1] /\ Len(s) \in Nat \ {0} /\ DOMAIN s = 1..Len(s)
    BY <2>1, HeadFacts
  <2>3. 1 \in DOMAIN s /\ c = s[1] /\ DOMAIN s \subseteq Nat \ {0}
    BY <2>1, <2>2
  <2> QED
    BY <2>3 DEF s
<1>3. \A id : ~CancelledBefore(job.todo, 1, id)
  BY <1>2 DEF CancelledBefore
<1>4. Ids(truth.orders) \subseteq truth.actions /\ DOMAIN venue \subseteq Ids(truth.orders)
  BY DEF ManagersInv, TruthOk, Ids, VenueOk
<1>5. \/ c.type = "cancel" /\ c.target \in DOMAIN venue
      \/ c.type = "place" /\ PlaceOk(job.todo, 1)
  BY <1>2 DEF ManagersInv, JobOk, CommandsOk
<1>6. PlaceOk(job.todo, 1) =>
         /\ c.kind # "staged_release" /\ c.replaces \subseteq truth.actions
         /\ c.replaces \cap OpenIds = {}
         /\ \/ c.kind = "initial" /\ c.logical = c.id
            \/ c.kind \in {"release", "cancel_replace"} /\ c.logical \in Ids(truth.logical)
  BY <1>2, <1>3 DEF PlaceOk
<1>7. ASSUME InTurn(job.todo), Dependent(c)
      PROVE  \A x \in ToSet(truth.places) : x.id \in OpenIds => x.logical # c.logical
  BY <1>2, <1>3, <1>7 DEF InTurn
<1>8. Names(truth, c)
  BY <1>5, <1>6 DEF Names
<1> QED
  BY <1>4, <1>5, <1>6, <1>7, <1>8 DEF Dependent

LEMMA ExecuteKeeps ==
    ASSUME ManagersInv, Execute
    PROVE  ManagersInv' /\ (TurnInv => TurnInv')
<1> DEFINE c == Head(job.todo)
<1>1. /\ job.todo # << >> /\ Effect(c) /\ truth' = Executed(truth, c) /\ job' = Submitted
      /\ c.id \notin truth.actions
  BY DEF Execute, Refused
<1> HIDE DEF c
<1>2. /\ Names(truth, c)
      /\ Ids(truth.orders) \subseteq truth.actions /\ DOMAIN venue \subseteq Ids(truth.orders)
      /\ \/ c.type = "cancel" /\ c.target \in DOMAIN venue
         \/ /\ c.type = "place" /\ c.kind # "staged_release" /\ c.replaces \subseteq truth.actions
            /\ c.replaces \cap OpenIds = {}
            /\ ~Dependent(c) => c.logical = c.id
      /\ InTurn(job.todo) /\ Dependent(c) =>
            /\ c.logical \in Ids(truth.logical)
            /\ \A x \in ToSet(truth.places) : x.id \in OpenIds => x.logical # c.logical
  BY <1>1, NextCommand DEF c
<1>3. TruthOk(truth) /\ VenueOk /\ FeedOk /\ PlacesTrue /\ JobOk /\ NoDoubleExposure
  BY DEF ManagersInv
<1>4. Affects(c)
  <2>1. c.id \notin DOMAIN venue
    BY <1>1, <1>2
  <2> QED
    BY <1>1, <1>2, <1>3, <2>1, EffectFacts
<1>5. Done(truth, truth', c)
  <2>1. c.type = "cancel" => c.target \in Ids(truth.orders)
    BY <1>2
  <2> QED
    BY <1>1, <1>2, <1>3, <2>1, ExecutedFacts
<1>6. /\ TruthOk(truth') /\ truth'.actions = truth.actions \cup {c.id}
      /\ Ids(truth.orders) \subseteq Ids(truth'.orders) /\ Ids(truth.logical) \subseteq Ids(truth'.logical)
      /\ c.type = "place" => c.id \in Ids(truth'.orders)
  BY <1>2, <1>5 DEF Done
<1>7. /\ JobOk'
      /\ \A k \in DOMAIN job'.todo : \A id \in truth.actions :
            CancelledBefore(job.todo, k + 1, id) =>
               CancelledBefore(job'.todo, k, id) \/ id \notin OpenIds'
  BY <1>1, <1>3, <1>4, <1>6, ExecutedCommandGone DEF c
<1>8. FeedOk'
  BY <1>4 DEF Affects, VenueMoves
<1>9. /\ \A k \in DOMAIN job'.todo :
            k \in Nat \ {0} /\ k + 1 \in DOMAIN job.todo /\ job'.todo[k] = job.todo[k + 1]
      /\ c = job.todo[1] /\ 1 \in DOMAIN job.todo
  BY <1>1, <1>3, RestOfJob DEF c
<1>10. OpenIds' \subseteq OpenIds \cup Added(c)
  <2>1. Added(c) \cap DOMAIN venue = {}
    BY <1>1, <1>2 DEF Added
  <2> QED
    BY <1>4, <2>1 DEF Affects, VenueMoves, OpenIds
<1>11. \A x \in ToSet(truth.places) : x.id \in truth.actions /\ x.logical \in truth.actions
  BY <1>2, <1>3 DEF TruthOk
<1>12. CASE c.type = "cancel" /\ c.target \in DOMAIN venue
  <2>1. /\ truth'.places = truth.places /\ StatusOf(truth', c.target) = "cancelled"
        /\ \A id \in Ids(truth.orders) : id # c.target => StatusOf(truth', id) = StatusOf(truth, id)
        /\ Ids(truth'.orders) = Ids(truth.orders)
    BY <1>5, <1>12 DEF Done
  <2>2. VenueMoves({}) /\ venue'[c.target].status # "open"
    BY <1>4, <1>12 DEF Affects, Added
  <2>3. \A id \in Ids(truth'.orders) : StatusOf(truth', id) = "open" => id \in DOMAIN venue'
    <3>1. DOMAIN venue' = DOMAIN venue
      BY <2>2 DEF VenueMoves
    <3> QED
      BY <1>3, <2>1, <3>1 DEF VenueOk
  <2>4. \A id \in DOMAIN venue :
           venue'[id].status = "open" /\ StatusOf(truth, id) = "open" => StatusOf(truth', id) = "open"
    BY <1>2, <2>1, <2>2
  <2>5. VenueOk' /\ PlacesTrue' /\ NoDoubleExposure' /\ (OneLivePlacement => OneLivePlacement')
    BY <1>3, <1>6, <2>1, <2>2, <2>3, <2>4, NothingPlaced
  <2>6. ASSUME InTurn(job.todo)
        PROVE  InTurn(job.todo)'
    <3>1. OpenIds' \subseteq OpenIds
      BY <1>10, <1>12 DEF Added
    <3>2. ASSUME NEW k \in DOMAIN job'.todo, Dependent(job'.todo[k]),
                 NEW x \in ToSet(truth'.places), x.id \in OpenIds', x.logical = job'.todo[k].logical
          PROVE  CancelledBefore(job'.todo, k, x.id)
      <4>1. CancelledBefore(job.todo, k + 1, x.id)
        BY <1>9, <2>1, <2>6, <3>1, <3>2 DEF InTurn
      <4> QED
        BY <1>7, <1>11, <2>1, <3>2, <4>1
    <3>3. ASSUME NEW k \in DOMAIN job'.todo, Dependent(job'.todo[k]), NEW j \in DOMAIN job'.todo,
                 Dependent(job'.todo[j]), job'.todo[j].logical = job'.todo[k].logical
          PROVE  j = k
      <4>1. j + 1 = k + 1
        BY <1>9, <2>6, <3>3 DEF InTurn
      <4> QED
        BY <1>9, <4>1
    <3>4. \A k \in DOMAIN job'.todo : \A id : CancelledBefore(job'.todo, k, id) <=> CancelledBefore(job.todo, k, id)'
      BY DEF CancelledBefore
    <3> QED
      BY <3>2, <3>3, <3>4 DEF InTurn, Dependent
  <2> QED
    BY <1>6, <1>7, <1>8, <2>5, <2>6 DEF ManagersInv, TurnInv
<1>13. CASE c.type = "place"
  <2>1. /\ StatusOf(truth', c.id) = "open"
        /\ \A id \in Ids(truth.orders) : StatusOf(truth', id) = StatusOf(truth, id)
        /\ Ids(truth'.orders) = Ids(truth.orders) \cup {c.id}
    BY <1>5, <1>13 DEF Done
  <2>2. PICK y : /\ y.id = c.id /\ y.logical = c.logical /\ y.kind = c.kind
                 /\ ToSet(truth'.places) = ToSet(truth.places) \cup {y}
    BY <1>5, <1>13 DEF Done
  <2>3. /\ DOMAIN venue' = DOMAIN venue \cup {c.id} /\ OpenIds' \subseteq OpenIds \cup {c.id}
        /\ \A id \in DOMAIN venue' : DOMAIN venue'[id] = VenueFields
        /\ \A id \in DOMAIN venue : /\ venue'[id].logical = venue[id].logical
                                    /\ venue'[id].replaces = venue[id].replaces
                                    /\ venue'[id].status = "open" => venue[id].status = "open"
        /\ venue'[c.id].logical = c.logical /\ venue'[c.id].replaces = c.replaces
    BY <1>1, <1>2, <1>4, <1>10, <1>13 DEF Affects, VenueMoves, Added
  <2>4. /\ c.kind # "staged_release" /\ c.replaces \subseteq truth.actions
        /\ c.replaces \cap OpenIds = {} /\ (~Dependent(c) => c.logical = c.id)
    BY <1>2, <1>13
  <2>5. VenueOk'
    BY <1>3, <1>6, <2>1, <2>3, <2>4 DEF VenueOk
  <2>6. PlacesTrue'
    <3>1. \A x \in ToSet(truth.places) : x.id # c.id /\ x.id \in Ids(truth.orders)
      BY <1>1, <1>2, <1>3 DEF TruthOk
    <3> QED
      BY <1>3, <2>1, <2>2, <2>3, <2>4, <3>1 DEF PlacesTrue
  <2>7. NoDoubleExposure'
    BY <1>1, <1>3, <2>3, <2>4 DEF NoDoubleExposure, VenueOk
  <2>8. ASSUME OneLivePlacement, InTurn(job.todo)
        PROVE  OneLivePlacement'
    <3>1. Ids(truth'.places) = Ids(truth.places) \cup {c.id}
      BY <2>2 DEF Ids, ToSet
    <3>2. ASSUME NEW j \in OpenIds' \cap Ids(truth'.places), j # c.id
          PROVE  j \in OpenIds /\ j \in Ids(truth.places) /\ venue'[j].logical = venue[j].logical
                 /\ venue[j].logical # c.logical
      <4>1. j \in OpenIds /\ j \in Ids(truth.places) /\ j \in DOMAIN venue
        BY <2>3, <3>1, <3>2 DEF OpenIds
      <4>2. PICK x \in ToSet(truth.places) : x.id = j
        BY <4>1 DEF Ids, ToSet
      <4>3. venue[j].logical = x.logical
        BY <1>3, <4>1, <4>2 DEF PlacesTrue
      <4>4. x.logical # c.logical
        <5>1. CASE Dependent(c)
          BY <1>2, <2>8, <4>1, <4>2, <5>1
        <5>2. CASE ~Dependent(c)
          BY <1>1, <1>11, <2>4, <5>2
        <5> QED
          BY <5>1, <5>2
      <4> QED
        BY <2>3, <4>1, <4>3, <4>4
    <3> SUFFICES ASSUME NEW i \in OpenIds' \cap Ids(truth'.places), NEW j \in OpenIds' \cap Ids(truth'.places),
                        venue'[i].logical = venue'[j].logical
                 PROVE  i = j
      BY DEF OneLivePlacement
    <3>3. CASE i = c.id \/ j = c.id
      BY <2>3, <3>2, <3>3
    <3>4. CASE i # c.id /\ j # c.id
      BY <2>8, <3>2, <3>4 DEF OneLivePlacement
    <3> QED
      BY <3>3, <3>4
  <2>9. ASSUME InTurn(job.todo)
        PROVE  InTurn(job.todo)'
    <3>1. ASSUME NEW k \in DOMAIN job'.todo, Dependent(job'.todo[k]), NEW j \in DOMAIN job'.todo,
                 Dependent(job'.todo[j]), job'.todo[j].logical = job'.todo[k].logical
          PROVE  j = k
      <4>1. j + 1 = k + 1
        BY <1>9, <2>9, <3>1 DEF InTurn
      <4> QED
        BY <1>9, <4>1
    <3>2. ASSUME NEW k \in DOMAIN job'.todo, Dependent(job'.todo[k])
          PROVE  job'.todo[k].logical # c.logical
      <4>1. job'.todo[k] = job.todo[k + 1] /\ k + 1 \in DOMAIN job.todo /\ k \in Nat \ {0}
        BY <1>9
      <4>2. k + 1 # 1
        BY <4>1
      <4>3. CASE Dependent(c)
        BY <1>9, <2>9, <3>2, <4>1, <4>2, <4>3 DEF InTurn
      <4>4. CASE ~Dependent(c)
        <5>1. \/ job.todo[k + 1].type = "cancel" \/ PlaceOk(job.todo, k + 1)
          BY <1>3, <4>1 DEF JobOk, CommandsOk
        <5>2. job'.todo[k].logical \in Ids(truth.logical)
          BY <3>2, <4>1, <5>1 DEF Dependent, PlaceOk
        <5> QED
          BY <1>1, <1>3, <2>4, <4>4, <5>2 DEF TruthOk
      <4> QED
        BY <4>3, <4>4
    <3>3. ASSUME NEW k \in DOMAIN job'.todo, Dependent(job'.todo[k]),
                 NEW x \in ToSet(truth'.places), x.id \in OpenIds', x.logical = job'.todo[k].logical
          PROVE  CancelledBefore(job'.todo, k, x.id)
      <4>1. x \in ToSet(truth.places)
        BY <2>2, <3>2, <3>3
      <4>2. x.id \in OpenIds
        BY <1>1, <1>11, <2>3, <3>3, <4>1
      <4>3. CancelledBefore(job.todo, k + 1, x.id)
        BY <1>9, <2>9, <3>3, <4>1, <4>2 DEF InTurn
      <4> QED
        BY <1>7, <1>11, <3>3, <4>1, <4>3
    <3>4. \A k \in DOMAIN job'.todo : \A id : CancelledBefore(job'.todo, k, id) <=> CancelledBefore(job.todo, k, id)'
      BY DEF CancelledBefore
    <3> QED
      BY <3>1, <3>3, <3>4 DEF InTurn, Dependent
  <2> QED
    BY <1>6, <1>7, <1>8, <2>5, <2>6, <2>7, <2>8, <2>9 DEF ManagersInv, TurnInv
<1> QED
  BY <1>2, <1>12, <1>13


LEMMA NothingToDo ==
    ASSUME job' = IdleJob \/ job' = NextStrategy
    PROVE  JobOk' /\ InTurn(job.todo)'
<1>1. DOMAIN job' = {"at", "todo"} /\ job'.todo = << >> /\ DOMAIN << >> = {}
  BY DEF IdleJob, NextStrategy
<1>2. IsSequence(<< >>)
  BY NoElement
<1> QED
  BY <1>1, <1>2 DEF JobOk, CommandsOk, InTurn

(* A submission that did not come to its end: whether the venue acted or not, *)
(* nothing else is submitted.                                                 *)
LEMMA UnfinishedKeeps ==
    ASSUME ManagersInv, job.todo # << >>, NEW c, c = Head(job.todo), c.id \notin truth.actions,
           Grows(truth, truth', c), c.type # "cancel" => StatusOf(truth', c.id) # "open",
           Effect(c) \/ NoEffect, job' = IdleJob
    PROVE  ManagersInv' /\ (TurnInv => TurnInv')
<1>1. /\ Ids(truth.orders) \subseteq truth.actions /\ DOMAIN venue \subseteq Ids(truth.orders)
      /\ \/ c.type = "cancel" /\ c.target \in DOMAIN venue
         \/ c.type = "place" /\ c.replaces \subseteq truth.actions /\ c.replaces \cap OpenIds = {}
  BY NextCommand
<1>2. TruthOk(truth) /\ VenueOk /\ FeedOk /\ PlacesTrue /\ NoDoubleExposure
  BY DEF ManagersInv
<1>3. JobOk' /\ InTurn(job.todo)'
  BY NothingToDo
<1>4. /\ TruthOk(truth') /\ truth'.places = truth.places /\ truth'.actions = truth.actions \cup {c.id}
      /\ Ids(truth'.orders) = Ids(truth.orders) \cup (IF c.type = "cancel" THEN {} ELSE {c.id})
      /\ \A id \in Ids(truth.orders) : StatusOf(truth', id) = StatusOf(truth, id)
  BY DEF Grows
<1>5. PICK added : /\ VenueMoves(added) /\ added \subseteq Added(c)
                   /\ \A id \in added : venue'[id].replaces = c.replaces
  <2>1. CASE Effect(c)
    <3>1. c.id \notin DOMAIN venue
      BY <1>1
    <3>2. Affects(c)
      BY <1>1, <1>2, <2>1, <3>1, EffectFacts
    <3> QED
      BY <3>2 DEF Affects, Added
  <2>2. CASE NoEffect
    BY <1>2, <2>2, NoEffectFacts DEF NoEffect
  <2> QED
    BY <2>1, <2>2
<1>6. /\ added \cap truth.actions = {} /\ added \subseteq Ids(truth'.orders)
      /\ \A id \in added : /\ venue'[id].replaces \subseteq truth.actions
                           /\ venue'[id].replaces \cap OpenIds = {}
  BY <1>1, <1>4, <1>5 DEF Added
<1>7. \A id \in Ids(truth'.orders) : StatusOf(truth', id) = "open" => id \in DOMAIN venue'
  BY <1>2, <1>4, <1>5 DEF VenueOk, VenueMoves
<1>8. \A id \in DOMAIN venue :
         venue'[id].status = "open" /\ StatusOf(truth, id) = "open" => StatusOf(truth', id) = "open"
  BY <1>1, <1>4
<1>9. truth.actions \subseteq truth'.actions /\ Ids(truth.orders) \subseteq Ids(truth'.orders)
  BY <1>4
<1>10. VenueOk' /\ PlacesTrue' /\ NoDoubleExposure' /\ (OneLivePlacement => OneLivePlacement')
  BY <1>2, <1>4, <1>5, <1>6, <1>7, <1>8, <1>9, NothingPlaced
<1>11. FeedOk'
  BY <1>5 DEF VenueMoves
<1> QED
  BY <1>3, <1>4, <1>10, <1>11 DEF ManagersInv, TurnInv

(* Steps that leave the ledger's identifiers and the commands alone.          *)
LEMMA RefreshedKeeps ==
    ASSUME ManagersInv, Refreshed(truth, truth'), VenueMoves({}),
           \A id \in Ids(truth'.orders) : StatusOf(truth', id) = "open" => id \in DOMAIN venue,
           \A id \in DOMAIN venue :
              venue'[id].status = "open" /\ StatusOf(truth, id) = "open" => StatusOf(truth', id) = "open",
           UNCHANGED job \/ job' = IdleJob
    PROVE  ManagersInv' /\ (TurnInv => TurnInv')
<1>1. TruthOk(truth) /\ VenueOk /\ FeedOk /\ PlacesTrue /\ JobOk /\ NoDoubleExposure
  BY DEF ManagersInv
<1>2. /\ TruthOk(truth') /\ truth'.places = truth.places /\ truth'.logical = truth.logical
      /\ truth'.actions = truth.actions /\ Ids(truth'.orders) = Ids(truth.orders)
  BY DEF Refreshed
<1>3. DOMAIN venue' = DOMAIN venue /\ FeedOk'
  BY DEF VenueMoves
<1>4. VenueOk' /\ PlacesTrue' /\ NoDoubleExposure' /\ (OneLivePlacement => OneLivePlacement')
  BY <1>1, <1>2, <1>3, NothingPlaced
<1>5. OpenIds' \subseteq OpenIds
  BY <1>3 DEF VenueMoves, OpenIds
<1>6. JobOk' /\ (InTurn(job.todo) => InTurn(job.todo)')
  <2>1. CASE job' = IdleJob
    BY <2>1, NothingToDo
  <2>2. CASE UNCHANGED job
    <3>1. \A k \in DOMAIN job.todo : PlaceOk(job.todo, k) => PlaceOk(job.todo, k)'
      BY <1>2, <1>5, <2>2 DEF PlaceOk, CancelledBefore
    <3>2. JobOk'
      BY <1>1, <1>3, <2>2, <3>1 DEF JobOk, CommandsOk
    <3>3. InTurn(job.todo) => InTurn(job.todo)'
      BY <1>2, <1>5, <2>2 DEF InTurn, Dependent, CancelledBefore
    <3> QED
      BY <3>2, <3>3
  <2> QED
    BY <2>1, <2>2
<1> QED
  BY <1>2, <1>3, <1>4, <1>6 DEF ManagersInv, TurnInv

LEMMA SameTruth ==
    ASSUME ManagersInv, UNCHANGED truth, VenueMoves({}), UNCHANGED job \/ job' = IdleJob
    PROVE  ManagersInv' /\ (TurnInv => TurnInv')
<1>1. Refreshed(truth, truth')
  BY DEF ManagersInv, Refreshed
<1>2. /\ \A id \in Ids(truth'.orders) : StatusOf(truth', id) = "open" => id \in DOMAIN venue
      /\ \A id \in DOMAIN venue :
            venue'[id].status = "open" /\ StatusOf(truth, id) = "open" => StatusOf(truth', id) = "open"
  BY DEF ManagersInv, VenueOk
<1> QED
  BY <1>1, <1>2, RefreshedKeeps

LEMMA RejectKeeps ==
    ASSUME ManagersInv, Reject
    PROVE  ManagersInv' /\ (TurnInv => TurnInv')
<1> DEFINE c == Head(job.todo)
<1>1. /\ job.todo # << >> /\ job' = IdleJob /\ UNCHANGED <<venue, feed>>
      /\ truth' = IF c.id \in truth.actions THEN truth ELSE Request(truth, c, "rejected")
  BY DEF Reject, StopAll
<1> HIDE DEF c
<1>2. CASE c.id \in truth.actions
  <2>1. VenueMoves({})
    BY <1>1, NoEffectFacts DEF ManagersInv
  <2> QED
    BY <1>1, <1>2, <2>1, SameTruth
<1>3. CASE c.id \notin truth.actions
  <2>1. Grows(truth, truth', c) /\ (c.type # "cancel" => StatusOf(truth', c.id) # "open")
    BY <1>1, <1>3, RequestFacts DEF ManagersInv
  <2> QED
    BY <1>1, <1>3, <2>1, UnfinishedKeeps DEF c, NoEffect
<1> QED
  BY <1>2, <1>3

LEMMA FailKeeps ==
    ASSUME ManagersInv, Fail
    PROVE  ManagersInv' /\ (TurnInv => TurnInv')
<1> DEFINE c == Head(job.todo)
<1>1. /\ job.todo # << >> /\ job' = IdleJob /\ c.id \notin truth.actions
      /\ Effect(c) \/ NoEffect
      /\ \E status \in {"failed", "rejected", "execution_unknown"} : truth' = Failed(truth, c, status)
  BY DEF Fail, StopAll, Refused
<1> HIDE DEF c
<1>2. PICK status \in {"failed", "rejected", "execution_unknown"} : truth' = Failed(truth, c, status)
  BY <1>1
<1>3. Names(truth, c) /\ TruthOk(truth)
  BY <1>1, NextCommand DEF c, ManagersInv
<1>4. Grows(truth, truth', c) /\ (c.type # "cancel" => StatusOf(truth', c.id) # "open")
  BY <1>1, <1>2, <1>3, FailedFacts
<1> QED
  BY <1>1, <1>4, UnfinishedKeeps DEF c

LEMMA DieKeeps ==
    ASSUME ManagersInv, Die
    PROVE  ManagersInv' /\ (TurnInv => TurnInv')
<1> DEFINE c == Head(job.todo)
<1>1. job' = IdleJob
  BY DEF Die
<1>2. CASE UNCHANGED <<truth, venue, feed>>
  <2>1. VenueMoves({})
    BY <1>2, NoEffectFacts DEF ManagersInv
  <2> QED
    BY <1>1, <1>2, <2>1, SameTruth
<1>3. CASE /\ job.todo # << >> /\ ~Refused(c)
           /\ \/ truth' = Request(truth, c, "requested") /\ NoEffect
              \/ truth' = Request(truth, c, "accepted") /\ NoEffect
              \/ truth' = Accepted(truth, c) /\ (Effect(c) \/ NoEffect)
  <2> HIDE DEF c
  <2>1. c.id \notin truth.actions
    BY <1>3 DEF Refused
  <2>2. Names(truth, c) /\ TruthOk(truth)
    BY <1>3, NextCommand DEF c, ManagersInv
  <2>3. /\ Grows(truth, truth', c)
        /\ c.type # "cancel" => StatusOf(truth', c.id) \in {"requested", "accepted"}
    <3>1. CASE truth' = Accepted(truth, c)
      BY <2>1, <2>2, <3>1, AcceptedFacts
    <3>2. CASE truth' = Request(truth, c, "requested")
      BY <2>1, <2>2, <3>2, RequestFacts
    <3>3. CASE truth' = Request(truth, c, "accepted")
      BY <2>1, <2>2, <3>3, RequestFacts
    <3> QED
      BY <1>3, <3>1, <3>2, <3>3
  <2>4. c.type # "cancel" => StatusOf(truth', c.id) # "open"
    BY <2>3
  <2>5. Effect(c) \/ NoEffect
    BY <1>3
  <2> QED
    BY <1>1, <1>3, <2>1, <2>3, <2>4, <2>5, UnfinishedKeeps DEF c
<1> QED
  BY <1>2, <1>3 DEF Die

LEMMA TradeKeeps ==
    ASSUME ManagersInv, Trade
    PROVE  ManagersInv' /\ (TurnInv => TurnInv')
<1> DEFINE Sells(id, size) ==
         /\ venue[id].status = "open" /\ UNCHANGED <<truth, job>>
         /\ LET left == venue[id].left - size
                status == IF left = 0 THEN "filled" ELSE "open"
            IN  /\ venue' = [venue EXCEPT ![id].status = status, ![id].left = left]
                /\ Report(id, status, left)
<1>0. PICK id \in DOMAIN venue : \E size \in 1..venue[id].left : Sells(id, size)
  BY DEF Trade
<1>1. PICK size \in 1..venue[id].left : Sells(id, size)
  BY <1>0
<1> DEFINE left == venue[id].left - size
<1> DEFINE status == IF left = 0 THEN "filled" ELSE "open"
<1>2. /\ venue' = [venue EXCEPT ![id].status = status, ![id].left = left]
      /\ Report(id, status, left)
  BY <1>1
<1> HIDE DEF left, status
<1>3. DOMAIN venue[id] = VenueFields /\ IsSequence(feed)
  BY DEF ManagersInv, VenueOk, FeedOk
<1>4. /\ DOMAIN venue' = DOMAIN venue
      /\ \A k \in DOMAIN venue : k # id => venue'[k] = venue[k]
      /\ venue'[id] = [venue[id] EXCEPT !.status = status, !.left = left]
  BY <1>2, <1>3
<1>5. /\ DOMAIN venue'[id] = VenueFields /\ venue'[id].status = status
      /\ venue'[id].logical = venue[id].logical /\ venue'[id].replaces = venue[id].replaces
  BY <1>3, <1>4 DEF VenueFields
<1>6. IsSequence(feed')
  BY <1>2, <1>3, ReportFacts
<1>7. PICK u : u.id = id /\ u.status = status /\ ToSet(feed') = ToSet(feed) \cup {u}
  BY <1>2, <1>3, ReportFacts
<1>8. FeedOk'
  BY <1>1, <1>4, <1>5, <1>6, <1>7 DEF FeedOk, ManagersInv
<1>9. VenueMoves({})
  BY <1>1, <1>4, <1>5, <1>8 DEF VenueMoves, ManagersInv, VenueOk
<1> QED
  BY <1>1, <1>9, SameTruth

LEMMA DeliverKeeps ==
    ASSUME ManagersInv, Deliver
    PROVE  ManagersInv' /\ (TurnInv => TurnInv')
<1> DEFINE s == feed
<1> DEFINE u == Head(feed)
<1>1. /\ s # << >> /\ truth' = Updated(truth, u) /\ feed' = Tail(s) /\ UNCHANGED <<job, venue>>
  BY DEF Deliver
<1>2. IsSequence(s) /\ u = Head(s)
  BY DEF ManagersInv, FeedOk
<1> HIDE DEF s, u
<1>3. /\ DOMAIN s = 1..Len(s) /\ 1 \in DOMAIN s /\ Len(s) \in Nat \ {0} /\ u = s[1]
      /\ IsSequence(Tail(s)) /\ DOMAIN Tail(s) = 1..(Len(s) - 1)
      /\ \A k \in DOMAIN Tail(s) : Tail(s)[k] = s[k + 1]
  BY <1>1, <1>2, HeadFacts
<1>4. u \in ToSet(s) /\ IsSequence(feed') /\ ToSet(feed') \subseteq ToSet(s)
  <2> DEFINE t == Tail(s)
  <2> HIDE DEF t
  <2>1. \A k \in DOMAIN t : t[k] \in ToSet(s)
    BY <1>3 DEF ToSet, t
  <2>2. ToSet(t) \subseteq ToSet(s)
    BY <2>1 DEF ToSet
  <2> QED
    BY <1>1, <1>3, <2>2 DEF ToSet, t
<1>5. /\ u.id \in DOMAIN venue /\ (u.status # "open" => venue[u.id].status # "open")
      /\ FeedOk'
  BY <1>1, <1>4 DEF ManagersInv, FeedOk, s
<1>6. /\ Refreshed(truth, truth') /\ StatusOf(truth', u.id) = u.status
      /\ \A id \in Ids(truth.orders) : id # u.id => StatusOf(truth', id) = StatusOf(truth, id)
  BY <1>1, <1>5, UpdatedFacts DEF ManagersInv, VenueOk
<1>7. VenueMoves({})
  BY <1>1, <1>5 DEF VenueMoves, ManagersInv, VenueOk
<1>8. /\ \A id \in Ids(truth'.orders) : StatusOf(truth', id) = "open" => id \in DOMAIN venue
      /\ \A id \in DOMAIN venue :
            venue'[id].status = "open" /\ StatusOf(truth, id) = "open" => StatusOf(truth', id) = "open"
  BY <1>1, <1>5, <1>6 DEF Refreshed, ManagersInv, VenueOk
<1> QED
  BY <1>1, <1>6, <1>7, <1>8, RefreshedKeeps

LEMMA RecordFillKeeps ==
    ASSUME ManagersInv, RecordFill
    PROVE  ManagersInv' /\ (TurnInv => TurnInv')
<1> DEFINE f == trades[Len(truth.fills) + 1]
<1>1. truth' = Filled(truth, f) /\ UNCHANGED <<job, venue, feed>>
  BY DEF RecordFill
<1> HIDE DEF f
<1>2. Refreshed(truth, truth') /\ \A id \in Ids(truth.orders) : StatusOf(truth', id) = StatusOf(truth, id)
  BY <1>1, FilledFacts DEF ManagersInv
<1>3. VenueMoves({})
  BY <1>1, NoEffectFacts DEF ManagersInv
<1>4. /\ \A id \in Ids(truth'.orders) : StatusOf(truth', id) = "open" => id \in DOMAIN venue
      /\ \A id \in DOMAIN venue :
            venue'[id].status = "open" /\ StatusOf(truth, id) = "open" => StatusOf(truth', id) = "open"
  BY <1>2 DEF Refreshed, ManagersInv, VenueOk
<1> QED
  BY <1>1, <1>2, <1>3, <1>4, RefreshedKeeps


-----------------------------------------------------------------------------
(* The decisions.                                                             *)
LEMMA BlocksOk ==
    ASSUME NEW c, NEW s, NEW n \in Nat, Blocks(c, s, 1..n), \A i \in 1..n : CommandsOk(s[i])
    PROVE  CommandsOk(c)
<1>1. IsSequence(c)
  BY DEF Blocks
<1>2. DOMAIN c \subseteq Nat
  BY <1>1, SequenceDomain
<1>3. ASSUME NEW k \in DOMAIN c
      PROVE  \/ c[k].type = "cancel" /\ c[k].target \in DOMAIN venue
             \/ c[k].type = "place" /\ PlaceOk(c, k)
  <2>1. PICK i \in 1..n, d \in Nat : At(c, s, k, i, d)
    BY <1>3 DEF Blocks
  <2>2. k - d \in DOMAIN s[i] /\ c[k] = s[i][k - d]
    <3>1. k - d \in DOMAIN s[i] /\ c[d + (k - d)] = s[i][k - d]
      BY <2>1 DEF At
    <3>2. d + (k - d) = k
      BY <1>2
    <3> QED
      BY <3>1, <3>2
  <2>3. IsSequence(s[i]) /\ DOMAIN s[i] \subseteq Nat
    BY SequenceDomain DEF CommandsOk
  <2>4. ASSUME NEW x, CancelledBefore(s[i], k - d, x)
        PROVE  CancelledBefore(c, k, x)
    <3>1. PICK j \in DOMAIN s[i] : j < k - d /\ s[i][j].type = "cancel" /\ s[i][j].target = x
      BY <2>4 DEF CancelledBefore
    <3>2. d + j \in DOMAIN c /\ c[d + j] = s[i][j]
      BY <2>1 DEF At
    <3>3. d + j < k
      BY <1>2, <2>3, <3>1
    <3> QED
      BY <3>1, <3>2, <3>3 DEF CancelledBefore
  <2>5. PlaceOk(s[i], k - d) => PlaceOk(c, k)
    BY <2>2, <2>4 DEF PlaceOk
  <2> QED
    BY <2>2, <2>5 DEF CommandsOk
<1> QED
  BY <1>1, <1>3 DEF CommandsOk

LEMMA TakenOk ==
    ASSUME NEW s, NEW n \in Nat, DOMAIN s = 1..n, \A i \in 1..n : CommandsOk(s[i]), NEW max \in Nat
    PROVE  CommandsOk(TakeFirst(s, max))
<1>1. \A i \in 1..n : IsSequence(s[i])
  BY DEF CommandsOk
<1>2. Blocks(TakeFirst(s, max), s, 1..n)
  BY <1>1, TakeFirstFacts
<1> QED
  BY <1>2, BlocksOk

LEMMA NoCommandOk == CommandsOk(<< >>)
  BY NoElement DEF CommandsOk

LEMMA OneCommandOk ==
    ASSUME NEW c, c.type = "place", c.replaces = {},
           \/ c.kind = "initial" /\ c.logical = c.id
           \/ c.kind \in {"release", "cancel_replace"} /\ c.logical \in Ids(truth.logical)
    PROVE  CommandsOk(<<c>>)
<1> DEFINE s == <<c>>
<1>1. IsSequence(s) /\ DOMAIN s = {1} /\ s[1] = c
  BY OneElement
<1> HIDE DEF s
<1>2. CommandsOk(s)
  BY <1>1 DEF CommandsOk, PlaceOk
<1> QED
  BY <1>2 DEF s

LEMMA ReleaseOk ==
    ASSUME ManagersInv, NEW x \in ToSet(truth.places)
    PROVE  CommandsOk(Release(truth, x))
<1> DEFINE c == [PlaceOrder(<<"release", x.id>>, "release", x.logical, x.side, x.size, x.price)
                   EXCEPT !.of = x.id]
<1>1. Release(truth, x) = << >> \/ Release(truth, x) = <<c>>
  BY DEF Release
<1>2. c.type = "place" /\ c.replaces = {} /\ c.kind = "release" /\ c.logical = x.logical
  BY DEF PlaceOrder
<1> HIDE DEF c
<1>3. x.logical \in Ids(truth.logical)
  BY DEF ManagersInv, TruthOk
<1>4. CommandsOk(<<c>>)
  BY <1>2, <1>3, OneCommandOk
<1> QED
  BY <1>1, <1>4, NoCommandOk

LEMMA FollowupOk ==
    ASSUME NEW f
    PROVE  CommandsOk(Followup(truth, f))
<1> DEFINE order == ById(truth.orders, f.order)
<1> DEFINE parent == ById(truth.logical, LogicalOf(truth, f.order))
<1> DEFINE id == FollowupId(truth, f)
<1> DEFINE c == [PlaceOrder(id, "initial", id, Opposite(parent.side), f.size, order.price)
                   EXCEPT !.relation = "followup_after_fill", !.root = parent.root,
                          !.parent = parent.id, !.sources = {parent.id}, !.of = f.id]
<1>1. Followup(truth, f) = << >> \/ Followup(truth, f) = <<c>>
  BY DEF Followup
<1> HIDE DEF order, parent, id
<1>2. c.type = "place" /\ c.replaces = {} /\ c.kind = "initial" /\ c.logical = c.id
  BY DEF PlaceOrder
<1> HIDE DEF c
<1>3. CommandsOk(<<c>>)
  BY <1>2, OneCommandOk
<1> QED
  BY <1>1, <1>3, NoCommandOk

(* The live order of a logical order with one is at the venue.                *)
LEMMA LiveOrderKnown ==
    ASSUME ManagersInv, NEW l, MergeSource(truth, l)
    PROVE  LiveOrder(truth, l).id \in DOMAIN venue /\ LiveOrder(truth, l).id \in truth.actions
<1> DEFINE live == OrdersOf(truth, l.id, CancelableStatuses)
<1>1. live # {}
  <2>1. Cardinality(live) = 1
    BY DEF MergeSource
  <2>2. Cardinality({}) = 0
    BY FS_EmptySet
  <2> QED
    BY <2>1, <2>2
<1>2. LiveOrder(truth, l) \in live
  BY <1>1 DEF LiveOrder
<1>3. PICK x \in ToSet(truth.places) : /\ x.kind # "staged_release"
                                       /\ LiveOrder(truth, l) = ById(truth.orders, x.id)
  BY <1>2 DEF OrdersOf, PlacesOf
<1>4. x.id \in DOMAIN venue /\ x.id \in Ids(truth.orders) /\ Ids(truth.orders) \subseteq truth.actions
  BY <1>3 DEF ManagersInv, PlacesTrue, TruthOk, Ids
<1>5. ById(truth.orders, x.id).id = x.id
  BY <1>4, KnownIndex
<1> QED
  BY <1>3, <1>4, <1>5

LEMMA MoveFacts ==
    ASSUME ManagersInv, NEW o \in ToSet(truth.orders), Move(truth, o) # << >>
    PROVE  LET s == Move(truth, o)
           IN  /\ IsSequence(s) /\ DOMAIN s = {1, 2} /\ MoveSource(truth, o)
               /\ s[1].type = "cancel" /\ s[1].target = o.id
               /\ s[2].type = "place" /\ s[2].kind = "cancel_replace" /\ s[2].replaces = {o.id}
               /\ s[2].logical = LogicalOf(truth, o.id)
<1> DEFINE price == AnchoredPrice(o.price)
<1> DEFINE identity == <<LogicalOf(truth, o.id), o.id, o.price, book.mid, price>>
<1> DEFINE cancel == CancelOrder(<<"cancel-anchor-source", identity>>, o.id)
<1> DEFINE place == [PlaceOrder(<<"cancel-replace-anchor", identity>>, "cancel_replace",
                                LogicalOf(truth, o.id), o.side, o.size, price)
                       EXCEPT !.replaces = {o.id}]
<1>1. Move(truth, o) = <<cancel, place>> /\ MoveSource(truth, o)
  BY DEF Move
<1> HIDE DEF identity, price
<1>2. cancel.type = "cancel" /\ cancel.target = o.id
  BY DEF CancelOrder, PlaceOrder
<1>3. /\ place.type = "place" /\ place.kind = "cancel_replace" /\ place.replaces = {o.id}
      /\ place.logical = LogicalOf(truth, o.id)
  BY DEF PlaceOrder
<1> HIDE DEF cancel, place
<1> DEFINE s == <<cancel, place>>
<1>4. DOMAIN s = {1, 2} /\ s[1] = cancel /\ s[2] = place
  OBVIOUS
<1>5. IsSequence(s)
  <2>1. s \in Seq({cancel, place})
    OBVIOUS
  <2> QED
    BY <2>1 DEF IsSequence
<1> HIDE DEF s
<1> QED
  BY <1>1, <1>2, <1>3, <1>4, <1>5 DEF s

(* The source of a move is open at the venue's side of the record, and under  *)
(* a logical order on record.                                                 *)
LEMMA MoveSourceKnown ==
    ASSUME ManagersInv, NEW o \in ToSet(truth.orders), MoveSource(truth, o)
    PROVE  /\ o.id \in DOMAIN venue /\ o.id \in truth.actions
           /\ LogicalOf(truth, o.id) \in Ids(truth.logical)
<1>1. PICK i \in DOMAIN truth.orders : truth.orders[i] = o
  BY DEF ToSet
<1>2. ById(truth.orders, o.id) = o /\ o.id \in Ids(truth.orders)
  BY <1>1, UniqueIndex DEF ManagersInv, TruthOk, Ids
<1>3. o.id \in DOMAIN venue
  BY <1>2 DEF ManagersInv, VenueOk, StatusOf, MoveSource
<1>4. o.id \in truth.actions
  BY <1>1 DEF ManagersInv, TruthOk
<1>5. CASE o.id \in Ids(truth.logical)
  BY <1>3, <1>4, <1>5 DEF LogicalOf
<1>6. CASE o.id \notin Ids(truth.logical)
  <2>1. o.id \in Ids(truth.places) /\ LogicalOf(truth, o.id) = ById(truth.places, o.id).logical
    BY <1>6 DEF LogicalOf, MoveSource
  <2>2. ById(truth.places, o.id) \in ToSet(truth.places)
    BY <2>1, KnownIndex DEF ToSet
  <2> QED
    BY <1>3, <1>4, <2>1, <2>2 DEF ManagersInv, TruthOk
<1> QED
  BY <1>5, <1>6

LEMMA MoveOk ==
    ASSUME ManagersInv, NEW o \in ToSet(truth.orders)
    PROVE  CommandsOk(Move(truth, o))
<1>1. CASE Move(truth, o) = << >>
  BY <1>1, NoCommandOk
<1>2. CASE Move(truth, o) # << >>
  <2> DEFINE s == Move(truth, o)
  <2>1. /\ IsSequence(s) /\ DOMAIN s = {1, 2} /\ MoveSource(truth, o)
        /\ s[1].type = "cancel" /\ s[1].target = o.id
        /\ s[2].type = "place" /\ s[2].kind = "cancel_replace" /\ s[2].replaces = {o.id}
        /\ s[2].logical = LogicalOf(truth, o.id)
    BY <1>2, MoveFacts
  <2> HIDE DEF s
  <2>2. /\ o.id \in DOMAIN venue /\ o.id \in truth.actions
        /\ LogicalOf(truth, o.id) \in Ids(truth.logical)
    BY <2>1, MoveSourceKnown
  <2>3. CancelledBefore(s, 2, o.id)
    BY <2>1 DEF CancelledBefore
  <2>4. PlaceOk(s, 2)
    BY <2>1, <2>2, <2>3 DEF PlaceOk
  <2>5. CommandsOk(s)
    BY <2>1, <2>2, <2>4 DEF CommandsOk
  <2> QED
    BY <2>5 DEF s
<1> QED
  BY <1>1, <1>2


LEMMA MergeGroupFacts ==
    ASSUME ManagersInv, NEW l
    PROVE  LET group == MergeGroup(truth, l)
           IN  /\ IsSequence(group)
               /\ \A i \in DOMAIN group : MergeSource(truth, group[i]) /\ group[i] \in ToSet(truth.logical)
<1> DEFINE t == truth.logical
<1> DEFINE n == Len(t)
<1> DEFINE ones == [i \in DOMAIN t |-> IF Joins(truth, l, t[i]) THEN <<t[i]>> ELSE << >>]
<1> DEFINE c == Flat(ones)
<1>1. IsSequence(t)
  BY DEF ManagersInv, TruthOk
<1>2. MergeGroup(truth, l) = UpTo(MaxSources, c) /\ MaxSources \in Nat
  BY BoundsAssumption DEF MergeGroup
<1> HIDE DEF t
<1>3. n \in Nat /\ DOMAIN t = 1..n
  BY <1>1, SequenceDomain
<1>4. DOMAIN ones = 1..n /\ \A i \in 1..n : IsSequence(ones[i])
  BY <1>3, NoElement, OneElement
<1>5. \A i \in 1..n : \A m \in DOMAIN ones[i] : ones[i][m] = t[i] /\ Joins(truth, l, t[i])
  <2>1. DOMAIN << >> = {} /\ \A x : DOMAIN <<x>> = {1} /\ <<x>>[1] = x
    OBVIOUS
  <2> QED
    BY <1>3, <2>1
<1> HIDE DEF ones, n
<1>6. Blocks(c, ones, 1..n)
  BY <1>3, <1>4, FlatBlocks
<1> HIDE DEF c
<1>7. IsSequence(c) /\ DOMAIN c \subseteq Nat
  <2>1. IsSequence(c)
    BY <1>6 DEF Blocks
  <2> QED
    BY <2>1, SequenceDomain
<1>8. ASSUME NEW k \in DOMAIN c
      PROVE  MergeSource(truth, c[k]) /\ c[k] \in ToSet(truth.logical)
  <2>1. PICK i \in 1..n, d \in Nat : At(c, ones, k, i, d)
    BY <1>6, <1>8 DEF Blocks
  <2>2. k - d \in DOMAIN ones[i] /\ c[d + (k - d)] = ones[i][k - d]
    BY <2>1 DEF At
  <2>3. d + (k - d) = k
    BY <1>7
  <2>4. c[k] = t[i] /\ Joins(truth, l, t[i])
    BY <1>5, <2>2, <2>3
  <2>5. t[i] \in ToSet(truth.logical)
    BY <1>3 DEF ToSet, t
  <2> QED
    BY <2>4, <2>5 DEF Joins
<1>9. /\ IsSequence(UpTo(MaxSources, c)) /\ DOMAIN UpTo(MaxSources, c) \subseteq DOMAIN c
      /\ \A i \in DOMAIN UpTo(MaxSources, c) : UpTo(MaxSources, c)[i] = c[i]
  BY <1>2, <1>7, UpToFacts
<1> DEFINE g == UpTo(MaxSources, c)
<1> HIDE DEF g
<1>10. /\ IsSequence(g)
       /\ \A i \in DOMAIN g : MergeSource(truth, g[i]) /\ g[i] \in ToSet(truth.logical)
  BY <1>8, <1>9 DEF g
<1> QED
  BY <1>2, <1>10 DEF g

LEMMA MergedOk ==
    ASSUME ManagersInv, NEW group, IsSequence(group),
           \A i \in DOMAIN group : MergeSource(truth, group[i])
    PROVE  /\ CommandsOk(Merge(truth, group))
           /\ \A k \in DOMAIN Merge(truth, group) : ~Dependent(Merge(truth, group)[k])
<1> DEFINE target(i) == LiveOrder(truth, group[i]).id
<1> DEFINE cancels == [i \in DOMAIN group |->
                CancelOrder(<<"cancel-consolidation-source", target(i), group[i].id>>, target(i))]
<1> DEFINE sources == {group[i].id : i \in DOMAIN group}
<1> DEFINE price == LiveOrder(truth, group[1]).price
<1> DEFINE id == <<"consolidation", sources, price, SumOfSizes(group)>>
<1> DEFINE place == [PlaceOrder(id, "initial", id, group[1].side, SumOfSizes(group), price)
                       EXCEPT !.relation = "consolidation", !.sources = sources,
                              !.replaces = {c.target : c \in ToSet(cancels)}]
<1>1. Merge(truth, group) = << >> \/ Merge(truth, group) = Append(cancels, place)
  BY DEF Merge
<1>2. \A i \in DOMAIN group : target(i) \in DOMAIN venue /\ target(i) \in truth.actions
  BY LiveOrderKnown
<1> HIDE DEF target
<1>3. DOMAIN cancels = DOMAIN group
  OBVIOUS
<1>4. \A i \in DOMAIN group : cancels[i].type = "cancel" /\ cancels[i].target = target(i)
  BY DEF CancelOrder, PlaceOrder
<1>5. IsSequence(cancels)
  <2>1. Len(group) \in Nat /\ DOMAIN group = 1..Len(group)
    BY SequenceDomain
  <2>2. cancels = [i \in 1..Len(group) |-> cancels[i]]
    BY <2>1
  <2> HIDE DEF cancels
  <2> QED
    BY <2>1, <2>2, FunctionIsSequence
<1> HIDE DEF cancels
<1> DEFINE replaced == {c.target : c \in ToSet(cancels)}
<1>6. replaced \subseteq truth.actions /\ \A x \in replaced : \E i \in DOMAIN cancels : cancels[i].target = x
  BY <1>2, <1>3, <1>4 DEF ToSet
<1> HIDE DEF replaced, id, price, sources
<1>7. place.type = "place" /\ place.kind = "initial" /\ place.logical = place.id /\ place.replaces = replaced
  BY DEF PlaceOrder, replaced
<1> HIDE DEF place
<1> DEFINE n == Len(cancels)
<1> DEFINE s == Append(cancels, place)
<1>8. IsSequence(s) /\ n \in Nat /\ DOMAIN cancels = 1..n /\ DOMAIN s = 1..(n + 1)
  BY <1>5, AppendParts
<1>9. \A i \in 1..n : s[i] = cancels[i]
  BY <1>5, AppendParts
<1>10. s[n + 1] = place
  BY <1>5, AppendParts
<1> HIDE DEF n, s
<1>11. \A i \in 1..n : s[i].type = "cancel" /\ s[i].target \in DOMAIN venue
  BY <1>2, <1>3, <1>4, <1>8, <1>9
<1>12. ASSUME NEW x \in place.replaces
       PROVE  CancelledBefore(s, n + 1, x)
  <2>1. PICK i \in 1..n : cancels[i].target = x
    BY <1>6, <1>7, <1>8
  <2>2. i \in DOMAIN s /\ i < n + 1 /\ s[i].type = "cancel" /\ s[i].target = x
    BY <1>8, <1>9, <1>11, <2>1
  <2> QED
    BY <2>2 DEF CancelledBefore
<1>13. PlaceOk(s, n + 1) /\ s[n + 1].type = "place"
  BY <1>6, <1>7, <1>10, <1>12 DEF PlaceOk
<1>14. CommandsOk(s) /\ \A k \in DOMAIN s : ~Dependent(s[k])
  <2>1. \A k \in DOMAIN s : k \in 1..n \/ k = n + 1
    BY <1>8
  <2>2. CommandsOk(s)
    BY <1>8, <1>11, <1>13, <2>1 DEF CommandsOk
  <2>3. \A k \in DOMAIN s : ~Dependent(s[k])
    BY <1>7, <1>10, <1>11, <2>1 DEF Dependent
  <2> QED
    BY <2>2, <2>3
<1>15. CommandsOk(<< >>) /\ \A k \in DOMAIN << >> : ~Dependent(<< >>[k])
  BY NoCommandOk
<1> QED
  BY <1>1, <1>14, <1>15 DEF s

LEMMA ConsolidationOk ==
    ASSUME ManagersInv, NEW l
    PROVE  /\ CommandsOk(Consolidation(truth, l))
           /\ \A k \in DOMAIN Consolidation(truth, l) : ~Dependent(Consolidation(truth, l)[k])
<1> DEFINE group == MergeGroup(truth, l)
<1>1. Consolidation(truth, l) = << >> \/ Consolidation(truth, l) = Merge(truth, group)
  <2>1. CASE ~MergeSource(truth, l)
    <3>1. Len(<< >>) = 0
      OBVIOUS
    <3> QED
      BY <2>1, <3>1 DEF Consolidation
  <2>2. CASE MergeSource(truth, l)
    <3> HIDE DEF group
    <3>1. [g \in {group} |-> Merge(truth, g)][group] = Merge(truth, group)
      OBVIOUS
    <3> QED
      BY <2>2, <3>1 DEF Consolidation, group
  <2> QED
    BY <2>1, <2>2
<1>2. IsSequence(group) /\ \A i \in DOMAIN group : MergeSource(truth, group[i])
  BY MergeGroupFacts
<1> HIDE DEF group
<1>3. CommandsOk(Merge(truth, group)) /\ \A k \in DOMAIN Merge(truth, group) : ~Dependent(Merge(truth, group)[k])
  BY <1>2, MergedOk
<1>4. CommandsOk(<< >>) /\ \A k \in DOMAIN << >> : ~Dependent(<< >>[k])
  BY NoCommandOk
<1> QED
  BY <1>1, <1>3, <1>4

LEMMA SplitOk ==
    ASSUME ManagersInv, NEW l, SplitSource(truth, l)
    PROVE  /\ CommandsOk(Split(truth, l))
           /\ \A k \in DOMAIN Split(truth, l) : ~Dependent(Split(truth, l)[k])
<1> DEFINE order == LiveOrder(truth, l)
<1> DEFINE cancel == CancelOrder(<<"split-cancel", l.id, order.id>>, order.id)
<1> DEFINE child(i) ==
        LET id == <<"split_child", l.id, i, order.price, order.size \div 2>>
        IN  [PlaceOrder(id, "initial", id, l.side, order.size \div 2, order.price)
               EXCEPT !.relation = "split_child", !.root = l.root,
                      !.parent = LineageParent(l), !.sources = {l.id},
                      !.replaces = {order.id}]
<1> DEFINE s == <<cancel, child(1), child(2)>>
<1>1. Split(truth, l) = << >> \/ Split(truth, l) = s
  BY DEF Split
<1>2. order.id \in DOMAIN venue /\ order.id \in truth.actions
  BY LiveOrderKnown DEF SplitSource
<1> HIDE DEF order
<1>3. cancel.type = "cancel" /\ cancel.target = order.id
  BY DEF CancelOrder, PlaceOrder
<1>4. \A i \in {1, 2} : /\ child(i).type = "place" /\ child(i).kind = "initial"
                        /\ child(i).logical = child(i).id /\ child(i).replaces = {order.id}
  BY DEF PlaceOrder
<1> HIDE DEF cancel, child
<1>5. DOMAIN s = {1, 2, 3} /\ s[1] = cancel /\ s[2] = child(1) /\ s[3] = child(2)
  <2>1. \A a, b, c : DOMAIN <<a, b, c>> = 1..3
    OBVIOUS
  <2>2. 1..3 = {1, 2, 3}
    OBVIOUS
  <2> QED
    BY <2>1, <2>2
<1>6. IsSequence(s)
  <2>1. s \in Seq({cancel, child(1), child(2)})
    OBVIOUS
  <2> QED
    BY <2>1 DEF IsSequence
<1> HIDE DEF s
<1>7. CancelledBefore(s, 2, order.id) /\ CancelledBefore(s, 3, order.id)
  BY <1>3, <1>5 DEF CancelledBefore
<1>8. PlaceOk(s, 2) /\ PlaceOk(s, 3)
  BY <1>2, <1>4, <1>5, <1>7 DEF PlaceOk
<1>9. CommandsOk(s)
  BY <1>2, <1>3, <1>4, <1>5, <1>6, <1>8 DEF CommandsOk
<1>10. \A k \in DOMAIN s : ~Dependent(s[k])
  BY <1>3, <1>4, <1>5 DEF Dependent
<1>11. CommandsOk(<< >>) /\ \A k \in DOMAIN << >> : ~Dependent(<< >>[k])
  BY NoCommandOk
<1> QED
  BY <1>1, <1>9, <1>10, <1>11

(* A decision without such placements is in turn anyway.                      *)
LEMMA IndependentInTurn ==
    ASSUME NEW s, NEW n \in Nat, DOMAIN s = 1..n, NEW max \in Nat,
           \A i \in 1..n : IsSequence(s[i]) /\ \A k \in DOMAIN s[i] : ~Dependent(s[i][k])
    PROVE  InTurn(TakeFirst(s, max))
<1> DEFINE c == TakeFirst(s, max)
<1>1. Blocks(c, s, 1..n)
  BY TakeFirstFacts
<1> HIDE DEF c
<1>2. DOMAIN c \subseteq Nat
  <2>1. IsSequence(c)
    BY <1>1 DEF Blocks
  <2> QED
    BY <2>1, SequenceDomain
<1>3. ASSUME NEW k \in DOMAIN c
      PROVE  ~Dependent(c[k])
  <2>1. PICK i \in 1..n, d \in Nat : At(c, s, k, i, d)
    BY <1>1, <1>3 DEF Blocks
  <2>2. k - d \in DOMAIN s[i] /\ c[d + (k - d)] = s[i][k - d]
    BY <2>1 DEF At
  <2>3. d + (k - d) = k
    BY <1>2
  <2> QED
    BY <2>2, <2>3
<1> QED
  BY <1>3 DEF InTurn, c


LEMMA OpenPlacement ==
    ASSUME ManagersInv, NEW y \in ToSet(truth.places), y.id \in OpenIds
    PROVE  /\ y.kind # "staged_release" /\ LogicalOf(truth, y.id) = y.logical
           /\ ById(truth.orders, y.id) \in ToSet(truth.orders)
           /\ ById(truth.orders, y.id).id = y.id /\ ById(truth.orders, y.id).status = "open"
<1>1. /\ y.kind # "staged_release" /\ StatusOf(truth, y.id) = "open"
  BY DEF ManagersInv, PlacesTrue, OpenIds
<1>2. y.id \in Ids(truth.orders) /\ (y.id \in Ids(truth.logical) => y.logical = y.id)
  BY DEF ManagersInv, TruthOk
<1>3. ById(truth.orders, y.id) \in ToSet(truth.orders) /\ ById(truth.orders, y.id).id = y.id
  BY <1>2, KnownIndex DEF ToSet
<1>4. y.id \in Ids(truth.places) /\ ById(truth.places, y.id) = y
  <2>1. PICK i \in DOMAIN truth.places : truth.places[i] = y
    BY DEF ToSet
  <2> QED
    BY <2>1, UniqueIndex DEF ManagersInv, TruthOk, Ids
<1>5. LogicalOf(truth, y.id) = y.logical
  BY <1>2, <1>4 DEF LogicalOf
<1> QED
  BY <1>1, <1>3, <1>5 DEF StatusOf

(* One release an evaluation: no other order of its logical order is open.    *)
LEMMA ReleaseInTurn ==
    ASSUME ManagersInv, MaxReleases = 1
    PROVE  InTurn(ReleaseDecision(truth))
<1> DEFINE t == truth.places
<1> DEFINE n == Len(t)
<1> DEFINE s == Releases(truth)
<1> DEFINE c == TakeFirst(s, 1)
<1>0. IsSequence(t)
  BY DEF ManagersInv, TruthOk
<1>1. ReleaseDecision(truth) = c
  BY DEF ReleaseDecision
<1>2. n \in Nat /\ DOMAIN t = 1..n
  BY <1>0, SequenceDomain
<1>3. DOMAIN s = 1..n /\ \A i \in 1..n : t[i] \in ToSet(truth.places) /\ s[i] = Release(truth, t[i])
  BY <1>2 DEF Releases, ToSet
<1>4. ASSUME NEW i \in 1..n
      PROVE  /\ IsSequence(s[i])
             /\ \A m \in DOMAIN s[i] : /\ m = 1 /\ s[i][m].logical = t[i].logical
                                       /\ OrdersOf(truth, t[i].logical, LiveStatuses) = {}
  <2> DEFINE x == t[i]
  <2> DEFINE r == [PlaceOrder(<<"release", x.id>>, "release", x.logical, x.side, x.size, x.price)
                     EXCEPT !.of = x.id]
  <2> DEFINE u == Release(truth, x)
  <2>0. x \in ToSet(truth.places) /\ s[i] = u
    BY <1>3
  <2> HIDE DEF x
  <2>1. u = << >> \/ (u = <<r>> /\ OrdersOf(truth, x.logical, LiveStatuses) = {})
    BY DEF Release
  <2>2. r.logical = x.logical
    BY DEF PlaceOrder
  <2>3. IsSequence(u)
    <3>1. CommandsOk(Release(truth, x))
      BY <2>0, ReleaseOk
    <3> QED
      BY <3>1 DEF CommandsOk
  <2> HIDE DEF r, u, s
  <2>5. DOMAIN << >> = {} /\ DOMAIN <<r>> = {1} /\ <<r>>[1] = r
    OBVIOUS
  <2>6. IsSequence(u) /\ \A m \in DOMAIN u : /\ m = 1 /\ u[m].logical = x.logical
                                             /\ OrdersOf(truth, x.logical, LiveStatuses) = {}
    BY <2>1, <2>2, <2>3, <2>5
  <2> QED
    BY <2>0, <2>6 DEF x
<1> HIDE DEF s, c, n, t
<1>5. /\ Blocks(c, s, 1..n)
      /\ \A k, l \in DOMAIN c : \E i \in 1..n : \E d \in Nat : At(c, s, k, i, d) /\ At(c, s, l, i, d)
  BY <1>2, <1>3, <1>4, TakeFirstFacts DEF c
<1>6. DOMAIN c \subseteq Nat
  <2>1. IsSequence(c)
    BY <1>5 DEF Blocks
  <2> QED
    BY <2>1, SequenceDomain
<1>7. ASSUME NEW k \in DOMAIN c, NEW i \in 1..n, NEW d \in Nat, At(c, s, k, i, d)
      PROVE  /\ k = d + 1 /\ c[k].logical = t[i].logical
             /\ OrdersOf(truth, t[i].logical, LiveStatuses) = {}
  <2>1. k - d \in DOMAIN s[i] /\ c[d + (k - d)] = s[i][k - d]
    BY <1>7 DEF At
  <2>2. d + (k - d) = k
    BY <1>6
  <2>3. k - d = 1 /\ s[i][k - d].logical = t[i].logical /\ OrdersOf(truth, t[i].logical, LiveStatuses) = {}
    BY <1>4, <2>1
  <2> QED
    BY <1>6, <2>1, <2>2, <2>3
<1>8. ASSUME NEW k \in DOMAIN c, NEW l \in DOMAIN c
      PROVE  k = l
  <2>1. PICK i \in 1..n, d \in Nat : At(c, s, k, i, d) /\ At(c, s, l, i, d)
    BY <1>5
  <2> QED
    BY <1>7, <2>1
<1>9. ASSUME NEW k \in DOMAIN c, NEW y \in ToSet(truth.places), y.id \in OpenIds, y.logical = c[k].logical
      PROVE  FALSE
  <2>1. PICK i \in 1..n, d \in Nat : At(c, s, k, i, d)
    BY <1>5
  <2>2. c[k].logical = t[i].logical /\ OrdersOf(truth, c[k].logical, LiveStatuses) = {}
    BY <1>7, <2>1
  <2>3. y.kind # "staged_release" /\ ById(truth.orders, y.id).status = "open"
    BY <1>9, OpenPlacement
  <2>4. ById(truth.orders, y.id) \in OrdersOf(truth, c[k].logical, LiveStatuses)
    BY <1>9, <2>3 DEF OrdersOf, PlacesOf, LiveStatuses
  <2> QED
    BY <2>2, <2>4
<1> QED
  BY <1>1, <1>8, <1>9 DEF InTurn

(* A move's source is the only open order of its logical order.               *)
LEMMA MoveInTurn ==
    ASSUME ManagersInv
    PROVE  InTurn(MoveDecision(truth))
<1> DEFINE t == truth.orders
<1> DEFINE n == Len(t)
<1> DEFINE s == [i \in DOMAIN truth.orders |-> Move(truth, truth.orders[i])]
<1> DEFINE c == TakeFirst(s, MaxMoves)
<1>0. IsSequence(t)
  BY DEF ManagersInv, TruthOk
<1>1. MoveDecision(truth) = c
  BY DEF MoveDecision
<1>2. n \in Nat /\ DOMAIN t = 1..n
  BY <1>0, SequenceDomain
<1>3. DOMAIN s = 1..n /\ \A i \in 1..n : t[i] \in ToSet(truth.orders) /\ s[i] = Move(truth, t[i])
  BY <1>2 DEF ToSet
<1> HIDE DEF s, c, n
<1>4. \A i \in 1..n : IsSequence(s[i])
  BY <1>3, MoveOk DEF CommandsOk
<1>5. Blocks(c, s, 1..n)
  BY <1>2, <1>3, <1>4, TakeFirstFacts, BoundsAssumption DEF c
<1>6. DOMAIN c \subseteq Nat
  <2>1. IsSequence(c)
    BY <1>5 DEF Blocks
  <2> QED
    BY <2>1, SequenceDomain
<1>7. ASSUME NEW k \in DOMAIN c, NEW i \in 1..n, NEW d \in Nat, At(c, s, k, i, d), Dependent(c[k])
      PROVE  /\ MoveSource(truth, t[i]) /\ k = d + 2 /\ c[k].logical = LogicalOf(truth, t[i].id)
             /\ CancelledBefore(c, k, t[i].id)
  <2>1. k - d \in DOMAIN s[i] /\ c[d + (k - d)] = s[i][k - d]
    BY <1>7 DEF At
  <2>2. d + (k - d) = k
    BY <1>6
  <2>3. s[i] # << >>
    <3>1. DOMAIN << >> = {}
      OBVIOUS
    <3> QED
      BY <2>1, <3>1
  <2>4. /\ DOMAIN s[i] = {1, 2} /\ MoveSource(truth, t[i])
        /\ s[i][1].type = "cancel" /\ s[i][1].target = t[i].id
        /\ s[i][2].logical = LogicalOf(truth, t[i].id)
    BY <1>3, <2>3, MoveFacts
  <2>5. k - d = 2
    BY <1>7, <2>1, <2>2, <2>4 DEF Dependent
  <2>6. k = d + 2 /\ c[k].logical = LogicalOf(truth, t[i].id)
    BY <1>6, <2>1, <2>2, <2>4, <2>5
  <2>7. d + 1 \in DOMAIN c /\ c[d + 1] = s[i][1] /\ d + 1 < k
    BY <1>7, <2>4, <2>6 DEF At
  <2> QED
    BY <2>4, <2>6, <2>7 DEF CancelledBefore
<1>8. ASSUME NEW k \in DOMAIN c, Dependent(c[k]), NEW j \in DOMAIN c, Dependent(c[j]),
             c[j].logical = c[k].logical
      PROVE  j = k
  <2>1. PICK i \in 1..n, h \in 1..n : \E d, e \in Nat :
            At(c, s, j, i, d) /\ At(c, s, k, h, e) /\ (i = h => d = e)
    BY <1>5 DEF Blocks
  <2>2. PICK d \in Nat, e \in Nat : At(c, s, j, i, d) /\ At(c, s, k, h, e) /\ (i = h => d = e)
    BY <2>1
  <2>3. MoveSource(truth, t[i]) /\ j = d + 2 /\ c[j].logical = LogicalOf(truth, t[i].id)
    BY <1>7, <1>8, <2>2
  <2>4. MoveSource(truth, t[h]) /\ k = e + 2 /\ c[k].logical = LogicalOf(truth, t[h].id)
    BY <1>7, <1>8, <2>2
  <2>5. t[i].id = t[h].id
    BY <1>3, <1>8, <2>3, <2>4 DEF MoveSource
  <2>6. i = h
    BY <1>2, <2>5 DEF ManagersInv, TruthOk, Unique
  <2> QED
    BY <2>2, <2>3, <2>4, <2>6
<1>9. ASSUME NEW k \in DOMAIN c, Dependent(c[k]),
             NEW y \in ToSet(truth.places), y.id \in OpenIds, y.logical = c[k].logical
      PROVE  CancelledBefore(c, k, y.id)
  <2>1. PICK i \in 1..n, d \in Nat : At(c, s, k, i, d)
    BY <1>5, <1>9 DEF Blocks
  <2>2. /\ MoveSource(truth, t[i]) /\ c[k].logical = LogicalOf(truth, t[i].id)
        /\ CancelledBefore(c, k, t[i].id)
    BY <1>7, <1>9, <2>1
  <2>3. /\ LogicalOf(truth, y.id) = y.logical /\ ById(truth.orders, y.id) \in ToSet(truth.orders)
        /\ ById(truth.orders, y.id).id = y.id /\ ById(truth.orders, y.id).status = "open"
    BY <1>9, OpenPlacement
  <2>4. y.id = t[i].id
    BY <1>9, <2>2, <2>3 DEF MoveSource
  <2> QED
    BY <2>2, <2>4
<1> QED
  BY <1>1, <1>8, <1>9 DEF InTurn


LEMMA DecisionsOk ==
    ASSUME ManagersInv
    PROVE  /\ CommandsOk(ReleaseDecision(truth))
           /\ CommandsOk(FollowupDecision(truth)) /\ InTurn(FollowupDecision(truth))
           /\ CommandsOk(ConsolidationDecision(truth)) /\ InTurn(ConsolidationDecision(truth))
           /\ CommandsOk(MoveDecision(truth))
<1>1. MaxReleases \in Nat /\ MaxFollowups \in Nat /\ MaxConsolidations \in Nat /\ MaxMoves \in Nat
  BY BoundsAssumption
<1>2. /\ Len(truth.places) \in Nat /\ DOMAIN truth.places = 1..Len(truth.places)
      /\ Len(truth.fills) \in Nat /\ DOMAIN truth.fills = 1..Len(truth.fills)
      /\ Len(truth.logical) \in Nat /\ DOMAIN truth.logical = 1..Len(truth.logical)
      /\ Len(truth.orders) \in Nat /\ DOMAIN truth.orders = 1..Len(truth.orders)
  <2>1. /\ IsSequence(truth.places) /\ IsSequence(truth.fills)
        /\ IsSequence(truth.logical) /\ IsSequence(truth.orders)
    BY DEF ManagersInv, TruthOk
  <2> QED
    BY <2>1, SequenceDomain
<1>3. CommandsOk(ReleaseDecision(truth))
  <2> DEFINE s == Releases(truth)
  <2> DEFINE n == Len(truth.places)
  <2>1. DOMAIN s = 1..n /\ \A i \in 1..n : /\ truth.places[i] \in ToSet(truth.places)
                                           /\ s[i] = Release(truth, truth.places[i])
    BY <1>2 DEF Releases, ToSet
  <2>2. n \in Nat /\ ReleaseDecision(truth) = TakeFirst(s, MaxReleases)
    BY <1>2 DEF ReleaseDecision
  <2> HIDE DEF s, n
  <2>3. \A i \in 1..n : CommandsOk(s[i])
    BY <2>1, ReleaseOk
  <2> QED
    BY <1>1, <2>1, <2>2, <2>3, TakenOk
<1>4. CommandsOk(FollowupDecision(truth)) /\ InTurn(FollowupDecision(truth))
  <2> DEFINE s == [i \in DOMAIN truth.fills |-> Followup(truth, truth.fills[i])]
  <2> DEFINE n == Len(truth.fills)
  <2>1. DOMAIN s = 1..n /\ \A i \in 1..n : s[i] = Followup(truth, truth.fills[i])
    BY <1>2
  <2>2. n \in Nat /\ FollowupDecision(truth) = TakeFirst(s, MaxFollowups)
    BY <1>2 DEF FollowupDecision
  <2> HIDE DEF s, n
  <2>3. \A i \in 1..n : CommandsOk(s[i])
    BY <2>1, FollowupOk
  <2>4. ASSUME NEW i \in 1..n
        PROVE  IsSequence(s[i]) /\ \A k \in DOMAIN s[i] : ~Dependent(s[i][k])
    <3> DEFINE f == truth.fills[i]
    <3> DEFINE u == Followup(truth, f)
    <3>1. s[i] = u /\ IsSequence(s[i])
      BY <2>1, <2>3 DEF CommandsOk
    <3>2. \A k \in DOMAIN u : ~Dependent(u[k])
      <4> DEFINE order == ById(truth.orders, f.order)
      <4> DEFINE parent == ById(truth.logical, LogicalOf(truth, f.order))
      <4> DEFINE id == FollowupId(truth, f)
      <4> DEFINE c == [PlaceOrder(id, "initial", id, Opposite(parent.side), f.size, order.price)
                         EXCEPT !.relation = "followup_after_fill", !.root = parent.root,
                                !.parent = parent.id, !.sources = {parent.id}, !.of = f.id]
      <4>1. u = << >> \/ u = <<c>>
        BY DEF Followup
      <4> HIDE DEF order, parent, id, f, u
      <4>2. c.kind = "initial"
        BY DEF PlaceOrder
      <4> HIDE DEF c
      <4>3. DOMAIN << >> = {} /\ DOMAIN <<c>> = {1} /\ <<c>>[1] = c
        OBVIOUS
      <4> QED
        BY <4>1, <4>2, <4>3 DEF Dependent
    <3> QED
      BY <3>1, <3>2
  <2> QED
    BY <1>1, <2>1, <2>2, <2>3, <2>4, TakenOk, IndependentInTurn
<1>5. CommandsOk(ConsolidationDecision(truth)) /\ InTurn(ConsolidationDecision(truth))
  <2> DEFINE s == [i \in DOMAIN truth.logical |-> Consolidation(truth, truth.logical[i])]
  <2> DEFINE n == Len(truth.logical)
  <2>1. DOMAIN s = 1..n /\ \A i \in 1..n : s[i] = Consolidation(truth, truth.logical[i])
    BY <1>2
  <2>2. n \in Nat /\ ConsolidationDecision(truth) = TakeFirst(s, MaxConsolidations)
    BY <1>2 DEF ConsolidationDecision
  <2> HIDE DEF s, n
  <2>3. \A i \in 1..n : CommandsOk(s[i]) /\ \A k \in DOMAIN s[i] : ~Dependent(s[i][k])
    BY <2>1, ConsolidationOk
  <2>4. \A i \in 1..n : IsSequence(s[i]) /\ \A k \in DOMAIN s[i] : ~Dependent(s[i][k])
    BY <2>3 DEF CommandsOk
  <2> QED
    BY <1>1, <2>1, <2>2, <2>3, <2>4, TakenOk, IndependentInTurn
<1>6. CommandsOk(MoveDecision(truth))
  <2> DEFINE s == [i \in DOMAIN truth.orders |-> Move(truth, truth.orders[i])]
  <2> DEFINE n == Len(truth.orders)
  <2>1. DOMAIN s = 1..n /\ \A i \in 1..n : /\ truth.orders[i] \in ToSet(truth.orders)
                                           /\ s[i] = Move(truth, truth.orders[i])
    BY <1>2 DEF ToSet
  <2>2. n \in Nat /\ MoveDecision(truth) = TakeFirst(s, MaxMoves)
    BY <1>2 DEF MoveDecision
  <2> HIDE DEF s, n
  <2>3. \A i \in 1..n : CommandsOk(s[i])
    BY <2>1, MoveOk
  <2> QED
    BY <1>1, <2>1, <2>2, <2>3, TakenOk
<1> QED
  BY <1>3, <1>4, <1>5, <1>6

LEMMA DecidedKeeps ==
    ASSUME ManagersInv, NEW commands, CommandsOk(commands), Decided(commands),
           UNCHANGED <<truth, venue, feed>>
    PROVE  ManagersInv' /\ (OneLivePlacement /\ InTurn(commands) => OneLivePlacement' /\ InTurn(job.todo)')
<1>1. VenueMoves({})
  BY NoEffectFacts DEF ManagersInv
<1>2. /\ TruthOk(truth)' /\ VenueOk' /\ FeedOk' /\ PlacesTrue' /\ NoDoubleExposure'
      /\ OneLivePlacement => OneLivePlacement'
  BY DEF ManagersInv, VenueOk, FeedOk, PlacesTrue, NoDoubleExposure, OneLivePlacement, OpenIds
<1>3. JobOk' /\ (InTurn(commands) => InTurn(job.todo)')
  <2>1. CASE job' = NextStrategy
    BY <2>1, NothingToDo
  <2>2. CASE job' = [job EXCEPT !.todo = commands]
    <3>1. DOMAIN job' = {"at", "todo"} /\ job'.todo = commands
      BY <2>2 DEF ManagersInv, JobOk
    <3>2. \A k \in DOMAIN commands : PlaceOk(commands, k) => PlaceOk(job.todo, k)'
      BY <3>1 DEF PlaceOk, CancelledBefore, OpenIds
    <3>3. JobOk'
      BY <3>1, <3>2 DEF JobOk, CommandsOk
    <3>4. InTurn(commands) => InTurn(job.todo)'
      BY <3>1 DEF InTurn, Dependent, CancelledBefore, OpenIds
    <3> QED
      BY <3>3, <3>4
  <2> QED
    BY <2>1, <2>2 DEF Decided
<1> QED
  BY <1>2, <1>3 DEF ManagersInv

LEMMA EvaluateKeeps ==
    ASSUME ManagersInv, Evaluate
    PROVE  ManagersInv' /\ (MaxReleases = 1 /\ TurnInv => TurnInv')
<1>1. UNCHANGED <<truth, venue, feed>>
  BY DEF Evaluate
<1>2. VenueMoves({})
  BY <1>1, NoEffectFacts DEF ManagersInv
<1>3. CASE job' = NextStrategy \/ job' = IdleJob
  <2>1. JobOk' /\ InTurn(job.todo)'
    BY <1>3, NothingToDo
  <2>2. /\ TruthOk(truth)' /\ VenueOk' /\ FeedOk' /\ PlacesTrue' /\ NoDoubleExposure'
        /\ OneLivePlacement => OneLivePlacement'
    BY <1>1 DEF ManagersInv, VenueOk, FeedOk, PlacesTrue, NoDoubleExposure, OneLivePlacement, OpenIds
  <2> QED
    BY <2>1, <2>2 DEF ManagersInv, TurnInv
<1>4. ASSUME NEW commands, CommandsOk(commands), Decided(commands), MaxReleases = 1 => InTurn(commands)
      PROVE  ManagersInv' /\ (MaxReleases = 1 /\ TurnInv => TurnInv')
  <2>1. ManagersInv' /\ (OneLivePlacement /\ InTurn(commands) => OneLivePlacement' /\ InTurn(job.todo)')
    BY <1>1, <1>4, DecidedKeeps
  <2> QED
    BY <1>4, <2>1 DEF TurnInv
<1>5. \/ job' = NextStrategy \/ job' = IdleJob
      \/ Decided(ReleaseDecision(truth)) \/ Decided(FollowupDecision(truth))
      \/ Decided(ConsolidationDecision(truth)) \/ Decided(MoveDecision(truth))
      \/ \E l \in ToSet(truth.logical) : SplitSource(truth, l) /\ Decided(Split(truth, l))
  BY DEF Evaluate
<1>6. CASE Decided(ReleaseDecision(truth))
  BY <1>4, <1>6, DecisionsOk, ReleaseInTurn
<1>7. CASE Decided(FollowupDecision(truth))
  BY <1>4, <1>7, DecisionsOk
<1>8. CASE Decided(ConsolidationDecision(truth))
  BY <1>4, <1>8, DecisionsOk
<1>9. CASE Decided(MoveDecision(truth))
  BY <1>4, <1>9, DecisionsOk, MoveInTurn
<1>10. ASSUME NEW l \in ToSet(truth.logical), SplitSource(truth, l), Decided(Split(truth, l))
       PROVE  ManagersInv' /\ (MaxReleases = 1 /\ TurnInv => TurnInv')
  <2>1. CommandsOk(Split(truth, l)) /\ \A k \in DOMAIN Split(truth, l) : ~Dependent(Split(truth, l)[k])
    BY <1>10, SplitOk
  <2>2. InTurn(Split(truth, l))
    BY <2>1 DEF InTurn
  <2> QED
    BY <1>4, <1>10, <2>1, <2>2
<1> QED
  BY <1>3, <1>5, <1>6, <1>7, <1>8, <1>9, <1>10


-----------------------------------------------------------------------------
(* The operator's commands, on record one after the other.                    *)
SeedsOk(s, n) ==
    \A i \in 1..n :
        /\ s[i].type = "place" /\ s[i].kind \in {"initial", "staged_release"} /\ s[i].replaces = {}
        /\ \A j \in 1..(i - 1) : s[j].id # s[i].id
        /\ \/ s[i].logical = s[i].id
           \/ s[i].kind = "staged_release" /\ \E j \in 1..(i - 1) : s[j].logical = s[i].logical
OnRecord(p, s, k) ==
    /\ TruthOk(p)
    /\ p.actions = {s[j].id : j \in 1..k} /\ Ids(p.orders) = {s[j].id : j \in 1..k}
    /\ Ids(p.logical) = {s[j].logical : j \in 1..k}
    /\ \A x \in ToSet(p.places) : \E j \in 1..k :
          x.id = s[j].id /\ x.logical = s[j].logical /\ x.kind = s[j].kind
    /\ \A j \in 1..k : (s[j].kind # "staged_release") <=> (StatusOf(p, s[j].id) = "open")

LEMMA SeedKeeps ==
    ASSUME NEW s, NEW n \in Nat, SeedsOk(s, n), NEW k \in 1..n, NEW p, OnRecord(p, s, k - 1)
    PROVE  OnRecord(Seed(p, s[k]), s, k)
<1> DEFINE c == s[k]
<1> DEFINE q == Seed(p, c)
<1> DEFINE m == k - 1
<1>1. 1..k = 1..m \cup {k} /\ m \in Nat /\ 1..m \subseteq 1..n /\ k \notin 1..m
  OBVIOUS
<1>2. /\ c.type = "place" /\ c.kind \in {"initial", "staged_release"}
      /\ \A j \in 1..m : s[j].id # c.id
      /\ \/ c.logical = c.id
         \/ c.kind = "staged_release" /\ \E j \in 1..m : s[j].logical = c.logical
  BY DEF SeedsOk
<1>3. /\ TruthOk(p)
      /\ p.actions = {s[j].id : j \in 1..m} /\ Ids(p.orders) = {s[j].id : j \in 1..m}
      /\ Ids(p.logical) = {s[j].logical : j \in 1..m}
      /\ \A x \in ToSet(p.places) : \E j \in 1..m :
            x.id = s[j].id /\ x.logical = s[j].logical /\ x.kind = s[j].kind
      /\ \A j \in 1..m : (s[j].kind # "staged_release") <=> (StatusOf(p, s[j].id) = "open")
  BY DEF OnRecord
<1>4. c = s[k] /\ q = Seed(p, c)
  OBVIOUS
<1> HIDE DEF c, q, m
<1>5. c.id \notin p.actions /\ Names(p, c) /\ c.type # "cancel"
  BY <1>2, <1>3 DEF Names
<1>6. /\ TruthOk(q) /\ q.actions = p.actions \cup {c.id} /\ Ids(q.orders) = Ids(p.orders) \cup {c.id}
      /\ Ids(p.logical) \subseteq Ids(q.logical) /\ Ids(q.logical) \subseteq Ids(p.logical) \cup {c.logical}
      /\ \A id \in Ids(p.orders) : StatusOf(q, id) = StatusOf(p, id)
      /\ (c.kind # "staged_release") <=> (StatusOf(q, c.id) = "open")
      /\ \E x : /\ x.id = c.id /\ x.logical = c.logical /\ x.kind = c.kind
                /\ ToSet(q.places) = ToSet(p.places) \cup {x}
  <2>1. CASE c.kind = "staged_release"
    <3>1. q = StagedIn(p, c)
      BY <1>4, <2>1 DEF Seed
    <3>2. PICK a : /\ Grows(p, a, c) /\ Placed(a, q, c)
                   /\ Ids(a.logical) \subseteq Ids(p.logical) \cup {c.logical}
                   /\ StatusOf(a, c.id) = "accepted"
      BY <1>3, <1>5, <3>1, StagedFacts
    <3>3. /\ a.places = p.places /\ a.actions = p.actions \cup {c.id}
          /\ Ids(a.orders) = Ids(p.orders) \cup {c.id} /\ Ids(p.logical) \subseteq Ids(a.logical)
          /\ \A id \in Ids(p.orders) : StatusOf(a, id) = StatusOf(p, id)
      BY <1>5, <3>2 DEF Grows
    <3>4. /\ TruthOk(q) /\ q.actions = a.actions /\ q.orders = a.orders /\ q.logical = a.logical
          /\ \E x : /\ x.id = c.id /\ x.logical = c.logical /\ x.kind = c.kind
                    /\ ToSet(q.places) = ToSet(a.places) \cup {x}
      BY <3>2 DEF Placed
    <3>5. \A id : StatusOf(q, id) = StatusOf(a, id)
      BY <3>4 DEF StatusOf
    <3> QED
      BY <2>1, <3>2, <3>3, <3>4, <3>5
  <2>2. CASE c.kind # "staged_release"
    <3>1. q = Executed(p, c)
      BY <1>4, <2>2 DEF Seed
    <3>2. Done(p, q, c) /\ Ids(q.logical) \subseteq Ids(p.logical) \cup {c.logical}
      BY <1>3, <1>5, <3>1, ExecutedFacts
    <3> QED
      BY <1>5, <2>2, <3>2 DEF Done
  <2> QED
    BY <2>1, <2>2
<1>7. PICK y : /\ y.id = c.id /\ y.logical = c.logical /\ y.kind = c.kind
               /\ ToSet(q.places) = ToSet(p.places) \cup {y}
  BY <1>6
<1>8. q.actions = {s[j].id : j \in 1..k} /\ Ids(q.orders) = {s[j].id : j \in 1..k}
  BY <1>1, <1>3, <1>4, <1>6
<1>9. Ids(q.logical) = {s[j].logical : j \in 1..k}
  <2>1. c.logical \in Ids(q.logical)
    BY <1>6, <1>7 DEF TruthOk
  <2>2. Ids(q.logical) = Ids(p.logical) \cup {c.logical}
    BY <1>6, <2>1
  <2> QED
    BY <1>1, <1>3, <1>4, <2>2
<1>10. \A x \in ToSet(q.places) : \E j \in 1..k :
          x.id = s[j].id /\ x.logical = s[j].logical /\ x.kind = s[j].kind
  BY <1>1, <1>3, <1>4, <1>7
<1>11. \A j \in 1..k : (s[j].kind # "staged_release") <=> (StatusOf(q, s[j].id) = "open")
  BY <1>1, <1>3, <1>4, <1>6
<1> QED
  BY <1>6, <1>8, <1>9, <1>10, <1>11 DEF OnRecord, q, c

LEMMA SeededFacts ==
    ASSUME NEW s, s = Seeds, NEW n \in Nat, DOMAIN s = 1..n, SeedsOk(s, n)
    PROVE  OnRecord(Seeded, s, n)
<1>1. PICK g : /\ g[0] = EmptyTruth
               /\ \A k \in 1..n : g[k] = Seed(g[k - 1], s[k])
               /\ Seeded = g[n]
  BY SeededSteps
<1> DEFINE S == {k \in Nat : k <= n => OnRecord(g[k], s, k)}
<1>2. 0 \in S
  <2> DEFINE p == EmptyTruth
  <2>1. /\ DOMAIN p = {"actions", "orders", "logical", "places", "fills"} /\ p.actions = {}
        /\ p.orders = << >> /\ p.logical = << >> /\ p.places = << >> /\ p.fills = << >>
    BY DEF EmptyTruth
  <2>2. DOMAIN << >> = {} /\ Ids(<< >>) = {}
    BY DEF Ids
  <2> HIDE DEF p
  <2>3. TruthOk(p)
    BY <2>1, <2>2, NoElement DEF TruthOk, Unique
  <2>4. 1..0 = {}
    OBVIOUS
  <2>5. OnRecord(p, s, 0)
    BY <2>1, <2>2, <2>3, <2>4, NoElement DEF OnRecord
  <2> QED
    BY <1>1, <2>5 DEF p
<1>3. ASSUME NEW k \in Nat, k \in S
      PROVE  k + 1 \in S
  <2> SUFFICES ASSUME k + 1 <= n
               PROVE  OnRecord(g[k + 1], s, k + 1)
    OBVIOUS
  <2>1. k + 1 \in 1..n /\ (k + 1) - 1 = k /\ OnRecord(g[k], s, k)
    BY <1>3
  <2>2. OnRecord(Seed(g[k], s[k + 1]), s, k + 1)
    BY <2>1, SeedKeeps
  <2> QED
    BY <1>1, <2>1, <2>2
<1> HIDE DEF S
<1>4. S = Nat
  <2>1. S \in SUBSET Nat
    BY DEF S
  <2> QED
    BY <1>2, <1>3, <2>1, NumberInduction
<1> QED
  BY <1>1, <1>4 DEF S

LEMMA StartsRight ==
    ASSUME Init
    PROVE  TurnInv
<1> DEFINE s == Seeds
<1> DEFINE n == Len(s)
<1>1. /\ setup \in Setups /\ truth = Seeded /\ job = IdleJob /\ feed = << >>
      /\ venue = [id \in SeedIds |-> NewOrder(ById(s, id))]
  BY DEF Init
<1>2. s \in Seq(ToSet(s)) /\ \A i \in DOMAIN s : SeedOk(s, i)
  BY <1>1, SetupsAssumption DEF Seeds
<1>3. s = Seeds
  OBVIOUS
<1>4. SeedIds = {c.id : c \in {d \in ToSet(s) : d.kind # "staged_release"}}
  BY DEF SeedIds
<1> HIDE DEF s
<1>5. n \in Nat /\ DOMAIN s = 1..n
  <2>1. IsSequence(s)
    BY <1>2 DEF IsSequence
  <2> QED
    BY <2>1, SequenceDomain
<1> HIDE DEF n
<1>6. SeedsOk(s, n)
  <2> SUFFICES ASSUME NEW i \in 1..n
               PROVE  /\ s[i].type = "place" /\ s[i].kind \in {"initial", "staged_release"} /\ s[i].replaces = {}
                      /\ \A j \in 1..(i - 1) : s[j].id # s[i].id
                      /\ \/ s[i].logical = s[i].id
                         \/ s[i].kind = "staged_release" /\ \E j \in 1..(i - 1) : s[j].logical = s[i].logical
    BY DEF SeedsOk
  <2> DEFINE before == {s[j] : j \in 1..(i - 1)}
  <2>1. /\ s[i].type = "place" /\ s[i].kind \in {"initial", "staged_release"} /\ s[i].replaces = {}
        /\ \A b \in before : b.id # s[i].id
        /\ \/ s[i].logical = s[i].id
           \/ s[i].kind = "staged_release" /\ \E b \in before : b.logical = s[i].logical
    BY <1>2, <1>5 DEF SeedOk
  <2> QED
    BY <2>1
<1>7. OnRecord(truth, s, n)
  BY <1>1, <1>3, <1>5, <1>6, SeededFacts
<1>8. \A i, j \in 1..n : s[i].id = s[j].id => i = j
  <2> SUFFICES ASSUME NEW i \in 1..n, NEW j \in 1..n, i < j
               PROVE  s[i].id # s[j].id
    BY <1>5
  <2> QED
    BY <1>6 DEF SeedsOk
<1>9. \A i \in 1..n : ById(s, s[i].id) = s[i]
  BY <1>5, <1>8, UniqueIndex DEF Unique
<1>10. DOMAIN venue = {s[j].id : j \in {i \in 1..n : s[i].kind # "staged_release"}}
  BY <1>1, <1>4, <1>5 DEF ToSet
<1>11. \A j \in 1..n : s[j].id \in DOMAIN venue <=> s[j].kind # "staged_release"
  BY <1>8, <1>10
<1>12. ASSUME NEW j \in 1..n, s[j].kind # "staged_release"
       PROVE  /\ s[j].id \in DOMAIN venue /\ DOMAIN venue[s[j].id] = VenueFields
              /\ venue[s[j].id].replaces = {} /\ venue[s[j].id].logical = s[j].logical
              /\ s[j].logical = s[j].id
  <2>1. s[j].id \in DOMAIN venue
    BY <1>11, <1>12
  <2>2. venue[s[j].id] = NewOrder(s[j])
    BY <1>1, <1>9, <2>1
  <2>3. s[j].replaces = {} /\ s[j].logical = s[j].id
    BY <1>6, <1>12 DEF SeedsOk
  <2> QED
    BY <2>1, <2>2, <2>3 DEF NewOrder, VenueFields
<1>13. \A id \in DOMAIN venue : \E j \in 1..n : s[j].kind # "staged_release" /\ id = s[j].id
  BY <1>10
<1>14. TruthOk(truth)
  BY <1>7 DEF OnRecord
<1>15. VenueOk
  <2>1. DOMAIN venue \subseteq Ids(truth.orders)
    BY <1>7, <1>13 DEF OnRecord
  <2>2. \A id \in DOMAIN venue : DOMAIN venue[id] = VenueFields /\ venue[id].replaces \subseteq truth.actions
    BY <1>12, <1>13
  <2>3. \A id \in Ids(truth.orders) : StatusOf(truth, id) = "open" => id \in DOMAIN venue
    BY <1>7, <1>11 DEF OnRecord
  <2> QED
    BY <2>1, <2>2, <2>3 DEF VenueOk
<1>16. FeedOk
  BY <1>1, NoElement DEF FeedOk
<1>17. PlacesTrue
  <2> SUFFICES ASSUME NEW x \in ToSet(truth.places)
               PROVE  /\ x.kind # "staged_release" <=> x.id \in DOMAIN venue
                      /\ x.id \in DOMAIN venue =>
                            /\ venue[x.id].logical = x.logical
                            /\ venue[x.id].status = "open" => StatusOf(truth, x.id) = "open"
    BY DEF PlacesTrue
  <2>1. PICK j \in 1..n : x.id = s[j].id /\ x.logical = s[j].logical /\ x.kind = s[j].kind
    BY <1>7 DEF OnRecord
  <2> QED
    BY <1>7, <1>11, <1>12, <2>1 DEF OnRecord
<1>18. JobOk /\ InTurn(job.todo)
  <2>1. DOMAIN job = {"at", "todo"} /\ job.todo = << >> /\ DOMAIN << >> = {}
    BY <1>1 DEF IdleJob
  <2>2. CommandsOk(<< >>) /\ InTurn(<< >>)
    BY <2>1, NoCommandOk DEF InTurn
  <2> QED
    BY <2>1, <2>2 DEF JobOk
<1>19. NoDoubleExposure
  BY <1>12, <1>13 DEF NoDoubleExposure
<1>20. OneLivePlacement
  <2>1. \A id \in DOMAIN venue : venue[id].logical = id
    BY <1>12, <1>13
  <2> QED
    BY <2>1 DEF OneLivePlacement, OpenIds
<1> QED
  BY <1>14, <1>15, <1>16, <1>17, <1>18, <1>19, <1>20 DEF ManagersInv, TurnInv

-----------------------------------------------------------------------------
LEMMA StepKeeps ==
    ASSUME ManagersInv, [Next]_vars
    PROVE  ManagersInv' /\ (MaxReleases = 1 /\ TurnInv => TurnInv')
<1>1. CASE Evaluate
  BY <1>1, EvaluateKeeps
<1>2. CASE Reject
  BY <1>2, RejectKeeps
<1>3. CASE Execute
  BY <1>3, ExecuteKeeps
<1>4. CASE Fail
  BY <1>4, FailKeeps
<1>5. CASE Die
  BY <1>5, DieKeeps
<1>6. CASE Trade
  BY <1>6, TradeKeeps
<1>7. CASE Deliver
  BY <1>7, DeliverKeeps
<1>8. CASE RecordFill
  BY <1>8, RecordFillKeeps
<1>9. CASE UNCHANGED <<truth, job, venue, feed>>
  <2>1. VenueMoves({})
    BY <1>9, NoEffectFacts DEF ManagersInv
  <2> QED
    BY <1>9, <2>1, SameTruth
<1>10. Tick \/ UNCHANGED vars => UNCHANGED <<truth, job, venue, feed>>
  BY DEF Tick, vars
<1> QED
  BY <1>1, <1>2, <1>3, <1>4, <1>5, <1>6, <1>7, <1>8, <1>9, <1>10 DEF Next

(* In every reachable state the record is in order and true of the venue, and *)
(* the commands still to come are in order: what replaces an order comes      *)
(* after its cancellation.                                                    *)
THEOREM ManagersInvariant == Spec => []ManagersInv
<1>1. Init => ManagersInv
  BY StartsRight DEF TurnInv
<1>2. ManagersInv /\ [Next]_vars => ManagersInv'
  BY StepKeeps
<1> QED
  BY <1>1, <1>2, PTL DEF Spec

(* A merged order, a split child or a moved order is never at the venue while *)
(* an order it replaces is open there, whatever fails, is lost or dies.       *)
THEOREM NeverDoublyExposed == Spec => []NoDoubleExposure
<1>1. ManagersInv => NoDoubleExposure
  BY DEF ManagersInv
<1> QED
  BY <1>1, ManagersInvariant, PTL

(* With one release an evaluation, the limit the code comes with, a logical   *)
(* order has one open order on record at most.                                *)
THEOREM OneOpenOrderEach ==
    ASSUME MaxReleases = 1
    PROVE  Spec => []OneLivePlacement
<1>1. Init => TurnInv
  BY StartsRight
<1>2. TurnInv /\ [Next]_vars => TurnInv'
  BY StepKeeps DEF TurnInv
<1>3. TurnInv => OneLivePlacement
  BY DEF TurnInv
<1> QED
  BY <1>1, <1>2, <1>3, PTL DEF Spec

-----------------------------------------------------------------------------
(* The lineage contract: what every record was when it was appended, it is    *)
(* for good.                                                                  *)
LEMMA AppendKeeps ==
    ASSUME NEW s, IsSequence(s), NEW e
    PROVE  /\ \A i \in 1..Len(s) : SubSeq(Append(s, e), 1, i - 1) = SubSeq(s, 1, i - 1)
           /\ SubSeq(Append(s, e), 1, Len(s)) = s
<1> DEFINE n == Len(s)
<1> DEFINE t == Append(s, e)
<1>1. n \in Nat /\ DOMAIN s = 1..n /\ s \in Seq(ToSet(s))
  BY SequenceDomain
<1>2. \A i \in 1..n : t[i] = s[i]
  BY AppendParts
<1>3. s = [i \in 1..n |-> s[i]]
  BY <1>1
<1> HIDE DEF n, t
<1>4. ASSUME NEW m \in 0..n
      PROVE  SubSeq(t, 1, m) = [i \in 1..m |-> s[i]] /\ SubSeq(s, 1, m) = [i \in 1..m |-> s[i]]
  <2>1. SubSeq(t, 1, m) = [i \in 1..(m - 1 + 1) |-> t[i + 1 - 1]]
    BY DEF SubSeq
  <2>2. SubSeq(s, 1, m) = [i \in 1..(m - 1 + 1) |-> s[i + 1 - 1]]
    BY DEF SubSeq
  <2>3. 1..(m - 1 + 1) = 1..m /\ \A i \in 1..m : i + 1 - 1 = i /\ i \in 1..n
    BY <1>1
  <2> QED
    BY <1>2, <2>1, <2>2, <2>3
<1>5. \A i \in 1..n : i - 1 \in 0..n
  BY <1>1
<1>6. n \in 0..n
  BY <1>1
<1> QED
  BY <1>3, <1>4, <1>5, <1>6 DEF n, t

LEMMA AppendById ==
    ASSUME NEW s, IsSequence(s), Unique(s), NEW e, e.id \notin Ids(s)
    PROVE  /\ Unique(Append(s, e))
           /\ \A id \in Ids(s) : ById(Append(s, e), id) = ById(s, id)
           /\ ById(Append(s, e), e.id) = e
<1> DEFINE n == Len(s)
<1> DEFINE t == Append(s, e)
<1>1. n \in Nat /\ DOMAIN s = 1..n /\ DOMAIN t = 1..(n + 1)
  BY AppendParts
<1>2. \A i \in 1..n : t[i] = s[i]
  BY AppendParts
<1>3. t[n + 1] = e
  BY AppendParts
<1> HIDE DEF n, t
<1>4. \A i \in 1..(n + 1) : i \in 1..n \/ i = n + 1
  BY <1>1
<1>5. \A i \in 1..n : i \in 1..(n + 1) /\ s[i].id \in Ids(s)
  BY <1>1 DEF Ids
<1>6. Unique(t)
  BY <1>1, <1>2, <1>3, <1>4, <1>5 DEF Unique
<1>7. ASSUME NEW id \in Ids(s)
      PROVE  ById(t, id) = ById(s, id)
  <2>1. PICK i \in 1..n : s[i].id = id
    BY <1>1 DEF Ids
  <2>2. ById(s, id) = s[i]
    BY <1>1, <2>1, UniqueIndex
  <2>3. i \in DOMAIN t /\ t[i] = s[i]
    BY <1>1, <1>2, <1>5
  <2>4. ById(t, t[i].id) = t[i]
    BY <1>6, <2>3, UniqueIndex
  <2> QED
    BY <2>1, <2>2, <2>3, <2>4
<1>8. ById(t, e.id) = e
  <2>1. n + 1 \in DOMAIN t
    BY <1>1
  <2>2. ById(t, t[n + 1].id) = t[n + 1]
    BY <1>6, <2>1, UniqueIndex
  <2> QED
    BY <1>3, <2>2
<1> QED
  BY <1>6, <1>7, <1>8 DEF t

(* An order has a size, and an open one something left of it.                 *)
OrdersSized(s) == \A i \in DOMAIN s : s[i].size \in Nat /\ (s[i].status = "open" => s[i].size # 0)

LEMMA ExceptSized ==
    ASSUME NEW s, OrdersSized(s), NEW n, NEW e,
           n \in DOMAIN s => e.size \in Nat /\ (e.status = "open" => e.size # 0)
    PROVE  OrdersSized([s EXCEPT ![n] = e])
<1> DEFINE t == [s EXCEPT ![n] = e]
<1>1. DOMAIN t = DOMAIN s /\ \A i \in DOMAIN s : t[i] = IF i = n THEN e ELSE s[i]
  OBVIOUS
<1> HIDE DEF t
<1>2. OrdersSized(t)
  BY <1>1 DEF OrdersSized
<1> QED
  BY <1>2 DEF t

LEMMA AppendSized ==
    ASSUME NEW s, IsSequence(s), OrdersSized(s), NEW e, e.size \in Nat \ {0}
    PROVE  OrdersSized(Append(s, e))
<1> DEFINE n == Len(s)
<1> DEFINE t == Append(s, e)
<1>1. n \in Nat /\ DOMAIN s = 1..n /\ DOMAIN t = 1..(n + 1)
  BY AppendParts
<1>2. \A i \in 1..n : t[i] = s[i]
  BY AppendParts
<1>3. t[n + 1] = e
  BY AppendParts
<1> HIDE DEF n, t
<1>4. \A i \in 1..(n + 1) : i \in 1..n \/ i = n + 1
  BY <1>1
<1>5. OrdersSized(t)
  BY <1>1, <1>2, <1>3, <1>4 DEF OrdersSized
<1> QED
  BY <1>5 DEF t

(* The records of a command: what it adds to the ledger, and what stays.      *)
LogicalRecord(c) ==
    LET l == LogicalOrder(c)
    IN  [id |-> c.logical, size |-> c.size, relation |-> l.relation, root |-> l.root,
         parent |-> l.parent, sources |-> l.sources, product |-> l.product,
         side |-> l.side, approved |-> l.approved]
PlaceRecord(c, status) ==
    [id |-> c.id, logical |-> c.logical, kind |-> c.kind, status |-> status, of |-> c.of,
     size |-> c.size, price |-> c.price, side |-> c.side]
LogicalAdded(p, q, c) ==
    \/ q.logical = p.logical
    \/ /\ c.type # "cancel" /\ c.logical \notin Ids(p.logical)
       /\ q.logical = Append(p.logical, LogicalRecord(c))
PlaceAdded(p, q, c) ==
    \/ q.places = p.places
    \/ /\ c.type # "cancel" /\ c.logical \in Ids(q.logical)
       /\ \E status : /\ q.places = Append(p.places, PlaceRecord(c, status))
                      /\ status = "staged" => c.kind = "staged_release"
Extended(p, q, c) ==
    /\ TruthOk(q) /\ q.actions = p.actions \cup {c.id} /\ Ids(p.orders) \subseteq Ids(q.orders)
    /\ q.fills = p.fills /\ OrdersSized(q.orders) /\ LogicalAdded(p, q, c) /\ PlaceAdded(p, q, c)
SizedCommand(c) == c.type # "cancel" => c.size \in Nat \ {0}

LEMMA RequestExtends ==
    ASSUME NEW p, TruthOk(p), OrdersSized(p.orders), NEW c, c.id \notin p.actions, SizedCommand(c),
           NEW status
    PROVE  LET q == Request(p, c, status)
           IN  /\ Extended(p, q, c) /\ q.logical = p.logical /\ q.places = p.places
               /\ c.type # "cancel" => \A i \in DOMAIN q.orders :
                                          q.orders[i].id = c.id => q.orders[i].size # 0
<1> DEFINE e == [id |-> c.id, status |-> status, size |-> c.size, filled |-> 0, price |-> c.price,
                 side |-> c.side, known |-> FALSE]
<1> DEFINE q == Request(p, c, status)
<1>1. q.fills = p.fills /\ q.orders = IF c.type = "cancel" THEN p.orders ELSE Append(p.orders, e)
  BY DEF Request, TruthOk
<1>2. e.size = c.size /\ e.id = c.id
  OBVIOUS
<1> HIDE DEF e
<1>3. Grows(p, q, c) /\ q.logical = p.logical
  BY RequestFacts
<1> HIDE DEF q
<1>4. /\ TruthOk(q) /\ q.actions = p.actions \cup {c.id} /\ q.places = p.places
      /\ Ids(p.orders) \subseteq Ids(q.orders)
  BY <1>3 DEF Grows
<1> DEFINE s == p.orders
<1>5. IsSequence(s) /\ OrdersSized(s)
  BY DEF TruthOk
<1>6. c.id \notin Ids(s)
  BY DEF TruthOk, Ids
<1>7. q.orders = IF c.type = "cancel" THEN s ELSE Append(s, e)
  BY <1>1
<1> HIDE DEF s
<1>8. OrdersSized(q.orders)
  <2>1. c.type # "cancel" => OrdersSized(Append(s, e))
    BY <1>2, <1>5, AppendSized DEF SizedCommand
  <2> QED
    BY <1>5, <1>7, <2>1
<1>9. ASSUME c.type # "cancel", NEW i \in DOMAIN q.orders, q.orders[i].id = c.id
      PROVE  q.orders[i].size # 0
  <2> DEFINE n == Len(s)
  <2> DEFINE t == Append(s, e)
  <2>1. n \in Nat /\ DOMAIN s = 1..n /\ DOMAIN t = 1..(n + 1)
    BY <1>5, AppendParts
  <2>2. \A j \in 1..n : t[j] = s[j]
    BY <1>5, AppendParts
  <2>3. t[n + 1] = e
    BY <1>5, AppendParts
  <2>4. q.orders = t
    BY <1>7, <1>9
  <2> HIDE DEF n, t
  <2>5. i \in 1..n \/ i = n + 1
    BY <1>9, <2>1, <2>4
  <2>6. i \notin 1..n
    BY <1>6, <1>9, <2>1, <2>2, <2>4 DEF Ids
  <2> QED
    BY <1>2, <1>9, <2>3, <2>4, <2>5, <2>6 DEF SizedCommand
<1>10. LogicalAdded(p, q, c) /\ PlaceAdded(p, q, c)
  BY <1>3, <1>4 DEF LogicalAdded, PlaceAdded
<1> QED
  BY <1>1, <1>3, <1>4, <1>8, <1>9, <1>10 DEF Extended, q

LEMMA AcceptedExtends ==
    ASSUME NEW p, TruthOk(p), OrdersSized(p.orders), NEW c, c.id \notin p.actions, SizedCommand(c),
           Names(p, c)
    PROVE  LET q == Accepted(p, c)
           IN  /\ Extended(p, q, c) /\ q.places = p.places
               /\ c.type # "cancel" =>
                     /\ c.logical \in Ids(q.logical)
                     /\ \A i \in DOMAIN q.orders : q.orders[i].id = c.id => q.orders[i].size # 0
<1> DEFINE r == Request(p, c, "accepted")
<1> DEFINE q == Accepted(p, c)
<1>1. /\ Extended(p, r, c) /\ r.logical = p.logical /\ r.places = p.places
      /\ c.type # "cancel" => \A i \in DOMAIN r.orders :
                                 r.orders[i].id = c.id => r.orders[i].size # 0
  BY RequestExtends
<1>2. Grows(p, q, c) /\ (c.type # "cancel" => c.logical \in Ids(q.logical))
  BY AcceptedFacts
<1>3. q = CreateLogical(r, c)
  BY DEF Accepted
<1> HIDE DEF r, q
<1>4. TruthOk(r) /\ OrdersSized(r.orders)
  BY <1>1 DEF Extended
<1>5. q.orders = r.orders /\ q.fills = r.fills /\ LogicalAdded(p, q, c)
  <2> DEFINE e == LogicalRecord(c)
  <2>1. CreateLogical(r, c) = IF c.type = "cancel" \/ c.logical \in Ids(r.logical) THEN r
                              ELSE [r EXCEPT !.logical = Append(@, e)]
    BY Zenon DEF CreateLogical, LogicalRecord
  <2> HIDE DEF e
  <2>2. CASE c.type = "cancel" \/ c.logical \in Ids(r.logical)
    BY <1>1, <1>3, <2>1, <2>2 DEF LogicalAdded
  <2>3. CASE ~(c.type = "cancel" \/ c.logical \in Ids(r.logical))
    <3>1. q = [r EXCEPT !.logical = Append(r.logical, e)]
      BY <1>3, <2>1, <2>3
    <3>2. q.orders = r.orders /\ q.fills = r.fills /\ q.logical = Append(p.logical, e)
      BY <1>1, <1>4, <3>1 DEF TruthOk
    <3> QED
      BY <1>1, <2>3, <3>2 DEF LogicalAdded, e
  <2> QED
    BY <2>2, <2>3
<1>6. /\ TruthOk(q) /\ q.actions = p.actions \cup {c.id} /\ q.places = p.places
      /\ Ids(p.orders) \subseteq Ids(q.orders)
  BY <1>2 DEF Grows
<1>7. Extended(p, q, c)
  BY <1>1, <1>4, <1>5, <1>6 DEF Extended, PlaceAdded
<1> QED
  BY <1>1, <1>2, <1>5, <1>6, <1>7 DEF q

LEMMA SetOrderExtends ==
    ASSUME NEW p, NEW r, NEW c, Extended(p, r, c), NEW id \in Ids(r.orders), NEW status,
           status = "open" => \A i \in DOMAIN r.orders : r.orders[i].id = id => r.orders[i].size # 0
    PROVE  Extended(p, SetOrder(r, id, status), c)
<1> DEFINE n == IndexOf(r.orders, id)
<1> DEFINE e == [r.orders[n] EXCEPT !.status = status]
<1> DEFINE q == SetOrder(r, id, status)
<1>0. TruthOk(r) /\ OrdersSized(r.orders)
  BY DEF Extended
<1>1. n \in DOMAIN r.orders /\ r.orders[n].id = id
  BY KnownIndex
<1>2. q = [r EXCEPT !.orders = [r.orders EXCEPT ![n] = e]]
  BY DEF SetOrder
<1>3. q.orders = [r.orders EXCEPT ![n] = e] /\ q.fills = r.fills
  BY <1>0, <1>2 DEF TruthOk
<1>4. DOMAIN r.orders[n] = OrderFields
  BY <1>0, <1>1 DEF TruthOk
<1>5. e.size = r.orders[n].size /\ e.status = status
  BY <1>4 DEF OrderFields
<1>6. r.orders[n].size \in Nat /\ (status = "open" => r.orders[n].size # 0)
  BY <1>0, <1>1 DEF OrdersSized
<1>7. /\ TruthOk(q) /\ q.actions = r.actions /\ Ids(q.orders) = Ids(r.orders)
      /\ q.logical = r.logical /\ q.places = r.places
  BY <1>0, SetOrderFacts
<1> HIDE DEF n, e, q
<1>8. OrdersSized(q.orders)
  BY <1>0, <1>3, <1>5, <1>6, ExceptSized
<1> QED
  BY <1>3, <1>7, <1>8 DEF Extended, LogicalAdded, PlaceAdded, q

LEMMA FailedExtends ==
    ASSUME NEW p, TruthOk(p), OrdersSized(p.orders), NEW c, c.id \notin p.actions, SizedCommand(c),
           Names(p, c), NEW status, status # "open"
    PROVE  Extended(p, Failed(p, c, status), c)
<1>1. CASE c.type = "cancel"
  BY <1>1, RequestExtends DEF Failed
<1>2. CASE c.type # "cancel"
  <2> DEFINE r == Accepted(p, c)
  <2>1. Extended(p, r, c)
    BY AcceptedExtends
  <2>2. Grows(p, r, c)
    BY AcceptedFacts
  <2> HIDE DEF r
  <2>3. c.id \in Ids(r.orders)
    BY <1>2, <2>2 DEF Grows
  <2>4. Extended(p, SetOrder(r, c.id, status), c)
    BY <2>1, <2>3, SetOrderExtends
  <2> QED
    BY <1>2, <2>4 DEF Failed, r
<1> QED
  BY <1>1, <1>2

LEMMA PlacementExtends ==
    ASSUME NEW p, NEW r, NEW c, Extended(p, r, c), r.places = p.places, c.type # "cancel",
           c.logical \in Ids(r.logical), NEW status, status = "staged" => c.kind = "staged_release",
           TruthOk(Placement(r, c, status))
    PROVE  Extended(p, Placement(r, c, status), c)
<1> DEFINE q == Placement(r, c, status)
<1> DEFINE e == PlaceRecord(c, status)
<1>1. q = [r EXCEPT !.places = Append(r.places, e)]
  BY Zenon DEF Placement, PlaceRecord
<1>2. TruthOk(r)
  BY DEF Extended
<1> HIDE DEF e
<1>3. /\ q.actions = r.actions /\ q.orders = r.orders /\ q.logical = r.logical /\ q.fills = r.fills
      /\ q.places = Append(p.places, e)
  BY <1>1, <1>2 DEF TruthOk
<1> HIDE DEF q
<1>4. LogicalAdded(p, q, c)
  BY <1>3 DEF Extended, LogicalAdded
<1>5. PlaceAdded(p, q, c)
  BY <1>3 DEF PlaceAdded, e
<1> QED
  BY <1>3, <1>4, <1>5 DEF Extended, q

LEMMA StagedExtends ==
    ASSUME NEW p, TruthOk(p), OrdersSized(p.orders), NEW c, c.id \notin p.actions, SizedCommand(c),
           Names(p, c), c.type # "cancel", c.kind = "staged_release"
    PROVE  Extended(p, StagedIn(p, c), c)
<1> DEFINE r == Accepted(p, c)
<1>1. Extended(p, r, c) /\ r.places = p.places /\ c.logical \in Ids(r.logical)
  BY AcceptedExtends
<1>2. StagedIn(p, c) = Placement(r, c, "staged")
  BY DEF StagedIn
<1> HIDE DEF r
<1>3. TruthOk(StagedIn(p, c))
  BY StagedFacts DEF Placed
<1> QED
  BY <1>1, <1>2, <1>3, PlacementExtends

LEMMA ExecutedExtends ==
    ASSUME NEW p, TruthOk(p), OrdersSized(p.orders), NEW c, c.id \notin p.actions, SizedCommand(c),
           Names(p, c), c.type = "cancel" => c.target \in Ids(p.orders)
    PROVE  Extended(p, Executed(p, c), c)
<1>1. CASE c.type = "cancel"
  <2> DEFINE r == Request(p, c, "")
  <2>1. Extended(p, r, c)
    BY RequestExtends
  <2> HIDE DEF r
  <2>2. c.target \in Ids(r.orders)
    BY <1>1, <2>1 DEF Extended
  <2>3. Extended(p, SetOrder(r, c.target, "cancelled"), c)
    BY <2>1, <2>2, SetOrderExtends
  <2> QED
    BY <1>1, <2>3 DEF Executed, r
<1>2. CASE c.type # "cancel"
  <2> DEFINE a == Accepted(p, c)
  <2>1. /\ Extended(p, a, c) /\ a.places = p.places /\ c.logical \in Ids(a.logical)
        /\ \A i \in DOMAIN a.orders : a.orders[i].id = c.id => a.orders[i].size # 0
    BY <1>2, AcceptedExtends
  <2>2. Grows(p, a, c) /\ Len(a.orders) \in DOMAIN a.orders
    BY <1>2, AcceptedFacts
  <2>3. TruthOk(Executed(p, c))
    BY ExecutedFacts DEF Done
  <2> HIDE DEF a
  <2> DEFINE b == SetOrder(a, c.id, "open")
  <2>4. c.id \in Ids(a.orders)
    BY <1>2, <2>2 DEF Grows
  <2>5. Extended(p, b, c)
    BY <2>1, <2>4, SetOrderExtends
  <2>6. /\ b.logical = a.logical /\ b.places = a.places /\ TruthOk(b)
        /\ Len(b.orders) = Len(a.orders)
    BY <2>1, <2>4, SetOrderFacts DEF Extended
  <2> DEFINE d == [b EXCEPT !.orders[Len(b.orders)].known = TRUE]
  <2>7. Executed(p, c) = Placement(d, c, "accepted")
    BY <1>2 DEF Executed, a
  <2> HIDE DEF b
  <2> DEFINE n == Len(b.orders)
  <2> DEFINE e == [b.orders[n] EXCEPT !.known = TRUE]
  <2>8. d = [b EXCEPT !.orders = [b.orders EXCEPT ![n] = e]]
    OBVIOUS
  <2>9. /\ d.actions = b.actions /\ d.logical = b.logical /\ d.places = b.places
        /\ d.fills = b.fills /\ DOMAIN d = DOMAIN b /\ d.orders = [b.orders EXCEPT ![n] = e]
    BY <2>6, <2>8 DEF TruthOk
  <2>10. n \in DOMAIN b.orders => /\ DOMAIN e = OrderFields /\ e.id = b.orders[n].id
                                  /\ e.size = b.orders[n].size /\ e.status = b.orders[n].status
    BY <2>6 DEF TruthOk, OrderFields
  <2> HIDE DEF n, e, d
  <2>11. IsSequence(d.fills)
    BY <2>6, <2>9 DEF TruthOk
  <2>12. TruthOk(d) /\ Ids(d.orders) = Ids(b.orders)
    <3>1. n \in DOMAIN b.orders => DOMAIN e = OrderFields /\ e.id = b.orders[n].id
      BY <2>10
    <3>2. Changed(b, d, n, e)
      BY <2>6, <2>9, <2>11, <3>1, OneOrderChanged
    <3> QED
      BY <3>2 DEF Changed
  <2>13. OrdersSized(b.orders)
    BY <2>5 DEF Extended
  <2>14. OrdersSized(d.orders)
    BY <2>9, <2>10, <2>13, ExceptSized DEF OrdersSized
  <2>15. Extended(p, d, c)
    BY <2>5, <2>9, <2>12, <2>14 DEF Extended, LogicalAdded, PlaceAdded
  <2>16. d.places = p.places /\ c.logical \in Ids(d.logical)
    BY <2>1, <2>6, <2>9
  <2>17. TruthOk(Placement(d, c, "accepted"))
    BY <2>3, <2>7
  <2>18. Extended(p, Placement(d, c, "accepted"), c)
    BY <1>2, <2>15, <2>16, <2>17, PlacementExtends
  <2> QED
    BY <2>7, <2>18
<1> QED
  BY <1>1, <1>2

(* The ledger only grows: what was on record stays what it was.               *)
Kept(p, q, c) ==
    /\ Unique(q.logical) /\ Ids(p.logical) \subseteq Ids(q.logical)
    /\ \A id \in Ids(p.logical) : ById(q.logical, id) = ById(p.logical, id)
    /\ \A id \in p.actions : LogicalOf(q, id) = LogicalOf(p, id)
    /\ ToSet(p.places) \subseteq ToSet(q.places)
    /\ Ids(q.places) \subseteq Ids(p.places) \cup {c.id}

LEMMA ExtendedKeeps ==
    ASSUME NEW p, TruthOk(p), Unique(p.logical), NEW c, c.id \notin p.actions, Names(p, c),
           NEW q, Extended(p, q, c)
    PROVE  Kept(p, q, c)
<1> DEFINE l == p.logical
<1> DEFINE s == p.places
<1>0. IsSequence(l) /\ IsSequence(s) /\ Unique(l) /\ Unique(s)
  BY DEF TruthOk
<1>1. Ids(l) \subseteq p.actions /\ Ids(s) \subseteq p.actions
  BY DEF TruthOk, Ids, ToSet
<1>2. /\ \/ q.logical = l
         \/ c.logical = c.id /\ c.logical \notin Ids(l) /\ q.logical = Append(l, LogicalRecord(c))
      /\ \/ q.places = s
         \/ \E status : q.places = Append(s, PlaceRecord(c, status))
  BY DEF Extended, LogicalAdded, PlaceAdded, Names
<1>3. LogicalRecord(c).id = c.logical /\ \A status : PlaceRecord(c, status).id = c.id
  BY DEF LogicalRecord, PlaceRecord
<1> DEFINE m == q.logical
<1> DEFINE t == q.places
<1> HIDE DEF l, s, m, t
<1>4. /\ Unique(m) /\ Ids(l) \subseteq Ids(m) /\ Ids(m) \subseteq Ids(l) \cup {c.id}
      /\ \A id \in Ids(l) : ById(m, id) = ById(l, id)
  <2> DEFINE e == LogicalRecord(c)
  <2>1. CASE m = l
    BY <1>0, <2>1
  <2>2. CASE c.logical = c.id /\ c.logical \notin Ids(l) /\ m = Append(l, e)
    <3>1. e.id = c.id /\ e.id \notin Ids(l)
      BY <1>3, <2>2
    <3> HIDE DEF e
    <3>2. Unique(Append(l, e)) /\ \A id \in Ids(l) : ById(Append(l, e), id) = ById(l, id)
      BY <1>0, <3>1, AppendById
    <3>3. Ids(Append(l, e)) = Ids(l) \cup {e.id}
      BY <1>0, AppendParts
    <3> QED
      BY <2>2, <3>1, <3>2, <3>3
  <2> QED
    BY <1>2, <2>1, <2>2 DEF m
<1>5. /\ ToSet(s) \subseteq ToSet(t) /\ Ids(s) \subseteq Ids(t) /\ Ids(t) \subseteq Ids(s) \cup {c.id}
      /\ \A id \in Ids(s) : ById(t, id) = ById(s, id)
  <2>1. CASE t = s
    BY <2>1
  <2>2. ASSUME NEW status, t = Append(s, PlaceRecord(c, status))
        PROVE  /\ ToSet(s) \subseteq ToSet(t) /\ Ids(s) \subseteq Ids(t) /\ Ids(t) \subseteq Ids(s) \cup {c.id}
               /\ \A id \in Ids(s) : ById(t, id) = ById(s, id)
    <3> DEFINE e == PlaceRecord(c, status)
    <3>1. e.id = c.id /\ e.id \notin Ids(s) /\ t = Append(s, e)
      BY <1>1, <1>3, <2>2 DEF s
    <3> HIDE DEF e
    <3>2. \A id \in Ids(s) : ById(Append(s, e), id) = ById(s, id)
      BY <1>0, <3>1, AppendById
    <3>3. Ids(Append(s, e)) = Ids(s) \cup {e.id} /\ ToSet(Append(s, e)) = ToSet(s) \cup {e}
      BY <1>0, AppendParts
    <3> QED
      BY <3>1, <3>2, <3>3
  <2> QED
    BY <1>2, <2>1, <2>2 DEF t
<1>6. ASSUME NEW id \in p.actions
      PROVE  LogicalOf(q, id) = LogicalOf(p, id)
  <2>1. id \in Ids(m) <=> id \in Ids(l)
    BY <1>4
  <2>2. id \in Ids(t) <=> id \in Ids(s)
    BY <1>5
  <2>3. id \in Ids(s) => ById(t, id) = ById(s, id)
    BY <1>5
  <2> QED
    BY <2>1, <2>2, <2>3 DEF LogicalOf, l, s, m, t
<1> QED
  BY <1>4, <1>5, <1>6 DEF Kept, l, s, m, t

(* What the record is like, and what the next command has to be like.         *)
Recorded(p) ==
    /\ Unique(p.logical)
    /\ \A i \in DOMAIN p.logical :
          /\ p.logical[i].size \in Nat \ {0}
          /\ LogicalPasses(p.logical[i], AsMap(SubSeq(p.logical, 1, i - 1)))
    /\ \A i \in DOMAIN p.places : PlacementPasses(p, p.places[i], SubSeq(p.places, 1, i - 1))
    /\ \A x \in ToSet(p.places) : /\ x.size \in Nat \ {0}
                                  /\ x.status = "staged" => x.kind = "staged_release"
                                  /\ x.kind = "release" => x.id = <<"release", x.of>>
StagedFor(y, c) ==
    /\ y.id = c.of /\ y.kind = "staged_release" /\ y.status = "staged"
    /\ y.logical = c.logical /\ y.side = c.side /\ y.size = c.size /\ y.price = c.price
Follows(p, c) ==
    /\ c.kind \in {"initial", "staged_release", "release", "cancel_replace"}
    /\ c.kind = "release" => c.id = <<"release", c.of>> /\ \E y \in ToSet(p.places) : StagedFor(y, c)
    /\ c.kind = "cancel_replace" =>
          c.logical # NoId /\ \E id \in Ids(p.orders) : LogicalOf(p, id) = c.logical
Legal(p, c) ==
    c.type # "cancel" =>
        /\ c.size \in Nat \ {0} /\ Follows(p, c)
        /\ IF c.logical \in Ids(p.logical) THEN ById(p.logical, c.logical).side = c.side
           ELSE LogicalPasses(LogicalRecord(c), AsMap(p.logical))

LEMMA LogicalKeeps ==
    ASSUME NEW p, TruthOk(p), Recorded(p), NEW c, Legal(p, c), NEW q, LogicalAdded(p, q, c)
    PROVE  \A i \in DOMAIN q.logical :
              /\ q.logical[i].size \in Nat \ {0}
              /\ LogicalPasses(q.logical[i], AsMap(SubSeq(q.logical, 1, i - 1)))
<1> DEFINE Right(s) == \A i \in DOMAIN s : /\ s[i].size \in Nat \ {0}
                                           /\ LogicalPasses(s[i], AsMap(SubSeq(s, 1, i - 1)))
<1> DEFINE s == p.logical
<1> DEFINE e == LogicalRecord(c)
<1>1. Right(s) /\ IsSequence(s)
  BY DEF Recorded, TruthOk
<1>2. CASE q.logical = s
  BY <1>1, <1>2
<1>3. CASE /\ c.type # "cancel" /\ c.logical \notin Ids(s) /\ q.logical = Append(s, e)
  <2>1. c.size \in Nat \ {0} /\ LogicalPasses(e, AsMap(s))
    BY <1>3 DEF Legal
  <2>2. e.size = c.size
    BY DEF LogicalRecord
  <2> HIDE DEF e, s
  <2> DEFINE n == Len(s)
  <2> DEFINE t == Append(s, e)
  <2>3. n \in Nat /\ DOMAIN s = 1..n /\ DOMAIN t = 1..(n + 1)
    BY <1>1, AppendParts
  <2>4. \A i \in 1..n : t[i] = s[i]
    BY <1>1, AppendParts
  <2>5. t[n + 1] = e
    BY <1>1, AppendParts
  <2>6. \A i \in 1..n : SubSeq(t, 1, i - 1) = SubSeq(s, 1, i - 1)
    BY <1>1, AppendKeeps
  <2>7. SubSeq(t, 1, n) = s
    BY <1>1, AppendKeeps
  <2> HIDE DEF n, t
  <2>8. (n + 1) - 1 = n /\ \A i \in 1..(n + 1) : i \in 1..n \/ i = n + 1
    BY <2>3
  <2>9. ASSUME NEW i \in 1..n
        PROVE  t[i].size \in Nat \ {0} /\ LogicalPasses(t[i], AsMap(SubSeq(t, 1, i - 1)))
    BY <1>1, <2>3, <2>4, <2>6
  <2>10. t[n + 1].size \in Nat \ {0} /\ LogicalPasses(t[n + 1], AsMap(SubSeq(t, 1, (n + 1) - 1)))
    BY <2>1, <2>2, <2>5, <2>7, <2>8
  <2>11. Right(t)
    BY <2>3, <2>8, <2>9, <2>10
  <2> QED
    BY <1>3, <2>11 DEF t
<1> QED
  BY <1>2, <1>3 DEF LogicalAdded

LEMMA ContractStill ==
    ASSUME NEW p, NEW q, NEW c, Kept(p, q, c), q.actions = p.actions \cup {c.id},
           NEW x, NEW before, PlacementContract(x, before, AsMap(p.logical), p.actions)
    PROVE  PlacementContract(x, before, AsMap(q.logical), q.actions)
<1> DEFINE k == AsMap(p.logical)
<1> DEFINE m == AsMap(q.logical)
<1>1. /\ x.id \notin Ids(before) /\ x.id \in p.actions /\ x.size > 0
      /\ x.logical \in DOMAIN k /\ k[x.logical].side = x.side
      /\ x.kind \in DependentKinds => \E y \in ToSet(before) : y.logical = x.logical
      /\ x.kind = "release" => ReleaseContract(x, before)
  BY DEF PlacementContract
<1>2. DOMAIN k = Ids(p.logical) /\ \A id \in Ids(p.logical) : k[id] = ById(p.logical, id)
  BY DEF AsMap
<1>3. DOMAIN m = Ids(q.logical) /\ \A id \in Ids(q.logical) : m[id] = ById(q.logical, id)
  BY DEF AsMap
<1> HIDE DEF k, m
<1>4. x.logical \in DOMAIN m /\ m[x.logical].side = x.side
  BY <1>1, <1>2, <1>3 DEF Kept
<1>5. PlacementContract(x, before, m, q.actions)
  BY <1>1, <1>4 DEF PlacementContract
<1> QED
  BY <1>5 DEF m

LEMMA PassesStill ==
    ASSUME NEW p, TruthOk(p), NEW q, NEW c, c.id \notin p.actions, Kept(p, q, c),
           q.actions = p.actions \cup {c.id}, Ids(p.orders) \subseteq Ids(q.orders),
           NEW x, NEW before, PlacementPasses(p, x, before)
    PROVE  PlacementPasses(q, x, before)
<1>1. CASE PlacementContract(x, before, AsMap(p.logical), p.actions)
  BY <1>1, ContractStill DEF PlacementPasses
<1>2. CASE /\ MovesUnplaced(p, x)
           /\ PlacementContract([x EXCEPT !.kind = "initial"], before, AsMap(p.logical), p.actions)
  <2>1. PlacementContract([x EXCEPT !.kind = "initial"], before, AsMap(q.logical), q.actions)
    BY <1>2, ContractStill
  <2>2. x.kind = "cancel_replace"
    BY <1>2 DEF MovesUnplaced
  <2>3. PICK id \in Ids(p.orders) \ Ids(p.places) : LogicalOf(p, id) = x.logical
    BY <1>2 DEF MovesUnplaced
  <2>4. id \in p.actions
    BY <2>3 DEF TruthOk, Ids
  <2>5. id \in Ids(q.orders) \ Ids(q.places) /\ LogicalOf(q, id) = x.logical
    BY <2>3, <2>4 DEF Kept
  <2>6. MovesUnplaced(q, x)
    BY <2>2, <2>5 DEF MovesUnplaced
  <2> QED
    BY <2>1, <2>6 DEF PlacementPasses
<1> QED
  BY <1>1, <1>2 DEF PlacementPasses

(* A placement on record names the logical order it is under.                 *)
LEMMA PlacedUnder ==
    ASSUME NEW p, TruthOk(p), NEW id \in Ids(p.places)
    PROVE  \E y \in ToSet(p.places) : y.id = id /\ LogicalOf(p, id) = y.logical
<1> DEFINE y == ById(p.places, id)
<1>1. y \in ToSet(p.places) /\ y.id = id
  BY KnownIndex DEF ToSet
<1>2. y.id \in Ids(p.logical) => y.logical = y.id
  BY <1>1 DEF TruthOk
<1>3. LogicalOf(p, id) = y.logical
  BY <1>1, <1>2 DEF LogicalOf
<1> QED
  BY <1>1, <1>3

LEMMA NewPlacePasses ==
    ASSUME NEW p, TruthOk(p), Recorded(p), NEW c, c.type # "cancel", c.id \notin p.actions, Legal(p, c),
           NEW q, Kept(p, q, c), q.actions = p.actions \cup {c.id}, Ids(p.orders) \subseteq Ids(q.orders),
           LogicalAdded(p, q, c), c.logical \in Ids(q.logical), NEW status
    PROVE  PlacementPasses(q, PlaceRecord(c, status), p.places)
<1> DEFINE x == PlaceRecord(c, status)
<1> DEFINE m == AsMap(q.logical)
<1>1. /\ x.id = c.id /\ x.logical = c.logical /\ x.kind = c.kind /\ x.of = c.of /\ x.size = c.size
      /\ x.price = c.price /\ x.side = c.side
  BY DEF PlaceRecord
<1> DEFINE z == [x EXCEPT !.kind = "initial"]
<1>2. z.id = c.id /\ z.logical = c.logical /\ z.kind = "initial" /\ z.size = c.size /\ z.side = c.side
  BY DEF PlaceRecord
<1> HIDE DEF x, z
<1>3. Ids(p.places) \subseteq p.actions
  BY DEF TruthOk, Ids, ToSet
<1>4. c.size > 0 /\ Follows(p, c)
  BY DEF Legal
<1>5. DOMAIN m = Ids(q.logical) /\ \A id \in Ids(q.logical) : m[id] = ById(q.logical, id)
  BY DEF AsMap
<1>6. ById(q.logical, c.logical).side = c.side
  <2>1. CASE c.logical \in Ids(p.logical)
    BY <2>1 DEF Kept, Legal
  <2>2. CASE c.logical \notin Ids(p.logical)
    <3> DEFINE e == LogicalRecord(c)
    <3> DEFINE s == p.logical
    <3>1. q.logical = Append(s, e)
      BY <2>2 DEF LogicalAdded
    <3>2. e.id = c.logical /\ e.side = c.side
      BY DEF LogicalRecord, LogicalOrder
    <3>3. IsSequence(s) /\ Unique(s) /\ e.id \notin Ids(s)
      BY <2>2, <3>2 DEF TruthOk, Recorded
    <3> HIDE DEF e, s
    <3>4. ById(Append(s, e), e.id) = e
      BY <3>3, AppendById
    <3> QED
      BY <3>1, <3>2, <3>4
  <2> QED
    BY <2>1, <2>2
<1> HIDE DEF m
<1>7. ASSUME c.kind \notin DependentKinds
      PROVE  PlacementPasses(q, x, p.places)
  <2>1. c.kind # "release"
    BY <1>7 DEF DependentKinds
  <2>2. PlacementContract(x, p.places, m, q.actions)
    BY <1>1, <1>3, <1>4, <1>5, <1>6, <1>7, <2>1 DEF PlacementContract
  <2> QED
    BY <2>2 DEF PlacementPasses, m
<1>8. ASSUME c.kind = "release"
      PROVE  PlacementPasses(q, x, p.places)
  <2>1. PICK y \in ToSet(p.places) : StagedFor(y, c)
    BY <1>4, <1>8 DEF Follows
  <2>2. c.id = <<"release", c.of>>
    BY <1>4, <1>8 DEF Follows
  <2>3. ASSUME NEW w \in ToSet(p.places), w.kind = "release"
        PROVE  w.of # c.of
    <3>1. w.id = <<"release", w.of>>
      BY <2>3 DEF Recorded
    <3>2. w.id \in p.actions
      BY <1>3 DEF Ids, ToSet
    <3> QED
      BY <2>2, <3>1, <3>2
  <2>4. ReleaseContract(x, p.places)
    BY <1>1, <2>1, <2>3 DEF ReleaseContract, StagedFor
  <2>5. \E w \in ToSet(p.places) : w.logical = x.logical
    BY <1>1, <2>1 DEF StagedFor
  <2>6. PlacementContract(x, p.places, m, q.actions)
    BY <1>1, <1>3, <1>4, <1>5, <1>6, <2>4, <2>5 DEF PlacementContract
  <2> QED
    BY <2>6 DEF PlacementPasses, m
<1>9. ASSUME c.kind = "cancel_replace"
      PROVE  PlacementPasses(q, x, p.places)
  <2>1. PICK id \in Ids(p.orders) : LogicalOf(p, id) = c.logical
    BY <1>4, <1>9 DEF Follows
  <2>2. id \in p.actions
    BY DEF TruthOk, Ids
  <2>3. CASE id \in Ids(p.places)
    <3>1. \E w \in ToSet(p.places) : w.logical = x.logical
      BY <1>1, <2>1, <2>3, PlacedUnder
    <3>2. PlacementContract(x, p.places, m, q.actions)
      BY <1>1, <1>3, <1>4, <1>5, <1>6, <1>9, <3>1 DEF PlacementContract
    <3> QED
      BY <3>2 DEF PlacementPasses, m
  <2>4. CASE id \notin Ids(p.places)
    <3>1. id \in Ids(q.orders) \ Ids(q.places) /\ LogicalOf(q, id) = c.logical
      BY <2>1, <2>2, <2>4 DEF Kept
    <3>2. MovesUnplaced(q, x)
      BY <1>1, <1>9, <3>1 DEF MovesUnplaced
    <3>3. PlacementContract(z, p.places, m, q.actions)
      BY <1>2, <1>3, <1>4, <1>5, <1>6 DEF PlacementContract, DependentKinds
    <3> QED
      BY <3>2, <3>3 DEF PlacementPasses, m, z
  <2> QED
    BY <2>3, <2>4
<1>10. c.kind \in {"release", "cancel_replace"} \/ c.kind \notin DependentKinds
  BY <1>4 DEF Follows, DependentKinds
<1> QED
  BY <1>7, <1>8, <1>9, <1>10 DEF x

LEMMA RecordGrows ==
    ASSUME NEW p, TruthOk(p), Recorded(p), NEW c, c.id \notin p.actions, Names(p, c), Legal(p, c),
           NEW q, Extended(p, q, c)
    PROVE  Recorded(q) /\ Kept(p, q, c)
<1>1. Kept(p, q, c)
  BY ExtendedKeeps DEF Recorded
<1>2. /\ q.actions = p.actions \cup {c.id} /\ Ids(p.orders) \subseteq Ids(q.orders)
      /\ LogicalAdded(p, q, c) /\ PlaceAdded(p, q, c)
  BY DEF Extended
<1>3. Unique(q.logical)
  BY <1>1 DEF Kept
<1>4. \A i \in DOMAIN q.logical : /\ q.logical[i].size \in Nat \ {0}
                                  /\ LogicalPasses(q.logical[i], AsMap(SubSeq(q.logical, 1, i - 1)))
  BY <1>2, LogicalKeeps
<1> DEFINE s == p.places
<1>5. \A i \in DOMAIN s : PlacementPasses(q, s[i], SubSeq(s, 1, i - 1))
  BY <1>1, <1>2, PassesStill DEF Recorded
<1> DEFINE Fine(t) == /\ \A i \in DOMAIN t : PlacementPasses(q, t[i], SubSeq(t, 1, i - 1))
                      /\ \A x \in ToSet(t) : /\ x.size \in Nat \ {0}
                                             /\ x.status = "staged" => x.kind = "staged_release"
                                             /\ x.kind = "release" => x.id = <<"release", x.of>>
<1>6. Fine(s)
  BY <1>5 DEF Recorded
<1>7. ASSUME c.type # "cancel", c.logical \in Ids(q.logical), NEW status, status = "staged" => c.kind = "staged_release",
             q.places = Append(s, PlaceRecord(c, status))
      PROVE  Fine(q.places)
  <2> DEFINE e == PlaceRecord(c, status)
  <2>1. PlacementPasses(q, e, s)
    BY <1>1, <1>2, <1>7, NewPlacePasses
  <2>2. /\ e.size \in Nat \ {0} /\ (e.status = "staged" => e.kind = "staged_release")
        /\ e.kind = "release" => e.id = <<"release", e.of>>
    BY <1>7 DEF PlaceRecord, Legal, Follows
  <2>3. IsSequence(s) /\ q.places = Append(s, e)
    BY <1>7 DEF TruthOk
  <2> HIDE DEF e, s
  <2> DEFINE n == Len(s)
  <2> DEFINE t == Append(s, e)
  <2>4. n \in Nat /\ DOMAIN s = 1..n /\ DOMAIN t = 1..(n + 1)
    BY <2>3, AppendParts
  <2>5. \A i \in 1..n : t[i] = s[i]
    BY <2>3, AppendParts
  <2>6. t[n + 1] = e
    BY <2>3, AppendParts
  <2>7. \A i \in 1..n : SubSeq(t, 1, i - 1) = SubSeq(s, 1, i - 1)
    BY <2>3, AppendKeeps
  <2>8. SubSeq(t, 1, n) = s
    BY <2>3, AppendKeeps
  <2>9. ToSet(t) = ToSet(s) \cup {e}
    BY <2>3, AppendParts
  <2> HIDE DEF n, t
  <2>10. (n + 1) - 1 = n /\ \A i \in 1..(n + 1) : i \in 1..n \/ i = n + 1
    BY <2>4
  <2>11. \A i \in 1..n : PlacementPasses(q, t[i], SubSeq(t, 1, i - 1))
    BY <1>6, <2>4, <2>5, <2>7
  <2>12. PlacementPasses(q, t[n + 1], SubSeq(t, 1, (n + 1) - 1))
    BY <2>1, <2>6, <2>8, <2>10
  <2>13. \A i \in DOMAIN t : PlacementPasses(q, t[i], SubSeq(t, 1, i - 1))
    BY <2>4, <2>10, <2>11, <2>12
  <2>14. Fine(t)
    BY <1>6, <2>2, <2>9, <2>13
  <2> QED
    BY <2>3, <2>14 DEF t
<1>8. Fine(q.places)
  <2>1. CASE q.places = s
    BY <1>6, <2>1
  <2>2. CASE q.places # s
    BY <1>2, <1>7, <2>2 DEF PlaceAdded
  <2> QED
    BY <2>1, <2>2
<1> QED
  BY <1>1, <1>3, <1>4, <1>8 DEF Recorded

(* What a manager asks for: a command that passes the gateway's validation is *)
(* then one whose records pass the contract.                                  *)
Fits(p, c) ==
    c.type # "cancel" =>
        /\ c.size \in Nat \ {0} /\ Follows(p, c)
        /\ c.relation \in {"root", "followup_after_fill", "split_child", "consolidation"}
        /\ c.relation = "split_child" => c.parent = c.root
        /\ c.relation = "consolidation" => c.parent = NoId /\ c.root = NoId

LEMMA FitsStill ==
    ASSUME NEW p, TruthOk(p), NEW q, NEW c, Kept(p, q, c), Ids(p.orders) \subseteq Ids(q.orders),
           NEW d, Fits(p, d)
    PROVE  Fits(q, d)
<1>1. Ids(p.orders) \subseteq p.actions
  BY DEF TruthOk, Ids
<1>2. \A id \in Ids(p.orders) : id \in Ids(q.orders) /\ LogicalOf(q, id) = LogicalOf(p, id)
  BY <1>1 DEF Kept
<1>3. ToSet(p.places) \subseteq ToSet(q.places)
  BY DEF Kept
<1>4. Follows(p, d) => Follows(q, d)
  BY <1>2, <1>3 DEF Follows
<1> QED
  BY <1>4 DEF Fits

LEMMA FitsLegal ==
    ASSUME NEW p, NEW c, Fits(p, c), c.type = "place" \/ c.type = "cancel",
           c.type = "place" => LineageOk(c, AsMap(p.logical))
    PROVE  Legal(p, c)
<1> DEFINE k == AsMap(p.logical)
<1>1. DOMAIN k = Ids(p.logical) /\ \A id \in Ids(p.logical) : k[id] = ById(p.logical, id)
  BY DEF AsMap
<1> HIDE DEF k
<1>2. CASE c.type = "cancel"
  BY <1>2 DEF Legal
<1>3. CASE c.type = "place" /\ c.logical \in Ids(p.logical)
  <2>1. ExistingOk(c, k)
    BY <1>1, <1>3 DEF LineageOk, k
  <2>2. ById(p.logical, c.logical).side = c.side
    BY <1>1, <1>3, <2>1 DEF ExistingOk
  <2> QED
    BY <1>3, <2>2 DEF Legal, Fits
<1>4. CASE c.type = "place" /\ c.logical \notin Ids(p.logical)
  <2>1. NewOk(c, k)
    BY <1>1, <1>4 DEF LineageOk, k
  <2> DEFINE l == LogicalRecord(c)
  <2>2. /\ l.id = c.logical /\ l.relation = c.relation /\ l.parent = c.parent /\ l.sources = c.sources
        /\ l.side = c.side /\ l.root = IF c.root = NoId THEN c.logical ELSE c.root
    BY DEF LogicalRecord, LogicalOrder
  <2> HIDE DEF l
  <2>3. LogicalPasses(l, k)
    <3>1. CASE c.relation = "root"
      <4>1. c.root \in {NoId, c.logical} /\ c.parent = NoId /\ c.sources = {}
        BY <2>1, <3>1 DEF NewOk, ShapeOk
      <4> QED
        BY <2>2, <3>1, <4>1 DEF LogicalPasses, LogicalContract
    <3>2. CASE c.relation \in {"followup_after_fill", "split_child"}
      <4>1. c.root # NoId /\ c.parent # NoId /\ c.sources # {} /\ ChildOk(c, k)
        BY <2>1, <3>2 DEF NewOk, ShapeOk
      <4>2. /\ c.parent \in DOMAIN k /\ c.root \in DOMAIN k /\ c.sources \subseteq DOMAIN k
            /\ c.relation = "followup_after_fill" <=> k[c.parent].side # c.side
        BY <4>1 DEF ChildOk
      <4>3. c.relation = "split_child" => c.parent = c.root
        BY <1>4 DEF Fits
      <4> QED
        BY <2>2, <3>2, <4>1, <4>2, <4>3 DEF LogicalPasses, LogicalContract
    <3>3. CASE c.relation = "consolidation"
      <4>1. Cardinality(c.sources) >= 2 /\ MergeOk(c, k)
        BY <2>1, <3>3 DEF NewOk, ShapeOk
      <4>2. c.sources \subseteq DOMAIN k /\ \A s \in c.sources : k[s].side = c.side
        BY <4>1 DEF MergeOk
      <4>3. c.parent = NoId /\ c.root = NoId
        BY <1>4, <3>3 DEF Fits
      <4> QED
        BY <2>2, <3>3, <4>1, <4>2, <4>3 DEF LogicalPasses, LogicalContract
    <3> QED
      BY <1>4, <3>1, <3>2, <3>3 DEF Fits
  <2> QED
    BY <1>4, <2>3 DEF Legal, Fits, l, k
<1> QED
  BY <1>2, <1>3, <1>4

-----------------------------------------------------------------------------
(* The sizes at the venue and on their way from it.                           *)
MarketSized ==
    /\ \A id \in DOMAIN venue : venue[id].left \in Nat
    /\ \A u \in ToSet(feed) : u.left \in Nat /\ (u.status = "open" => u.left # 0)
    /\ IsSequence(trades) /\ \A f \in ToSet(trades) : f.size \in Nat \ {0}
    /\ \A f \in ToSet(truth.fills) : f.size \in Nat \ {0}
AllFit(todo) == \A k \in DOMAIN todo : Fits(truth, todo[k])
LineageInv ==
    /\ ManagersInv /\ Recorded(truth) /\ OrdersSized(truth.orders) /\ MarketSized
    /\ AllFit(job.todo)

LEMMA ReportSized ==
    ASSUME IsSequence(feed), NEW id, NEW status, NEW left \in Nat, status = "open" => left # 0,
           Report(id, status, left), \A u \in ToSet(feed) : u.left \in Nat /\ (u.status = "open" => u.left # 0)
    PROVE  \A u \in ToSet(feed') : u.left \in Nat /\ (u.status = "open" => u.left # 0)
<1> DEFINE u == [id |-> id, status |-> status, left |-> left]
<1>1. feed' = Append(feed, u) /\ u.left = left /\ u.status = status
  BY DEF Report
<1> HIDE DEF u
<1>2. ToSet(Append(feed, u)) = ToSet(feed) \cup {u}
  BY AppendOne
<1> QED
  BY <1>1, <1>2

LEMMA EffectSized ==
    ASSUME VenueOk, FeedOk, MarketSized, NEW c, SizedCommand(c), c.type = "place" \/ c.type = "cancel",
           c.type = "cancel" => c.target \in DOMAIN venue,
           Effect(c) \/ NoEffect, UNCHANGED trades, truth'.fills = truth.fills
    PROVE  MarketSized'
<1>1. IsSequence(feed)
  BY DEF FeedOk
<1>2. /\ \A id \in DOMAIN venue' : venue'[id].left \in Nat
      /\ \A u \in ToSet(feed') : u.left \in Nat /\ (u.status = "open" => u.left # 0)
  <2>1. CASE NoEffect
    BY <2>1 DEF NoEffect, MarketSized
  <2>2. CASE Effect(c) /\ c.type = "place"
    <3>1. /\ venue' = [id \in DOMAIN venue \cup {c.id} |-> IF id = c.id THEN NewOrder(c) ELSE venue[id]]
          /\ Report(c.id, "open", c.size)
      BY <2>2 DEF Effect
    <3>2. NewOrder(c).left = c.size /\ c.size \in Nat \ {0}
      BY <2>2 DEF NewOrder, SizedCommand
    <3>3. \A id \in DOMAIN venue' : venue'[id].left \in Nat
      BY <3>1, <3>2 DEF MarketSized
    <3>4. \A u \in ToSet(feed') : u.left \in Nat /\ (u.status = "open" => u.left # 0)
      BY <1>1, <3>1, <3>2, ReportSized DEF MarketSized
    <3> QED
      BY <3>3, <3>4
  <2>3. CASE Effect(c) /\ c.type = "cancel"
    <3>1. /\ venue' = [venue EXCEPT ![c.target].status = "cancelled"]
          /\ Report(c.target, "cancelled", venue[c.target].left)
      BY <2>3 DEF Effect
    <3>2. venue[c.target].left \in Nat /\ \A id \in DOMAIN venue : DOMAIN venue[id] = VenueFields
      BY <2>3 DEF MarketSized, VenueOk
    <3>3. DOMAIN venue' = DOMAIN venue /\ \A id \in DOMAIN venue : venue'[id].left = venue[id].left
      BY <2>3, <3>1, <3>2 DEF VenueFields
    <3>4. \A u \in ToSet(feed') : u.left \in Nat /\ (u.status = "open" => u.left # 0)
      BY <1>1, <3>1, <3>2, ReportSized DEF MarketSized
    <3> QED
      BY <3>3, <3>4 DEF MarketSized
  <2> QED
    BY <2>1, <2>2, <2>3
<1> QED
  BY <1>2 DEF MarketSized

(* The commands are the managers'; the next one, if it is not refused, is     *)
(* legal.                                                                     *)
LEMMA NextFits ==
    ASSUME LineageInv, job.todo # << >>, NEW c, c = Head(job.todo)
    PROVE  /\ Fits(truth, c) /\ SizedCommand(c) /\ Names(truth, c)
           /\ c.type = "place" \/ c.type = "cancel"
           /\ c.type = "cancel" => c.target \in DOMAIN venue /\ c.target \in Ids(truth.orders)
           /\ ~Refused(c) => Legal(truth, c) /\ c.id \notin truth.actions
<1> DEFINE s == job.todo
<1>1. IsSequence(s) /\ s # << >>
  BY DEF LineageInv, ManagersInv, JobOk, CommandsOk
<1>2. 1 \in DOMAIN s /\ Head(s) = s[1]
  <2> HIDE DEF s
  <2> QED
    BY <1>1, HeadFacts
<1>3. Fits(truth, c)
  BY <1>2 DEF LineageInv, AllFit
<1>4. /\ Names(truth, c) /\ DOMAIN venue \subseteq Ids(truth.orders)
      /\ \/ c.type = "cancel" /\ c.target \in DOMAIN venue
         \/ c.type = "place"
  BY NextCommand DEF LineageInv
<1>5. ASSUME ~Refused(c)
      PROVE  Legal(truth, c) /\ c.id \notin truth.actions
  <2>1. c.id \notin truth.actions /\ (c.type = "place" => LineageOk(c, AsMap(truth.logical)))
    BY <1>5 DEF Refused
  <2> QED
    BY <1>3, <1>4, <2>1, FitsLegal
<1> QED
  BY <1>3, <1>4, <1>5 DEF Fits, SizedCommand

(* A submission: executed, or not brought to its end.                         *)
LEMMA SubmissionKeeps ==
    ASSUME LineageInv, ManagersInv', job.todo # << >>, NEW c, c = Head(job.todo), ~Refused(c),
           Extended(truth, truth', c), Effect(c) \/ NoEffect, UNCHANGED trades,
           job' = Submitted \/ job' = IdleJob
    PROVE  LineageInv'
<1>1. /\ Fits(truth, c) /\ SizedCommand(c) /\ Names(truth, c)
      /\ c.type = "place" \/ c.type = "cancel"
      /\ c.type = "cancel" => c.target \in DOMAIN venue
      /\ Legal(truth, c) /\ c.id \notin truth.actions
  BY NextFits
<1>2. TruthOk(truth) /\ VenueOk /\ FeedOk /\ JobOk /\ MarketSized /\ Recorded(truth)
  BY DEF LineageInv, ManagersInv
<1>3. Recorded(truth') /\ Kept(truth, truth', c)
  BY <1>1, <1>2, RecordGrows
<1>4. OrdersSized(truth'.orders) /\ truth'.fills = truth.fills /\ Ids(truth.orders) \subseteq Ids(truth'.orders)
  BY DEF Extended
<1>5. MarketSized'
  BY <1>1, <1>2, <1>4, EffectSized
<1>6. AllFit(job.todo)'
  <2>1. CASE job' = IdleJob
    <3>1. job'.todo = << >> /\ DOMAIN << >> = {}
      BY <2>1 DEF IdleJob
    <3> QED
      BY <3>1 DEF AllFit
  <2>2. CASE job' = Submitted
    <3>1. \A k \in DOMAIN job'.todo : k + 1 \in DOMAIN job.todo /\ job'.todo[k] = job.todo[k + 1]
      BY <1>2, <2>2, RestOfJob
    <3>2. \A k \in DOMAIN job.todo : Fits(truth', job.todo[k])
      BY <1>2, <1>3, <1>4, FitsStill DEF LineageInv, AllFit
    <3> QED
      BY <3>1, <3>2 DEF AllFit
  <2> QED
    BY <2>1, <2>2
<1> QED
  BY <1>3, <1>4, <1>5, <1>6 DEF LineageInv

(* A record that is all the same but for orders: their fields, or new ones.   *)
LEMMA SameRecord ==
    ASSUME NEW p, TruthOk(p), Recorded(p), NEW q, q.logical = p.logical, q.places = p.places,
           p.actions \subseteq q.actions, Ids(p.orders) \subseteq Ids(q.orders)
    PROVE  Recorded(q) /\ \A d : Fits(p, d) => Fits(q, d)
<1>1. \A id : LogicalOf(q, id) = LogicalOf(p, id)
  BY DEF LogicalOf
<1>2. ASSUME NEW x, NEW before, PlacementPasses(p, x, before)
      PROVE  PlacementPasses(q, x, before)
  <2>1. MovesUnplaced(p, x) => MovesUnplaced(q, x)
    BY <1>1 DEF MovesUnplaced
  <2> DEFINE k == AsMap(p.logical)
  <2>2. AsMap(q.logical) = k
    BY DEF AsMap
  <2> HIDE DEF k
  <2>3. \A y : PlacementContract(y, before, k, p.actions) => PlacementContract(y, before, k, q.actions)
    BY DEF PlacementContract
  <2> QED
    BY <1>2, <2>1, <2>2, <2>3 DEF PlacementPasses, k
<1>3. Recorded(q)
  BY <1>2 DEF Recorded
<1>4. ASSUME NEW d, Fits(p, d)
      PROVE  Fits(q, d)
  <2>1. Follows(p, d) => Follows(q, d)
    BY <1>1 DEF Follows
  <2> QED
    BY <1>4, <2>1 DEF Fits
<1> QED
  BY <1>3, <1>4

LEMMA NoneFit ==
    ASSUME job' = IdleJob \/ job' = NextStrategy
    PROVE  AllFit(job.todo)'
<1>1. job'.todo = << >> /\ DOMAIN << >> = {}
  BY DEF IdleJob, NextStrategy
<1> QED
  BY <1>1 DEF AllFit

LEMMA RejectRecords ==
    ASSUME LineageInv, ManagersInv', Reject
    PROVE  LineageInv'
<1> DEFINE c == Head(job.todo)
<1>1. /\ job.todo # << >> /\ job' = IdleJob /\ UNCHANGED <<venue, feed, trades>>
      /\ truth' = IF c.id \in truth.actions THEN truth ELSE Request(truth, c, "rejected")
  BY DEF Reject, StopAll
<1> HIDE DEF c
<1>2. SizedCommand(c)
  BY <1>1, NextFits DEF c
<1>3. TruthOk(truth) /\ OrdersSized(truth.orders) /\ Recorded(truth)
  BY DEF LineageInv, ManagersInv
<1>4. /\ truth'.logical = truth.logical /\ truth'.places = truth.places /\ truth'.fills = truth.fills
      /\ truth.actions \subseteq truth'.actions /\ Ids(truth.orders) \subseteq Ids(truth'.orders)
      /\ OrdersSized(truth'.orders)
  <2>1. CASE c.id \in truth.actions
    BY <1>1, <1>3, <2>1
  <2>2. CASE c.id \notin truth.actions
    <3> DEFINE q == Request(truth, c, "rejected")
    <3>1. Extended(truth, q, c) /\ q.logical = truth.logical /\ q.places = truth.places
      BY <1>2, <1>3, <2>2, RequestExtends
    <3>2. truth' = q
      BY <1>1, <2>2
    <3> HIDE DEF q
    <3> QED
      BY <3>1, <3>2 DEF Extended
  <2> QED
    BY <2>1, <2>2
<1>5. Recorded(truth')
  BY <1>3, <1>4, SameRecord
<1>6. MarketSized'
  BY <1>1, <1>4 DEF LineageInv, MarketSized
<1> QED
  BY <1>1, <1>4, <1>5, <1>6, NoneFit DEF LineageInv

LEMMA ExecuteRecords ==
    ASSUME LineageInv, ManagersInv', Execute
    PROVE  LineageInv'
<1> DEFINE c == Head(job.todo)
<1>1. /\ job.todo # << >> /\ ~Refused(c) /\ Effect(c) /\ truth' = Executed(truth, c)
      /\ job' = Submitted /\ UNCHANGED trades
  BY DEF Execute
<1> HIDE DEF c
<1>2. /\ SizedCommand(c) /\ Names(truth, c) /\ c.id \notin truth.actions
      /\ c.type = "cancel" => c.target \in Ids(truth.orders)
  BY <1>1, NextFits DEF c
<1>3. Extended(truth, truth', c)
  BY <1>1, <1>2, ExecutedExtends DEF LineageInv, ManagersInv
<1> QED
  BY <1>1, <1>3, SubmissionKeeps DEF c

LEMMA FailRecords ==
    ASSUME LineageInv, ManagersInv', Fail
    PROVE  LineageInv'
<1> DEFINE c == Head(job.todo)
<1>1. /\ job.todo # << >> /\ ~Refused(c) /\ (Effect(c) \/ NoEffect)
      /\ \E status \in {"failed", "rejected", "execution_unknown"} : truth' = Failed(truth, c, status)
      /\ job' = IdleJob /\ UNCHANGED trades
  BY DEF Fail, StopAll
<1> HIDE DEF c
<1>2. SizedCommand(c) /\ Names(truth, c) /\ c.id \notin truth.actions
  BY <1>1, NextFits DEF c
<1>3. PICK status \in {"failed", "rejected", "execution_unknown"} : truth' = Failed(truth, c, status)
  BY <1>1
<1>4. Extended(truth, truth', c)
  BY <1>2, <1>3, FailedExtends DEF LineageInv, ManagersInv
<1> QED
  BY <1>1, <1>4, SubmissionKeeps DEF c

LEMMA DieRecords ==
    ASSUME LineageInv, ManagersInv', Die
    PROVE  LineageInv'
<1> DEFINE c == Head(job.todo)
<1>1. job' = IdleJob /\ UNCHANGED trades
  BY DEF Die
<1>2. CASE UNCHANGED <<truth, venue, feed>>
  <2>1. Recorded(truth') /\ OrdersSized(truth'.orders) /\ MarketSized'
    BY <1>1, <1>2 DEF LineageInv, MarketSized
  <2> QED
    BY <1>1, <2>1, NoneFit DEF LineageInv
<1>3. CASE /\ job.todo # << >> /\ ~Refused(c)
           /\ \/ truth' = Request(truth, c, "requested") /\ NoEffect
              \/ truth' = Request(truth, c, "accepted") /\ NoEffect
              \/ truth' = Accepted(truth, c) /\ (Effect(c) \/ NoEffect)
  <2> HIDE DEF c
  <2>1. SizedCommand(c) /\ Names(truth, c) /\ c.id \notin truth.actions
    BY <1>3, NextFits DEF c
  <2>2. TruthOk(truth) /\ OrdersSized(truth.orders)
    BY DEF LineageInv, ManagersInv
  <2>3. Extended(truth, truth', c) /\ (Effect(c) \/ NoEffect)
    <3>1. CASE truth' = Request(truth, c, "requested") /\ NoEffect
      BY <2>1, <2>2, <3>1, RequestExtends
    <3>2. CASE truth' = Request(truth, c, "accepted") /\ NoEffect
      BY <2>1, <2>2, <3>2, RequestExtends
    <3>3. CASE truth' = Accepted(truth, c) /\ (Effect(c) \/ NoEffect)
      BY <2>1, <2>2, <3>3, AcceptedExtends
    <3> QED
      BY <1>3, <3>1, <3>2, <3>3
  <2> QED
    BY <1>1, <1>3, <2>3, SubmissionKeeps DEF c
<1> QED
  BY <1>2, <1>3 DEF Die

LEMMA TradeRecords ==
    ASSUME LineageInv, ManagersInv', Trade
    PROVE  LineageInv'
<1> DEFINE Sells(id, size) ==
         /\ trades' = Append(trades, [id |-> <<"trade", Len(trades) + 1>>, order |-> id, size |-> size])
         /\ LET left == venue[id].left - size
                status == IF left = 0 THEN "filled" ELSE "open"
            IN  /\ venue' = [venue EXCEPT ![id].status = status, ![id].left = left]
                /\ Report(id, status, left)
<1>0. UNCHANGED <<truth, job>>
  BY DEF Trade
<1>1. PICK id \in DOMAIN venue : \E size \in 1..venue[id].left : Sells(id, size)
  BY DEF Trade
<1>2. venue[id].left \in Nat
  BY DEF LineageInv, MarketSized
<1>3. PICK size \in 1..venue[id].left : Sells(id, size)
  BY <1>1
<1> DEFINE left == venue[id].left - size
<1> DEFINE status == IF left = 0 THEN "filled" ELSE "open"
<1> DEFINE f == [id |-> <<"trade", Len(trades) + 1>>, order |-> id, size |-> size]
<1>4. /\ venue' = [venue EXCEPT ![id].status = status, ![id].left = left]
      /\ Report(id, status, left) /\ trades' = Append(trades, f)
  BY <1>3
<1>5. left \in Nat /\ (status = "open" => left # 0) /\ size \in Nat \ {0}
  BY <1>2, <1>3
<1>6. f.size = size
  OBVIOUS
<1> HIDE DEF left, status, f
<1>7. /\ \A i \in DOMAIN venue : DOMAIN venue[i] = VenueFields
      /\ IsSequence(feed) /\ IsSequence(trades) /\ MarketSized
  BY DEF LineageInv, ManagersInv, VenueOk, FeedOk, MarketSized
<1>8. \A i \in DOMAIN venue' : venue'[i].left \in Nat
  BY <1>4, <1>5, <1>7 DEF MarketSized, VenueFields
<1>9. \A u \in ToSet(feed') : u.left \in Nat /\ (u.status = "open" => u.left # 0)
  BY <1>4, <1>5, <1>7, ReportSized DEF MarketSized
<1>10. IsSequence(trades') /\ \A g \in ToSet(trades') : g.size \in Nat \ {0}
  <2>1. IsSequence(Append(trades, f)) /\ ToSet(Append(trades, f)) = ToSet(trades) \cup {f}
    BY <1>7, AppendOne
  <2> QED
    BY <1>4, <1>5, <1>6, <1>7, <2>1 DEF MarketSized
<1>11. MarketSized'
  BY <1>0, <1>7, <1>8, <1>9, <1>10 DEF MarketSized
<1> QED
  BY <1>0, <1>11 DEF LineageInv, AllFit

LEMMA DeliverRecords ==
    ASSUME LineageInv, ManagersInv', Deliver
    PROVE  LineageInv'
<1> DEFINE s == feed
<1> DEFINE u == Head(feed)
<1>1. /\ s # << >> /\ truth' = Updated(truth, u) /\ feed' = Tail(s) /\ UNCHANGED <<job, venue, trades>>
  BY DEF Deliver
<1>2. IsSequence(s) /\ u = Head(s) /\ TruthOk(truth) /\ MarketSized
  BY DEF LineageInv, ManagersInv, FeedOk
<1> HIDE DEF s, u
<1>3. /\ DOMAIN s = 1..Len(s) /\ 1 \in DOMAIN s /\ Len(s) \in Nat \ {0} /\ u = s[1]
      /\ DOMAIN Tail(s) = 1..(Len(s) - 1) /\ \A k \in DOMAIN Tail(s) : Tail(s)[k] = s[k + 1]
  BY <1>1, <1>2, HeadFacts
<1>4. u \in ToSet(s) /\ ToSet(feed') \subseteq ToSet(s)
  <2> DEFINE t == Tail(s)
  <2> HIDE DEF t
  <2>1. \A k \in DOMAIN t : t[k] \in ToSet(s)
    BY <1>3 DEF ToSet, t
  <2>2. ToSet(t) \subseteq ToSet(s)
    BY <2>1 DEF ToSet
  <2> QED
    BY <1>1, <1>3, <2>2 DEF ToSet, t
<1>5. u.left \in Nat /\ (u.status = "open" => u.left # 0) /\ u.id \in Ids(truth.orders)
  BY <1>2, <1>4 DEF MarketSized, LineageInv, ManagersInv, FeedOk, VenueOk, s
<1>6. Refreshed(truth, truth')
  BY <1>1, <1>2, <1>5, UpdatedFacts
<1>7. truth'.fills = truth.fills /\ OrdersSized(truth'.orders)
  <2> DEFINE n == IndexOf(truth.orders, u.id)
  <2> DEFINE e == [truth.orders[n] EXCEPT !.status = u.status, !.size = u.left, !.known = TRUE]
  <2>1. truth' = [truth EXCEPT !.orders = [truth.orders EXCEPT ![n] = e]]
    BY <1>1 DEF Updated
  <2>2. truth'.fills = truth.fills /\ truth'.orders = [truth.orders EXCEPT ![n] = e]
    BY <1>2, <2>1 DEF TruthOk
  <2>3. n \in DOMAIN truth.orders => e.size = u.left /\ e.status = u.status
    BY <1>2 DEF TruthOk, OrderFields
  <2> HIDE DEF n, e
  <2>4. OrdersSized(truth.orders)
    BY DEF LineageInv
  <2> QED
    BY <1>5, <2>2, <2>3, <2>4, ExceptSized
<1>8. MarketSized'
  BY <1>1, <1>2, <1>4, <1>7 DEF MarketSized, s
<1>9. Recorded(truth') /\ \A d : Fits(truth, d) => Fits(truth', d)
  BY <1>2, <1>6, SameRecord DEF LineageInv, Refreshed
<1>10. AllFit(job.todo)'
  BY <1>1, <1>9 DEF LineageInv, AllFit
<1> QED
  BY <1>7, <1>8, <1>9, <1>10 DEF LineageInv

LEMMA RecordFillRecords ==
    ASSUME LineageInv, ManagersInv', RecordFill
    PROVE  LineageInv'
<1> DEFINE f == trades[Len(truth.fills) + 1]
<1>1. /\ truth' = Filled(truth, f) /\ UNCHANGED <<job, venue, feed, trades>>
      /\ Len(truth.fills) < Len(trades)
  BY DEF RecordFill
<1>2. TruthOk(truth) /\ MarketSized /\ IsSequence(truth.fills)
  BY DEF LineageInv, ManagersInv, TruthOk
<1>3. f.size \in Nat \ {0}
  <2>1. /\ Len(truth.fills) \in Nat /\ Len(trades) \in Nat /\ DOMAIN trades = 1..Len(trades)
    BY <1>2, SequenceDomain DEF MarketSized
  <2>2. Len(truth.fills) + 1 \in DOMAIN trades
    BY <1>1, <2>1
  <2> QED
    BY <1>2, <2>2 DEF MarketSized, ToSet
<1> HIDE DEF f
<1>4. Refreshed(truth, truth')
  BY <1>1, <1>2, FilledFacts
<1>5. truth'.fills = Append(truth.fills, f) /\ OrdersSized(truth'.orders)
  <2> DEFINE q == [truth EXCEPT !.fills = Append(truth.fills, f)]
  <2> DEFINE n == IndexOf(truth.orders, f.order)
  <2> DEFINE e == [truth.orders[n] EXCEPT !.filled = truth.orders[n].filled + f.size]
  <2>1. q.fills = Append(truth.fills, f) /\ q.orders = truth.orders /\ DOMAIN q = DOMAIN truth
    BY <1>2 DEF TruthOk
  <2>2. OrdersSized(truth.orders)
    BY DEF LineageInv
  <2>3. CASE truth' = q
    BY <2>1, <2>2, <2>3
  <2>4. CASE truth' = [q EXCEPT !.orders[IndexOf(q.orders, f.order)].filled = @ + f.size]
    <3>1. truth' = [q EXCEPT !.orders = [truth.orders EXCEPT ![n] = e]]
      BY <2>1, <2>4
    <3> HIDE DEF q
    <3>2. truth'.fills = q.fills /\ truth'.orders = [truth.orders EXCEPT ![n] = e]
      BY <1>2, <2>1, <3>1 DEF TruthOk
    <3>3. n \in DOMAIN truth.orders => e.size = truth.orders[n].size /\ e.status = truth.orders[n].status
      BY <1>2 DEF TruthOk, OrderFields
    <3> HIDE DEF n, e
    <3>4. n \in DOMAIN truth.orders => e.size \in Nat /\ (e.status = "open" => e.size # 0)
      BY <2>2, <3>3 DEF OrdersSized
    <3> DEFINE t == truth.orders
    <3>5. OrdersSized(t) /\ (n \in DOMAIN t => e.size \in Nat /\ (e.status = "open" => e.size # 0))
      BY <2>2, <3>4
    <3>6. truth'.orders = [t EXCEPT ![n] = e]
      BY <3>2
    <3> HIDE DEF t
    <3>7. OrdersSized([t EXCEPT ![n] = e])
      BY <3>5, ExceptSized
    <3> QED
      BY <2>1, <3>2, <3>6, <3>7
  <2> QED
    BY <1>1, <2>3, <2>4 DEF Filled
<1>6. \A g \in ToSet(truth'.fills) : g.size \in Nat \ {0}
  <2> DEFINE s == truth.fills
  <2>1. \A g \in ToSet(s) : g.size \in Nat \ {0}
    BY <1>2 DEF MarketSized
  <2>2. IsSequence(s) /\ truth'.fills = Append(s, f)
    BY <1>2, <1>5
  <2> HIDE DEF s
  <2>3. ToSet(Append(s, f)) = ToSet(s) \cup {f}
    BY <2>2, AppendOne
  <2> QED
    BY <1>3, <2>1, <2>2, <2>3
<1>7. MarketSized'
  BY <1>1, <1>2, <1>6 DEF MarketSized
<1>8. Recorded(truth') /\ \A d : Fits(truth, d) => Fits(truth', d)
  BY <1>2, <1>4, SameRecord DEF LineageInv, Refreshed
<1>9. AllFit(job.todo)'
  BY <1>1, <1>8 DEF LineageInv, AllFit
<1> QED
  BY <1>5, <1>7, <1>8, <1>9 DEF LineageInv

-----------------------------------------------------------------------------
(* The size of a merged order: a sum of sizes, from the first to the last.    *)
SumFold(s, n, f) ==
    [T \in SUBSET (1..n) |-> IF T = {} THEN 0 ELSE f[T \ {Max(T)}] + s[Max(T)].size]

LEMMA SumFoldExists ==
    ASSUME NEW s
    PROVE  \A n \in Nat : \E f : f = SumFold(s, n, f)
<1> DEFINE S == {n \in Nat : \E f : f = SumFold(s, n, f)}
<1>1. 0 \in S
  <2> DEFINE f == [T \in SUBSET (1..0) |-> 0]
  <2>1. \A T \in SUBSET (1..0) : T = {}
    OBVIOUS
  <2>2. f = SumFold(s, 0, f)
    BY <2>1 DEF SumFold
  <2> QED
    BY <2>2
<1>2. ASSUME NEW n \in Nat, n \in S
      PROVE  n + 1 \in S
  <2>1. PICK g : g = SumFold(s, n, g)
    BY <1>2
  <2> DEFINE f == [T \in SUBSET (1..(n + 1)) |->
                     IF n + 1 \in T THEN g[T \ {n + 1}] + s[n + 1].size ELSE g[T]]
  <2>2. \A T \in SUBSET (1..(n + 1)) : n + 1 \in T => Max(T) = n + 1
    BY GreatestOfInterval
  <2>3. \A T \in SUBSET (1..(n + 1)) : T \in SUBSET (1..n) <=> n + 1 \notin T
    OBVIOUS
  <2>4. \A T \in SUBSET (1..n) : f[T] = g[T]
    OBVIOUS
  <2>5. ASSUME NEW T \in SUBSET (1..(n + 1))
        PROVE  f[T] = IF T = {} THEN 0 ELSE f[T \ {Max(T)}] + s[Max(T)].size
    <3>1. CASE n + 1 \in T
      <4>1. T \ {n + 1} \in SUBSET (1..n)
        OBVIOUS
      <4>2. f[T] = g[T \ {n + 1}] + s[n + 1].size
        BY <3>1
      <4>3. f[T \ {n + 1}] = g[T \ {n + 1}]
        BY <2>4, <4>1
      <4>4. Max(T) = n + 1 /\ T # {}
        BY <2>2, <3>1
      <4> HIDE DEF f
      <4> QED
        BY <4>2, <4>3, <4>4
    <3>2. CASE n + 1 \notin T
      <4>0. T \in SUBSET (1..n)
        BY <2>3, <3>2
      <4>1. T \in SUBSET (1..n) /\ T \ {Max(T)} \in SUBSET (1..n)
        BY <4>0
      <4>2. g[T] = IF T = {} THEN 0 ELSE g[T \ {Max(T)}] + s[Max(T)].size
        BY <2>1, <4>1 DEF SumFold
      <4> HIDE DEF f
      <4> QED
        BY <2>4, <4>1, <4>2
    <3> QED
      BY <3>1, <3>2
  <2>6. f = SumFold(s, n + 1, f)
    BY <2>5 DEF SumFold
  <2> QED
    BY <2>6
<1> HIDE DEF S
<1>3. S = Nat
  <2>1. S \in SUBSET Nat
    BY DEF S
  <2> QED
    BY <1>1, <1>2, <2>1, NumberInduction
<1> QED
  BY <1>3 DEF S

LEMMA SumPositive ==
    ASSUME NEW s, NEW n \in Nat \ {0}, DOMAIN s = 1..n, \A i \in 1..n : s[i].size \in Nat \ {0}
    PROVE  SumOfSizes(s) \in Nat \ {0}
<1> DEFINE f == CHOOSE f : f = SumFold(s, n, f)
<1>1. SumOfSizes(s) = f[1..n]
  BY Zenon DEF SumOfSizes, FoldLeft, MapThenFoldSet, SumFold
<1>2. f = SumFold(s, n, f)
  BY SumFoldExists, Zenon
<1> HIDE DEF f
<1>3. f[1..0] = 0
  <2>1. 1..0 = {} /\ 1..0 \in SUBSET (1..n)
    OBVIOUS
  <2> QED
    BY <1>2, <2>1 DEF SumFold
<1>4. ASSUME NEW k \in 1..n
      PROVE  f[1..k] = f[1..(k - 1)] + s[k].size
  <2>1. 1..k \in SUBSET (1..n) /\ k \in 1..k
    OBVIOUS
  <2>2. Max(1..k) = k
    BY GreatestOfInterval
  <2>3. (1..k) \ {k} = 1..(k - 1)
    OBVIOUS
  <2>4. 1..k # {}
    BY <2>1
  <2>5. f[1..k] = f[(1..k) \ {Max(1..k)}] + s[Max(1..k)].size
    BY <1>2, <2>1, <2>4 DEF SumFold
  <2> QED
    BY <2>2, <2>3, <2>5
<1> DEFINE S == {k \in Nat : k <= n => f[1..k] \in Nat /\ f[1..k] >= k}
<1>5. 0 \in S
  BY <1>3
<1>6. ASSUME NEW k \in Nat, k \in S
      PROVE  k + 1 \in S
  <2> SUFFICES ASSUME k + 1 <= n
               PROVE  f[1..(k + 1)] \in Nat /\ f[1..(k + 1)] >= k + 1
    OBVIOUS
  <2>1. k + 1 \in 1..n /\ (k + 1) - 1 = k /\ f[1..k] \in Nat /\ f[1..k] >= k
    BY <1>6
  <2>2. f[1..(k + 1)] = f[1..k] + s[k + 1].size /\ s[k + 1].size \in Nat \ {0}
    BY <1>4, <2>1
  <2> QED
    BY <2>1, <2>2
<1> HIDE DEF S
<1>7. S = Nat
  <2>1. S \in SUBSET Nat
    BY DEF S
  <2> QED
    BY <1>5, <1>6, <2>1, NumberInduction
<1>8. f[1..n] \in Nat /\ f[1..n] >= n
  BY <1>7 DEF S
<1> QED
  BY <1>1, <1>8

-----------------------------------------------------------------------------
(* What each manager asks for fits the record it was decided on.              *)
LEMMA TakenFits ==
    ASSUME NEW s, NEW n \in Nat, DOMAIN s = 1..n,
           \A i \in 1..n : IsSequence(s[i]) /\ AllFit(s[i]), NEW max \in Nat
    PROVE  AllFit(TakeFirst(s, max))
<1> DEFINE c == TakeFirst(s, max)
<1>1. Blocks(c, s, 1..n)
  BY TakeFirstFacts
<1> HIDE DEF c
<1>2. DOMAIN c \subseteq Nat
  <2>1. IsSequence(c)
    BY <1>1 DEF Blocks
  <2> QED
    BY <2>1, SequenceDomain
<1>3. ASSUME NEW k \in DOMAIN c
      PROVE  Fits(truth, c[k])
  <2>1. PICK i \in 1..n, d \in Nat : At(c, s, k, i, d)
    BY <1>1, <1>3 DEF Blocks
  <2>2. k - d \in DOMAIN s[i] /\ c[d + (k - d)] = s[i][k - d]
    BY <2>1 DEF At
  <2>3. d + (k - d) = k
    BY <1>2
  <2> QED
    BY <2>2, <2>3 DEF AllFit
<1> QED
  BY <1>3 DEF AllFit, c

LEMMA NoCommandFits == AllFit(<< >>)
  BY DEF AllFit

LEMMA ReleaseFits ==
    ASSUME LineageInv, NEW x \in ToSet(truth.places)
    PROVE  AllFit(Release(truth, x))
<1> DEFINE c == [PlaceOrder(<<"release", x.id>>, "release", x.logical, x.side, x.size, x.price)
                   EXCEPT !.of = x.id]
<1>1. Release(truth, x) = << >> \/ (x.status = "staged" /\ Release(truth, x) = <<c>>)
  BY DEF Release
<1>2. /\ c.kind = "release" /\ c.logical = x.logical /\ c.id = <<"release", x.id>>
      /\ c.of = x.id /\ c.side = x.side /\ c.size = x.size /\ c.price = x.price /\ c.relation = "root"
  BY DEF PlaceOrder
<1> HIDE DEF c
<1>3. ASSUME x.status = "staged"
      PROVE  Fits(truth, c)
  <2>1. x.size \in Nat \ {0} /\ x.kind = "staged_release"
    BY <1>3 DEF LineageInv, Recorded
  <2>2. StagedFor(x, c)
    BY <1>2, <1>3, <2>1 DEF StagedFor
  <2>3. Follows(truth, c)
    BY <1>2, <2>2 DEF Follows
  <2> QED
    BY <1>2, <2>1, <2>3 DEF Fits
<1>4. Fits(truth, c) => AllFit(<<c>>)
  <2>1. DOMAIN <<c>> = {1} /\ <<c>>[1] = c
    OBVIOUS
  <2> QED
    BY <2>1 DEF AllFit
<1> QED
  BY <1>1, <1>3, <1>4, NoCommandFits

LEMMA FollowupFits ==
    ASSUME LineageInv, NEW f \in ToSet(truth.fills)
    PROVE  AllFit(Followup(truth, f))
<1> DEFINE order == ById(truth.orders, f.order)
<1> DEFINE parent == ById(truth.logical, LogicalOf(truth, f.order))
<1> DEFINE id == FollowupId(truth, f)
<1> DEFINE c == [PlaceOrder(id, "initial", id, Opposite(parent.side), f.size, order.price)
                   EXCEPT !.relation = "followup_after_fill", !.root = parent.root,
                          !.parent = parent.id, !.sources = {parent.id}, !.of = f.id]
<1>1. Followup(truth, f) = << >> \/ Followup(truth, f) = <<c>>
  BY DEF Followup
<1> HIDE DEF order, parent, id
<1>2. c.kind = "initial" /\ c.size = f.size /\ c.relation = "followup_after_fill"
  BY DEF PlaceOrder
<1> HIDE DEF c
<1>3. f.size \in Nat \ {0}
  BY DEF LineageInv, MarketSized
<1>4. Fits(truth, c)
  BY <1>2, <1>3 DEF Fits, Follows
<1>5. AllFit(<<c>>)
  <2>1. DOMAIN <<c>> = {1} /\ <<c>>[1] = c
    OBVIOUS
  <2> QED
    BY <1>4, <2>1 DEF AllFit
<1> QED
  BY <1>1, <1>5, NoCommandFits

LEMMA MoveFits ==
    ASSUME LineageInv, NEW o \in ToSet(truth.orders)
    PROVE  AllFit(Move(truth, o))
<1> DEFINE price == AnchoredPrice(o.price)
<1> DEFINE identity == <<LogicalOf(truth, o.id), o.id, o.price, book.mid, price>>
<1> DEFINE cancel == CancelOrder(<<"cancel-anchor-source", identity>>, o.id)
<1> DEFINE place == [PlaceOrder(<<"cancel-replace-anchor", identity>>, "cancel_replace",
                                LogicalOf(truth, o.id), o.side, o.size, price)
                       EXCEPT !.replaces = {o.id}]
<1>1. Move(truth, o) = << >> \/ (MoveSource(truth, o) /\ Move(truth, o) = <<cancel, place>>)
  BY DEF Move
<1> HIDE DEF identity, price
<1>2. cancel.type = "cancel"
  BY DEF CancelOrder, PlaceOrder
<1>3. /\ place.kind = "cancel_replace" /\ place.logical = LogicalOf(truth, o.id)
      /\ place.size = o.size /\ place.relation = "root"
  BY DEF PlaceOrder
<1> HIDE DEF cancel, place
<1>4. ASSUME MoveSource(truth, o)
      PROVE  Fits(truth, place)
  <2>1. o.status = "open" /\ LogicalOf(truth, o.id) # NoId
    BY <1>4 DEF MoveSource
  <2>2. o.size \in Nat \ {0} /\ o.id \in Ids(truth.orders)
    BY <2>1 DEF LineageInv, OrdersSized, ToSet, Ids
  <2>3. Follows(truth, place)
    BY <1>3, <2>1, <2>2 DEF Follows
  <2> QED
    BY <1>3, <2>2, <2>3 DEF Fits
<1>5. Fits(truth, place) => AllFit(<<cancel, place>>)
  <2>1. DOMAIN <<cancel, place>> = {1, 2} /\ <<cancel, place>>[1] = cancel /\ <<cancel, place>>[2] = place
    OBVIOUS
  <2>2. Fits(truth, cancel)
    BY <1>2 DEF Fits
  <2> QED
    BY <2>1, <2>2 DEF AllFit
<1> QED
  BY <1>1, <1>4, <1>5, NoCommandFits

LEMMA LiveOrderSized ==
    ASSUME LineageInv, NEW l, MergeSource(truth, l)
    PROVE  LiveOrder(truth, l).size \in Nat
<1> DEFINE live == OrdersOf(truth, l.id, CancelableStatuses)
<1>1. live # {}
  <2>1. Cardinality(live) = 1
    BY DEF MergeSource
  <2>2. Cardinality({}) = 0
    BY FS_EmptySet
  <2> QED
    BY <2>1, <2>2
<1>2. LiveOrder(truth, l) \in live
  BY <1>1 DEF LiveOrder
<1>3. PICK x \in ToSet(truth.places) : LiveOrder(truth, l) = ById(truth.orders, x.id)
  BY <1>2 DEF OrdersOf, PlacesOf
<1>4. x.id \in Ids(truth.orders)
  BY DEF LineageInv, ManagersInv, TruthOk
<1> QED
  BY <1>3, <1>4, KnownIndex DEF LineageInv, OrdersSized

LEMMA SplitFits ==
    ASSUME LineageInv, NEW l, SplitSource(truth, l)
    PROVE  AllFit(Split(truth, l))
<1> DEFINE order == LiveOrder(truth, l)
<1> DEFINE cancel == CancelOrder(<<"split-cancel", l.id, order.id>>, order.id)
<1> DEFINE child(i) ==
        LET id == <<"split_child", l.id, i, order.price, order.size \div 2>>
        IN  [PlaceOrder(id, "initial", id, l.side, order.size \div 2, order.price)
               EXCEPT !.relation = "split_child", !.root = l.root,
                      !.parent = LineageParent(l), !.sources = {l.id},
                      !.replaces = {order.id}]
<1> DEFINE s == <<cancel, child(1), child(2)>>
<1>1. Split(truth, l) = << >> \/ Split(truth, l) = s
  BY DEF Split
<1>2. order.size \div 2 \in Nat \ {0}
  <2>1. order.size \in Nat /\ order.size > 0 /\ order.size % 2 = 0
    BY LiveOrderSized DEF SplitSource
  <2> HIDE DEF order
  <2> QED
    BY <2>1
<1> HIDE DEF order
<1>3. cancel.type = "cancel"
  BY DEF CancelOrder, PlaceOrder
<1>4. \A i \in {1, 2} : /\ child(i).kind = "initial" /\ child(i).size = order.size \div 2
                        /\ child(i).relation = "split_child" /\ child(i).parent = l.root /\ child(i).root = l.root
  BY DEF PlaceOrder, LineageParent
<1> HIDE DEF cancel, child
<1>5. DOMAIN s = {1, 2, 3} /\ s[1] = cancel /\ s[2] = child(1) /\ s[3] = child(2)
  <2>1. \A a, b, c : DOMAIN <<a, b, c>> = 1..3
    OBVIOUS
  <2>2. 1..3 = {1, 2, 3}
    OBVIOUS
  <2> QED
    BY <2>1, <2>2
<1> HIDE DEF s
<1>6. Fits(truth, cancel) /\ \A i \in {1, 2} : Fits(truth, child(i))
  BY <1>2, <1>3, <1>4 DEF Fits, Follows
<1>7. AllFit(s)
  BY <1>5, <1>6 DEF AllFit
<1> QED
  BY <1>1, <1>7, NoCommandFits

LEMMA MergedFits ==
    ASSUME LineageInv, NEW group, IsSequence(group), Len(group) >= 2,
           \A i \in DOMAIN group : group[i] \in ToSet(truth.logical)
    PROVE  AllFit(Merge(truth, group))
<1> DEFINE target(i) == LiveOrder(truth, group[i]).id
<1> DEFINE cancels == [i \in DOMAIN group |->
                CancelOrder(<<"cancel-consolidation-source", target(i), group[i].id>>, target(i))]
<1> DEFINE sources == {group[i].id : i \in DOMAIN group}
<1> DEFINE price == LiveOrder(truth, group[1]).price
<1> DEFINE id == <<"consolidation", sources, price, SumOfSizes(group)>>
<1> DEFINE place == [PlaceOrder(id, "initial", id, group[1].side, SumOfSizes(group), price)
                       EXCEPT !.relation = "consolidation", !.sources = sources,
                              !.replaces = {c.target : c \in ToSet(cancels)}]
<1>1. Merge(truth, group) = << >> \/ Merge(truth, group) = Append(cancels, place)
  BY DEF Merge
<1>2. Len(group) \in Nat \ {0} /\ DOMAIN group = 1..Len(group)
  BY SequenceDomain
<1>3. \A i \in DOMAIN group : group[i].size \in Nat \ {0}
  BY DEF LineageInv, Recorded, ToSet
<1>4. SumOfSizes(group) \in Nat \ {0}
  BY <1>2, <1>3, SumPositive
<1> HIDE DEF target
<1>5. \A i \in DOMAIN group : cancels[i].type = "cancel"
  BY DEF CancelOrder, PlaceOrder
<1>6. IsSequence(cancels) /\ DOMAIN cancels = DOMAIN group
  <2>1. cancels = [i \in 1..Len(group) |-> cancels[i]] /\ DOMAIN cancels = DOMAIN group
    BY <1>2
  <2> HIDE DEF cancels
  <2> QED
    BY <1>2, <2>1, FunctionIsSequence
<1> HIDE DEF cancels, id, price, sources
<1>7. /\ place.kind = "initial" /\ place.size = SumOfSizes(group) /\ place.relation = "consolidation"
      /\ place.parent = NoId /\ place.root = NoId
  BY DEF PlaceOrder
<1> HIDE DEF place
<1>8. Fits(truth, place) /\ \A i \in DOMAIN cancels : Fits(truth, cancels[i])
  BY <1>4, <1>5, <1>6, <1>7 DEF Fits, Follows
<1> DEFINE n == Len(cancels)
<1> DEFINE s == Append(cancels, place)
<1>9. n \in Nat /\ DOMAIN cancels = 1..n /\ DOMAIN s = 1..(n + 1)
  BY <1>6, AppendParts
<1>10. \A i \in 1..n : s[i] = cancels[i]
  BY <1>6, AppendParts
<1>11. s[n + 1] = place
  BY <1>6, AppendParts
<1> HIDE DEF n, s
<1>12. \A i \in 1..(n + 1) : i \in 1..n \/ i = n + 1
  BY <1>9
<1>13. AllFit(s)
  BY <1>8, <1>9, <1>10, <1>11, <1>12 DEF AllFit
<1> QED
  BY <1>1, <1>13, NoCommandFits DEF s

LEMMA ConsolidationFits ==
    ASSUME LineageInv, NEW l
    PROVE  AllFit(Consolidation(truth, l))
<1> DEFINE group == MergeGroup(truth, l)
<1>1. \/ Consolidation(truth, l) = << >>
      \/ Consolidation(truth, l) = Merge(truth, group) /\ ~(Len(group) < 2)
  <2>1. CASE ~MergeSource(truth, l)
    <3>1. Len(<< >>) = 0
      OBVIOUS
    <3> QED
      BY <2>1, <3>1 DEF Consolidation
  <2>2. CASE MergeSource(truth, l)
    <3> HIDE DEF group
    <3>1. [g \in {group} |-> Merge(truth, g)][group] = Merge(truth, group)
      OBVIOUS
    <3> QED
      BY <2>2, <3>1 DEF Consolidation, group
  <2> QED
    BY <2>1, <2>2
<1>2. IsSequence(group) /\ \A i \in DOMAIN group : group[i] \in ToSet(truth.logical)
  BY MergeGroupFacts DEF LineageInv
<1> HIDE DEF group
<1>3. ASSUME ~(Len(group) < 2)
      PROVE  AllFit(Merge(truth, group))
  <2>1. Len(group) \in Nat
    BY <1>2, SequenceDomain
  <2>2. Len(group) >= 2
    BY <1>3, <2>1
  <2> QED
    BY <1>2, <2>2, MergedFits
<1> QED
  BY <1>1, <1>3, NoCommandFits

LEMMA DecisionsFit ==
    ASSUME LineageInv
    PROVE  /\ AllFit(ReleaseDecision(truth)) /\ AllFit(FollowupDecision(truth))
           /\ AllFit(ConsolidationDecision(truth)) /\ AllFit(MoveDecision(truth))
<1>1. MaxReleases \in Nat /\ MaxFollowups \in Nat /\ MaxConsolidations \in Nat /\ MaxMoves \in Nat
  BY BoundsAssumption
<1>2. /\ Len(truth.places) \in Nat /\ DOMAIN truth.places = 1..Len(truth.places)
      /\ Len(truth.fills) \in Nat /\ DOMAIN truth.fills = 1..Len(truth.fills)
      /\ Len(truth.logical) \in Nat /\ DOMAIN truth.logical = 1..Len(truth.logical)
      /\ Len(truth.orders) \in Nat /\ DOMAIN truth.orders = 1..Len(truth.orders)
  <2>1. /\ IsSequence(truth.places) /\ IsSequence(truth.fills)
        /\ IsSequence(truth.logical) /\ IsSequence(truth.orders)
    BY DEF LineageInv, ManagersInv, TruthOk
  <2> QED
    BY <2>1, SequenceDomain
<1>3. AllFit(ReleaseDecision(truth))
  <2> DEFINE s == Releases(truth)
  <2> DEFINE n == Len(truth.places)
  <2>1. DOMAIN s = 1..n /\ \A i \in 1..n : /\ truth.places[i] \in ToSet(truth.places)
                                           /\ s[i] = Release(truth, truth.places[i])
    BY <1>2 DEF Releases, ToSet
  <2>2. n \in Nat /\ ReleaseDecision(truth) = TakeFirst(s, MaxReleases)
    BY <1>2 DEF ReleaseDecision
  <2> HIDE DEF s, n
  <2>3. \A i \in 1..n : IsSequence(s[i]) /\ AllFit(s[i])
    BY <2>1, ReleaseOk, ReleaseFits DEF LineageInv, CommandsOk
  <2> QED
    BY <1>1, <2>1, <2>2, <2>3, TakenFits
<1>4. AllFit(FollowupDecision(truth))
  <2> DEFINE s == [i \in DOMAIN truth.fills |-> Followup(truth, truth.fills[i])]
  <2> DEFINE n == Len(truth.fills)
  <2>1. DOMAIN s = 1..n /\ \A i \in 1..n : /\ truth.fills[i] \in ToSet(truth.fills)
                                           /\ s[i] = Followup(truth, truth.fills[i])
    BY <1>2 DEF ToSet
  <2>2. n \in Nat /\ FollowupDecision(truth) = TakeFirst(s, MaxFollowups)
    BY <1>2 DEF FollowupDecision
  <2> HIDE DEF s, n
  <2>3. \A i \in 1..n : IsSequence(s[i]) /\ AllFit(s[i])
    BY <2>1, FollowupOk, FollowupFits DEF CommandsOk
  <2> QED
    BY <1>1, <2>1, <2>2, <2>3, TakenFits
<1>5. AllFit(ConsolidationDecision(truth))
  <2> DEFINE s == [i \in DOMAIN truth.logical |-> Consolidation(truth, truth.logical[i])]
  <2> DEFINE n == Len(truth.logical)
  <2>1. DOMAIN s = 1..n /\ \A i \in 1..n : s[i] = Consolidation(truth, truth.logical[i])
    BY <1>2
  <2>2. n \in Nat /\ ConsolidationDecision(truth) = TakeFirst(s, MaxConsolidations)
    BY <1>2 DEF ConsolidationDecision
  <2> HIDE DEF s, n
  <2>3. \A i \in 1..n : IsSequence(s[i]) /\ AllFit(s[i])
    BY <2>1, ConsolidationOk, ConsolidationFits DEF LineageInv, CommandsOk
  <2> QED
    BY <1>1, <2>1, <2>2, <2>3, TakenFits
<1>6. AllFit(MoveDecision(truth))
  <2> DEFINE s == [i \in DOMAIN truth.orders |-> Move(truth, truth.orders[i])]
  <2> DEFINE n == Len(truth.orders)
  <2>1. DOMAIN s = 1..n /\ \A i \in 1..n : /\ truth.orders[i] \in ToSet(truth.orders)
                                           /\ s[i] = Move(truth, truth.orders[i])
    BY <1>2 DEF ToSet
  <2>2. n \in Nat /\ MoveDecision(truth) = TakeFirst(s, MaxMoves)
    BY <1>2 DEF MoveDecision
  <2> HIDE DEF s, n
  <2>3. \A i \in 1..n : IsSequence(s[i]) /\ AllFit(s[i])
    BY <2>1, MoveOk, MoveFits DEF LineageInv, CommandsOk
  <2> QED
    BY <1>1, <2>1, <2>2, <2>3, TakenFits
<1> QED
  BY <1>3, <1>4, <1>5, <1>6

LEMMA EvaluateRecords ==
    ASSUME LineageInv, ManagersInv', Evaluate
    PROVE  LineageInv'
<1>1. UNCHANGED <<truth, venue, feed, trades>>
  BY DEF Evaluate
<1>2. Recorded(truth)' /\ OrdersSized(truth.orders)' /\ MarketSized'
  BY <1>1 DEF LineageInv, MarketSized
<1>3. \/ job' = NextStrategy \/ job' = IdleJob
      \/ Decided(ReleaseDecision(truth)) \/ Decided(FollowupDecision(truth))
      \/ Decided(ConsolidationDecision(truth)) \/ Decided(MoveDecision(truth))
      \/ \E l \in ToSet(truth.logical) : SplitSource(truth, l) /\ Decided(Split(truth, l))
  BY DEF Evaluate
<1>4. ASSUME NEW commands, AllFit(commands), Decided(commands)
      PROVE  AllFit(job.todo)'
  <2>1. CASE job' = NextStrategy
    BY <2>1, NoneFit
  <2>2. CASE job' = [job EXCEPT !.todo = commands]
    <3>1. job'.todo = commands
      BY <2>2 DEF LineageInv, ManagersInv, JobOk
    <3> QED
      BY <1>1, <1>4, <3>1 DEF AllFit
  <2> QED
    BY <1>4, <2>1, <2>2 DEF Decided
<1>5. AllFit(job.todo)'
  <2>1. CASE job' = NextStrategy \/ job' = IdleJob
    BY <2>1, NoneFit
  <2>2. CASE Decided(ReleaseDecision(truth))
    BY <1>4, <2>2, DecisionsFit
  <2>3. CASE Decided(FollowupDecision(truth))
    BY <1>4, <2>3, DecisionsFit
  <2>4. CASE Decided(ConsolidationDecision(truth))
    BY <1>4, <2>4, DecisionsFit
  <2>5. CASE Decided(MoveDecision(truth))
    BY <1>4, <2>5, DecisionsFit
  <2>6. ASSUME NEW l \in ToSet(truth.logical), SplitSource(truth, l), Decided(Split(truth, l))
        PROVE  AllFit(job.todo)'
    BY <1>4, <2>6, SplitFits
  <2> QED
    BY <1>3, <2>1, <2>2, <2>3, <2>4, <2>5, <2>6
<1> QED
  BY <1>2, <1>5 DEF LineageInv


-----------------------------------------------------------------------------
(* The operator's commands pass: each starts a logical order, or stages one   *)
(* more order of the side of an earlier one.                                  *)
SeedsFit(s, n) ==
    \A i \in 1..n :
        /\ s[i].size \in Nat \ {0} /\ s[i].relation = "root" /\ s[i].root = NoId
        /\ s[i].parent = NoId /\ s[i].sources = {}
        /\ \/ s[i].logical = s[i].id
           \/ \E j \in 1..(i - 1) : s[j].logical = s[i].logical /\ s[j].side = s[i].side
Passing(p, s, k) ==
    /\ OnRecord(p, s, k) /\ Recorded(p) /\ OrdersSized(p.orders) /\ p.fills = << >>
    /\ \A j \in 1..k : ById(p.logical, s[j].logical).side = s[j].side

LEMMA SeedLegal ==
    ASSUME NEW s, NEW n \in Nat, SeedsOk(s, n), SeedsFit(s, n), NEW k \in 1..n,
           NEW p, Passing(p, s, k - 1)
    PROVE  /\ Legal(p, s[k]) /\ s[k].id \notin p.actions /\ Names(p, s[k]) /\ s[k].type = "place"
           /\ s[k].kind \in {"initial", "staged_release"} /\ SizedCommand(s[k])
<1> DEFINE c == s[k]
<1>1. /\ c.size \in Nat \ {0} /\ c.relation = "root" /\ c.root = NoId /\ c.parent = NoId /\ c.sources = {}
      /\ \/ c.logical = c.id
         \/ \E j \in 1..(k - 1) : s[j].logical = c.logical /\ s[j].side = c.side
  BY DEF SeedsFit
<1>2. /\ c.type = "place" /\ c.kind \in {"initial", "staged_release"}
      /\ \A j \in 1..(k - 1) : s[j].id # c.id
  BY DEF SeedsOk
<1>3. /\ TruthOk(p) /\ p.actions = {s[j].id : j \in 1..(k - 1)}
      /\ Ids(p.logical) = {s[j].logical : j \in 1..(k - 1)}
      /\ \A j \in 1..(k - 1) : ById(p.logical, s[j].logical).side = s[j].side
  BY DEF Passing, OnRecord
<1> HIDE DEF c
<1>4. c.id \notin p.actions
  BY <1>2, <1>3
<1>5. Ids(p.logical) \subseteq p.actions
  BY <1>3 DEF TruthOk, Ids, ToSet
<1>6. CASE c.logical \in Ids(p.logical)
  <2>1. PICK j \in 1..(k - 1) : s[j].logical = c.logical /\ s[j].side = c.side
    BY <1>1, <1>4, <1>5, <1>6
  <2>2. ById(p.logical, c.logical).side = c.side
    BY <1>3, <2>1
  <2> QED
    BY <1>1, <1>2, <1>4, <1>6, <2>2 DEF Legal, Follows, Names, SizedCommand, c
<1>7. CASE c.logical \notin Ids(p.logical)
  <2>1. c.logical = c.id
    BY <1>1, <1>3, <1>7
  <2> DEFINE l == LogicalRecord(c)
  <2>2. /\ l.id = c.logical /\ l.relation = "root" /\ l.parent = NoId /\ l.sources = {}
        /\ l.root = c.logical
    BY <1>1 DEF LogicalRecord, LogicalOrder
  <2> HIDE DEF l
  <2>3. LogicalPasses(l, AsMap(p.logical))
    BY <2>2 DEF LogicalPasses, LogicalContract
  <2> QED
    BY <1>1, <1>2, <1>4, <1>7, <2>1, <2>3 DEF Legal, Follows, Names, SizedCommand, c, l
<1> QED
  BY <1>6, <1>7

LEMMA SeedPasses ==
    ASSUME NEW s, NEW n \in Nat, SeedsOk(s, n), SeedsFit(s, n), NEW k \in 1..n,
           NEW p, Passing(p, s, k - 1)
    PROVE  Passing(Seed(p, s[k]), s, k)
<1> DEFINE c == s[k]
<1> DEFINE q == Seed(p, c)
<1> DEFINE m == k - 1
<1>0. c = s[k] /\ q = Seed(p, c) /\ m = k - 1
  OBVIOUS
<1>1. /\ Legal(p, c) /\ c.id \notin p.actions /\ Names(p, c) /\ c.type = "place"
      /\ c.kind \in {"initial", "staged_release"} /\ SizedCommand(c)
  BY SeedLegal
<1>2. /\ TruthOk(p) /\ OrdersSized(p.orders) /\ Recorded(p) /\ p.fills = << >>
      /\ Ids(p.logical) = {s[j].logical : j \in 1..m}
      /\ \A j \in 1..m : ById(p.logical, s[j].logical).side = s[j].side
  BY DEF Passing, OnRecord
<1>3. OnRecord(q, s, k)
  BY SeedKeeps DEF Passing
<1> HIDE DEF c, q, m
<1>4. Extended(p, q, c)
  <2>1. CASE c.kind = "staged_release"
    <3>1. q = StagedIn(p, c)
      BY <1>0, <2>1 DEF Seed
    <3> QED
      BY <1>1, <1>2, <2>1, <3>1, StagedExtends
  <2>2. CASE c.kind # "staged_release"
    <3>1. q = Executed(p, c)
      BY <1>0, <2>2 DEF Seed
    <3> QED
      BY <1>1, <1>2, <3>1, ExecutedExtends
  <2> QED
    BY <2>1, <2>2
<1>5. Recorded(q) /\ Kept(p, q, c)
  BY <1>1, <1>2, <1>4, RecordGrows
<1>6. OrdersSized(q.orders) /\ q.fills = << >> /\ LogicalAdded(p, q, c)
  BY <1>2, <1>4 DEF Extended
<1>7. c.logical \in Ids(q.logical)
  BY <1>0, <1>3 DEF OnRecord
<1>8. ById(q.logical, c.logical).side = c.side
  <2>1. CASE c.logical \in Ids(p.logical)
    BY <1>1, <1>5, <2>1 DEF Kept, Legal
  <2>2. CASE c.logical \notin Ids(p.logical)
    <3> DEFINE e == LogicalRecord(c)
    <3> DEFINE t == p.logical
    <3>1. q.logical = Append(t, e)
      BY <1>6, <1>7, <2>2 DEF LogicalAdded
    <3>2. e.id = c.logical /\ e.side = c.side
      BY DEF LogicalRecord, LogicalOrder
    <3>3. IsSequence(t) /\ Unique(t) /\ e.id \notin Ids(t)
      BY <1>2, <2>2, <3>2 DEF TruthOk, Recorded
    <3> HIDE DEF e, t
    <3>4. ById(Append(t, e), e.id) = e
      BY <3>3, AppendById
    <3> QED
      BY <3>1, <3>2, <3>4
  <2> QED
    BY <2>1, <2>2
<1>9. ASSUME NEW j \in 1..k
      PROVE  ById(q.logical, s[j].logical).side = s[j].side
  <2>1. CASE j = k
    BY <1>0, <1>8, <2>1
  <2>2. CASE j # k
    <3>1. j \in 1..m
      BY <1>0, <2>2
    <3>2. s[j].logical \in Ids(p.logical)
      BY <1>2, <3>1
    <3> QED
      BY <1>2, <1>5, <3>1, <3>2 DEF Kept
  <2> QED
    BY <2>1, <2>2
<1> QED
  BY <1>0, <1>3, <1>5, <1>6, <1>9 DEF Passing

LEMMA SeededPasses ==
    ASSUME NEW s, s = Seeds, NEW n \in Nat, DOMAIN s = 1..n, SeedsOk(s, n), SeedsFit(s, n)
    PROVE  Passing(Seeded, s, n)
<1>1. PICK g : /\ g[0] = EmptyTruth
               /\ \A k \in 1..n : g[k] = Seed(g[k - 1], s[k])
               /\ Seeded = g[n]
  BY SeededSteps
<1> DEFINE S == {k \in Nat : k <= n => Passing(g[k], s, k)}
<1>2. 0 \in S
  <2> DEFINE p == EmptyTruth
  <2>1. /\ DOMAIN p = {"actions", "orders", "logical", "places", "fills"} /\ p.actions = {}
        /\ p.orders = << >> /\ p.logical = << >> /\ p.places = << >> /\ p.fills = << >>
    BY DEF EmptyTruth
  <2>2. DOMAIN << >> = {} /\ Ids(<< >>) = {} /\ ToSet(<< >>) = {}
    BY DEF Ids, ToSet
  <2> HIDE DEF p
  <2>3. TruthOk(p)
    BY <2>1, <2>2, NoElement DEF TruthOk, Unique
  <2>4. 1..0 = {}
    OBVIOUS
  <2>5. OnRecord(p, s, 0)
    BY <2>1, <2>2, <2>3, <2>4 DEF OnRecord
  <2>6. Recorded(p)
    BY <2>1, <2>2 DEF Recorded, Unique
  <2>7. OrdersSized(p.orders)
    BY <2>1, <2>2 DEF OrdersSized
  <2>8. Passing(p, s, 0)
    BY <2>1, <2>4, <2>5, <2>6, <2>7 DEF Passing
  <2> QED
    BY <1>1, <2>8 DEF p
<1>3. ASSUME NEW k \in Nat, k \in S
      PROVE  k + 1 \in S
  <2> SUFFICES ASSUME k + 1 <= n
               PROVE  Passing(g[k + 1], s, k + 1)
    OBVIOUS
  <2>1. k + 1 \in 1..n /\ (k + 1) - 1 = k /\ Passing(g[k], s, k)
    BY <1>3
  <2>2. Passing(Seed(g[k], s[k + 1]), s, k + 1)
    BY <2>1, SeedPasses
  <2> QED
    BY <1>1, <2>1, <2>2
<1> HIDE DEF S
<1>4. S = Nat
  <2>1. S \in SUBSET Nat
    BY DEF S
  <2> QED
    BY <1>2, <1>3, <2>1, NumberInduction
<1> QED
  BY <1>1, <1>4 DEF S

LEMMA StartsPassing ==
    ASSUME Init
    PROVE  LineageInv
<1> DEFINE s == Seeds
<1> DEFINE n == Len(s)
<1>1. /\ setup \in Setups /\ truth = Seeded /\ job = IdleJob /\ feed = << >> /\ trades = << >>
      /\ venue = [id \in SeedIds |-> NewOrder(ById(s, id))]
  BY DEF Init
<1>2. s \in Seq(ToSet(s)) /\ \A i \in DOMAIN s : SeedOk(s, i)
  BY <1>1, SetupsAssumption DEF Seeds
<1>3. s = Seeds /\ SeedIds = {c.id : c \in {d \in ToSet(s) : d.kind # "staged_release"}}
  BY DEF SeedIds
<1> HIDE DEF s
<1>4. n \in Nat /\ DOMAIN s = 1..n
  <2>1. IsSequence(s)
    BY <1>2 DEF IsSequence
  <2> QED
    BY <2>1, SequenceDomain
<1> HIDE DEF n
<1>5. \A i \in 1..n :
          /\ s[i].type = "place" /\ s[i].kind \in {"initial", "staged_release"} /\ s[i].replaces = {}
          /\ s[i].size \in Nat \ {0} /\ s[i].relation = "root" /\ s[i].root = NoId
          /\ s[i].parent = NoId /\ s[i].sources = {}
          /\ \A b \in {s[j] : j \in 1..(i - 1)} : b.id # s[i].id
          /\ \/ s[i].logical = s[i].id
             \/ /\ s[i].kind = "staged_release"
                /\ \E b \in {s[j] : j \in 1..(i - 1)} : b.logical = s[i].logical /\ b.side = s[i].side
  BY <1>2, <1>4 DEF SeedOk
<1>6. SeedsOk(s, n)
  BY <1>5 DEF SeedsOk
<1>7. SeedsFit(s, n)
  BY <1>5 DEF SeedsFit
<1>8. Passing(truth, s, n)
  BY <1>1, <1>3, <1>4, <1>6, <1>7, SeededPasses
<1>9. ManagersInv
  BY StartsRight DEF TurnInv
<1>10. MarketSized
  <2>1. ASSUME NEW id \in DOMAIN venue
        PROVE  venue[id].left \in Nat
    <3>1. id \in SeedIds
      BY <1>1
    <3>2. id \in Ids(s)
      BY <1>3, <1>4, <3>1 DEF Ids, ToSet
    <3>3. PICK i \in 1..n : ById(s, id) = s[i]
      BY <1>4, <3>2 DEF ById, Ids
    <3>4. venue[id] = NewOrder(s[i])
      BY <1>1, <3>1, <3>3
    <3>5. venue[id].left = s[i].size
      BY <3>4 DEF NewOrder
    <3> QED
      BY <1>5, <3>5
  <2>2. truth.fills = << >>
    BY <1>8 DEF Passing
  <2>3. IsSequence(<< >>) /\ ToSet(<< >>) = {}
    BY NoElement DEF IsSequence, ToSet
  <2> QED
    BY <1>1, <2>1, <2>2, <2>3 DEF MarketSized
<1>11. AllFit(job.todo)
  <2>1. job.todo = << >> /\ DOMAIN << >> = {}
    BY <1>1 DEF IdleJob
  <2> QED
    BY <2>1 DEF AllFit
<1> QED
  BY <1>8, <1>9, <1>10, <1>11 DEF LineageInv, Passing

LEMMA LineageStep ==
    ASSUME LineageInv, [Next]_vars
    PROVE  LineageInv'
<1>1. ManagersInv'
  BY StepKeeps DEF LineageInv
<1>2. CASE Evaluate
  BY <1>1, <1>2, EvaluateRecords
<1>3. CASE Reject
  BY <1>1, <1>3, RejectRecords
<1>4. CASE Execute
  BY <1>1, <1>4, ExecuteRecords
<1>5. CASE Fail
  BY <1>1, <1>5, FailRecords
<1>6. CASE Die
  BY <1>1, <1>6, DieRecords
<1>7. CASE Trade
  BY <1>1, <1>7, TradeRecords
<1>8. CASE Deliver
  BY <1>1, <1>8, DeliverRecords
<1>9. CASE RecordFill
  BY <1>1, <1>9, RecordFillRecords
<1>10. CASE UNCHANGED <<truth, job, venue, feed, trades>>
  <2>1. MarketSized'
    BY <1>10 DEF LineageInv, MarketSized
  <2>2. AllFit(job.todo)'
    BY <1>10 DEF LineageInv, AllFit
  <2> QED
    BY <1>1, <1>10, <2>1, <2>2 DEF LineageInv
<1>11. Tick \/ UNCHANGED vars => UNCHANGED <<truth, job, venue, feed, trades>>
  BY DEF Tick, vars
<1> QED
  BY <1>2, <1>3, <1>4, <1>5, <1>6, <1>7, <1>8, <1>9, <1>10, <1>11 DEF Next

(* Everything the managers bring about, in whatever order they decide and     *)
(* whatever is rejected, lost or half done, passes the lineage contract of    *)
(* ledger health, but for the two exceptions LineagePasses names.             *)
THEOREM LineageAlwaysPasses == Spec => []LineagePasses
<1>1. Init => LineageInv
  BY StartsPassing
<1>2. LineageInv /\ [Next]_vars => LineageInv'
  BY LineageStep
<1>3. LineageInv => LineagePasses
  BY DEF LineageInv, Recorded, LineagePasses
<1> QED
  BY <1>1, <1>2, <1>3, PTL DEF Spec
=============================================================================
