--------------------------- MODULE QuotingProofs ----------------------------
(* Proofs about Quoting, for every setup, price grid and bound: an order at   *)
(* the venue is within the configured limits and within the operator's policy *)
(* on their own, the passive strategy has one quote per side, and the order   *)
(* book that several connections bring is the venue's.                        *)
(* A submission is a fold over the intents, so the argument begins with       *)
(* induction over the numbers (from the least element of a set of numbers)    *)
(* and with what one step of the fold does.                                   *)
EXTENDS Quoting, WellFoundedInduction, SequenceTheorems, FiniteSetTheorems, TLAPS

-----------------------------------------------------------------------------
(* Induction, as a fact about sets of numbers.                                *)
LEMMA LeastNumber ==
    ASSUME NEW T \in SUBSET Nat, T # {}
    PROVE  \E m \in T : \A k \in T : m <= k
<1> DEFINE R == OpToRel(<, Nat)
<1>1. IsWellFoundedOn(R, Nat)
  BY NatLessThanWellFounded, Zenon
<1>2. \A x, y \in Nat : x < y => <<x, y>> \in R
  BY DEF OpToRel
<1> HIDE DEF R
<1>3. PICK x \in T : \A y \in T : ~(<<y, x>> \in R)
  BY <1>1, WFMin, Zenon
<1>4. \A y \in T : ~(y < x)
  BY <1>2, <1>3, Zenon
<1>5. \A y \in T : x <= y
  BY <1>4
<1> QED
  BY <1>5, Zenon

LEMMA NumberInduction ==
    ASSUME NEW S \in SUBSET Nat, 0 \in S, \A n \in Nat : n \in S => n + 1 \in S
    PROVE  S = Nat
<1> SUFFICES ASSUME S # Nat PROVE FALSE
  OBVIOUS
<1>1. Nat \ S # {} /\ Nat \ S \in SUBSET Nat
  OBVIOUS
<1>2. PICK m \in Nat \ S : \A k \in Nat \ S : m <= k
  BY <1>1, LeastNumber, Zenon
<1>3. m # 0 /\ m - 1 \in Nat /\ m - 1 \in S
  BY <1>2
<1> QED
  BY <1>2, <1>3

-----------------------------------------------------------------------------
(* The fold of SubmitAll does what it says, intent by intent.                 *)
Fold(t, s, n, f) ==
    [T \in SUBSET (1..n) |-> IF T = {} THEN Start(t) ELSE Submit(f[T \ {Max(T)}], s[Max(T)])]

LEMMA GreatestOfInterval ==
    ASSUME NEW n \in Nat, NEW T \in SUBSET (1..n), n \in T
    PROVE  Max(T) = n
<1>1. \A y \in T : n >= y
  OBVIOUS
<1>2. \A x \in T : (\A y \in T : x >= y) => x = n
  OBVIOUS
<1> QED
  BY <1>1, <1>2 DEF Max

LEMMA FoldExists ==
    ASSUME NEW t, NEW s
    PROVE  \A n \in Nat : \E f : f = Fold(t, s, n, f)
<1> DEFINE S == {n \in Nat : \E f : f = Fold(t, s, n, f)}
<1>1. 0 \in S
  <2> DEFINE f == [T \in SUBSET (1..0) |-> Start(t)]
  <2>1. \A T \in SUBSET (1..0) : T = {}
    OBVIOUS
  <2>2. f = Fold(t, s, 0, f)
    BY <2>1 DEF Fold
  <2> QED
    BY <2>2
<1>2. ASSUME NEW n \in Nat, n \in S
      PROVE  n + 1 \in S
  <2>1. PICK g : g = Fold(t, s, n, g)
    BY <1>2
  <2> DEFINE f == [T \in SUBSET (1..(n + 1)) |->
                     IF n + 1 \in T THEN Submit(g[T \ {n + 1}], s[n + 1]) ELSE g[T]]
  <2>2. \A T \in SUBSET (1..(n + 1)) : n + 1 \in T => Max(T) = n + 1
    BY GreatestOfInterval
  <2>3. \A T \in SUBSET (1..(n + 1)) : T \in SUBSET (1..n) <=> n + 1 \notin T
    OBVIOUS
  <2>4. \A T \in SUBSET (1..n) : f[T] = g[T]
    OBVIOUS
  <2>5. ASSUME NEW T \in SUBSET (1..(n + 1))
        PROVE  f[T] = IF T = {} THEN Start(t) ELSE Submit(f[T \ {Max(T)}], s[Max(T)])
    <3>1. CASE n + 1 \in T
      <4>1. T \ {n + 1} \in SUBSET (1..n)
        OBVIOUS
      <4>2. f[T] = Submit(g[T \ {n + 1}], s[n + 1])
        BY <3>1
      <4>3. f[T \ {n + 1}] = g[T \ {n + 1}]
        BY <2>4, <4>1
      <4>4. Max(T) = n + 1 /\ T # {}
        BY <2>2, <3>1
      <4> HIDE DEF f
      <4> QED
        BY <4>2, <4>3, <4>4
    <3>2. CASE n + 1 \notin T
      <4>0. T \in SUBSET (1..n)
        BY <2>3, <3>2
      <4>1. T \in SUBSET (1..n) /\ T \ {Max(T)} \in SUBSET (1..n)
        BY <4>0
      <4>2. g[T] = IF T = {} THEN Start(t) ELSE Submit(g[T \ {Max(T)}], s[Max(T)])
        BY <2>1, <4>1 DEF Fold
      <4> HIDE DEF f
      <4> QED
        BY <2>4, <4>1, <4>2
    <3> QED
      BY <3>1, <3>2
  <2>6. f = Fold(t, s, n + 1, f)
    BY <2>5 DEF Fold
  <2> QED
    BY <2>6
<1> HIDE DEF S
<1>3. S = Nat
  <2>1. S \in SUBSET Nat
    BY DEF S
  <2> QED
    BY <1>1, <1>2, <2>1, NumberInduction
<1> QED
  BY <1>3 DEF S

LEMMA SubmitAllSteps ==
    ASSUME NEW t, NEW s, NEW n \in Nat, DOMAIN s = 1..n
    PROVE  \E g : /\ g[0] = Start(t)
                  /\ \A k \in 1..n : g[k] = Submit(g[k - 1], s[k])
                  /\ SubmitAll(t, s) = g[n]
<1> DEFINE f == CHOOSE f : f = Fold(t, s, n, f)
<1> DEFINE g == [k \in 0..n |-> f[1..k]]
<1>1. SubmitAll(t, s) = f[1..n]
  BY Zenon DEF SubmitAll, FoldLeft, MapThenFoldSet, Fold
<1>2. f = Fold(t, s, n, f)
  BY FoldExists, Zenon
<1> HIDE DEF f
<1>3. g[0] = Start(t)
  <2>1. 1..0 = {} /\ 1..0 \in SUBSET (1..n)
    OBVIOUS
  <2>2. f[1..0] = Start(t)
    BY <1>2, <2>1 DEF Fold
  <2> QED
    BY <2>2
<1>4. ASSUME NEW k \in 1..n
      PROVE  g[k] = Submit(g[k - 1], s[k])
  <2>1. 1..k \in SUBSET (1..n) /\ k \in 1..k
    OBVIOUS
  <2>2. Max(1..k) = k
    BY GreatestOfInterval
  <2>3. (1..k) \ {k} = 1..(k - 1)
    OBVIOUS
  <2>4. f[1..k] = Submit(f[(1..k) \ {Max(1..k)}], s[Max(1..k)])
    <3>1. 1..k # {}
      BY <2>1
    <3> QED
      BY <1>2, <2>1, <3>1 DEF Fold
  <2>5. f[1..k] = Submit(f[1..(k - 1)], s[k])
    BY <2>2, <2>3, <2>4
  <2>6. g[k] = f[1..k] /\ g[k - 1] = f[1..(k - 1)]
    OBVIOUS
  <2> QED
    BY <2>5, <2>6
<1>5. g[n] = f[1..n]
  OBVIOUS
<1> HIDE DEF g
<1> QED
  BY <1>1, <1>3, <1>4, <1>5

-----------------------------------------------------------------------------
(* The limits in force are never wider than either of their sources.          *)
IsLimits(l) == DOMAIN l = LimitFields /\ \A f \in LimitNames : l[f] \in Nat
Alone(limits) == [limits EXCEPT !.max_open = None, !.max_daily = None]

LEMMA LeastIsTighter ==
    ASSUME NEW a \in Nat, NEW b \in Nat, NEW x \in Int, MaxOk(Least(a, b), x)
    PROVE  MaxOk(a, x) /\ MaxOk(b, x)
  BY DEF MaxOk, Least, None

LEMMA EffectiveIsTighter ==
    ASSUME NEW base, NEW overlay, IsLimits(base), IsLimits(overlay), Overlap(base, overlay),
           overlay.max_leverage = None,
           NEW product, product.contract \in Int, NEW c, NEW open, NEW used,
           Passes(EffectiveLimits(base, overlay), product, c, open, used)
    PROVE  /\ Passes(Alone(base), product, c, 0, 0)
           /\ Passes(Alone(overlay), product, c, 0, 0)
<1> DEFINE e == EffectiveLimits(base, overlay)
<1> DEFINE n == Notional(product, c.size, c.price)
<1>1. c.size \in Int /\ c.price \in Int
  BY DEF Passes, ProductOk, SizeIsValid, PriceIsValid
<1>2. n \in Int
  BY <1>1 DEF Notional
<1>3. /\ e.allowed = [l \in Lists |-> IntersectOrSelect(base.allowed[l], overlay.allowed[l])]
      /\ e.kill_switch = (base.kill_switch \/ overlay.kill_switch)
      /\ e.max_size = Least(base.max_size, overlay.max_size)
      /\ e.max_notional = Least(base.max_notional, overlay.max_notional)
      /\ e.max_leverage = Least(base.max_leverage, overlay.max_leverage)
      /\ e.max_visible = Least(base.max_visible, overlay.max_visible)
      /\ e.post_only = (base.post_only \/ overlay.post_only)
      /\ e.reduce_only = (base.reduce_only \/ overlay.reduce_only)
      /\ e.stage_above = (base.stage_above \/ overlay.stage_above)
  BY Zenon DEF EffectiveLimits
<1>4. /\ ~e.kill_switch
      /\ AllowedOk(e, c) /\ ProductOk(product, c) /\ SizesOk(e, product, c)
      /\ LeverageOk(e, c) /\ VisibleOk(e, product, c) /\ ModeOk(e, c)
  BY DEF Passes
<1> HIDE DEF e, n
<1>5. /\ base.max_size \in Nat /\ base.max_notional \in Nat /\ base.max_leverage \in Nat
      /\ base.max_visible \in Nat
      /\ overlay.max_size \in Nat /\ overlay.max_notional \in Nat /\ overlay.max_visible \in Nat
  BY DEF IsLimits, LimitNames
<1>6. ASSUME NEW l, l \in {base, overlay}
      PROVE  Passes(Alone(l), product, c, 0, 0)
  <2>1. /\ Alone(l).allowed = l.allowed /\ Alone(l).kill_switch = l.kill_switch
        /\ Alone(l).max_size = l.max_size /\ Alone(l).max_notional = l.max_notional
        /\ Alone(l).max_leverage = l.max_leverage /\ Alone(l).max_visible = l.max_visible
        /\ Alone(l).post_only = l.post_only /\ Alone(l).reduce_only = l.reduce_only
        /\ Alone(l).stage_above = l.stage_above
        /\ Alone(l).max_open = None /\ Alone(l).max_daily = None
    BY <1>6 DEF Alone, IsLimits, LimitFields, LimitNames
  <2> DEFINE a == Alone(l)
  <2> HIDE DEF a
  <2>2. ~a.kill_switch
    BY <1>3, <1>4, <1>6, <2>1 DEF a
  <2>3. AllowedOk(a, c)
    <3> SUFFICES ASSUME NEW k \in Lists
                 PROVE  l.allowed[k] = {} \/ c[k] \in l.allowed[k]
      BY <2>1 DEF AllowedOk, a
    <3>1. e.allowed[k] = IntersectOrSelect(base.allowed[k], overlay.allowed[k])
      BY <1>3
    <3>2. e.allowed[k] = {} \/ c[k] \in e.allowed[k]
      BY <1>4 DEF AllowedOk
    <3>3. base.allowed[k] # {} /\ overlay.allowed[k] # {}
             => base.allowed[k] \cap overlay.allowed[k] # {}
      BY DEF Overlap
    <3> QED
      BY <1>6, <3>1, <3>2, <3>3 DEF IntersectOrSelect
  <2>4. SizesOk(a, product, c)
    <3>1. MaxOk(e.max_size, c.size) /\ MaxOk(e.max_notional, n)
      BY <1>4 DEF SizesOk, n
    <3>2. MaxOk(l.max_size, c.size) /\ MaxOk(l.max_notional, n)
      BY <1>1, <1>2, <1>3, <1>5, <1>6, <3>1, LeastIsTighter
    <3> QED
      BY <2>1, <3>2 DEF SizesOk, n, a
  <2>5. DailyOk(a, product, c, 0) /\ OpenOk(a, c, 0)
    BY <2>1 DEF DailyOk, OpenOk, MaxOk, a
  <2>6. LeverageOk(a, c)
    <3>1. e.max_leverage = base.max_leverage
      BY <1>3, <1>5 DEF Least, None
    <3> QED
      BY <1>4, <1>6, <2>1, <3>1 DEF LeverageOk, None, a
  <2>7. VisibleOk(a, product, c)
    <3>1. CASE e.max_visible = None
      BY <1>3, <1>5, <1>6, <2>1, <3>1 DEF VisibleOk, Least, None, a
    <3>2. CASE ~e.stage_above
      BY <1>3, <1>6, <2>1, <3>2 DEF VisibleOk, a
    <3>3. CASE c.kind = "staged_release"
      BY <3>3 DEF VisibleOk
    <3>4. CASE MaxOk(e.max_visible, n)
      <4>1. MaxOk(l.max_visible, n)
        BY <1>2, <1>3, <1>5, <1>6, <3>4, LeastIsTighter
      <4> QED
        BY <2>1, <4>1 DEF VisibleOk, MaxOk, n, a
    <3> QED
      BY <1>4, <3>1, <3>2, <3>3, <3>4 DEF VisibleOk, MaxOk, n
  <2>8. ModeOk(a, c)
    BY <1>3, <1>4, <1>6, <2>1 DEF ModeOk, a
  <2> QED
    BY <1>4, <2>2, <2>3, <2>4, <2>5, <2>6, <2>7, <2>8 DEF Passes, a
<1> QED
  BY <1>6

-----------------------------------------------------------------------------
(* The numbers of a plan, and that intents are sequences.                     *)
Positive == Nat \ {0}
IsSequence(s) == \E S : s \in Seq(S)

LEMMA SequenceDomain ==
    ASSUME NEW s, IsSequence(s)
    PROVE  Len(s) \in Nat /\ DOMAIN s = 1..Len(s) /\ s \in Seq(ToSet(s))
<1> PICK S : s \in Seq(S)
  BY DEF IsSequence
<1>1. Len(s) \in Nat /\ DOMAIN s = 1..Len(s) /\ s = [i \in 1..Len(s) |-> s[i]]
  OBVIOUS
<1>2. \A i \in 1..Len(s) : s[i] \in ToSet(s)
  BY <1>1 DEF ToSet
<1>3. s \in [1..Len(s) -> ToSet(s)]
  BY <1>1, <1>2
<1> QED
  BY <1>1, <1>3, SeqDef

LEMMA FunctionIsSequence ==
    ASSUME NEW n \in Nat, NEW f, f = [i \in 1..n |-> f[i]]
    PROVE  IsSequence(f)
<1> DEFINE S == {f[i] : i \in 1..n}
<1>1. f \in [1..n -> S]
  OBVIOUS
<1>2. f \in Seq(S)
  BY <1>1, SeqDef
<1> QED
  BY <1>2 DEF IsSequence

LEMMA ConcatIsSequence ==
    ASSUME NEW s, NEW t, IsSequence(s), IsSequence(t)
    PROVE  IsSequence(s \o t) /\ ToSet(s \o t) = ToSet(s) \cup ToSet(t)
<1>1. PICK S : s \in Seq(S)
  BY DEF IsSequence
<1>2. PICK T : t \in Seq(T)
  BY DEF IsSequence
<1>3. s \in Seq(S \cup T) /\ t \in Seq(S \cup T)
  BY <1>1, <1>2
<1>4. s \o t \in Seq(S \cup T)
  BY <1>3
<1>5. /\ Len(s \o t) = Len(s) + Len(t) /\ Len(s) \in Nat /\ Len(t) \in Nat
      /\ DOMAIN s = 1..Len(s) /\ DOMAIN t = 1..Len(t) /\ DOMAIN (s \o t) = 1..Len(s \o t)
      /\ \A i \in 1..Len(s) : (s \o t)[i] = s[i]
      /\ \A i \in 1..(Len(s) + Len(t)) : i > Len(s) => (s \o t)[i] = t[i - Len(s)]
  BY <1>3
<1>6. ToSet(s \o t) \subseteq ToSet(s) \cup ToSet(t)
  BY <1>5 DEF ToSet
<1>7. ToSet(s) \subseteq ToSet(s \o t)
  BY <1>5 DEF ToSet
<1>8. ASSUME NEW i \in 1..Len(t)
      PROVE  t[i] \in ToSet(s \o t)
  <2>1. Len(s) + i \in 1..(Len(s) + Len(t)) /\ Len(s) + i > Len(s) /\ (Len(s) + i) - Len(s) = i
    BY <1>5
  <2>2. (s \o t)[Len(s) + i] = t[i]
    BY <1>5, <2>1
  <2> QED
    BY <1>5, <2>1, <2>2 DEF ToSet
<1>9. ToSet(t) \subseteq ToSet(s \o t)
  BY <1>5, <1>8 DEF ToSet
<1> QED
  BY <1>4, <1>6, <1>7, <1>9 DEF IsSequence

LEMMA AppendOne ==
    ASSUME NEW s, IsSequence(s), NEW c
    PROVE  IsSequence(Append(s, c)) /\ ToSet(Append(s, c)) = ToSet(s) \cup {c}
<1>1. PICK S : s \in Seq(S)
  BY DEF IsSequence
<1>2. s \in Seq(S \cup {c})
  BY <1>1
<1>3. /\ Append(s, c) \in Seq(S \cup {c}) /\ Len(s) \in Nat
      /\ DOMAIN s = 1..Len(s)
      /\ DOMAIN Append(s, c) = 1..(Len(s) + 1)
      /\ \A i \in 1..Len(s) : Append(s, c)[i] = s[i]
      /\ Append(s, c)[Len(s) + 1] = c
  BY <1>2
<1>4. ToSet(Append(s, c)) \subseteq ToSet(s) \cup {c}
  BY <1>3 DEF ToSet
<1>5. ToSet(s) \subseteq ToSet(Append(s, c))
  BY <1>3 DEF ToSet
<1>6. c \in ToSet(Append(s, c))
  <2>1. Len(s) + 1 \in 1..(Len(s) + 1)
    BY <1>3
  <2> QED
    BY <1>3, <2>1 DEF ToSet
<1> QED
  BY <1>3, <1>4, <1>5, <1>6 DEF IsSequence

LEMMA PositiveProduct ==
    ASSUME NEW a \in Positive, NEW b \in Positive
    PROVE  a * b \in Positive
  BY DEF Positive

LEMMA FloorNumber ==
    ASSUME NEW n \in Nat, NEW d \in Positive, NEW increment \in Positive
    PROVE  /\ FloorTo(<<n, d>>, increment) \in Nat
           /\ CeilTo(<<n, d>>, increment) \in Nat
<1> DEFINE m == d * increment
<1>1. m \in Positive
  BY PositiveProduct
<1> HIDE DEF m
<1>2. n \div m \in Nat
  BY <1>1 DEF Positive
<1>3. (n \div m) * increment \in Nat
  BY <1>2 DEF Positive
<1>4. FloorTo(<<n, d>>, increment) \in Nat
  BY <1>3 DEF FloorTo, m
<1> QED
  BY <1>4 DEF CeilTo, Positive

ProductTyped(p) ==
    /\ p.base_increment \in Positive /\ p.price_increment \in Positive /\ p.contract \in Positive
    /\ p.base_min \in Nat /\ p.base_max \in Nat /\ p.quote_min \in Nat /\ p.quote_max \in Nat

LEMMA MinimumNumber ==
    ASSUME NEW p, ProductTyped(p), NEW a \in Positive, NEW b \in Positive
    PROVE  MinimumSize(p, <<a, b>>) \in Nat
<1>1. a * p.contract \in Positive /\ p.quote_min * b \in Nat /\ 1 \in Positive
  BY PositiveProduct DEF ProductTyped, Positive
<1>2. CeilTo(<<p.base_min, 1>>, p.base_increment) \in Nat
  BY <1>1, FloorNumber DEF ProductTyped
<1>3. CeilTo(<<p.quote_min * b, a * p.contract>>, p.base_increment) \in Nat
  BY <1>1, FloorNumber DEF ProductTyped
<1> QED
  BY <1>2, <1>3 DEF MinimumSize, Most

LEMMA ChunksAreSequence ==
    ASSUME NEW p, ProductTyped(p), NEW total \in Positive, NEW price \in Positive,
           NEW visible \in Nat, NEW count
    PROVE  IsSequence(StagedReleaseSizes(p, total, price, visible, count))
<1> DEFINE max == MaximumRelease(p, price, visible)
<1> DEFINE min == MinimumRelease(p, price)
<1> DEFINE out == StagedOutputs(p, total, price, visible)
<1>1. max \in Nat
  <2>1. price * p.contract \in Positive /\ 1 \in Positive
    BY PositiveProduct DEF ProductTyped, Positive
  <2>2. FloorTo(<<visible, price * p.contract>>, p.base_increment) \in Nat
    BY <2>1, FloorNumber DEF ProductTyped
  <2>3. FloorTo(<<p.base_max, 1>>, p.base_increment) \in Nat
    BY <2>1, FloorNumber DEF ProductTyped
  <2> QED
    BY <2>2, <2>3 DEF MaximumRelease
<1>2. IsSequence(<< >>)
  <2>1. << >> \in Seq({})
    OBVIOUS
  <2> QED
    BY <2>1 DEF IsSequence
<1>3. ASSUME max # 0
      PROVE  IsSequence(out)
  <2> DEFINE full == (total - 1) \div max
  <2> DEFINE chunks == [i \in 1..full |-> max]
  <2> DEFINE rest == total - full * max
  <2> DEFINE final == CeilTo(<<Most(rest, MinimumRelease(p, price)), 1>>, p.base_increment)
  <2> DEFINE previous == Last(chunks) - (final - rest)
  <2>1. full \in Nat
    BY <1>1, <1>3 DEF Positive
  <2>2. out = IF full = 0 THEN <<total>>
              ELSE IF ReleaseOk(p, rest, price, visible) THEN Append(chunks, rest)
              ELSE IF /\ final > rest
                      /\ ReleaseOk(p, previous, price, visible) /\ ReleaseOk(p, final, price, visible)
                   THEN Front(chunks) \o <<previous, final>> ELSE << >>
    BY DEF StagedOutputs, Rebalanced
  <2> HIDE DEF out, full, rest, final, previous, max
  <2>3. IsSequence(<<total>>)
    <3>1. <<total>> \in Seq({total})
      OBVIOUS
    <3> QED
      BY <3>1 DEF IsSequence
  <2>4. chunks \in Seq({max})
    BY <2>1, SeqDef
  <2>5. IsSequence(Append(chunks, rest))
    <3>1. chunks \in Seq({max, rest})
      BY <2>4
    <3>2. Append(chunks, rest) \in Seq({max, rest})
      BY <3>1
    <3> QED
      BY <3>2 DEF IsSequence
  <2>6. full # 0 => IsSequence(Front(chunks) \o <<previous, final>>)
    <3>1. full # 0 => Front(chunks) \in Seq({max})
      BY <2>1, <2>4 DEF Front
    <3>2. <<previous, final>> \in Seq({previous, final})
      OBVIOUS
    <3> QED
      BY <3>1, <3>2, ConcatIsSequence DEF IsSequence
  <2> QED
    BY <1>2, <2>2, <2>3, <2>5, <2>6
<1> HIDE DEF out, max
<1> QED
  BY <1>2, <1>3 DEF StagedReleaseSizes, out, max

LEMMA GreatestPrice ==
    ASSUME NEW S \in SUBSET Prices, S # {}
    PROVE  MaxOf(S) \in S /\ MinOf(S) \in S
<1> DEFINE N == MaxOf(Prices)
<1> HIDE DEF N
<1>1. N \in Nat /\ Prices \subseteq 1..N
  BY PricesAssumption DEF N
<1>2. PICK m \in S : \A k \in S : m <= k
  <2>1. S \in SUBSET Nat
    BY <1>1
  <2> QED
    BY <2>1, LeastNumber
<1>3. MinOf(S) \in S
  BY <1>2, Zenon DEF MinOf
<1>4. PICK m1 \in S : \A k \in S : k <= m1
  <2> DEFINE T == {N - x : x \in S}
  <2>1. T \in SUBSET Nat /\ T # {}
    BY <1>1
  <2>2. PICK d \in T : \A k \in T : d <= k
    BY <2>1, LeastNumber
  <2>3. PICK x \in S : d = N - x
    BY <2>2
  <2>4. \A k \in S : N - x <= N - k
    BY <2>2, <2>3
  <2>5. \A k \in S : k <= x
    BY <1>1, <2>4
  <2> QED
    BY <2>5
<1>5. MaxOf(S) \in S
  BY <1>4, Zenon DEF MaxOf
<1> QED
  BY <1>3, <1>5

LEMMA BestPriceNumber ==
    ASSUME NEW book, NEW side
    PROVE  BestPrice(book, side) \in Nat
<1> DEFINE S == LevelsIn(book[side])
<1>1. S \in SUBSET Prices
  BY DEF LevelsIn
<1>2. Prices \subseteq Nat
  BY PricesAssumption
<1> HIDE DEF S
<1>3. S # {} => MaxOf(S) \in Nat /\ MinOf(S) \in Nat
  BY <1>1, <1>2, GreatestPrice
<1> QED
  BY <1>3 DEF BestPrice, S

LEMMA SetupTyped ==
    ASSUME SetupOk(setup)
    PROVE  /\ ProductTyped(Product)
           /\ Policy.max_notional \in Nat /\ Policy.max_daily \in Nat /\ Policy.max_open \in Nat
           /\ Policy.max_visible \in Nat /\ Policy.target \in Nat
           /\ IsLimits(setup.base) /\ setup.size \in Nat /\ setup.slices \in Positive
  BY DEF SetupOk, ProductTyped, Positive, Product, Policy, IsLimits

LEMMA PlanNumbers ==
    ASSUME SetupOk(setup), QuotePlan # NoPlan
    PROVE  QuotePlan.size \in Positive /\ QuotePlan.bid \in Positive /\ QuotePlan.ask \in Positive
<1> DEFINE midpoint == Midpoint(md.book)
<1> DEFINE prices == QuotePairPrices(Product, midpoint, 2 * Policy.half_spread)
<1> DEFINE target == Least(Policy.target, Least(Policy.max_notional, Policy.max_visible))
<1> DEFINE floor == FloorTo(<<target * midpoint[2], midpoint[1] * Product.contract>>, Product.base_increment)
<1> DEFINE least == MinimumSize(Product, midpoint)
<1> DEFINE size == Most(floor, least)
<1>1. /\ TopOk(md.book) /\ prices # NoPrices /\ size # 0
      /\ QuotePlan = [bid |-> prices.bid, ask |-> prices.ask, midpoint |-> midpoint, size |-> size]
  BY DEF QuotePlan
<1>2. prices.bid \in Positive /\ prices.ask \in Positive
  BY <1>1 DEF QuotePairPrices, LimitPriceOk, PriceIsValid, Positive
<1>3. target \in Nat
  BY SetupTyped DEF Least
<1>4. PICK m \in Positive : midpoint = <<m, 2>>
  BY <1>1, BestPriceNumber DEF Midpoint, TopOk, Positive
<1>5. 2 \in Positive /\ m * Product.contract \in Positive /\ target * 2 \in Nat
  BY <1>3, <1>4, SetupTyped, PositiveProduct DEF ProductTyped, Positive
<1> HIDE DEF target
<1>6. floor \in Nat
  BY <1>4, <1>5, SetupTyped, FloorNumber DEF ProductTyped
<1>7. least \in Nat
  BY <1>4, <1>5, SetupTyped, MinimumNumber
<1> HIDE DEF floor, least, prices, midpoint
<1>8. size \in Positive
  BY <1>1, <1>6, <1>7 DEF Most, Positive
<1> HIDE DEF size
<1> QED
  BY <1>1, <1>2, <1>8

LEMMA PairNumbers ==
    ASSUME PairPlan # NoPrices
    PROVE  PairPlan.bid \in Positive /\ PairPlan.ask \in Positive
  BY DEF PairPlan, QuotePairPrices, LimitPriceOk, PriceIsValid, Positive

-----------------------------------------------------------------------------
(* What each strategy asks for.                                               *)
CommandFields == {"id", "logical", "kind", "side", "price", "size", "quote", "of", "product",
                  "type", "tif", "relation", "leverage", "post_only", "reduce_only"}
IsCommand(c) == DOMAIN c = CommandFields
Intents(s) == IsSequence(s) /\ \A c \in ToSet(s) : IsCommand(c)

LEMMA OrderIsCommand ==
    ASSUME NEW id, NEW logical, NEW kind, NEW side, NEW price, NEW size, NEW quote, NEW of
    PROVE  LET c == Order(id, logical, kind, side, price, size, quote, of)
           IN  IsCommand(c) /\ c.logical = logical /\ c.side = side /\ c.quote = quote /\ c.kind = kind
  BY DEF Order, IsCommand, CommandFields

LEMMA OneIntent ==
    ASSUME NEW c
    PROVE  IsSequence(<<c>>) /\ ToSet(<<c>>) = {c}
<1>1. <<c>> \in Seq({c})
  OBVIOUS
<1>2. ToSet(<<c>>) = {c}
  BY DEF ToSet
<1> QED
  BY <1>1, <1>2 DEF IsSequence

LEMMA NoIntent == IsSequence(<< >>) /\ ToSet(<< >>) = {}
<1>1. << >> \in Seq({})
  OBVIOUS
<1>2. ToSet(<< >>) = {}
  BY DEF ToSet
<1> QED
  BY <1>1, <1>2 DEF IsSequence

LEMMA ChunkCommands ==
    ASSUME NEW base, IsCommand(base), NEW sizes, IsSequence(sizes)
    PROVE  /\ Intents(ChunkIntents(base, sizes))
           /\ \A c \in ToSet(ChunkIntents(base, sizes)) :
                 /\ c.kind = "staged_release" /\ c.side = base.side
                 /\ c.logical = base.logical /\ c.quote = base.quote
<1> DEFINE s == ChunkIntents(base, sizes)
<1> DEFINE e(i) == [base EXCEPT !.id = Append(base.logical, <<i, Len(sizes), sizes[i]>>),
                                !.kind = "staged_release", !.size = sizes[i]]
<1>1. s = [i \in 1..Len(sizes) |-> e(i)] /\ Len(sizes) \in Nat
  BY SequenceDomain DEF ChunkIntents
<1>2. \A i : IsCommand(e(i)) /\ e(i).kind = "staged_release" /\ e(i).side = base.side
             /\ e(i).logical = base.logical /\ e(i).quote = base.quote
  BY DEF IsCommand, CommandFields
<1> HIDE DEF e, s
<1>3. IsSequence(s)
  <2>1. s = [i \in 1..Len(sizes) |-> s[i]]
    BY <1>1
  <2> QED
    BY <1>1, <2>1, FunctionIsSequence
<1>4. \A c \in ToSet(s) : \E i : c = e(i)
  BY <1>1 DEF ToSet
<1> QED
  BY <1>2, <1>3, <1>4 DEF Intents, s

(* The passive strategy stages quotes of one logical order per side, and only *)
(* for a side without an active quote.                                        *)
QuoteLogical(side) == <<"quote", side, QuotePlan.bid, QuotePlan.ask, QuotePlan.midpoint, QuotePlan.size>>

LEMMA SideCommands ==
    ASSUME SetupOk(setup), QuotePlan # NoPlan, NEW t, NEW side \in {"buy", "sell"}
    PROVE  LET s == SideIntents(t, QuotePlan, side)
           IN  /\ Intents(s)
               /\ \A c \in ToSet(s) : /\ c.kind = "staged_release" /\ c.side = side
                                      /\ c.logical = QuoteLogical(side) /\ ~HasActiveQuote(t, side)
<1> DEFINE price == SidePrice(QuotePlan, side)
<1> DEFINE base == Order(NoId, QuoteLogical(side), "staged_release", side, price, QuotePlan.size,
                         Quote(QuotePlan), NoId)
<1> DEFINE sizes == StagedReleaseSizes(Product, QuotePlan.size, price, Policy.max_visible, Policy.max_chunks)
<1> DEFINE all == ChunkIntents(base, sizes)
<1> DEFINE s == SideIntents(t, QuotePlan, side)
<1>1. StagedQuoteIntents(QuotePlan, side) = all
  BY Zenon DEF StagedQuoteIntents, QuoteLogical
<1>2. price \in Positive
  BY PlanNumbers DEF SidePrice
<1> HIDE DEF price
<1>3. IsSequence(sizes)
  BY <1>2, PlanNumbers, SetupTyped, ChunksAreSequence
<1>4. IsCommand(base) /\ base.logical = QuoteLogical(side) /\ base.side = side
  BY OrderIsCommand
<1> HIDE DEF base, sizes
<1>5. /\ Intents(all)
      /\ \A c \in ToSet(all) : /\ c.kind = "staged_release" /\ c.side = side
                               /\ c.logical = QuoteLogical(side)
  BY <1>3, <1>4, ChunkCommands
<1> HIDE DEF all
<1>6. s = << >> \/ (s = all /\ ~HasActiveQuote(t, side))
  BY <1>1 DEF SideIntents
<1> HIDE DEF s
<1>7. Intents(s) /\ \A c \in ToSet(s) : /\ c.kind = "staged_release" /\ c.side = side
                                        /\ c.logical = QuoteLogical(side) /\ ~HasActiveQuote(t, side)
  BY <1>5, <1>6, NoIntent DEF Intents
<1> QED
  BY <1>7 DEF s

LEMMA PassiveCommands ==
    ASSUME SetupOk(setup), NEW t
    PROVE  LET s == PassiveIntents(t)
           IN  /\ Intents(s)
               /\ \A c \in ToSet(s) : /\ c.kind = "staged_release" /\ c.logical = QuoteLogical(c.side)
                                      /\ ~HasActiveQuote(t, c.side)
<1> DEFINE s == PassiveIntents(t)
<1> DEFINE buys == SideIntents(t, QuotePlan, "buy")
<1> DEFINE sells == SideIntents(t, QuotePlan, "sell")
<1>1. s = << >> \/ (s = buys \o sells /\ QuotePlan # NoPlan)
  BY DEF PassiveIntents
<1>2. ASSUME QuotePlan # NoPlan
      PROVE  /\ Intents(buys) /\ Intents(sells)
             /\ \A c \in ToSet(buys) \cup ToSet(sells) :
                  /\ c.kind = "staged_release" /\ c.logical = QuoteLogical(c.side)
                  /\ ~HasActiveQuote(t, c.side)
  BY <1>2, SideCommands
<1> HIDE DEF s, buys, sells
<1>3. ASSUME QuotePlan # NoPlan
      PROVE  IsSequence(buys \o sells) /\ ToSet(buys \o sells) = ToSet(buys) \cup ToSet(sells)
  BY <1>2, <1>3, ConcatIsSequence DEF Intents
<1>4. /\ Intents(s)
      /\ \A c \in ToSet(s) : /\ c.kind = "staged_release" /\ c.logical = QuoteLogical(c.side)
                             /\ ~HasActiveQuote(t, c.side)
  BY <1>1, <1>2, <1>3, NoIntent DEF Intents
<1> QED
  BY <1>4 DEF s

(* The other strategies place no quotes, ...                                  *)
Plain(s) == Intents(s) /\ \A c \in ToSet(s) : c.quote = NoQuote /\ c.kind # "release"

LEMMA PairCommands ==
    ASSUME SetupOk(setup), NEW t
    PROVE  Plain(PairIntents(t))
<1>0. Plain(<< >>)
  BY NoIntent DEF Plain, Intents
<1>1. ASSUME NEW side \in {"buy", "sell"}, PairPlan # NoPrices, OrderSizeOk(Product, setup.size)
      PROVE  Plain(PairSide(side))
  <2> DEFINE price == SidePrice(PairPlan, side)
  <2> DEFINE logical == <<"pair", side, PairPlan.bid, PairPlan.ask, Midpoint(md.book)>>
  <2> DEFINE base == Order(logical, logical, "initial", side, price, setup.size, NoQuote, NoId)
  <2> DEFINE sizes == StagedReleaseSizes(Product, setup.size, price, Policy.max_visible, Policy.max_chunks)
  <2>1. PairSide(side) \in {<< >>, <<base>>, ChunkIntents(base, sizes)}
    BY DEF PairSide
  <2>2. price \in Positive
    BY <1>1, PairNumbers DEF SidePrice
  <2>3. setup.size \in Positive
    BY <1>1, SetupTyped DEF OrderSizeOk, Positive
  <2> HIDE DEF price, logical
  <2>4. IsSequence(sizes)
    BY <2>2, <2>3, SetupTyped, ChunksAreSequence
  <2>5. IsCommand(base) /\ base.quote = NoQuote /\ base.kind = "initial"
    BY OrderIsCommand
  <2> HIDE DEF base, sizes
  <2>6. Plain(<<base>>)
    BY <2>5, OneIntent DEF Plain, Intents
  <2>7. Plain(ChunkIntents(base, sizes))
    BY <2>4, <2>5, ChunkCommands DEF Plain
  <2> QED
    BY <1>0, <2>1, <2>6, <2>7
<1>2. \/ PairIntents(t) = << >>
      \/ /\ PairIntents(t) = PairSide("buy") \o PairSide("sell")
         /\ PairPlan # NoPrices /\ OrderSizeOk(Product, setup.size)
  BY DEF PairIntents
<1>3. ASSUME NEW a, NEW b, Plain(a), Plain(b)
      PROVE  Plain(a \o b)
  <2>1. IsSequence(a \o b) /\ ToSet(a \o b) = ToSet(a) \cup ToSet(b)
    BY <1>3, ConcatIsSequence DEF Plain, Intents
  <2> QED
    BY <1>3, <2>1 DEF Plain, Intents
<1> QED
  BY <1>0, <1>1, <1>2, <1>3

LEMMA SliceCommands ==
    ASSUME NEW t
    PROVE  Plain(SliceIntents(t))
<1>1. Plain(<< >>)
  BY NoIntent DEF Plain, Intents
<1>2. \A i, size : Plain(<<Order(SliceId(i), SliceId(i), "initial", "buy", setup.price, size, NoQuote, NoId)>>)
  BY OrderIsCommand, OneIntent DEF Plain, Intents
<1>3. \/ SliceIntents(t) = << >>
      \/ \E i, size : SliceIntents(t) = <<Order(SliceId(i), SliceId(i), "initial", "buy", setup.price,
                                                size, NoQuote, NoId)>>
  BY Zenon DEF SliceIntents
<1> QED
  BY <1>1, <1>2, <1>3

(* ... and a release is of a staged placement that has none.                  *)
LEMMA ReleaseCommands ==
    ASSUME NEW t, IsSequence(t.places), \A x \in ToSet(t.places) : IsCommand(x)
    PROVE  LET s == ReleaseIntents(t)
           IN  /\ Intents(s)
               /\ \A c \in ToSet(s) : /\ c.quote = NoQuote /\ c.kind = "release"
                                      /\ ReleasesOf(t, c.of) = {}
<1> DEFINE ready == {i \in DOMAIN t.places :
                       LET x == t.places[i]
                       IN  /\ x.kind = "staged_release" /\ ReleasesOf(t, x.id) = {}
                           /\ Policy.require_book \/ Policy.when_matched
                                => Fresh(md, clock.now, Policy.max_age)
                           /\ Policy.when_matched => ConditionsMatch(x)
                           /\ LiveOfLogical(t, x.logical) = {}}
<1> DEFINE x == t.places[MinOf(ready)]
<1> DEFINE z == [x EXCEPT !.id = <<"release", x.id>>, !.kind = "release", !.of = x.id, !.quote = NoQuote]
<1> DEFINE s == ReleaseIntents(t)
<1>1. s = << >> \/ (s = <<z>> /\ ready # {})
  BY DEF ReleaseIntents
<1>2. ASSUME ready # {}
      PROVE  IsCommand(z) /\ z.quote = NoQuote /\ z.kind = "release" /\ ReleasesOf(t, z.of) = {}
  <2>1. ready \in SUBSET Nat
    BY SequenceDomain
  <2>2. MinOf(ready) \in ready
    <3> HIDE DEF ready
    <3> QED
      BY <1>2, <2>1, LeastNumber, Zenon DEF MinOf
  <2>3. MinOf(ready) \in DOMAIN t.places /\ ReleasesOf(t, x.id) = {}
    BY <2>2
  <2>4. IsCommand(x)
    BY <2>3 DEF ToSet
  <2> HIDE DEF ready, x
  <2> QED
    BY <2>3, <2>4 DEF IsCommand, CommandFields
<1> HIDE DEF ready, x, z, s
<1>3. /\ Intents(s)
      /\ \A c \in ToSet(s) : c.quote = NoQuote /\ c.kind = "release" /\ ReleasesOf(t, c.of) = {}
  BY <1>1, <1>2, NoIntent, OneIntent DEF Intents
<1> QED
  BY <1>3 DEF s

-----------------------------------------------------------------------------
(* What a submission leaves behind.                                           *)
Passed(c) == \E open, used : Passes(Limits, Product, c, open, used)
IsTruth(t) ==
    /\ DOMAIN t = {"actions", "orders", "places"} /\ DOMAIN t.orders = DOMAIN t.actions
    /\ \A id \in DOMAIN t.orders : DOMAIN t.orders[id] = {"status", "size", "price"}
    /\ IsSequence(t.places)
    /\ \A x \in ToSet(t.places) : IsCommand(x) /\ x.id \in DOMAIN t.actions

(* The truth u comes after t: what was there is there, unchanged.             *)
After(t, u) ==
    /\ IsTruth(u) /\ DOMAIN t.actions \subseteq DOMAIN u.actions
    /\ \A id \in DOMAIN t.orders : u.orders[id] = t.orders[id]
    /\ ToSet(t.places) \subseteq ToSet(u.places)
(* A command that was not on record and is.                                   *)
New(t, u, c) == c.id \notin DOMAIN t.actions /\ c.id \in DOMAIN u.actions
(* One whose placement was recorded with it.                                  *)
Placed(t, u, c) == /\ New(t, u, c) /\ c \in ToSet(u.places)
                   /\ c.kind = "release" => u.orders[c.id].status = "open"

LEMMA Recorded ==
    ASSUME NEW t, IsTruth(t), NEW c, IsCommand(c), c.id \notin DOMAIN t.actions,
           NEW action, NEW status
    PROVE  LET u == SetOrder(Act(t, c, action), c, status)
           IN  /\ After(t, u) /\ New(t, u, c) /\ u.places = t.places /\ u.orders[c.id].status = status
               /\ After(t, Place(u, c)) /\ New(t, Place(u, c), c)
               /\ ToSet(Place(u, c).places) = ToSet(t.places) \cup {c}
               /\ Place(u, c).orders = u.orders
<1> DEFINE a == Put(t.actions, c.id, [status |-> action, at |-> clock.now])
<1> DEFINE o == Put(t.orders, c.id, [status |-> status, size |-> c.size, price |-> c.price])
<1> DEFINE u == SetOrder(Act(t, c, action), c, status)
<1> DEFINE v == Place(u, c)
<1>1. /\ DOMAIN u = {"actions", "orders", "places"} /\ u.actions = a /\ u.orders = o /\ u.places = t.places
  BY DEF SetOrder, Act, IsTruth
<1>2. DOMAIN a = DOMAIN t.actions \cup {c.id} /\ DOMAIN o = DOMAIN t.orders \cup {c.id}
  BY DEF Put
<1>3. /\ o[c.id] = [status |-> status, size |-> c.size, price |-> c.price]
      /\ \A id \in DOMAIN t.orders : o[id] = t.orders[id]
  BY DEF Put, IsTruth
<1> HIDE DEF a, o, u
<1>4. DOMAIN o = DOMAIN a /\ \A id \in DOMAIN o : DOMAIN o[id] = {"status", "size", "price"}
  BY <1>2, <1>3 DEF IsTruth
<1>5. /\ DOMAIN v = {"actions", "orders", "places"} /\ v.actions = a /\ v.orders = o
      /\ v.places = Append(t.places, c)
  BY <1>1 DEF Place
<1> HIDE DEF v
<1>6. IsSequence(Append(t.places, c)) /\ ToSet(Append(t.places, c)) = ToSet(t.places) \cup {c}
  BY AppendOne DEF IsTruth
<1>7. IsTruth(u)
  BY <1>1, <1>2, <1>4 DEF IsTruth
<1>8. IsTruth(v)
  BY <1>2, <1>4, <1>5, <1>6 DEF IsTruth
<1>9. /\ After(t, u) /\ New(t, u, c) /\ u.places = t.places /\ u.orders[c.id].status = status
      /\ After(t, v) /\ New(t, v, c) /\ ToSet(v.places) = ToSet(t.places) \cup {c}
      /\ v.orders = u.orders
  BY <1>1, <1>2, <1>3, <1>5, <1>6, <1>7, <1>8 DEF After, New
<1> QED
  BY <1>9 DEF u, v

LEMMA OutcomeFacts ==
    ASSUME NEW t, IsTruth(t), NEW c, IsCommand(c), NEW o \in Outcomes(t, c)
    PROVE  /\ After(t, o.t)
           /\ o.sent => New(t, o.t, c) /\ Passed(c)
           /\ \/ ToSet(o.t.places) = ToSet(t.places)
              \/ ToSet(o.t.places) = ToSet(t.places) \cup {c} /\ o.ok /\ Placed(t, o.t, c)
<1>1. CASE c.id \in DOMAIN t.actions
  <2>1. o = [t |-> t, sent |-> FALSE, ok |-> FALSE]
    BY <1>1 DEF Outcomes
  <2>2. After(t, t)
    BY DEF After
  <2> QED
    BY <2>1, <2>2
<1> DEFINE set(action, status) == SetOrder(Act(t, c, action), c, status)
<1>2. ASSUME c.id \notin DOMAIN t.actions, NEW action, NEW status
      PROVE  LET u == set(action, status)
             IN  /\ After(t, u) /\ New(t, u, c) /\ u.places = t.places /\ u.orders[c.id].status = status
                 /\ After(t, Place(u, c)) /\ New(t, Place(u, c), c)
                 /\ ToSet(Place(u, c).places) = ToSet(t.places) \cup {c}
                 /\ Place(u, c).orders = u.orders
  BY <1>2, Recorded
<1>3. CASE c.id \notin DOMAIN t.actions /\ ~GatePasses(t, c)
  <2>1. o = [t |-> set("rejected", "rejected"), sent |-> FALSE, ok |-> FALSE]
    BY <1>3 DEF Outcomes
  <2> HIDE DEF set
  <2> QED
    BY <1>2, <1>3, <2>1
<1>4. CASE c.id \notin DOMAIN t.actions /\ GatePasses(t, c) /\ c.kind = "staged_release"
  <2>1. o = [t |-> Place(set("accepted", "accepted"), c), sent |-> FALSE, ok |-> TRUE]
    BY <1>4 DEF Outcomes
  <2> HIDE DEF set
  <2> QED
    BY <1>2, <1>4, <2>1 DEF Placed
<1>5. CASE c.id \notin DOMAIN t.actions /\ GatePasses(t, c) /\ c.kind # "staged_release"
  <2>1. \/ o = [t |-> Place(set("executed", "open"), c), sent |-> TRUE, ok |-> TRUE]
        \/ \E status \in {"failed", "execution_unknown"}, sent \in BOOLEAN :
              o = [t |-> set("failed", status), sent |-> sent, ok |-> FALSE]
    <3> DEFINE one == [t |-> Place(set("executed", "open"), c), sent |-> TRUE, ok |-> TRUE]
    <3> DEFINE more == {[t |-> set("failed", status), sent |-> sent, ok |-> FALSE] :
                           status \in {"failed", "execution_unknown"}, sent \in BOOLEAN}
    <3>1. Outcomes(t, c) = {one} \cup (IF Faults(t) >= setup.faults THEN {} ELSE more)
      BY <1>5 DEF Outcomes
    <3>2. o = one \/ o \in more
      BY <3>1
    <3> QED
      BY <3>2
  <2>2. Passed(c)
    BY <1>5, Zenon DEF Passed, GatePasses
  <2> HIDE DEF set
  <2>3. CASE o = [t |-> Place(set("executed", "open"), c), sent |-> TRUE, ok |-> TRUE]
    BY <1>2, <1>5, <2>2, <2>3 DEF Placed
  <2>4. ASSUME NEW status, NEW sent, o = [t |-> set("failed", status), sent |-> sent, ok |-> FALSE]
        PROVE  After(t, o.t) /\ New(t, o.t, c) /\ ToSet(o.t.places) = ToSet(t.places)
    BY <1>2, <1>5, <2>4
  <2> QED
    BY <2>1, <2>2, <2>3, <2>4
<1> QED
  BY <1>1, <1>3, <1>4, <1>5

(* What holds of a run of the harness over the intents s, started from t.     *)
Submitted(t, s, r) ==
    /\ After(t, r.t) /\ IsSequence(r.sent)
    /\ \A c \in ToSet(r.sent) : c \in ToSet(s) /\ New(t, r.t, c) /\ Passed(c)
    /\ \A x \in ToSet(r.t.places) \ ToSet(t.places) :
          /\ x \in ToSet(s) /\ Placed(t, r.t, x)
          /\ x.quote # NoQuote => x.side \in r.staged

LEMMA AfterSteps ==
    ASSUME NEW t, NEW u, NEW v, IsTruth(t), After(t, u), After(u, v)
    PROVE  /\ After(t, v)
           /\ \A c : New(t, u, c) \/ New(u, v, c) => New(t, v, c)
           /\ \A c : Placed(t, u, c) \/ Placed(u, v, c) => Placed(t, v, c)
<1>1. /\ IsTruth(u) /\ IsTruth(v)
      /\ DOMAIN t.orders = DOMAIN t.actions /\ DOMAIN u.orders = DOMAIN u.actions
      /\ DOMAIN t.actions \subseteq DOMAIN u.actions /\ DOMAIN u.actions \subseteq DOMAIN v.actions
      /\ \A id \in DOMAIN t.orders : u.orders[id] = t.orders[id]
      /\ \A id \in DOMAIN u.orders : v.orders[id] = u.orders[id]
      /\ ToSet(t.places) \subseteq ToSet(u.places) /\ ToSet(u.places) \subseteq ToSet(v.places)
  BY DEF After, IsTruth
<1>2. After(t, v)
  BY <1>1 DEF After
<1>3. \A c : New(t, u, c) \/ New(u, v, c) => New(t, v, c)
  BY <1>1 DEF New
<1>4. \A c : Placed(t, u, c) \/ Placed(u, v, c) => Placed(t, v, c)
  BY <1>1, <1>3 DEF Placed, New
<1> QED
  BY <1>2, <1>3, <1>4

LEMMA SubmitOne ==
    ASSUME NEW t, IsTruth(t), NEW s, NEW r, Submitted(t, s, r),
           NEW c \in ToSet(s), IsCommand(c), NEW o \in Outcomes(r.t, c)
    PROVE  Submitted(t, s, [t |-> o.t, sent |-> IF o.sent THEN Append(r.sent, c) ELSE r.sent, ok |-> o.ok,
                            staged |-> IF o.ok /\ c.quote # NoQuote THEN r.staged \cup {c.side}
                                       ELSE r.staged])
<1> DEFINE sent == IF o.sent THEN Append(r.sent, c) ELSE r.sent
<1> DEFINE staged == IF o.ok /\ c.quote # NoQuote THEN r.staged \cup {c.side} ELSE r.staged
<1> DEFINE q == [t |-> o.t, sent |-> sent, ok |-> o.ok, staged |-> staged]
<1>1. q.t = o.t /\ q.sent = sent /\ q.staged = staged
  OBVIOUS
<1>2. IsTruth(r.t) /\ After(t, r.t)
  BY DEF Submitted, After
<1>3. /\ After(r.t, o.t)
      /\ o.sent => New(r.t, o.t, c) /\ Passed(c)
      /\ \/ ToSet(o.t.places) = ToSet(r.t.places)
         \/ ToSet(o.t.places) = ToSet(r.t.places) \cup {c} /\ o.ok /\ Placed(r.t, o.t, c)
  BY <1>2, OutcomeFacts
<1>4. /\ After(t, o.t)
      /\ \A x : New(t, r.t, x) \/ New(r.t, o.t, x) => New(t, o.t, x)
      /\ \A x : Placed(t, r.t, x) \/ Placed(r.t, o.t, x) => Placed(t, o.t, x)
  BY <1>2, <1>3, AfterSteps
<1>5. IsSequence(sent) /\ \A x \in ToSet(sent) : x \in ToSet(s) /\ New(t, o.t, x) /\ Passed(x)
  <2>1. IsSequence(r.sent) /\ \A x \in ToSet(r.sent) : x \in ToSet(s) /\ New(t, o.t, x) /\ Passed(x)
    BY <1>4 DEF Submitted
  <2>2. CASE o.sent
    BY <1>3, <1>4, <2>1, <2>2, AppendOne
  <2>3. CASE ~o.sent
    BY <2>1, <2>3
  <2> QED
    BY <2>2, <2>3
<1>6. ASSUME NEW x \in ToSet(o.t.places), x \notin ToSet(t.places)
      PROVE  x \in ToSet(s) /\ Placed(t, o.t, x) /\ (x.quote # NoQuote => x.side \in staged)
  <2>1. r.staged \subseteq staged
    OBVIOUS
  <2>2. CASE x \in ToSet(r.t.places)
    BY <1>4, <1>6, <2>1, <2>2 DEF Submitted
  <2>3. CASE x = c /\ o.ok /\ Placed(r.t, o.t, c)
    BY <1>4, <2>3
  <2> QED
    BY <1>3, <1>6, <2>2, <2>3
<1> HIDE DEF q, sent, staged
<1>7. Submitted(t, s, q)
  BY <1>1, <1>4, <1>5, <1>6 DEF Submitted
<1> QED
  BY <1>7 DEF q, sent, staged

LEMMA SubmitFacts ==
    ASSUME NEW t, IsTruth(t), NEW s, Intents(s), NEW r \in SubmitAll(t, s)
    PROVE  Submitted(t, s, r)
<1> DEFINE n == Len(s)
<1>1. n \in Nat /\ DOMAIN s = 1..n
  BY SequenceDomain DEF Intents
<1>2. PICK g : /\ g[0] = Start(t)
               /\ \A k \in 1..n : g[k] = Submit(g[k - 1], s[k])
               /\ SubmitAll(t, s) = g[n]
  BY <1>1, SubmitAllSteps
<1> HIDE DEF n
<1> DEFINE S == {k \in Nat : k <= n => \A q \in g[k] : Submitted(t, s, q)}
<1>3. 0 \in S
  <2> SUFFICES ASSUME NEW q \in g[0] PROVE Submitted(t, s, q)
    OBVIOUS
  <2>1. q = [t |-> t, sent |-> << >>, ok |-> TRUE, staged |-> {}]
    BY <1>2 DEF Start
  <2>2. After(t, t)
    BY DEF After
  <2> QED
    BY <2>1, <2>2, NoIntent DEF Submitted
<1>4. ASSUME NEW k \in Nat, k \in S
      PROVE  k + 1 \in S
  <2> SUFFICES ASSUME k + 1 <= n, NEW q \in g[k + 1] PROVE Submitted(t, s, q)
    OBVIOUS
  <2> DEFINE c == s[k + 1]
  <2>1. k + 1 \in 1..n /\ (k + 1) - 1 = k /\ k <= n
    BY <1>1
  <2>2. g[k + 1] = Submit(g[k], c)
    BY <1>2, <2>1
  <2>3. c \in ToSet(s) /\ IsCommand(c)
    BY <1>1, <2>1 DEF Intents, ToSet
  <2> HIDE DEF c
  <2>4. \A p \in g[k] : Submitted(t, s, p)
    BY <1>4, <2>1
  <2>5. PICK p \in g[k] :
           q \in (IF ~p.ok THEN {p}
                  ELSE {[t |-> o.t, sent |-> IF o.sent THEN Append(p.sent, c) ELSE p.sent, ok |-> o.ok,
                         staged |-> IF o.ok /\ c.quote # NoQuote THEN p.staged \cup {c.side}
                                    ELSE p.staged] : o \in Outcomes(p.t, c)})
    BY <2>2, Zenon DEF Submit
  <2>6. CASE q = p
    BY <2>4, <2>6
  <2>7. CASE \E o \in Outcomes(p.t, c) :
               q = [t |-> o.t, sent |-> IF o.sent THEN Append(p.sent, c) ELSE p.sent, ok |-> o.ok,
                    staged |-> IF o.ok /\ c.quote # NoQuote THEN p.staged \cup {c.side} ELSE p.staged]
    <3>1. PICK o \in Outcomes(p.t, c) :
               q = [t |-> o.t, sent |-> IF o.sent THEN Append(p.sent, c) ELSE p.sent, ok |-> o.ok,
                    staged |-> IF o.ok /\ c.quote # NoQuote THEN p.staged \cup {c.side} ELSE p.staged]
      BY <2>7, Zenon
    <3>2. Submitted(t, s, p)
      BY <2>4
    <3>3. Submitted(t, s, [t |-> o.t, sent |-> IF o.sent THEN Append(p.sent, c) ELSE p.sent, ok |-> o.ok,
                    staged |-> IF o.ok /\ c.quote # NoQuote THEN p.staged \cup {c.side} ELSE p.staged])
      BY <2>3, <3>2, SubmitOne, Zenon
    <3> QED
      BY <3>1, <3>3, Zenon
  <2> QED
    BY <2>5, <2>6, <2>7
<1> HIDE DEF S
<1>5. S = Nat
  <2>1. S \in SUBSET Nat
    BY DEF S
  <2> QED
    BY <1>3, <1>4, <2>1, NumberInduction
<1>6. n \in S
  BY <1>1, <1>5 DEF n
<1>7. n <= n
  BY <1>1 DEF n
<1> QED
  BY <1>2, <1>6, <1>7 DEF S

-----------------------------------------------------------------------------
(* The inductive invariant.  What counts as a quote that is active at the     *)
(* venue is wider than what the strategy can see: the projection may lag.  So *)
(* the invariant says how far it lags (a live release is open, pending or     *)
(* about to be cancelled, and no update on its way says otherwise), and that  *)
(* two active quotes of one side are chunks of one logical order unless the   *)
(* strategy once staged without seeing an order that was alive.               *)
Active(x) == \/ ReleasesOf(truth, x.id) = {}
             \/ \E r \in ReleasesOf(truth, x.id) : Alive(r.id)
Early == {"pending", "open", "cancel_queued"}
VenueOk == /\ DOMAIN venue \subseteq DOMAIN truth.actions
           /\ \A id \in DOMAIN venue : DOMAIN venue[id] = {"status", "order"} /\ Passed(venue[id].order)
FeedOk == /\ IsSequence(feed)
          /\ \A u \in ToSet(feed) : u.id \in DOMAIN venue /\ (u.status \in Early \/ ~Alive(u.id))
Lag == \A r \in ToSet(truth.places) :
          r.kind = "release" /\ Alive(r.id) => truth.orders[r.id].status \in Early
SameQuote ==
    \/ history.blind
    \/ \A x, y \in PassiveQuotes(truth) :
          Active(x) /\ Active(y) /\ x.side = y.side => x.logical = y.logical
QuoteInv ==
    /\ setup \in Setups /\ Overlap(setup.base, OperatorLimits(Policy))
    /\ IsTruth(truth) /\ VenueOk /\ FeedOk /\ Lag /\ SameQuote
    /\ "blind" \in DOMAIN history /\ history.blind \in BOOLEAN

(* What every strategy's intents have in common.                              *)
Fitting(s) ==
    /\ Intents(s)
    /\ \A c \in ToSet(s) :
          /\ c.kind = "release" => c.quote = NoQuote /\ ReleasesOf(truth, c.of) = {}
          /\ c.quote # NoQuote => c.logical = QuoteLogical(c.side) /\ ~HasActiveQuote(truth, c.side)

LEMMA StrategiesFit ==
    ASSUME QuoteInv
    PROVE  /\ Fitting(PassiveIntents(truth)) /\ Fitting(PairIntents(truth))
           /\ Fitting(SliceIntents(truth)) /\ Fitting(ReleaseIntents(truth))
<1>1. SetupOk(setup)
  BY SetupsAssumption DEF QuoteInv
<1>2. IsSequence(truth.places) /\ \A x \in ToSet(truth.places) : IsCommand(x)
  BY DEF QuoteInv, IsTruth
<1>3. Fitting(PassiveIntents(truth))
  BY <1>1, PassiveCommands DEF Fitting
<1>4. Fitting(PairIntents(truth))
  BY <1>1, PairCommands DEF Fitting, Plain
<1>5. Fitting(SliceIntents(truth))
  BY SliceCommands DEF Fitting, Plain
<1>6. Fitting(ReleaseIntents(truth))
  BY <1>2, ReleaseCommands DEF Fitting
<1> QED
  BY <1>3, <1>4, <1>5, <1>6

LEMMA SameSetup ==
    ASSUME setup' = setup
    PROVE  /\ \A c : Passed(c)' <=> Passed(c)
           /\ setup \in Setups /\ Overlap(setup.base, OperatorLimits(Policy))
                => setup' \in Setups /\ Overlap(setup.base, OperatorLimits(Policy))'
  BY DEF Passed, Limits, Product, Policy

LEMMA ReportIsSequence ==
    ASSUME NEW s, IsSequence(s)
    PROVE  /\ IsSequence(Report(s))
           /\ \A u \in ToSet(Report(s)) : u.id \in Ids(s) /\ u.status \in Early
<1>1. Len(s) \in Nat /\ DOMAIN s = 1..Len(s)
  BY SequenceDomain
<1> DEFINE n == 2 * Len(s)
<1> DEFINE e(k) == [id |-> s[(k + 1) \div 2].id, status |-> IF k % 2 = 1 THEN "pending" ELSE "open"]
<1>2. Report(s) = [k \in 1..n |-> e(k)] /\ n \in Nat
  BY <1>1 DEF Report
<1>3. ASSUME NEW k \in 1..n
      PROVE  e(k).id \in Ids(s) /\ e(k).status \in Early
  <2>1. (k + 1) \div 2 \in 1..Len(s)
    BY <1>1
  <2> QED
    BY <1>1, <2>1 DEF Ids, Early
<1> HIDE DEF e, n
<1>4. IsSequence(Report(s))
  <2>1. Report(s) = [k \in 1..n |-> Report(s)[k]]
    BY <1>2
  <2> QED
    BY <1>2, <2>1, FunctionIsSequence
<1> QED
  BY <1>2, <1>3, <1>4 DEF ToSet

LEMMA RunPreserves ==
    ASSUME QuoteInv, NEW s, Fitting(s), Run(s)
    PROVE  QuoteInv'
<1>1. PICK r \in SubmitAll(truth, s) :
          /\ truth' = r.t
          /\ venue' = [id \in Ids(r.sent) \cup DOMAIN venue |->
                         IF id \in Ids(r.sent)
                         THEN [status |-> "open", order |-> CHOOSE c \in ToSet(r.sent) : c.id = id]
                         ELSE venue[id]]
          /\ feed' = feed \o Report(r.sent)
          /\ history' = [history EXCEPT !.blind = @ \/ \E side \in r.staged : Unsure(side)]
  BY Zenon DEF Run
<1>2. setup' = setup
  BY DEF Run
<1>3. IsTruth(truth) /\ VenueOk /\ FeedOk /\ Lag /\ SameQuote
  BY DEF QuoteInv
<1>4. Submitted(truth, s, r)
  BY <1>3, SubmitFacts DEF Fitting
<1>5. After(truth, truth') /\ IsTruth(truth')
  BY <1>1, <1>4 DEF Submitted, After
<1>6. \A c \in ToSet(r.sent) : c.id \notin DOMAIN truth.actions /\ c.id \in DOMAIN truth'.actions /\ Passed(c)
  BY <1>1, <1>4 DEF Submitted, New
<1>7. Ids(r.sent) = {c.id : c \in ToSet(r.sent)}
  BY DEF Ids, ToSet
<1>8. /\ DOMAIN venue' = Ids(r.sent) \cup DOMAIN venue
      /\ \A id \in DOMAIN venue : id \notin Ids(r.sent) /\ venue'[id] = venue[id]
  <2>1. \A id \in DOMAIN venue : id \notin Ids(r.sent)
    BY <1>3, <1>6, <1>7 DEF VenueOk
  <2> QED
    BY <1>1, <2>1
<1>9. \A id \in DOMAIN truth.actions : Alive(id)' <=> Alive(id)
  BY <1>6, <1>7, <1>8 DEF Alive
<1>10. VenueOk'
  <2>1. DOMAIN venue' \subseteq DOMAIN truth'.actions
    BY <1>3, <1>5, <1>6, <1>7, <1>8 DEF VenueOk, After
  <2>2. ASSUME NEW id \in Ids(r.sent)
        PROVE  DOMAIN venue'[id] = {"status", "order"} /\ Passed(venue'[id].order)
    <3> DEFINE c == CHOOSE c \in ToSet(r.sent) : c.id = id
    <3>1. c \in ToSet(r.sent)
      BY <1>7
    <3>2. venue'[id] = [status |-> "open", order |-> c]
      BY <1>1
    <3> HIDE DEF c
    <3> QED
      BY <1>6, <3>1, <3>2
  <2>3. \A id \in DOMAIN venue' : DOMAIN venue'[id] = {"status", "order"} /\ Passed(venue'[id].order)
    BY <1>3, <1>8, <2>2 DEF VenueOk
  <2> QED
    BY <1>2, <2>1, <2>3, SameSetup DEF VenueOk
<1>11. FeedOk'
  <2>1. IsSequence(r.sent)
    BY <1>4 DEF Submitted
  <2>2. /\ IsSequence(Report(r.sent))
        /\ \A u \in ToSet(Report(r.sent)) : u.id \in Ids(r.sent) /\ u.status \in Early
    BY <2>1, ReportIsSequence
  <2>3. IsSequence(feed') /\ ToSet(feed') = ToSet(feed) \cup ToSet(Report(r.sent))
    BY <1>1, <1>3, <2>2, ConcatIsSequence DEF FeedOk
  <2>4. \A u \in ToSet(feed) : u.id \in DOMAIN venue' /\ (u.status \in Early \/ ~Alive(u.id)')
    BY <1>3, <1>8, <1>9 DEF FeedOk, VenueOk
  <2>5. \A u \in ToSet(feed') : u.id \in DOMAIN venue' /\ (u.status \in Early \/ ~Alive(u.id)')
    BY <1>8, <2>2, <2>3, <2>4
  <2> QED
    BY <2>3, <2>5 DEF FeedOk
<1>12. ASSUME NEW x \in ToSet(truth'.places), x \notin ToSet(truth.places)
       PROVE  x \in ToSet(s) /\ Placed(truth, truth', x) /\ (x.quote # NoQuote => x.side \in r.staged)
  BY <1>1, <1>4, <1>12 DEF Submitted
<1>13. Lag'
  <2> SUFFICES ASSUME NEW x \in ToSet(truth'.places), x.kind = "release", Alive(x.id)'
               PROVE  truth'.orders[x.id].status \in Early
    BY DEF Lag
  <2>1. CASE x \in ToSet(truth.places)
    <3>1. x.id \in DOMAIN truth.actions /\ x.id \in DOMAIN truth.orders
      BY <1>3, <2>1 DEF IsTruth
    <3> QED
      BY <1>3, <1>5, <1>9, <2>1, <3>1 DEF Lag, After
  <2>2. CASE x \notin ToSet(truth.places)
    BY <1>12, <2>2 DEF Placed, Early
  <2> QED
    BY <2>1, <2>2
<1>14. ASSUME NEW y \in ToSet(truth.places), Active(y)'
       PROVE  Active(y)
  <2>1. ReleasesOf(truth, y.id) \subseteq ReleasesOf(truth', y.id)
    BY <1>5 DEF ReleasesOf, After
  <2>2. CASE ReleasesOf(truth', y.id) = {}
    BY <2>1, <2>2 DEF Active
  <2>3. ASSUME NEW x \in ReleasesOf(truth', y.id), Alive(x.id)'
        PROVE  Active(y)
    <3>0. x \in ToSet(truth'.places) /\ x.kind = "release" /\ x.of = y.id
      BY <2>3 DEF ReleasesOf
    <3>1. CASE x \in ToSet(truth.places)
      <4>1. x \in ReleasesOf(truth, y.id) /\ x.id \in DOMAIN truth.actions
        BY <1>3, <3>0, <3>1 DEF ReleasesOf, IsTruth
      <4> QED
        BY <1>9, <2>3, <4>1 DEF Active
    <3>2. CASE x \notin ToSet(truth.places)
      <4>1. ReleasesOf(truth, y.id) = {}
        BY <1>12, <3>0, <3>2 DEF Fitting
      <4> QED
        BY <4>1 DEF Active
    <3> QED
      BY <3>1, <3>2
  <2> QED
    BY <1>14, <2>2, <2>3 DEF Active
<1>15. "blind" \in DOMAIN history' /\ history'.blind = (history.blind \/ \E side \in r.staged : Unsure(side))
  BY <1>1 DEF QuoteInv
<1>16. SameQuote'
  <2> SUFFICES ASSUME ~history'.blind,
                      NEW x \in PassiveQuotes(truth'), NEW y \in PassiveQuotes(truth'),
                      Active(x)', Active(y)', x.side = y.side
               PROVE  x.logical = y.logical
    BY DEF SameQuote
  <2>1. ~history.blind /\ \A side \in r.staged : ~Unsure(side)
    BY <1>15
  <2>2. /\ x \in ToSet(truth'.places) /\ x.kind = "staged_release" /\ x.quote # NoQuote
        /\ y \in ToSet(truth'.places) /\ y.kind = "staged_release" /\ y.quote # NoQuote
    BY DEF PassiveQuotes, StagedPlaces
  <2>3. \A z \in {x, y} : z \in ToSet(truth.places) => z \in PassiveQuotes(truth) /\ Active(z)
    BY <1>14, <2>2 DEF PassiveQuotes, StagedPlaces
  <2>4. \A z \in {x, y} : z \notin ToSet(truth.places) =>
            z.side \in r.staged /\ z.logical = QuoteLogical(z.side) /\ ~HasActiveQuote(truth, z.side)
    BY <1>12, <2>2 DEF Fitting
  <2>5. ASSUME NEW z \in {x, y}, z \notin ToSet(truth.places), NEW w \in {x, y}, w \in ToSet(truth.places)
        PROVE  FALSE
    <3>1. w \in PassiveQuotes(truth) /\ Active(w) /\ w.side = z.side
      BY <2>3, <2>5
    <3>2. ~HasActiveQuote(truth, w.side) /\ ~Unsure(w.side)
      BY <2>1, <2>4, <2>5, <3>1
    <3>3. /\ ReleasesOf(truth, w.id) # {}
          /\ \A q \in ReleasesOf(truth, w.id) : truth.orders[q.id].status # "open"
      BY <3>1, <3>2 DEF HasActiveQuote
    <3>4. PICK q \in ReleasesOf(truth, w.id) : Alive(q.id)
      BY <3>1, <3>3 DEF Active
    <3>5. truth.orders[q.id].status \in {"pending", "cancel_queued"}
      BY <1>3, <3>3, <3>4 DEF Lag, ReleasesOf, Early
    <3> QED
      BY <3>1, <3>2, <3>4, <3>5 DEF Unsure
  <2> QED
    BY <1>3, <2>1, <2>3, <2>4, <2>5 DEF SameQuote
<1>17. history'.blind \in BOOLEAN
  BY <1>15
<1> QED
  BY <1>2, <1>5, <1>10, <1>11, <1>13, <1>15, <1>16, <1>17, SameSetup DEF QuoteInv

(* The steps of the market, the connections and the clock.                    *)
LEMMA QuietPreserves ==
    ASSUME QuoteInv, UNCHANGED <<setup, truth, venue, feed>>,
           "blind" \in DOMAIN history', history'.blind = history.blind
    PROVE  QuoteInv'
<1>1. \A c : Passed(c)' <=> Passed(c)
  BY SameSetup
<1>2. \A id : Alive(id)' <=> Alive(id)
  BY DEF Alive
<1>3. \A x : Active(x)' <=> Active(x)
  BY <1>2 DEF Active
<1>4. VenueOk'
  BY <1>1 DEF QuoteInv, VenueOk
<1>5. FeedOk'
  BY <1>2 DEF QuoteInv, FeedOk
<1>6. Lag'
  BY <1>2 DEF QuoteInv, Lag
<1>7. SameQuote'
  BY <1>3 DEF QuoteInv, SameQuote
<1> QED
  BY <1>4, <1>5, <1>6, <1>7, SameSetup DEF QuoteInv

LEMMA VenuePreserves ==
    ASSUME QuoteInv, VenueOrders
    PROVE  QuoteInv'
<1>1. PICK id \in DOMAIN venue : \E from, to, status :
          /\ OrderStep(id, from, to, status) /\ from \in {"open", "cancelling"}
          /\ \/ to = "cancelling" /\ status = "cancel_queued"
             \/ to \in {"cancelled", "filled"}
  BY DEF VenueOrders
<1>2. PICK from, to, status :
          /\ OrderStep(id, from, to, status) /\ from \in {"open", "cancelling"}
          /\ \/ to = "cancelling" /\ status = "cancel_queued"
             \/ to \in {"cancelled", "filled"}
  BY <1>1
<1> DEFINE u == [id |-> id, status |-> status]
<1>3. /\ venue[id].status = from
      /\ venue' = [venue EXCEPT ![id].status = to] /\ feed' = Append(feed, u)
      /\ history' = [history EXCEPT !.fates = @ + 1]
      /\ setup' = setup /\ truth' = truth
  BY <1>2 DEF OrderStep
<1>4. IsTruth(truth) /\ VenueOk /\ FeedOk /\ Lag /\ SameQuote
  BY DEF QuoteInv
<1>5. /\ DOMAIN venue' = DOMAIN venue
      /\ venue'[id].status = to /\ venue'[id].order = venue[id].order
      /\ DOMAIN venue'[id] = {"status", "order"}
      /\ \A k \in DOMAIN venue : k # id => venue'[k] = venue[k]
  BY <1>3, <1>4 DEF VenueOk
<1>6. \A k : Alive(k)' => Alive(k)
  BY <1>2, <1>3, <1>5 DEF Alive
<1>7. \A x : Active(x)' => Active(x)
  BY <1>3, <1>6 DEF Active
<1>8. VenueOk'
  BY <1>3, <1>4, <1>5, SameSetup DEF VenueOk
<1>9. FeedOk'
  <2>1. IsSequence(feed') /\ ToSet(feed') = ToSet(feed) \cup {u}
    BY <1>3, <1>4, AppendOne DEF FeedOk
  <2>2. u.id \in DOMAIN venue' /\ (u.status \in Early \/ ~Alive(u.id)')
    BY <1>2, <1>5 DEF Early, Alive
  <2> HIDE DEF u
  <2> QED
    BY <1>4, <1>5, <1>6, <2>1, <2>2 DEF FeedOk
<1>10. Lag'
  BY <1>3, <1>4, <1>6 DEF Lag
<1>11. "blind" \in DOMAIN history' /\ history'.blind = history.blind
  BY <1>3 DEF QuoteInv
<1>12. SameQuote'
  BY <1>3, <1>4, <1>7, <1>11 DEF SameQuote
<1> QED
  BY <1>3, <1>8, <1>9, <1>10, <1>11, <1>12, SameSetup DEF QuoteInv

LEMMA DeliverPreserves ==
    ASSUME QuoteInv, Deliver
    PROVE  QuoteInv'
<1> DEFINE u == Head(feed)
<1>1. /\ feed # << >> /\ feed' = Tail(feed) /\ UNCHANGED <<setup, venue, history>>
      /\ truth' = [truth EXCEPT !.orders[u.id] =
                     [@ EXCEPT !.status = u.status, !.size = IF u.status = "filled" THEN 0 ELSE @]]
  BY DEF Deliver
<1>2. IsTruth(truth) /\ VenueOk /\ FeedOk /\ Lag /\ SameQuote
  BY DEF QuoteInv
<1>3. u \in ToSet(feed) /\ IsSequence(feed') /\ ToSet(feed') \subseteq ToSet(feed)
  <2>1. PICK S : feed \in Seq(S)
    BY <1>2 DEF FeedOk, IsSequence
  <2>2. /\ Len(feed) \in Nat /\ Len(feed) >= 1 /\ DOMAIN feed = 1..Len(feed) /\ u = feed[1]
        /\ Tail(feed) \in Seq(S) /\ DOMAIN Tail(feed) = 1..(Len(feed) - 1)
        /\ \A i \in 1..(Len(feed) - 1) : Tail(feed)[i] = feed[i + 1]
    BY <1>1, <2>1
  <2>3. \A i \in 1..(Len(feed) - 1) : i + 1 \in 1..Len(feed)
    BY <2>2
  <2> QED
    BY <1>1, <2>2, <2>3 DEF IsSequence, ToSet
<1>4. u.id \in DOMAIN venue /\ (u.status \in Early \/ ~Alive(u.id)) /\ u.id \in DOMAIN truth.orders
  BY <1>2, <1>3 DEF FeedOk, VenueOk, IsTruth
<1> HIDE DEF u
<1>5. /\ DOMAIN truth' = {"actions", "orders", "places"}
      /\ truth'.actions = truth.actions /\ truth'.places = truth.places
      /\ DOMAIN truth'.orders = DOMAIN truth.orders
      /\ truth'.orders[u.id].status = u.status
      /\ DOMAIN truth'.orders[u.id] = {"status", "size", "price"}
      /\ \A id \in DOMAIN truth.orders : id # u.id => truth'.orders[id] = truth.orders[id]
  BY <1>1, <1>2, <1>4 DEF IsTruth
<1>6. IsTruth(truth')
  BY <1>2, <1>5 DEF IsTruth
<1>7. /\ \A id : Alive(id)' <=> Alive(id)
      /\ \A c : Passed(c)' <=> Passed(c)
  BY <1>1, SameSetup DEF Alive
<1>8. \A x : Active(x)' <=> Active(x)
  BY <1>5, <1>7 DEF Active, ReleasesOf
<1>9. VenueOk'
  BY <1>1, <1>2, <1>5, <1>7 DEF VenueOk
<1>10. FeedOk'
  BY <1>1, <1>2, <1>3, <1>7 DEF FeedOk
<1>11. Lag'
  BY <1>2, <1>4, <1>5, <1>7 DEF Lag, IsTruth
<1>12. PassiveQuotes(truth') = PassiveQuotes(truth)
  BY <1>5 DEF PassiveQuotes, StagedPlaces
<1>13. SameQuote'
  BY <1>1, <1>2, <1>8, <1>12 DEF SameQuote
<1> QED
  BY <1>1, <1>6, <1>9, <1>10, <1>11, <1>13, SameSetup DEF QuoteInv

(* The invariant of quoting holds in every reachable state.                   *)
THEOREM QuotingInvariant == Spec => []QuoteInv
<1>1. Init => QuoteInv
  <2> SUFFICES ASSUME Init PROVE QuoteInv
    OBVIOUS
  <2>1. /\ setup \in Setups /\ Overlap(setup.base, OperatorLimits(Policy))
        /\ truth = [actions |-> << >>, orders |-> << >>, places |-> << >>]
        /\ venue = << >> /\ feed = << >> /\ "blind" \in DOMAIN history /\ history.blind = FALSE
    BY DEF Init, Policy
  <2>2. DOMAIN << >> = {}
    OBVIOUS
  <2>3. IsTruth(truth)
    BY <2>1, <2>2, NoIntent DEF IsTruth
  <2>4. VenueOk /\ FeedOk
    BY <2>1, <2>2, NoIntent DEF VenueOk, FeedOk
  <2>5. Lag /\ SameQuote
    BY <2>1, NoIntent DEF Lag, SameQuote, PassiveQuotes, StagedPlaces
  <2> QED
    BY <2>1, <2>3, <2>4, <2>5 DEF QuoteInv
<1>2. QuoteInv /\ [Next]_vars => QuoteInv'
  <2> SUFFICES ASSUME QuoteInv, [Next]_vars PROVE QuoteInv'
    OBVIOUS
  <2>0. "blind" \in DOMAIN history
    BY DEF QuoteInv
  <2>1. CASE MoveBook \/ TradeAtVenue \/ Tick \/ UNCHANGED vars
    <3>1. UNCHANGED <<setup, truth, venue, feed, history>>
      BY <2>1, Zenon DEF MoveBook, TradeAtVenue, Tick, vars
    <3> QED
      BY <2>0, <3>1, QuietPreserves
  <2>2. ASSUME NEW s \in Sources, Up(s) \/ Down(s) \/ Lose(s) \/ Accept(s) \/ Dismiss(s)
        PROVE  QuoteInv'
    <3>1. UNCHANGED <<setup, truth, venue, feed>>
      BY <2>2, Zenon DEF Up, Down, Lose, Accept, Dismiss
    <3>2. "blind" \in DOMAIN history' /\ history'.blind = history.blind
      BY <2>0, <2>2 DEF Up, Down, Lose, Accept, Dismiss
    <3> QED
      BY <3>1, <3>2, QuietPreserves
  <2>3. CASE StageQuotes \/ PlacePair \/ PlaceSlice \/ ReleaseStaged
    BY <2>3, StrategiesFit, RunPreserves DEF StageQuotes, PlacePair, PlaceSlice, ReleaseStaged
  <2>4. CASE VenueOrders
    BY <2>4, VenuePreserves
  <2>5. CASE Deliver
    BY <2>5, DeliverPreserves
  <2> QED
    BY <2>1, <2>2, <2>3, <2>4, <2>5 DEF Next
<1> QED
  BY <1>1, <1>2, PTL DEF Spec

(* Whatever strategy made it and however intents, rejections and lost answers *)
(* interleave: an order at the venue passes the configured limits on their    *)
(* own and the operator's policy on its own.                                  *)
THEOREM OrdersWithinBothPolicies == Spec => []WithinBothPolicies
<1>1. QuoteInv => WithinBothPolicies
  <2> SUFFICES ASSUME QuoteInv, NEW id \in DOMAIN venue
               PROVE  \A limits \in {setup.base, OperatorLimits(Policy)} :
                         Passes(Alone(limits), Product, venue[id].order, 0, 0)
    BY DEF WithinBothPolicies, Alone
  <2>1. SetupOk(setup) /\ Overlap(setup.base, OperatorLimits(Policy))
    BY SetupsAssumption DEF QuoteInv
  <2>2. PICK open, used : Passes(EffectiveLimits(setup.base, OperatorLimits(Policy)), Product,
                                 venue[id].order, open, used)
    BY Zenon DEF QuoteInv, VenueOk, Passed, Limits
  <2>3. IsLimits(setup.base) /\ Product.contract \in Int
    BY <2>1, SetupTyped DEF ProductTyped, Positive
  <2>4. IsLimits(OperatorLimits(Policy)) /\ OperatorLimits(Policy).max_leverage = None
    BY <2>1, SetupTyped DEF OperatorLimits, IsLimits, LimitFields, LimitNames, None
  <2> QED
    BY <2>1, <2>2, <2>3, <2>4, EffectiveIsTighter
<1> QED
  BY <1>1, QuotingInvariant, PTL

(* The passive strategy never has two quotes of one side, staged or alive at  *)
(* the venue, unless it staged while an order was pending or queued for       *)
(* cancellation.                                                              *)
THEOREM OneQuoteOnEachSide == Spec => []OneQuotePerSide
<1>1. QuoteInv => OneQuotePerSide
  <2> SUFFICES ASSUME QuoteInv, ~history.blind, NEW side \in {"buy", "sell"}
               PROVE  Cardinality({x.logical : x \in {y \in PassiveQuotes(truth) :
                          y.side = side /\ (\/ ReleasesOf(truth, y.id) = {}
                                            \/ \E r \in ReleasesOf(truth, y.id) : Alive(r.id))}}) <= 1
    BY DEF OneQuotePerSide
  <2> DEFINE S == {y \in PassiveQuotes(truth) : y.side = side /\ Active(y)}
  <2> DEFINE L == {x.logical : x \in S}
  <2>1. \A a, b \in L : a = b
    BY DEF QuoteInv, SameQuote
  <2>2. Cardinality(L) <= 1
    <3> HIDE DEF L
    <3>1. CASE L = {}
      BY <3>1, FS_EmptySet
    <3>2. CASE L # {}
      <4>1. PICK a : a \in L
        BY <3>2
      <4>2. L = {a}
        BY <2>1, <4>1
      <4>3. Cardinality({a}) = 1
        BY FS_Singleton, Zenon
      <4> QED
        BY <4>2, <4>3
    <3> QED
      BY <3>1, <3>2
  <2> QED
    BY <2>2, Zenon DEF Active
<1> QED
  BY <1>1, QuotingInvariant, PTL

-----------------------------------------------------------------------------
(* The order book.  What the levels of one message do to a book: the last     *)
(* level that names a price decides it, whatever the book was before.         *)
BookFold(b, s, n, f) ==
    [T \in SUBSET (1..n) |-> IF T = {} THEN b ELSE SetLevel(f[T \ {Max(T)}], s[Max(T)])]

LEMMA BookFoldExists ==
    ASSUME NEW b, NEW s
    PROVE  \A n \in Nat : \E f : f = BookFold(b, s, n, f)
<1> DEFINE S == {n \in Nat : \E f : f = BookFold(b, s, n, f)}
<1>1. 0 \in S
  <2> DEFINE f == [T \in SUBSET (1..0) |-> b]
  <2>1. \A T \in SUBSET (1..0) : T = {}
    OBVIOUS
  <2>2. f = BookFold(b, s, 0, f)
    BY <2>1 DEF BookFold
  <2> QED
    BY <2>2
<1>2. ASSUME NEW n \in Nat, n \in S
      PROVE  n + 1 \in S
  <2>1. PICK g : g = BookFold(b, s, n, g)
    BY <1>2
  <2> DEFINE f == [T \in SUBSET (1..(n + 1)) |->
                     IF n + 1 \in T THEN SetLevel(g[T \ {n + 1}], s[n + 1]) ELSE g[T]]
  <2>2. \A T \in SUBSET (1..(n + 1)) : n + 1 \in T => Max(T) = n + 1
    BY GreatestOfInterval
  <2>3. \A T \in SUBSET (1..(n + 1)) : T \in SUBSET (1..n) <=> n + 1 \notin T
    OBVIOUS
  <2>4. \A T \in SUBSET (1..n) : f[T] = g[T]
    OBVIOUS
  <2>5. ASSUME NEW T \in SUBSET (1..(n + 1))
        PROVE  f[T] = IF T = {} THEN b ELSE SetLevel(f[T \ {Max(T)}], s[Max(T)])
    <3>1. CASE n + 1 \in T
      <4>1. T \ {n + 1} \in SUBSET (1..n)
        OBVIOUS
      <4>2. f[T] = SetLevel(g[T \ {n + 1}], s[n + 1])
        BY <3>1
      <4>3. f[T \ {n + 1}] = g[T \ {n + 1}]
        BY <2>4, <4>1
      <4>4. Max(T) = n + 1 /\ T # {}
        BY <2>2, <3>1
      <4> HIDE DEF f
      <4> QED
        BY <4>2, <4>3, <4>4
    <3>2. CASE n + 1 \notin T
      <4>0. T \in SUBSET (1..n)
        BY <2>3, <3>2
      <4>1. T \in SUBSET (1..n) /\ T \ {Max(T)} \in SUBSET (1..n)
        BY <4>0
      <4>2. g[T] = IF T = {} THEN b ELSE SetLevel(g[T \ {Max(T)}], s[Max(T)])
        BY <2>1, <4>1 DEF BookFold
      <4> HIDE DEF f
      <4> QED
        BY <2>4, <4>1, <4>2
    <3> QED
      BY <3>1, <3>2
  <2>6. f = BookFold(b, s, n + 1, f)
    BY <2>5 DEF BookFold
  <2> QED
    BY <2>6
<1> HIDE DEF S
<1>3. S = Nat
  <2>1. S \in SUBSET Nat
    BY DEF S
  <2> QED
    BY <1>1, <1>2, <2>1, NumberInduction
<1> QED
  BY <1>3 DEF S

LEMMA SetLevelsSteps ==
    ASSUME NEW b, NEW s \in Seq(BookUpdates)
    PROVE  \E g : /\ g[0] = b
                  /\ \A k \in 1..Len(s) : g[k] = SetLevel(g[k - 1], s[k])
                  /\ SetLevels(b, s) = g[Len(s)]
<1> DEFINE n == Len(s)
<1>0. n \in Nat /\ DOMAIN s = 1..n
  OBVIOUS
<1> HIDE DEF n
<1> DEFINE f == CHOOSE f : f = BookFold(b, s, n, f)
<1> DEFINE g == [k \in 0..n |-> f[1..k]]
<1>1. SetLevels(b, s) = f[1..n]
  BY <1>0, Zenon DEF SetLevels, FoldLeft, MapThenFoldSet, BookFold
<1>2. f = BookFold(b, s, n, f)
  BY <1>0, BookFoldExists, Zenon
<1> HIDE DEF f
<1>3. g[0] = b
  <2>1. 1..0 = {} /\ 1..0 \in SUBSET (1..n)
    BY <1>0
  <2>2. f[1..0] = b
    BY <1>2, <2>1 DEF BookFold
  <2> QED
    BY <1>0, <2>2
<1>4. ASSUME NEW k \in 1..n
      PROVE  g[k] = SetLevel(g[k - 1], s[k])
  <2>1. 1..k \in SUBSET (1..n) /\ k \in 1..k /\ k \in Nat
    BY <1>0
  <2>2. Max(1..k) = k
    BY <2>1, GreatestOfInterval
  <2>3. (1..k) \ {k} = 1..(k - 1)
    OBVIOUS
  <2>4. f[1..k] = SetLevel(f[(1..k) \ {Max(1..k)}], s[Max(1..k)])
    <3>1. 1..k # {}
      BY <2>1
    <3> QED
      BY <1>2, <2>1, <3>1 DEF BookFold
  <2>5. f[1..k] = SetLevel(f[1..(k - 1)], s[k])
    BY <2>2, <2>3, <2>4
  <2>6. g[k] = f[1..k] /\ g[k - 1] = f[1..(k - 1)]
    BY <1>0
  <2> QED
    BY <2>5, <2>6
<1>5. g[n] = f[1..n]
  BY <1>0
<1> HIDE DEF g
<1> QED
  BY <1>1, <1>3, <1>4, <1>5 DEF n

(* A book, and the levels that name a price of a side.                        *)
Sides == {"bid", "ask"}
Fields == {"bid", "ask", "at", "seq"}
IsBookOf(b, D) ==
    /\ DOMAIN b = D /\ Sides \subseteq D /\ b = [x \in D |-> b[x]]
    /\ b["bid"] \in [Prices -> Nat] /\ b["ask"] \in [Prices -> Nat]
Names(u, side, p) == u.side = side /\ u.price = p

LEMMA SetLevelFacts ==
    ASSUME NEW D, NEW b, IsBookOf(b, D), NEW u \in BookUpdates
    PROVE  /\ IsBookOf(SetLevel(b, u), D)
           /\ \A side \in Sides, p \in Prices :
                 SetLevel(b, u)[side][p] = IF Names(u, side, p) THEN u.quantity ELSE b[side][p]
<1>1. u.side \in Sides /\ u.price \in Prices /\ u.quantity \in Nat
  BY DEF BookUpdates, Sides
<1>2. /\ DOMAIN SetLevel(b, u) = D
      /\ SetLevel(b, u) = [x \in D |-> SetLevel(b, u)[x]]
  BY DEF SetLevel, IsBookOf
<1>3. \A x \in D : SetLevel(b, u)[x] = IF x = u.side THEN [b[x] EXCEPT ![u.price] = u.quantity] ELSE b[x]
  BY DEF SetLevel, IsBookOf
<1>4. "bid" \in D /\ "ask" \in D
  BY DEF IsBookOf, Sides
<1>5. \A x \in Sides : b[x] \in [Prices -> Nat]
  BY DEF IsBookOf, Sides
<1> DEFINE c == SetLevel(b, u)
<1> HIDE DEF c
<1>6. \A x \in Sides : c[x] = IF x = u.side THEN [b[x] EXCEPT ![u.price] = u.quantity] ELSE b[x]
  BY <1>3, <1>4 DEF c, Sides
<1>7. \A x \in Sides : c[x] \in [Prices -> Nat]
  BY <1>1, <1>5, <1>6
<1>8. IsBookOf(c, D)
  BY <1>2, <1>4, <1>7 DEF c, IsBookOf, Sides
<1>9. \A side \in Sides, p \in Prices :
         c[side][p] = IF Names(u, side, p) THEN u.quantity ELSE b[side][p]
  BY <1>1, <1>5, <1>6 DEF Names
<1> QED
  BY <1>8, <1>9 DEF c

NamedIn(s, n, side, p) == \E i \in 1..n : Names(s[i], side, p)

(* The book b after k levels, on a side and price, compared with another book *)
(* c after the same levels.                                                   *)
Decided(s, k, side, p, old, new, other) ==
    IF NamedIn(s, k, side, p)
    THEN new = other /\ \E i \in 1..k : Names(s[i], side, p) /\ s[i].quantity = new
    ELSE new = old

LEMMA SetLevelsFacts ==
    ASSUME NEW D, NEW b, IsBookOf(b, D), NEW E, NEW c, IsBookOf(c, E), NEW s \in Seq(BookUpdates)
    PROVE  /\ IsBookOf(SetLevels(b, s), D)
           /\ \A side \in Sides, p \in Prices :
                 Decided(s, Len(s), side, p, b[side][p], SetLevels(b, s)[side][p],
                         SetLevels(c, s)[side][p])
<1> DEFINE n == Len(s)
<1>0. n \in Nat /\ DOMAIN s = 1..n
  OBVIOUS
<1>a. \A i \in 1..n : s[i] \in BookUpdates
  OBVIOUS
<1>1. PICK g : /\ g[0] = b
               /\ \A k \in 1..n : g[k] = SetLevel(g[k - 1], s[k])
               /\ SetLevels(b, s) = g[n]
  BY SetLevelsSteps, Zenon
<1>2. PICK h : /\ h[0] = c
               /\ \A k \in 1..n : h[k] = SetLevel(h[k - 1], s[k])
               /\ SetLevels(c, s) = h[n]
  BY SetLevelsSteps, Zenon
<1> HIDE DEF n
<1> DEFINE P(k) == /\ IsBookOf(g[k], D) /\ IsBookOf(h[k], E)
                   /\ \A side \in Sides, p \in Prices :
                         Decided(s, k, side, p, b[side][p], g[k][side][p], h[k][side][p])
<1> DEFINE S == {k \in Nat : k <= n => P(k)}
<1>3. 0 \in S
  <2>1. P(0)
    BY <1>1, <1>2 DEF Decided, NamedIn
  <2> QED
    BY <2>1
<1>4. ASSUME NEW k \in Nat, k \in S
      PROVE  k + 1 \in S
  <2> SUFFICES ASSUME k + 1 <= n PROVE P(k + 1)
    OBVIOUS
  <2>1. P(k)
    BY <1>0, <1>4
  <2>2. k + 1 \in 1..n /\ (k + 1) - 1 = k
    BY <1>0
  <2> DEFINE u == s[k + 1]
  <2>3. g[k + 1] = SetLevel(g[k], u) /\ h[k + 1] = SetLevel(h[k], u) /\ u \in BookUpdates
    BY <1>a, <1>0, <1>1, <1>2, <2>2
  <2>4. \A side \in Sides, p \in Prices :
           NamedIn(s, k + 1, side, p) <=> (NamedIn(s, k, side, p) \/ Names(u, side, p))
    <3>1. \A i \in 1..(k + 1) : i \in 1..k \/ i = k + 1
      OBVIOUS
    <3>2. 1..k \subseteq 1..(k + 1) /\ k + 1 \in 1..(k + 1)
      OBVIOUS
    <3> QED
      BY <3>1, <3>2 DEF NamedIn
  <2> HIDE DEF u
  <2>5. /\ IsBookOf(g[k + 1], D) /\ IsBookOf(h[k + 1], E)
        /\ \A side \in Sides, p \in Prices :
              /\ g[k + 1][side][p] = IF Names(u, side, p) THEN u.quantity ELSE g[k][side][p]
              /\ h[k + 1][side][p] = IF Names(u, side, p) THEN u.quantity ELSE h[k][side][p]
    BY <2>1, <2>3, SetLevelFacts
  <2>6. ASSUME NEW side \in Sides, NEW p \in Prices
        PROVE  Decided(s, k + 1, side, p, b[side][p], g[k + 1][side][p], h[k + 1][side][p])
    <3>1. Decided(s, k, side, p, b[side][p], g[k][side][p], h[k][side][p])
      BY <2>1
    <3>2. CASE Names(u, side, p)
      <4>1. /\ g[k + 1][side][p] = u.quantity /\ h[k + 1][side][p] = u.quantity
            /\ NamedIn(s, k + 1, side, p) /\ k + 1 \in 1..(k + 1)
        BY <2>4, <2>5, <3>2
      <4> QED
        BY <3>2, <4>1 DEF Decided, u
    <3>3. CASE ~Names(u, side, p)
      <4>1. /\ g[k + 1][side][p] = g[k][side][p] /\ h[k + 1][side][p] = h[k][side][p]
            /\ NamedIn(s, k + 1, side, p) <=> NamedIn(s, k, side, p)
        BY <2>4, <2>5, <3>3
      <4>2. 1..k \subseteq 1..(k + 1)
        OBVIOUS
      <4> QED
        BY <3>1, <4>1, <4>2 DEF Decided
    <3> QED
      BY <3>2, <3>3
  <2> QED
    BY <2>5, <2>6
<1>5. S = Nat
  <2> HIDE DEF S
  <2>1. S \in SUBSET Nat
    BY DEF S
  <2> QED
    BY <1>3, <1>4, <2>1, NumberInduction
<1>6. P(n)
  BY <1>0, <1>5
<1> QED
  BY <1>1, <1>2, <1>6 DEF n

(* A set as a sequence has just its elements.                                 *)
LEMMA SetAsSequence ==
    ASSUME NEW S, IsFiniteSet(S)
    PROVE  /\ SetToSeq(S) \in Seq(S) /\ Len(SetToSeq(S)) = Cardinality(S)
           /\ \A x \in S : \E i \in 1..Len(SetToSeq(S)) : SetToSeq(S)[i] = x
<1> DEFINE n == Cardinality(S)
<1> DEFINE f == SetToSeq(S)
<1>1. n \in Nat /\ ExistsBijection(1..n, S)
  BY FS_CardinalityType
<1> HIDE DEF n, f
<1>2. \E g \in [1..n -> S] : IsInjective(g)
  BY <1>1 DEF ExistsBijection, Bijection, Injection
<1>3. f \in [1..n -> S] /\ IsInjective(f)
  BY <1>2, Zenon DEF f, SetToSeq, n
<1>4. f \in Injection(1..n, S)
  BY <1>3 DEF Injection
<1>5. Cardinality(1..n) = n
  BY <1>1, FS_Interval
<1>6. f \in Surjection(1..n, S)
  BY <1>4, <1>5, FS_Injection DEF n
<1>7. f \in Seq(S) /\ Len(f) = n
  BY <1>1, <1>3, SeqDef
<1> QED
  BY <1>6, <1>7 DEF f, n, Surjection

(* A snapshot of a book is that book: it names every price with a quantity,   *)
(* once, and the rest is empty.                                               *)
IsMarketBook(b) == IsBookOf(b, Sides) /\ BothSides(b)
LevelSet(book) ==
    {[side |-> x[1], price |-> x[2], quantity |-> book[x[1]][x[2]]] :
        x \in {y \in {"bid", "ask"} \X Prices : book[y[1]][y[2]] > 0}}

LEMMA LevelSetFinite ==
    ASSUME NEW book
    PROVE  IsFiniteSet(LevelSet(book))
<1> DEFINE P == {"bid", "ask"} \X Prices
<1> DEFINE S == {y \in P : book[y[1]][y[2]] > 0}
<1> DEFINE T == LevelSet(book)
<1> DEFINE f == [x \in S |-> [side |-> x[1], price |-> x[2], quantity |-> book[x[1]][x[2]]]]
<1>1. IsFiniteSet(Prices)
  <2>1. MaxOf(Prices) \in Nat /\ Prices \in SUBSET (1..MaxOf(Prices))
    BY PricesAssumption
  <2>2. IsFiniteSet(1..MaxOf(Prices))
    BY <2>1, FS_Interval
  <2> QED
    BY <2>1, <2>2, FS_Subset
<1>2. IsFiniteSet({"bid", "ask"})
  <2>1. IsFiniteSet({"bid"})
    BY FS_Singleton
  <2>2. IsFiniteSet({"bid"} \cup {"ask"})
    BY <2>1, FS_AddElement
  <2>3. {"bid"} \cup {"ask"} = {"bid", "ask"}
    OBVIOUS
  <2> QED
    BY <2>2, <2>3
<1>3. IsFiniteSet(P)
  BY <1>1, <1>2, FS_Product
<1>4. S \in SUBSET P
  OBVIOUS
<1>5. T = {f[x] : x \in S}
  BY DEF LevelSet
<1> HIDE DEF P
<1>6. IsFiniteSet(S)
  BY <1>3, <1>4, FS_Subset
<1>7. f = [x \in S |-> f[x]]
  OBVIOUS
<1> HIDE DEF S, T, f
<1>8. f \in Surjection(S, T)
  BY <1>5, <1>7 DEF Surjection
<1>9. IsFiniteSet(T)
  BY <1>6, <1>8, FS_Surjection
<1> QED
  BY <1>9 DEF T

LEMMA EmptyBook == IsBookOf(NoBook, Fields) /\ \A side \in Sides, p \in Prices : NoBook[side][p] = 0
  BY DEF NoBook, NoLevels, IsBookOf, Fields, Sides

LEMMA SnapshotIsBook ==
    ASSUME NEW book, IsMarketBook(book)
    PROVE  /\ LevelsOf(book) \in Seq(BookUpdates) /\ LevelsOf(book) # << >>
           /\ \A side \in Sides, p \in Prices : SetLevels(NoBook, LevelsOf(book))[side][p] = book[side][p]
<1> DEFINE S == LevelSet(book)
<1> DEFINE s == LevelsOf(book)
<1> DEFINE n == Len(s)
<1>1. /\ s \in Seq(S) /\ \A x \in S : \E i \in 1..n : s[i] = x
  <2>1. s = SetToSeq(S) /\ IsFiniteSet(S)
    BY LevelSetFinite, Zenon DEF LevelsOf, LevelSet
  <2> HIDE DEF S, s
  <2> QED
    BY <2>1, SetAsSequence
<1>2. \A side \in Sides, p \in Prices : book[side][p] \in Nat
  BY DEF IsMarketBook, IsBookOf, Sides
<1>3. /\ \A u \in S : u \in BookUpdates /\ u.quantity = book[u.side][u.price] /\ u.quantity > 0
      /\ \A side \in Sides, p \in Prices :
            book[side][p] > 0 => \E u \in S : Names(u, side, p)
  <2>1. ASSUME NEW u \in S
        PROVE  u \in BookUpdates /\ u.quantity = book[u.side][u.price] /\ u.quantity > 0
    <3>1. PICK x \in {y \in {"bid", "ask"} \X Prices : book[y[1]][y[2]] > 0} :
             u = [side |-> x[1], price |-> x[2], quantity |-> book[x[1]][x[2]]]
      BY DEF LevelSet
    <3>2. x[1] \in Sides /\ x[2] \in Prices /\ book[x[1]][x[2]] > 0
      BY DEF Sides
    <3>3. u.side = x[1] /\ u.price = x[2] /\ u.quantity = book[x[1]][x[2]]
      BY <3>1
    <3>4. u \in BookUpdates
      BY <1>2, <3>1, <3>2 DEF BookUpdates, Sides
    <3> QED
      BY <3>2, <3>3, <3>4
  <2>2. ASSUME NEW side \in Sides, NEW p \in Prices, book[side][p] > 0
        PROVE  \E u \in S : Names(u, side, p)
    <3> DEFINE x == <<side, p>>
    <3>1. /\ x \in {y \in {"bid", "ask"} \X Prices : book[y[1]][y[2]] > 0}
          /\ x[1] = side /\ x[2] = p
      BY <2>2 DEF Sides
    <3> HIDE DEF x
    <3> DEFINE u == [side |-> x[1], price |-> x[2], quantity |-> book[x[1]][x[2]]]
    <3>2. u \in S /\ u.side = side /\ u.price = p
      BY <3>1 DEF LevelSet
    <3> HIDE DEF u, S
    <3> QED
      BY <3>2 DEF Names
  <2> QED
    BY <2>1, <2>2
<1>4. \E u : u \in S
  <2>1. PICK p \in Prices : book.bid[p] > 0
    BY DEF IsMarketBook, BothSides, LevelsIn
  <2>2. book["bid"][p] > 0 /\ "bid" \in Sides
    BY <2>1 DEF Sides
  <2> QED
    BY <1>3, <2>2
<1> HIDE DEF S, s
<1>5. s \in Seq(BookUpdates)
  BY <1>1, <1>3
<1>6. n \in Nat /\ \A i \in 1..n : s[i] \in S
  BY <1>1
<1>7. s # << >>
  BY <1>1, <1>4
<1> HIDE DEF n
<1>8. ASSUME NEW side \in Sides, NEW p \in Prices
      PROVE  SetLevels(NoBook, s)[side][p] = book[side][p]
  <2>1. Decided(s, n, side, p, NoBook[side][p], SetLevels(NoBook, s)[side][p],
                SetLevels(NoBook, s)[side][p])
    BY <1>5, EmptyBook, SetLevelsFacts DEF n
  <2>2. CASE book[side][p] > 0
    <3>1. PICK u \in S : Names(u, side, p)
      BY <1>3, <2>2
    <3>2. NamedIn(s, n, side, p)
      BY <1>1, <3>1 DEF NamedIn
    <3>3. PICK i \in 1..n : Names(s[i], side, p) /\ s[i].quantity = SetLevels(NoBook, s)[side][p]
      BY <2>1, <3>2 DEF Decided
    <3> QED
      BY <1>3, <1>6, <3>3 DEF Names
  <2>3. CASE book[side][p] = 0
    <3>1. ~NamedIn(s, n, side, p)
      BY <1>3, <1>6, <2>3 DEF NamedIn, Names
    <3> QED
      BY <2>1, <2>3, <3>1, EmptyBook DEF Decided
  <2> QED
    BY <1>2, <2>2, <2>3
<1> QED
  BY <1>5, <1>7, <1>8 DEF s

-----------------------------------------------------------------------------
(* Replication of the book.  Of every price, the last message under way on a  *)
(* connection that names it tells what the venue has; and unless a message    *)
(* was lost, a price that the projection has wrong is named by some message   *)
(* under way.                                                                 *)
IsMessage(m) ==
    \/ m.kind = "trades"
    \/ m.kind = "update" /\ m.levels \in Seq(BookUpdates)
    \/ m.kind = "snapshot" /\ m.levels \in Seq(BookUpdates) /\ m.levels # << >>
Decides(m, side, p) ==
    m.kind = "snapshot" \/ (m.kind = "update" /\ NamedIn(m.levels, Len(m.levels), side, p))
Told(m, side, p) == SetLevels(NoBook, m.levels)[side][p]
Coming(q, side, p) == \E i \in 1..Len(q) : Decides(q[i], side, p)
Current(q, book) ==
    \A side \in Sides, p \in Prices : \A i \in 1..Len(q) :
        Decides(q[i], side, p) /\ (\A j \in (i + 1)..Len(q) : ~Decides(q[j], side, p))
        => Told(q[i], side, p) = book[side][p]
QueueOk(q, book) ==
    /\ IsSequence(q) /\ Current(q, book)
    /\ \A i \in 1..Len(q) : IsMessage(q[i])

LEMMA QueueTail ==
    ASSUME NEW q, NEW book, QueueOk(q, book), q # << >>
    PROVE  /\ QueueOk(Tail(q), book) /\ IsMessage(Head(q))
           /\ \A side \in Sides, p \in Prices :
                 /\ Coming(q, side, p) => Decides(Head(q), side, p) \/ Coming(Tail(q), side, p)
                 /\ Decides(Head(q), side, p) /\ ~Coming(Tail(q), side, p)
                       => Told(Head(q), side, p) = book[side][p]
<1> DEFINE n == Len(q)
<1> DEFINE r == Tail(q)
<1>1. /\ n \in Nat /\ n >= 1 /\ Head(q) = q[1]
      /\ Len(r) = n - 1 /\ \A i \in 1..(n - 1) : r[i] = q[i + 1]
  BY DEF QueueOk, IsSequence
<1>2. IsSequence(r)
  BY DEF QueueOk, IsSequence
<1> HIDE DEF n, r
<1>3. 1 \in 1..n /\ \A i \in 1..(n - 1) : i + 1 \in 1..n
  BY <1>1
<1>4. \A i \in 1..Len(r) : IsMessage(r[i])
  BY <1>1, <1>3 DEF QueueOk, n
<1>5. Current(r, book)
  <2> SUFFICES ASSUME NEW side \in Sides, NEW p \in Prices, NEW i \in 1..(n - 1),
                      Decides(r[i], side, p), \A j \in (i + 1)..(n - 1) : ~Decides(r[j], side, p)
               PROVE  Told(r[i], side, p) = book[side][p]
    BY <1>1, Zenon DEF Current
  <2>1. i + 1 \in 1..n /\ r[i] = q[i + 1]
    BY <1>1, <1>3
  <2>2. ASSUME NEW j \in ((i + 1) + 1)..n
        PROVE  ~Decides(q[j], side, p)
    <3>1. j - 1 \in (i + 1)..(n - 1) /\ j - 1 \in 1..(n - 1) /\ (j - 1) + 1 = j
      BY <1>1
    <3>2. r[j - 1] = q[j]
      BY <1>1, <3>1
    <3> QED
      BY <3>1, <3>2
  <2> QED
    BY <2>1, <2>2 DEF QueueOk, Current, n
<1>6. ASSUME NEW side \in Sides, NEW p \in Prices
      PROVE  /\ Coming(q, side, p) => Decides(q[1], side, p) \/ Coming(r, side, p)
             /\ Decides(q[1], side, p) /\ ~Coming(r, side, p) => Told(q[1], side, p) = book[side][p]
  <2>1. ASSUME NEW j \in 2..n
        PROVE  Decides(q[j], side, p) => Coming(r, side, p)
    <3>1. j - 1 \in 1..(n - 1) /\ (j - 1) + 1 = j
      BY <1>1
    <3> QED
      BY <1>1, <3>1 DEF Coming
  <2>2. \A i \in 1..n : i = 1 \/ i \in 2..n
    BY <1>1
  <2>3. Coming(q, side, p) => Decides(q[1], side, p) \/ Coming(r, side, p)
    BY <2>1, <2>2 DEF Coming, n
  <2>4. ~Coming(r, side, p) => \A j \in (1 + 1)..n : ~Decides(q[j], side, p)
    BY <2>1
  <2> QED
    BY <1>3, <2>3, <2>4 DEF QueueOk, Current, n
<1> QED
  BY <1>1, <1>2, <1>3, <1>4, <1>5, <1>6 DEF QueueOk, r, n

(* What a message that goes to the end of a connection tells becomes current. *)
Tells(m, old, new) ==
    /\ IsMessage(m)
    /\ \A side \in Sides, p \in Prices :
          new[side][p] = IF Decides(m, side, p) THEN Told(m, side, p) ELSE old[side][p]

LEMMA QueueAppend ==
    ASSUME NEW q, NEW m, NEW old, NEW new, QueueOk(q, old), Tells(m, old, new)
    PROVE  /\ QueueOk(Append(q, m), new)
           /\ \A side \in Sides, p \in Prices :
                 Coming(q, side, p) \/ Decides(m, side, p) => Coming(Append(q, m), side, p)
<1> DEFINE n == Len(q)
<1> DEFINE r == Append(q, m)
<1>1. n \in Nat /\ Len(r) = n + 1 /\ r[n + 1] = m /\ \A i \in 1..n : r[i] = q[i]
  BY DEF QueueOk, IsSequence
<1>2. IsSequence(r)
  BY AppendOne DEF QueueOk
<1> HIDE DEF n, r
<1>3. /\ n + 1 \in 1..(n + 1) /\ 1..n \subseteq 1..(n + 1)
      /\ \A i \in 1..(n + 1) : i \in 1..n \/ i = n + 1
  BY <1>1
<1>4. \A i \in 1..Len(r) : IsMessage(r[i])
  BY <1>1, <1>3 DEF QueueOk, Tells, n
<1>5. Current(r, new)
  <2> SUFFICES ASSUME NEW side \in Sides, NEW p \in Prices, NEW i \in 1..(n + 1),
                      Decides(r[i], side, p), \A j \in (i + 1)..(n + 1) : ~Decides(r[j], side, p)
               PROVE  Told(r[i], side, p) = new[side][p]
    BY <1>1, Zenon DEF Current
  <2>1. CASE i = n + 1
    BY <1>1, <2>1 DEF Tells
  <2>2. CASE i \in 1..n
    <3>1. n + 1 \in (i + 1)..(n + 1) /\ \A j \in (i + 1)..n : j \in (i + 1)..(n + 1) /\ j \in 1..n
      BY <1>1, <2>2
    <3>2. ~Decides(m, side, p) /\ \A j \in (i + 1)..n : ~Decides(q[j], side, p)
      BY <1>1, <3>1
    <3>3. Told(q[i], side, p) = old[side][p]
      BY <1>1, <2>2, <3>2 DEF QueueOk, Current, n
    <3> QED
      BY <1>1, <2>2, <3>2, <3>3 DEF Tells
  <2> QED
    BY <1>3, <2>1, <2>2
<1>6. \A side \in Sides, p \in Prices :
         Coming(q, side, p) \/ Decides(m, side, p) => Coming(r, side, p)
  BY <1>1, <1>3 DEF Coming, n
<1> QED
  BY <1>2, <1>4, <1>5, <1>6 DEF QueueOk, r

LEMMA EmptyQueue ==
    ASSUME NEW book
    PROVE  QueueOk(<< >>, book) /\ \A side \in Sides, p \in Prices : ~Coming(<< >>, side, p)
<1>1. Len(<< >>) = 0 /\ 1..0 = {} /\ IsSequence(<< >>)
  BY NoIntent
<1> QED
  BY <1>1 DEF QueueOk, Current, Coming

LEMMA TradesTellNothing ==
    ASSUME NEW m, m.kind = "trades", NEW book
    PROVE  Tells(m, book, book)
  BY DEF Tells, IsMessage, Decides

LEMMA UpdateTells ==
    ASSUME NEW D, NEW book, IsBookOf(book, D), NEW levels \in Seq(BookUpdates),
           NEW n, NEW shared
    PROVE  /\ IsBookOf(SetLevels(book, levels), D)
           /\ Tells(Update(n, levels, shared), book, SetLevels(book, levels))
<1> DEFINE m == Update(n, levels, shared)
<1>1. m.kind = "update" /\ m.levels = levels
  BY DEF Update
<1> HIDE DEF m
<1>2. /\ IsBookOf(SetLevels(book, levels), D)
      /\ \A side \in Sides, p \in Prices :
            Decided(levels, Len(levels), side, p, book[side][p], SetLevels(book, levels)[side][p],
                    SetLevels(NoBook, levels)[side][p])
  BY SetLevelsFacts, EmptyBook
<1>3. IsMessage(m) /\ \A side, p : /\ Decides(m, side, p) <=> NamedIn(levels, Len(levels), side, p)
                                   /\ Told(m, side, p) = SetLevels(NoBook, levels)[side][p]
  BY <1>1 DEF IsMessage, Decides, Told
<1>4. Tells(m, book, SetLevels(book, levels))
  BY <1>2, <1>3 DEF Tells, Decided
<1> QED
  BY <1>2, <1>4 DEF m

LEMMA SnapshotTells ==
    ASSUME NEW book, IsMarketBook(book), NEW n
    PROVE  /\ Tells(Snapshot(n, LevelsOf(book)), book, book)
           /\ \A side, p : Decides(Snapshot(n, LevelsOf(book)), side, p)
<1> DEFINE m == Snapshot(n, LevelsOf(book))
<1>1. m.kind = "snapshot" /\ m.levels = LevelsOf(book)
  BY DEF Snapshot
<1> HIDE DEF m
<1>2. IsMessage(m) /\ \A side, p : Decides(m, side, p)
  BY <1>1, SnapshotIsBook DEF IsMessage, Decides
<1>3. \A side \in Sides, p \in Prices : Told(m, side, p) = book[side][p]
  BY <1>1, SnapshotIsBook DEF Told
<1> QED
  BY <1>2, <1>3 DEF Tells, m

(* What the projection makes of a message: the prices that the message names  *)
(* become what it tells, the others stay as they are.                         *)
IsData(d) == DOMAIN d = {"book", "samples", "trades"} /\ IsBookOf(d.book, Fields)

LEMMA DataApplied ==
    ASSUME NEW d, IsData(d), NEW m, IsMessage(m), NEW now, NEW seq
    PROVE  /\ IsData(ApplyData(d, m, now, seq))
           /\ \A side \in Sides, p \in Prices :
                 ApplyData(d, m, now, seq).book[side][p] =
                    IF Decides(m, side, p) THEN Told(m, side, p) ELSE d.book[side][p]
<1>1. CASE m.kind = "trades"
  <2>1. /\ DOMAIN ApplyTrades(d, m, now, seq) = DOMAIN d
        /\ ApplyTrades(d, m, now, seq).book = d.book
    BY DEF ApplyTrades, IsData
  <2>2. \A side, p : ~Decides(m, side, p)
    BY <1>1 DEF Decides
  <2> QED
    BY <1>1, <2>1, <2>2 DEF ApplyData, IsData
<1>2. CASE m.kind # "trades" /\ m.levels = << >>
  <2>1. m.kind = "update" /\ Len(m.levels) = 0
    BY <1>2 DEF IsMessage
  <2>2. \A side, p : ~Decides(m, side, p)
    BY <2>1 DEF Decides, NamedIn
  <2> QED
    <3>1. ApplyData(d, m, now, seq) = d
      BY <1>2, Zenon DEF ApplyData, ApplyOrderBook
    <3> QED
      BY <2>2, <3>1
<1>3. CASE m.kind # "trades" /\ m.levels # << >>
  <2> DEFINE start == IF m.kind = "snapshot" THEN NoBook ELSE d.book
  <2> DEFINE b == SetLevels(start, m.levels)
  <2> DEFINE c == [b EXCEPT !.at = now, !.seq = seq]
  <2>1. IsBookOf(start, Fields) /\ m.levels \in Seq(BookUpdates)
    BY <1>3, EmptyBook DEF IsData, IsMessage
  <2>2. ApplyData(d, m, now, seq) = Sampled([d EXCEPT !.book = c])
    BY <1>3 DEF ApplyData, ApplyOrderBook
  <2> HIDE DEF start
  <2>3. /\ IsBookOf(b, Fields)
        /\ \A side \in Sides, p \in Prices :
              Decided(m.levels, Len(m.levels), side, p, start[side][p], b[side][p],
                      SetLevels(NoBook, m.levels)[side][p])
    BY <2>1, SetLevelsFacts, EmptyBook
  <2> HIDE DEF b
  <2>4. IsBookOf(c, Fields) /\ \A side \in Sides : c[side] = b[side]
    <3>1. IsBookOf(b, Fields)
      BY <2>3
    <3> QED
      BY <3>1 DEF IsBookOf, Fields, Sides
  <2> HIDE DEF c
  <2>5. /\ DOMAIN ApplyData(d, m, now, seq) = DOMAIN d
        /\ ApplyData(d, m, now, seq).book = c
    BY <2>2 DEF Sampled, IsData
  <2>6. ASSUME NEW side \in Sides, NEW p \in Prices
        PROVE  c[side][p] = IF Decides(m, side, p) THEN Told(m, side, p) ELSE d.book[side][p]
    <3>1. Decided(m.levels, Len(m.levels), side, p, start[side][p], c[side][p], Told(m, side, p))
      BY <2>3, <2>4 DEF Told
    <3>2. CASE m.kind = "snapshot"
      <4>1. Decides(m, side, p) /\ start = NoBook /\ b = SetLevels(NoBook, m.levels)
        BY <3>2 DEF Decides, start, b
      <4> QED
        BY <2>4, <4>1 DEF Told
    <3>3. CASE m.kind = "update"
      BY <3>1, <3>3 DEF Decides, Decided, start
    <3> QED
      BY <1>3, <3>2, <3>3 DEF IsMessage
  <2> QED
    BY <2>4, <2>5, <2>6 DEF IsData
<1> QED
  BY <1>1, <1>2, <1>3

LinksOk ==
    \A s \in Sources : /\ DOMAIN links[s] = {"up", "queue"} /\ QueueOk(links[s].queue, market.book)
                       /\ ~links[s].up => links[s].queue = << >>
Right(side, p) == md.book[side][p] = market.book[side][p]
Reached ==
    ~history.lost /\ (\E s \in Sources : links[s].up)
    => \A side \in Sides, p \in Prices : Right(side, p) \/ \E s \in Sources : Coming(links[s].queue, side, p)
(* Every message has the number of its place among the venue's, and a copy of *)
(* it on another connection is the same message.  Of the messages under way,  *)
(* one that is the last on its connection to tell of a price is followed by   *)
(* none that tells of it otherwise, on any connection: what was sent later    *)
(* was sent on its connection too, behind it.  A copy that the router will    *)
(* dismiss is no newer than what it accepted; and unless it accepted them out *)
(* of order, the book has what the copy tells if nothing behind it tells it.  *)
Elem(q, m) == \E i \in 1..Len(q) : q[i] = m
Final(q, m, side, p) ==
    \E i \in 1..Len(q) : /\ q[i] = m /\ Decides(m, side, p)
                         /\ \A j \in (i + 1)..Len(q) : ~Decides(q[j], side, p)
OnWay(s, m) == Elem(links[s].queue, m)
LastOnWay(s, m, side, p) == Final(links[s].queue, m, side, p)
Numbered ==
    /\ market.sent \in Nat /\ history.newest \in Nat
    /\ \A s \in Sources : \A m : OnWay(s, m) => m.n \in Nat /\ m.n < market.sent
    /\ \A s, r \in Sources : \A m, x : OnWay(s, m) /\ OnWay(r, x) /\ m.n = x.n => m = x
    /\ \A key \in seen : key[1] \in Nat /\ key[1] < market.sent
Agreed ==
    \A s, r \in Sources, side \in Sides, p \in Prices : \A m, x :
        LastOnWay(s, m, side, p) /\ OnWay(r, x) /\ x.n >= m.n /\ Decides(x, side, p)
        => Told(x, side, p) = market.book[side][p]
Behind ==
    \A s \in Sources : \A m :
        OnWay(s, m) /\ MessageKey(m, s) \in seen /\ IsBook(m) => m.n <= history.newest
Dismissible ==
    ~history.regressed => \A s \in Sources, side \in Sides, p \in Prices : \A m :
        LastOnWay(s, m, side, p) /\ MessageKey(m, s) \in seen => Right(side, p)
BookInv ==
    /\ setup \in Setups /\ DOMAIN market = {"book", "version", "trades", "sent"}
    /\ IsMarketBook(market.book)
    /\ IsData(md) /\ {"lost", "newest", "regressed"} \subseteq DOMAIN history
    /\ LinksOk /\ Reached /\ Numbered /\ Agreed /\ Behind /\ Dismissible

LEMMA KeyNumber ==
    ASSUME NEW m, NEW s
    PROVE  MessageKey(m, s)[1] = m.n
  BY DEF MessageKey

(* What a queue has after a message at its end, and after some at its head    *)
(* are gone.                                                                  *)
LEMMA AppendElem ==
    ASSUME NEW q, IsSequence(q), NEW m, NEW y
    PROVE  /\ Elem(Append(q, m), y) => Elem(q, y) \/ y = m
           /\ \A side, p : Final(Append(q, m), y, side, p)
                 => Decides(y, side, p) /\ (y = m \/ (Final(q, y, side, p) /\ ~Decides(m, side, p)))
<1> DEFINE n == Len(q)
<1> DEFINE r == Append(q, m)
<1>1. n \in Nat /\ Len(r) = n + 1 /\ r[n + 1] = m /\ \A i \in 1..n : r[i] = q[i]
  BY DEF IsSequence
<1> HIDE DEF n, r
<1>2. \A i \in 1..(n + 1) : i \in 1..n \/ i = n + 1
  BY <1>1
<1>3. Elem(r, y) => Elem(q, y) \/ y = m
  BY <1>1, <1>2 DEF Elem, n
<1>4. ASSUME NEW side, NEW p, Final(r, y, side, p)
      PROVE  Decides(y, side, p) /\ (y = m \/ (Final(q, y, side, p) /\ ~Decides(m, side, p)))
  <2>1. PICK i \in 1..(n + 1) : /\ r[i] = y /\ Decides(y, side, p)
                                /\ \A j \in (i + 1)..(n + 1) : ~Decides(r[j], side, p)
    BY <1>1, <1>4 DEF Final
  <2>2. CASE i \in 1..n
    <3>1. n + 1 \in (i + 1)..(n + 1) /\ \A j \in (i + 1)..n : j \in (i + 1)..(n + 1) /\ j \in 1..n
      BY <1>1, <2>2
    <3>2. ~Decides(m, side, p) /\ \A j \in (i + 1)..n : ~Decides(q[j], side, p)
      BY <1>1, <2>1, <3>1
    <3>3. q[i] = y
      BY <1>1, <2>1, <2>2
    <3> QED
      BY <2>1, <2>2, <3>2, <3>3 DEF Final, n
  <2> QED
    BY <1>1, <1>2, <2>1, <2>2
<1> QED
  BY <1>3, <1>4 DEF r

Rest(r, q) == \E d \in 0..Len(q) : Len(r) = Len(q) - d /\ \A i \in 1..Len(r) : r[i] = q[i + d]

LEMMA RestElem ==
    ASSUME NEW q, NEW r, IsSequence(q), Rest(r, q), NEW y
    PROVE  /\ Elem(r, y) => Elem(q, y)
           /\ \A side, p : Final(r, y, side, p) => Final(q, y, side, p)
<1> DEFINE n == Len(q)
<1>1. n \in Nat
  BY SequenceDomain
<1>2. PICK d \in 0..n : Len(r) = n - d /\ \A i \in 1..(n - d) : r[i] = q[i + d]
  BY Zenon DEF Rest
<1> HIDE DEF n
<1>3. \A i \in 1..(n - d) : i + d \in 1..n
  BY <1>1
<1>4. Elem(r, y) => Elem(q, y)
  BY <1>2, <1>3 DEF Elem, n
<1>5. ASSUME NEW side, NEW p, Final(r, y, side, p)
      PROVE  Final(q, y, side, p)
  <2>1. PICK i \in 1..(n - d) : /\ r[i] = y /\ Decides(y, side, p)
                                /\ \A j \in (i + 1)..(n - d) : ~Decides(r[j], side, p)
    BY <1>2, <1>5 DEF Final
  <2>2. ASSUME NEW j \in ((i + d) + 1)..n
        PROVE  ~Decides(q[j], side, p)
    <3>1. j - d \in (i + 1)..(n - d) /\ j - d \in 1..(n - d) /\ (j - d) + d = j
      BY <1>1, <2>1
    <3>2. r[j - d] = q[j]
      BY <1>2, <3>1
    <3> QED
      BY <2>1, <3>1, <3>2
  <2>3. i + d \in 1..n /\ q[i + d] = y
    BY <1>2, <1>3, <2>1
  <2> QED
    BY <2>1, <2>2, <2>3 DEF Final, n
<1> QED
  BY <1>4, <1>5

LEMMA QueueHead ==
    ASSUME NEW q, IsSequence(q), q # << >>
    PROVE  /\ Rest(Tail(q), q) /\ Elem(q, Head(q))
           /\ \A side, p : Decides(Head(q), side, p) /\ ~Coming(Tail(q), side, p)
                              => Final(q, Head(q), side, p)
<1> DEFINE n == Len(q)
<1> DEFINE r == Tail(q)
<1>1. /\ n \in Nat /\ n >= 1 /\ Head(q) = q[1]
      /\ Len(r) = n - 1 /\ \A i \in 1..(n - 1) : r[i] = q[i + 1]
  BY DEF IsSequence
<1> HIDE DEF n, r
<1>2. 1 \in 0..n /\ 1 \in 1..n
  BY <1>1
<1>3. Rest(r, q) /\ Elem(q, q[1])
  BY <1>1, <1>2 DEF Rest, Elem, n
<1>4. ASSUME NEW side, NEW p, Decides(q[1], side, p), ~Coming(r, side, p)
      PROVE  Final(q, q[1], side, p)
  <2>1. ASSUME NEW j \in (1 + 1)..n
        PROVE  ~Decides(q[j], side, p)
    <3>1. j - 1 \in 1..(n - 1) /\ (j - 1) + 1 = j
      BY <1>1
    <3>2. r[j - 1] = q[j]
      BY <1>1, <3>1
    <3> QED
      BY <1>1, <1>4, <3>1, <3>2 DEF Coming
  <2> QED
    BY <1>2, <1>4, <2>1 DEF Final, n
<1> QED
  BY <1>1, <1>3, <1>4 DEF r

LEMMA SameQueue ==
    ASSUME NEW q, IsSequence(q)
    PROVE  Rest(q, q) /\ Rest(<< >>, q)
<1>1. Len(q) \in Nat
  BY SequenceDomain
<1>2. /\ 0 \in 0..Len(q) /\ Len(q) = Len(q) - 0 /\ \A i \in 1..Len(q) : i = i + 0
      /\ Len(q) \in 0..Len(q) /\ Len(<< >>) = Len(q) - Len(q) /\ 1..Len(<< >>) = {}
  BY <1>1
<1> QED
  BY <1>2 DEF Rest

(* What a message with the next number does to the order of the messages.     *)
LEMMA SendOrders ==
    ASSUME BookInv, NEW m, Send(m), Tells(m, market.book, market'.book), m.n = market.sent,
           market'.sent = market.sent + 1, UNCHANGED <<seen, md, history>>
    PROVE  Numbered' /\ Agreed' /\ Behind' /\ Dismissible'
<1>1. /\ Sources' = Sources
      /\ \A s \in Sources : links'[s] = IF links[s].up
                                        THEN [links[s] EXCEPT !.queue = Append(@, m)] ELSE links[s]
  BY DEF Send, Sources
<1>2. LinksOk /\ Numbered /\ Agreed /\ Behind /\ Dismissible
  BY DEF BookInv
<1>3. ASSUME NEW s \in Sources, NEW y
      PROVE  /\ Elem(links'[s].queue, y) => OnWay(s, y) \/ y = m
             /\ \A side, p : Final(links'[s].queue, y, side, p)
                  => Decides(y, side, p) /\ (y = m \/ (LastOnWay(s, y, side, p) /\ ~Decides(m, side, p)))
  <2> DEFINE q == links[s].queue
  <2>1. DOMAIN links[s] = {"up", "queue"} /\ IsSequence(q) /\ (~links[s].up => q = << >>)
    BY <1>2 DEF LinksOk, QueueOk
  <2>2. CASE links[s].up
    <3>1. links'[s].queue = Append(q, m)
      BY <1>1, <2>1, <2>2
    <3>2. IsSequence(q)
      BY <2>1
    <3> HIDE DEF q
    <3>3. /\ Elem(Append(q, m), y) => Elem(q, y) \/ y = m
          /\ \A side, p : Final(Append(q, m), y, side, p)
               => Decides(y, side, p) /\ (y = m \/ (Final(q, y, side, p) /\ ~Decides(m, side, p)))
      BY <3>2, AppendElem
    <3>4. OnWay(s, y) = Elem(q, y) /\ \A side, p : LastOnWay(s, y, side, p) = Final(q, y, side, p)
      BY DEF OnWay, LastOnWay, q
    <3> QED
      BY <3>1, <3>3, <3>4
  <2>3. CASE ~links[s].up
    <3>1. links'[s].queue = << >>
      BY <1>1, <2>1, <2>3
    <3>2. Len(<< >>) = 0 /\ 1..0 = {}
      BY NoIntent
    <3> QED
      BY <3>1, <3>2 DEF Elem, Final
  <2> QED
    BY <2>2, <2>3
<1>4. \A s \in Sources : \A y : OnWay(s, y)' => OnWay(s, y) \/ y = m
  BY <1>3 DEF OnWay
<1>5. \A s \in Sources : \A y, side, p : LastOnWay(s, y, side, p)'
         => Decides(y, side, p) /\ (y = m \/ (LastOnWay(s, y, side, p) /\ ~Decides(m, side, p)))
  BY <1>3 DEF LastOnWay
<1>6. /\ market.sent \in Nat /\ market'.sent = market.sent + 1
      /\ \A s \in Sources : \A y : OnWay(s, y) => y.n \in Nat /\ y.n < market.sent
  BY <1>2 DEF Numbered
<1>7. Numbered'
  <2>1. \A s \in Sources : \A y : OnWay(s, y)' => y.n \in Nat /\ y.n < market'.sent
    BY <1>4, <1>6
  <2>2. \A s, r \in Sources : \A y, x : OnWay(s, y)' /\ OnWay(r, x)' /\ y.n = x.n => y = x
    <3> SUFFICES ASSUME NEW s \in Sources, NEW r \in Sources, NEW y, NEW x,
                        OnWay(s, y)', OnWay(r, x)', y.n = x.n
                 PROVE  y = x
      OBVIOUS
    <3>1. (OnWay(s, y) \/ y = m) /\ (OnWay(r, x) \/ x = m)
      BY <1>4
    <3> QED
      BY <1>2, <1>6, <3>1 DEF Numbered
  <2>3. \A key \in seen : key[1] \in Nat /\ key[1] < market.sent
    BY <1>2 DEF Numbered
  <2>4. \A key \in seen' : key[1] \in Nat /\ key[1] < market'.sent
    BY <1>2, <1>6, <2>3
  <2>5. market'.sent \in Nat /\ history'.newest \in Nat
    BY <1>2, <1>6 DEF Numbered
  <2> QED
    BY <1>1, <2>1, <2>2, <2>4, <2>5 DEF Numbered
<1>8. Agreed'
  <2> SUFFICES ASSUME NEW s \in Sources, NEW r \in Sources, NEW side \in Sides, NEW p \in Prices,
                      NEW y, NEW x, LastOnWay(s, y, side, p)', OnWay(r, x)', x.n >= y.n,
                      Decides(x, side, p)
               PROVE  Told(x, side, p) = market'.book[side][p]
    BY <1>1 DEF Agreed
  <2>1. CASE x = m
    BY <2>1 DEF Tells
  <2>2. CASE x # m
    <3>1. OnWay(r, x) /\ x.n \in Nat /\ x.n < market.sent
      BY <1>4, <1>6, <2>2
    <3>2. y # m
      BY <1>6, <3>1
    <3>3. LastOnWay(s, y, side, p) /\ ~Decides(m, side, p)
      BY <1>5, <3>2
    <3>4. Told(x, side, p) = market.book[side][p]
      BY <1>2, <3>1, <3>3 DEF Agreed
    <3> QED
      BY <3>3, <3>4 DEF Tells
  <2> QED
    BY <2>1, <2>2
<1>9. \A s \in Sources : MessageKey(m, s) \notin seen
  <2>1. \A s \in Sources : MessageKey(m, s)[1] = market.sent
    BY KeyNumber
  <2> QED
    BY <1>2, <1>6, <2>1 DEF Numbered
<1>10. Behind'
  <2> SUFFICES ASSUME NEW s \in Sources, NEW y, OnWay(s, y)', MessageKey(y, s) \in seen, IsBook(y)
               PROVE  y.n <= history.newest
    BY <1>1 DEF Behind
  <2>1. OnWay(s, y)
    BY <1>4, <1>9
  <2> QED
    BY <1>2, <2>1 DEF Behind
<1>11. Dismissible'
  <2> SUFFICES ASSUME ~history.regressed, NEW s \in Sources, NEW side \in Sides, NEW p \in Prices,
                      NEW y, LastOnWay(s, y, side, p)', MessageKey(y, s) \in seen
               PROVE  md.book[side][p] = market'.book[side][p]
    BY <1>1 DEF Dismissible, Right
  <2>1. LastOnWay(s, y, side, p) /\ ~Decides(m, side, p)
    BY <1>5, <1>9
  <2>2. Right(side, p)
    BY <1>2, <2>1 DEF Dismissible
  <2> QED
    BY <2>1, <2>2 DEF Right, Tells
<1> QED
  BY <1>7, <1>8, <1>10, <1>11
LEMMA SendPreserves ==
    ASSUME BookInv, NEW m, Send(m), Tells(m, market.book, market'.book), md' = md,
           history' = history
    PROVE  LinksOk' /\ Reached'
<1>1. /\ Sources' = Sources
      /\ \A s \in Sources : links'[s] = IF links[s].up
                                        THEN [links[s] EXCEPT !.queue = Append(@, m)] ELSE links[s]
  BY DEF Send, Sources
<1>2. LinksOk /\ Reached
  BY DEF BookInv
<1>3. ASSUME NEW s \in Sources
      PROVE  /\ DOMAIN links'[s] = {"up", "queue"} /\ (links'[s].up <=> links[s].up)
             /\ QueueOk(links'[s].queue, market'.book)
             /\ ~links[s].up => links'[s].queue = << >>
             /\ \A side \in Sides, p \in Prices :
                   Coming(links[s].queue, side, p) \/ (links[s].up /\ Decides(m, side, p))
                      => Coming(links'[s].queue, side, p)
  <2>1. DOMAIN links[s] = {"up", "queue"} /\ QueueOk(links[s].queue, market.book)
    BY <1>2 DEF LinksOk
  <2>2. CASE links[s].up
    <3> DEFINE q == links[s].queue
    <3>1. DOMAIN links'[s] = {"up", "queue"} /\ (links'[s].up <=> links[s].up) /\ links'[s].queue = Append(q, m)
      BY <1>1, <2>1, <2>2
    <3>2. QueueOk(q, market.book)
      BY <2>1
    <3> HIDE DEF q
    <3>3. /\ QueueOk(Append(q, m), market'.book)
          /\ \A side \in Sides, p \in Prices :
                Coming(q, side, p) \/ Decides(m, side, p) => Coming(Append(q, m), side, p)
      BY <3>2, QueueAppend
    <3> QED
      BY <2>2, <3>1, <3>3 DEF q
  <2>3. CASE ~links[s].up
    <3>1. links'[s] = links[s] /\ links[s].queue = << >>
      BY <1>1, <1>2, <2>3 DEF LinksOk
    <3>2. QueueOk(<< >>, market'.book)
      BY EmptyQueue
    <3> QED
      BY <2>1, <2>3, <3>1, <3>2
  <2> QED
    BY <2>2, <2>3
<1>4. LinksOk'
  BY <1>1, <1>3 DEF LinksOk
<1>5. Reached'
  <2> SUFFICES ASSUME ~history.lost, NEW s \in Sources, links[s].up,
                      NEW side \in Sides, NEW p \in Prices
               PROVE  Right(side, p)' \/ \E r \in Sources : Coming(links'[r].queue, side, p)
    BY <1>1, <1>3 DEF Reached
  <2>1. CASE Decides(m, side, p)
    BY <1>3, <2>1
  <2>2. CASE ~Decides(m, side, p)
    <3>1. market'.book[side][p] = market.book[side][p]
      BY <2>2 DEF Tells
    <3>2. Right(side, p) \/ \E r \in Sources : Coming(links[r].queue, side, p)
      BY <1>2 DEF Reached
    <3> QED
      BY <1>3, <3>1, <3>2 DEF Right
  <2> QED
    BY <2>1, <2>2
<1> QED
  BY <1>4, <1>5

LEMMA MovePreserves ==
    ASSUME BookInv, MoveBook
    PROVE  BookInv'
<1>1. PICK levels \in setup.changes :
         /\ BothSides(SetLevels(market.book, levels))
         /\ \E shared :
               /\ market' = [market EXCEPT !.book = SetLevels(market.book, levels),
                                           !.version = @ + 1, !.sent = @ + 1]
               /\ Send(Update(market.sent, levels, shared))
  BY Zenon DEF MoveBook
<1>2. UNCHANGED <<setup, seen, md, history>>
  BY DEF MoveBook
<1>3. levels \in Seq(BookUpdates)
  BY <1>1, SetupsAssumption DEF BookInv, SetupOk
<1> PICK shared :
       /\ market' = [market EXCEPT !.book = SetLevels(market.book, levels),
                                   !.version = @ + 1, !.sent = @ + 1]
       /\ Send(Update(market.sent, levels, shared))
  BY <1>1
<1> DEFINE m == Update(market.sent, levels, shared)
<1>4. /\ IsBookOf(SetLevels(market.book, levels), Sides)
      /\ Tells(m, market.book, SetLevels(market.book, levels))
  BY <1>3, UpdateTells DEF BookInv, IsMarketBook
<1>5. /\ market'.book = SetLevels(market.book, levels) /\ DOMAIN market' = DOMAIN market
      /\ market'.sent = market.sent + 1
  BY DEF BookInv
<1>6. Send(m) /\ Tells(m, market.book, market'.book) /\ m.n = market.sent
  BY <1>4, <1>5 DEF Update
<1> HIDE DEF m
<1>7. LinksOk' /\ Reached' /\ Numbered' /\ Agreed' /\ Behind' /\ Dismissible'
  BY <1>2, <1>5, <1>6, SendPreserves, SendOrders
<1> QED
  BY <1>1, <1>2, <1>4, <1>5, <1>7 DEF BookInv, IsMarketBook

LEMMA TradePreserves ==
    ASSUME BookInv, TradeAtVenue
    PROVE  BookInv'
<1>1. PICK t, shared : /\ market' = [market EXCEPT !.trades = Append(@, t), !.sent = @ + 1]
                       /\ Send(Trades(market.sent, <<t>>, shared))
  BY Zenon DEF TradeAtVenue
<1>2. UNCHANGED <<setup, seen, md, history>>
  BY DEF TradeAtVenue
<1> DEFINE m == Trades(market.sent, <<t>>, shared)
<1>3. m.kind = "trades" /\ Send(m) /\ m.n = market.sent
  BY <1>1 DEF Trades
<1>4. /\ market'.book = market.book /\ DOMAIN market' = DOMAIN market
      /\ market'.sent = market.sent + 1
  BY <1>1 DEF BookInv
<1> HIDE DEF m
<1>5. Tells(m, market.book, market'.book)
  BY <1>3, <1>4, TradesTellNothing
<1>6. LinksOk' /\ Reached' /\ Numbered' /\ Agreed' /\ Behind' /\ Dismissible'
  BY <1>2, <1>3, <1>4, <1>5, SendPreserves, SendOrders
<1> QED
  BY <1>2, <1>4, <1>6 DEF BookInv

(* One connection changes, and the market does not.                           *)
LinkChanged(s, up, q) ==
    /\ DOMAIN links' = DOMAIN links
    /\ DOMAIN links'[s] = {"up", "queue"} /\ (links'[s].up <=> up) /\ links'[s].queue = q
    /\ \A r \in Sources \ {s} : links'[r] = links[r]
    /\ setup' = setup /\ market'.book = market.book

LEMMA LinkPreserves ==
    ASSUME LinksOk, NEW s \in Sources, NEW up, NEW q, LinkChanged(s, up, q),
           QueueOk(q, market.book), ~up => q = << >>
    PROVE  LinksOk'
<1>1. Sources' = Sources
  BY DEF LinkChanged, Sources
<1> QED
  BY <1>1 DEF LinksOk, LinkChanged

LEMMA UpPreserves ==
    ASSUME BookInv, NEW s \in Sources, Up(s)
    PROVE  BookInv'
<1> DEFINE m == Snapshot(market.sent, LevelsOf(market.book))
<1> DEFINE t == Trades(market.sent + 1, market.trades, FALSE)
<1> DEFINE q == <<m>> \o (IF market.trades = << >> THEN << >> ELSE <<t>>)
<1>1. links' = [links EXCEPT ![s] = [up |-> TRUE, queue |-> q]]
  BY DEF Up
<1>2. UNCHANGED <<setup, seen, md, history>> /\ market' = [market EXCEPT !.sent = @ + 2]
  BY DEF Up
<1>3. t.kind = "trades" /\ t.n = market.sent + 1 /\ m.n = market.sent
  BY DEF Trades, Snapshot
<1>4. Tells(m, market.book, market.book) /\ \A side, p : Decides(m, side, p)
  BY SnapshotTells DEF BookInv
<1> HIDE DEF m, t
<1>5. /\ QueueOk(<<m>>, market.book)
      /\ \A side \in Sides, p \in Prices : Coming(<<m>>, side, p)
  <2>1. <<m>> = Append(<< >>, m)
    OBVIOUS
  <2>2. QueueOk(<< >>, market.book)
    BY EmptyQueue
  <2> QED
    BY <1>4, <2>1, <2>2, QueueAppend
<1>6. /\ QueueOk(Append(<<m>>, t), market.book)
      /\ \A side \in Sides, p \in Prices : Coming(Append(<<m>>, t), side, p)
  BY <1>3, <1>5, QueueAppend, TradesTellNothing
<1>7. q = <<m>> \/ q = Append(<<m>>, t)
  <2>1. <<m>> \o << >> = <<m>> /\ <<m>> \o <<t>> = Append(<<m>>, t)
    OBVIOUS
  <2> QED
    BY <2>1, Zenon
<1> HIDE DEF q
<1>8. /\ QueueOk(q, market.book)
      /\ \A side \in Sides, p \in Prices : Coming(q, side, p)
  BY <1>5, <1>6, <1>7
<1>9. /\ market'.book = market.book /\ market'.sent = market.sent + 2
      /\ DOMAIN market' = DOMAIN market
  BY <1>2 DEF BookInv
<1>10. LinkChanged(s, TRUE, q)
  BY <1>1, <1>2, <1>9 DEF LinkChanged, Sources
<1>11. LinksOk'
  BY <1>8, <1>10, LinkPreserves DEF BookInv
<1>12. Reached'
  BY <1>8, <1>10 DEF Reached, LinkChanged, Sources
<1>13. Numbered' /\ Agreed' /\ Behind' /\ Dismissible'
  <2>1. Numbered /\ Agreed /\ Behind /\ Dismissible
    BY DEF BookInv
  <2>2. /\ market.sent \in Nat
        /\ \A r \in Sources : \A y : OnWay(r, y) => y.n \in Nat /\ y.n < market.sent
    BY <2>1 DEF Numbered
  <2>3. Sources' = Sources /\ \A r \in Sources \ {s} : links'[r] = links[r]
    BY <1>10 DEF LinkChanged, Sources
  <2>4. ASSUME NEW y
        PROVE  /\ Elem(q, y) => y = m \/ y = t
               /\ \A side, p : Final(q, y, side, p) => y = m
    <3>1. \A i \in 1..Len(q) : q[i] = m \/ q[i] = t
      BY <1>7
    <3>2. \A side, p : ~Decides(t, side, p)
      BY <1>3 DEF Decides
    <3> QED
      BY <3>1, <3>2 DEF Elem, Final
  <2>5. \A r \in Sources : \A y : OnWay(r, y)' => OnWay(r, y) \/ (r = s /\ (y = m \/ y = t))
    BY <2>3, <2>4, <1>10 DEF OnWay, LinkChanged
  <2>6. \A r \in Sources : \A y, side, p :
           LastOnWay(r, y, side, p)' => LastOnWay(r, y, side, p) \/ y = m
    BY <2>3, <2>4, <1>10 DEF LastOnWay, LinkChanged
  <2>7. Numbered'
    <3>1. \A r \in Sources : \A y : OnWay(r, y)' => y.n \in Nat /\ y.n < market'.sent
      BY <1>3, <1>9, <2>2, <2>5
    <3>2. \A r, u \in Sources : \A y, x : OnWay(r, y)' /\ OnWay(u, x)' /\ y.n = x.n => y = x
      <4> SUFFICES ASSUME NEW r \in Sources, NEW u \in Sources, NEW y, NEW x,
                          OnWay(r, y)', OnWay(u, x)', y.n = x.n
                   PROVE  y = x
        OBVIOUS
      <4>1. (OnWay(r, y) \/ y = m \/ y = t) /\ (OnWay(u, x) \/ x = m \/ x = t)
        BY <2>5
      <4>2. CASE OnWay(r, y) /\ OnWay(u, x)
        BY <2>1, <4>2 DEF Numbered
      <4>3. CASE ~(OnWay(r, y) /\ OnWay(u, x))
        BY <1>3, <2>2, <4>1, <4>3
      <4> QED
        BY <4>2, <4>3
    <3>3. \A key \in seen : key[1] \in Nat /\ key[1] < market.sent
      BY <2>1 DEF Numbered
    <3>4. \A key \in seen' : key[1] \in Nat /\ key[1] < market'.sent
      BY <1>2, <1>9, <2>2, <3>3
    <3>5. market'.sent \in Nat /\ history'.newest \in Nat
      BY <1>2, <1>9, <2>1 DEF Numbered
    <3> QED
      BY <2>3, <3>1, <3>2, <3>4, <3>5 DEF Numbered
  <2>8. MessageKey(m, s) \notin seen /\ MessageKey(t, s) \notin seen
        /\ \A r \in Sources : MessageKey(m, r) \notin seen
    <3>1. MessageKey(t, s)[1] = market.sent + 1 /\ \A r \in Sources : MessageKey(m, r)[1] = market.sent
      BY <1>3, KeyNumber
    <3> QED
      BY <2>1, <2>2, <3>1 DEF Numbered
  <2>9. Agreed'
    <3> SUFFICES ASSUME NEW r \in Sources, NEW u \in Sources, NEW side \in Sides, NEW p \in Prices,
                        NEW y, NEW x, LastOnWay(r, y, side, p)', OnWay(u, x)', x.n >= y.n,
                        Decides(x, side, p)
                 PROVE  Told(x, side, p) = market.book[side][p]
      BY <1>9, <2>3 DEF Agreed
    <3>1. CASE x = m
      BY <1>4, <3>1 DEF Tells
    <3>2. CASE x # m
      <4>1. OnWay(u, x)
        BY <1>3, <2>5, <3>2 DEF Decides
      <4>2. LastOnWay(r, y, side, p)
        BY <1>3, <2>2, <2>6, <4>1
      <4> QED
        BY <2>1, <4>1, <4>2 DEF Agreed
    <3> QED
      BY <3>1, <3>2
  <2>10. Behind'
    BY <1>2, <2>1, <2>3, <2>5, <2>8 DEF Behind
  <2>11. Dismissible'
    BY <1>2, <1>9, <2>1, <2>3, <2>6, <2>8 DEF Dismissible, Right
  <2> QED
    BY <2>7, <2>9, <2>10, <2>11
<1> QED
  BY <1>2, <1>9, <1>11, <1>12, <1>13 DEF BookInv, IsMarketBook

(* Messages that leave their connection keep the order of the others.         *)
LEMMA ShrinkOrders ==
    ASSUME BookInv, Sources' = Sources, market' = market,
           \A s \in Sources : Rest(links'[s].queue, links[s].queue)
    PROVE  /\ \A s \in Sources : \A m : OnWay(s, m)' => OnWay(s, m)
           /\ \A s \in Sources : \A m, side, p : LastOnWay(s, m, side, p)' => LastOnWay(s, m, side, p)
           /\ Agreed'
           /\ history'.newest \in Nat /\ (\A key \in seen' : key[1] \in Nat /\ key[1] < market.sent)
                 => Numbered'
           /\ UNCHANGED <<seen, md>> /\ history'.newest = history.newest
                 /\ (~history'.regressed => ~history.regressed)
                 => Numbered' /\ Behind' /\ Dismissible'
<1>1. LinksOk /\ Numbered /\ Agreed /\ Behind /\ Dismissible
  BY DEF BookInv
<1>2. ASSUME NEW s \in Sources, NEW m
      PROVE  /\ OnWay(s, m)' => OnWay(s, m)
             /\ \A side, p : LastOnWay(s, m, side, p)' => LastOnWay(s, m, side, p)
  <2> DEFINE q == links[s].queue
  <2> DEFINE r == links'[s].queue
  <2>1. IsSequence(q) /\ Rest(r, q)
    BY <1>1 DEF LinksOk, QueueOk
  <2>2. /\ OnWay(s, m) = Elem(q, m) /\ OnWay(s, m)' = Elem(r, m)
        /\ \A side, p : /\ LastOnWay(s, m, side, p) = Final(q, m, side, p)
                        /\ LastOnWay(s, m, side, p)' = Final(r, m, side, p)
    BY DEF OnWay, LastOnWay
  <2> HIDE DEF q, r
  <2>3. /\ Elem(r, m) => Elem(q, m)
        /\ \A side, p : Final(r, m, side, p) => Final(q, m, side, p)
    BY <2>1, RestElem
  <2> QED
    BY <2>2, <2>3
<1>3. /\ \A s \in Sources : \A m : OnWay(s, m)' => OnWay(s, m)
      /\ \A s \in Sources : \A m, side, p : LastOnWay(s, m, side, p)' => LastOnWay(s, m, side, p)
  BY <1>2
<1>4. Agreed'
  BY <1>1, <1>3 DEF Agreed
<1>5. ASSUME history'.newest \in Nat, \A key \in seen' : key[1] \in Nat /\ key[1] < market.sent
      PROVE  Numbered'
  BY <1>1, <1>3, <1>5 DEF Numbered
<1>6. ASSUME UNCHANGED <<seen, md>>, history'.newest = history.newest,
             ~history'.regressed => ~history.regressed
      PROVE  Numbered' /\ Behind' /\ Dismissible'
  <2>1. Numbered'
    BY <1>1, <1>5, <1>6 DEF Numbered
  <2>2. Behind'
    BY <1>1, <1>3, <1>6 DEF Behind
  <2>3. Dismissible'
    BY <1>1, <1>3, <1>6 DEF Dismissible, Right
  <2> QED
    BY <2>1, <2>2, <2>3
<1> QED
  BY <1>3, <1>4, <1>5, <1>6

LEMMA DownPreserves ==
    ASSUME BookInv, NEW s \in Sources, Down(s)
    PROVE  BookInv'
<1>1. /\ links' = [links EXCEPT ![s] = [up |-> FALSE, queue |-> << >>]]
      /\ history' = [history EXCEPT !.drops = @ + 1,
                                    !.lost = @ \/ \E m \in ToSet(links[s].queue) : IsBook(m)]
      /\ UNCHANGED <<setup, market, seen, md>>
  BY DEF Down
<1>2. LinkChanged(s, FALSE, << >>)
  BY <1>1 DEF LinkChanged, Sources
<1>3. LinksOk /\ Reached /\ {"lost", "newest", "regressed"} \subseteq DOMAIN history
  BY DEF BookInv
<1>4. LinksOk'
  BY <1>2, <1>3, EmptyQueue, LinkPreserves
<1>5. /\ DOMAIN history' = DOMAIN history /\ history'.newest = history.newest
      /\ history'.regressed = history.regressed
      /\ ~history'.lost => ~history.lost /\ \A m \in ToSet(links[s].queue) : ~IsBook(m)
  BY <1>1, <1>3
<1>6. ASSUME ~history'.lost, NEW side \in Sides, NEW p \in Prices
      PROVE  ~Coming(links[s].queue, side, p)
  <2>1. IsSequence(links[s].queue)
    BY <1>3 DEF LinksOk, QueueOk
  <2>2. \A i \in 1..Len(links[s].queue) : links[s].queue[i] \in ToSet(links[s].queue)
    BY <2>1, SequenceDomain DEF ToSet
  <2> QED
    BY <1>5, <1>6, <2>2 DEF Coming, Decides, IsBook
<1>7. Reached'
  <2> SUFFICES ASSUME ~history'.lost, NEW r \in Sources, links'[r].up,
                      NEW side \in Sides, NEW p \in Prices
               PROVE  Right(side, p) \/ \E x \in Sources : Coming(links'[x].queue, side, p)
    BY <1>1, <1>2 DEF Reached, LinkChanged, Sources, Right
  <2>1. r # s /\ links[r].up
    BY <1>2 DEF LinkChanged
  <2>2. Right(side, p) \/ \E x \in Sources : Coming(links[x].queue, side, p)
    BY <1>3, <1>5, <2>1 DEF Reached
  <2> QED
    BY <1>2, <1>6, <2>2 DEF LinkChanged
<1>8. Numbered' /\ Agreed' /\ Behind' /\ Dismissible'
  <2>1. Sources' = Sources /\ \A r \in Sources : Rest(links'[r].queue, links[r].queue)
    BY <1>2, <1>3, SameQueue DEF LinkChanged, Sources, LinksOk, QueueOk
  <2> QED
    BY <1>1, <1>5, <2>1, ShrinkOrders
<1> QED
  BY <1>1, <1>3, <1>4, <1>5, <1>7, <1>8 DEF BookInv

LEMMA HeadGone ==
    ASSUME LinksOk, NEW s \in Sources, links[s].queue # << >>,
           LinkChanged(s, links[s].up, Tail(links[s].queue))
    PROVE  Sources' = Sources /\ \A r \in Sources : Rest(links'[r].queue, links[r].queue)
<1>1. \A r \in Sources : IsSequence(links[r].queue)
  BY DEF LinksOk, QueueOk
<1>2. Rest(Tail(links[s].queue), links[s].queue)
  BY <1>1, QueueHead
<1>3. \A r \in Sources : Rest(links[r].queue, links[r].queue)
  BY <1>1, SameQueue
<1> QED
  BY <1>2, <1>3 DEF LinkChanged, Sources

LEMMA LosePreserves ==
    ASSUME BookInv, NEW s \in Sources, Lose(s)
    PROVE  BookInv'
<1> DEFINE q == links[s].queue
<1>1. /\ links' = [links EXCEPT ![s].queue = Tail(@)] /\ q # << >>
      /\ history' = [history EXCEPT !.losses = @ + 1, !.lost = @ \/ IsBook(Head(q))]
      /\ UNCHANGED <<setup, market, seen, md>>
  BY DEF Lose
<1>2. /\ LinksOk /\ Reached /\ {"lost", "newest", "regressed"} \subseteq DOMAIN history
      /\ DOMAIN links[s] = {"up", "queue"}
  BY DEF BookInv, LinksOk
<1>3. LinkChanged(s, links[s].up, Tail(q))
  BY <1>1, <1>2 DEF LinkChanged, Sources
<1>4. QueueOk(q, market.book) /\ links[s].up
  BY <1>1, <1>2 DEF LinksOk
<1>5. /\ DOMAIN history' = DOMAIN history /\ history'.newest = history.newest
      /\ history'.regressed = history.regressed
      /\ ~history'.lost => ~history.lost /\ ~IsBook(Head(q))
  BY <1>1, <1>2
<1> HIDE DEF q
<1>6. /\ QueueOk(Tail(q), market.book)
      /\ \A side \in Sides, p \in Prices :
            Coming(q, side, p) => Decides(Head(q), side, p) \/ Coming(Tail(q), side, p)
  BY <1>1, <1>4, QueueTail
<1>7. LinksOk'
  BY <1>2, <1>3, <1>4, <1>6, LinkPreserves
<1>8. Reached'
  <2> SUFFICES ASSUME ~history'.lost, NEW side \in Sides, NEW p \in Prices
               PROVE  Right(side, p) \/ \E x \in Sources : Coming(links'[x].queue, side, p)
    BY <1>1, <1>3 DEF Reached, LinkChanged, Sources, Right
  <2>1. ~Decides(Head(q), side, p)
    BY <1>5 DEF Decides, IsBook
  <2>2. Right(side, p) \/ \E x \in Sources : Coming(links[x].queue, side, p)
    BY <1>2, <1>4, <1>5 DEF Reached
  <2> QED
    BY <1>3, <1>6, <2>1, <2>2 DEF LinkChanged, q
<1>9. Numbered' /\ Agreed' /\ Behind' /\ Dismissible'
  <2>1. Sources' = Sources /\ \A r \in Sources : Rest(links'[r].queue, links[r].queue)
    BY <1>1, <1>2, <1>3, HeadGone DEF q
  <2> QED
    BY <1>1, <1>5, <2>1, ShrinkOrders
<1> QED
  BY <1>1, <1>2, <1>5, <1>7, <1>8, <1>9 DEF BookInv

LEMMA AcceptPreserves ==
    ASSUME BookInv, NEW s \in Sources, Accept(s)
    PROVE  BookInv'
<1> DEFINE q == links[s].queue
<1> DEFINE m == Head(q)
<1>1. /\ links' = [links EXCEPT ![s].queue = Tail(@)] /\ q # << >>
      /\ md' = ApplyData(md, m, clock.now, clock.seq)
      /\ seen' = seen \cup {MessageKey(m, s)}
      /\ history' = IF ~IsBook(m) THEN history
                    ELSE [history EXCEPT !.newest = NewerOf(m),
                            !.lost = @ /\ m.kind # "snapshot",
                            !.regressed = m.n < history.newest \/ (@ /\ m.kind # "snapshot")]
      /\ UNCHANGED <<setup, market>>
  BY DEF Accept
<1>2. /\ LinksOk /\ Reached /\ IsData(md) /\ {"lost", "newest", "regressed"} \subseteq DOMAIN history
      /\ DOMAIN links[s] = {"up", "queue"}
  BY DEF BookInv, LinksOk
<1>3. LinkChanged(s, links[s].up, Tail(q))
  BY <1>1, <1>2 DEF LinkChanged, Sources
<1>4. QueueOk(q, market.book) /\ links[s].up
  BY <1>1, <1>2 DEF LinksOk
<1>5. /\ DOMAIN history' = DOMAIN history
      /\ ~history'.lost => ~history.lost \/ m.kind = "snapshot"
      /\ IF IsBook(m)
         THEN /\ history'.newest = NewerOf(m)
              /\ ~history'.regressed => /\ ~(m.n < history.newest)
                                        /\ m.kind = "snapshot" \/ ~history.regressed
         ELSE history'.newest = history.newest /\ history'.regressed = history.regressed
  BY <1>1, <1>2
<1> HIDE DEF q
<1>10. Elem(q, m) /\ Rest(Tail(q), q) /\ IsSequence(q)
  BY <1>1, <1>4, QueueHead DEF QueueOk
<1>6. /\ QueueOk(Tail(q), market.book) /\ IsMessage(m)
      /\ \A side \in Sides, p \in Prices :
            /\ Coming(q, side, p) => Decides(m, side, p) \/ Coming(Tail(q), side, p)
            /\ Decides(m, side, p) /\ ~Coming(Tail(q), side, p)
                  => Told(m, side, p) = market.book[side][p]
  BY <1>1, <1>4, QueueTail
<1> HIDE DEF m
<1>7. /\ IsData(md')
      /\ \A side \in Sides, p \in Prices :
            md'.book[side][p] = IF Decides(m, side, p) THEN Told(m, side, p) ELSE md.book[side][p]
  BY <1>1, <1>2, <1>6, DataApplied
<1>8. LinksOk'
  BY <1>2, <1>3, <1>4, <1>6, LinkPreserves
<1>9. Reached'
  <2> SUFFICES ASSUME ~history'.lost, NEW side \in Sides, NEW p \in Prices
               PROVE  Right(side, p)' \/ \E x \in Sources : Coming(links'[x].queue, side, p)
    BY <1>3 DEF Reached, LinkChanged, Sources
  <2>1. links'[s].queue = Tail(q) /\ market' = market
    BY <1>1, <1>3 DEF LinkChanged
  <2>2. CASE Decides(m, side, p)
    BY <1>6, <1>7, <2>1, <2>2 DEF Right
  <2>3. CASE ~Decides(m, side, p)
    <3>1. ~history.lost
      BY <1>5, <2>3 DEF Decides
    <3>2. Right(side, p) \/ \E x \in Sources : Coming(links[x].queue, side, p)
      BY <1>2, <1>4, <3>1 DEF Reached
    <3>3. CASE Right(side, p)
      BY <1>7, <2>1, <2>3, <3>3 DEF Right
    <3>4. CASE \E x \in Sources : Coming(links[x].queue, side, p)
      BY <1>3, <1>6, <2>3, <3>4 DEF LinkChanged, q
    <3> QED
      BY <3>2, <3>3, <3>4
  <2> QED
    BY <2>2, <2>3
<1>11. /\ Sources' = Sources /\ OnWay(s, m)
       /\ \A r \in Sources : \A y : OnWay(r, y)' => OnWay(r, y)
       /\ \A r \in Sources : \A y, side, p : LastOnWay(r, y, side, p)' => LastOnWay(r, y, side, p)
       /\ Agreed'
       /\ history'.newest \in Nat /\ (\A key \in seen' : key[1] \in Nat /\ key[1] < market.sent)
             => Numbered'
  <2>1. Sources' = Sources /\ \A r \in Sources : Rest(links'[r].queue, links[r].queue)
    BY <1>1, <1>2, <1>3, HeadGone DEF q
  <2>2. OnWay(s, m)
    BY <1>10 DEF OnWay, q
  <2> QED
    BY <1>1, <2>1, <2>2, ShrinkOrders
<1>12. /\ Numbered /\ Behind /\ Dismissible /\ Agreed /\ m.n \in Nat /\ m.n < market.sent
       /\ market.sent \in Nat /\ history.newest \in Nat
  BY <1>11 DEF BookInv, Numbered
<1>13. /\ history'.newest \in Nat /\ history'.newest >= history.newest
       /\ IsBook(m) => m.n <= history'.newest
       /\ IsBook(m) /\ ~history'.regressed => history.newest <= m.n
  BY <1>5, <1>12 DEF NewerOf
<1>14. Numbered'
  <2>1. \A key \in seen : key[1] \in Nat /\ key[1] < market.sent
    BY <1>12 DEF Numbered
  <2>2. MessageKey(m, s)[1] = m.n
    BY KeyNumber
  <2>3. \A key \in seen' : key[1] \in Nat /\ key[1] < market.sent
    BY <1>1, <1>12, <2>1, <2>2
  <2> QED
    BY <1>11, <1>13, <2>3
<1>15. \A r \in Sources : \A y : OnWay(r, y) /\ MessageKey(y, r) \in seen'
                                => MessageKey(y, r) \in seen \/ y = m
  <2> SUFFICES ASSUME NEW r \in Sources, NEW y, OnWay(r, y), MessageKey(y, r) = MessageKey(m, s)
               PROVE  y = m
    BY <1>1
  <2>1. y.n = m.n
    <3>1. MessageKey(y, r)[1] = y.n /\ MessageKey(m, s)[1] = m.n
      BY KeyNumber
    <3> QED
      BY <3>1
  <2> QED
    BY <1>11, <1>12, <2>1 DEF Numbered
<1>16. Behind'
  <2> SUFFICES ASSUME NEW r \in Sources, NEW y, OnWay(r, y)', MessageKey(y, r) \in seen', IsBook(y)
               PROVE  y.n <= history'.newest
    BY <1>11 DEF Behind
  <2>1. OnWay(r, y) /\ y.n \in Nat
    BY <1>11, <1>12 DEF Numbered
  <2>2. CASE y = m
    BY <1>13, <2>2
  <2>3. CASE MessageKey(y, r) \in seen
    <3>1. y.n <= history.newest
      BY <1>12, <2>1, <2>3 DEF Behind
    <3> QED
      BY <1>12, <1>13, <2>1, <3>1
  <2> QED
    BY <1>15, <2>1, <2>2, <2>3
<1>17. Dismissible'
  <2> SUFFICES ASSUME ~history'.regressed, NEW r \in Sources, NEW side \in Sides, NEW p \in Prices,
                      NEW y, LastOnWay(r, y, side, p)', MessageKey(y, r) \in seen'
               PROVE  md'.book[side][p] = market.book[side][p]
    BY <1>1, <1>11 DEF Dismissible, Right
  <2>1. LastOnWay(r, y, side, p) /\ OnWay(r, y) /\ Decides(y, side, p) /\ IsBook(y)
    <3>1. LastOnWay(r, y, side, p)
      BY <1>11
    <3> QED
      BY <3>1 DEF LastOnWay, Final, OnWay, Elem, Decides, IsBook
  <2>2. MessageKey(y, r) \in seen \/ y = m
    BY <1>15, <2>1
  <2>3. y.n \in Nat
    BY <1>12, <2>1 DEF Numbered
  <2>4. CASE Decides(m, side, p)
    <3>1. IsBook(m)
      BY <2>4 DEF Decides, IsBook
    <3>2. m.n >= y.n
      <4>1. CASE y = m
        BY <1>12, <4>1
      <4>2. CASE MessageKey(y, r) \in seen
        <5>1. y.n <= history.newest /\ history.newest <= m.n
          BY <1>12, <1>13, <2>1, <3>1, <4>2 DEF Behind
        <5> QED
          BY <1>12, <2>3, <5>1
      <4> QED
        BY <2>2, <4>1, <4>2
    <3>3. Told(m, side, p) = market.book[side][p]
      BY <1>11, <1>12, <2>1, <2>4, <3>2 DEF Agreed
    <3> QED
      BY <1>7, <2>4, <3>3
  <2>5. CASE ~Decides(m, side, p)
    <3>1. m.kind # "snapshot" /\ y # m
      BY <2>1, <2>5 DEF Decides
    <3>2. ~history.regressed /\ MessageKey(y, r) \in seen
      BY <1>5, <2>2, <3>1
    <3>3. Right(side, p)
      BY <1>12, <2>1, <3>2 DEF Dismissible
    <3> QED
      BY <1>7, <2>5, <3>3 DEF Right
  <2> QED
    BY <2>4, <2>5
<1> QED
  BY <1>1, <1>2, <1>5, <1>7, <1>8, <1>9, <1>11, <1>14, <1>16, <1>17 DEF BookInv

(* A copy that is dismissed: either the book has what it tells already, or    *)
(* the step counts as a loss.                                                 *)
LEMMA DismissPreserves ==
    ASSUME BookInv, NEW s \in Sources, Dismiss(s)
    PROVE  BookInv'
<1> DEFINE q == links[s].queue
<1> DEFINE m == Head(q)
<1>1. /\ links' = [links EXCEPT ![s].queue = Tail(@)] /\ q # << >>
      /\ MessageKey(m, s) \in seen
      /\ history' = [history EXCEPT !.lost = @ \/ (history.regressed /\ BookLacks(m))]
      /\ UNCHANGED <<setup, market, seen, md>>
  BY DEF Dismiss
<1>2. /\ LinksOk /\ Reached /\ {"lost", "newest", "regressed"} \subseteq DOMAIN history
      /\ DOMAIN links[s] = {"up", "queue"} /\ IsData(md) /\ Dismissible
  BY DEF BookInv, LinksOk
<1>3. LinkChanged(s, links[s].up, Tail(q))
  BY <1>1, <1>2 DEF LinkChanged, Sources
<1>4. QueueOk(q, market.book) /\ links[s].up
  BY <1>1, <1>2 DEF LinksOk
<1>5. /\ DOMAIN history' = DOMAIN history /\ history'.newest = history.newest
      /\ history'.regressed = history.regressed
      /\ ~history'.lost => ~history.lost /\ (~history.regressed \/ ~BookLacks(m))
  BY <1>1, <1>2
<1>6. Numbered' /\ Agreed' /\ Behind' /\ Dismissible'
  <2>1. Sources' = Sources /\ \A r \in Sources : Rest(links'[r].queue, links[r].queue)
    BY <1>1, <1>2, <1>3, HeadGone
  <2> QED
    BY <1>1, <1>5, <2>1, ShrinkOrders
<1> HIDE DEF q
<1>7. /\ QueueOk(Tail(q), market.book) /\ IsMessage(m)
      /\ \A side \in Sides, p \in Prices :
            /\ Coming(q, side, p) => Decides(m, side, p) \/ Coming(Tail(q), side, p)
            /\ Decides(m, side, p) /\ ~Coming(Tail(q), side, p)
                  => Told(m, side, p) = market.book[side][p]
  BY <1>1, <1>4, QueueTail
<1>8. \A side, p : Decides(m, side, p) /\ ~Coming(Tail(q), side, p) => Final(q, m, side, p)
  BY <1>1, <1>4, QueueHead DEF QueueOk
<1> HIDE DEF m
<1>9. \A side \in Sides, p \in Prices : Decides(m, side, p) /\ ~BookLacks(m)
         => md.book[side][p] = Told(m, side, p)
  <2> DEFINE b == ApplyData(md, m, clock.now, clock.seq).book
  <2>1. \A side \in Sides, p \in Prices : Decides(m, side, p) => b[side][p] = Told(m, side, p)
    BY <1>2, <1>7, DataApplied
  <2>2. ~BookLacks(m) => b.bid = md.book.bid /\ b.ask = md.book.ask
    BY DEF BookLacks
  <2> HIDE DEF b
  <2> QED
    BY <2>1, <2>2 DEF Sides
<1>10. LinksOk'
  BY <1>2, <1>3, <1>4, <1>7, LinkPreserves
<1>11. Reached'
  <2> SUFFICES ASSUME ~history'.lost, NEW side \in Sides, NEW p \in Prices
               PROVE  Right(side, p) \/ \E x \in Sources : Coming(links'[x].queue, side, p)
    BY <1>1, <1>3 DEF Reached, LinkChanged, Sources, Right
  <2>1. links'[s].queue = Tail(q)
    BY <1>3 DEF LinkChanged
  <2>2. CASE Coming(Tail(q), side, p)
    BY <2>1, <2>2
  <2>3. CASE Decides(m, side, p) /\ ~Coming(Tail(q), side, p)
    <3>1. CASE ~history.regressed
      <4>1. LastOnWay(s, m, side, p)
        BY <1>8, <2>3 DEF LastOnWay, q
      <4> QED
        BY <1>1, <1>2, <3>1, <4>1 DEF Dismissible
    <3>2. CASE ~BookLacks(m)
      BY <1>7, <1>9, <2>3, <3>2 DEF Right
    <3> QED
      BY <1>5, <3>1, <3>2
  <2>4. CASE ~Decides(m, side, p) /\ ~Coming(Tail(q), side, p)
    <3>1. Right(side, p) \/ \E x \in Sources : Coming(links[x].queue, side, p)
      BY <1>2, <1>4, <1>5 DEF Reached
    <3> QED
      BY <1>3, <1>7, <2>4, <3>1 DEF LinkChanged, q
  <2> QED
    BY <2>2, <2>3, <2>4
<1> QED
  BY <1>1, <1>2, <1>5, <1>6, <1>10, <1>11 DEF BookInv

(* The steps that leave the market, the connections and the book alone.       *)
LEMMA OthersPreserve ==
    ASSUME BookInv, UNCHANGED <<setup, market, links, seen, md>>,
           {"lost", "newest", "regressed"} \subseteq DOMAIN history', history'.lost = history.lost,
           history'.newest = history.newest, history'.regressed = history.regressed
    PROVE  BookInv'
<1>1. LinksOk' /\ Reached'
  BY DEF BookInv, LinksOk, Reached, Right, Sources
<1>2. Numbered' /\ Agreed' /\ Behind' /\ Dismissible'
  <2>1. Sources' = Sources /\ \A s \in Sources : Rest(links'[s].queue, links[s].queue)
    BY SameQueue DEF BookInv, LinksOk, QueueOk, Sources
  <2> QED
    BY <2>1, ShrinkOrders
<1> QED
  BY <1>1, <1>2 DEF BookInv

LEMMA OtherSteps ==
    ASSUME BookInv,
           \/ Tick \/ StageQuotes \/ PlacePair \/ PlaceSlice \/ ReleaseStaged
           \/ VenueOrders \/ Deliver \/ UNCHANGED vars
    PROVE  BookInv'
<1>1. {"lost", "newest", "regressed"} \subseteq DOMAIN history
  BY DEF BookInv
<1>2. ASSUME NEW intents, Run(intents)
      PROVE  BookInv'
  <2>1. PICK r : history' = [history EXCEPT !.blind = @ \/ \E side \in r.staged : Unsure(side)]
    BY <1>2, Zenon DEF Run
  <2>2. UNCHANGED <<setup, market, links, seen, md>>
    BY <1>2 DEF Run
  <2>3. /\ DOMAIN history' = DOMAIN history /\ history'.lost = history.lost
        /\ history'.newest = history.newest /\ history'.regressed = history.regressed
    BY <1>1, <2>1
  <2> QED
    BY <1>1, <2>2, <2>3, OthersPreserve
<1>3. CASE Tick \/ Deliver \/ UNCHANGED vars
  <2>1. UNCHANGED <<setup, market, links, seen, md, history>>
    BY <1>3, Zenon DEF Tick, Deliver, vars
  <2> QED
    BY <1>1, <2>1, OthersPreserve
<1>4. CASE VenueOrders
  <2>1. PICK id, from, to, status : OrderStep(id, from, to, status)
    BY <1>4 DEF VenueOrders
  <2>2. UNCHANGED <<setup, market, links, seen, md>> /\ history' = [history EXCEPT !.fates = @ + 1]
    BY <2>1 DEF OrderStep
  <2> QED
    BY <1>1, <2>2, OthersPreserve
<1> QED
  BY <1>2, <1>3, <1>4 DEF StageQuotes, PlacePair, PlaceSlice, ReleaseStaged

(* The invariant of the replicated book holds in every reachable state.       *)
THEOREM BookInvariant == Spec => []BookInv
<1>1. Init => BookInv
  <2> SUFFICES ASSUME Init PROVE BookInv
    OBVIOUS
  <2>1. /\ setup \in Setups
        /\ market = [book |-> setup.book, version |-> 1, trades |-> << >>, sent |-> 1]
        /\ links = [s \in setup.sources |-> [up |-> FALSE, queue |-> << >>]]
        /\ seen = {} /\ md = EmptyData
        /\ {"lost", "newest", "regressed"} \subseteq DOMAIN history /\ history.newest = 0
    BY DEF Init
  <2>2. SetupOk(setup)
    BY <2>1, SetupsAssumption
  <2>3. IsMarketBook(market.book)
    BY <2>1, <2>2 DEF SetupOk, IsMarketBook, IsBookOf, Sides
  <2>4. IsData(md)
    BY <2>1, EmptyBook DEF EmptyData, IsData
  <2>5. LinksOk /\ Reached
    BY <2>1, EmptyQueue DEF LinksOk, Reached, Sources
  <2>6. \A s \in Sources : \A m, side, p : ~OnWay(s, m) /\ ~LastOnWay(s, m, side, p)
    <3>1. \A s \in Sources : links[s].queue = << >>
      BY <2>1 DEF Sources
    <3>2. Len(<< >>) = 0 /\ 1..0 = {}
      BY NoIntent
    <3> QED
      BY <3>1, <3>2 DEF OnWay, LastOnWay, Elem, Final
  <2>7. Agreed /\ Behind /\ Dismissible
    BY <2>6 DEF Agreed, Behind, Dismissible
  <2>8. Numbered
    <3>1. market.sent = 1 /\ history.newest = 0 /\ seen = {}
      BY <2>1
    <3> QED
      BY <2>6, <3>1 DEF Numbered
  <2> QED
    BY <2>1, <2>3, <2>4, <2>5, <2>7, <2>8 DEF BookInv
<1>2. BookInv /\ [Next]_vars => BookInv'
  <2> SUFFICES ASSUME BookInv, [Next]_vars PROVE BookInv'
    OBVIOUS
  <2>1. CASE MoveBook \/ TradeAtVenue
    BY <2>1, MovePreserves, TradePreserves
  <2>2. ASSUME NEW s \in Sources, Up(s) \/ Down(s) \/ Lose(s) \/ Accept(s) \/ Dismiss(s)
        PROVE  BookInv'
    BY <2>2, UpPreserves, DownPreserves, LosePreserves, AcceptPreserves, DismissPreserves
  <2> QED
    BY <2>1, <2>2, OtherSteps DEF Next
<1> QED
  BY <1>1, <1>2, PTL DEF Spec

(* Whatever the interleaving of the connections, the messages that come       *)
(* twice or late, and the connections that end and start again: when every    *)
(* connection has delivered what it was sent and a lost message was made up   *)
(* for by a snapshot, the projected order book is the venue's.                *)
THEOREM BookIsTrue == Spec => []BookTrue
<1>1. BookInv => BookTrue
  <2> SUFFICES ASSUME BookInv, \E s \in Sources : links[s].up,
                      \A s \in Sources : links[s].queue = << >>, ~history.lost
               PROVE  md.book.bid = market.book.bid /\ md.book.ask = market.book.ask
    BY DEF BookTrue
  <2>1. \A side \in Sides, p \in Prices : md.book[side][p] = market.book[side][p]
    BY EmptyQueue DEF BookInv, Reached, Right
  <2>2. /\ md.book["bid"] \in [Prices -> Nat] /\ md.book["ask"] \in [Prices -> Nat]
        /\ market.book["bid"] \in [Prices -> Nat] /\ market.book["ask"] \in [Prices -> Nat]
    BY DEF BookInv, IsData, IsMarketBook, IsBookOf
  <2>3. md.book["bid"] = market.book["bid"] /\ md.book["ask"] = market.book["ask"]
    <3>1. \A f, g \in [Prices -> Nat] : (\A p \in Prices : f[p] = g[p]) => f = g
      OBVIOUS
    <3>2. "bid" \in Sides /\ "ask" \in Sides
      BY DEF Sides
    <3> QED
      BY <2>1, <2>2, <3>1, <3>2
  <2> QED
    BY <2>3
<1> QED
  BY <1>1, BookInvariant, PTL
=============================================================================
