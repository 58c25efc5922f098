------------------------ MODULE LiveOperationProofs -------------------------
(* Theorems about LiveOperation, for any configurations, commands, schedules, *)
(* faults and outages: a live run begins only on evidence and review, and     *)
(* ledger health complains of no unpaired record that nothing explains.       *)
EXTENDS LiveOperation, FiniteSetTheorems, WellFoundedInduction, TLAPS

IsLog(l) == l \in Seq({l[i] : i \in DOMAIN l})

(* What the gate has found holds of the ledger as each check read it: of all  *)
(* of them, ...                                                               *)
Reading == {"health", "review", "preflight", "simulation"}
Simulated(l, config, n) ==
    config.strategy => \E i \in Of(SubSeq(l, 1, n), "simulation") :
        l[i].config = config /\ l[i].status = "ok"
Admissible(l, config, read) ==
    /\ DOMAIN read = Reading /\ \A k \in Reading : read[k] \in 0..Len(l)
    /\ config.live => /\ ReviewedAt(l, read.health, read.review)
                      /\ Evidence(SubSeq(l, 1, read.preflight), config)
                      /\ Simulated(l, config, read.simulation)

(* ... and, on the way, of those made so far.                                 *)
GateSteps == {"gate_health", "gate_review", "gate_preflight", "gate_simulation"}
Gate == GateSteps \cup {"admitted"}
Gating(l, x) ==
    /\ DOMAIN x.read = Reading /\ \A k \in Reading : x.read[k] \in 0..Len(l)
    /\ x.pc = "gate_review" => x.saw = AttentionChecks(SubSeq(l, 1, x.read.health))
    /\ x.pc \in {"gate_preflight", "gate_simulation"} /\ x.fit
         => ReviewedAt(l, x.read.health, x.read.review)
    /\ x.pc = "gate_simulation" /\ x.fit => Evidence(SubSeq(l, 1, x.read.preflight), x.config)

(* How far the evidence goes: to the products, the feed smoke, ...            *)
FeedSmoked(l, config, p, f, j) ==
    /\ p \in Of(l, "products") /\ f \in Of(l, "started") /\ j \in Of(l, "stopped")
    /\ l[f].component = "feed" /\ l[f].config = config /\ l[j].component = "feed"
    /\ p < f /\ f < j /\ \A e \in Of(l, "error") : ~(f < e /\ e < j)

(* ... at each step of the operator's command.                                *)
Progress(l, o) ==
    /\ o.pc = "reviewed" => /\ o.saw.through \in 0..Len(l)
                            /\ o.saw.digest = AttentionChecks(SubSeq(l, 1, o.saw.through))
    /\ o.pc = "catalog" /\ o.aggregate => Len(o.statuses) = 1
    /\ o.pc = "feed" /\ o.aggregate =>
         /\ Len(o.statuses) = 2
         /\ \E p \in Of(l, "products") : o.start # 0 =>
               /\ p < o.start /\ o.start \in Of(l, "started")
               /\ l[o.start].component = "feed" /\ l[o.start].config = o.config
    /\ o.pc = "exchange" /\ o.aggregate =>
         /\ Len(o.statuses) = 3
         /\ \E p, f, j \in DOMAIN l :
               /\ FeedSmoked(l, o.config, p, f, j)
               /\ o.start # 0 => /\ j < o.start /\ o.start \in Of(l, "started")
                                 /\ l[o.start].component = "exchange" /\ l[o.start].config = o.config
    /\ o.pc = "record" => Len(o.statuses) \in 1..4 /\ (Len(o.statuses) = 4 /\ o.statuses[4] = "ok" => Evidence(l, o.config))

Records == IsLog(log) /\ \A i \in DOMAIN log : Earned(log, i)
Basics == {"pc", "config", "read", "fit", "saw"}
Shapes == /\ Basics \subseteq DOMAIN rt
          /\ DOMAIN op = {"pc", "config", "aggregate", "statuses", "start", "failed", "saw", "result"}
          /\ op.statuses \in Seq({"ok", "attention"})
LiveInv ==
    /\ Records /\ Shapes
    /\ rt.pc = "admitted" => Admissible(log, rt.config, rt.read)
    /\ rt.pc \in GateSteps => Gating(log, rt)
    /\ \A a \in admitted : Admissible(log, a.config, a.read)
    /\ Progress(log, op)

-----------------------------------------------------------------------------
(* A ledger that goes on from another.                                        *)
Prefix(l, m) == /\ IsLog(l) /\ IsLog(m) /\ Len(l) <= Len(m)
                /\ \A i \in 1..Len(l) : m[i] = l[i]

(* The domain of a ledger.                                                    *)
LEMMA LogFacts ==
    ASSUME NEW l, IsLog(l)
    PROVE  Len(l) \in Nat /\ DOMAIN l = 1..Len(l)
<1> DEFINE S == {l[i] : i \in DOMAIN l}
<1>1. l \in Seq(S)
  BY DEF IsLog
<1> HIDE DEF S
<1> QED
  BY <1>1

(* A sequence is a ledger of its own elements.                                *)
LEMMA IsLogBy ==
    ASSUME NEW S, NEW l \in Seq(S)
    PROVE  IsLog(l)
<1> DEFINE T == {l[i] : i \in DOMAIN l}
<1>1. Len(l) \in Nat /\ l \in [1..Len(l) -> S]
  OBVIOUS
<1>2. l \in [1..Len(l) -> T]
  BY <1>1
<1> HIDE DEF T
<1>3. l \in Seq(T)
  BY <1>1, <1>2
<1> QED
  BY <1>3 DEF IsLog, T

(* A ledger with one more record.                                             *)
LEMMA AppendedLog ==
    ASSUME NEW l, IsLog(l), NEW r
    PROVE  /\ Prefix(l, Append(l, r)) /\ Len(Append(l, r)) = Len(l) + 1
           /\ Append(l, r)[Len(l) + 1] = r
<1> DEFINE S == {l[i] : i \in DOMAIN l}
           T == S \cup {r}
           m == Append(l, r)
<1>1. l \in Seq(S)
  BY DEF IsLog
<1> HIDE DEF S
<1>2. Len(l) \in Nat /\ l \in [1..Len(l) -> T] /\ r \in T
  BY <1>1
<1> HIDE DEF T
<1>3. l \in Seq(T)
  BY <1>2
<1>4. m \in Seq(T) /\ Len(m) = Len(l) + 1 /\ m[Len(l) + 1] = r /\ \A i \in 1..Len(l) : m[i] = l[i]
  BY <1>2, <1>3
<1>5. IsLog(m)
  BY <1>4, IsLogBy
<1> QED
  BY <1>2, <1>4, <1>5 DEF Prefix

(* What was there at an earlier time.                                         *)
LEMMA SubLog ==
    ASSUME NEW l, IsLog(l), NEW n \in 0..Len(l)
    PROVE  /\ Prefix(SubSeq(l, 1, n), l) /\ Len(SubSeq(l, 1, n)) = n
<1> DEFINE S == {l[i] : i \in DOMAIN l}
           m == SubSeq(l, 1, n)
<1>1. l \in Seq(S)
  BY DEF IsLog
<1> HIDE DEF S
<1>2. Len(l) \in Nat
  BY <1>1
<1>3. m \in Seq(S) /\ Len(m) = n /\ \A i \in 1..n : m[i] = l[i]
  BY <1>1, <1>2
<1>4. IsLog(m)
  BY <1>3, IsLogBy
<1> QED
  BY <1>2, <1>3, <1>4 DEF Prefix

(* What was read of the ledger is still there.                                *)
LEMMA SubKept ==
    ASSUME NEW l, NEW m, Prefix(l, m), NEW n \in 0..Len(l)
    PROVE  SubSeq(m, 1, n) = SubSeq(l, 1, n) /\ n \in 0..Len(m)
<1>1. Len(l) \in Nat /\ Len(m) \in Nat /\ Len(l) <= Len(m) /\ \A i \in 1..Len(l) : m[i] = l[i]
  BY LogFacts DEF Prefix
<1>2. n \in 0..Len(m)
  BY <1>1
<1> DEFINE a == SubSeq(l, 1, n)
           b == SubSeq(m, 1, n)
<1>3. /\ IsLog(a) /\ Len(a) = n /\ \A i \in 1..n : a[i] = l[i]
      /\ IsLog(b) /\ Len(b) = n /\ \A i \in 1..n : b[i] = m[i]
  BY <1>2, SubLog DEF Prefix
<1> HIDE DEF a, b
<1>4. DOMAIN a = 1..n /\ DOMAIN b = 1..n
  BY <1>3, LogFacts
<1>5. \A i \in 1..n : a[i] = b[i]
  BY <1>1, <1>3
<1>6. a = [i \in DOMAIN a |-> a[i]] /\ b = [i \in DOMAIN b |-> b[i]]
  <2> DEFINE S == {a[i] : i \in DOMAIN a}
             T == {b[i] : i \in DOMAIN b}
  <2>1. a \in Seq(S) /\ b \in Seq(T)
    BY <1>3 DEF IsLog
  <2> HIDE DEF S, T
  <2> QED
    BY <2>1
<1>7. a = b
  BY <1>4, <1>5, <1>6
<1> QED
  BY <1>2, <1>7 DEF a, b

(* Records of a type stay where they are.                                     *)
LEMMA OfKept ==
    ASSUME NEW l, NEW m, Prefix(l, m), NEW t
    PROVE  /\ \A i \in Of(l, t) : i \in Of(m, t) /\ m[i] = l[i] /\ i \in 1..Len(l)
           /\ \A i \in Of(m, t) : i <= Len(l) => i \in Of(l, t)
           /\ \A i \in Of(m, t) : i \in Nat
<1>1. /\ Len(l) \in Nat /\ Len(m) \in Nat /\ DOMAIN l = 1..Len(l) /\ DOMAIN m = 1..Len(m)
      /\ Len(l) <= Len(m) /\ \A i \in 1..Len(l) : m[i] = l[i]
  BY LogFacts DEF Prefix
<1> QED
  BY <1>1 DEF Of

-----------------------------------------------------------------------------
(* Evidence, and what is on the way to it, is not lost.                       *)
LEMMA SmokedKept ==
    ASSUME NEW l, NEW m, Prefix(l, m), NEW c, NEW p, NEW f, NEW j, FeedSmoked(l, c, p, f, j)
    PROVE  FeedSmoked(m, c, p, f, j)
<1>1. /\ p \in Of(m, "products") /\ f \in Of(m, "started") /\ j \in Of(m, "stopped")
      /\ m[f] = l[f] /\ m[j] = l[j] /\ j \in 1..Len(l)
  BY OfKept DEF FeedSmoked
<1>2. ASSUME NEW e \in Of(m, "error"), f < e, e < j PROVE FALSE
  <2>1. e \in Nat /\ Len(l) \in Nat
    BY OfKept, LogFacts DEF Prefix
  <2>2. e <= Len(l)
    BY <1>1, <1>2, <2>1
  <2>3. e \in Of(l, "error")
    BY <2>2, OfKept
  <2> QED
    BY <1>2, <2>3 DEF FeedSmoked
<1> QED
  BY <1>1, <1>2 DEF FeedSmoked

(* Evidence, with the feed smoke in one piece.                                *)
LEMMA EvidenceBy ==
    ASSUME NEW l, NEW c
    PROVE  Evidence(l, c) <=>
             \E p, f, j, x, y \in DOMAIN l :
                /\ FeedSmoked(l, c, p, f, j) /\ x \in Of(l, "started") /\ y \in Of(l, "stopped")
                /\ l[x].component = "exchange" /\ l[x].config = c /\ l[y].component = "exchange"
                /\ j < x /\ y > x
<1>1. ASSUME Evidence(l, c)
      PROVE  \E p, f, j, x, y \in DOMAIN l :
                /\ FeedSmoked(l, c, p, f, j) /\ x \in Of(l, "started") /\ y \in Of(l, "stopped")
                /\ l[x].component = "exchange" /\ l[x].config = c /\ l[y].component = "exchange"
                /\ j < x /\ y > x
  <2>1. PICK p \in Of(l, "products"),
             f \in {i \in Of(l, "started") : l[i].component = "feed" /\ l[i].config = c},
             x \in {i \in Of(l, "started") : l[i].component = "exchange" /\ l[i].config = c} :
           /\ p < f
           /\ \E j \in {j \in Of(l, "stopped") : j > f /\ l[j].component = "feed"} :
                j < x /\ ~\E e \in Of(l, "error") : f < e /\ e < j
           /\ {j \in Of(l, "stopped") : j > x /\ l[j].component = "exchange"} # {}
    BY <1>1 DEF Evidence
  <2>2. PICK j \in Of(l, "stopped") : /\ j > f /\ l[j].component = "feed" /\ j < x
                                      /\ ~\E e \in Of(l, "error") : f < e /\ e < j
    BY <2>1
  <2>3. PICK y \in Of(l, "stopped") : y > x /\ l[y].component = "exchange"
    BY <2>1
  <2>4. FeedSmoked(l, c, p, f, j)
    BY <2>1, <2>2 DEF FeedSmoked
  <2>5. p \in DOMAIN l /\ f \in DOMAIN l /\ j \in DOMAIN l /\ x \in DOMAIN l /\ y \in DOMAIN l
    BY DEF Of
  <2> QED
    BY <2>1, <2>2, <2>3, <2>4, <2>5
<1>2. ASSUME NEW p \in DOMAIN l, NEW f \in DOMAIN l, NEW j \in DOMAIN l, NEW x \in DOMAIN l, NEW y \in DOMAIN l,
             FeedSmoked(l, c, p, f, j), x \in Of(l, "started"), y \in Of(l, "stopped"),
             l[x].component = "exchange", l[x].config = c, l[y].component = "exchange", j < x, y > x
      PROVE  Evidence(l, c)
  BY <1>2 DEF Evidence, FeedSmoked
<1> QED
  BY <1>1, <1>2

(* Evidence stays.                                                            *)
LEMMA EvidenceKept ==
    ASSUME NEW l, NEW m, Prefix(l, m), NEW c, Evidence(l, c)
    PROVE  Evidence(m, c)
<1>1. PICK p, f, j, x, y \in DOMAIN l :
         /\ FeedSmoked(l, c, p, f, j) /\ x \in Of(l, "started") /\ y \in Of(l, "stopped")
         /\ l[x].component = "exchange" /\ l[x].config = c /\ l[y].component = "exchange"
         /\ j < x /\ y > x
  BY EvidenceBy
<1>2. FeedSmoked(m, c, p, f, j)
  BY <1>1, SmokedKept
<1>3. /\ x \in Of(m, "started") /\ y \in Of(m, "stopped") /\ m[x] = l[x] /\ m[y] = l[y]
  BY <1>1, OfKept
<1>4. p \in DOMAIN m /\ f \in DOMAIN m /\ j \in DOMAIN m /\ x \in DOMAIN m /\ y \in DOMAIN m
  BY <1>2, <1>3 DEF FeedSmoked, Of
<1> QED
  BY <1>1, <1>2, <1>3, <1>4, EvidenceBy

(* What the gate found stays true of what it read.                            *)
LEMMA ReviewKept ==
    ASSUME NEW l, NEW m, Prefix(l, m), NEW h \in 0..Len(l), NEW n \in 0..Len(l), ReviewedAt(l, h, n),
           \A i \in DOMAIN l : Earned(l, i)
    PROVE  ReviewedAt(m, h, n)
<1>1. /\ SubSeq(m, 1, h) = SubSeq(l, 1, h)
      /\ SubSeq(m, 1, n) = SubSeq(l, 1, n)
  BY SubKept
<1>2. Len(l) \in Nat /\ DOMAIN l = 1..Len(l)
  BY LogFacts DEF Prefix
<1>3. CASE Status(SubSeq(l, 1, h)) = "ok"
  BY <1>1, <1>3 DEF ReviewedAt
<1>4. CASE Status(SubSeq(l, 1, h)) # "ok"
  <2>1. PICK i \in Of(SubSeq(l, 1, n), "acknowledged") :
          /\ l[i].digest = AttentionChecks(SubSeq(l, 1, h))
          /\ l[i].digest = AttentionChecks(SubSeq(l, 1, l[i].through))
          /\ \A j \in 1..n : l[j].type = "acknowledged" \/ j <= l[i].through
    BY <1>4 DEF ReviewedAt
  <2>2. i \in 1..n /\ l[i].type = "acknowledged"
    BY <1>2, SubLog DEF Of, Prefix
  <2>3. \A j \in 1..n : m[j] = l[j]
    BY <1>2 DEF Prefix
  <2>4. i \in DOMAIN l
    BY <1>2, <2>2
  <2>5. l[i].through \in 0..(i - 1)
    BY <2>2, <2>4 DEF Earned
  <2>6. l[i].through \in 0..Len(l)
    BY <1>2, <2>2, <2>5
  <2> DEFINE t == l[i].through
  <2>7. SubSeq(m, 1, t) = SubSeq(l, 1, t)
    BY <2>6, SubKept
  <2> HIDE DEF t
  <2>8. m[i] = l[i]
    BY <2>2, <2>3
  <2>9. SubSeq(m, 1, m[i].through) = SubSeq(l, 1, l[i].through)
    BY <2>7, <2>8 DEF t
  <2>10. /\ m[i].digest = AttentionChecks(SubSeq(m, 1, h))
         /\ m[i].digest = AttentionChecks(SubSeq(m, 1, m[i].through))
    BY <1>1, <2>1, <2>8, <2>9
  <2>11. \A j \in 1..n : m[j].type = "acknowledged" \/ j <= m[i].through
    BY <2>1, <2>3, <2>8
  <2>12. i \in Of(SubSeq(m, 1, n), "acknowledged")
    BY <1>1, <2>1
  <2> QED
    BY <2>10, <2>11, <2>12 DEF ReviewedAt
<1> QED
  BY <1>3, <1>4

LEMMA SimulatedKept ==
    ASSUME NEW l, NEW m, Prefix(l, m), NEW c, NEW n \in 0..Len(l), Simulated(l, c, n)
    PROVE  Simulated(m, c, n)
<1>1. SubSeq(m, 1, n) = SubSeq(l, 1, n)
  BY SubKept
<1>2. \A i \in Of(SubSeq(l, 1, n), "simulation") : m[i] = l[i]
  <2> TAKE i \in Of(SubSeq(l, 1, n), "simulation")
  <2>1. i \in 1..n
    BY SubLog DEF Of, Prefix
  <2> QED
    BY <2>1, LogFacts DEF Prefix
<1> QED
  BY <1>1, <1>2 DEF Simulated

LEMMA AdmissibleKept ==
    ASSUME NEW l, NEW m, Prefix(l, m), NEW c, NEW d, Admissible(l, c, d),
           \A i \in DOMAIN l : Earned(l, i)
    PROVE  Admissible(m, c, d)
<1>1. DOMAIN d = Reading /\ \A k \in Reading : d[k] \in 0..Len(l)
  BY DEF Admissible
<1>2. d.health \in 0..Len(l) /\ d.review \in 0..Len(l) /\ d.preflight \in 0..Len(l) /\ d.simulation \in 0..Len(l)
  BY <1>1 DEF Reading
<1>3. \A k \in Reading : d[k] \in 0..Len(m)
  BY <1>1, LogFacts DEF Prefix
<1>4. ASSUME c.live
      PROVE  ReviewedAt(m, d.health, d.review) /\ Simulated(m, c, d.simulation)
  BY <1>2, <1>4, ReviewKept, SimulatedKept DEF Admissible
<1>5. SubSeq(m, 1, d.preflight) = SubSeq(l, 1, d.preflight)
  BY <1>2, SubKept
<1> QED
  BY <1>1, <1>3, <1>4, <1>5 DEF Admissible

LEMMA GatingKept ==
    ASSUME NEW l, NEW m, Prefix(l, m), NEW x, Gating(l, x), \A i \in DOMAIN l : Earned(l, i)
    PROVE  Gating(m, x)
<1> DEFINE d == x.read
<1>1. DOMAIN d = Reading /\ \A k \in Reading : d[k] \in 0..Len(l)
  BY DEF Gating
<1>2. d.health \in 0..Len(l) /\ d.review \in 0..Len(l) /\ d.preflight \in 0..Len(l)
  BY <1>1 DEF Reading
<1>3. \A k \in Reading : d[k] \in 0..Len(m)
  BY <1>1, LogFacts DEF Prefix
<1>4. /\ SubSeq(m, 1, d.health) = SubSeq(l, 1, d.health)
      /\ SubSeq(m, 1, d.preflight) = SubSeq(l, 1, d.preflight)
  BY <1>2, SubKept
<1>5. ReviewedAt(l, d.health, d.review) => ReviewedAt(m, d.health, d.review)
  BY <1>2, ReviewKept
<1> QED
  BY <1>1, <1>3, <1>4, <1>5 DEF Gating

(* A record that was earned stays so.                                         *)
LEMMA EarnedKept ==
    ASSUME NEW l, NEW m, Prefix(l, m), NEW i \in DOMAIN l, Earned(l, i)
    PROVE  Earned(m, i)
<1>1. Len(l) \in Nat /\ i \in 1..Len(l) /\ m[i] = l[i]
  BY LogFacts DEF Prefix
<1>2. i - 1 \in 0..Len(l)
  BY <1>1
<1>3. SubSeq(m, 1, i - 1) = SubSeq(l, 1, i - 1)
  BY <1>2, SubKept
<1> DEFINE r == l[i]
           n == r.through
<1>4. r.type = "acknowledged" => n \in 0..i - 1 /\ r.digest = AttentionChecks(SubSeq(l, 1, n))
  BY DEF Earned
<1>5. n \in 0..i - 1 => n \in 0..Len(l)
  BY <1>1
<1>6. n \in 0..i - 1 => SubSeq(m, 1, n) = SubSeq(l, 1, n)
  BY <1>5, SubKept
<1>7. r.type = "preflight" /\ ~PreflightIssues(r, r.config) => Evidence(SubSeq(m, 1, i - 1), r.config)
  BY <1>3 DEF Earned
<1>8. m[i] = r
  BY <1>1
<1> HIDE DEF r, n
<1>9. r.type = "acknowledged" => n \in 0..i - 1 /\ r.digest = AttentionChecks(SubSeq(m, 1, n))
  BY <1>4, <1>6
<1> QED
  BY <1>7, <1>8, <1>9 DEF Earned, n

(* What a command builds on is not lost when others append.                   *)
LEMMA ProgressKept ==
    ASSUME NEW l, NEW m, Prefix(l, m), NEW o, Progress(l, o)
    PROVE  Progress(m, o)
<1> DEFINE n == o.saw.through
           c == o.config
           s == o.start
           d == o.saw.digest
<1>1. ASSUME o.pc = "reviewed"
      PROVE  n \in 0..Len(m) /\ d = AttentionChecks(SubSeq(m, 1, n))
  <2>1. n \in 0..Len(l) /\ d = AttentionChecks(SubSeq(l, 1, n))
    BY <1>1 DEF Progress
  <2> HIDE DEF n, d
  <2>2. SubSeq(m, 1, n) = SubSeq(l, 1, n) /\ n \in 0..Len(m)
    BY <2>1, SubKept
  <2> QED
    BY <2>1, <2>2
<1>2. o.pc = "catalog" /\ o.aggregate => Len(o.statuses) = 1
  BY DEF Progress
<1>3. ASSUME o.pc = "feed", o.aggregate
      PROVE  /\ Len(o.statuses) = 2
             /\ \E p \in Of(m, "products") : s # 0 =>
                   p < s /\ s \in Of(m, "started") /\ m[s].component = "feed" /\ m[s].config = c
  <2>1. PICK p \in Of(l, "products") : s # 0 =>
           p < s /\ s \in Of(l, "started") /\ l[s].component = "feed" /\ l[s].config = c
    BY <1>3 DEF Progress
  <2>2. Len(o.statuses) = 2
    BY <1>3 DEF Progress
  <2> HIDE DEF s, c
  <2>3. p \in Of(m, "products")
    BY OfKept
  <2>4. s # 0 => s \in Of(m, "started") /\ m[s] = l[s]
    BY <2>1, OfKept
  <2> QED
    BY <2>1, <2>2, <2>3, <2>4
<1>4. ASSUME o.pc = "exchange", o.aggregate
      PROVE  /\ Len(o.statuses) = 3
             /\ \E p, f, j \in DOMAIN m :
                   /\ FeedSmoked(m, c, p, f, j)
                   /\ s # 0 => /\ j < s /\ s \in Of(m, "started")
                               /\ m[s].component = "exchange" /\ m[s].config = c
  <2>1. PICK p \in DOMAIN l, f \in DOMAIN l, j \in DOMAIN l :
           /\ FeedSmoked(l, c, p, f, j)
           /\ s # 0 => /\ j < s /\ s \in Of(l, "started")
                       /\ l[s].component = "exchange" /\ l[s].config = c
    BY <1>4 DEF Progress
  <2>2. Len(o.statuses) = 3
    BY <1>4 DEF Progress
  <2> HIDE DEF s, c
  <2>3. FeedSmoked(m, c, p, f, j)
    BY <2>1, SmokedKept
  <2>4. p \in DOMAIN m /\ f \in DOMAIN m /\ j \in DOMAIN m
    BY <2>3 DEF FeedSmoked, Of
  <2>5. s # 0 => s \in Of(m, "started") /\ m[s] = l[s]
    BY <2>1, OfKept
  <2> QED
    BY <2>1, <2>2, <2>3, <2>4, <2>5
<1>5. o.pc = "record" => /\ Len(o.statuses) \in 1..4
                         /\ (Len(o.statuses) = 4 /\ o.statuses[4] = "ok" => Evidence(m, o.config))
  BY EvidenceKept DEF Progress
<1> QED
  BY <1>1, <1>2, <1>3, <1>4, <1>5 DEF Progress

-----------------------------------------------------------------------------
(* An emission appends a record or not.                                       *)
Emitted(r) == log' = log \/ log' = Append(log, r)

(* A ledger stays earned if its new record is.                                *)
LEMMA EmittedKept ==
    ASSUME Records, NEW r, Emitted(r),
           log' # log => Earned(log', Len(log) + 1)
    PROVE  Records' /\ Prefix(log, log')
<1>1. IsLog(log) /\ \A i \in DOMAIN log : Earned(log, i)
  BY DEF Records
<1>2. Len(log) \in Nat /\ DOMAIN log = 1..Len(log)
  BY <1>1, LogFacts
<1>3. CASE log' = log
  BY <1>1, <1>2, <1>3 DEF Prefix, Records
<1>4. CASE log' # log /\ log' = Append(log, r)
  <2>1. Prefix(log, log') /\ Len(log') = Len(log) + 1
    BY <1>1, <1>4, AppendedLog
  <2>2. IsLog(log') /\ DOMAIN log' = 1..Len(log) + 1
    BY <2>1, LogFacts DEF Prefix
  <2>3. ASSUME NEW i \in DOMAIN log' PROVE Earned(log', i)
    <3>1. CASE i \in DOMAIN log
      BY <1>1, <2>1, <3>1, EarnedKept
    <3>2. i \in DOMAIN log \/ i = Len(log) + 1
      BY <1>2, <2>2
    <3> QED
      BY <1>4, <3>1, <3>2
  <2> QED
    BY <2>1, <2>2, <2>3 DEF Records
<1> QED
  BY <1>3, <1>4 DEF Emitted

(* Records that are neither a preflight's nor an acknowledgement claim        *)
(* nothing.                                                                   *)
LEMMA PlainEarned ==
    ASSUME Records, NEW r, Emitted(r), r.type \notin {"preflight", "acknowledged"}
    PROVE  Records' /\ Prefix(log, log')
<1>1. ASSUME log' # log PROVE Earned(log', Len(log) + 1)
  <2>1. log'[Len(log) + 1] = r
    BY <1>1, AppendedLog DEF Emitted, Records
  <2> QED
    BY <2>1 DEF Earned
<1> QED
  BY <1>1, EmittedKept

(* A step that does not admit a run.                                          *)
LEMMA LiveKept ==
    ASSUME LiveInv, Records', Prefix(log, log'), admitted' = admitted,
           Basics \subseteq DOMAIN rt', rt'.pc \in Gate => rt' = rt,
           DOMAIN op' = DOMAIN op, op'.statuses \in Seq({"ok", "attention"}),
           op' = op \/ Progress(log', op')
    PROVE  LiveInv'
<1>1. Progress(log', op')
  BY ProgressKept DEF LiveInv
<1>2. \A i \in DOMAIN log : Earned(log, i)
  BY DEF LiveInv, Records
<1>3. rt'.pc = "admitted" => Admissible(log', rt'.config, rt'.read)
  BY <1>2, AdmissibleKept DEF LiveInv, Gate
<1>4. rt'.pc \in GateSteps => Gating(log', rt')
  BY <1>2, GatingKept DEF LiveInv, Gate
<1>5. \A a \in admitted : Admissible(log', a.config, a.read)
  BY <1>2, AdmissibleKept DEF LiveInv
<1>6. Shapes'
  BY DEF LiveInv, Shapes
<1> QED
  BY <1>1, <1>3, <1>4, <1>5, <1>6 DEF LiveInv

(* One of the runtime.                                                        *)
LEMMA RuntimeKept ==
    ASSUME LiveInv, NEW r, Emitted(r), r.type \notin {"preflight", "acknowledged"},
           admitted' = admitted, op' = op, Basics \subseteq DOMAIN rt',
           rt'.pc \in Gate => rt' = rt
    PROVE  LiveInv'
<1>1. Records' /\ Prefix(log, log')
  BY PlainEarned DEF LiveInv
<1> QED
  BY <1>1, LiveKept DEF LiveInv, Shapes

-----------------------------------------------------------------------------
(* The gate.                                                                  *)
LEMMA WholeLog ==
    ASSUME NEW l, IsLog(l)
    PROVE  SubSeq(l, 1, Len(l)) = l
<1> DEFINE S == {l[i] : i \in DOMAIN l}
<1>1. l \in Seq(S)
  BY DEF IsLog
<1> HIDE DEF S
<1> DEFINE a == SubSeq(l, 1, Len(l))
<1>2. Len(l) \in Nat /\ l \in [1..Len(l) -> S]
  BY <1>1
<1>3. a \in Seq(S) /\ Len(a) = Len(l) /\ \A i \in 1..Len(l) : a[i] = l[i]
  BY <1>1, <1>2
<1> HIDE DEF a
<1>4. a \in [1..Len(l) -> S]
  BY <1>3
<1>5. a = l
  BY <1>2, <1>3, <1>4
<1> QED
  BY <1>5 DEF a

(* The start: nothing is read yet.                                            *)
LEMMA StartKept ==
    ASSUME LiveInv, NEW c, RtStart(c)
    PROVE  LiveInv'
<1>1. log' = log /\ op' = op /\ admitted' = admitted
  BY DEF RtStart
<1>2. /\ Basics \subseteq DOMAIN rt' /\ rt'.config = c.config /\ rt'.read = NoRead
      /\ rt'.pc \in {"gate_health", "admitted"} /\ (rt'.pc = "admitted" => ~c.config.live)
  BY DEF RtStart, RtOff, Basics
<1>3. IsLog(log) /\ Len(log) \in Nat
  BY LogFacts DEF LiveInv, Records
<1>4. DOMAIN NoRead = Reading /\ \A k \in Reading : NoRead[k] \in 0..Len(log)
  BY <1>3 DEF NoRead, Reading
<1>5. rt'.pc = "admitted" => Admissible(log', rt'.config, rt'.read)
  BY <1>1, <1>2, <1>4 DEF Admissible
<1>6. rt'.pc \in GateSteps => Gating(log', rt')
  BY <1>1, <1>2, <1>4 DEF Gating
<1>7. Records' /\ Shapes' /\ Progress(log', op')
  BY <1>1, <1>2 DEF LiveInv, Records, Shapes
<1>8. \A a \in admitted' : Admissible(log', a.config, a.read)
  BY <1>1 DEF LiveInv
<1> QED
  BY <1>1, <1>5, <1>6, <1>7, <1>8 DEF LiveInv

(* What is common to the four reads.                                          *)
LEMMA ReadKept ==
    ASSUME LiveInv, log' = log, op' = op, admitted' = admitted, Basics \subseteq DOMAIN rt',
           rt'.pc = "admitted" => Admissible(log, rt'.config, rt'.read),
           rt'.pc \in GateSteps => Gating(log, rt')
    PROVE  LiveInv'
<1>1. Records' /\ Shapes' /\ Progress(log', op')
  BY DEF LiveInv, Records, Shapes
<1>2. \A a \in admitted' : Admissible(log', a.config, a.read)
  BY DEF LiveInv
<1> QED
  BY <1>1, <1>2 DEF LiveInv

LEMMA LogNow ==
    ASSUME LiveInv
    PROVE  /\ IsLog(log) /\ Len(log) \in Nat /\ DOMAIN log = 1..Len(log)
           /\ SubSeq(log, 1, Len(log)) = log /\ \A i \in DOMAIN log : Earned(log, i)
  BY LogFacts, WholeLog DEF LiveInv, Records

(* The health check.                                                          *)
LEMMA GateHealthKept ==
    ASSUME LiveInv, RtGateHealth
    PROVE  LiveInv'
<1> DEFINE d == [rt.read EXCEPT !.health = Len(log)]
<1>1. Gating(log, rt) /\ Basics \subseteq DOMAIN rt
  BY DEF LiveInv, RtGateHealth, GateSteps, Shapes
<1>2. /\ Basics \subseteq DOMAIN rt' /\ rt'.pc = "gate_review" /\ rt'.read = d
      /\ rt'.saw = AttentionChecks(log)
  BY <1>1 DEF RtGateHealth, Basics
<1>3. DOMAIN d = Reading /\ (\A k \in Reading : d[k] \in 0..Len(log)) /\ d.health = Len(log)
  BY <1>1, LogNow DEF Gating, Reading
<1> HIDE DEF d
<1>4. Gating(log, rt')
  BY <1>2, <1>3, LogNow DEF Gating
<1> QED
  BY <1>2, <1>4, ReadKept DEF RtGateHealth

(* What stands as reviewed was shown.                                         *)
LEMMA ReviewFound ==
    ASSUME LiveInv, NEW h \in 0..Len(log), rt.saw = AttentionChecks(SubSeq(log, 1, h)), HealthGate
    PROVE  ReviewedAt(log, h, Len(log))
<1>1. CASE rt.saw = {}
  BY <1>1 DEF ReviewedAt, Status
<1>2. CASE \E i \in Of(log, "acknowledged") : AcknowledgementValidAt(i)
  <2>1. PICK i \in Of(log, "acknowledged") : AcknowledgementValidAt(i)
    BY <1>2
  <2>2. log[i].type = "acknowledged" /\ i \in DOMAIN log
    BY DEF Of
  <2> DEFINE n == log[i].through
  <2>3. log[i].digest = AttentionChecks(SubSeq(log, 1, n))
    BY <2>2, LogNow DEF Earned
  <2>4. /\ n \in 1..Len(log) /\ log[i].digest = rt.saw
        /\ \A j \in (n + 1)..Len(log) : log[j].type = "acknowledged"
    BY <2>1, LogNow DEF AcknowledgementValidAt
  <2> HIDE DEF n
  <2>5. \A j \in 1..Len(log) : log[j].type = "acknowledged" \/ j <= n
    BY <2>4, LogNow
  <2>6. i \in Of(SubSeq(log, 1, Len(log)), "acknowledged")
    BY LogNow
  <2> QED
    BY <2>3, <2>4, <2>5, <2>6 DEF ReviewedAt, n
<1> QED
  BY <1>1, <1>2 DEF HealthGate

LEMMA GateReviewKept ==
    ASSUME LiveInv, RtGateReview
    PROVE  LiveInv'
<1> DEFINE d == [rt.read EXCEPT !.review = Len(log)]
<1>1. Gating(log, rt) /\ Basics \subseteq DOMAIN rt /\ rt.pc = "gate_review"
  BY DEF LiveInv, RtGateReview, GateSteps, Shapes
<1>2. /\ Basics \subseteq DOMAIN rt' /\ rt'.pc = "gate_preflight" /\ rt'.read = d
      /\ rt'.fit = (rt.fit /\ HealthGate)
  BY <1>1 DEF RtGateReview, Basics
<1>3. /\ DOMAIN d = Reading /\ (\A k \in Reading : d[k] \in 0..Len(log))
      /\ d.review = Len(log) /\ d.health = rt.read.health
  BY <1>1, LogNow DEF Gating, Reading
<1> HIDE DEF d
<1>4. ASSUME rt'.fit PROVE ReviewedAt(log, d.health, d.review)
  <2>1. HealthGate
    BY <1>2, <1>4
  <2>2. d.health \in 0..Len(log) /\ rt.saw = AttentionChecks(SubSeq(log, 1, d.health))
    BY <1>1, <1>3 DEF Gating, Reading
  <2> QED
    BY <1>3, <2>1, <2>2, ReviewFound
<1>5. Gating(log, rt')
  BY <1>2, <1>3, <1>4 DEF Gating
<1> QED
  BY <1>2, <1>5, ReadKept DEF RtGateReview

(* The preflight check: what is accepted was earned.                          *)
LEMMA PreflightFound ==
    ASSUME LiveInv, NEW config, PreflightGate(config)
    PROVE  Evidence(log, config)
<1>1. PICK i \in Of(log, "preflight") : ~PreflightIssues(log[i], config)
  BY DEF PreflightGate
<1>2. log[i].type = "preflight" /\ log[i].config = config /\ i \in DOMAIN log
  BY <1>1 DEF PreflightIssues, Of
<1>3. Evidence(SubSeq(log, 1, i - 1), config)
  BY <1>1, <1>2, LogNow DEF Earned
<1> DEFINE n == i - 1
<1>4. n \in 0..Len(log)
  BY <1>2, LogNow
<1>5. Evidence(SubSeq(log, 1, n), config)
  BY <1>3
<1> HIDE DEF n
<1>6. Prefix(SubSeq(log, 1, n), log)
  BY <1>4, SubLog, LogNow
<1> QED
  BY <1>5, <1>6, EvidenceKept

LEMMA GatePreflightKept ==
    ASSUME LiveInv, RtGatePreflight
    PROVE  LiveInv'
<1> DEFINE d == [rt.read EXCEPT !.preflight = Len(log)]
<1>1. Gating(log, rt) /\ Basics \subseteq DOMAIN rt /\ rt.pc = "gate_preflight"
  BY DEF LiveInv, RtGatePreflight, GateSteps, Shapes
<1>2. /\ Basics \subseteq DOMAIN rt' /\ rt'.pc = "gate_simulation" /\ rt'.read = d
      /\ rt'.config = rt.config /\ rt'.fit = (rt.fit /\ PreflightGate(rt.config))
  BY <1>1 DEF RtGatePreflight, Basics
<1>3. /\ DOMAIN d = Reading /\ (\A k \in Reading : d[k] \in 0..Len(log))
      /\ d.preflight = Len(log) /\ d.health = rt.read.health /\ d.review = rt.read.review
  BY <1>1, LogNow DEF Gating, Reading
<1> HIDE DEF d
<1>4. rt'.fit => rt.fit /\ Evidence(log, rt.config)
  BY <1>2, PreflightFound
<1>5. Gating(log, rt')
  BY <1>1, <1>2, <1>3, <1>4, LogNow DEF Gating
<1> QED
  BY <1>2, <1>5, ReadKept DEF RtGatePreflight

(* The simulation check, and the decision.                                    *)
LEMMA GateSimulationKept ==
    ASSUME LiveInv, RtGateSimulation
    PROVE  LiveInv'
<1> DEFINE d == [rt.read EXCEPT !.simulation = Len(log)]
<1>1. Gating(log, rt) /\ Basics \subseteq DOMAIN rt /\ rt.pc = "gate_simulation"
  BY DEF LiveInv, RtGateSimulation, GateSteps, Shapes
<1>2. /\ Basics \subseteq DOMAIN rt' /\ rt'.pc \in {"admitted", "refused"} /\ rt'.read = d
      /\ rt'.config = rt.config
      /\ rt'.pc = "admitted" => rt.fit /\ SimulationGate(rt.config)
  BY <1>1 DEF RtGateSimulation, Basics
<1>3. /\ DOMAIN d = Reading /\ (\A k \in Reading : d[k] \in 0..Len(log))
      /\ d.simulation = Len(log) /\ d.health = rt.read.health /\ d.review = rt.read.review
      /\ d.preflight = rt.read.preflight
  BY <1>1, LogNow DEF Gating, Reading
<1> HIDE DEF d
<1>4. SimulationGate(rt.config) => Simulated(log, rt.config, Len(log))
  BY LogNow DEF SimulationGate, SimulationIssues, Simulated
<1>5. rt'.pc = "admitted" => Admissible(log, rt'.config, rt'.read)
  BY <1>1, <1>2, <1>3, <1>4 DEF Gating, Admissible
<1>6. rt'.pc \notin GateSteps
  BY <1>2 DEF GateSteps
<1> QED
  BY <1>2, <1>5, <1>6, ReadKept DEF RtGateSimulation

(* The run begins on what the gate found.                                     *)
LEMMA BeginKept ==
    ASSUME LiveInv, RtBegin
    PROVE  LiveInv'
<1> DEFINE r == Started("orchestrator", rt.config)
           b == [config |-> rt.config, read |-> rt.read]
<1>1. Emitted(r) /\ r.type \notin {"preflight", "acknowledged"}
  BY DEF RtBegin, Emits, Raises, Started, Emitted
<1>2. admitted' = admitted \cup {b} /\ op' = op /\ rt.pc = "admitted"
  BY DEF RtBegin
<1>3. rt'.pc \notin Gate /\ Basics \subseteq DOMAIN rt'
  BY DEF RtBegin, LiveInv, Shapes, Gate, GateSteps, Basics
<1>4. Admissible(log, rt.config, rt.read)
  BY <1>2 DEF LiveInv
<1>5. b.config = rt.config /\ b.read = rt.read
  OBVIOUS
<1> HIDE DEF r, b
<1>6. Records' /\ Prefix(log, log')
  BY <1>1, PlainEarned DEF LiveInv
<1>7. \A a \in admitted : Admissible(log', a.config, a.read)
  BY <1>6, AdmissibleKept, LogNow DEF LiveInv
<1>8. Admissible(log', b.config, b.read)
  BY <1>4, <1>5, <1>6, AdmissibleKept, LogNow
<1>9. Progress(log', op') /\ Shapes'
  BY <1>2, <1>3, <1>6, ProgressKept DEF LiveInv, Shapes
<1> QED
  BY <1>2, <1>3, <1>6, <1>7, <1>8, <1>9 DEF LiveInv, Gate

(* The other steps of the runtime.                                            *)
LEMMA RuntimeSteps ==
    ASSUME LiveInv, RtStep \/ RtAssemblyFails \/ Stop
    PROVE  LiveInv'
<1> DEFINE plain == [type |-> "products"]
<1>1. plain.type \notin {"preflight", "acknowledged"}
  OBVIOUS
<1>2. Basics \subseteq DOMAIN rt
  BY DEF LiveInv, Shapes
<1>3. CASE RtGateHealth \/ RtGateReview \/ RtGatePreflight \/ RtGateSimulation \/ RtBegin
  BY <1>3, GateHealthKept, GateReviewKept, GatePreflightKept, GateSimulationKept, BeginKept
<1>4. ASSUME log' = log, admitted' = admitted, op' = op, Basics \subseteq DOMAIN rt',
             rt'.pc \in Gate => rt' = rt
      PROVE  LiveInv'
  <2>1. Emitted(plain)
    BY <1>4 DEF Emitted
  <2> HIDE DEF plain
  <2> QED
    BY <1>1, <1>4, <2>1, RuntimeKept
<1>5. CASE RtLeaveLoop
  BY <1>2, <1>4, <1>5 DEF RtLeaveLoop, Gate, GateSteps, Basics
<1>6. CASE RtWake
  <2>1. PICK q : rt' = [rt EXCEPT !.queue = q] /\ rt.pc = "loop"
    BY <1>6 DEF RtWake
  <2> QED
    BY <1>2, <1>4, <1>6, <2>1 DEF RtWake, Gate, GateSteps, Basics
<1>7. CASE RtCheckHealth
  BY <1>2, <1>4, <1>7 DEF RtCheckHealth, Gate, GateSteps, Basics
<1>8. CASE RtAssemblyFails
  BY <1>2, <1>4, <1>8 DEF RtAssemblyFails, Gate, GateSteps, Basics
<1>9. CASE Stop
  BY <1>2, <1>4, <1>9 DEF Stop
<1>10. CASE RtRefuse
  <2> DEFINE r == Error("config", "", 0)
  <2>1. /\ Emitted(r) /\ r.type \notin {"preflight", "acknowledged"}
        /\ admitted' = admitted /\ op' = op
        /\ Basics \subseteq DOMAIN rt' /\ rt'.pc \notin Gate
    BY <1>2, <1>10 DEF RtRefuse, Emits, Emitted, Error, RtOff, RaisesFreely, Gate, GateSteps, Basics
  <2> HIDE DEF r
  <2> QED
    BY <2>1, RuntimeKept
<1>11. CASE RtTask
  <2> DEFINE r == [type |-> "task_started", of |-> Head(rt.queue)]
  <2>1. /\ Emitted(r) /\ r.type \notin {"preflight", "acknowledged"}
        /\ admitted' = admitted /\ op' = op
        /\ Basics \subseteq DOMAIN rt' /\ rt'.pc \notin Gate
    BY <1>2, <1>11 DEF RtTask, Emits, Emitted, Raises, Gate, GateSteps, Basics
  <2> HIDE DEF r
  <2> QED
    BY <2>1, RuntimeKept
<1>12. CASE RtCatalog
  <2> DEFINE r == [type |-> "products"]
  <2>1. /\ Emitted(r) /\ r.type \notin {"preflight", "acknowledged"}
        /\ admitted' = admitted /\ op' = op
        /\ Basics \subseteq DOMAIN rt' /\ rt'.pc \notin Gate
    BY <1>2, <1>12 DEF RtCatalog, Emits, Emitted, RaisesFreely, Gate, GateSteps, Basics
  <2> HIDE DEF r
  <2> QED
    BY <2>1, RuntimeKept
<1>13. CASE RtEvaluate
  <2> DEFINE r == [type |-> "strategy_started", of |-> "strategy"]
  <2>1. /\ Emitted(r) /\ r.type \notin {"preflight", "acknowledged"}
        /\ admitted' = admitted /\ op' = op
        /\ Basics \subseteq DOMAIN rt' /\ rt'.pc \notin Gate
    BY <1>2, <1>13 DEF RtEvaluate, Emits, Emitted, Raises, Gate, GateSteps, Basics
  <2> HIDE DEF r
  <2> QED
    BY <2>1, RuntimeKept
<1>14. CASE RtEvaluated
  <2> DEFINE r == Closure("strategy_completed", "strategy", rt.strat)
  <2>1. /\ Emitted(r) /\ r.type \notin {"preflight", "acknowledged"}
        /\ admitted' = admitted /\ op' = op
        /\ Basics \subseteq DOMAIN rt' /\ rt'.pc \notin Gate
    BY <1>2, <1>14 DEF RtEvaluated, Emits, Emitted, Closure, Raises, Gate, GateSteps, Basics
  <2> HIDE DEF r
  <2> QED
    BY <2>1, RuntimeKept
<1>15. CASE RtStrategyError
  <2> DEFINE r == Error("strategy", "strategy", rt.strat)
  <2>1. /\ Emitted(r) /\ r.type \notin {"preflight", "acknowledged"}
        /\ admitted' = admitted /\ op' = op
        /\ Basics \subseteq DOMAIN rt' /\ rt'.pc \notin Gate
    BY <1>2, <1>15 DEF RtStrategyError, Emits, Emitted, Error, Raises, Gate, GateSteps, Basics
  <2> HIDE DEF r
  <2> QED
    BY <2>1, RuntimeKept
<1>16. CASE RtStrategyFailed
  <2> DEFINE r == Closure("strategy_failed", "strategy", rt.strat)
  <2>1. /\ Emitted(r) /\ r.type \notin {"preflight", "acknowledged"}
        /\ admitted' = admitted /\ op' = op
        /\ Basics \subseteq DOMAIN rt' /\ rt'.pc \notin Gate
    BY <1>2, <1>16 DEF RtStrategyFailed, Emits, Emitted, Closure, Raises, Gate, GateSteps, Basics
  <2> HIDE DEF r
  <2> QED
    BY <2>1, RuntimeKept
<1>17. CASE RtClose
  <2> DEFINE r == Closure("task_completed", Head(rt.queue), rt.task)
  <2>1. /\ Emitted(r) /\ r.type \notin {"preflight", "acknowledged"}
        /\ admitted' = admitted /\ op' = op
        /\ Basics \subseteq DOMAIN rt' /\ rt'.pc \notin Gate
    BY <1>2, <1>17 DEF RtClose, Emits, Emitted, Closure, Raises, Done, Gate, GateSteps, Basics
  <2> HIDE DEF r
  <2> QED
    BY <2>1, RuntimeKept
<1>18. CASE RtFail
  <2> DEFINE r == Error(Category(rt.bot), Head(rt.queue), rt.task)
  <2>1. /\ Emitted(r) /\ r.type \notin {"preflight", "acknowledged"}
        /\ admitted' = admitted /\ op' = op
        /\ Basics \subseteq DOMAIN rt' /\ rt'.pc \notin Gate
    BY <1>2, <1>18 DEF RtFail, Emits, Emitted, Error, Raises, Done, Gate, GateSteps, Basics
  <2> HIDE DEF r
  <2> QED
    BY <2>1, RuntimeKept
<1>19. CASE RtStop
  <2> DEFINE r == Stopped("orchestrator")
  <2>1. /\ Emitted(r) /\ r.type \notin {"preflight", "acknowledged"}
        /\ admitted' = admitted /\ op' = op
        /\ Basics \subseteq DOMAIN rt' /\ rt'.pc \notin Gate
    BY <1>2, <1>19 DEF RtStop, Emits, Emitted, Stopped, Raises, Gate, GateSteps, Basics
  <2> HIDE DEF r
  <2> QED
    BY <2>1, RuntimeKept
<1>20. CASE RtErring
  <2> DEFINE r == Error("unexpected", "", 0)
  <2>1. /\ Emitted(r) /\ r.type \notin {"preflight", "acknowledged"}
        /\ admitted' = admitted /\ op' = op
        /\ Basics \subseteq DOMAIN rt' /\ rt'.pc \notin Gate
    BY <1>2, <1>20 DEF RtErring, Emits, Emitted, Error, RtOff, RaisesFreely, Gate, GateSteps, Basics
  <2> HIDE DEF r
  <2> QED
    BY <2>1, RuntimeKept
<1>21. CASE RtReportHealth
  <2> DEFINE r == [type |-> "health", checks |-> rt.saw, status |-> IF rt.saw = {} THEN "ok" ELSE "attention"]
  <2>1. /\ Emitted(r) /\ r.type \notin {"preflight", "acknowledged"}
        /\ admitted' = admitted /\ op' = op
        /\ Basics \subseteq DOMAIN rt' /\ rt'.pc \notin Gate
    BY <1>2, <1>21 DEF RtReportHealth, Emits, Emitted, RtOff, RaisesFreely, Gate, GateSteps, Basics
  <2> HIDE DEF r
  <2> QED
    BY <2>1, RuntimeKept
<1> QED
  BY <1>3, <1>5, <1>6, <1>7, <1>8, <1>9, <1>10, <1>11, <1>12, <1>13, <1>14, <1>15, <1>16, <1>17, <1>18, <1>19, <1>20, <1>21 DEF RtStep

-----------------------------------------------------------------------------
(* The operator's command.                                                    *)
Fields == {"pc", "config", "aggregate", "statuses", "start", "failed", "saw", "result"}
Sound(o) == DOMAIN o = Fields /\ o.statuses \in Seq({"ok", "attention"})

(* A command that has nothing to show yet.                                    *)
Pending(o) == /\ Sound(o) /\ o.pc \notin {"reviewed", "record"}
              /\ o.pc \in {"catalog", "feed", "exchange"} => ~o.aggregate

(* No command in progress.                                                    *)
LEMMA IdlePending == Pending(OpIdle)
<1> DEFINE none == << >>
<1>1. none \in Seq({"ok", "attention"})
  OBVIOUS
<1> HIDE DEF none
<1>2. OpIdle.statuses = none /\ DOMAIN OpIdle = Fields /\ OpIdle.pc = "idle"
  BY DEF OpIdle, none, Fields
<1> QED
  BY <1>1, <1>2 DEF Pending, Sound

(* A step of the operator's command.                                          *)
LEMMA OperatorKept ==
    ASSUME LiveInv, Records', Prefix(log, log'), admitted' = admitted, rt' = rt,
           Pending(op') \/ (Sound(op') /\ Progress(log', op'))
    PROVE  LiveInv'
<1>1. Sound(op) /\ Basics \subseteq DOMAIN rt
  BY DEF LiveInv, Shapes, Sound, Fields
<1>2. Progress(log', op')
  BY DEF Progress, Pending
<1>3. Sound(op')
  BY DEF Pending
<1> QED
  BY <1>1, <1>2, <1>3, LiveKept DEF Sound

(* Nothing is written.                                                        *)
LEMMA ReadingKept ==
    ASSUME LiveInv, log' = log, admitted' = admitted, rt' = rt,
           Pending(op') \/ (Sound(op') /\ Progress(log, op'))
    PROVE  LiveInv'
<1>1. Records' /\ Prefix(log, log')
  <2>1. IsLog(log) /\ Len(log) \in Nat
    BY LogFacts DEF LiveInv, Records
  <2> QED
    BY <2>1 DEF LiveInv, Records, Prefix
<1> QED
  BY <1>1, OperatorKept

(* A record that is neither result nor acknowledgement.                       *)
LEMMA WritingKept ==
    ASSUME LiveInv, NEW r, Emitted(r), r.type \notin {"preflight", "acknowledged"},
           admitted' = admitted, rt' = rt,
           Pending(op') \/ (Sound(op') /\ Progress(log', op'))
    PROVE  LiveInv'
<1>1. Records' /\ Prefix(log, log')
  BY PlainEarned DEF LiveInv
<1> QED
  BY <1>1, OperatorKept

(* A command that cannot begin.                                               *)
LEMMA UnableKept ==
    ASSUME OpUnable
    PROVE  Pending(op')
<1>1. DOMAIN OpIdle = Fields
  BY DEF OpIdle, Fields
<1>2. op' = [OpIdle EXCEPT !.pc = "smoke_error"]
  BY DEF OpUnable
<1>3. op'.pc = "smoke_error" /\ DOMAIN op' = Fields /\ op'.statuses = OpIdle.statuses
  BY <1>1, <1>2 DEF Fields
<1> QED
  BY <1>3, IdlePending DEF Pending, Sound

(* The preflight begins after a readiness without objection.                  *)
LEMMA PreflightKept ==
    ASSUME LiveInv, NEW c, OpPreflight(c)
    PROVE  LiveInv'
<1>1. log' = log /\ rt' = rt /\ admitted' = admitted
  BY DEF OpPreflight
<1> DEFINE first == <<"ok">>
<1>2. first \in Seq({"ok", "attention"}) /\ Len(first) = 1
  OBVIOUS
<1> HIDE DEF first
<1> DEFINE o == [OpIdle EXCEPT !.pc = "catalog", !.config = c.config, !.aggregate = TRUE, !.statuses = first]
<1>3. OpUnable \/ op' = o \/ op' = OpIdle
  BY DEF OpPreflight, first
<1>4. DOMAIN o = Fields /\ o.pc = "catalog" /\ o.statuses = first
  BY DEF OpIdle, Fields
<1> HIDE DEF o
<1>5. Sound(o) /\ Progress(log, o)
  BY <1>2, <1>4 DEF Sound, Progress
<1> QED
  BY <1>1, <1>3, <1>5, UnableKept, IdlePending, ReadingKept

(* A smoke on its own gathers nothing for a preflight.                        *)
LEMMA SmokeKept ==
    ASSUME LiveInv, NEW c, OpSmoke(c)
    PROVE  LiveInv'
<1>1. log' = log /\ rt' = rt /\ admitted' = admitted
  BY DEF OpSmoke
<1> DEFINE k == c.kind
           o == [OpIdle EXCEPT !.pc = k, !.config = c.config]
<1>2. k \in {"catalog", "feed", "exchange"} /\ (OpUnable \/ op' = o)
  BY DEF OpSmoke
<1> HIDE DEF k
<1>3. DOMAIN o = Fields /\ o.pc = k /\ o.statuses = OpIdle.statuses /\ o.aggregate = FALSE
  BY DEF OpIdle, Fields
<1> HIDE DEF o
<1>4. Pending(o)
  BY <1>2, <1>3, IdlePending DEF Pending, Sound
<1> QED
  BY <1>1, <1>2, <1>4, UnableKept, ReadingKept

(* A simulation.                                                              *)
LEMMA SimulateKept ==
    ASSUME LiveInv, NEW c, OpSimulate(c)
    PROVE  LiveInv'
<1>1. log' = log /\ rt' = rt /\ admitted' = admitted
  BY DEF OpSimulate
<1>2. Pending(op')
  <2>1. DOMAIN op' = Fields /\ op'.pc = "simulated" /\ op'.statuses = OpIdle.statuses
    BY DEF OpSimulate, OpIdle, Fields
  <2> QED
    BY <2>1, IdlePending DEF Pending, Sound
<1> QED
  BY <1>1, <1>2, ReadingKept

(* The operator sees the health of the ledger as it is.                       *)
LEMMA AcknowledgeKept ==
    ASSUME LiveInv, NEW c, OpAcknowledge(c)
    PROVE  LiveInv'
<1>1. log' = log /\ rt' = rt /\ admitted' = admitted
  BY DEF OpAcknowledge
<1>2. IsLog(log) /\ Len(log) \in Nat /\ SubSeq(log, 1, Len(log)) = log
  BY LogFacts, WholeLog DEF LiveInv, Records
<1> DEFINE d == AttentionChecks(log)
           n == Len(log)
           o == [OpIdle EXCEPT !.pc = "reviewed", !.saw = [digest |-> d, through |-> n]]
<1>3. op' = OpIdle \/ op' = o
  BY DEF OpAcknowledge
<1>4. n \in 0..n /\ n = Len(log) /\ d = AttentionChecks(SubSeq(log, 1, n))
  <2>1. d = AttentionChecks(log) /\ n = Len(log)
    OBVIOUS
  <2> HIDE DEF d, n
  <2>2. SubSeq(log, 1, n) = log /\ n \in Nat
    BY <1>2, <2>1
  <2>3. n \in 0..n
    BY <2>2
  <2>4. d = AttentionChecks(SubSeq(log, 1, n))
    BY <2>1, <2>2, Zenon
  <2> QED
    BY <2>1, <2>3, <2>4
<1> HIDE DEF d, n
<1>5. /\ DOMAIN o = Fields /\ o.pc = "reviewed" /\ o.statuses = OpIdle.statuses
      /\ o.saw.digest = d /\ o.saw.through = n
  BY DEF OpIdle, Fields
<1> HIDE DEF o
<1>6. Sound(o) /\ Progress(log, o)
  BY <1>4, <1>5, IdlePending DEF Sound, Progress, Pending
<1> QED
  BY <1>1, <1>3, <1>6, IdlePending, ReadingKept

(* The steps of a preflight.                                                  *)
LEMMA StepsAre == Len(Steps) = 4 /\ Steps[3] = "feed" /\ Steps[4] = "exchange"
  BY DEF Steps

(* What StepDone makes of the aggregate command.                              *)
LEMMA StepDoneTo ==
    ASSUME Sound(op), NEW status \in {"ok", "attention"}, StepDone(status), op.aggregate
    PROVE  /\ Sound(op') /\ op'.config = op.config /\ op'.start = 0 /\ Len(op.statuses) \in Nat
           /\ Len(op'.statuses) = Len(op.statuses) + 1 /\ op'.statuses[Len(op.statuses) + 1] = status
           /\ op'.pc = IF status # "ok" \/ Len(op.statuses) + 1 = 4 THEN "record"
                       ELSE Steps[Len(op.statuses) + 2]
<1> DEFINE s == op.statuses
           n == Len(s) + 1
           to == IF status # "ok" \/ n = 4 THEN "record" ELSE Steps[n + 1]
           t == Append(s, status)
<1>1. s \in Seq({"ok", "attention"}) /\ DOMAIN op = Fields
  BY DEF Sound
<1>2. op' = [op EXCEPT !.statuses = t, !.start = 0, !.pc = to]
  BY StepsAre DEF StepDone
<1>3. Len(s) \in Nat /\ t \in Seq({"ok", "attention"}) /\ Len(t) = n /\ t[n] = status
  BY <1>1
<1>4. to = IF status # "ok" \/ Len(op.statuses) + 1 = 4 THEN "record" ELSE Steps[Len(op.statuses) + 2]
  <2>1. n + 1 = Len(op.statuses) + 2
    BY <1>3
  <2> QED
    BY <2>1
<1> HIDE DEF to, t
<1>5. DOMAIN op' = Fields /\ op'.statuses = t /\ op'.start = 0 /\ op'.pc = to /\ op'.config = op.config
  BY <1>1, <1>2 DEF Fields
<1> QED
  BY <1>1, <1>3, <1>4, <1>5 DEF Sound

(* The product snapshot.                                                      *)
LEMMA CatalogKept ==
    ASSUME LiveInv, OpCatalog
    PROVE  LiveInv'
<1> DEFINE r == [type |-> "products"]
<1>1. /\ r.type = "products" /\ r.type \notin {"preflight", "acknowledged"} /\ Emitted(r)
      /\ rt' = rt /\ admitted' = admitted /\ op.pc = "catalog"
  BY DEF OpCatalog, Emits, RaisesFreely, Emitted
<1>2. \/ op' = [op EXCEPT !.pc = "smoke_error"]
      \/ log' = Append(log, r) /\ StepDone("ok")
      \/ log' = Append(log, r) /\ StepDone("attention")
  BY DEF OpCatalog, Emits
<1> HIDE DEF r
<1>3. Sound(op) /\ Records /\ Progress(log, op)
  BY DEF LiveInv, Shapes, Sound, Fields
<1>4. ASSUME op' = [op EXCEPT !.pc = "smoke_error"] PROVE Pending(op')
  <2>1. op'.pc = "smoke_error" /\ DOMAIN op' = Fields /\ op'.statuses = op.statuses
    BY <1>3, <1>4 DEF Sound, Fields
  <2> QED
    BY <1>3, <2>1 DEF Pending, Sound
<1>5. ASSUME NEW status \in {"ok", "attention"}, StepDone(status), log' = Append(log, r)
      PROVE  Pending(op') \/ (Sound(op') /\ Progress(log', op'))
  <2>1. CASE ~op.aggregate
    BY <1>5, <2>1, IdlePending DEF StepDone
  <2>2. CASE op.aggregate
    <3>1. Len(op.statuses) = 1
      BY <1>1, <1>3, <2>2 DEF Progress
    <3>2. /\ Sound(op') /\ op'.start = 0 /\ Len(op'.statuses) = 2
          /\ op'.pc = IF status # "ok" THEN "record" ELSE "feed"
      BY <1>3, <1>5, <2>2, <3>1, StepDoneTo, StepsAre
    <3>3. Len(log) + 1 \in Of(log', "products")
      <4>1. Prefix(log, log') /\ Len(log') = Len(log) + 1 /\ log'[Len(log) + 1] = r
        BY <1>3, <1>5, AppendedLog DEF Records
      <4>2. Len(log) \in Nat /\ DOMAIN log' = 1..Len(log')
        BY <4>1, LogFacts DEF Prefix
      <4> QED
        BY <1>1, <4>1, <4>2 DEF Of
    <3>4. Progress(log', op')
      BY <3>2, <3>3 DEF Progress
    <3> QED
      BY <3>2, <3>4
  <2> QED
    BY <2>1, <2>2
<1> QED
  BY <1>1, <1>2, <1>4, <1>5, WritingKept

(* A smoke begins after the steps before it.                                  *)
LEMMA SmokeStartKept ==
    ASSUME LiveInv, OpSmokeStart
    PROVE  LiveInv'
<1> DEFINE r == Started(op.pc, op.config)
           h == Len(log) + 1
<1>1. /\ r.type = "started" /\ r.component = op.pc /\ r.config = op.config
      /\ r.type \notin {"preflight", "acknowledged"} /\ Emitted(r)
      /\ rt' = rt /\ admitted' = admitted /\ op.pc \in {"feed", "exchange"} /\ op.start = 0
  BY DEF OpSmokeStart, Emits, Raises, Emitted, Started
<1>2. op' = OpIdle \/ (log' = Append(log, r) /\ op' = [op EXCEPT !.start = h])
  BY DEF OpSmokeStart, Emits, Here
<1> HIDE DEF r
<1>3. Sound(op) /\ Records /\ Progress(log, op)
  BY DEF LiveInv, Shapes, Sound, Fields
<1>4. Len(log) \in Nat /\ DOMAIN log = 1..Len(log)
  BY <1>3, LogFacts DEF Records
<1>5. ASSUME log' = Append(log, r), op' = [op EXCEPT !.start = h]
      PROVE  Sound(op') /\ Progress(log', op')
  <2>1. h \in Nat /\ h > 0 /\ \A i \in DOMAIN log : i < h
    BY <1>4
  <2>2. Prefix(log, log') /\ Len(log') = h /\ log'[h] = r
    BY <1>3, <1>5, AppendedLog DEF Records
  <2>3. DOMAIN log' = 1..h
    BY <2>2, LogFacts DEF Prefix
  <2> HIDE DEF h
  <2>4. /\ DOMAIN op' = Fields /\ op'.start = h /\ op'.pc = op.pc /\ op'.config = op.config
        /\ op'.aggregate = op.aggregate /\ op'.statuses = op.statuses
    BY <1>3, <1>5 DEF Sound, Fields
  <2>5. Progress(log', op)
    BY <1>3, <2>2, ProgressKept
  <2>6. h \in Of(log', "started") /\ log'[h].component = op.pc /\ log'[h].config = op.config
    BY <1>1, <2>1, <2>2, <2>3 DEF Of
  <2>7. Sound(op')
    BY <1>3, <2>4 DEF Sound
  <2>8. CASE op.pc = "feed"
    <3>1. op.aggregate => Len(op.statuses) = 2 /\ \E p \in Of(log, "products") : p < h
      BY <1>3, <2>1, <2>8 DEF Progress, Of
    <3>2. op.aggregate => \E p \in Of(log', "products") : p < h
      BY <2>2, <3>1, OfKept
    <3>3. Progress(log', op')
      BY <2>4, <2>6, <2>8, <3>1, <3>2 DEF Progress
    <3> QED
      BY <2>7, <3>3
  <2>9. CASE op.pc = "exchange"
    <3>1. ASSUME op.aggregate
          PROVE  Len(op.statuses) = 3 /\ \E p, f, j \in DOMAIN log : FeedSmoked(log, op.config, p, f, j)
      BY <1>3, <2>9, <3>1 DEF Progress
    <3>2. ASSUME op.aggregate
          PROVE  \E p, f, j \in DOMAIN log' : FeedSmoked(log', op.config, p, f, j) /\ j < h
      <4>1. PICK p \in DOMAIN log, f \in DOMAIN log, j \in DOMAIN log : FeedSmoked(log, op.config, p, f, j)
        BY <3>1, <3>2
      <4>2. FeedSmoked(log', op.config, p, f, j)
        <5> DEFINE c == op.config
        <5>1. FeedSmoked(log, c, p, f, j)
          BY <4>1
        <5> HIDE DEF c
        <5>2. FeedSmoked(log', c, p, f, j)
          BY <2>2, <5>1, SmokedKept
        <5> QED
          BY <5>2 DEF c
      <4>3. j < h /\ p \in DOMAIN log' /\ f \in DOMAIN log' /\ j \in DOMAIN log'
        BY <2>1, <4>2 DEF FeedSmoked, Of
      <4> QED
        BY <4>2, <4>3
    <3>3. Progress(log', op')
      BY <2>4, <2>6, <2>9, <3>1, <3>2 DEF Progress
    <3> QED
      BY <2>7, <3>3
  <2> QED
    BY <1>1, <2>8, <2>9
<1> QED
  BY <1>1, <1>2, <1>5, IdlePending, WritingKept

(* A smoke that fails.                                                        *)
LEMMA SmokeFailsKept ==
    ASSUME LiveInv, OpSmokeFails
    PROVE  LiveInv'
<1> DEFINE r == Error("smoke", "", 0)
<1>1. /\ r.type \notin {"preflight", "acknowledged"} /\ Emitted(r)
      /\ rt' = rt /\ admitted' = admitted /\ op' = [op EXCEPT !.failed = TRUE]
  BY DEF OpSmokeFails, Error, Emitted
<1> HIDE DEF r
<1>2. Sound(op) /\ Records /\ Progress(log, op)
  BY DEF LiveInv, Shapes, Sound, Fields
<1>3. Prefix(log, log')
  BY <1>1, <1>2, PlainEarned
<1>4. Progress(log', op)
  BY <1>2, <1>3, ProgressKept
<1>5. /\ DOMAIN op' = Fields /\ op'.start = op.start /\ op'.pc = op.pc /\ op'.config = op.config
      /\ op'.aggregate = op.aggregate /\ op'.statuses = op.statuses /\ op'.saw = op.saw
  BY <1>1, <1>2 DEF Sound, Fields
<1>6. Sound(op') /\ Progress(log', op')
  BY <1>2, <1>4, <1>5 DEF Progress, Sound
<1> QED
  BY <1>1, <1>6, WritingKept

(* The feed smoke that ends now, with no error since it began.                *)
LEMMA FeedStopKept ==
    ASSUME LiveInv, op.pc = "feed", op.start # 0, op.aggregate, ~FeedErrors,
           log' = Append(log, Stopped("feed")), StepDone("ok")
    PROVE  Sound(op') /\ Progress(log', op')
<1> DEFINE r == Stopped("feed")
           h == Len(log) + 1
           s == op.start
           c == op.config
<1>1. r.type = "stopped" /\ r.component = "feed" /\ log' = Append(log, r)
  BY DEF Stopped
<1> HIDE DEF r
<1>2. Sound(op) /\ Records /\ Progress(log, op)
  BY DEF LiveInv, Shapes, Sound, Fields
<1>3. Len(log) \in Nat /\ DOMAIN log = 1..Len(log)
  BY <1>2, LogFacts DEF Records
<1>4. h \in Nat /\ h > 0 /\ \A i \in DOMAIN log : i < h
  BY <1>3
<1>5. Prefix(log, log') /\ Len(log') = h /\ log'[h] = r
  BY <1>1, <1>2, AppendedLog DEF Records
<1>6. DOMAIN log' = 1..h
  BY <1>5, LogFacts DEF Prefix
<1> HIDE DEF h
<1>7. h \in Of(log', "stopped") /\ log'[h].component = "feed"
  BY <1>1, <1>4, <1>5, <1>6 DEF Of
<1>8. PICK p \in Of(log, "products") :
         /\ p < s /\ s \in Of(log, "started") /\ log[s].component = "feed" /\ log[s].config = c
         /\ Len(op.statuses) = 2
  BY <1>2 DEF Progress
<1>9. /\ Sound(op') /\ op'.start = 0 /\ Len(op'.statuses) = 3 /\ op'.pc = "exchange" /\ op'.config = c
  BY <1>2, <1>8, StepDoneTo, StepsAre
<1>10. \A e \in Of(log, "error") : ~(e > s)
  BY DEF FeedErrors
<1> HIDE DEF s, c
<1>11. p \in Of(log', "products") /\ s \in Of(log', "started") /\ log'[s] = log[s]
  BY <1>5, <1>8, OfKept
<1>12. s < h
  BY <1>4, <1>8 DEF Of
<1>13. ASSUME NEW e \in Of(log', "error"), s < e, e < h PROVE FALSE
  <2>1. e \in DOMAIN log' /\ log'[e].type = "error"
    BY DEF Of
  <2>2. e \in 1..h
    BY <1>6, <2>1
  <2>3. e <= Len(log)
    BY <1>3, <1>13, <2>2 DEF h
  <2>4. e \in Of(log, "error")
    BY <1>5, <2>3, OfKept
  <2>5. s \in DOMAIN log /\ e \in DOMAIN log
    BY <1>8, <2>4 DEF Of
  <2>6. s \in Nat /\ e \in Nat
    BY <1>3, <2>5
  <2> QED
    BY <1>10, <1>13, <2>4, <2>6
<1>14. FeedSmoked(log', c, p, s, h)
  BY <1>7, <1>8, <1>11, <1>12, <1>13 DEF FeedSmoked
<1>15. p \in DOMAIN log' /\ s \in DOMAIN log' /\ h \in DOMAIN log'
  BY <1>14 DEF FeedSmoked, Of
<1>16. Progress(log', op')
  BY <1>9, <1>14, <1>15 DEF Progress
<1> QED
  BY <1>9, <1>16

(* The exchange smoke that ends now: the evidence is complete.                *)
LEMMA ExchangeStopKept ==
    ASSUME LiveInv, op.pc = "exchange", op.start # 0, op.aggregate,
           log' = Append(log, Stopped("exchange")), StepDone("ok")
    PROVE  Sound(op') /\ Progress(log', op')
<1> DEFINE r == Stopped("exchange")
           h == Len(log) + 1
           s == op.start
           c == op.config
<1>1. r.type = "stopped" /\ r.component = "exchange" /\ log' = Append(log, r)
  BY DEF Stopped
<1> HIDE DEF r
<1>2. Sound(op) /\ Records /\ Progress(log, op)
  BY DEF LiveInv, Shapes, Sound, Fields
<1>3. Len(log) \in Nat /\ DOMAIN log = 1..Len(log)
  BY <1>2, LogFacts DEF Records
<1>4. h \in Nat /\ h > 0 /\ \A i \in DOMAIN log : h > i
  BY <1>3
<1>5. Prefix(log, log') /\ Len(log') = h /\ log'[h] = r
  BY <1>1, <1>2, AppendedLog DEF Records
<1>6. DOMAIN log' = 1..h
  BY <1>5, LogFacts DEF Prefix
<1> HIDE DEF h
<1>7. h \in Of(log', "stopped") /\ log'[h].component = "exchange"
  BY <1>1, <1>4, <1>5, <1>6 DEF Of
<1>8. PICK p \in DOMAIN log, f \in DOMAIN log, j \in DOMAIN log :
         /\ FeedSmoked(log, c, p, f, j)
         /\ j < s /\ s \in Of(log, "started") /\ log[s].component = "exchange" /\ log[s].config = c
         /\ Len(op.statuses) = 3
  BY <1>2 DEF Progress
<1>9. /\ Sound(op') /\ op'.start = 0 /\ Len(op'.statuses) = 4 /\ op'.pc = "record" /\ op'.config = c
  BY <1>2, <1>8, StepDoneTo, StepsAre
<1> HIDE DEF s, c
<1>10. s \in Of(log', "started") /\ log'[s] = log[s]
  BY <1>5, <1>8, OfKept
<1>11. FeedSmoked(log', c, p, f, j)
  BY <1>5, <1>8, SmokedKept
<1>12. h > s
  BY <1>4, <1>8 DEF Of
<1>13. p \in DOMAIN log' /\ f \in DOMAIN log' /\ j \in DOMAIN log' /\ s \in DOMAIN log' /\ h \in DOMAIN log'
  BY <1>7, <1>10, <1>11 DEF FeedSmoked, Of
<1>14. Evidence(log', c)
  BY <1>7, <1>8, <1>10, <1>11, <1>12, <1>13, EvidenceBy
<1>15. Progress(log', op')
  BY <1>9, <1>14 DEF Progress
<1> QED
  BY <1>9, <1>15

(* A smoke ends, with or without attention.                                   *)
LEMMA SmokeStopKept ==
    ASSUME LiveInv, OpSmokeStop
    PROVE  LiveInv'
<1> DEFINE r == Stopped(op.pc)
<1>1. /\ r.type \notin {"preflight", "acknowledged"} /\ Emitted(r)
      /\ rt' = rt /\ admitted' = admitted /\ op.pc \in {"feed", "exchange"} /\ op.start # 0
  BY DEF OpSmokeStop, Emits, Raises, Emitted, Stopped
<1>2. \/ op' = OpIdle
      \/ log' = Append(log, r) /\ StepDone("attention")
      \/ log' = Append(log, r) /\ StepDone("ok") /\ ~(op.pc = "feed" /\ FeedErrors)
  BY DEF OpSmokeStop, Emits
<1> HIDE DEF r
<1>3. Sound(op) /\ Progress(log, op)
  BY DEF LiveInv, Shapes, Sound, Fields
<1>4. ASSUME StepDone("attention"), op.aggregate PROVE Sound(op') /\ Progress(log', op')
  <2>1. Len(op.statuses) \in {2, 3}
    BY <1>1, <1>3, <1>4 DEF Progress
  <2> DEFINE n == Len(op.statuses)
             attention == "attention"
  <2>2. /\ Sound(op') /\ op'.pc = "record" /\ Len(op'.statuses) = n + 1
        /\ op'.statuses[n + 1] = "attention"
    BY <1>3, <1>4, StepDoneTo
  <2>3. n \in {2, 3}
    BY <2>1
  <2> HIDE DEF n
  <2>4. /\ Len(op'.statuses) \in 1..4
        /\ ~(Len(op'.statuses) = 4 /\ op'.statuses[4] = "ok")
    BY <2>2, <2>3
  <2> QED
    BY <2>2, <2>4 DEF Progress
<1>5. ASSUME StepDone("ok"), ~(op.pc = "feed" /\ FeedErrors), log' = Append(log, r), op.aggregate
      PROVE  Sound(op') /\ Progress(log', op')
  <2>1. CASE op.pc = "feed"
    BY <1>1, <1>5, <2>1, FeedStopKept DEF r
  <2>2. CASE op.pc = "exchange"
    BY <1>1, <1>5, <2>2, ExchangeStopKept DEF r
  <2> QED
    BY <1>1, <2>1, <2>2
<1>6. ASSUME NEW status, StepDone(status), ~op.aggregate PROVE Pending(op')
  BY <1>6, IdlePending DEF StepDone
<1>7. Pending(op') \/ (Sound(op') /\ Progress(log', op'))
  BY <1>2, <1>4, <1>5, <1>6, IdlePending
<1> QED
  BY <1>1, <1>7, WritingKept

(* A preflight is recorded as clean only after its last step.                 *)
LEMMA RecordPreflightKept ==
    ASSUME LiveInv, OpRecordPreflight
    PROVE  LiveInv'
<1> DEFINE t == op.statuses
           c == op.config
           n == Len(t)
           done == SubSeq(Steps, 1, n)
           rest == SubSeq(Steps, n + 1, Len(Steps))
           r == [type |-> "preflight", config |-> c, statuses |-> t, completed |-> done,
                 skipped |-> rest, status |-> t[n],
                 stopped |-> IF t[n] = "ok" THEN "" ELSE Steps[n]]
<1>1. Emitted(r) /\ rt' = rt /\ admitted' = admitted /\ op.pc = "record" /\ op' = OpIdle
  BY DEF OpRecordPreflight, Emits, RaisesFreely, Emitted
<1>2. r.type = "preflight" /\ r.config = c /\ r.completed = done /\ r.status = t[n]
  OBVIOUS
<1> HIDE DEF r
<1>3. Records /\ Progress(log, op)
  BY DEF LiveInv
<1>4. n \in 1..4 /\ (n = 4 /\ t[4] = "ok" => Evidence(log, c))
  BY <1>1, <1>3 DEF Progress
<1> HIDE DEF n
<1>5. done = Steps => n = 4
  <2>1. Len(done) = n
    BY <1>4, StepsAre DEF Steps
  <2> QED
    BY <2>1, StepsAre
<1> HIDE DEF t, c, done
<1>6. ~PreflightIssues(r, r.config) => Evidence(log, c)
  BY <1>2, <1>4, <1>5 DEF PreflightIssues
<1>7. ASSUME log' # log PROVE Earned(log', Len(log) + 1)
  <2> DEFINE h == Len(log) + 1
             k == h - 1
  <2>1. /\ Prefix(log, log') /\ log'[h] = r /\ Len(log) \in Nat
    BY <1>1, <1>3, <1>7, AppendedLog, LogFacts DEF Emitted, Records
  <2>2. k = Len(log) /\ k \in 0..Len(log)
    BY <2>1
  <2> HIDE DEF k
  <2>3. SubSeq(log', 1, k) = SubSeq(log, 1, k)
    BY <2>1, <2>2, SubKept
  <2>4. SubSeq(log, 1, k) = log
    BY <1>3, <2>2, WholeLog DEF Records
  <2>5. SubSeq(log', 1, h - 1) = log
    BY <2>3, <2>4 DEF k
  <2> HIDE DEF h
  <2>6. Earned(log', h)
    BY <1>2, <1>6, <2>1, <2>5 DEF Earned
  <2> QED
    BY <2>6 DEF h
<1>8. Records' /\ Prefix(log, log')
  BY <1>1, <1>3, <1>7, EmittedKept
<1> QED
  BY <1>1, <1>8, IdlePending, OperatorKept

(* The acknowledgement says what the operator saw.                            *)
LEMMA RecordAcknowledgementKept ==
    ASSUME LiveInv, OpRecordAcknowledgement
    PROVE  LiveInv'
<1> DEFINE d == op.saw.digest
           n == op.saw.through
           r == [type |-> "acknowledged", status |-> "attention", digest |-> d, through |-> n]
<1>1. Emitted(r) /\ rt' = rt /\ admitted' = admitted /\ op.pc = "reviewed" /\ op' = OpIdle
  BY DEF OpRecordAcknowledgement, Emits, RaisesFreely, Emitted
<1>2. r.type = "acknowledged" /\ r.digest = d /\ r.through = n
  OBVIOUS
<1>3. Records /\ n \in 0..Len(log) /\ d = AttentionChecks(SubSeq(log, 1, n))
  BY <1>1 DEF LiveInv, Progress
<1> HIDE DEF r, d, n
<1>4. ASSUME log' # log PROVE Earned(log', Len(log) + 1)
  <2> DEFINE h == Len(log) + 1
  <2>1. /\ Prefix(log, log') /\ log'[h] = r /\ Len(log) \in Nat
    BY <1>1, <1>3, <1>4, AppendedLog, LogFacts DEF Emitted, Records
  <2>2. n \in 0..(h - 1)
    BY <1>3, <2>1
  <2>3. SubSeq(log', 1, n) = SubSeq(log, 1, n)
    BY <1>3, <2>1, SubKept
  <2>4. d = AttentionChecks(SubSeq(log', 1, n))
    BY <1>3, <2>3
  <2> HIDE DEF h
  <2>5. Earned(log', h)
    BY <1>2, <2>1, <2>2, <2>4 DEF Earned
  <2> QED
    BY <2>5 DEF h
<1>5. Records' /\ Prefix(log, log')
  BY <1>1, <1>3, <1>4, EmittedKept
<1> QED
  BY <1>1, <1>5, IdlePending, OperatorKept

(* Every step of the operator's command.                                      *)
LEMMA OperatorSteps ==
    ASSUME LiveInv, OpStep
    PROVE  LiveInv'
<1>1. CASE OpSmokeError
  <2> DEFINE r == Error("smoke", "", 0)
  <2>1. /\ Emitted(r) /\ r.type \notin {"preflight", "acknowledged"}
        /\ rt' = rt /\ admitted' = admitted /\ op' = OpIdle
    BY <1>1 DEF OpSmokeError, Emits, RaisesFreely, Emitted, Error
  <2> HIDE DEF r
  <2> QED
    BY <2>1, IdlePending, WritingKept
<1>2. CASE OpRecordSimulation
  <2> DEFINE r == [type |-> "simulation", config |-> op.config, strategies |-> 2,
                   completed |-> 2 - op.result.failed, failed |-> op.result.failed,
                   rejected |-> op.result.rejected, status |-> SimulationStatus(op.result)]
  <2>1. /\ Emitted(r) /\ r.type \notin {"preflight", "acknowledged"}
        /\ rt' = rt /\ admitted' = admitted /\ op' = OpIdle
    BY <1>2 DEF OpRecordSimulation, Emits, RaisesFreely, Emitted
  <2> HIDE DEF r
  <2> QED
    BY <2>1, IdlePending, WritingKept
<1> QED
  BY <1>1, <1>2, CatalogKept, SmokeStartKept, SmokeFailsKept, SmokeStopKept, RecordPreflightKept,
     RecordAcknowledgementKept DEF OpStep

(* A killed process leaves the ledger, and with it the other one, as it is.   *)
LEMMA KillKept ==
    ASSUME LiveInv, Kill
    PROVE  LiveInv'
<1>1. CASE rt' = rt /\ op' = OpIdle
  BY <1>1, IdlePending, ReadingKept DEF Kill
<1>2. CASE rt' = RtOff /\ op' = op
  <2> DEFINE plain == [type |-> "products"]
  <2>1. /\ Emitted(plain) /\ plain.type \notin {"preflight", "acknowledged"}
        /\ Basics \subseteq DOMAIN rt' /\ rt'.pc \notin Gate
    BY <1>2 DEF Kill, Emitted, RtOff, Gate, GateSteps, Basics
  <2> HIDE DEF plain
  <2> QED
    BY <1>2, <2>1, RuntimeKept DEF Kill
<1> QED
  BY <1>1, <1>2 DEF Kill

-----------------------------------------------------------------------------
(* The invariant holds to begin with.                                         *)
LEMMA InitLive ==
    ASSUME Init
    PROVE  LiveInv
<1>1. setup \in Setups /\ log = setup.log /\ rt = RtOff /\ op = OpIdle /\ admitted = {}
  BY DEF Init
<1> DEFINE l == setup.log
<1>2. IsLog(l) /\ \A i \in DOMAIN l : Earned(l, i)
  BY <1>1, SetupsAssumption DEF IsLog
<1>3. log = l
  BY <1>1
<1> HIDE DEF l
<1>4. Records
  BY <1>2, <1>3 DEF Records
<1>5. Sound(op) /\ op.pc = "idle"
  BY <1>1, IdlePending DEF Pending, OpIdle
<1>6. Shapes /\ rt.pc \notin Gate
  BY <1>1, <1>5 DEF Shapes, Sound, Fields, RtOff, Gate, GateSteps, Basics
<1>7. Progress(log, op)
  BY <1>5 DEF Progress
<1> QED
  BY <1>1, <1>4, <1>6, <1>7 DEF LiveInv, Gate

(* Every step keeps the invariant.                                            *)
LEMMA NextLive ==
    ASSUME LiveInv, [Next]_vars
    PROVE  LiveInv'
<1>1. CASE UNCHANGED vars
  BY <1>1 DEF vars, LiveInv, Records, Shapes
<1>2. ASSUME NEW c, RtStart(c) \/ OpPreflight(c) \/ OpSmoke(c) \/ OpSimulate(c) \/ OpAcknowledge(c)
      PROVE  LiveInv'
  BY <1>2, StartKept, PreflightKept, SmokeKept, SimulateKept, AcknowledgeKept
<1> QED
  BY <1>1, <1>2, RuntimeSteps, OperatorSteps, KillKept DEF Next

(* What the ledger holds, what each process has seen of it and what the gate  *)
(* decided fit together at every step (live_runtime_gate, live_preflight,     *)
(* ledger_health_acknowledgement), whoever writes in between and is killed.   *)
THEOREM LiveInvariant == Spec => []LiveInv
<1>1. Init => LiveInv
  BY InitLive
<1>2. LiveInv /\ [Next]_vars => LiveInv'
  BY NextLive
<1> QED
  BY <1>1, <1>2, PTL DEF Spec

(* A live run begins only on evidence and review (StartAdmitted), for every   *)
(* configuration, schedule, order of commands, fault and outage: what the     *)
(* gate of enforce_live_runtime_gate reads off the ledger was earned there.   *)
THEOREM StartsAdmitted == Spec => []StartAdmitted
<1>1. LiveInv => StartAdmitted
  BY DEF LiveInv, Admissible, Simulated, StartAdmitted
<1> QED
  BY <1>1, LiveInvariant, PTL

-----------------------------------------------------------------------------
(* What ledger health complains of.  A log l, with one more record r at h.    *)
Marks(l) == Of(l, "started") \cup Of(l, "stopped")
SameAs(l, i) == {j \in Marks(l) : l[j].component = l[i].component}

(* The starts that nothing of their component follows, and those of them that *)
(* no process R still running has to end.                                     *)
Open(l) == {i \in Of(l, "started") : \A j \in SameAs(l, i) : j <= i}
Orphans(l, R) == {i \in Open(l) : l[i].component \notin R}

(* Health will complain of n starts and stops at the most, whatever begins.   *)
LifecycleOwed(l, R, n) ==
    /\ \A c \in R : \E i \in Open(l) : l[i].component = c
    /\ Cardinality(SystemLifecycle(l)) + Cardinality(Orphans(l, R)) <= n

(* A set of positions that is not empty has a greatest.                       *)
LEMMA LatestOf ==
    ASSUME NEW n \in Nat, NEW S \in SUBSET (1..n), S # {}
    PROVE  Latest(S) \in S /\ \A j \in S : j <= Latest(S)
<1> DEFINE R == OpToRel(<, Nat)
           T == {n - x : x \in S}
<1>1. IsWellFoundedOn(R, Nat)
  BY NatLessThanWellFounded, Zenon
<1>2. \A x, y \in Nat : x < y => <<x, y>> \in R
  BY DEF OpToRel
<1> HIDE DEF R
<1>3. T \in SUBSET Nat /\ T # {}
  <2>1. \A x \in S : n - x \in Nat
    OBVIOUS
  <2> QED
    BY <2>1
<1>4. PICK t \in T : \A y \in T : ~(<<y, t>> \in R)
  BY <1>1, <1>3, WFMin, Zenon
<1>5. \A y \in T : ~(y < t)
  BY <1>2, <1>3, <1>4, Zenon
<1>6. PICK x \in S : t = n - x
  OBVIOUS
<1>7. \A y \in S : y <= x
  <2> TAKE y \in S
  <2>1. n - y \in T /\ ~(n - y < n - x)
    BY <1>5, <1>6
  <2> QED
    BY <2>1
<1> HIDE DEF T
<1>8. \E i \in S : \A j \in S : j <= i
  BY <1>6, <1>7
<1> QED
  BY <1>8, Zenon DEF Latest

(* The greatest is the one that no other exceeds.                             *)
LEMMA LatestIs ==
    ASSUME NEW n \in Nat, NEW S \in SUBSET (1..n), NEW x \in S, \A j \in S : j <= x
    PROVE  Latest(S) = x
<1>1. Latest(S) \in S /\ \A j \in S : j <= Latest(S)
  BY LatestOf
<1>2. \A y \in S : y \in Nat
  OBVIOUS
<1> DEFINE y == Latest(S)
<1>3. y \in S /\ y <= x /\ x <= y
  BY <1>1, Zenon
<1> HIDE DEF y
<1>4. x \in Nat /\ y \in Nat
  BY <1>2, <1>3, Zenon
<1>5. x = y
  BY <1>3, <1>4
<1> QED
  BY <1>5 DEF y

(* Sets of positions are finite.                                              *)
LEMMA Positions ==
    ASSUME NEW l, IsLog(l), NEW S \in SUBSET DOMAIN l
    PROVE  IsFiniteSet(S) /\ Cardinality(S) \in Nat
<1>1. Len(l) \in Nat /\ DOMAIN l = 1..Len(l)
  BY LogFacts
<1>2. IsFiniteSet(DOMAIN l)
  <2>1. 1 \in Int /\ Len(l) \in Int
    BY <1>1
  <2>2. IsFiniteSet(1..Len(l))
    BY <2>1, FS_Interval, Zenon
  <2> QED
    BY <1>1, <2>2, Zenon
<1>3. IsFiniteSet(S)
  BY <1>2, FS_Subset, Zenon
<1> QED
  BY <1>3, FS_CardinalityType, Zenon

(* Counting with one element more or less.                                    *)
LEMMA OneMore ==
    ASSUME NEW S, IsFiniteSet(S), NEW x, NEW T \in SUBSET (S \cup {x})
    PROVE  IsFiniteSet(T) /\ Cardinality(T) \in Nat /\ Cardinality(T) <= Cardinality(S) + 1
<1>1. IsFiniteSet(S \cup {x}) /\ Cardinality(S) \in Nat /\ Cardinality(S \cup {x}) \in Nat
  BY FS_AddElement, FS_CardinalityType, Zenon
<1>2. IsFiniteSet(T) /\ Cardinality(T) <= Cardinality(S \cup {x}) /\ Cardinality(T) \in Nat
  BY <1>1, FS_Subset, FS_CardinalityType, Zenon
<1> DEFINE a == Cardinality(S \cup {x})
           b == Cardinality(S)
<1>3. a = IF x \in S THEN b ELSE b + 1
  BY FS_AddElement, Zenon
<1>4. a <= b + 1
  BY <1>1, <1>3
<1> QED
  BY <1>1, <1>2, <1>4

LEMMA NoMore ==
    ASSUME NEW S, IsFiniteSet(S), NEW T \in SUBSET S
    PROVE  IsFiniteSet(T) /\ Cardinality(T) \in Nat /\ Cardinality(T) <= Cardinality(S)
           /\ Cardinality(S) \in Nat
  BY FS_Subset, FS_CardinalityType, Zenon

LEMMA OneLess ==
    ASSUME NEW S, IsFiniteSet(S), NEW x \in S, NEW T \in SUBSET (S \ {x})
    PROVE  IsFiniteSet(T) /\ Cardinality(T) \in Nat /\ Cardinality(T) + 1 <= Cardinality(S)
<1>1. IsFiniteSet(S \ {x}) /\ Cardinality(S) \in Nat /\ Cardinality(S \ {x}) \in Nat
  BY FS_RemoveElement, FS_CardinalityType, Zenon
<1>2. IsFiniteSet(T) /\ Cardinality(T) <= Cardinality(S \ {x}) /\ Cardinality(T) \in Nat
  BY <1>1, FS_Subset, FS_CardinalityType, Zenon
<1> DEFINE a == Cardinality(S \ {x})
           b == Cardinality(S)
<1>3. a = IF x \in S THEN b - 1 ELSE b
  BY FS_RemoveElement, Zenon
<1>4. a = b - 1
  BY <1>3
<1> QED
  BY <1>1, <1>2, <1>4

(* The records of a type, with one record more.                               *)
LEMMA OfAppended ==
    ASSUME NEW l, IsLog(l), NEW r, NEW t
    PROVE  LET m == Append(l, r)
               h == Len(l) + 1
           IN  /\ Of(m, t) = Of(l, t) \cup (IF r.type = t THEN {h} ELSE {})
               /\ \A i \in DOMAIN l : m[i] = l[i] /\ i \in Nat /\ 0 < i /\ i < h
               /\ m[h] = r /\ h \in Nat /\ h \notin DOMAIN l /\ DOMAIN m = DOMAIN l \cup {h}
               /\ DOMAIN l = 1..Len(l) /\ Len(m) = h /\ IsLog(m)
<1> DEFINE m == Append(l, r)
           h == Len(l) + 1
<1>1. Len(l) \in Nat /\ DOMAIN l = 1..Len(l)
  BY LogFacts
<1>2. Prefix(l, m) /\ Len(m) = h /\ m[h] = r
  BY AppendedLog
<1>3. IsLog(m) /\ DOMAIN m = 1..h /\ \A i \in 1..Len(l) : m[i] = l[i]
  BY <1>2, LogFacts DEF Prefix
<1> HIDE DEF m
<1>4. /\ \A i \in DOMAIN l : m[i] = l[i] /\ i \in Nat /\ 0 < i /\ i < h
      /\ h \in Nat /\ h \notin DOMAIN l /\ DOMAIN m = DOMAIN l \cup {h}
  BY <1>1, <1>3
<1>5. Of(m, t) = Of(l, t) \cup (IF r.type = t THEN {h} ELSE {})
  BY <1>2, <1>4 DEF Of
<1> QED
  BY <1>1, <1>2, <1>3, <1>4, <1>5 DEF m

(* The step before position i in the life of its component.                   *)
Before(l, i) == Latest({j \in Marks(l) : j < i /\ l[j].component = l[i].component})

(* The lifecycle contract, one record at a time.                              *)
LEMMA LifecycleIs ==
    ASSUME NEW l
    PROVE  SystemLifecycle(l) = {i \in Of(l, "started") : Before(l, i) \in Of(l, "started")}
                                  \cup {i \in Of(l, "stopped") : Before(l, i) \notin Of(l, "started")}
  BY DEF SystemLifecycle, Before, Marks

(* What came before a record does not change, and before the new one is the   *)
(* latest of its component.                                                   *)
LEMMA BeforeAppended ==
    ASSUME NEW l, IsLog(l), NEW r
    PROVE  LET m == Append(l, r)
               h == Len(l) + 1
           IN  /\ \A i \in Marks(l) : Before(m, i) = Before(l, i)
               /\ r.type \in {"started", "stopped"} =>
                    (Before(m, h) \in Of(m, "started") <=>
                       \E i \in Open(l) : l[i].component = r.component)
<1> DEFINE m == Append(l, r)
           h == Len(l) + 1
           starts == Of(l, "started")
           N == IF r.type \in {"started", "stopped"} THEN {h} ELSE {}
<1>1. /\ \A i \in DOMAIN l : m[i] = l[i] /\ i \in Nat /\ 0 < i /\ i < h
      /\ m[h] = r /\ h \in Nat /\ h \notin DOMAIN l
      /\ DOMAIN l = 1..Len(l) /\ Len(l) \in Nat
  BY OfAppended, LogFacts
<1>2. Of(m, "started") = starts \cup (IF r.type = "started" THEN {h} ELSE {})
  BY OfAppended
<1>3. Of(m, "stopped") = Of(l, "stopped") \cup (IF r.type = "stopped" THEN {h} ELSE {})
  BY OfAppended
<1> HIDE DEF m, h
<1>4. Marks(m) = Marks(l) \cup N
  BY <1>2, <1>3 DEF Marks
<1>5. Marks(l) \subseteq DOMAIN l /\ starts \subseteq Marks(l)
  BY DEF Marks, Of
<1>6. ASSUME NEW i \in Marks(l) PROVE Before(m, i) = Before(l, i)
  <2>1. ASSUME NEW j PROVE j \in Marks(m) /\ j < i /\ m[j].component = m[i].component
                             <=> j \in Marks(l) /\ j < i /\ l[j].component = l[i].component
    <3>1. i \in Nat /\ i < h /\ m[i] = l[i]
      BY <1>1, <1>5
    <3>2. ~(h < i)
      BY <1>1, <3>1
    <3>3. j \in Marks(l) => m[j] = l[j]
      BY <1>1, <1>5
    <3>4. j \in Marks(m) => j \in Marks(l) \/ j = h
      BY <1>4
    <3> QED
      BY <1>4, <3>1, <3>2, <3>3, <3>4
  <2> QED
    BY <2>1 DEF Before
<1>7. ASSUME r.type \in {"started", "stopped"}
      PROVE  Before(m, h) \in Of(m, "started") <=> \E i \in Open(l) : l[i].component = r.component
  <2> DEFINE S == {j \in Marks(l) : l[j].component = r.component}
  <2>1. ASSUME NEW j PROVE j \in Marks(m) /\ j < h /\ m[j].component = m[h].component <=> j \in S
    <3>1. ~(h < h)
      BY <1>1
    <3>2. j \in Marks(l) => m[j] = l[j] /\ j < h
      BY <1>1, <1>5
    <3>3. j \in Marks(m) => j \in Marks(l) \/ j = h
      BY <1>4
    <3> QED
      BY <1>1, <1>4, <3>1, <3>2, <3>3
  <2>2. Before(m, h) = Latest(S)
    BY <2>1 DEF Before
  <2>3. S \in SUBSET (1..Len(l))
    BY <1>1, <1>5
  <2>4. ASSUME NEW i \in Open(l), l[i].component = r.component PROVE Latest(S) = i /\ i \in starts
    <3>1. i \in starts /\ \A j \in SameAs(l, i) : j <= i
      BY DEF Open
    <3>2. i \in S /\ S = SameAs(l, i)
      BY <1>5, <2>4, <3>1 DEF SameAs
    <3> HIDE DEF S
    <3>3. \A j \in S : j <= i
      BY <3>1, <3>2
    <3> QED
      BY <1>1, <2>3, <3>1, <3>2, <3>3, LatestIs
  <2>5. ASSUME Latest(S) \in starts PROVE Latest(S) \in Open(l) /\ l[Latest(S)].component = r.component
    <3>1. CASE S = {}
      <4>1. Latest(S) = 0
        BY <3>1 DEF Latest
      <4> QED
        BY <1>1, <1>5, <2>5, <4>1
    <3>2. CASE S # {}
      <4>1. Latest(S) \in S /\ \A j \in S : j <= Latest(S)
        BY <1>1, <2>3, <3>2, LatestOf
      <4> DEFINE x == Latest(S)
      <4>2. x \in S /\ l[x].component = r.component
        BY <4>1
      <4>3. SameAs(l, x) = S
        BY <4>2 DEF SameAs
      <4> HIDE DEF x
      <4>4. x \in starts /\ \A j \in SameAs(l, x) : j <= x
        BY <2>5, <4>1, <4>3 DEF x
      <4> QED
        BY <4>2, <4>4 DEF Open, x
    <3> QED
      BY <3>1, <3>2
  <2>6. Latest(S) # h
    <3>1. CASE S = {}
      <4>1. Latest(S) = 0
        BY <3>1 DEF Latest
      <4> QED
        BY <1>1, <4>1 DEF h
    <3>2. CASE S # {}
      <4>1. Latest(S) \in S
        BY <1>1, <2>3, <3>2, LatestOf
      <4>2. Latest(S) \in DOMAIN l
        BY <1>5, <4>1
      <4> QED
        BY <1>1, <4>2
    <3> QED
      BY <3>1, <3>2
  <2>7. Latest(S) \in Of(m, "started") <=> Latest(S) \in starts
    BY <1>2, <2>6
  <2> HIDE DEF S
  <2> QED
    BY <2>2, <2>4, <2>5, <2>7
<1> QED
  BY <1>6, <1>7 DEF m, h

(* What is open, with one record more.                                        *)
LEMMA OpenAppended ==
    ASSUME NEW l, IsLog(l), NEW r
    PROVE  LET m == Append(l, r)
               h == Len(l) + 1
               others == {i \in Open(l) : l[i].component # r.component}
           IN  /\ r.type = "started" => Open(m) = others \cup {h}
               /\ r.type = "stopped" => Open(m) = others
               /\ r.type \notin {"started", "stopped"} => Open(m) = Open(l)
<1> DEFINE m == Append(l, r)
           h == Len(l) + 1
           others == {i \in Open(l) : l[i].component # r.component}
           N == IF r.type \in {"started", "stopped"} THEN {h} ELSE {}
<1>1. /\ \A i \in DOMAIN l : m[i] = l[i] /\ i \in Nat /\ 0 < i /\ i < h
      /\ m[h] = r /\ h \in Nat /\ h \notin DOMAIN l
  BY OfAppended
<1>2. Of(m, "started") = Of(l, "started") \cup (IF r.type = "started" THEN {h} ELSE {})
  BY OfAppended
<1>3. Of(m, "stopped") = Of(l, "stopped") \cup (IF r.type = "stopped" THEN {h} ELSE {})
  BY OfAppended
<1> HIDE DEF m, h
<1>4. Marks(m) = Marks(l) \cup N
  BY <1>2, <1>3 DEF Marks
<1>5. Marks(l) \subseteq DOMAIN l /\ Of(l, "started") \subseteq Marks(l)
  BY DEF Marks, Of
<1>6. ASSUME NEW i \in Of(l, "started")
      PROVE  i \in Open(m) <=> i \in Open(l) /\ (r.type \in {"started", "stopped"} => l[i].component # r.component)
  <2>1. i \in Nat /\ i < h /\ m[i] = l[i] /\ i \in Of(m, "started")
    BY <1>1, <1>2, <1>5
  <2>2. ~(h <= i)
    BY <1>1, <2>1
  <2>3. SameAs(m, i) = SameAs(l, i) \cup {j \in N : r.component = l[i].component}
    <3>1. \A j \in Marks(l) : m[j] = l[j] /\ j # h
      BY <1>1, <1>5
    <3>2. \A j \in N : j = h /\ m[j] = r
      BY <1>1
    <3> QED
      BY <1>4, <2>1, <3>1, <3>2 DEF SameAs
  <2> QED
    BY <2>1, <2>2, <2>3 DEF Open
<1>7. ASSUME r.type = "started" PROVE h \in Open(m)
  <2>1. h \in Of(m, "started")
    BY <1>2, <1>7
  <2>2. \A j \in SameAs(m, h) : j <= h
    BY <1>1, <1>4, <1>5 DEF SameAs
  <2> QED
    BY <2>1, <2>2 DEF Open
<1>8. \A i \in Open(m) : i \in Of(l, "started") \/ (r.type = "started" /\ i = h)
  BY <1>2 DEF Open
<1>9. Open(l) \subseteq Of(l, "started")
  BY DEF Open
<1>10. r.type = "started" => Open(m) = others \cup {h}
  BY <1>6, <1>7, <1>8, <1>9
<1>11. r.type = "stopped" => Open(m) = others
  BY <1>6, <1>8, <1>9
<1>12. r.type \notin {"started", "stopped"} => Open(m) = Open(l)
  BY <1>6, <1>8, <1>9
<1> QED
  BY <1>10, <1>11, <1>12 DEF m, h

(* What health complains of, with one record more.                            *)
LEMMA LifecycleAppended ==
    ASSUME NEW l, IsLog(l), NEW r
    PROVE  LET m == Append(l, r)
               h == Len(l) + 1
               open == \E i \in Open(l) : l[i].component = r.component
           IN  /\ r.type = "started" =>
                    SystemLifecycle(m) = SystemLifecycle(l) \cup (IF open THEN {h} ELSE {})
               /\ r.type = "stopped" =>
                    SystemLifecycle(m) = SystemLifecycle(l) \cup (IF open THEN {} ELSE {h})
               /\ r.type \notin {"started", "stopped"} => SystemLifecycle(m) = SystemLifecycle(l)
<1> DEFINE m == Append(l, r)
           h == Len(l) + 1
           open == \E i \in Open(l) : l[i].component = r.component
<1>1. /\ \A i \in Marks(l) : Before(m, i) = Before(l, i)
      /\ r.type \in {"started", "stopped"} => (Before(m, h) \in Of(m, "started") <=> open)
  BY BeforeAppended
<1>2. Of(m, "started") = Of(l, "started") \cup (IF r.type = "started" THEN {h} ELSE {})
  BY OfAppended
<1>3. Of(m, "stopped") = Of(l, "stopped") \cup (IF r.type = "stopped" THEN {h} ELSE {})
  BY OfAppended
<1>4. ASSUME NEW i \in Marks(l) PROVE Before(l, i) # h
  <2> DEFINE S == {j \in Marks(l) : j < i /\ l[j].component = l[i].component}
  <2>1. Len(l) \in Nat /\ DOMAIN l = 1..Len(l)
    BY LogFacts
  <2>2. S \in SUBSET (1..Len(l))
    BY <2>1 DEF Marks, Of
  <2>3. CASE S = {}
    <3>1. Latest(S) = 0
      BY <2>3 DEF Latest
    <3> QED
      BY <2>1, <3>1 DEF Before
  <2>4. CASE S # {}
    <3>1. Latest(S) \in S
      BY <2>1, <2>2, <2>4, LatestOf
    <3>2. Latest(S) \in 1..Len(l)
      BY <2>2, <3>1
    <3> QED
      BY <2>1, <3>2 DEF Before
  <2> QED
    BY <2>3, <2>4
<1>5. /\ SystemLifecycle(m) = {i \in Of(m, "started") : Before(m, i) \in Of(m, "started")}
                                \cup {i \in Of(m, "stopped") : Before(m, i) \notin Of(m, "started")}
      /\ SystemLifecycle(l) = {i \in Of(l, "started") : Before(l, i) \in Of(l, "started")}
                                \cup {i \in Of(l, "stopped") : Before(l, i) \notin Of(l, "started")}
  BY LifecycleIs
<1>6. Marks(l) = Of(l, "started") \cup Of(l, "stopped")
  BY DEF Marks
<1> HIDE DEF m, h, open
<1>7. \A i \in Marks(l) : Before(m, i) \in Of(m, "started") <=> Before(l, i) \in Of(l, "started")
  BY <1>1, <1>2, <1>4
<1>8. r.type = "started" =>
        SystemLifecycle(m) = SystemLifecycle(l) \cup (IF open THEN {h} ELSE {})
  BY <1>1, <1>2, <1>3, <1>5, <1>6, <1>7
<1>9. r.type = "stopped" =>
        SystemLifecycle(m) = SystemLifecycle(l) \cup (IF open THEN {} ELSE {h})
  BY <1>1, <1>2, <1>3, <1>5, <1>6, <1>7
<1>10. r.type \notin {"started", "stopped"} => SystemLifecycle(m) = SystemLifecycle(l)
  BY <1>1, <1>2, <1>3, <1>5, <1>6, <1>7
<1> QED
  BY <1>8, <1>9, <1>10 DEF m, h, open

(* A component has one open start at the most.                                *)
LEMMA OneOpen ==
    ASSUME NEW l, IsLog(l), NEW i \in Open(l), NEW j \in Open(l), l[i].component = l[j].component
    PROVE  i = j
<1>1. Len(l) \in Nat /\ DOMAIN l = 1..Len(l) /\ Open(l) \subseteq DOMAIN l
  BY LogFacts DEF Open, Of
<1>2. i \in SameAs(l, j) /\ j \in SameAs(l, i)
  BY DEF Open, SameAs, Marks
<1>3. i <= j /\ j <= i
  BY <1>2 DEF Open
<1> QED
  BY <1>1, <1>3

(* What is counted are positions.                                             *)
LEMMA Counted ==
    ASSUME NEW l, IsLog(l), NEW R
    PROVE  /\ SystemLifecycle(l) \subseteq DOMAIN l /\ Orphans(l, R) \subseteq DOMAIN l
           /\ IsFiniteSet(SystemLifecycle(l)) /\ Cardinality(SystemLifecycle(l)) \in Nat
           /\ IsFiniteSet(Orphans(l, R)) /\ Cardinality(Orphans(l, R)) \in Nat
<1>1. SystemLifecycle(l) \subseteq DOMAIN l
  BY LifecycleIs DEF Of
<1>2. Orphans(l, R) \subseteq DOMAIN l
  BY DEF Orphans, Open, Of
<1> QED
  BY <1>1, <1>2, Positions

(* Other records do not matter.                                               *)
LEMMA LifecycleOther ==
    ASSUME NEW l, IsLog(l), NEW r, r.type \notin {"started", "stopped"}, NEW R, NEW n,
           LifecycleOwed(l, R, n)
    PROVE  LifecycleOwed(Append(l, r), R, n)
<1> DEFINE m == Append(l, r)
<1>1. Open(m) = Open(l) /\ SystemLifecycle(m) = SystemLifecycle(l)
  BY OpenAppended, LifecycleAppended
<1>2. \A i \in DOMAIN l : m[i] = l[i]
  BY OfAppended
<1> HIDE DEF m
<1>3. \A i \in Open(l) : m[i].component = l[i].component
  BY <1>2 DEF Open, Of
<1>4. Orphans(m, R) = Orphans(l, R)
  BY <1>1, <1>3 DEF Orphans
<1>5. LifecycleOwed(m, R, n)
  BY <1>1, <1>3, <1>4 DEF LifecycleOwed
<1> QED
  BY <1>5 DEF m

(* A start: of a process that runs from now on, or of none.  An orphan of the *)
(* same component is what health complains of instead.                        *)
LEMMA LifecycleStart ==
    ASSUME NEW l, IsLog(l), NEW r, r.type = "started", NEW R, r.component \notin R, NEW n \in Nat,
           LifecycleOwed(l, R, n)
    PROVE  /\ LifecycleOwed(Append(l, r), R \cup {r.component}, n)
           /\ LifecycleOwed(Append(l, r), R, n + 1)
<1> DEFINE m == Append(l, r)
           h == Len(l) + 1
           c == r.component
           Q == R \cup {c}
           others == {i \in Open(l) : l[i].component # c}
           open == \E i \in Open(l) : l[i].component = c
           A == SystemLifecycle(l)
           B == Orphans(l, R)
           A1 == SystemLifecycle(m)
           B1 == Orphans(m, Q)
           B2 == Orphans(m, R)
<1>1. Open(m) = others \cup {h} /\ A1 = A \cup (IF open THEN {h} ELSE {})
  BY OpenAppended, LifecycleAppended
<1>2. /\ \A i \in DOMAIN l : m[i] = l[i]
      /\ m[h] = r /\ h \notin DOMAIN l /\ IsLog(m)
  <2>1. (\A i \in DOMAIN l : m[i] = l[i]) /\ m[h] = r /\ h \notin DOMAIN l
    BY OfAppended
  <2>2. IsLog(m)
    BY AppendedLog DEF Prefix
  <2> QED
    BY <2>1, <2>2
<1>3. /\ IsFiniteSet(A) /\ Cardinality(A) \in Nat /\ IsFiniteSet(B) /\ Cardinality(B) \in Nat
  BY Counted
<1>4. Cardinality(A) + Cardinality(B) <= n /\ \A d \in R : \E i \in Open(l) : l[i].component = d
  BY DEF LifecycleOwed
<1> HIDE DEF m, h
<1>5. \A i \in Open(l) : m[i] = l[i] /\ i # h
  BY <1>2 DEF Open, Of
<1>6. B1 \subseteq B /\ \A i \in B1 : l[i].component # c
  BY <1>1, <1>2, <1>5 DEF Orphans
<1>7. B2 \subseteq B1 \cup {h}
  BY <1>1, <1>2, <1>5 DEF Orphans
<1>8. \A d \in Q : \E i \in Open(m) : m[i].component = d
  BY <1>1, <1>2, <1>4, <1>5
<1>9. /\ IsFiniteSet(B1) /\ Cardinality(B1) \in Nat /\ IsFiniteSet(A1) /\ Cardinality(A1) \in Nat
      /\ Cardinality(B2) \in Nat
  BY <1>2, Counted
<1>10. Cardinality(A1) + Cardinality(B1) <= n
  <2>1. CASE open
    <3>1. PICK i \in Open(l) : l[i].component = c
      BY <2>1
    <3>2. i \in B /\ i \notin B1
      BY <1>6, <3>1 DEF Orphans
    <3>3. A1 \in SUBSET (A \cup {h}) /\ B1 \in SUBSET (B \ {i})
      BY <1>1, <1>6, <3>2
    <3> HIDE DEF A, B, A1, B1
    <3>4. Cardinality(A1) <= Cardinality(A) + 1 /\ Cardinality(B1) + 1 <= Cardinality(B)
      BY <1>3, <3>2, <3>3, OneMore, OneLess
    <3> QED
      BY <1>3, <1>4, <1>9, <3>4
  <2>2. CASE ~open
    <3>1. A1 = A /\ B1 \in SUBSET B
      BY <1>1, <1>6, <2>2
    <3> HIDE DEF A, B, A1, B1
    <3>2. Cardinality(B1) <= Cardinality(B)
      BY <1>3, <3>1, NoMore
    <3> QED
      BY <1>3, <1>4, <1>9, <3>1, <3>2
  <2> QED
    BY <2>1, <2>2
<1>11. Cardinality(B2) <= Cardinality(B1) + 1
  <2>1. B2 \in SUBSET (B1 \cup {h})
    BY <1>7
  <2> HIDE DEF B1, B2
  <2> QED
    BY <1>9, <2>1, OneMore
<1>12. Cardinality(A1) + Cardinality(B2) <= n + 1
  BY <1>9, <1>10, <1>11
<1>13. LifecycleOwed(m, Q, n)
  BY <1>8, <1>10 DEF LifecycleOwed
<1>14. LifecycleOwed(m, R, n + 1)
  BY <1>8, <1>12 DEF LifecycleOwed
<1> QED
  BY <1>13, <1>14 DEF m

(* The stop of a process that runs.                                           *)
LEMMA LifecycleStop ==
    ASSUME NEW l, IsLog(l), NEW r, r.type = "stopped", NEW R, r.component \in R, NEW n,
           LifecycleOwed(l, R, n)
    PROVE  LifecycleOwed(Append(l, r), R \ {r.component}, n)
<1> DEFINE m == Append(l, r)
           h == Len(l) + 1
           c == r.component
           Q == R \ {c}
           others == {i \in Open(l) : l[i].component # c}
           open == \E i \in Open(l) : l[i].component = c
<1>1. Open(m) = others /\ SystemLifecycle(m) = SystemLifecycle(l) \cup (IF open THEN {} ELSE {h})
  BY OpenAppended, LifecycleAppended
<1>2. \A i \in DOMAIN l : m[i] = l[i]
  BY OfAppended
<1>3. \A d \in R : \E i \in Open(l) : l[i].component = d
  BY DEF LifecycleOwed
<1> HIDE DEF m, h
<1>4. \A i \in Open(l) : m[i] = l[i]
  BY <1>2 DEF Open, Of
<1>5. SystemLifecycle(m) = SystemLifecycle(l)
  BY <1>1, <1>3
<1>6. Orphans(m, Q) = Orphans(l, R)
  BY <1>1, <1>4 DEF Orphans
<1>7. \A d \in Q : \E i \in Open(m) : m[i].component = d
  BY <1>1, <1>3, <1>4
<1>8. LifecycleOwed(m, Q, n)
  BY <1>5, <1>6, <1>7 DEF LifecycleOwed
<1> QED
  BY <1>8 DEF m

(* A process that is gone without its stop leaves an orphan.                  *)
LEMMA LifecycleGone ==
    ASSUME NEW l, IsLog(l), NEW R, NEW c \in R, NEW n \in Nat, LifecycleOwed(l, R, n)
    PROVE  LifecycleOwed(l, R \ {c}, n + 1)
<1> DEFINE Q == R \ {c}
           A == SystemLifecycle(l)
           B == Orphans(l, R)
           B1 == Orphans(l, Q)
<1>1. PICK i \in Open(l) : l[i].component = c
  BY DEF LifecycleOwed
<1>2. \A j \in Open(l) : l[j].component = c => j = i
  BY <1>1, OneOpen
<1>3. B1 \in SUBSET (B \cup {i})
  BY <1>2 DEF Orphans
<1>4. /\ Cardinality(A) \in Nat /\ IsFiniteSet(B) /\ Cardinality(B) \in Nat
      /\ Cardinality(B1) \in Nat
  BY Counted
<1>5. Cardinality(A) + Cardinality(B) <= n /\ \A d \in Q : \E j \in Open(l) : l[j].component = d
  BY DEF LifecycleOwed
<1> HIDE DEF A, B, B1
<1>6. Cardinality(B1) <= Cardinality(B) + 1
  BY <1>3, <1>4, OneMore
<1>7. Cardinality(A) + Cardinality(B1) <= n + 1
  BY <1>4, <1>5, <1>6
<1> QED
  BY <1>5, <1>7 DEF LifecycleOwed, A, B1

(* What is owed stays so with a fault more.                                   *)
LEMMA LifecycleMore ==
    ASSUME NEW l, IsLog(l), NEW R, NEW n \in Nat, LifecycleOwed(l, R, n)
    PROVE  LifecycleOwed(l, R, n + 1)
<1> DEFINE a == Cardinality(SystemLifecycle(l))
           b == Cardinality(Orphans(l, R))
<1>1. a \in Nat /\ b \in Nat /\ a + b <= n
  BY Counted DEF LifecycleOwed
<1> HIDE DEF a, b
<1>2. a + b <= n + 1
  BY <1>1
<1> QED
  BY <1>2 DEF LifecycleOwed, a, b

-----------------------------------------------------------------------------
(* Starts S and their closures C, which are a kind of Unpaired each.  What    *)
(* health will complain of is explained by n faults and the start t in        *)
(* progress, which is still to be closed or was, the fault being counted.     *)
Owed(U, t, n) ==
    IF t = 0 THEN Cardinality(U) <= n
    ELSE IF t \in U THEN Cardinality(U) <= n + 1 ELSE Cardinality(U) + 1 <= n

Paired(l, S, C) == {i \in C : l[i].start \in S /\ l[l[i].start].of = l[i].of}
Firsts(l, S, C) == {i \in Paired(l, S, C) :
                      ~\E j \in Paired(l, S, C) : j < i /\ l[j].start = l[i].start}

Pairs(l, S, C) == /\ S \subseteq DOMAIN l /\ C \subseteq DOMAIN l /\ S \cap C = {}
                  /\ \A i \in C : l[i].start \in DOMAIN l
InProgress(l, S, t, of) == t # 0 => t \in S /\ l[t].of = of

LEMMA UnpairedIs ==
    ASSUME NEW l, NEW S, NEW C
    PROVE  Unpaired(l, S, C) = (C \ Firsts(l, S, C)) \cup (S \ {l[i].start : i \in Firsts(l, S, C)})
  BY DEF Unpaired, Firsts, Paired

(* Unpaired are positions.                                                    *)
LEMMA UnpairedCounted ==
    ASSUME NEW l, IsLog(l), NEW S, NEW C, Pairs(l, S, C)
    PROVE  /\ Unpaired(l, S, C) \subseteq DOMAIN l /\ IsFiniteSet(Unpaired(l, S, C))
           /\ Cardinality(Unpaired(l, S, C)) \in Nat
<1>1. Unpaired(l, S, C) \subseteq DOMAIN l
  BY UnpairedIs DEF Pairs
<1> QED
  BY <1>1, Positions

(* One record more, that is neither start nor closure.                        *)
LEMMA PairsOther ==
    ASSUME NEW l, IsLog(l), NEW r, NEW S, NEW C, Pairs(l, S, C)
    PROVE  LET m == Append(l, r)
           IN  Pairs(m, S, C) /\ Unpaired(m, S, C) = Unpaired(l, S, C)
<1> DEFINE m == Append(l, r)
<1>1. (\A i \in DOMAIN l : m[i] = l[i]) /\ DOMAIN l \subseteq DOMAIN m
  BY OfAppended
<1> HIDE DEF m
<1>2. /\ \A i \in C : m[i] = l[i] /\ m[l[i].start] = l[l[i].start]
      /\ \A i \in S : m[i] = l[i]
  BY <1>1 DEF Pairs
<1>3. Paired(m, S, C) = Paired(l, S, C) /\ Paired(l, S, C) \subseteq C
  BY <1>2 DEF Paired
<1>4. Firsts(m, S, C) = Firsts(l, S, C) /\ Firsts(l, S, C) \subseteq C
  BY <1>2, <1>3 DEF Firsts
<1>5. {m[i].start : i \in Firsts(m, S, C)} = {l[i].start : i \in Firsts(l, S, C)}
  BY <1>2, <1>4
<1>6. Unpaired(m, S, C) = Unpaired(l, S, C)
  BY <1>4, <1>5, UnpairedIs
<1>7. Pairs(m, S, C)
  BY <1>1, <1>2 DEF Pairs
<1> QED
  BY <1>6, <1>7 DEF m

(* m is l with one more record r at h.                                        *)
Grown(l, r, m, h) ==
    /\ \A i \in DOMAIN l : m[i] = l[i] /\ i \in Nat /\ i < h
    /\ DOMAIN m = DOMAIN l \cup {h} /\ h \notin DOMAIN l /\ m[h] = r /\ h \in Nat

LEMMA AppendGrows ==
    ASSUME NEW l, IsLog(l), NEW r
    PROVE  Grown(l, r, Append(l, r), Len(l) + 1)
<1> DEFINE m == Append(l, r)
           h == Len(l) + 1
<1>1. /\ \A i \in DOMAIN l : m[i] = l[i] /\ i \in Nat /\ i < h
      /\ DOMAIN m = DOMAIN l \cup {h} /\ h \notin DOMAIN l /\ m[h] = r /\ h \in Nat
  BY OfAppended
<1> HIDE DEF m, h
<1>2. Grown(l, r, m, h)
  BY <1>1 DEF Grown
<1> QED
  BY <1>2 DEF m, h

(* A start more.                                                              *)
LEMMA PairsStart ==
    ASSUME NEW l, NEW r, NEW m, NEW h, Grown(l, r, m, h), NEW S, NEW C, Pairs(l, S, C)
    PROVE  Pairs(m, S \cup {h}, C) /\ Unpaired(m, S \cup {h}, C) = Unpaired(l, S, C) \cup {h}
<1> DEFINE T == S \cup {h}
<1>1. /\ \A i \in DOMAIN l : m[i] = l[i]
      /\ DOMAIN m = DOMAIN l \cup {h} /\ h \notin DOMAIN l
  BY DEF Grown
<1>2. /\ \A i \in C : m[i] = l[i] /\ m[l[i].start] = l[l[i].start] /\ l[i].start # h /\ i # h
      /\ h \notin S
  BY <1>1 DEF Pairs
<1>3. Paired(m, T, C) = Paired(l, S, C) /\ Paired(l, S, C) \subseteq C
  BY <1>2 DEF Paired
<1>4. Firsts(m, T, C) = Firsts(l, S, C) /\ Firsts(l, S, C) \subseteq C
  BY <1>2, <1>3 DEF Firsts
<1>5. {m[i].start : i \in Firsts(m, T, C)} = {l[i].start : i \in Firsts(l, S, C)}
  BY <1>2, <1>4
<1>6. h \notin {l[i].start : i \in Firsts(l, S, C)}
  BY <1>2, <1>4
<1>7. Unpaired(m, T, C) = Unpaired(l, S, C) \cup {h}
  BY <1>4, <1>5, <1>6, UnpairedIs
<1>8. Pairs(m, T, C)
  BY <1>1, <1>2 DEF Pairs
<1> QED
  BY <1>7, <1>8

(* A closure more, of t: it pairs what was unpaired, or is itself the one     *)
(* closure too many.                                                          *)
Closes(l, r, m, h, S, C, t) ==
    Grown(l, r, m, h) /\ Pairs(l, S, C) /\ t \in S /\ r.start = t /\ l[t].of = r.of

Replaces(U, V, t, h) == /\ t \in U => V = U \ {t}
                        /\ t \notin U => V = U \cup {h}

LEMMA PairsClosure ==
    ASSUME NEW l, NEW r, NEW m, NEW h, NEW S, NEW C, NEW t, Closes(l, r, m, h, S, C, t)
    PROVE  /\ Pairs(m, S, C \cup {h}) /\ h \notin DOMAIN l
           /\ Replaces(Unpaired(l, S, C), Unpaired(m, S, C \cup {h}), t, h)
<1> DEFINE D == C \cup {h}
           U == Unpaired(l, S, C)
           P == Paired(l, S, C)
           F == Firsts(l, S, C)
           closed == {l[i].start : i \in F}
<1>1. /\ \A i \in DOMAIN l : m[i] = l[i] /\ i \in Nat /\ i < h
      /\ DOMAIN m = DOMAIN l \cup {h} /\ h \notin DOMAIN l /\ m[h] = r /\ h \in Nat
  BY DEF Closes, Grown
<1>2. Pairs(l, S, C) /\ t \in S /\ r.start = t /\ l[t].of = r.of
  BY DEF Closes
<1>3. /\ \A i \in C : m[i] = l[i] /\ m[l[i].start] = l[l[i].start] /\ i # h /\ i < h /\ ~(h < i)
      /\ h \notin S /\ m[t] = l[t] /\ ~(h < h)
  BY <1>1, <1>2 DEF Pairs
<1>4. Paired(m, S, D) = P \cup {h} /\ P \subseteq C /\ h \notin P
  <2>1. ASSUME NEW i \in C PROVE i \in Paired(m, S, D) <=> i \in P
    BY <1>3 DEF Paired
  <2>2. h \in Paired(m, S, D)
    BY <1>1, <1>2, <1>3 DEF Paired
  <2>3. Paired(m, S, D) \subseteq C \cup {h} /\ P \subseteq C /\ h \notin P
    BY <1>3 DEF Paired
  <2> QED
    BY <2>1, <2>2, <2>3
<1>5. F \subseteq P /\ h \notin F
  BY <1>4 DEF Firsts
<1>6. (\E i \in P : l[i].start = t) <=> t \in closed
  <2>1. ASSUME NEW i \in P, l[i].start = t PROVE t \in closed
    <3> DEFINE T == {j \in P : l[j].start = t}
    <3>1. T \in SUBSET Nat /\ T # {}
      BY <1>1, <1>2, <1>4, <2>1 DEF Pairs
    <3> DEFINE W == OpToRel(<, Nat)
    <3>2. IsWellFoundedOn(W, Nat)
      BY NatLessThanWellFounded, Zenon
    <3>3. \A x, y \in Nat : x < y => <<x, y>> \in W
      BY DEF OpToRel
    <3> HIDE DEF W, T
    <3>4. PICK j \in T : \A k \in T : ~(<<k, j>> \in W)
      BY <3>1, <3>2, WFMin, Zenon
    <3>5. \A k \in T : ~(k < j)
      BY <3>1, <3>3, <3>4, Zenon
    <3>6. j \in F /\ l[j].start = t
      BY <3>4, <3>5 DEF T, Firsts
    <3> QED
      BY <3>6
  <2>2. ASSUME t \in closed PROVE \E i \in P : l[i].start = t
    BY <1>5, <2>2
  <2> QED
    BY <2>1, <2>2
<1>7. Firsts(m, S, D) = F \cup (IF t \in closed THEN {} ELSE {h})
  <2>1. ASSUME NEW i \in P PROVE i \in Firsts(m, S, D) <=> i \in F
    BY <1>3, <1>4 DEF Firsts
  <2>2. h \in Firsts(m, S, D) <=> t \notin closed
    BY <1>1, <1>2, <1>3, <1>4, <1>6 DEF Firsts
  <2>3. Firsts(m, S, D) \subseteq P \cup {h}
    BY <1>4 DEF Firsts
  <2> QED
    BY <1>5, <2>1, <2>2, <2>3
<1>8. \A i \in F : m[i].start = l[i].start
  BY <1>3, <1>4, <1>5
<1>9. t \in U <=> t \notin closed
  <2>1. t \notin C /\ t \in S
    BY <1>2 DEF Pairs
  <2> QED
    BY <2>1, UnpairedIs
<1>10. ASSUME t \in closed PROVE Unpaired(m, S, D) = U \cup {h}
  <2>1. Firsts(m, S, D) = F
    BY <1>7, <1>10
  <2>2. {m[i].start : i \in Firsts(m, S, D)} = closed
    BY <1>8, <2>1
  <2> QED
    BY <1>5, <2>1, <2>2, UnpairedIs
<1>11. ASSUME t \notin closed PROVE Unpaired(m, S, D) = U \ {t}
  <2>1. Firsts(m, S, D) = F \cup {h}
    BY <1>7, <1>11
  <2>2. {m[i].start : i \in Firsts(m, S, D)} = closed \cup {t}
    <3>1. m[h].start = t
      BY <1>1, <1>2
    <3> HIDE DEF F
    <3>2. {m[i].start : i \in F \cup {h}} = {l[i].start : i \in F} \cup {t}
      BY <1>8, <3>1
    <3> QED
      BY <2>1, <3>2
  <2>3. t \notin C /\ t \in S /\ h \notin S
    BY <1>2, <1>3 DEF Pairs
  <2>4. Unpaired(m, S, D) = (D \ (F \cup {h})) \cup (S \ (closed \cup {t}))
    BY <2>1, <2>2, UnpairedIs
  <2>5. U = (C \ F) \cup (S \ closed)
    BY UnpairedIs
  <2>6. D \ (F \cup {h}) = C \ F
    BY <1>3
  <2> HIDE DEF F, closed, U, D
  <2> QED
    BY <2>3, <2>4, <2>5, <2>6
<1>12. Pairs(m, S, D)
  BY <1>1, <1>2, <1>3 DEF Pairs
<1>13. Replaces(U, Unpaired(m, S, D), t, h)
  BY <1>9, <1>10, <1>11 DEF Replaces
<1> QED
  BY <1>1, <1>12, <1>13

(* The contract, while t is in progress with subject of.                      *)
Closing(l, S, C, t, of, n) ==
    Pairs(l, S, C) /\ InProgress(l, S, t, of) /\ Owed(Unpaired(l, S, C), t, n)

(* A record that is neither; a fault.                                         *)
LEMMA ClosingOther ==
    ASSUME NEW l, IsLog(l), NEW r, NEW S, NEW C, NEW t, NEW of, NEW n, Closing(l, S, C, t, of, n)
    PROVE  Closing(Append(l, r), S, C, t, of, n)
<1> DEFINE m == Append(l, r)
<1>1. Pairs(m, S, C) /\ Unpaired(m, S, C) = Unpaired(l, S, C)
  BY PairsOther DEF Closing
<1>2. \A i \in DOMAIN l : m[i] = l[i]
  BY OfAppended
<1> HIDE DEF m
<1>3. InProgress(m, S, t, of)
  BY <1>2 DEF Closing, InProgress, Pairs
<1> QED
  BY <1>1, <1>3 DEF Closing, m

LEMMA ClosingMore ==
    ASSUME NEW l, IsLog(l), NEW S, NEW C, NEW t, NEW of, NEW n \in Nat, Closing(l, S, C, t, of, n)
    PROVE  Closing(l, S, C, t, of, n + 1)
<1> DEFINE U == Unpaired(l, S, C)
           u == Cardinality(U)
<1>1. u \in Nat /\ Owed(U, t, n)
  BY UnpairedCounted DEF Closing
<1> HIDE DEF U
<1>2. Owed(U, t, n + 1)
  BY <1>1 DEF Owed
<1> QED
  BY <1>2 DEF Closing, U

(* What was in progress is given up.                                          *)
LEMMA ClosingGone ==
    ASSUME NEW l, IsLog(l), NEW S, NEW C, NEW t, NEW of, NEW n \in Nat, Closing(l, S, C, t, of, n)
    PROVE  \A x : Closing(l, S, C, 0, x, n + 1)
<1> DEFINE U == Unpaired(l, S, C)
           u == Cardinality(U)
<1>1. u \in Nat /\ Owed(U, t, n)
  BY UnpairedCounted DEF Closing
<1> HIDE DEF U
<1>2. Owed(U, 0, n + 1)
  BY <1>1 DEF Owed
<1> QED
  BY <1>2 DEF Closing, InProgress, U

(* A start, that goes on or raises.                                           *)
LEMMA ClosingStart ==
    ASSUME NEW l, IsLog(l), NEW r, NEW S, NEW C, NEW of, NEW n \in Nat, Closing(l, S, C, 0, of, n)
    PROVE  LET m == Append(l, r)
               h == Len(l) + 1
           IN  /\ Closing(m, S \cup {h}, C, h, r.of, n)
               /\ \A x : Closing(m, S \cup {h}, C, 0, x, n + 1)
<1> DEFINE m == Append(l, r)
           h == Len(l) + 1
           U == Unpaired(l, S, C)
           V == Unpaired(m, S \cup {h}, C)
<1>1. Pairs(m, S \cup {h}, C) /\ V = U \cup {h}
  <2>1. Pairs(l, S, C)
    BY DEF Closing
  <2>2. Grown(l, r, m, h)
    BY AppendGrows
  <2> HIDE DEF m, h
  <2> QED
    BY <2>1, <2>2, PairsStart
<1>2. m[h] = r /\ h \in Nat /\ h # 0
  BY OfAppended, LogFacts
<1>3. IsFiniteSet(U) /\ Cardinality(U) \in Nat /\ Owed(U, 0, n)
  BY UnpairedCounted DEF Closing
<1> HIDE DEF m, h, U, V
<1>4. V \in SUBSET (U \cup {h}) /\ h \in V
  BY <1>1
<1>5. Cardinality(V) \in Nat /\ Cardinality(V) <= Cardinality(U) + 1
  BY <1>3, <1>4, OneMore
<1>6. Cardinality(V) <= n + 1
  BY <1>3, <1>5 DEF Owed
<1>7. Owed(V, h, n) /\ Owed(V, 0, n + 1)
  <2>1. h # 0
    BY <1>2
  <2> QED
    BY <1>4, <1>6, <2>1 DEF Owed
<1>8. Closing(m, S \cup {h}, C, h, r.of, n)
  BY <1>1, <1>2, <1>7 DEF Closing, InProgress, V
<1>9. \A x : Closing(m, S \cup {h}, C, 0, x, n + 1)
  BY <1>1, <1>7 DEF Closing, InProgress, V
<1> QED
  BY <1>8, <1>9 DEF m, h

(* The closure of what is in progress, that ends it or raises.                *)
LEMMA ClosingClosed ==
    ASSUME NEW l, IsLog(l), NEW r, NEW S, NEW C, NEW t, t # 0, NEW of, NEW n \in Nat,
           Closing(l, S, C, t, of, n), r.start = t, r.of = of
    PROVE  LET m == Append(l, r)
               h == Len(l) + 1
           IN  /\ \A x : Closing(m, S, C \cup {h}, 0, x, n)
               /\ Closing(m, S, C \cup {h}, t, of, n + 1)
<1> DEFINE m == Append(l, r)
           h == Len(l) + 1
           U == Unpaired(l, S, C)
           V == Unpaired(m, S, C \cup {h})
<1>1. t \in S /\ l[t].of = of /\ Pairs(l, S, C)
  BY DEF Closing, InProgress
<1>2. /\ Pairs(m, S, C \cup {h}) /\ h \notin DOMAIN l
      /\ t \in U => V = U \ {t}
      /\ t \notin U => V = U \cup {h}
  <2>1. Grown(l, r, m, h)
    BY AppendGrows
  <2> HIDE DEF m, h
  <2>2. Closes(l, r, m, h, S, C, t)
    BY <1>1, <2>1 DEF Closes
  <2>3. Pairs(m, S, C \cup {h}) /\ h \notin DOMAIN l
    BY <2>2, PairsClosure, Zenon
  <2>4. Replaces(U, V, t, h)
    BY <2>2, PairsClosure, Zenon
  <2> HIDE DEF U, V
  <2> QED
    BY <2>3, <2>4 DEF Replaces
<1>3. m[t] = l[t]
  BY <1>1, OfAppended DEF Pairs
<1>4. IsFiniteSet(U) /\ Cardinality(U) \in Nat /\ Owed(U, t, n)
  BY UnpairedCounted DEF Closing
<1>5. h # t
  BY <1>1, <1>2 DEF Pairs
<1> HIDE DEF m, h, U, V
<1>6. /\ Cardinality(V) \in Nat /\ Cardinality(V) <= n /\ t \notin V
  <2>1. CASE t \in U
    <3>1. V = U \ {t}
      BY <1>2, <2>1
    <3>2. Cardinality(V) \in Nat /\ Cardinality(V) + 1 <= Cardinality(U)
      BY <1>4, <2>1, <3>1, OneLess
    <3> QED
      BY <1>4, <2>1, <3>1, <3>2 DEF Owed
  <2>2. CASE t \notin U
    <3>1. V = U \cup {h}
      BY <1>2, <2>2
    <3>2. Cardinality(V) \in Nat /\ Cardinality(V) <= Cardinality(U) + 1
      BY <1>4, <3>1, OneMore
    <3> QED
      BY <1>4, <1>5, <2>2, <3>1, <3>2 DEF Owed
  <2> QED
    BY <2>1, <2>2
<1>7. Owed(V, 0, n) /\ Owed(V, t, n + 1)
  BY <1>6 DEF Owed
<1>8. \A x : Closing(m, S, C \cup {h}, 0, x, n)
  BY <1>2, <1>7 DEF Closing, InProgress, V
<1>9. Closing(m, S, C \cup {h}, t, of, n + 1)
  BY <1>1, <1>2, <1>3, <1>7 DEF Closing, InProgress, V
<1> QED
  BY <1>8, <1>9 DEF m, h

-----------------------------------------------------------------------------
(* Tasks and evaluations.                                                     *)
IsTaskClosure(r) == r.type = "task_completed" \/ (r.type = "error" /\ r.category = "runtime_task")
TaskClosures(l) == Of(l, "task_completed") \cup {i \in Of(l, "error") : l[i].category = "runtime_task"}
TaskOwed(l, t, of, n) == Closing(l, Of(l, "task_started"), TaskClosures(l), t, of, n)

StrategyEnds == {"strategy_completed", "strategy_failed"}
StrategyClosures(l) == Of(l, "strategy_completed") \cup Of(l, "strategy_failed")
StrategyOwed(l, t, n) == Closing(l, Of(l, "strategy_started"), StrategyClosures(l), t, "strategy", n)

(* The closures, with one record more.                                        *)
LEMMA ClosuresAppended ==
    ASSUME NEW l, IsLog(l), NEW r
    PROVE  LET m == Append(l, r)
               h == Len(l) + 1
           IN  /\ TaskClosures(m) = TaskClosures(l) \cup (IF IsTaskClosure(r) THEN {h} ELSE {})
               /\ StrategyClosures(m)
                    = StrategyClosures(l) \cup (IF r.type \in StrategyEnds THEN {h} ELSE {})
<1> DEFINE m == Append(l, r)
           h == Len(l) + 1
<1>1. (\A i \in DOMAIN l : m[i] = l[i]) /\ m[h] = r
  BY OfAppended
<1>2. Of(m, "task_completed") = Of(l, "task_completed") \cup (IF r.type = "task_completed" THEN {h} ELSE {})
  BY OfAppended
<1>3. Of(m, "error") = Of(l, "error") \cup (IF r.type = "error" THEN {h} ELSE {})
  BY OfAppended
<1>4. /\ Of(m, "strategy_completed")
           = Of(l, "strategy_completed") \cup (IF r.type = "strategy_completed" THEN {h} ELSE {})
      /\ Of(m, "strategy_failed")
           = Of(l, "strategy_failed") \cup (IF r.type = "strategy_failed" THEN {h} ELSE {})
  BY OfAppended
<1> HIDE DEF m, h
<1>5. \A i \in Of(l, "error") : m[i] = l[i]
  BY <1>1 DEF Of
<1>6. {i \in Of(m, "error") : m[i].category = "runtime_task"}
        = {i \in Of(l, "error") : l[i].category = "runtime_task"}
            \cup (IF r.type = "error" /\ r.category = "runtime_task" THEN {h} ELSE {})
  BY <1>1, <1>3, <1>5
<1>7. TaskClosures(m) = TaskClosures(l) \cup (IF IsTaskClosure(r) THEN {h} ELSE {})
  BY <1>2, <1>6 DEF TaskClosures, IsTaskClosure
<1>8. StrategyClosures(m) = StrategyClosures(l) \cup (IF r.type \in StrategyEnds THEN {h} ELSE {})
  BY <1>4 DEF StrategyClosures, StrategyEnds
<1> QED
  BY <1>7, <1>8 DEF m, h

(* What a record does to the contract of the tasks.                           *)
LEMMA TaskRecords ==
    ASSUME NEW l, IsLog(l), NEW r, NEW t, NEW of, NEW n \in Nat, TaskOwed(l, t, of, n)
    PROVE  LET m == Append(l, r)
               h == Len(l) + 1
           IN  /\ r.type # "task_started" /\ ~IsTaskClosure(r) => TaskOwed(m, t, of, n)
               /\ r.type = "task_started" /\ t = 0 =>
                    TaskOwed(m, h, r.of, n) /\ \A x : TaskOwed(m, 0, x, n + 1)
               /\ IsTaskClosure(r) /\ t # 0 /\ r.start = t /\ r.of = of =>
                    TaskOwed(m, t, of, n + 1) /\ \A x : TaskOwed(m, 0, x, n)
<1> DEFINE m == Append(l, r)
           h == Len(l) + 1
           S == Of(l, "task_started")
           C == TaskClosures(l)
<1>1. Of(m, "task_started") = S \cup (IF r.type = "task_started" THEN {h} ELSE {})
  BY OfAppended
<1>2. TaskClosures(m) = C \cup (IF IsTaskClosure(r) THEN {h} ELSE {})
  BY ClosuresAppended
<1>3. Closing(l, S, C, t, of, n)
  BY DEF TaskOwed
<1> HIDE DEF S, C
<1>4. ASSUME r.type # "task_started", ~IsTaskClosure(r) PROVE TaskOwed(m, t, of, n)
  <2>1. Of(m, "task_started") = S /\ TaskClosures(m) = C
    BY <1>1, <1>2, <1>4
  <2>2. Closing(m, S, C, t, of, n)
    BY <1>3, ClosingOther
  <2> HIDE DEF m
  <2> QED
    BY <2>1, <2>2 DEF TaskOwed
<1>5. ASSUME r.type = "task_started", t = 0
      PROVE  TaskOwed(m, h, r.of, n) /\ \A x : TaskOwed(m, 0, x, n + 1)
  <2>1. Of(m, "task_started") = S \cup {h} /\ TaskClosures(m) = C
    BY <1>1, <1>2, <1>5 DEF IsTaskClosure
  <2>2. Closing(m, S \cup {h}, C, h, r.of, n) /\ \A x : Closing(m, S \cup {h}, C, 0, x, n + 1)
    BY <1>3, <1>5, ClosingStart
  <2> HIDE DEF m, h
  <2> QED
    BY <2>1, <2>2 DEF TaskOwed
<1>6. ASSUME IsTaskClosure(r), t # 0, r.start = t, r.of = of
      PROVE  TaskOwed(m, t, of, n + 1) /\ \A x : TaskOwed(m, 0, x, n)
  <2>1. Of(m, "task_started") = S /\ TaskClosures(m) = C \cup {h}
    BY <1>1, <1>2, <1>6 DEF IsTaskClosure
  <2>2. Closing(m, S, C \cup {h}, t, of, n + 1) /\ \A x : Closing(m, S, C \cup {h}, 0, x, n)
    BY <1>3, <1>6, ClosingClosed
  <2> HIDE DEF m, h
  <2> QED
    BY <2>1, <2>2 DEF TaskOwed
<1> QED
  BY <1>4, <1>5, <1>6

(* And to the one of the evaluations.                                         *)
LEMMA StrategyRecords ==
    ASSUME NEW l, IsLog(l), NEW r, NEW t, NEW n \in Nat, StrategyOwed(l, t, n)
    PROVE  LET m == Append(l, r)
               h == Len(l) + 1
           IN  /\ r.type # "strategy_started" /\ r.type \notin StrategyEnds => StrategyOwed(m, t, n)
               /\ r.type = "strategy_started" /\ t = 0 /\ r.of = "strategy" =>
                    StrategyOwed(m, h, n) /\ StrategyOwed(m, 0, n + 1)
               /\ r.type \in StrategyEnds /\ t # 0 /\ r.start = t /\ r.of = "strategy" =>
                    StrategyOwed(m, t, n + 1) /\ StrategyOwed(m, 0, n)
<1> DEFINE m == Append(l, r)
           h == Len(l) + 1
           S == Of(l, "strategy_started")
           C == StrategyClosures(l)
<1>1. Of(m, "strategy_started") = S \cup (IF r.type = "strategy_started" THEN {h} ELSE {})
  BY OfAppended
<1>2. StrategyClosures(m) = C \cup (IF r.type \in StrategyEnds THEN {h} ELSE {})
  BY ClosuresAppended
<1>3. Closing(l, S, C, t, "strategy", n)
  BY DEF StrategyOwed
<1> HIDE DEF S, C
<1>4. ASSUME r.type # "strategy_started", r.type \notin StrategyEnds PROVE StrategyOwed(m, t, n)
  <2>1. Of(m, "strategy_started") = S /\ StrategyClosures(m) = C
    BY <1>1, <1>2, <1>4
  <2>2. Closing(m, S, C, t, "strategy", n)
    BY <1>3, ClosingOther
  <2> HIDE DEF m
  <2> QED
    BY <2>1, <2>2 DEF StrategyOwed
<1>5. ASSUME r.type = "strategy_started", t = 0, r.of = "strategy"
      PROVE  StrategyOwed(m, h, n) /\ StrategyOwed(m, 0, n + 1)
  <2>1. Of(m, "strategy_started") = S \cup {h} /\ StrategyClosures(m) = C
    BY <1>1, <1>2, <1>5 DEF StrategyEnds
  <2>2. Closing(m, S \cup {h}, C, h, r.of, n) /\ \A x : Closing(m, S \cup {h}, C, 0, x, n + 1)
    BY <1>3, <1>5, ClosingStart
  <2> HIDE DEF m, h
  <2> QED
    BY <1>5, <2>1, <2>2 DEF StrategyOwed
<1>6. ASSUME r.type \in StrategyEnds, t # 0, r.start = t, r.of = "strategy"
      PROVE  StrategyOwed(m, t, n + 1) /\ StrategyOwed(m, 0, n)
  <2>1. Of(m, "strategy_started") = S /\ StrategyClosures(m) = C \cup {h}
    BY <1>1, <1>2, <1>6 DEF StrategyEnds
  <2>2. Closing(m, S, C \cup {h}, t, "strategy", n + 1) /\ \A x : Closing(m, S, C \cup {h}, 0, x, n)
    BY <1>3, <1>6, ClosingClosed
  <2> HIDE DEF m, h
  <2> QED
    BY <2>1, <2>2 DEF StrategyOwed
<1> QED
  BY <1>4, <1>5, <1>6

-----------------------------------------------------------------------------
(* What the processes are about, which fits what they still owe.              *)
Evaluating == {"evaluating", "strategy_error", "strategy_failed"}
Working == {"task", "closing", "failing"} \cup Evaluating
Control ==
    /\ {"pc", "config", "read", "fit", "queue", "cycles", "begun", "task", "strat", "bot", "crash", "saw"}
         \subseteq DOMAIN rt
    /\ rt.begun \in BOOLEAN /\ (rt.begun <=> rt.pc \in Working \cup {"loop", "stopping"})
    /\ rt.task # 0 <=> rt.pc \in Working
    /\ rt.strat # 0 <=> rt.pc \in Evaluating
    /\ op.start # 0 => op.pc \in {"feed", "exchange"}
    /\ {"n", "outages", "lifecycle", "task", "strategy"} \subseteq DOMAIN faults
    /\ faults.lifecycle \in Nat /\ faults.task \in Nat /\ faults.strategy \in Nat

(* The components that run.                                                   *)
Running(begun, o) == (IF begun THEN {"orchestrator"} ELSE {})
                       \cup (IF o.start # 0 THEN {o.pc} ELSE {})

(* The operator's result records, and what they will be made of.              *)
SoundRecord(r) ==
    /\ r.type = "simulation" => SimulationValid(r)
    /\ r.type = "preflight" => PreflightValid(r)
    /\ r.type = "acknowledged" => AcknowledgementValid(r)
    /\ r.type = "health" => HealthResultValid(r)
Results(o) ==
    /\ o.pc = "simulated" => o.result.failed \in {0, 1} /\ o.result.rejected \in {0, 1}
    /\ o.pc = "reviewed" => o.saw.through > 0
    /\ o.pc \in {"catalog", "feed", "exchange"} /\ o.aggregate
         => \A i \in DOMAIN o.statuses : o.statuses[i] = "ok"
    /\ o.pc = "record" => /\ \A i \in 1..(Len(o.statuses) - 1) : o.statuses[i] = "ok"
                          /\ o.statuses[Len(o.statuses)] = "ok" => Len(o.statuses) = 4

LifecycleNow == LifecycleOwed(log, Running(rt.begun, op), faults.lifecycle)
TasksNow == TaskOwed(log, rt.task, Head(rt.queue), faults.task)
StrategiesNow == StrategyOwed(log, rt.strat, faults.strategy)
RecordsSound == \A i \in DOMAIN log : SoundRecord(log[i])
HealthInv ==
    Control /\ LifecycleNow /\ TasksNow /\ StrategiesNow /\ RecordsSound /\ Results(op)

(* A ledger whose runs ended in order owes nothing.                           *)
LEMMA SettledOwes ==
    ASSUME NEW l, IsLog(l), Settled(l)
    PROVE  /\ LifecycleOwed(l, {}, 0) /\ \A x : TaskOwed(l, 0, x, 0) /\ StrategyOwed(l, 0, 0)
           /\ \A i \in DOMAIN l : SoundRecord(l[i])
<1>1. Len(l) \in Nat /\ DOMAIN l = 1..Len(l)
  BY LogFacts
<1>2. Cardinality({}) = 0
  BY FS_EmptySet, Zenon
<1>3. LifecycleOwed(l, {}, 0)
  <2>1. SystemLifecycle(l) = {}
    BY DEF Settled
  <2>2. ASSUME NEW i \in Open(l) PROVE FALSE
    <3>1. i \in Of(l, "started") /\ \A j \in SameAs(l, i) : j <= i
      BY DEF Open
    <3>2. PICK j \in Of(l, "stopped") : j > i /\ l[j].component = l[i].component
      BY <3>1 DEF Settled
    <3>3. j \in SameAs(l, i)
      BY <3>2 DEF SameAs, Marks
    <3>4. i \in Nat /\ j \in Nat
      BY <1>1, <3>1, <3>2 DEF Of
    <3> QED
      BY <3>1, <3>2, <3>3, <3>4
  <2>3. Orphans(l, {}) = {}
    BY <2>2 DEF Orphans
  <2> QED
    BY <1>2, <2>1, <2>3 DEF LifecycleOwed
<1>4. ASSUME NEW S, NEW C, S \subseteq DOMAIN l, C \subseteq DOMAIN l, S \cap C = {},
             Unpaired(l, S, C) = {}
      PROVE  \A x : Closing(l, S, C, 0, x, 0)
  <2>1. C \subseteq Paired(l, S, C)
    BY <1>4, UnpairedIs DEF Firsts
  <2>2. Pairs(l, S, C)
    BY <1>4, <2>1 DEF Pairs, Paired
  <2> QED
    BY <1>2, <1>4, <2>2 DEF Closing, InProgress, Owed
<1>5. \A x : TaskOwed(l, 0, x, 0)
  <2>1. Unpaired(l, Of(l, "task_started"), TaskClosures(l)) = {}
    BY DEF Settled, RuntimeTasks, TaskClosures
  <2>2. /\ Of(l, "task_started") \subseteq DOMAIN l /\ TaskClosures(l) \subseteq DOMAIN l
        /\ Of(l, "task_started") \cap TaskClosures(l) = {}
    BY DEF Of, TaskClosures
  <2> QED
    BY <1>4, <2>1, <2>2 DEF TaskOwed
<1>6. StrategyOwed(l, 0, 0)
  <2>1. Unpaired(l, Of(l, "strategy_started"), StrategyClosures(l)) = {}
    BY DEF Settled, StrategyEvaluations, StrategyClosures
  <2>2. /\ Of(l, "strategy_started") \subseteq DOMAIN l /\ StrategyClosures(l) \subseteq DOMAIN l
        /\ Of(l, "strategy_started") \cap StrategyClosures(l) = {}
    BY DEF Of, StrategyClosures
  <2> QED
    BY <1>4, <2>1, <2>2 DEF StrategyOwed
<1>7. ASSUME NEW i \in DOMAIN l PROVE SoundRecord(l[i])
  BY DEF Settled, Invalid, Of, SoundRecord
<1> QED
  BY <1>3, <1>5, <1>6, <1>7

(* And is what the processes begin on.                                        *)
LEMMA InitHealth == Init => HealthInv
<1> SUFFICES ASSUME Init PROVE HealthInv
  OBVIOUS
<1>1. IsLog(log)
  BY InitLive DEF LiveInv, Records
<1>2. Settled(log)
  BY SettledAssumption DEF Init
<1>3. /\ LifecycleOwed(log, {}, 0) /\ \A x : TaskOwed(log, 0, x, 0) /\ StrategyOwed(log, 0, 0)
      /\ \A i \in DOMAIN log : SoundRecord(log[i])
  BY <1>1, <1>2, SettledOwes
<1>4. Control
  BY DEF Init, Control, RtOff, OpIdle, Working, Evaluating
<1>5. rt.begun = FALSE /\ rt.task = 0 /\ rt.strat = 0 /\ op.start = 0 /\ op.pc = "idle"
  BY DEF Init, RtOff, OpIdle
<1>6. faults.lifecycle = 0 /\ faults.task = 0 /\ faults.strategy = 0
  BY DEF Init
<1>7. Running(rt.begun, op) = {}
  BY <1>5 DEF Running
<1>8. Results(op)
  BY <1>5 DEF Results
<1>9. LifecycleNow /\ TasksNow /\ StrategiesNow /\ RecordsSound
  BY <1>3, <1>5, <1>6, <1>7 DEF LifecycleNow, TasksNow, StrategiesNow, RecordsSound
<1> QED
  BY <1>4, <1>8, <1>9 DEF HealthInv

(* It is what explains the complaints.                                        *)
LEMMA HealthInvExplains ==
    ASSUME IsLog(log), HealthInv
    PROVE  HealthExplained
<1> DEFINE n == Counts(log)
           a == Cardinality(SystemLifecycle(log))
           b == Cardinality(Orphans(log, Running(rt.begun, op)))
<1>1. n.lifecycle <= faults.lifecycle
  <2>1. a \in Nat /\ b \in Nat /\ a + b <= faults.lifecycle /\ faults.lifecycle \in Nat
    BY Counted DEF HealthInv, LifecycleNow, LifecycleOwed, Control
  <2>2. n.lifecycle = a
    BY DEF Counts
  <2> HIDE DEF a, b
  <2> QED
    BY <2>1, <2>2
<1>2. ASSUME NEW S, NEW C, NEW t, NEW of, NEW k \in Nat, Closing(log, S, C, t, of, k)
      PROVE  Cardinality(Unpaired(log, S, C)) <= k + One(t # 0)
  <2>1. Cardinality(Unpaired(log, S, C)) \in Nat
    BY <1>2, UnpairedCounted DEF Closing
  <2>2. Owed(Unpaired(log, S, C), t, k)
    BY <1>2 DEF Closing
  <2> QED
    BY <2>1, <2>2 DEF Owed, One
<1>3. n.task <= faults.task + One(rt.task # 0)
  <2>1. TaskOwed(log, rt.task, Head(rt.queue), faults.task) /\ faults.task \in Nat
    BY DEF HealthInv, TasksNow, Control
  <2>2. n.task = Cardinality(Unpaired(log, Of(log, "task_started"), TaskClosures(log)))
    BY DEF Counts, RuntimeTasks, TaskClosures
  <2> QED
    BY <1>2, <2>1, <2>2 DEF TaskOwed
<1>4. n.strategy <= faults.strategy + One(rt.strat # 0)
  <2>1. StrategyOwed(log, rt.strat, faults.strategy) /\ faults.strategy \in Nat
    BY DEF HealthInv, StrategiesNow, Control
  <2>2. n.strategy = Cardinality(Unpaired(log, Of(log, "strategy_started"), StrategyClosures(log)))
    BY DEF Counts, StrategyEvaluations, StrategyClosures
  <2> QED
    BY <1>2, <2>1, <2>2 DEF StrategyOwed
<1>5. n.simulation = 0 /\ n.preflight = 0 /\ n.acknowledgement = 0 /\ n.health = 0
  <2>1. \A i \in DOMAIN log : SoundRecord(log[i])
    BY DEF HealthInv, RecordsSound
  <2>2. /\ Invalid(log, "simulation", SimulationValid) = {}
        /\ Invalid(log, "preflight", PreflightValid) = {}
        /\ Invalid(log, "acknowledged", AcknowledgementValid) = {}
        /\ Invalid(log, "health", HealthResultValid) = {}
    BY <2>1 DEF Invalid, Of, SoundRecord
  <2>3. Cardinality({}) = 0
    BY FS_EmptySet, Zenon
  <2> QED
    BY <2>2, <2>3 DEF Counts
<1> HIDE DEF n
<1>6. n.simulation + n.preflight + n.acknowledgement + n.health = 0
  BY <1>5
<1> QED
  BY <1>1, <1>3, <1>4, <1>6 DEF HealthExplained, n

(* What one step keeps of each contract.                                      *)
LEMMA LifecycleKept ==
    ASSUME IsLog(log), LifecycleNow, NEW r, Emitted(r), r.type \notin {"started", "stopped"},
           Running(rt'.begun, op') = Running(rt.begun, op), faults'.lifecycle = faults.lifecycle
    PROVE  LifecycleNow'
<1> DEFINE R == Running(rt.begun, op)
           n == faults.lifecycle
<1>1. LifecycleOwed(log, R, n)
  BY DEF LifecycleNow
<1> HIDE DEF R, n
<1>2. LifecycleOwed(Append(log, r), R, n)
  BY <1>1, LifecycleOther
<1>3. LifecycleOwed(log', R, n)
  BY <1>1, <1>2 DEF Emitted
<1> QED
  BY <1>3 DEF LifecycleNow, R, n

(* Without a task, whatever is next.                                          *)
LEMMA NoTask ==
    ASSUME NEW l, NEW of, NEW n, TaskOwed(l, 0, of, n)
    PROVE  \A x : TaskOwed(l, 0, x, n)
  BY DEF TaskOwed, Closing, InProgress

LEMMA TasksKept ==
    ASSUME IsLog(log), TasksNow, NEW r, Emitted(r), r.type # "task_started", ~IsTaskClosure(r),
           rt'.task = rt.task, rt.task # 0 => Head(rt'.queue) = Head(rt.queue),
           faults.task \in Nat, faults'.task = faults.task
    PROVE  TasksNow'
<1> DEFINE t == rt.task
           of == Head(rt.queue)
           n == faults.task
<1>1. TaskOwed(log, t, of, n)
  BY DEF TasksNow
<1>2. n \in Nat
  OBVIOUS
<1> HIDE DEF t, of, n
<1>3. TaskOwed(Append(log, r), t, of, n)
  BY <1>1, <1>2, TaskRecords
<1>4. TaskOwed(log', t, of, n)
  BY <1>1, <1>3 DEF Emitted
<1>5. TaskOwed(log', t, Head(rt'.queue), n)
  <2>1. CASE t = 0
    BY <1>4, <2>1, NoTask
  <2>2. CASE t # 0
    BY <1>4, <2>2 DEF t, of
  <2> QED
    BY <2>1, <2>2
<1> QED
  BY <1>5 DEF TasksNow, t, n

LEMMA StrategiesKept ==
    ASSUME IsLog(log), StrategiesNow, NEW r, Emitted(r),
           r.type # "strategy_started", r.type \notin StrategyEnds,
           rt'.strat = rt.strat, faults.strategy \in Nat, faults'.strategy = faults.strategy
    PROVE  StrategiesNow'
<1> DEFINE t == rt.strat
           n == faults.strategy
<1>1. StrategyOwed(log, t, n)
  BY DEF StrategiesNow
<1>2. n \in Nat
  OBVIOUS
<1> HIDE DEF t, n
<1>3. StrategyOwed(Append(log, r), t, n)
  BY <1>1, <1>2, StrategyRecords
<1>4. StrategyOwed(log', t, n)
  BY <1>1, <1>3 DEF Emitted
<1> QED
  BY <1>4 DEF StrategiesNow, t, n

LEMMA SoundKept ==
    ASSUME IsLog(log), RecordsSound, NEW r, Emitted(r), SoundRecord(r)
    PROVE  RecordsSound'
<1> DEFINE m == Append(log, r)
           h == Len(log) + 1
<1>1. /\ \A i \in DOMAIN log : m[i] = log[i]
      /\ m[h] = r /\ DOMAIN m = DOMAIN log \cup {h}
  BY OfAppended
<1> HIDE DEF m, h
<1>2. \A i \in DOMAIN m : SoundRecord(m[i])
  BY <1>1 DEF RecordsSound
<1> QED
  BY <1>2 DEF RecordsSound, Emitted, m

(* The records that no contract here is about.                                *)
Plain(r) == /\ r.type \notin {"started", "stopped", "task_started", "strategy_started"} \cup StrategyEnds
            /\ ~IsTaskClosure(r)

(* A step with such a record, or without one, that ends nothing.              *)
LEMMA PlainKept ==
    ASSUME IsLog(log), HealthInv, NEW r, Emitted(r), Plain(r), SoundRecord(r), Control', Results(op'),
           Running(rt'.begun, op') = Running(rt.begun, op),
           rt'.task = rt.task, rt.task # 0 => Head(rt'.queue) = Head(rt.queue), rt'.strat = rt.strat,
           faults'.lifecycle = faults.lifecycle, faults'.task = faults.task,
           faults'.strategy = faults.strategy
    PROVE  HealthInv'
<1>1. /\ r.type \notin {"started", "stopped"} /\ r.type # "task_started" /\ ~IsTaskClosure(r)
      /\ r.type # "strategy_started" /\ r.type \notin StrategyEnds
  BY DEF Plain
<1>2. LifecycleNow'
  BY <1>1, LifecycleKept DEF HealthInv
<1>3. TasksNow'
  BY <1>1, TasksKept DEF HealthInv, Control
<1>4. StrategiesNow'
  BY <1>1, StrategiesKept DEF HealthInv, Control
<1>5. RecordsSound'
  BY SoundKept DEF HealthInv
<1> QED
  BY <1>2, <1>3, <1>4, <1>5 DEF HealthInv

(* Or without any.                                                            *)
LEMMA SilentKept ==
    ASSUME IsLog(log), HealthInv, log' = log, Control', Results(op'),
           Running(rt'.begun, op') = Running(rt.begun, op),
           rt'.task = rt.task, rt.task # 0 => Head(rt'.queue) = Head(rt.queue), rt'.strat = rt.strat,
           faults'.lifecycle = faults.lifecycle, faults'.task = faults.task,
           faults'.strategy = faults.strategy
    PROVE  HealthInv'
<1> DEFINE r == [type |-> "products"]
<1>1. Emitted(r) /\ Plain(r) /\ SoundRecord(r)
  BY DEF Emitted, Plain, IsTaskClosure, StrategyEnds, SoundRecord
<1> HIDE DEF r
<1> QED
  BY <1>1, PlainKept

-----------------------------------------------------------------------------
(* The steps of the runtime.                                                  *)
RtShape == {"pc", "config", "read", "fit", "queue", "cycles", "begun", "task", "strat", "bot", "crash", "saw"}

(* One that touches no contract: with a record, ...                           *)
LEMMA RuntimePlain ==
    ASSUME LiveInv, HealthInv, NEW r, Emitted(r), Plain(r), SoundRecord(r), op' = op, Control',
           rt'.begun = rt.begun, rt'.task = rt.task, rt'.strat = rt.strat,
           rt.task # 0 => rt'.queue = rt.queue,
           faults'.lifecycle = faults.lifecycle, faults'.task = faults.task,
           faults'.strategy = faults.strategy
    PROVE  HealthInv'
<1>1. IsLog(log) /\ Results(op')
  BY DEF LiveInv, Records, HealthInv
<1>2. Running(rt'.begun, op') = Running(rt.begun, op)
  OBVIOUS
<1>3. rt.task # 0 => Head(rt'.queue) = Head(rt.queue)
  OBVIOUS
<1> QED
  BY <1>1, <1>2, <1>3, PlainKept

(* ... or without.                                                            *)
LEMMA RuntimeSilent ==
    ASSUME LiveInv, HealthInv, log' = log, op' = op, Control',
           rt'.begun = rt.begun, rt'.task = rt.task, rt'.strat = rt.strat,
           rt.task # 0 => rt'.queue = rt.queue,
           faults'.lifecycle = faults.lifecycle, faults'.task = faults.task,
           faults'.strategy = faults.strategy
    PROVE  HealthInv'
<1> DEFINE r == [type |-> "products"]
<1>1. Emitted(r) /\ Plain(r) /\ SoundRecord(r)
  BY DEF Emitted, Plain, IsTaskClosure, StrategyEnds, SoundRecord
<1> HIDE DEF r
<1> QED
  BY <1>1, RuntimePlain

RtGates == RtGateHealth \/ RtGateReview \/ RtGatePreflight \/ RtGateSimulation
LEMMA HealthQuietly ==
    ASSUME LiveInv, HealthInv, RtGates \/ RtAssemblyFails \/ RtLeaveLoop \/ RtWake \/ RtCheckHealth
                                 \/ Stop \/ \E c \in todo : RtStart(c)
    PROVE  HealthInv'
<1>1. Control
  BY DEF HealthInv
<1>2. ASSUME log' = log, op' = op, Control',
             rt'.begun = rt.begun, rt'.task = rt.task, rt'.strat = rt.strat,
             rt.task # 0 => rt'.queue = rt.queue,
             faults'.lifecycle = faults.lifecycle, faults'.task = faults.task,
             faults'.strategy = faults.strategy
      PROVE  HealthInv'
  BY <1>2, RuntimeSilent
<1>3. CASE RtAssemblyFails
  <2>1. log' = log /\ op' = op
    BY <1>3 DEF RtAssemblyFails
  <2>2. /\ Control' /\ rt'.begun = rt.begun /\ rt'.task = rt.task /\ rt'.strat = rt.strat
        /\ rt'.queue = rt.queue
        /\ faults'.lifecycle = faults.lifecycle /\ faults'.task = faults.task
        /\ faults'.strategy = faults.strategy
    BY <1>1, <1>3 DEF RtAssemblyFails, Control, Working, Evaluating
  <2> QED
    BY <1>2, <2>1, <2>2
<1>4. CASE RtLeaveLoop
  <2>1. log' = log /\ op' = op /\ faults' = faults
    BY <1>4 DEF RtLeaveLoop
  <2>2. /\ Control' /\ rt'.begun = rt.begun /\ rt'.task = rt.task /\ rt'.strat = rt.strat
        /\ rt'.queue = rt.queue
    BY <1>1, <1>4 DEF RtLeaveLoop, Control, Working, Evaluating
  <2> QED
    BY <1>2, <2>1, <2>2
<1>5. CASE RtWake
  <2>1. log' = log /\ op' = op /\ faults' = faults
    BY <1>5 DEF RtWake
  <2>2. PICK q : rt' = [rt EXCEPT !.queue = q] /\ rt.pc = "loop"
    BY <1>5 DEF RtWake
  <2>3. /\ Control' /\ rt'.begun = rt.begun /\ rt'.task = rt.task /\ rt'.strat = rt.strat
        /\ rt.task = 0
    BY <1>1, <2>1, <2>2 DEF Control, Working, Evaluating
  <2> QED
    BY <1>2, <2>1, <2>3
<1>6. CASE RtCheckHealth
  <2>1. log' = log /\ op' = op /\ faults' = faults
    BY <1>6 DEF RtCheckHealth
  <2>2. /\ Control' /\ rt'.begun = rt.begun /\ rt'.task = rt.task /\ rt'.strat = rt.strat
        /\ rt'.queue = rt.queue
    BY <1>1, <1>6 DEF RtCheckHealth, Control, Working, Evaluating
  <2> QED
    BY <1>2, <2>1, <2>2
<1>7. CASE Stop
  <2>1. log' = log /\ op' = op /\ faults' = faults /\ rt' = rt
    BY <1>7 DEF Stop
  <2>2. Control'
    BY <1>1, <2>1 DEF Control
  <2> QED
    BY <1>2, <2>1, <2>2
<1>8. CASE \E c \in todo : RtStart(c)
  <2>1. PICK c : RtStart(c)
    BY <1>8
  <2>2. log' = log /\ op' = op /\ faults' = faults /\ rt.pc = "off"
    BY <2>1 DEF RtStart
  <2>3. PICK pc \in {"admitted", "gate_health"} :
          rt' = [RtOff EXCEPT !.pc = pc, !.config = c.config, !.fit = SafetyGate(c.config)]
    BY <2>1 DEF RtStart
  <2>4. /\ Control' /\ rt'.begun = FALSE /\ rt'.task = 0 /\ rt'.strat = 0
    BY <1>1, <2>2, <2>3 DEF Control, Working, Evaluating, RtOff
  <2>5. rt.begun = FALSE /\ rt.task = 0 /\ rt.strat = 0
    BY <1>1, <2>2 DEF Control, Working, Evaluating
  <2> QED
    BY <1>2, <2>2, <2>4, <2>5
<1>9. CASE RtGates
  <2>1. log' = log /\ op' = op /\ faults' = faults
    BY <1>9 DEF RtGates, RtGateHealth, RtGateReview, RtGatePreflight, RtGateSimulation
  <2>2. /\ DOMAIN rt' = DOMAIN rt /\ rt'.begun = rt.begun /\ rt'.task = rt.task
        /\ rt'.strat = rt.strat /\ rt'.queue = rt.queue
        /\ rt'.pc \in {"gate_review", "gate_preflight", "gate_simulation", "admitted", "refused"}
        /\ rt.pc \in GateSteps
    <3>1. CASE RtGateHealth
      BY <1>1, <3>1 DEF RtGateHealth, Control, GateSteps
    <3>2. CASE RtGateReview
      BY <1>1, <3>2 DEF RtGateReview, Control, GateSteps
    <3>3. CASE RtGatePreflight
      BY <1>1, <3>3 DEF RtGatePreflight, Control, GateSteps
    <3>4. CASE RtGateSimulation
      BY <1>1, <3>4 DEF RtGateSimulation, Control, GateSteps
    <3> QED
      BY <1>9, <3>1, <3>2, <3>3, <3>4 DEF RtGates
  <2>3. Control'
    BY <1>1, <2>1, <2>2 DEF Control, Working, Evaluating, GateSteps
  <2> QED
    BY <1>2, <2>1, <2>2, <2>3
<1> QED
  BY <1>3, <1>4, <1>5, <1>6, <1>7, <1>8, <1>9

(* With a record.                                                             *)
LEMMA HealthPlainly ==
    ASSUME LiveInv, HealthInv, RtRefuse \/ RtErring \/ RtReportHealth \/ RtCatalog
    PROVE  HealthInv'
<1>1. Control
  BY DEF HealthInv
<1>2. CASE RtRefuse
  <2> DEFINE r == Error("config", "", 0)
  <2>1. Emitted(r) /\ Plain(r) /\ SoundRecord(r) /\ op' = op
    BY <1>2 DEF RtRefuse, Emits, RaisesFreely, Emitted, Plain, IsTaskClosure, StrategyEnds, SoundRecord, Error
  <2>2. /\ faults'.lifecycle = faults.lifecycle /\ faults'.task = faults.task
        /\ faults'.strategy = faults.strategy
        /\ {"n", "outages", "lifecycle", "task", "strategy"} \subseteq DOMAIN faults'
    BY <1>1, <1>2 DEF RtRefuse, Emits, RaisesFreely, Control
  <2>3. rt.pc = "refused" /\ rt' = RtOff
    BY <1>2 DEF RtRefuse
  <2>4. /\ Control' /\ rt'.begun = rt.begun /\ rt'.task = rt.task /\ rt'.strat = rt.strat /\ rt.task = 0
    BY <1>1, <2>1, <2>2, <2>3 DEF Control, Working, Evaluating, RtOff
  <2> HIDE DEF r
  <2> QED
    BY <2>1, <2>2, <2>4, RuntimePlain
<1>3. CASE RtErring
  <2> DEFINE r == Error("unexpected", "", 0)
  <2>1. Emitted(r) /\ Plain(r) /\ SoundRecord(r) /\ op' = op
    BY <1>3 DEF RtErring, Emits, RaisesFreely, Emitted, Plain, IsTaskClosure, StrategyEnds, SoundRecord, Error
  <2>2. /\ faults'.lifecycle = faults.lifecycle /\ faults'.task = faults.task
        /\ faults'.strategy = faults.strategy
        /\ {"n", "outages", "lifecycle", "task", "strategy"} \subseteq DOMAIN faults'
    BY <1>1, <1>3 DEF RtErring, Emits, RaisesFreely, Control
  <2>3. rt.pc = "erring" /\ rt' = RtOff
    BY <1>3 DEF RtErring
  <2>4. /\ Control' /\ rt'.begun = rt.begun /\ rt'.task = rt.task /\ rt'.strat = rt.strat /\ rt.task = 0
    BY <1>1, <2>1, <2>2, <2>3 DEF Control, Working, Evaluating, RtOff
  <2> HIDE DEF r
  <2> QED
    BY <2>1, <2>2, <2>4, RuntimePlain
<1>4. CASE RtReportHealth
  <2> DEFINE r == [type |-> "health", checks |-> rt.saw,
                   status |-> IF rt.saw = {} THEN "ok" ELSE "attention"]
  <2>1. Emitted(r) /\ op' = op
    BY <1>4 DEF RtReportHealth, Emits, RaisesFreely, Emitted
  <2>2. Plain(r) /\ SoundRecord(r)
    BY DEF Plain, IsTaskClosure, StrategyEnds, SoundRecord, HealthResultValid
  <2>3. /\ faults'.lifecycle = faults.lifecycle /\ faults'.task = faults.task
        /\ faults'.strategy = faults.strategy
        /\ {"n", "outages", "lifecycle", "task", "strategy"} \subseteq DOMAIN faults'
    BY <1>1, <1>4 DEF RtReportHealth, Emits, RaisesFreely, Control
  <2>4. rt.pc = "reporting" /\ rt' = RtOff
    BY <1>4 DEF RtReportHealth
  <2>5. /\ Control' /\ rt'.begun = rt.begun /\ rt'.task = rt.task /\ rt'.strat = rt.strat /\ rt.task = 0
    BY <1>1, <2>1, <2>3, <2>4 DEF Control, Working, Evaluating, RtOff
  <2> HIDE DEF r
  <2> QED
    BY <2>1, <2>2, <2>3, <2>5, RuntimePlain
<1>5. CASE RtCatalog
  <2> DEFINE r == [type |-> "products"]
  <2>1. Emitted(r) /\ Plain(r) /\ SoundRecord(r) /\ op' = op
    BY <1>5 DEF RtCatalog, Emits, RaisesFreely, Emitted, Plain, IsTaskClosure, StrategyEnds, SoundRecord
  <2>2. /\ faults'.lifecycle = faults.lifecycle /\ faults'.task = faults.task
        /\ faults'.strategy = faults.strategy
        /\ {"n", "outages", "lifecycle", "task", "strategy"} \subseteq DOMAIN faults'
    BY <1>1, <1>5 DEF RtCatalog, Emits, RaisesFreely, Outage, Control
  <2>3. /\ rt.pc = "task" /\ rt'.pc \in {"closing", "failing"} /\ RtShape \subseteq DOMAIN rt'
        /\ rt'.begun = rt.begun /\ rt'.task = rt.task /\ rt'.strat = rt.strat /\ rt'.queue = rt.queue
    BY <1>1, <1>5 DEF RtCatalog, Control, RtShape
  <2>4. Control'
    BY <1>1, <2>1, <2>2, <2>3 DEF Control, Working, Evaluating, RtShape
  <2> HIDE DEF r
  <2> QED
    BY <2>1, <2>2, <2>3, <2>4, RuntimePlain
<1> QED
  BY <1>2, <1>3, <1>4, <1>5

(* A start of component c, that none running has: it runs, or was raised.     *)
LEMMA LifecycleBegins ==
    ASSUME IsLog(log), LifecycleNow, NEW r, r.type = "started",
           r.component \notin Running(rt.begun, op), faults.lifecycle \in Nat
    PROVE  /\ log' = Append(log, r) /\ faults'.lifecycle = faults.lifecycle
              /\ Running(rt'.begun, op') = Running(rt.begun, op) \cup {r.component} => LifecycleNow'
           /\ Emitted(r) /\ faults'.lifecycle = faults.lifecycle + 1
              /\ Running(rt'.begun, op') = Running(rt.begun, op) => LifecycleNow'
<1> DEFINE R == Running(rt.begun, op)
           n == faults.lifecycle
           m == Append(log, r)
<1>1. LifecycleOwed(log, R, n)
  BY DEF LifecycleNow
<1>2. n \in Nat /\ r.component \notin R
  OBVIOUS
<1> HIDE DEF R, n
<1>3. LifecycleOwed(m, R \cup {r.component}, n) /\ LifecycleOwed(m, R, n + 1)
  BY <1>1, <1>2, LifecycleStart
<1>4. LifecycleOwed(log, R, n + 1)
  BY <1>1, <1>2, LifecycleMore
<1> HIDE DEF m
<1>5. ASSUME log' = m, faults'.lifecycle = n, Running(rt'.begun, op') = R \cup {r.component}
      PROVE  LifecycleNow'
  BY <1>3, <1>5 DEF LifecycleNow
<1>6. ASSUME Emitted(r), faults'.lifecycle = n + 1, Running(rt'.begun, op') = R
      PROVE  LifecycleNow'
  <2>1. LifecycleOwed(log', R, n + 1)
    BY <1>3, <1>4, <1>6 DEF Emitted, m
  <2> QED
    BY <1>6, <2>1 DEF LifecycleNow
<1> QED
  BY <1>5, <1>6 DEF R, n, m

(* Its stop, or its end without one.                                          *)
LEMMA LifecycleEnds ==
    ASSUME IsLog(log), LifecycleNow, NEW r, r.type = "stopped",
           r.component \in Running(rt.begun, op), faults.lifecycle \in Nat,
           Running(rt'.begun, op') = Running(rt.begun, op) \ {r.component},
           \/ log' = Append(log, r) /\ faults'.lifecycle = faults.lifecycle
           \/ Emitted(r) /\ faults'.lifecycle = faults.lifecycle + 1
    PROVE  LifecycleNow'
<1> DEFINE R == Running(rt.begun, op)
           Q == R \ {r.component}
           n == faults.lifecycle
           m == Append(log, r)
<1>1. LifecycleOwed(log, R, n)
  BY DEF LifecycleNow
<1>2. n \in Nat /\ r.component \in R
  OBVIOUS
<1>3. Running(rt'.begun, op') = Q
  OBVIOUS
<1> HIDE DEF R, n
<1>4. LifecycleOwed(m, Q, n)
  BY <1>1, <1>2, LifecycleStop
<1>5. LifecycleOwed(log, Q, n + 1)
  BY <1>1, <1>2, LifecycleGone
<1> HIDE DEF Q
<1>6. IsLog(m)
  BY AppendedLog DEF Prefix
<1> HIDE DEF m
<1>7. LifecycleOwed(m, Q, n + 1)
  BY <1>2, <1>4, <1>6, LifecycleMore
<1>8. CASE log' = m /\ faults'.lifecycle = n
  BY <1>3, <1>4, <1>8 DEF LifecycleNow
<1>9. CASE Emitted(r) /\ faults'.lifecycle = n + 1
  <2>1. LifecycleOwed(log', Q, n + 1)
    BY <1>5, <1>7, <1>9 DEF Emitted, m
  <2> QED
    BY <1>3, <1>9, <2>1 DEF LifecycleNow
<1> QED
  BY <1>8, <1>9 DEF n, m

(* The other contracts, at such a step.                                       *)
LEMMA LifecycleOnly ==
    ASSUME LiveInv, HealthInv, NEW r, Emitted(r), r.type \in {"started", "stopped"},
           rt'.task = rt.task, rt.task # 0 => rt'.queue = rt.queue, rt'.strat = rt.strat,
           faults'.task = faults.task, faults'.strategy = faults.strategy
    PROVE  TasksNow' /\ StrategiesNow' /\ RecordsSound'
<1>1. /\ r.type # "task_started" /\ ~IsTaskClosure(r) /\ r.type # "strategy_started"
      /\ r.type \notin StrategyEnds /\ SoundRecord(r)
  BY DEF IsTaskClosure, StrategyEnds, SoundRecord
<1>2. IsLog(log)
  BY DEF LiveInv, Records
<1>3. TasksNow'
  <2>1. rt.task # 0 => Head(rt'.queue) = Head(rt.queue)
    OBVIOUS
  <2> QED
    BY <1>1, <1>2, <2>1, TasksKept DEF HealthInv, Control
<1>4. StrategiesNow'
  BY <1>1, <1>2, StrategiesKept DEF HealthInv, Control
<1>5. RecordsSound'
  BY <1>1, <1>2, SoundKept DEF HealthInv
<1> QED
  BY <1>3, <1>4, <1>5

LEMMA HealthBegins ==
    ASSUME LiveInv, HealthInv, RtBegin
    PROVE  HealthInv'
<1> DEFINE r == Started("orchestrator", rt.config)
<1>1. Control /\ LifecycleNow /\ IsLog(log) /\ faults.lifecycle \in Nat
  BY DEF HealthInv, LiveInv, Records, Control
<1>2. r.type = "started" /\ r.component = "orchestrator"
  BY DEF Started
<1>3. rt.pc = "admitted" /\ op' = op /\ rt.begun = FALSE /\ rt.task = 0 /\ rt.strat = 0
  BY <1>1 DEF RtBegin, Control, Working, Evaluating
<1>4. "orchestrator" \notin Running(rt.begun, op)
  BY <1>1, <1>3 DEF Running, Control
<1>5. \/ /\ log' = Append(log, r) /\ faults' = faults
         /\ rt' = [rt EXCEPT !.pc = "loop", !.begun = TRUE, !.queue = setup.tasks]
      \/ /\ Emitted(r) /\ faults' = [faults EXCEPT !.n = @ + 1, !.lifecycle = @ + 1]
         /\ rt' = [rt EXCEPT !.pc = "erring"]
  BY DEF RtBegin, Emits, Raises, Emitted
<1> HIDE DEF r
<1>6. /\ Emitted(r) /\ RtShape \subseteq DOMAIN rt'
      /\ rt'.task = 0 /\ rt'.strat = 0
      /\ {"n", "outages", "lifecycle", "task", "strategy"} \subseteq DOMAIN faults'
      /\ faults'.task = faults.task /\ faults'.strategy = faults.strategy
      /\ \/ rt'.pc = "loop" /\ rt'.begun = TRUE /\ faults'.lifecycle = faults.lifecycle
            /\ log' = Append(log, r)
         \/ rt'.pc = "erring" /\ rt'.begun = FALSE /\ faults'.lifecycle = faults.lifecycle + 1
  BY <1>1, <1>3, <1>5 DEF Control, RtShape, Emitted
<1>7. Control'
  <2>1. rt'.begun \in BOOLEAN /\ (rt'.begun <=> rt'.pc \in Working \cup {"loop", "stopping"})
    BY <1>6 DEF Working, Evaluating
  <2>2. /\ rt'.task # 0 <=> rt'.pc \in Working
        /\ rt'.strat # 0 <=> rt'.pc \in Evaluating
    BY <1>6 DEF Working, Evaluating
  <2>3. op'.start # 0 => op'.pc \in {"feed", "exchange"}
    BY <1>1, <1>3 DEF Control
  <2>4. faults'.lifecycle \in Nat /\ faults'.task \in Nat /\ faults'.strategy \in Nat
    BY <1>1, <1>6 DEF Control
  <2> QED
    BY <1>6, <2>1, <2>2, <2>3, <2>4 DEF Control, RtShape
<1>8. LifecycleNow'
  <2>1. CASE rt'.begun = TRUE
    <3>1. Running(rt'.begun, op') = Running(rt.begun, op) \cup {r.component}
      BY <1>2, <1>3, <2>1 DEF Running
    <3> QED
      BY <1>1, <1>2, <1>4, <1>6, <2>1, <3>1, LifecycleBegins
  <2>2. CASE rt'.begun = FALSE
    <3>1. Running(rt'.begun, op') = Running(rt.begun, op)
      BY <1>3, <2>2
    <3> QED
      BY <1>1, <1>2, <1>4, <1>6, <2>2, <3>1, LifecycleBegins
  <2> QED
    BY <1>6, <2>1, <2>2
<1>9. TasksNow' /\ StrategiesNow' /\ RecordsSound'
  <2>1. r.type \in {"started", "stopped"} /\ rt'.task = rt.task /\ rt'.strat = rt.strat
        /\ (rt.task # 0 => rt'.queue = rt.queue)
    BY <1>2, <1>3, <1>6
  <2> QED
    BY <1>6, <2>1, LifecycleOnly, Zenon
<1>10. Results(op')
  BY <1>3 DEF HealthInv
<1> QED
  BY <1>7, <1>8, <1>9, <1>10 DEF HealthInv

LEMMA HealthEnds ==
    ASSUME LiveInv, HealthInv, RtStop
    PROVE  HealthInv'
<1> DEFINE r == Stopped("orchestrator")
<1>1. Control /\ LifecycleNow /\ IsLog(log) /\ faults.lifecycle \in Nat
  BY DEF HealthInv, LiveInv, Records, Control
<1>2. r.type = "stopped" /\ r.component = "orchestrator"
  BY DEF Stopped
<1>3. rt.pc = "stopping" /\ op' = op /\ rt.begun = TRUE /\ rt.task = 0 /\ rt.strat = 0
  BY <1>1 DEF RtStop, Control, Working, Evaluating
<1>4. r.component \in Running(rt.begun, op)
  BY <1>2, <1>3 DEF Running
<1>5. \/ /\ log' = Append(log, r) /\ faults' = faults
         /\ rt' = [rt EXCEPT !.pc = IF rt.crash THEN "erring" ELSE "checking", !.begun = FALSE]
      \/ /\ Emitted(r) /\ faults' = [faults EXCEPT !.n = @ + 1, !.lifecycle = @ + 1]
         /\ rt' = [rt EXCEPT !.pc = "erring", !.begun = FALSE]
  BY DEF RtStop, Emits, Raises, Emitted
<1> HIDE DEF r
<1>6. /\ Emitted(r) /\ RtShape \subseteq DOMAIN rt'
      /\ rt'.task = 0 /\ rt'.strat = 0 /\ rt'.begun = FALSE /\ rt'.pc \in {"erring", "checking"}
      /\ {"n", "outages", "lifecycle", "task", "strategy"} \subseteq DOMAIN faults'
      /\ faults'.task = faults.task /\ faults'.strategy = faults.strategy
      /\ \/ faults'.lifecycle = faults.lifecycle /\ log' = Append(log, r)
         \/ faults'.lifecycle = faults.lifecycle + 1
  BY <1>1, <1>3, <1>5 DEF Control, RtShape, Emitted
<1>7. Control'
  <2>1. rt'.begun \in BOOLEAN /\ (rt'.begun <=> rt'.pc \in Working \cup {"loop", "stopping"})
    BY <1>6 DEF Working, Evaluating
  <2>2. /\ rt'.task # 0 <=> rt'.pc \in Working
        /\ rt'.strat # 0 <=> rt'.pc \in Evaluating
    BY <1>6 DEF Working, Evaluating
  <2>3. op'.start # 0 => op'.pc \in {"feed", "exchange"}
    BY <1>1, <1>3 DEF Control
  <2>4. faults'.lifecycle \in Nat /\ faults'.task \in Nat /\ faults'.strategy \in Nat
    BY <1>1, <1>6 DEF Control
  <2> QED
    BY <1>6, <2>1, <2>2, <2>3, <2>4 DEF Control, RtShape
<1>8. LifecycleNow'
  <2>1. Running(rt'.begun, op') = Running(rt.begun, op) \ {r.component}
    BY <1>1, <1>2, <1>3, <1>6 DEF Running, Control
  <2> QED
    BY <1>1, <1>2, <1>4, <1>6, <2>1, LifecycleEnds
<1>9. TasksNow' /\ StrategiesNow' /\ RecordsSound'
  <2>1. r.type \in {"started", "stopped"} /\ rt'.task = rt.task /\ rt'.strat = rt.strat
        /\ (rt.task # 0 => rt'.queue = rt.queue)
    BY <1>2, <1>3, <1>6
  <2> QED
    BY <1>6, <2>1, LifecycleOnly, Zenon
<1>10. Results(op')
  BY <1>3 DEF HealthInv
<1> QED
  BY <1>7, <1>8, <1>9, <1>10 DEF HealthInv

(* A fault more: what is in progress is still to be closed, or given up.      *)
LEMMA TaskFault ==
    ASSUME NEW l, IsLog(l), NEW t, NEW of, NEW n \in Nat, TaskOwed(l, t, of, n)
    PROVE  TaskOwed(l, t, of, n + 1) /\ \A x : TaskOwed(l, 0, x, n + 1)
<1> DEFINE S == Of(l, "task_started")
           C == TaskClosures(l)
<1>1. Closing(l, S, C, t, of, n)
  BY DEF TaskOwed
<1> HIDE DEF S, C
<1>2. Closing(l, S, C, t, of, n + 1) /\ \A x : Closing(l, S, C, 0, x, n + 1)
  BY <1>1, ClosingMore, ClosingGone
<1> QED
  BY <1>2 DEF TaskOwed, S, C

LEMMA StrategyFault ==
    ASSUME NEW l, IsLog(l), NEW t, NEW n \in Nat, StrategyOwed(l, t, n)
    PROVE  StrategyOwed(l, t, n + 1) /\ StrategyOwed(l, 0, n + 1)
<1> DEFINE S == Of(l, "strategy_started")
           C == StrategyClosures(l)
<1>1. Closing(l, S, C, t, "strategy", n)
  BY DEF StrategyOwed
<1> HIDE DEF S, C
<1>2. Closing(l, S, C, t, "strategy", n + 1) /\ \A x : Closing(l, S, C, 0, x, n + 1)
  BY <1>1, ClosingMore, ClosingGone
<1> QED
  BY <1>2 DEF StrategyOwed, S, C

(* The task begins, or its start is raised.                                   *)
LEMMA TaskBegins ==
    ASSUME IsLog(log), TasksNow, rt.task = 0, faults.task \in Nat,
           NEW r, r.type = "task_started", r.of = Head(rt.queue),
           \/ /\ log' = Append(log, r) /\ faults'.task = faults.task
              /\ rt'.task = Len(log) + 1 /\ rt'.queue = rt.queue
           \/ Emitted(r) /\ faults'.task = faults.task + 1 /\ rt'.task = 0
    PROVE  TasksNow'
<1> DEFINE n == faults.task
           of == Head(rt.queue)
           m == Append(log, r)
           h == Len(log) + 1
<1>1. TaskOwed(log, 0, of, n) /\ n \in Nat
  BY DEF TasksNow
<1> HIDE DEF of, n
<1>2. TaskOwed(m, h, r.of, n) /\ \A x : TaskOwed(m, 0, x, n + 1)
  BY <1>1, TaskRecords
<1>3. \A x : TaskOwed(log, 0, x, n + 1)
  BY <1>1, TaskFault
<1> HIDE DEF m, h
<1>4. CASE log' = m /\ faults'.task = n /\ rt'.task = h /\ rt'.queue = rt.queue
  BY <1>2, <1>4 DEF TasksNow
<1>5. CASE Emitted(r) /\ faults'.task = n + 1 /\ rt'.task = 0
  BY <1>2, <1>3, <1>5 DEF TasksNow, Emitted, m
<1> QED
  BY <1>4, <1>5 DEF n, m, h

(* It completes, or fails, or neither.                                        *)
LEMMA TaskEnds ==
    ASSUME IsLog(log), TasksNow, rt.task # 0, faults.task \in Nat,
           NEW r, IsTaskClosure(r), r.start = rt.task, r.of = Head(rt.queue),
           \/ log' = Append(log, r) /\ faults'.task = faults.task /\ rt'.task = 0
           \/ /\ Emitted(r) /\ faults'.task = faults.task + 1
              /\ rt'.task = 0 \/ (rt'.task = rt.task /\ rt'.queue = rt.queue)
    PROVE  TasksNow'
<1> DEFINE n == faults.task
           of == Head(rt.queue)
           t == rt.task
           m == Append(log, r)
<1>1. TaskOwed(log, t, of, n) /\ n \in Nat /\ t # 0 /\ r.start = t /\ r.of = of
  BY DEF TasksNow
<1>2. t = rt.task /\ of = Head(rt.queue)
  OBVIOUS
<1> HIDE DEF of, n, t
<1>3. TaskOwed(m, t, of, n + 1) /\ \A x : TaskOwed(m, 0, x, n)
  BY <1>1, TaskRecords
<1>4. TaskOwed(log, t, of, n + 1) /\ \A x : TaskOwed(log, 0, x, n + 1)
  BY <1>1, TaskFault
<1>5. IsLog(m)
  BY AppendedLog DEF Prefix
<1> HIDE DEF m
<1>6. \A x : TaskOwed(m, 0, x, n + 1)
  BY <1>1, <1>3, <1>5, TaskFault
<1>7. CASE log' = m /\ faults'.task = n /\ rt'.task = 0
  BY <1>3, <1>7 DEF TasksNow
<1>8. CASE Emitted(r) /\ faults'.task = n + 1 /\ rt'.task = 0
  BY <1>4, <1>6, <1>8 DEF TasksNow, Emitted, m
<1>9. CASE Emitted(r) /\ faults'.task = n + 1 /\ rt'.task = rt.task /\ rt'.queue = rt.queue
  <2>1. TaskOwed(log', t, of, n + 1)
    BY <1>3, <1>4, <1>9 DEF Emitted, m
  <2> QED
    BY <1>2, <1>9, <2>1 DEF TasksNow
<1> QED
  BY <1>7, <1>8, <1>9 DEF n, m

(* It is given up, with a record that does not close it, or none.             *)
LEMMA TaskGone ==
    ASSUME IsLog(log), TasksNow, faults.task \in Nat,
           NEW r, ~IsTaskClosure(r), r.type # "task_started", Emitted(r),
           faults'.task = faults.task + 1, rt'.task = 0
    PROVE  TasksNow'
<1> DEFINE n == faults.task
           of == Head(rt.queue)
           t == rt.task
           m == Append(log, r)
<1>1. TaskOwed(log, t, of, n) /\ n \in Nat /\ faults'.task = n + 1
  BY DEF TasksNow
<1> HIDE DEF of, n, t
<1>2. TaskOwed(m, t, of, n)
  BY <1>1, TaskRecords
<1>3. \A x : TaskOwed(log, 0, x, n + 1)
  BY <1>1, TaskFault
<1>4. IsLog(m)
  BY AppendedLog DEF Prefix
<1> HIDE DEF m
<1>5. \A x : TaskOwed(m, 0, x, n + 1)
  BY <1>1, <1>2, <1>4, TaskFault
<1> QED
  BY <1>1, <1>3, <1>5 DEF TasksNow, Emitted, m

(* The same of an evaluation.                                                 *)
LEMMA StrategyBegins ==
    ASSUME IsLog(log), StrategiesNow, rt.strat = 0, faults.strategy \in Nat,
           NEW r, r.type = "strategy_started", r.of = "strategy",
           \/ log' = Append(log, r) /\ faults'.strategy = faults.strategy /\ rt'.strat = Len(log) + 1
           \/ Emitted(r) /\ faults'.strategy = faults.strategy + 1 /\ rt'.strat = 0
    PROVE  StrategiesNow'
<1> DEFINE n == faults.strategy
           m == Append(log, r)
           h == Len(log) + 1
<1>1. StrategyOwed(log, 0, n) /\ n \in Nat
  BY DEF StrategiesNow
<1> HIDE DEF n
<1>2. StrategyOwed(m, h, n) /\ StrategyOwed(m, 0, n + 1)
  BY <1>1, StrategyRecords
<1>3. StrategyOwed(log, 0, n + 1)
  BY <1>1, StrategyFault
<1> HIDE DEF m, h
<1>4. CASE log' = m /\ faults'.strategy = n /\ rt'.strat = h
  BY <1>2, <1>4 DEF StrategiesNow
<1>5. CASE Emitted(r) /\ faults'.strategy = n + 1 /\ rt'.strat = 0
  BY <1>2, <1>3, <1>5 DEF StrategiesNow, Emitted, m
<1> QED
  BY <1>4, <1>5 DEF n, m, h

LEMMA StrategyEnding ==
    ASSUME IsLog(log), StrategiesNow, rt.strat # 0, faults.strategy \in Nat,
           NEW r, r.type \in StrategyEnds, r.start = rt.strat, r.of = "strategy",
           \/ log' = Append(log, r) /\ faults'.strategy = faults.strategy /\ rt'.strat = 0
           \/ /\ Emitted(r) /\ faults'.strategy = faults.strategy + 1
              /\ rt'.strat = 0 \/ rt'.strat = rt.strat
    PROVE  StrategiesNow'
<1> DEFINE n == faults.strategy
           t == rt.strat
           m == Append(log, r)
<1>1. StrategyOwed(log, t, n) /\ n \in Nat /\ t # 0 /\ r.start = t
  BY DEF StrategiesNow
<1>2. t = rt.strat
  OBVIOUS
<1> HIDE DEF n, t
<1>3. StrategyOwed(m, t, n + 1) /\ StrategyOwed(m, 0, n)
  BY <1>1, StrategyRecords
<1>4. StrategyOwed(log, t, n + 1) /\ StrategyOwed(log, 0, n + 1)
  BY <1>1, StrategyFault
<1>5. IsLog(m)
  BY AppendedLog DEF Prefix
<1> HIDE DEF m
<1>6. StrategyOwed(m, 0, n + 1)
  BY <1>1, <1>3, <1>5, StrategyFault
<1>7. CASE log' = m /\ faults'.strategy = n /\ rt'.strat = 0
  BY <1>3, <1>7 DEF StrategiesNow
<1>8. CASE Emitted(r) /\ faults'.strategy = n + 1 /\ rt'.strat = 0
  BY <1>4, <1>6, <1>8 DEF StrategiesNow, Emitted, m
<1>9. CASE Emitted(r) /\ faults'.strategy = n + 1 /\ rt'.strat = rt.strat
  <2>1. StrategyOwed(log', t, n + 1)
    BY <1>3, <1>4, <1>9 DEF Emitted, m
  <2> QED
    BY <1>2, <1>9, <2>1 DEF StrategiesNow
<1> QED
  BY <1>7, <1>8, <1>9 DEF n, m

LEMMA StrategyGone ==
    ASSUME IsLog(log), StrategiesNow, faults.strategy \in Nat,
           NEW r, r.type \notin StrategyEnds, r.type # "strategy_started", Emitted(r),
           faults'.strategy = faults.strategy + 1, rt'.strat = 0
    PROVE  StrategiesNow'
<1> DEFINE n == faults.strategy
           t == rt.strat
           m == Append(log, r)
<1>1. StrategyOwed(log, t, n) /\ n \in Nat /\ faults'.strategy = n + 1
  BY DEF StrategiesNow
<1> HIDE DEF n, t
<1>2. StrategyOwed(m, t, n)
  BY <1>1, StrategyRecords
<1>3. StrategyOwed(log, 0, n + 1)
  BY <1>1, StrategyFault
<1>4. IsLog(m)
  BY AppendedLog DEF Prefix
<1> HIDE DEF m
<1>5. StrategyOwed(m, 0, n + 1)
  BY <1>1, <1>2, <1>4, StrategyFault
<1> QED
  BY <1>1, <1>3, <1>5 DEF StrategiesNow, Emitted, m

(* Within a run the processes stay the same.                                  *)
LEMMA RunKept ==
    ASSUME LiveInv, HealthInv, NEW r, Emitted(r), r.type \notin {"started", "stopped"}, SoundRecord(r),
           op' = op, rt'.begun = rt.begun, faults'.lifecycle = faults.lifecycle
    PROVE  LifecycleNow' /\ RecordsSound' /\ Results(op')
<1>1. IsLog(log) /\ LifecycleNow /\ RecordsSound /\ Results(op)
  BY DEF LiveInv, Records, HealthInv
<1>2. Running(rt'.begun, op') = Running(rt.begun, op)
  OBVIOUS
<1>3. LifecycleNow'
  BY <1>1, <1>2, LifecycleKept
<1>4. RecordsSound'
  BY <1>1, SoundKept
<1> QED
  BY <1>1, <1>3, <1>4

FaultShape(f) == /\ {"n", "outages", "lifecycle", "task", "strategy"} \subseteq DOMAIN f
                 /\ f.lifecycle \in Nat /\ f.task \in Nat /\ f.strategy \in Nat
LEMMA RunControl ==
    ASSUME Control, op' = op, RtShape \subseteq DOMAIN rt', FaultShape(faults'),
           rt'.begun = TRUE, rt'.pc \in Working \cup {"loop", "stopping"},
           rt'.task # 0 <=> rt'.pc \in Working, rt'.strat # 0 <=> rt'.pc \in Evaluating
    PROVE  Control'
<1>1. rt'.begun \in BOOLEAN /\ (rt'.begun <=> rt'.pc \in Working \cup {"loop", "stopping"})
  OBVIOUS
<1>2. op'.start # 0 => op'.pc \in {"feed", "exchange"}
  BY DEF Control
<1> QED
  BY <1>1, <1>2 DEF Control, RtShape, FaultShape

(* The faults that a step adds.                                               *)
Adds(f, g, lifecycle, task, strategy) ==
    /\ FaultShape(g) /\ g.lifecycle = f.lifecycle + lifecycle
    /\ g.task = f.task + task /\ g.strategy = f.strategy + strategy

LEMMA FaultsAdded ==
    ASSUME NEW f, FaultShape(f)
    PROVE  /\ Adds(f, f, 0, 0, 0)
           /\ Adds(f, [f EXCEPT !.n = @ + 1], 0, 0, 0)
           /\ Adds(f, [f EXCEPT !.outages = @ + 1], 0, 0, 0)
           /\ Adds(f, [f EXCEPT !.n = @ + 1, !.lifecycle = @ + 1], 1, 0, 0)
           /\ Adds(f, [f EXCEPT !.n = @ + 1, !.task = @ + 1], 0, 1, 0)
           /\ Adds(f, [f EXCEPT !.n = @ + 1, !.strategy = @ + 1], 0, 0, 1)
<1>1. Adds(f, f, 0, 0, 0)
  BY DEF Adds, FaultShape
<1>2. Adds(f, [f EXCEPT !.n = @ + 1], 0, 0, 0)
  BY DEF Adds, FaultShape
<1>3. Adds(f, [f EXCEPT !.outages = @ + 1], 0, 0, 0)
  BY DEF Adds, FaultShape
<1>4. Adds(f, [f EXCEPT !.n = @ + 1, !.lifecycle = @ + 1], 1, 0, 0)
  BY DEF Adds, FaultShape
<1>5. Adds(f, [f EXCEPT !.n = @ + 1, !.task = @ + 1], 0, 1, 0)
  BY DEF Adds, FaultShape
<1>6. Adds(f, [f EXCEPT !.n = @ + 1, !.strategy = @ + 1], 0, 0, 1)
  BY DEF Adds, FaultShape
<1> QED
  BY <1>1, <1>2, <1>3, <1>4, <1>5, <1>6

(* Where a run is.                                                            *)
At(x, pc, task, strat, queue) ==
    /\ RtShape \subseteq DOMAIN x /\ x.begun = TRUE
    /\ x.pc = pc /\ x.task = task /\ x.strat = strat /\ x.queue = queue

(* A step of a run, by all but the contract it is about.                      *)
LEMMA RunStep ==
    ASSUME LiveInv, HealthInv, rt.begun = TRUE, op' = op,
           NEW r, Emitted(r), r.type \notin {"started", "stopped"}, SoundRecord(r),
           NEW pc \in Working \cup {"loop", "stopping"}, NEW t, NEW s, NEW q, At(rt', pc, t, s, q),
           t # 0 <=> pc \in Working, s # 0 <=> pc \in Evaluating,
           NEW b, NEW c, Adds(faults, faults', 0, b, c)
    PROVE  Control' /\ LifecycleNow' /\ RecordsSound' /\ Results(op')
<1>1. /\ RtShape \subseteq DOMAIN rt' /\ rt'.begun = TRUE /\ rt'.pc \in Working \cup {"loop", "stopping"}
      /\ rt'.task # 0 <=> rt'.pc \in Working
      /\ rt'.strat # 0 <=> rt'.pc \in Evaluating
  BY DEF At
<1>2. Control /\ faults.lifecycle \in Nat
  BY DEF HealthInv, Control
<1>3. FaultShape(faults') /\ faults'.lifecycle = faults.lifecycle
  BY <1>2 DEF Adds
<1>4. Control'
  BY <1>1, <1>2, <1>3, RunControl, Zenon
<1>5. rt'.begun = rt.begun
  BY <1>1
<1>6. LifecycleNow' /\ RecordsSound' /\ Results(op')
  BY <1>3, <1>5, RunKept, Zenon
<1> QED
  BY <1>4, <1>6

(* And by one of the contracts that it is not about.                          *)
LEMMA RunTasks ==
    ASSUME LiveInv, HealthInv, NEW r, Emitted(r), r.type # "task_started", ~IsTaskClosure(r),
           NEW pc, NEW s, At(rt', pc, rt.task, s, rt.queue), NEW c, Adds(faults, faults', 0, 0, c)
    PROVE  TasksNow'
<1>1. faults.task \in Nat /\ TasksNow /\ IsLog(log)
  BY DEF HealthInv, LiveInv, Records, Control
<1>2. faults'.task = faults.task /\ rt'.task = rt.task /\ rt'.queue = rt.queue
  BY <1>1 DEF Adds, At
<1>3. rt.task # 0 => Head(rt'.queue) = Head(rt.queue)
  BY <1>2
<1> QED
  BY <1>1, <1>2, <1>3, TasksKept, Zenon

LEMMA RunStrategies ==
    ASSUME LiveInv, HealthInv, NEW r, Emitted(r), r.type # "strategy_started", r.type \notin StrategyEnds,
           NEW pc, NEW t, NEW q, At(rt', pc, t, rt.strat, q), NEW b, Adds(faults, faults', 0, b, 0)
    PROVE  StrategiesNow'
<1>1. faults.strategy \in Nat /\ StrategiesNow /\ IsLog(log)
  BY DEF HealthInv, LiveInv, Records, Control
<1>2. faults'.strategy = faults.strategy /\ rt'.strat = rt.strat
  BY <1>1 DEF Adds, At
<1> QED
  BY <1>1, <1>2, StrategiesKept, Zenon

(* Where the steps of a run begin.                                            *)
LEMMA RunAt ==
    ASSUME LiveInv, HealthInv, rt.pc \in Working \cup {"loop", "stopping"}
    PROVE  /\ At(rt, rt.pc, rt.task, rt.strat, rt.queue) /\ rt.begun = TRUE
           /\ rt.task # 0 <=> rt.pc \in Working
           /\ rt.strat # 0 <=> rt.pc \in Evaluating
           /\ FaultShape(faults) /\ IsLog(log) /\ Len(log) \in Nat /\ TasksNow /\ StrategiesNow
<1>1. Control /\ IsLog(log) /\ TasksNow /\ StrategiesNow
  BY DEF HealthInv, LiveInv, Records
<1>2. rt.begun = TRUE
  BY <1>1 DEF Control
<1>3. At(rt, rt.pc, rt.task, rt.strat, rt.queue)
  BY <1>1, <1>2 DEF At, Control, RtShape
<1>4. FaultShape(faults)
  BY <1>1 DEF Control, FaultShape
<1>5. Len(log) \in Nat
  BY <1>1, LogFacts
<1>6. (rt.task # 0 <=> rt.pc \in Working) /\ (rt.strat # 0 <=> rt.pc \in Evaluating)
  BY <1>1 DEF Control
<1> QED
  BY <1>1, <1>2, <1>3, <1>4, <1>5, <1>6

LEMMA HealthTask ==
    ASSUME LiveInv, HealthInv, RtTask
    PROVE  HealthInv'
<1> DEFINE r == [type |-> "task_started", of |-> Head(rt.queue)]
<1>1. /\ r.type = "task_started" /\ r.of = Head(rt.queue) /\ ~IsTaskClosure(r) /\ SoundRecord(r)
      /\ r.type \notin StrategyEnds /\ r.type # "strategy_started" /\ r.type \notin {"started", "stopped"}
  BY DEF IsTaskClosure, SoundRecord, StrategyEnds
<1>2. rt.pc = "loop" /\ op' = op
  BY DEF RtTask
<1>3. /\ At(rt, "loop", 0, 0, rt.queue) /\ rt.begun = TRUE /\ rt.task = 0 /\ rt.strat = 0
      /\ FaultShape(faults) /\ IsLog(log) /\ Len(log) \in Nat /\ TasksNow
  BY <1>2, RunAt DEF Working, Evaluating
<1>4. /\ Adds(faults, faults, 0, 0, 0)
      /\ Adds(faults, [faults EXCEPT !.n = @ + 1, !.task = @ + 1], 0, 1, 0)
  BY <1>3, FaultsAdded, Zenon
<1>5. \/ /\ log' = Append(log, r) /\ faults' = faults
         /\ rt' = [rt EXCEPT !.pc = "task", !.task = Len(log) + 1]
      \/ /\ Emitted(r) /\ faults' = [faults EXCEPT !.n = @ + 1, !.task = @ + 1]
         /\ rt' = [rt EXCEPT !.pc = "stopping", !.crash = TRUE]
  BY DEF RtTask, Emits, Raises, Emitted, Here
<1>6. faults.task \in Nat
  BY <1>3 DEF FaultShape
<1> HIDE DEF r
<1>7. CASE /\ log' = Append(log, r) /\ faults' = faults
           /\ rt' = [rt EXCEPT !.pc = "task", !.task = Len(log) + 1]
  <2> DEFINE h == Len(log) + 1
  <2>1. At(rt', "task", h, rt.strat, rt.queue) /\ h # 0
    BY <1>3, <1>7 DEF At, RtShape
  <2>2. Adds(faults, faults', 0, 0, 0) /\ Emitted(r)
    BY <1>4, <1>7 DEF Emitted
  <2>3. /\ "task" \in Working \cup {"loop", "stopping"}
        /\ h # 0 <=> "task" \in Working
        /\ rt.strat # 0 <=> "task" \in Evaluating
    BY <1>3, <2>1 DEF Working, Evaluating
  <2>4. TasksNow'
    <3>1. rt'.task = Len(log) + 1 /\ rt'.queue = rt.queue /\ faults'.task = faults.task
      BY <1>7, <2>1 DEF At
    <3> QED
      BY <1>1, <1>3, <1>6, <1>7, <3>1, TaskBegins
  <2> HIDE DEF h
  <2>5. Control' /\ LifecycleNow' /\ RecordsSound' /\ Results(op')
    BY <1>1, <1>2, <1>3, <2>1, <2>2, <2>3, RunStep, Zenon
  <2>6. StrategiesNow'
    BY <1>1, <2>1, <2>2, RunStrategies, Zenon
  <2> QED
    BY <2>4, <2>5, <2>6 DEF HealthInv
<1>8. CASE /\ Emitted(r) /\ faults' = [faults EXCEPT !.n = @ + 1, !.task = @ + 1]
           /\ rt' = [rt EXCEPT !.pc = "stopping", !.crash = TRUE]
  <2>1. At(rt', "stopping", 0, rt.strat, rt.queue)
    BY <1>3, <1>8 DEF At, RtShape
  <2>2. Adds(faults, faults', 0, 1, 0)
    BY <1>4, <1>8, Zenon
  <2>3. /\ "stopping" \in Working \cup {"loop", "stopping"}
        /\ 0 # 0 <=> "stopping" \in Working
        /\ rt.strat # 0 <=> "stopping" \in Evaluating
    BY <1>3 DEF Working, Evaluating
  <2>4. TasksNow'
    <3>1. rt'.task = 0 /\ faults'.task = faults.task + 1
      BY <2>1, <2>2 DEF At, Adds
    <3> QED
      BY <1>1, <1>3, <1>6, <1>8, <3>1, TaskBegins
  <2>5. Control' /\ LifecycleNow' /\ RecordsSound' /\ Results(op')
    BY <1>1, <1>2, <1>3, <1>8, <2>1, <2>2, <2>3, RunStep, Zenon
  <2>6. StrategiesNow'
    BY <1>1, <1>8, <2>1, <2>2, RunStrategies, Zenon
  <2> QED
    BY <2>4, <2>5, <2>6 DEF HealthInv
<1> QED
  BY <1>5, <1>7, <1>8

LEMMA HealthClose ==
    ASSUME LiveInv, HealthInv, RtClose
    PROVE  HealthInv'
<1> DEFINE r == Closure("task_completed", Head(rt.queue), rt.task)
<1>1. /\ r.start = rt.task /\ r.of = Head(rt.queue) /\ IsTaskClosure(r) /\ SoundRecord(r)
      /\ r.type \notin StrategyEnds /\ r.type # "strategy_started" /\ r.type \notin {"started", "stopped"}
  BY DEF Closure, IsTaskClosure, SoundRecord, StrategyEnds
<1>2. rt.pc = "closing" /\ op' = op
  BY DEF RtClose
<1>3. /\ At(rt, "closing", rt.task, 0, rt.queue) /\ rt.begun = TRUE /\ rt.task # 0 /\ rt.strat = 0
      /\ FaultShape(faults) /\ IsLog(log) /\ TasksNow
  BY <1>2, RunAt DEF Working, Evaluating
<1>4. /\ Adds(faults, faults, 0, 0, 0)
      /\ Adds(faults, [faults EXCEPT !.n = @ + 1, !.task = @ + 1], 0, 1, 0)
  BY <1>3, FaultsAdded, Zenon
<1>5. \/ log' = Append(log, r) /\ faults' = faults /\ rt' = Done
      \/ /\ Emitted(r) /\ faults' = [faults EXCEPT !.n = @ + 1, !.task = @ + 1]
         /\ rt' = [rt EXCEPT !.pc = "failing"]
  BY DEF RtClose, Emits, Raises, Emitted
<1>6. faults.task \in Nat
  BY <1>3 DEF FaultShape
<1> HIDE DEF r
<1>7. CASE log' = Append(log, r) /\ faults' = faults /\ rt' = Done
  <2> DEFINE q == Tail(rt.queue)
  <2>1. At(rt', "loop", 0, rt.strat, q)
    BY <1>3, <1>7 DEF At, RtShape, Done
  <2>2. Adds(faults, faults', 0, 0, 0) /\ Emitted(r)
    BY <1>4, <1>7 DEF Emitted
  <2>3. /\ "loop" \in Working \cup {"loop", "stopping"}
        /\ 0 # 0 <=> "loop" \in Working
        /\ rt.strat # 0 <=> "loop" \in Evaluating
    BY <1>3 DEF Working, Evaluating
  <2>4. TasksNow'
    <3>1. rt'.task = 0 /\ faults'.task = faults.task
      BY <1>7, <2>1 DEF At
    <3> QED
      BY <1>1, <1>3, <1>6, <1>7, <3>1, TaskEnds
  <2> HIDE DEF q
  <2>5. Control' /\ LifecycleNow' /\ RecordsSound' /\ Results(op')
    BY <1>1, <1>2, <1>3, <2>1, <2>2, <2>3, RunStep, Zenon
  <2>6. StrategiesNow'
    BY <1>1, <2>1, <2>2, RunStrategies, Zenon
  <2> QED
    BY <2>4, <2>5, <2>6 DEF HealthInv
<1>8. CASE /\ Emitted(r) /\ faults' = [faults EXCEPT !.n = @ + 1, !.task = @ + 1]
           /\ rt' = [rt EXCEPT !.pc = "failing"]
  <2>1. At(rt', "failing", rt.task, rt.strat, rt.queue)
    BY <1>3, <1>8 DEF At, RtShape
  <2>2. Adds(faults, faults', 0, 1, 0)
    BY <1>4, <1>8, Zenon
  <2>3. /\ "failing" \in Working \cup {"loop", "stopping"}
        /\ rt.task # 0 <=> "failing" \in Working
        /\ rt.strat # 0 <=> "failing" \in Evaluating
    BY <1>3 DEF Working, Evaluating
  <2>4. TasksNow'
    <3>1. rt'.task = rt.task /\ rt'.queue = rt.queue /\ faults'.task = faults.task + 1
      BY <2>1, <2>2 DEF At, Adds
    <3> QED
      BY <1>1, <1>3, <1>6, <1>8, <3>1, TaskEnds
  <2>5. Control' /\ LifecycleNow' /\ RecordsSound' /\ Results(op')
    BY <1>1, <1>2, <1>3, <1>8, <2>1, <2>2, <2>3, RunStep, Zenon
  <2>6. StrategiesNow'
    BY <1>1, <1>8, <2>1, <2>2, RunStrategies, Zenon
  <2> QED
    BY <2>4, <2>5, <2>6 DEF HealthInv
<1> QED
  BY <1>5, <1>7, <1>8

LEMMA HealthFail ==
    ASSUME LiveInv, HealthInv, RtFail
    PROVE  HealthInv'
<1> DEFINE r == Error(Category(rt.bot), Head(rt.queue), rt.task)
<1>1. /\ r.start = rt.task /\ r.of = Head(rt.queue) /\ SoundRecord(r)
      /\ IsTaskClosure(r) <=> ~rt.bot
      /\ r.type \notin StrategyEnds /\ r.type # "strategy_started" /\ r.type \notin {"started", "stopped"}
      /\ r.type # "task_started"
  BY DEF Error, Category, IsTaskClosure, SoundRecord, StrategyEnds
<1>2. rt.pc = "failing" /\ op' = op
  BY DEF RtFail
<1>3. /\ At(rt, "failing", rt.task, 0, rt.queue) /\ rt.begun = TRUE /\ rt.task # 0 /\ rt.strat = 0
      /\ FaultShape(faults) /\ IsLog(log) /\ TasksNow
  BY <1>2, RunAt DEF Working, Evaluating
<1>4. Adds(faults, [faults EXCEPT !.n = @ + 1, !.task = @ + 1], 0, 1, 0)
  BY <1>3, FaultsAdded, Zenon
<1>5. \/ /\ log' = Append(log, r) /\ rt' = Done
         /\ faults' = [faults EXCEPT !.task = @ + (IF rt.bot THEN 1 ELSE 0)]
      \/ /\ Emitted(r) /\ faults' = [faults EXCEPT !.n = @ + 1, !.task = @ + 1]
         /\ rt' = [rt EXCEPT !.pc = "stopping", !.task = 0, !.crash = TRUE]
  BY DEF RtFail, Raises, Emitted
<1>6. faults.task \in Nat
  BY <1>3 DEF FaultShape
<1> HIDE DEF r
<1>7. ASSUME Emitted(r), NEW pc \in {"loop", "stopping"}, NEW q, At(rt', pc, 0, rt.strat, q),
             NEW b, Adds(faults, faults', 0, b, 0), TasksNow'
      PROVE  HealthInv'
  <2>1. /\ pc \in Working \cup {"loop", "stopping"}
        /\ 0 # 0 <=> pc \in Working
        /\ rt.strat # 0 <=> pc \in Evaluating
    BY <1>3 DEF Working, Evaluating
  <2>2. Control' /\ LifecycleNow' /\ RecordsSound' /\ Results(op')
    BY <1>1, <1>2, <1>3, <1>7, <2>1, RunStep, Zenon
  <2>3. StrategiesNow'
    BY <1>1, <1>7, RunStrategies, Zenon
  <2> QED
    BY <1>7, <2>2, <2>3 DEF HealthInv
<1>8. ASSUME Emitted(r), NEW pc, NEW q, At(rt', pc, 0, rt.strat, q),
             \/ faults'.task = faults.task + 1
             \/ faults'.task = faults.task /\ log' = Append(log, r) /\ ~rt.bot
      PROVE  TasksNow'
  <2>1. rt'.task = 0
    BY <1>8 DEF At
  <2>2. CASE rt.bot
    <3>1. faults'.task = faults.task + 1 /\ ~IsTaskClosure(r)
      BY <1>1, <1>8, <2>2
    <3> QED
      BY <1>1, <1>3, <1>6, <1>8, <2>1, <3>1, TaskGone
  <2>3. CASE ~rt.bot
    <3>1. IsTaskClosure(r)
      BY <1>1, <2>3
    <3> QED
      BY <1>1, <1>3, <1>6, <1>8, <2>1, <3>1, TaskEnds
  <2> QED
    BY <2>2, <2>3
<1>9. CASE /\ log' = Append(log, r) /\ rt' = Done
           /\ faults' = [faults EXCEPT !.task = @ + (IF rt.bot THEN 1 ELSE 0)]
  <2> DEFINE q == Tail(rt.queue)
             b == IF rt.bot THEN 1 ELSE 0
  <2>1. At(rt', "loop", 0, rt.strat, q)
    BY <1>3, <1>9 DEF At, RtShape, Done
  <2>2. Adds(faults, faults', 0, b, 0)
    BY <1>3, <1>9 DEF Adds, FaultShape
  <2>3. Emitted(r)
    BY <1>9 DEF Emitted
  <2>4. \/ faults'.task = faults.task + 1
        \/ faults'.task = faults.task /\ log' = Append(log, r) /\ ~rt.bot
    BY <1>6, <1>9, <2>2 DEF Adds
  <2> HIDE DEF q, b
  <2>5. TasksNow'
    BY <1>8, <2>1, <2>3, <2>4
  <2> QED
    BY <1>7, <2>1, <2>2, <2>3, <2>5
<1>10. CASE /\ Emitted(r) /\ faults' = [faults EXCEPT !.n = @ + 1, !.task = @ + 1]
            /\ rt' = [rt EXCEPT !.pc = "stopping", !.task = 0, !.crash = TRUE]
  <2>1. At(rt', "stopping", 0, rt.strat, rt.queue)
    BY <1>3, <1>10 DEF At, RtShape
  <2>2. Adds(faults, faults', 0, 1, 0)
    BY <1>4, <1>10, Zenon
  <2>3. TasksNow'
    BY <1>8, <1>10, <2>1, <2>2 DEF Adds
  <2> QED
    BY <1>7, <1>10, <2>1, <2>2, <2>3
<1> QED
  BY <1>5, <1>9, <1>10

LEMMA HealthEvaluate ==
    ASSUME LiveInv, HealthInv, RtEvaluate
    PROVE  HealthInv'
<1> DEFINE r == [type |-> "strategy_started", of |-> "strategy"]
<1>1. /\ r.type = "strategy_started" /\ r.of = "strategy" /\ ~IsTaskClosure(r) /\ SoundRecord(r)
      /\ r.type # "task_started" /\ r.type \notin {"started", "stopped"}
  BY DEF IsTaskClosure, SoundRecord
<1>2. rt.pc = "task" /\ op' = op
  BY DEF RtEvaluate
<1>3. /\ At(rt, "task", rt.task, 0, rt.queue) /\ rt.begun = TRUE /\ rt.task # 0 /\ rt.strat = 0
      /\ FaultShape(faults) /\ IsLog(log) /\ Len(log) \in Nat /\ StrategiesNow
  BY <1>2, RunAt DEF Working, Evaluating
<1>4. /\ Adds(faults, faults, 0, 0, 0)
      /\ Adds(faults, [faults EXCEPT !.n = @ + 1, !.strategy = @ + 1], 0, 0, 1)
  BY <1>3, FaultsAdded, Zenon
<1>5. \/ /\ log' = Append(log, r) /\ faults' = faults
         /\ rt' = [rt EXCEPT !.pc = "evaluating", !.strat = Len(log) + 1]
      \/ /\ Emitted(r) /\ faults' = [faults EXCEPT !.n = @ + 1, !.strategy = @ + 1]
         /\ rt' = [rt EXCEPT !.pc = "failing"]
  BY DEF RtEvaluate, Emits, Raises, Emitted, Here
<1>6. faults.strategy \in Nat
  BY <1>3 DEF FaultShape
<1> HIDE DEF r
<1>7. CASE /\ log' = Append(log, r) /\ faults' = faults
           /\ rt' = [rt EXCEPT !.pc = "evaluating", !.strat = Len(log) + 1]
  <2> DEFINE h == Len(log) + 1
  <2>1. At(rt', "evaluating", rt.task, h, rt.queue) /\ h # 0
    BY <1>3, <1>7 DEF At, RtShape
  <2>2. Adds(faults, faults', 0, 0, 0) /\ Emitted(r)
    BY <1>4, <1>7 DEF Emitted
  <2>3. /\ "evaluating" \in Working \cup {"loop", "stopping"}
        /\ rt.task # 0 <=> "evaluating" \in Working
        /\ h # 0 <=> "evaluating" \in Evaluating
    BY <1>3, <2>1 DEF Working, Evaluating
  <2>4. StrategiesNow'
    <3>1. rt'.strat = Len(log) + 1 /\ faults'.strategy = faults.strategy
      BY <1>7, <2>1 DEF At
    <3> QED
      BY <1>1, <1>3, <1>6, <1>7, <3>1, StrategyBegins
  <2> HIDE DEF h
  <2>5. Control' /\ LifecycleNow' /\ RecordsSound' /\ Results(op')
    BY <1>1, <1>2, <1>3, <2>1, <2>2, <2>3, RunStep, Zenon
  <2>6. TasksNow'
    BY <1>1, <2>1, <2>2, RunTasks, Zenon
  <2> QED
    BY <2>4, <2>5, <2>6 DEF HealthInv
<1>8. CASE /\ Emitted(r) /\ faults' = [faults EXCEPT !.n = @ + 1, !.strategy = @ + 1]
           /\ rt' = [rt EXCEPT !.pc = "failing"]
  <2>1. At(rt', "failing", rt.task, 0, rt.queue)
    BY <1>3, <1>8 DEF At, RtShape
  <2>2. Adds(faults, faults', 0, 0, 1)
    BY <1>4, <1>8, Zenon
  <2>3. /\ "failing" \in Working \cup {"loop", "stopping"}
        /\ rt.task # 0 <=> "failing" \in Working
        /\ 0 # 0 <=> "failing" \in Evaluating
    BY <1>3 DEF Working, Evaluating
  <2>4. StrategiesNow'
    <3>1. rt'.strat = 0 /\ faults'.strategy = faults.strategy + 1
      BY <2>1, <2>2 DEF At, Adds
    <3> QED
      BY <1>1, <1>3, <1>6, <1>8, <3>1, StrategyBegins
  <2>5. Control' /\ LifecycleNow' /\ RecordsSound' /\ Results(op')
    BY <1>1, <1>2, <1>3, <1>8, <2>1, <2>2, <2>3, RunStep, Zenon
  <2>6. TasksNow'
    BY <1>1, <1>8, <2>1, <2>2, RunTasks, Zenon
  <2> QED
    BY <2>4, <2>5, <2>6 DEF HealthInv
<1> QED
  BY <1>5, <1>7, <1>8

(* A step of an evaluation.                                                   *)
LEMMA EvaluationStep ==
    ASSUME LiveInv, HealthInv, rt.pc \in Evaluating, op' = op, NEW r, Emitted(r),
           r.type \in {"error"} \cup StrategyEnds, ~IsTaskClosure(r),
           NEW pc \in Evaluating \cup {"closing", "failing"}, NEW s, At(rt', pc, rt.task, s, rt.queue),
           s # 0 <=> pc \in Evaluating, NEW c, Adds(faults, faults', 0, 0, c), StrategiesNow'
    PROVE  HealthInv'
<1>1. rt.pc \in Working \cup {"loop", "stopping"} /\ rt.pc \in Working
  BY DEF Working
<1>2. rt.begun = TRUE /\ rt.task # 0
  BY <1>1, RunAt
<1>3. /\ r.type \notin {"started", "stopped"} /\ SoundRecord(r) /\ r.type # "task_started"
  BY DEF SoundRecord, StrategyEnds
<1>4. /\ pc \in Working \cup {"loop", "stopping"}
      /\ rt.task # 0 <=> pc \in Working
  BY <1>2 DEF Working
<1>5. Control' /\ LifecycleNow' /\ RecordsSound' /\ Results(op')
  BY <1>2, <1>3, <1>4, RunStep, Zenon
<1>6. TasksNow'
  BY <1>3, RunTasks, Zenon
<1> QED
  BY <1>5, <1>6 DEF HealthInv

LEMMA HealthEvaluated ==
    ASSUME LiveInv, HealthInv, RtEvaluated \/ RtStrategyFailed
    PROVE  HealthInv'
<1> DEFINE type == IF RtEvaluated THEN "strategy_completed" ELSE "strategy_failed"
           r == Closure(type, "strategy", rt.strat)
<1>1. /\ r.type \in StrategyEnds /\ r.of = "strategy" /\ r.start = rt.strat /\ ~IsTaskClosure(r)
      /\ r.type \in {"error"} \cup StrategyEnds
  BY DEF Closure, IsTaskClosure, StrategyEnds
<1>2. rt.pc \in Evaluating /\ op' = op
  BY DEF RtEvaluated, RtStrategyFailed, Evaluating
<1>3. /\ At(rt, rt.pc, rt.task, rt.strat, rt.queue) /\ rt.strat # 0
      /\ FaultShape(faults) /\ IsLog(log) /\ StrategiesNow
  BY <1>2, RunAt DEF Working, Evaluating
<1>4. /\ Adds(faults, faults, 0, 0, 0)
      /\ Adds(faults, [faults EXCEPT !.n = @ + 1, !.strategy = @ + 1], 0, 0, 1)
  BY <1>3, FaultsAdded, Zenon
<1>5. \/ /\ log' = Append(log, r) /\ faults' = faults
         /\ rt' = [rt EXCEPT !.pc = "closing", !.strat = 0]
      \/ /\ Emitted(r) /\ faults' = [faults EXCEPT !.n = @ + 1, !.strategy = @ + 1]
         /\ rt' = [rt EXCEPT !.pc = "failing", !.strat = 0] \/ rt' = [rt EXCEPT !.pc = "strategy_error"]
      \/ /\ log' = log /\ faults' = [faults EXCEPT !.outages = @ + 1]
         /\ rt' = [rt EXCEPT !.pc = "strategy_error"]
  <2>1. CASE RtEvaluated
    BY <2>1 DEF RtEvaluated, Emits, Raises, Emitted, Outage
  <2>2. CASE RtStrategyFailed /\ ~RtEvaluated
    BY <2>2 DEF RtStrategyFailed, Emits, Raises, Emitted
  <2> QED
    BY <2>1, <2>2
<1>6. faults.strategy \in Nat
  BY <1>3 DEF FaultShape
<1> HIDE DEF r, type
<1>7. CASE /\ log' = Append(log, r) /\ faults' = faults
           /\ rt' = [rt EXCEPT !.pc = "closing", !.strat = 0]
  <2>1. At(rt', "closing", rt.task, 0, rt.queue)
    BY <1>3, <1>7 DEF At, RtShape
  <2>2. Adds(faults, faults', 0, 0, 0) /\ Emitted(r)
    BY <1>4, <1>7 DEF Emitted
  <2>3. "closing" \in Evaluating \cup {"closing", "failing"} /\ (0 # 0 <=> "closing" \in Evaluating)
    BY DEF Evaluating
  <2>4. StrategiesNow'
    <3>1. rt'.strat = 0 /\ faults'.strategy = faults.strategy
      BY <1>7, <2>1 DEF At
    <3> QED
      BY <1>1, <1>3, <1>6, <1>7, <3>1, StrategyEnding
  <2> QED
    BY <1>1, <1>2, <2>1, <2>2, <2>3, <2>4, EvaluationStep, Zenon
<1>8. CASE /\ Emitted(r) /\ faults' = [faults EXCEPT !.n = @ + 1, !.strategy = @ + 1]
           /\ rt' = [rt EXCEPT !.pc = "failing", !.strat = 0]
  <2>1. At(rt', "failing", rt.task, 0, rt.queue)
    BY <1>3, <1>8 DEF At, RtShape
  <2>2. Adds(faults, faults', 0, 0, 1)
    BY <1>4, <1>8, Zenon
  <2>3. "failing" \in Evaluating \cup {"closing", "failing"} /\ (0 # 0 <=> "failing" \in Evaluating)
    BY DEF Evaluating
  <2>4. StrategiesNow'
    <3>1. rt'.strat = 0 /\ faults'.strategy = faults.strategy + 1
      BY <2>1, <2>2 DEF At, Adds
    <3> QED
      BY <1>1, <1>3, <1>6, <1>8, <3>1, StrategyEnding
  <2> QED
    BY <1>1, <1>2, <1>8, <2>1, <2>2, <2>3, <2>4, EvaluationStep, Zenon
<1>9. CASE /\ Emitted(r) /\ faults' = [faults EXCEPT !.n = @ + 1, !.strategy = @ + 1]
           /\ rt' = [rt EXCEPT !.pc = "strategy_error"]
  <2>1. At(rt', "strategy_error", rt.task, rt.strat, rt.queue)
    BY <1>3, <1>9 DEF At, RtShape
  <2>2. Adds(faults, faults', 0, 0, 1)
    BY <1>4, <1>9, Zenon
  <2>3. /\ "strategy_error" \in Evaluating \cup {"closing", "failing"}
        /\ rt.strat # 0 <=> "strategy_error" \in Evaluating
    BY <1>3 DEF Evaluating
  <2>4. StrategiesNow'
    <3>1. rt'.strat = rt.strat /\ faults'.strategy = faults.strategy + 1
      BY <2>1, <2>2 DEF At, Adds
    <3> QED
      BY <1>1, <1>3, <1>6, <1>9, <3>1, StrategyEnding
  <2> QED
    BY <1>1, <1>2, <1>9, <2>1, <2>2, <2>3, <2>4, EvaluationStep, Zenon
<1>10. CASE /\ log' = log /\ faults' = [faults EXCEPT !.outages = @ + 1]
            /\ rt' = [rt EXCEPT !.pc = "strategy_error"]
  <2> DEFINE p == Error("smoke", "", 0)
  <2>1. At(rt', "strategy_error", rt.task, rt.strat, rt.queue)
    BY <1>3, <1>10 DEF At, RtShape
  <2>2. Adds(faults, faults', 0, 0, 0)
    BY <1>3, <1>10 DEF Adds, FaultShape
  <2>3. /\ "strategy_error" \in Evaluating \cup {"closing", "failing"}
        /\ rt.strat # 0 <=> "strategy_error" \in Evaluating
    BY <1>3 DEF Evaluating
  <2>4. Emitted(p) /\ p.type = "error" /\ ~IsTaskClosure(p) /\ p.type \in {"error"} \cup StrategyEnds
        /\ p.type # "strategy_started" /\ p.type \notin StrategyEnds
    BY <1>10 DEF Emitted, Error, IsTaskClosure, StrategyEnds
  <2> HIDE DEF p
  <2>5. StrategiesNow'
    BY <2>1, <2>2, <2>4, RunStrategies, Zenon
  <2> QED
    BY <1>2, <2>1, <2>2, <2>3, <2>4, <2>5, EvaluationStep, Zenon
<1> QED
  BY <1>5, <1>7, <1>8, <1>9, <1>10

LEMMA HealthStrategyError ==
    ASSUME LiveInv, HealthInv, RtStrategyError
    PROVE  HealthInv'
<1> DEFINE r == Error("strategy", "strategy", rt.strat)
<1>1. /\ r.type \notin StrategyEnds /\ r.type # "strategy_started" /\ ~IsTaskClosure(r)
      /\ r.type \in {"error"} \cup StrategyEnds
  BY DEF Error, IsTaskClosure, StrategyEnds
<1>2. rt.pc \in Evaluating /\ op' = op
  BY DEF RtStrategyError, Evaluating
<1>3. /\ At(rt, rt.pc, rt.task, rt.strat, rt.queue) /\ rt.strat # 0
      /\ FaultShape(faults) /\ IsLog(log) /\ StrategiesNow
  BY <1>2, RunAt DEF Working, Evaluating
<1>4. /\ Adds(faults, faults, 0, 0, 0)
      /\ Adds(faults, [faults EXCEPT !.n = @ + 1, !.strategy = @ + 1], 0, 0, 1)
  BY <1>3, FaultsAdded, Zenon
<1>5. \/ /\ log' = Append(log, r) /\ faults' = faults
         /\ rt' = [rt EXCEPT !.pc = "strategy_failed"]
      \/ /\ Emitted(r) /\ faults' = [faults EXCEPT !.n = @ + 1, !.strategy = @ + 1]
         /\ rt' = [rt EXCEPT !.pc = "failing", !.strat = 0]
  BY DEF RtStrategyError, Emits, Raises, Emitted
<1>6. faults.strategy \in Nat
  BY <1>3 DEF FaultShape
<1> HIDE DEF r
<1>7. CASE /\ log' = Append(log, r) /\ faults' = faults
           /\ rt' = [rt EXCEPT !.pc = "strategy_failed"]
  <2>1. At(rt', "strategy_failed", rt.task, rt.strat, rt.queue)
    BY <1>3, <1>7 DEF At, RtShape
  <2>2. Adds(faults, faults', 0, 0, 0) /\ Emitted(r)
    BY <1>4, <1>7 DEF Emitted
  <2>3. /\ "strategy_failed" \in Evaluating \cup {"closing", "failing"}
        /\ rt.strat # 0 <=> "strategy_failed" \in Evaluating
    BY <1>3 DEF Evaluating
  <2>4. StrategiesNow'
    BY <1>1, <2>1, <2>2, RunStrategies, Zenon
  <2> QED
    BY <1>1, <1>2, <2>1, <2>2, <2>3, <2>4, EvaluationStep, Zenon
<1>8. CASE /\ Emitted(r) /\ faults' = [faults EXCEPT !.n = @ + 1, !.strategy = @ + 1]
           /\ rt' = [rt EXCEPT !.pc = "failing", !.strat = 0]
  <2>1. At(rt', "failing", rt.task, 0, rt.queue)
    BY <1>3, <1>8 DEF At, RtShape
  <2>2. Adds(faults, faults', 0, 0, 1)
    BY <1>4, <1>8, Zenon
  <2>3. "failing" \in Evaluating \cup {"closing", "failing"} /\ (0 # 0 <=> "failing" \in Evaluating)
    BY DEF Evaluating
  <2>4. StrategiesNow'
    <3>1. rt'.strat = 0 /\ faults'.strategy = faults.strategy + 1
      BY <2>1, <2>2 DEF At, Adds
    <3> QED
      BY <1>1, <1>3, <1>6, <1>8, <3>1, StrategyGone
  <2> QED
    BY <1>1, <1>2, <1>8, <2>1, <2>2, <2>3, <2>4, EvaluationStep, Zenon
<1> QED
  BY <1>5, <1>7, <1>8

(* The steps of the runtime, altogether.                                      *)
LEMMA HealthRuntime ==
    ASSUME LiveInv, HealthInv, RtStep \/ RtAssemblyFails \/ Stop \/ \E c \in todo : RtStart(c)
    PROVE  HealthInv'
<1>1. CASE RtGates \/ RtAssemblyFails \/ RtLeaveLoop \/ RtWake \/ RtCheckHealth \/ Stop
             \/ \E c \in todo : RtStart(c)
  BY <1>1, HealthQuietly
<1>2. CASE RtRefuse \/ RtErring \/ RtReportHealth \/ RtCatalog
  BY <1>2, HealthPlainly
<1>3. CASE RtBegin \/ RtStop
  BY <1>3, HealthBegins, HealthEnds
<1>4. CASE RtTask \/ RtClose \/ RtFail
  BY <1>4, HealthTask, HealthClose, HealthFail
<1>5. CASE RtEvaluate \/ RtEvaluated \/ RtStrategyError \/ RtStrategyFailed
  BY <1>5, HealthEvaluate, HealthEvaluated, HealthStrategyError
<1> QED
  BY <1>1, <1>2, <1>3, <1>4, <1>5 DEF RtStep, RtGates

-----------------------------------------------------------------------------
(* The steps of the operator's command.                                       *)

(* A command that has no result to record yet.                                *)
Quiet(o) == /\ o.start = 0 /\ o.pc \notin {"simulated", "reviewed", "record"}
            /\ o.pc \in {"catalog", "feed", "exchange"} => ~o.aggregate
LEMMA QuietResults ==
    ASSUME NEW o, Quiet(o)
    PROVE  Results(o)
  BY DEF Quiet, Results
LEMMA IdleQuiet == Quiet(OpIdle)
  BY DEF Quiet, OpIdle

LEMMA OperatorControl ==
    ASSUME Control, rt' = rt, FaultShape(faults'), op'.start # 0 => op'.pc \in {"feed", "exchange"}
    PROVE  Control'
  BY DEF Control, FaultShape

(* A step that touches no contract, with a record, ...                        *)
LEMMA OperatorPlain ==
    ASSUME LiveInv, HealthInv, rt' = rt, NEW r, Emitted(r), Plain(r), SoundRecord(r), Results(op'),
           op'.start = op.start, op.start # 0 => op'.pc = op.pc, Adds(faults, faults', 0, 0, 0)
    PROVE  HealthInv'
<1>1. IsLog(log) /\ Control
  BY DEF LiveInv, Records, HealthInv
<1>2. faults.lifecycle \in Nat /\ faults.task \in Nat /\ faults.strategy \in Nat
  BY <1>1 DEF Control
<1>3. /\ FaultShape(faults') /\ faults'.lifecycle = faults.lifecycle /\ faults'.task = faults.task
      /\ faults'.strategy = faults.strategy
  BY <1>2 DEF Adds
<1>4. op'.start # 0 => op'.pc \in {"feed", "exchange"}
  BY <1>1 DEF Control
<1>5. Control'
  BY <1>1, <1>3, <1>4, OperatorControl, Zenon
<1>6. Running(rt'.begun, op') = Running(rt.begun, op)
  BY DEF Running
<1>7. rt'.task = rt.task /\ rt'.strat = rt.strat /\ (rt.task # 0 => Head(rt'.queue) = Head(rt.queue))
  OBVIOUS
<1> QED
  BY <1>1, <1>3, <1>5, <1>6, <1>7, PlainKept, Zenon

(* ... or without.                                                            *)
LEMMA OperatorSilent ==
    ASSUME LiveInv, HealthInv, rt' = rt, log' = log, Results(op'),
           op'.start = op.start, op.start # 0 => op'.pc = op.pc, Adds(faults, faults', 0, 0, 0)
    PROVE  HealthInv'
<1> DEFINE r == [type |-> "products"]
<1>1. Emitted(r) /\ Plain(r) /\ SoundRecord(r)
  BY DEF Emitted, Plain, IsTaskClosure, StrategyEnds, SoundRecord
<1> HIDE DEF r
<1> QED
  BY <1>1, OperatorPlain, Zenon

(* What the steps begin from.                                                 *)
LEMMA OperatorAt ==
    ASSUME LiveInv, HealthInv
    PROVE  /\ FaultShape(faults) /\ Control /\ IsLog(log) /\ Sound(op) /\ Progress(log, op) /\ Results(op)
           /\ op.pc \notin {"feed", "exchange"} => op.start = 0
           /\ Adds(faults, faults, 0, 0, 0)
           /\ Adds(faults, [faults EXCEPT !.n = @ + 1], 0, 0, 0)
           /\ Adds(faults, [faults EXCEPT !.outages = @ + 1], 0, 0, 0)
<1>1. FaultShape(faults) /\ Control
  BY DEF HealthInv, Control, FaultShape
<1>2. IsLog(log) /\ Sound(op) /\ Progress(log, op) /\ Results(op)
  BY DEF LiveInv, Records, Shapes, Sound, Fields, HealthInv
<1>3. op.pc \notin {"feed", "exchange"} => op.start = 0
  BY <1>1 DEF Control
<1>4. /\ Adds(faults, faults, 0, 0, 0)
      /\ Adds(faults, [faults EXCEPT !.n = @ + 1], 0, 0, 0)
      /\ Adds(faults, [faults EXCEPT !.outages = @ + 1], 0, 0, 0)
  BY <1>1, FaultsAdded, Zenon
<1> QED
  BY <1>1, <1>2, <1>3, <1>4

(* A ledger without records is healthy.                                       *)
LEMMA EmptyHealthy ==
    ASSUME NEW l, IsLog(l), Len(l) = 0
    PROVE  Status(l) = "ok"
<1>1. DOMAIN l = {}
  BY LogFacts
<1>2. \A t : Of(l, t) = {}
  BY <1>1 DEF Of
<1>3. Cardinality({}) = 0
  BY FS_EmptySet, Zenon
<1>4. SystemLifecycle(l) = {} /\ RuntimeTasks(l) = {} /\ StrategyEvaluations(l) = {}
  <2>1. SystemLifecycle(l) = {}
    BY <1>2, LifecycleIs
  <2>2. \A C \in SUBSET {} : Unpaired(l, {}, C) = {}
    BY DEF Unpaired
  <2> QED
    BY <1>2, <2>1, <2>2 DEF RuntimeTasks, StrategyEvaluations
<1>5. /\ Invalid(l, "simulation", SimulationValid) = {}
      /\ Invalid(l, "preflight", PreflightValid) = {}
      /\ Invalid(l, "acknowledged", AcknowledgementValid) = {}
      /\ Invalid(l, "health", HealthResultValid) = {}
  BY <1>2 DEF Invalid
<1>6. CatalogStale(l) = {}
  <2>1. OrchestratorStarts(l) = {}
    BY <1>2 DEF OrchestratorStarts
  <2> QED
    BY <2>1 DEF CatalogStale, Latest
<1>7. DOMAIN Counts(l) = {"lifecycle", "errors", "strategy", "simulation", "acknowledgement", "health",
                          "task", "preflight", "catalog"}
  BY DEF Counts
<1>8. \A d \in DOMAIN Counts(l) : Counts(l)[d] = 0
  <2> DEFINE n == Counts(l)
  <2>1. n.lifecycle = 0 /\ n.strategy = 0 /\ n.task = 0
    BY <1>3, <1>4 DEF Counts
  <2>2. n.errors = 0
    BY <1>2, <1>3 DEF Counts
  <2>3. n.simulation = 0 /\ n.preflight = 0 /\ n.acknowledgement = 0 /\ n.health = 0
    BY <1>3, <1>5 DEF Counts
  <2>4. n.catalog = 0
    BY <1>3, <1>6 DEF Counts
  <2> HIDE DEF n
  <2>5. \A d \in DOMAIN n : n[d] = 0
    BY <1>7, <2>1, <2>2, <2>3, <2>4 DEF n
  <2> QED
    BY <2>5 DEF n
<1>9. ~(0 > 0)
  OBVIOUS
<1>10. AttentionChecks(l) = {}
  BY <1>8, <1>9 DEF AttentionChecks
<1> QED
  BY <1>10 DEF Status

(* The commands begin without touching the ledger.                            *)
LEMMA CommandBegins ==
    ASSUME LiveInv, HealthInv, op.pc = "idle", rt' = rt, log' = log, Results(op'), op'.start = 0,
           \/ faults' = faults
           \/ faults' = [faults EXCEPT !.outages = @ + 1]
    PROVE  HealthInv'
<1>1. op.start = 0 /\ Adds(faults, faults', 0, 0, 0)
  BY OperatorAt
<1>2. op'.start = op.start /\ (op.start # 0 => op'.pc = op.pc)
  BY <1>1
<1> QED
  BY <1>1, <1>2, OperatorSilent, Zenon

LEMMA HealthCommands ==
    ASSUME LiveInv, HealthInv, NEW c, OpPreflight(c) \/ OpSmoke(c) \/ OpSimulate(c) \/ OpAcknowledge(c)
    PROVE  HealthInv'
<1>1. /\ op.pc = "idle" /\ rt' = rt /\ log' = log
      /\ faults' = faults \/ faults' = [faults EXCEPT !.outages = @ + 1]
  BY DEF OpPreflight, OpSmoke, OpSimulate, OpAcknowledge, OpUnable, Outage
<1>2. ASSUME Quiet(op')
      PROVE  HealthInv'
  <2>1. Results(op') /\ op'.start = 0
    BY <1>2, QuietResults DEF Quiet
  <2> QED
    BY <1>1, <2>1, CommandBegins, Zenon
<1>3. ASSUME OpUnable
      PROVE  HealthInv'
  <2>1. op' = [OpIdle EXCEPT !.pc = "smoke_error"]
    BY <1>3 DEF OpUnable
  <2>2. Quiet(op')
    BY <2>1 DEF Quiet, OpIdle
  <2> QED
    BY <1>2, <2>2
<1>4. ASSUME op' = OpIdle
      PROVE  HealthInv'
  BY <1>2, <1>4, IdleQuiet
<1>5. CASE OpPreflight(c)
  <2>1. CASE op' = [OpIdle EXCEPT !.pc = "catalog", !.config = c.config,
                                  !.aggregate = TRUE, !.statuses = <<"ok">>]
    <3>1. op'.pc = "catalog" /\ op'.statuses = <<"ok">> /\ op'.start = 0
      BY <2>1 DEF OpIdle
    <3>2. Results(op')
      BY <3>1 DEF Results
    <3> QED
      BY <1>1, <3>1, <3>2, CommandBegins, Zenon
  <2>2. OpUnable \/ op' = OpIdle \/ op' = [OpIdle EXCEPT !.pc = "catalog", !.config = c.config,
                                  !.aggregate = TRUE, !.statuses = <<"ok">>]
    BY <1>5 DEF OpPreflight
  <2> QED
    BY <1>3, <1>4, <2>1, <2>2
<1>6. CASE OpSmoke(c)
  <2>1. CASE op' = [OpIdle EXCEPT !.pc = c.kind, !.config = c.config]
    <3>1. c.kind \in {"catalog", "feed", "exchange"}
      BY <1>6 DEF OpSmoke
    <3>2. Quiet(op')
      BY <2>1, <3>1 DEF Quiet, OpIdle
    <3> QED
      BY <1>2, <3>2
  <2> QED
    BY <1>3, <1>6, <2>1 DEF OpSmoke
<1>7. CASE OpSimulate(c)
  <2>1. op'.pc = "simulated" /\ op'.start = 0 /\ op'.result.failed \in {0, 1} /\ op'.result.rejected \in {0, 1}
    <3>1. CASE op' = [OpIdle EXCEPT !.pc = "simulated", !.config = c.config]
      BY <3>1 DEF OpIdle
    <3>2. CASE \E result \in {[failed |-> 1, rejected |-> 0], [failed |-> 0, rejected |-> 1]} :
                 op' = [OpIdle EXCEPT !.pc = "simulated", !.config = c.config, !.result = result]
      BY <3>2 DEF OpIdle
    <3> QED
      BY <1>7, <3>1, <3>2 DEF OpSimulate
  <2>2. Results(op')
    BY <2>1 DEF Results
  <2> QED
    BY <1>1, <2>1, <2>2, CommandBegins, Zenon
<1>8. CASE OpAcknowledge(c)
  <2>1. CASE Status(log) = "ok"
    BY <1>4, <1>8, <2>1 DEF OpAcknowledge
  <2>2. CASE Status(log) # "ok"
    <3>1. op'.pc = "reviewed" /\ op'.start = 0 /\ op'.saw.through = Len(log)
      BY <1>8, <2>2 DEF OpAcknowledge, OpIdle
    <3>2. IsLog(log) /\ Len(log) \in Nat
      BY OperatorAt, LogFacts
    <3>3. Len(log) # 0
      BY <2>2, <3>2, EmptyHealthy
    <3>4. Len(log) > 0
      BY <3>2, <3>3
    <3>5. Results(op')
      BY <3>1, <3>4 DEF Results
    <3> QED
      BY <1>1, <3>1, <3>5, CommandBegins, Zenon
  <2> QED
    BY <2>1, <2>2
<1> QED
  BY <1>5, <1>6, <1>7, <1>8

(* A step of the aggregate leaves a sound result behind.                      *)
LEMMA StepDoneResults ==
    ASSUME Sound(op), Results(op), NEW l, Progress(l, op), op.pc \in {"catalog", "feed", "exchange"},
           NEW status \in {"ok", "attention"}, StepDone(status)
    PROVE  Results(op') /\ op'.start = 0
<1>1. CASE ~op.aggregate
  <2>1. op' = OpIdle
    BY <1>1 DEF StepDone
  <2> QED
    BY <2>1, IdleQuiet, QuietResults DEF OpIdle
<1>2. CASE op.aggregate
  <2> DEFINE s == op.statuses
             k == Len(s)
             t == Append(s, status)
  <2>1. k \in {1, 2, 3} /\ \A i \in DOMAIN s : s[i] = "ok"
    BY <1>2 DEF Progress, Results
  <2>2. s \in Seq({"ok", "attention"}) /\ DOMAIN op = Fields
    BY DEF Sound
  <2>3. /\ op'.start = 0 /\ op'.statuses = t
        /\ op'.pc = IF status # "ok" \/ k + 1 = 4 THEN "record" ELSE Steps[k + 2]
    <3>1. op'.statuses = t
      BY <1>2, <2>2 DEF StepDone, Fields
    <3> QED
      BY <1>2, <3>1, StepDoneTo
  <2> HIDE DEF s
  <2>4. /\ Len(t) = k + 1 /\ t[k + 1] = status /\ DOMAIN t = 1..(k + 1)
        /\ \A i \in 1..k : t[i] = "ok"
    BY <2>1, <2>2
  <2> HIDE DEF k, t
  <2>5. CASE op'.pc = "record"
    <3>1. status = "ok" => k + 1 = 4
      BY <2>1, <2>3, <2>5, StepsAre DEF Steps
    <3>2. /\ \A i \in 1..(Len(t) - 1) : t[i] = "ok"
          /\ t[Len(t)] = "ok" => Len(t) = 4
      BY <2>1, <2>4, <3>1
    <3> QED
      BY <2>3, <2>5, <3>2 DEF Results
  <2>6. CASE op'.pc # "record"
    <3>1. status = "ok" /\ op'.pc \in {"feed", "exchange"}
      BY <2>1, <2>3, <2>6, StepsAre
    <3>2. \A i \in DOMAIN t : t[i] = "ok"
      BY <2>1, <2>4, <3>1
    <3> QED
      BY <2>3, <3>1, <3>2 DEF Results
  <2> QED
    BY <2>3, <2>5, <2>6
<1> QED
  BY <1>1, <1>2

(* A record after which the command is over, or none.                         *)
LEMMA CommandEnds ==
    ASSUME LiveInv, HealthInv, op.pc \notin {"feed", "exchange"}, rt' = rt, op' = OpIdle,
           NEW r, Emits(r) \/ RaisesFreely(r), Plain(r), SoundRecord(r)
    PROVE  HealthInv'
<1>1. op.start = 0 /\ Adds(faults, faults', 0, 0, 0)
  BY OperatorAt DEF Emits, RaisesFreely
<1>2. Results(op') /\ op'.start = op.start /\ (op.start # 0 => op'.pc = op.pc)
  BY <1>1, IdleQuiet, QuietResults DEF OpIdle
<1>3. Emitted(r)
  BY DEF Emits, RaisesFreely, Emitted
<1> QED
  BY <1>1, <1>2, <1>3, OperatorPlain, Zenon

LEMMA HealthSmokeError ==
    ASSUME LiveInv, HealthInv, OpSmokeError
    PROVE  HealthInv'
<1> DEFINE r == Error("smoke", "", 0)
<1>1. op.pc = "smoke_error" /\ rt' = rt /\ op' = OpIdle /\ (Emits(r) \/ RaisesFreely(r))
  BY Zenon DEF OpSmokeError
<1>2. Plain(r) /\ SoundRecord(r)
  BY DEF Plain, IsTaskClosure, StrategyEnds, SoundRecord, Error
<1> HIDE DEF r
<1>3. op.pc \notin {"feed", "exchange"}
  BY <1>1
<1> QED
  BY <1>1, <1>2, <1>3, CommandEnds, Zenon

LEMMA HealthRecordSimulation ==
    ASSUME LiveInv, HealthInv, OpRecordSimulation
    PROVE  HealthInv'
<1> DEFINE a == op.result.failed
           b == op.result.rejected
           r == [type |-> "simulation", config |-> op.config, strategies |-> 2,
                 completed |-> 2 - a, failed |-> a, rejected |-> b,
                 status |-> SimulationStatus(op.result)]
<1>1. op.pc \notin {"feed", "exchange"} /\ rt' = rt /\ op' = OpIdle /\ (Emits(r) \/ RaisesFreely(r))
  BY DEF OpRecordSimulation
<1>2. a \in {0, 1} /\ b \in {0, 1}
  BY OperatorAt DEF Results, OpRecordSimulation
<1>3. SimulationStatus(op.result) = IF a > 0 \/ b > 0 THEN "attention" ELSE "ok"
  BY DEF SimulationStatus
<1>4. Plain(r)
  BY DEF Plain, IsTaskClosure, StrategyEnds
<1>5. SoundRecord(r)
  <2>1. SimulationValid(r)
    <3> HIDE DEF a, b
    <3> QED
      BY <1>2, <1>3 DEF SimulationValid
  <2> QED
    BY <2>1 DEF SoundRecord
<1> HIDE DEF r
<1> QED
  BY <1>1, <1>4, <1>5, CommandEnds, Zenon

LEMMA HealthRecordAcknowledgement ==
    ASSUME LiveInv, HealthInv, OpRecordAcknowledgement
    PROVE  HealthInv'
<1> DEFINE r == [type |-> "acknowledged", status |-> "attention", digest |-> op.saw.digest,
                 through |-> op.saw.through]
<1>1. op.pc \notin {"feed", "exchange"} /\ rt' = rt /\ op' = OpIdle /\ (Emits(r) \/ RaisesFreely(r))
  BY DEF OpRecordAcknowledgement
<1>2. op.saw.through > 0
  BY OperatorAt DEF Results, OpRecordAcknowledgement
<1>3. Plain(r) /\ SoundRecord(r)
  BY <1>2 DEF Plain, IsTaskClosure, StrategyEnds, SoundRecord, AcknowledgementValid
<1> HIDE DEF r
<1> QED
  BY <1>1, <1>3, CommandEnds, Zenon

(* The result of a preflight agrees with itself.  (SMT has no empty string.)  *)
NoStep == ""
Names == {"readiness", "catalog", "feed", "exchange"}
LEMMA NamedSteps == Steps \in Seq(Names)
  BY DEF Steps, Names

LEMMA PreflightSound ==
    ASSUME NEW s, NEW k \in 1..4, s \in Seq({"ok", "attention"}), Len(s) = k,
           \A i \in 1..(k - 1) : s[i] = "ok", s[k] = "ok" => k = 4,
           NEW r, r.statuses = s, r.completed = SubSeq(Steps, 1, k),
           r.skipped = SubSeq(Steps, k + 1, Len(Steps)), r.status = s[k],
           s[k] = "ok" => r.stopped = NoStep, s[k] # "ok" => r.stopped = Steps[k]
    PROVE  PreflightValid(r)
<1>1. Steps \in Seq(Names) /\ Len(Steps) = 4
  BY NamedSteps, StepsAre
<1>2. Len(r.completed) = k /\ r.completed[k] = Steps[k]
  BY <1>1
<1>3. k = 4 => r.skipped = << >>
  <2> DEFINE q == SubSeq(Steps, 5, 4)
  <2>1. q \in Seq(Names) /\ Len(q) = 0
    BY <1>1
  <2>2. k = 4 => r.skipped = q
    BY <1>1
  <2> HIDE DEF q
  <2>3. q = << >>
    BY <2>1
  <2> QED
    BY <2>2, <2>3
<1>4. r.status \in {"ok", "attention"}
  OBVIOUS
<1>5. r.status = "ok" => r.skipped = << >> /\ r.stopped = NoStep
  BY <1>3
<1>6. r.status = "attention" => r.stopped = r.completed[k]
  <2>1. r.status = "attention" => s[k] # "ok"
    OBVIOUS
  <2> QED
    BY <1>2, <2>1, Zenon
<1>7. k > 0 /\ Len(r.statuses) = k /\ \A i \in 1..(k - 1) : r.statuses[i] = "ok"
  OBVIOUS
<1>8. r.status = r.statuses[k]
  OBVIOUS
<1> QED
  BY <1>2, <1>5, <1>6, <1>7, <1>8, Zenon DEF PreflightValid, NoStep

LEMMA HealthRecordPreflight ==
    ASSUME LiveInv, HealthInv, OpRecordPreflight
    PROVE  HealthInv'
<1> DEFINE t == op.statuses
           n == Len(t)
           done == SubSeq(Steps, 1, n)
           rest == SubSeq(Steps, n + 1, Len(Steps))
           stopped == IF t[n] = "ok" THEN "" ELSE Steps[n]
           r == [type |-> "preflight", config |-> op.config, statuses |-> t, completed |-> done,
                 skipped |-> rest, status |-> t[n], stopped |-> stopped]
<1>1. op.pc = "record" /\ rt' = rt /\ op' = OpIdle /\ (Emits(r) \/ RaisesFreely(r))
  BY Zenon DEF OpRecordPreflight
<1>2. (t[n] = "ok" => stopped = NoStep) /\ (t[n] # "ok" => stopped = Steps[n])
  BY Zenon DEF NoStep
<1> HIDE DEF stopped
<1>3. op.pc \notin {"feed", "exchange"}
  BY <1>1
<1>4. /\ n \in 1..4 /\ t \in Seq({"ok", "attention"})
      /\ \A i \in 1..(n - 1) : t[i] = "ok"
  <2>1. Sound(op) /\ Progress(log, op) /\ Results(op)
    BY OperatorAt
  <2>2. n \in 1..4
    BY <1>1, <2>1 DEF Progress
  <2> QED
    BY <1>1, <2>1, <2>2 DEF Results, Sound
<1>5. t[n] = "ok" => n = 4
  BY <1>1, OperatorAt DEF Results
<1>6. /\ r.type = "preflight" /\ r.statuses = t /\ r.completed = done /\ r.skipped = rest
      /\ r.status = t[n] /\ r.stopped = stopped
  OBVIOUS
<1> HIDE DEF r
<1>7. PreflightValid(r)
  <2> HIDE DEF t
  <2>1. n = Len(t) /\ \A i \in 1..(n - 1) : t[i] = "ok"
    BY <1>4
  <2>2. r.completed = SubSeq(Steps, 1, n) /\ r.skipped = SubSeq(Steps, n + 1, Len(Steps))
    BY <1>6
  <2> HIDE DEF n, done, rest
  <2>3. (t[n] = "ok" => r.stopped = NoStep) /\ (t[n] # "ok" => r.stopped = Steps[n])
    BY <1>2, <1>6
  <2> QED
    BY <1>4, <1>5, <1>6, <2>1, <2>2, <2>3, PreflightSound
<1>8. Plain(r)
  BY <1>6 DEF Plain, IsTaskClosure, StrategyEnds
<1>9. SoundRecord(r)
  BY <1>6, <1>7, Zenon DEF SoundRecord
<1> QED
  BY <1>1, <1>3, <1>8, <1>9, CommandEnds, Zenon

LEMMA HealthCatalog ==
    ASSUME LiveInv, HealthInv, OpCatalog
    PROVE  HealthInv'
<1> DEFINE r == [type |-> "products"]
<1>1. Plain(r) /\ SoundRecord(r) /\ Emitted(r) /\ rt' = rt /\ op.pc = "catalog"
  BY DEF OpCatalog, Emits, RaisesFreely, Emitted, Plain, IsTaskClosure, StrategyEnds, SoundRecord
<1>2. Adds(faults, faults', 0, 0, 0)
  BY OperatorAt DEF OpCatalog, Emits, RaisesFreely, Outage
<1>3. Sound(op) /\ Progress(log, op) /\ Results(op) /\ op.start = 0
  BY <1>1, OperatorAt
<1>4. StepDone("ok") \/ StepDone("attention") \/ op' = [op EXCEPT !.pc = "smoke_error"]
  BY DEF OpCatalog
<1> HIDE DEF r
<1>5. Results(op') /\ op'.start = 0
  <2>1. ASSUME NEW status \in {"ok", "attention"}, StepDone(status)
        PROVE  Results(op') /\ op'.start = 0
    BY <1>1, <1>3, <2>1, StepDoneResults
  <2>2. CASE op' = [op EXCEPT !.pc = "smoke_error"]
    <3>1. op'.pc = "smoke_error" /\ op'.start = 0
      BY <1>3, <2>2 DEF Sound, Fields
    <3> QED
      BY <3>1 DEF Results
  <2> QED
    BY <1>4, <2>1, <2>2
<1>6. op'.start = op.start /\ (op.start # 0 => op'.pc = op.pc)
  BY <1>3, <1>5
<1> QED
  BY <1>1, <1>2, <1>5, <1>6, OperatorPlain, Zenon

LEMMA HealthSmokeFails ==
    ASSUME LiveInv, HealthInv, OpSmokeFails
    PROVE  HealthInv'
<1> DEFINE r == Error("smoke", "", 0)
<1>1. Plain(r) /\ SoundRecord(r)
  BY DEF Plain, IsTaskClosure, StrategyEnds, SoundRecord, Error
<1>2. log' = Append(log, r) /\ rt' = rt /\ op' = [op EXCEPT !.failed = TRUE] /\ Outage
  BY Zenon DEF OpSmokeFails
<1> HIDE DEF r
<1>3. Adds(faults, faults', 0, 0, 0) /\ Sound(op) /\ Results(op)
  BY <1>2, OperatorAt DEF Outage
<1>4. /\ op'.pc = op.pc /\ op'.start = op.start /\ op'.statuses = op.statuses
      /\ op'.aggregate = op.aggregate /\ op'.result = op.result /\ op'.saw = op.saw
  BY <1>2, <1>3 DEF Sound, Fields
<1>5. Results(op')
  BY <1>3, <1>4 DEF Results
<1>6. Emitted(r)
  BY <1>2 DEF Emitted
<1> QED
  BY <1>1, <1>2, <1>3, <1>4, <1>5, <1>6, OperatorPlain, Zenon

(* A smoke's start and its stop, of which only the lifecycle tells.           *)
LEMMA SmokeStep ==
    ASSUME LiveInv, HealthInv, rt' = rt, NEW r, Emitted(r), r.type \in {"started", "stopped"},
           LifecycleNow', Results(op'), op'.start # 0 => op'.pc \in {"feed", "exchange"},
           NEW n, Adds(faults, faults', n, 0, 0)
    PROVE  HealthInv'
<1>1. Control /\ FaultShape(faults) /\ FaultShape(faults')
  BY OperatorAt DEF Adds
<1>2. faults'.task = faults.task /\ faults'.strategy = faults.strategy
  BY <1>1 DEF Adds, FaultShape
<1>3. Control'
  BY <1>1, OperatorControl, Zenon
<1>4. rt'.task = rt.task /\ rt'.strat = rt.strat /\ (rt.task # 0 => rt'.queue = rt.queue)
  OBVIOUS
<1>5. TasksNow' /\ StrategiesNow' /\ RecordsSound'
  BY <1>2, <1>4, LifecycleOnly, Zenon
<1> QED
  BY <1>3, <1>5 DEF HealthInv

LEMMA HealthSmokeStart ==
    ASSUME LiveInv, HealthInv, OpSmokeStart
    PROVE  HealthInv'
<1> DEFINE r == Started(op.pc, op.config)
           h == Len(log) + 1
<1>1. /\ op.pc \in {"feed", "exchange"} /\ op.start = 0 /\ rt' = rt
      /\ r.type = "started" /\ r.component = op.pc
  BY DEF OpSmokeStart, Started
<1>2. \/ log' = Append(log, r) /\ faults' = faults /\ op' = [op EXCEPT !.start = h]
      \/ Emitted(r) /\ faults' = [faults EXCEPT !.n = @ + 1, !.lifecycle = @ + 1] /\ op' = OpIdle
  BY DEF OpSmokeStart, Emits, Raises, Emitted, Here
<1>3. Emitted(r)
  BY <1>2 DEF Emitted
<1> HIDE DEF r
<1>4. /\ FaultShape(faults) /\ IsLog(log) /\ Sound(op) /\ Results(op) /\ Adds(faults, faults, 0, 0, 0)
  BY OperatorAt
<1>5. LifecycleNow /\ faults.lifecycle \in Nat /\ r.component \notin Running(rt.begun, op)
  BY <1>1, <1>4 DEF HealthInv, FaultShape, Running
<1>6. CASE log' = Append(log, r) /\ faults' = faults /\ op' = [op EXCEPT !.start = h]
  <2>1. /\ op'.pc = op.pc /\ op'.start = h /\ op'.statuses = op.statuses
        /\ op'.aggregate = op.aggregate /\ op'.result = op.result /\ op'.saw = op.saw
    BY <1>4, <1>6 DEF Sound, Fields
  <2>2. h # 0
    BY <1>4, LogFacts
  <2> HIDE DEF h
  <2>3. Running(rt'.begun, op') = Running(rt.begun, op) \cup {r.component}
    BY <1>1, <2>1, <2>2 DEF Running
  <2>4. LifecycleNow'
    BY <1>1, <1>4, <1>5, <1>6, <2>3, LifecycleBegins
  <2>5. Results(op')
    BY <1>4, <2>1 DEF Results
  <2>6. op'.start # 0 => op'.pc \in {"feed", "exchange"}
    BY <1>1, <2>1
  <2>7. r.type \in {"started", "stopped"} /\ Adds(faults, faults', 0, 0, 0)
    BY <1>1, <1>4, <1>6
  <2> QED
    BY <1>1, <1>3, <2>4, <2>5, <2>6, <2>7, SmokeStep, Zenon
<1>7. CASE Emitted(r) /\ faults' = [faults EXCEPT !.n = @ + 1, !.lifecycle = @ + 1] /\ op' = OpIdle
  <2>1. Adds(faults, faults', 1, 0, 0)
    BY <1>4, <1>7, FaultsAdded, Zenon
  <2>2. op'.start = 0 /\ Results(op') /\ r.type \in {"started", "stopped"}
    BY <1>1, <1>7, IdleQuiet, QuietResults DEF OpIdle
  <2>3. Running(rt'.begun, op') = Running(rt.begun, op)
    BY <1>1, <2>2 DEF Running
  <2>4. LifecycleNow'
    <3>1. faults'.lifecycle = faults.lifecycle + 1
      BY <2>1 DEF Adds
    <3> QED
      BY <1>1, <1>3, <1>4, <1>5, <2>3, <3>1, LifecycleBegins
  <2> QED
    BY <1>1, <1>3, <2>1, <2>2, <2>4, SmokeStep, Zenon
<1> QED
  BY <1>2, <1>6, <1>7

LEMMA HealthSmokeStop ==
    ASSUME LiveInv, HealthInv, OpSmokeStop
    PROVE  HealthInv'
<1> DEFINE r == Stopped(op.pc)
           earned == IF op.pc = "feed" /\ FeedErrors THEN "attention" ELSE "ok"
<1>1. /\ op.pc \in {"feed", "exchange"} /\ op.start # 0 /\ rt' = rt
      /\ r.type = "stopped" /\ r.component = op.pc
  BY DEF OpSmokeStop, Stopped
<1>2. \/ /\ log' = Append(log, r) /\ faults' = faults
         /\ op' = OpIdle \/ StepDone(earned)
      \/ /\ log' = Append(log, r) /\ Outage /\ StepDone("attention")
      \/ Emitted(r) /\ faults' = [faults EXCEPT !.n = @ + 1, !.lifecycle = @ + 1] /\ op' = OpIdle
  <2>1. \/ Emits(r) /\ (op' = OpIdle \/ StepDone(earned))
        \/ log' = Append(log, r) /\ Outage /\ StepDone("attention")
        \/ Raises(r, "lifecycle") /\ op' = OpIdle
    BY Zenon DEF OpSmokeStop
  <2> HIDE DEF r, earned
  <2>2. Raises(r, "lifecycle")
          => Emitted(r) /\ faults' = [faults EXCEPT !.n = @ + 1, !.lifecycle = @ + 1]
    BY DEF Raises, Emitted
  <2> QED
    BY <2>1, <2>2 DEF Emits
<1>3. Emitted(r) /\ earned \in {"ok", "attention"}
  BY <1>2 DEF Emitted
<1> HIDE DEF r, earned
<1>4. /\ FaultShape(faults) /\ IsLog(log) /\ Sound(op) /\ Results(op) /\ Progress(log, op) /\ Control
      /\ Adds(faults, faults, 0, 0, 0) /\ Adds(faults, [faults EXCEPT !.outages = @ + 1], 0, 0, 0)
  BY OperatorAt
<1>5. \/ log' = Append(log, r) /\ Adds(faults, faults', 0, 0, 0)
      \/ Adds(faults, faults', 1, 0, 0)
  <2>1. Outage => Adds(faults, faults', 0, 0, 0)
    BY <1>4 DEF Outage
  <2>2. faults' = [faults EXCEPT !.n = @ + 1, !.lifecycle = @ + 1] => Adds(faults, faults', 1, 0, 0)
    BY <1>4, FaultsAdded, Zenon
  <2> QED
    BY <1>2, <1>4, <2>1, <2>2
<1>6. Results(op') /\ op'.start = 0
  <2>1. ASSUME NEW status \in {"ok", "attention"}, StepDone(status)
        PROVE  Results(op') /\ op'.start = 0
    BY <1>1, <1>4, <2>1, StepDoneResults
  <2>2. ASSUME op' = OpIdle
        PROVE  Results(op') /\ op'.start = 0
    BY <2>2, IdleQuiet, QuietResults DEF OpIdle
  <2> QED
    BY <1>2, <1>3, <2>1, <2>2
<1>7. LifecycleNow /\ faults.lifecycle \in Nat /\ r.component \in Running(rt.begun, op)
  BY <1>1, <1>4 DEF HealthInv, FaultShape, Running
<1>8. Running(rt'.begun, op') = Running(rt.begun, op) \ {r.component}
  BY <1>1, <1>6 DEF Running
<1>9. LifecycleNow'
  <2>1. \/ log' = Append(log, r) /\ faults'.lifecycle = faults.lifecycle
        \/ Emitted(r) /\ faults'.lifecycle = faults.lifecycle + 1
    BY <1>3, <1>5, <1>7 DEF Adds
  <2> QED
    BY <1>1, <1>4, <1>7, <1>8, <2>1, LifecycleEnds
<1>10. r.type \in {"started", "stopped"} /\ (op'.start # 0 => op'.pc \in {"feed", "exchange"})
  BY <1>1, <1>6
<1> QED
  BY <1>1, <1>3, <1>5, <1>6, <1>9, <1>10, SmokeStep, Zenon

(* The steps of the operator, altogether.                                     *)
LEMMA HealthOperator ==
    ASSUME LiveInv, HealthInv,
           OpStep \/ \E c \in todo : OpPreflight(c) \/ OpSmoke(c) \/ OpSimulate(c) \/ OpAcknowledge(c)
    PROVE  HealthInv'
<1>1. CASE \E c \in todo : OpPreflight(c) \/ OpSmoke(c) \/ OpSimulate(c) \/ OpAcknowledge(c)
  BY <1>1, HealthCommands
<1>2. CASE OpCatalog \/ OpSmokeError \/ OpSmokeStart \/ OpSmokeFails \/ OpSmokeStop
  BY <1>2, HealthCatalog, HealthSmokeError, HealthSmokeStart, HealthSmokeFails, HealthSmokeStop
<1>3. CASE OpRecordPreflight \/ OpRecordSimulation \/ OpRecordAcknowledgement
  BY <1>3, HealthRecordPreflight, HealthRecordSimulation, HealthRecordAcknowledgement
<1> QED
  BY <1>1, <1>2, <1>3 DEF OpStep

-----------------------------------------------------------------------------
(* A process is killed, and what it had open is a fault each.                 *)
LEMMA KillsLifecycle ==
    ASSUME IsLog(log), LifecycleNow, faults.lifecycle \in Nat, NEW c \in Running(rt.begun, op),
           log' = log, Running(rt'.begun, op') = Running(rt.begun, op) \ {c},
           faults'.lifecycle = faults.lifecycle + 1
    PROVE  LifecycleNow'
<1> DEFINE R == Running(rt.begun, op)
           n == faults.lifecycle
<1>1. LifecycleOwed(log, R, n) /\ n \in Nat /\ c \in R
  BY DEF LifecycleNow
<1> HIDE DEF R, n
<1>2. LifecycleOwed(log, R \ {c}, n + 1)
  BY <1>1, LifecycleGone
<1> QED
  BY <1>2 DEF LifecycleNow, R, n

LEMMA LifecycleStays ==
    ASSUME LifecycleNow, log' = log, Running(rt'.begun, op') = Running(rt.begun, op),
           faults'.lifecycle = faults.lifecycle
    PROVE  LifecycleNow'
  BY DEF LifecycleNow

LEMMA KillFaults ==
    ASSUME NEW f, FaultShape(f), NEW a \in Nat, NEW t \in Nat, NEW s \in Nat
    PROVE  /\ Adds(f, [f EXCEPT !.n = @ + 1, !.lifecycle = @ + a, !.task = @ + t, !.strategy = @ + s],
                   a, t, s)
           /\ Adds(f, [f EXCEPT !.n = @ + 1, !.lifecycle = @ + a], a, 0, 0)
<1>1. Adds(f, [f EXCEPT !.n = @ + 1, !.lifecycle = @ + a], a, 0, 0)
  BY DEF Adds, FaultShape
<1> DEFINE g == [f EXCEPT !.n = @ + 1, !.lifecycle = @ + a, !.task = @ + t, !.strategy = @ + s]
<1>2. DOMAIN g = DOMAIN f
  OBVIOUS
<1>3. g.lifecycle = f.lifecycle + a /\ g.task = f.task + t /\ g.strategy = f.strategy + s
  BY DEF FaultShape
<1> HIDE DEF g
<1>4. Adds(f, g, a, t, s)
  BY <1>2, <1>3 DEF Adds, FaultShape
<1> QED
  BY <1>1, <1>4 DEF g

(* The runtime.                                                               *)
LEMMA HealthRuntimeKilled ==
    ASSUME LiveInv, HealthInv, log' = log, rt' = RtOff, op' = op,
           faults' = [faults EXCEPT !.n = @ + 1, !.lifecycle = @ + One(rt.begun),
                                    !.task = @ + One(rt.task # 0),
                                    !.strategy = @ + One(rt.strat # 0)]
    PROVE  HealthInv'
<1>1. /\ FaultShape(faults) /\ Control /\ IsLog(log) /\ Results(op)
      /\ LifecycleNow /\ TasksNow /\ StrategiesNow /\ RecordsSound
  BY OperatorAt DEF HealthInv
<1> DEFINE a == One(rt.begun)
           t == One(rt.task # 0)
           s == One(rt.strat # 0)
<1>2. (rt.begun = TRUE => a = 1) /\ (rt.begun = FALSE => a = 0)
  BY DEF One
<1>3. (rt.task # 0 => t = 1) /\ (rt.task = 0 => t = 0)
  BY DEF One
<1>4. (rt.strat # 0 => s = 1) /\ (rt.strat = 0 => s = 0)
  BY DEF One
<1>5. rt.begun \in BOOLEAN
  BY <1>1 DEF Control
<1> HIDE DEF a, t, s
<1>6. a \in Nat /\ t \in Nat /\ s \in Nat
  BY <1>2, <1>3, <1>4, <1>5
<1>7. Adds(faults, faults', a, t, s)
  <2>1. faults' = [faults EXCEPT !.n = @ + 1, !.lifecycle = @ + a, !.task = @ + t, !.strategy = @ + s]
    BY Zenon DEF a, t, s
  <2>2. Adds(faults, [faults EXCEPT !.n = @ + 1, !.lifecycle = @ + a, !.task = @ + t,
                                    !.strategy = @ + s], a, t, s)
    BY <1>1, <1>6, KillFaults, Zenon
  <2> QED
    BY <2>1, <2>2, Zenon
<1>8. /\ rt'.pc = "off" /\ rt'.begun = FALSE /\ rt'.task = 0 /\ rt'.strat = 0 /\ RtShape \subseteq DOMAIN rt'
  BY DEF RtOff, RtShape
<1>9. Control'
  <2>1. op'.start # 0 => op'.pc \in {"feed", "exchange"}
    BY <1>1 DEF Control
  <2>2. FaultShape(faults')
    BY <1>7 DEF Adds
  <2>3. /\ rt'.begun \in BOOLEAN /\ (rt'.begun <=> rt'.pc \in Working \cup {"loop", "stopping"})
        /\ rt'.task # 0 <=> rt'.pc \in Working
    BY <1>8 DEF Working, Evaluating
  <2>4. rt'.strat # 0 <=> rt'.pc \in Evaluating
    BY <1>8 DEF Evaluating
  <2> QED
    BY <1>8, <2>1, <2>2, <2>3, <2>4 DEF Control, FaultShape, RtShape
<1>10. LifecycleNow'
  <2>1. CASE rt.begun = TRUE
    <3>1. "orchestrator" \in Running(rt.begun, op)
      BY <2>1 DEF Running
    <3>2. Running(rt'.begun, op') = Running(rt.begun, op) \ {"orchestrator"}
      BY <1>1, <1>8, <2>1 DEF Running, Control
    <3>3. faults'.lifecycle = faults.lifecycle + 1 /\ faults.lifecycle \in Nat
      BY <1>1, <1>2, <1>7, <2>1 DEF Adds, FaultShape
    <3> QED
      BY <1>1, <3>1, <3>2, <3>3, KillsLifecycle
  <2>2. CASE rt.begun = FALSE
    <3>1. Running(rt'.begun, op') = Running(rt.begun, op)
      BY <1>8, <2>2
    <3>2. faults'.lifecycle = faults.lifecycle
      BY <1>1, <1>2, <1>7, <2>2 DEF Adds, FaultShape
    <3> QED
      BY <1>1, <3>1, <3>2, LifecycleStays
  <2> QED
    BY <1>5, <2>1, <2>2
<1>11. TasksNow'
  <2> DEFINE of == Head(rt.queue)
             k == faults.task
             i == rt.task
  <2>1. TaskOwed(log, i, of, k) /\ k \in Nat
    BY <1>1 DEF TasksNow, FaultShape
  <2>2. faults'.task = k + t /\ (i # 0 => t = 1) /\ (i = 0 => t = 0)
    BY <1>3, <1>7 DEF Adds
  <2> HIDE DEF of, k, i
  <2>3. \A x : TaskOwed(log, 0, x, k + t)
    <3>1. CASE i = 0
      <4>1. t = 0 /\ k + t = k
        BY <2>1, <2>2, <3>1
      <4> QED
        BY <2>1, <3>1, <4>1, NoTask
    <3>2. CASE i # 0
      <4>1. t = 1
        BY <2>2, <3>2
      <4> QED
        BY <1>1, <2>1, <4>1, TaskFault
    <3> QED
      BY <3>1, <3>2
  <2> QED
    BY <1>8, <2>2, <2>3 DEF TasksNow
<1>12. StrategiesNow'
  <2> DEFINE k == faults.strategy
             i == rt.strat
  <2>1. StrategyOwed(log, i, k) /\ k \in Nat
    BY <1>1 DEF StrategiesNow, FaultShape
  <2>2. faults'.strategy = k + s /\ (i # 0 => s = 1) /\ (i = 0 => s = 0)
    BY <1>4, <1>7 DEF Adds
  <2> HIDE DEF k, i
  <2>3. StrategyOwed(log, 0, k + s)
    <3>1. CASE i = 0
      <4>1. s = 0 /\ k + s = k
        BY <2>1, <2>2, <3>1
      <4> QED
        BY <2>1, <3>1, <4>1
    <3>2. CASE i # 0
      <4>1. s = 1
        BY <2>2, <3>2
      <4> QED
        BY <1>1, <2>1, <4>1, StrategyFault
    <3> QED
      BY <3>1, <3>2
  <2> QED
    BY <1>8, <2>2, <2>3 DEF StrategiesNow
<1>13. RecordsSound' /\ Results(op')
  BY <1>1 DEF RecordsSound
<1> QED
  BY <1>9, <1>10, <1>11, <1>12, <1>13 DEF HealthInv

(* The operator's command.                                                    *)
LEMMA HealthOperatorKilled ==
    ASSUME LiveInv, HealthInv, log' = log, rt' = rt, op' = OpIdle,
           faults' = [faults EXCEPT !.n = @ + 1, !.lifecycle = @ + One(op.start # 0)]
    PROVE  HealthInv'
<1>1. /\ FaultShape(faults) /\ Control /\ IsLog(log)
      /\ LifecycleNow /\ TasksNow /\ StrategiesNow /\ RecordsSound
  BY OperatorAt DEF HealthInv
<1> DEFINE a == One(op.start # 0)
<1>2. (op.start # 0 => a = 1) /\ (op.start = 0 => a = 0)
  BY DEF One
<1> HIDE DEF a
<1>3. a \in Nat
  BY <1>2
<1>4. Adds(faults, faults', a, 0, 0)
  <2>1. faults' = [faults EXCEPT !.n = @ + 1, !.lifecycle = @ + a]
    BY Zenon DEF a
  <2>2. Adds(faults, [faults EXCEPT !.n = @ + 1, !.lifecycle = @ + a], a, 0, 0)
    BY <1>1, <1>3, KillFaults, Zenon
  <2> QED
    BY <2>1, <2>2, Zenon
<1>5. op'.start = 0 /\ Results(op')
  BY IdleQuiet, QuietResults DEF OpIdle
<1>6. Control'
  BY <1>1, <1>4, <1>5, OperatorControl DEF Adds
<1>7. LifecycleNow'
  <2>1. CASE op.start # 0
    <3>1. op.pc \in Running(rt.begun, op)
      BY <2>1 DEF Running
    <3>2. Running(rt'.begun, op') = Running(rt.begun, op) \ {op.pc}
      BY <1>1, <1>5, <2>1 DEF Running, Control
    <3>3. faults'.lifecycle = faults.lifecycle + 1 /\ faults.lifecycle \in Nat
      BY <1>1, <1>2, <1>4, <2>1 DEF Adds, FaultShape
    <3> QED
      BY <1>1, <3>1, <3>2, <3>3, KillsLifecycle
  <2>2. CASE op.start = 0
    <3>1. Running(rt'.begun, op') = Running(rt.begun, op)
      BY <1>5, <2>2 DEF Running
    <3>2. faults'.lifecycle = faults.lifecycle
      BY <1>1, <1>2, <1>4, <2>2 DEF Adds, FaultShape
    <3> QED
      BY <1>1, <3>1, <3>2, LifecycleStays
  <2> QED
    BY <2>1, <2>2
<1>8. TasksNow' /\ StrategiesNow' /\ RecordsSound'
  <2>1. faults'.task = faults.task /\ faults'.strategy = faults.strategy
    BY <1>1, <1>4 DEF Adds, FaultShape
  <2> QED
    BY <1>1, <2>1 DEF TasksNow, StrategiesNow, RecordsSound
<1> QED
  BY <1>5, <1>6, <1>7, <1>8 DEF HealthInv

LEMMA HealthKilled ==
    ASSUME LiveInv, HealthInv, Kill
    PROVE  HealthInv'
<1>1. \/ /\ log' = log /\ rt' = RtOff /\ op' = op
         /\ faults' = [faults EXCEPT !.n = @ + 1, !.lifecycle = @ + One(rt.begun),
                                     !.task = @ + One(rt.task # 0),
                                     !.strategy = @ + One(rt.strat # 0)]
      \/ /\ log' = log /\ rt' = rt /\ op' = OpIdle
         /\ faults' = [faults EXCEPT !.n = @ + 1, !.lifecycle = @ + One(op.start # 0)]
  BY Zenon DEF Kill
<1> QED
  BY <1>1, HealthRuntimeKilled, HealthOperatorKilled, Zenon

-----------------------------------------------------------------------------
LEMMA NextHealth == LiveInv /\ HealthInv /\ [Next]_vars => HealthInv'
<1> SUFFICES ASSUME LiveInv, HealthInv, [Next]_vars
             PROVE  HealthInv'
  OBVIOUS
<1>1. CASE RtStep \/ RtAssemblyFails \/ Stop \/ \E c \in todo : RtStart(c)
  BY <1>1, HealthRuntime, Zenon
<1>2. CASE OpStep \/ \E c \in todo : OpPreflight(c) \/ OpSmoke(c) \/ OpSimulate(c) \/ OpAcknowledge(c)
  BY <1>2, HealthOperator, Zenon
<1>3. CASE Kill
  BY <1>3, HealthKilled, Zenon
<1>4. CASE UNCHANGED vars
  BY <1>4 DEF vars, HealthInv, Control, LifecycleNow, TasksNow, StrategiesNow, RecordsSound
<1> QED
  BY <1>1, <1>2, <1>3, <1>4 DEF Next

(* What ledger health can complain of, at every moment: the starts that are   *)
(* open belong to a process that runs, and every start or closure that does   *)
(* not pair, and every component that was left running, is a fault counted    *)
(* when it happened, one for one.  It is inductive with what LiveInv says of  *)
(* the ledger: RuntimeOrchestrator and the smokes emit no start or closure    *)
(* out of turn, whoever else emits in between.                                *)
THEOREM HealthInvariant == Spec => [](LiveInv /\ HealthInv)
<1>1. Init => LiveInv /\ HealthInv
  BY InitLive, InitHealth
<1>2. LiveInv /\ HealthInv /\ [Next]_vars => (LiveInv /\ HealthInv)'
  BY NextLive, NextHealth
<1> QED
  BY <1>1, <1>2, PTL DEF Spec

(* Ledger health reports no mismatch of the runtime's and the operator's      *)
(* records that no kill, no emission that raised and no BotError explains.    *)
THEOREM HealthIsExplained == Spec => []HealthExplained
<1>1. LiveInv /\ HealthInv => HealthExplained
  BY HealthInvExplains DEF LiveInv, Records
<1> QED
  BY <1>1, HealthInvariant, PTL
=============================================================================
