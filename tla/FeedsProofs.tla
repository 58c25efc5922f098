---------------------------- MODULE FeedsProofs -----------------------------
(* Theorems about Feeds, for any sources, messages, faults and stops.  Each   *)
(* step is a set of outcomes; what holds of every outcome of a part holds of  *)
(* what follows it.  Kept is about the deduplicator: an accepted key is in it *)
(* or was evicted, and what else is in it lacks the record of its acceptance. *)
(* Linked is about connections: a source is up on record only while its       *)
(* coroutine streams, unless a record is missing.                             *)
(* The second part is about Fills, for any orders, trades and pages: what a   *)
(* fold over the records is, what each kind of record changes of it, and how  *)
(* far each process's pass or comparison has come while the venue and the     *)
(* other processes go on.                                                     *)
EXTENDS Feeds, Fills, FiniteSetTheorems, SequenceTheorems, WellFoundedInduction, TLAPS

Keys == Seq(Int)
World(v) == v \in [status : [Sources -> {"connected", "disconnected"}], fresh : [Sources -> BOOLEAN],
                   seen : Seq(Keys), received : Seq(Keys), accepted : SUBSET Keys, again : SUBSET Keys,
                   orphans : SUBSET Keys, up : SUBSET Sources, breaches : SUBSET Sources,
                   degraded : BOOLEAN, evicted : SUBSET Keys, unrecorded : SUBSET Keys,
                   torn : BOOLEAN, faults : Nat]

(* What a step may leave alone: what deduplication looks at, ...              *)
SameKeys(v, x) ==
    /\ x.seen = v.seen /\ x.received = v.received /\ x.accepted = v.accepted /\ x.again = v.again
    /\ x.orphans = v.orphans /\ x.evicted = v.evicted /\ x.unrecorded = v.unrecorded
(* ... and what is on record of the connections, unless a record is missing.  *)
SameLinks(v, x) == /\ v.torn => x.torn
                   /\ ~x.torn => x.up = v.up /\ x.breaches = v.breaches
IsOutcome(o) == o = [w |-> o.w, raised |-> o.raised] /\ o.raised \in BOOLEAN /\ World(o.w)
                /\ (o.raised => o.w.torn)

(* Counting a fault changes nothing else.                                     *)
LEMMA Faulty ==
    ASSUME NEW v, World(v)
    PROVE  World(Fault(v)) /\ SameKeys(v, Fault(v)) /\ SameLinks(v, Fault(v))
<1> DEFINE n == v.faults + 1
<1>1. n \in Nat
  BY DEF World
<1>2. Fault(v) = [v EXCEPT !.faults = n]
  BY DEF Fault
<1> HIDE DEF n
<1>3. World([v EXCEPT !.faults = n])
  BY <1>1 DEF World
<1>4. SameKeys(v, [v EXCEPT !.faults = n]) /\ SameLinks(v, [v EXCEPT !.faults = n])
  BY DEF World, SameKeys, SameLinks
<1> QED
  BY <1>2, <1>3, <1>4

(* An append returns with its record, or raises with it or without.           *)
LEMMA EmitOutcomes ==
    ASSUME NEW v, NEW x, World(v), World(x), NEW o \in Emit(v, x)
    PROVE  /\ IsOutcome(o) /\ (~o.raised => o.w = x)
           /\ o.raised => SameKeys(v, o.w) \/ SameKeys(x, o.w)
<1>1. CASE o = [w |-> x, raised |-> FALSE]
  BY <1>1 DEF IsOutcome
<1>2. ASSUME NEW y, World(y), o = Raise(y)
      PROVE  IsOutcome(o) /\ o.raised /\ SameKeys(y, o.w)
  <2> DEFINE z == [Fault(y) EXCEPT !.torn = TRUE]
  <2>1. World(z) /\ SameKeys(y, z) /\ z.torn
    <3> DEFINE f == Fault(y)
    <3>1. World(f) /\ SameKeys(y, f)
      BY <1>2, Faulty
    <3> HIDE DEF f
    <3>2. World([f EXCEPT !.torn = TRUE]) /\ SameKeys(f, [f EXCEPT !.torn = TRUE]) /\ [f EXCEPT !.torn = TRUE].torn
      BY <3>1 DEF World, SameKeys
    <3> QED
      BY <3>1, <3>2 DEF SameKeys, f
  <2>2. o = [w |-> z, raised |-> TRUE]
    BY <1>2 DEF Raise
  <2> HIDE DEF z
  <2> QED
    BY <2>1, <2>2 DEF IsOutcome
<1>3. o = [w |-> x, raised |-> FALSE] \/ o = Raise(v) \/ o = Raise(x)
  BY DEF Emit, Ok
<1>4. CASE o = Raise(v)
  BY <1>2, <1>4
<1>5. CASE o = Raise(x)
  BY <1>2, <1>5
<1> QED
  BY <1>1, <1>3, <1>4, <1>5

(* The health audit leaves keys and connections alone.                        *)
LEMMA AuditHealthOutcomes ==
    ASSUME NEW v, World(v), NEW o \in AuditHealth(v)
    PROVE  IsOutcome(o) /\ SameKeys(v, o.w) /\ SameLinks(v, o.w)
<1> DEFINE x == [v EXCEPT !.degraded = TRUE]
<1>1. World(x) /\ SameKeys(v, x) /\ SameLinks(v, x)
  BY DEF World, SameKeys, SameLinks
<1>2. o = [w |-> v, raised |-> FALSE] \/ o \in Emit(v, x)
  BY DEF AuditHealth, Ok
<1> HIDE DEF x
<1>3. CASE o = [w |-> v, raised |-> FALSE]
  BY <1>3 DEF IsOutcome, SameKeys, SameLinks
<1>4. CASE o \in Emit(v, x)
  BY <1>1, <1>4, EmitOutcomes DEF SameKeys, SameLinks, IsOutcome
<1> QED
  BY <1>2, <1>3, <1>4

(* The changes of the router and the ledger that leave the keys alone.        *)
LEMMA Marked ==
    ASSUME NEW v, World(v), NEW s \in Sources
    PROVE  /\ World(MarkConnected(v, s)) /\ SameKeys(v, MarkConnected(v, s)) /\ SameLinks(v, MarkConnected(v, s))
           /\ World(MarkDisconnected(v, s)) /\ SameKeys(v, MarkDisconnected(v, s))
           /\ SameLinks(v, MarkDisconnected(v, s))
<1>1. World(MarkDisconnected(v, s)) /\ SameKeys(v, MarkDisconnected(v, s)) /\ SameLinks(v, MarkDisconnected(v, s))
  BY DEF World, MarkDisconnected, SameKeys, SameLinks
<1> DEFINE x == [v EXCEPT !.status[s] = "connected"]
<1>2. World(x) /\ SameKeys(v, x) /\ SameLinks(v, x)
  BY DEF World, SameKeys, SameLinks
<1> HIDE DEF x
<1>3. MarkConnected(v, s) = [x EXCEPT !.fresh[s] = TRUE]
  BY DEF MarkConnected, x
<1>4. World([x EXCEPT !.fresh[s] = TRUE]) /\ SameKeys(x, [x EXCEPT !.fresh[s] = TRUE])
      /\ SameLinks(x, [x EXCEPT !.fresh[s] = TRUE])
  BY <1>2 DEF World, SameKeys, SameLinks
<1> QED
  BY <1>1, <1>2, <1>3, <1>4 DEF SameKeys, SameLinks

(* A disconnection: the source is down on record, unless that is missing.     *)
Down(v, s, x) == /\ v.torn => x.torn
                 /\ ~x.torn => x.up = v.up \ {s} /\ x.breaches = v.breaches

(* FEED_DISCONNECTED takes the source down on record.                         *)
LEMMA AuditDisconnectedOutcomes ==
    ASSUME NEW v, World(v), NEW s \in Sources, NEW o \in AuditDisconnected(v, s)
    PROVE  IsOutcome(o) /\ SameKeys(v, o.w) /\ Down(v, s, o.w)
<1> DEFINE x == MarkDisconnected(v, s)
           y == Disconnected(x, s)
<1>1. World(x) /\ SameKeys(v, x) /\ SameLinks(v, x) /\ o \in Emit(x, y)
  BY Marked DEF AuditDisconnected
<1> HIDE DEF x
<1>2. World(y) /\ SameKeys(x, y) /\ y.torn = x.torn /\ y.up = x.up \ {s} /\ y.breaches = x.breaches
  BY <1>1 DEF World, Disconnected, SameKeys
<1> HIDE DEF y
<1>3. /\ IsOutcome(o) /\ (~o.raised => o.w = y)
      /\ o.raised => SameKeys(x, o.w) \/ SameKeys(y, o.w)
  BY <1>1, <1>2, EmitOutcomes
<1>4. SameKeys(v, o.w)
  BY <1>1, <1>2, <1>3 DEF SameKeys
<1>5. Down(v, s, o.w)
  BY <1>1, <1>2, <1>3 DEF Down, SameLinks, IsOutcome
<1> QED
  BY <1>3, <1>4, <1>5

(* So does an orderly end of the stream.                                      *)
LEMMA ReconnectOutcomes ==
    ASSUME NEW v, World(v), NEW s \in Sources, NEW o \in Reconnect(v, s)
    PROVE  IsOutcome(o) /\ SameKeys(v, o.w) /\ Down(v, s, o.w)
<1>1. PICK q \in AuditDisconnected(v, s) :
         (q.raised /\ o = q) \/ (~q.raised /\ o \in Then(AuditHealth(q.w), LAMBDA y : Emit(y, y)))
  BY DEF Then, Reconnect
<1>2. IsOutcome(q) /\ SameKeys(v, q.w) /\ Down(v, s, q.w)
  BY AuditDisconnectedOutcomes
<1>3. CASE q.raised /\ o = q
  BY <1>2, <1>3
<1>4. CASE o \in Then(AuditHealth(q.w), LAMBDA y : Emit(y, y))
  <2>1. PICK h \in AuditHealth(q.w) : (h.raised /\ o = h) \/ (~h.raised /\ o \in Emit(h.w, h.w))
    BY <1>4 DEF Then
  <2>2. IsOutcome(h) /\ SameKeys(q.w, h.w) /\ SameLinks(q.w, h.w)
    BY <1>2, AuditHealthOutcomes DEF IsOutcome
  <2>3. IsOutcome(o) /\ SameKeys(h.w, o.w) /\ SameLinks(h.w, o.w)
    <3>1. CASE h.raised /\ o = h
      BY <2>2, <3>1 DEF SameKeys, SameLinks
    <3>2. CASE o \in Emit(h.w, h.w)
      <4>1. /\ IsOutcome(o) /\ (~o.raised => o.w = h.w) /\ (o.raised => SameKeys(h.w, o.w))
        BY <2>2, <3>2, EmitOutcomes DEF IsOutcome
      <4> QED
        BY <4>1 DEF SameKeys, SameLinks, IsOutcome
    <3> QED
      BY <2>1, <3>1, <3>2
  <2> QED
    BY <1>2, <2>2, <2>3 DEF SameKeys, SameLinks, Down
<1> QED
  BY <1>1, <1>3, <1>4

(* And an end by an exception.                                                *)
LEMMA ReconnectAfterErrorOutcomes ==
    ASSUME NEW v, World(v), NEW s \in Sources, NEW o \in ReconnectAfterError(v, s)
    PROVE  IsOutcome(o) /\ SameKeys(v, o.w) /\ Down(v, s, o.w)
<1>1. PICK q \in Emit(v, v) :
         \/ q.raised /\ \E d \in AuditDisconnected(q.w, s) : o = [d EXCEPT !.raised = TRUE]
         \/ ~q.raised /\ o \in Reconnect(q.w, s)
  BY DEF ReconnectAfterError
<1>2. IsOutcome(q) /\ SameKeys(v, q.w) /\ SameLinks(v, q.w) /\ World(q.w)
  <2>1. IsOutcome(q) /\ (~q.raised => q.w = v) /\ (q.raised => SameKeys(v, q.w))
    BY EmitOutcomes
  <2> QED
    BY <2>1 DEF SameKeys, SameLinks, IsOutcome
<1>3. CASE ~q.raised /\ o \in Reconnect(q.w, s)
  BY <1>2, <1>3, ReconnectOutcomes DEF SameKeys, SameLinks, Down
<1>4. CASE q.raised /\ \E d \in AuditDisconnected(q.w, s) : o = [d EXCEPT !.raised = TRUE]
  <2>1. PICK d \in AuditDisconnected(q.w, s) : o = [d EXCEPT !.raised = TRUE]
    BY <1>4
  <2>2. IsOutcome(d) /\ SameKeys(q.w, d.w) /\ Down(q.w, s, d.w)
    BY <1>2, AuditDisconnectedOutcomes
  <2>3. q.w.torn
    BY <1>2, <1>4 DEF IsOutcome
  <2>4. o = [w |-> d.w, raised |-> TRUE]
    BY <2>1, <2>2 DEF IsOutcome
  <2>5. d.w.torn
    BY <2>2, <2>3 DEF Down
  <2>6. o.w = d.w /\ IsOutcome(o)
    BY <2>2, <2>4, <2>5 DEF IsOutcome
  <2> QED
    BY <1>2, <2>2, <2>5, <2>6 DEF SameKeys, Down
<1> QED
  BY <1>1, <1>3, <1>4

-----------------------------------------------------------------------------
(* What the deduplicator remembers: every accepted key that was not evicted,  *)
(* and otherwise only keys whose acceptance is missing (or is about to come). *)
Kept(v, coming) ==
    /\ \A k \in v.accepted : Contains(v.received, k) /\ (Contains(v.seen, k) \/ k \in v.evicted)
    /\ \A k \in Keys : Contains(v.seen, k) => k \in v.accepted \/ k \in v.unrecorded \/ k \in coming
    /\ v.again \subseteq v.evicted

(* What the deduplicator remembers depends on the keys alone.                 *)
LEMMA KeptSame ==
    ASSUME NEW v, NEW x, NEW c, Kept(v, c), SameKeys(v, x)
    PROVE  Kept(x, c)
    BY DEF Kept, SameKeys

(* The elements of a sequence with one more, ...                              *)
LEMMA AppendContains ==
    ASSUME NEW q \in Seq(Keys), NEW k \in Keys
    PROVE  /\ Append(q, k) \in Seq(Keys) /\ Len(Append(q, k)) = Len(q) + 1
           /\ \A e : Contains(Append(q, k), e) <=> Contains(q, e) \/ e = k
<1> USE DEF Contains
<1> HIDE DEF Keys
<1>1. /\ Append(q, k) \in Seq(Keys) /\ Len(Append(q, k)) = Len(q) + 1 /\ Len(q) \in Nat
      /\ \A i \in 1..Len(q) : Append(q, k)[i] = q[i]
      /\ Append(q, k)[Len(q) + 1] = k
  OBVIOUS
<1>2. ASSUME NEW e, Contains(Append(q, k), e) PROVE Contains(q, e) \/ e = k
  <2>1. PICK i \in 1..Len(q) + 1 : Append(q, k)[i] = e
    BY <1>1, <1>2
  <2>2. i \in 1..Len(q) \/ i = Len(q) + 1
    BY <1>1
  <2> QED
    BY <1>1, <2>1, <2>2
<1>3. ASSUME NEW e, Contains(q, e) PROVE Contains(Append(q, k), e)
  BY <1>1, <1>3
<1>4. Contains(Append(q, k), k)
  <2>1. Len(q) + 1 \in 1..Len(Append(q, k))
    BY <1>1
  <2> QED
    BY <1>1, <2>1
<1> QED
  BY <1>1, <1>2, <1>3, <1>4

(* ... without its first, ...                                                 *)
LEMMA TailContains ==
    ASSUME NEW q \in Seq(Keys), q # << >>
    PROVE  /\ Tail(q) \in Seq(Keys) /\ Head(q) \in Keys
           /\ \A e : Contains(q, e) <=> Contains(Tail(q), e) \/ e = Head(q)
<1> USE DEF Contains
<1> HIDE DEF Keys
<1>1. /\ Tail(q) \in Seq(Keys) /\ Head(q) \in Keys /\ Len(q) \in Nat /\ Len(q) > 0
      /\ Len(Tail(q)) = Len(q) - 1 /\ Head(q) = q[1]
      /\ \A i \in 1..Len(q) - 1 : Tail(q)[i] = q[i + 1]
  OBVIOUS
<1>2. ASSUME NEW e, Contains(q, e) PROVE Contains(Tail(q), e) \/ e = Head(q)
  <2>1. PICK i \in 1..Len(q) : q[i] = e
    BY <1>2
  <2>2. CASE i # 1
    <3>1. i - 1 \in 1..Len(Tail(q)) /\ Tail(q)[i - 1] = q[i - 1 + 1] /\ i - 1 + 1 = i
      BY <1>1, <2>2
    <3> QED
      BY <2>1, <3>1
  <2> QED
    BY <1>1, <2>1, <2>2
<1>3. ASSUME NEW e, Contains(Tail(q), e) PROVE Contains(q, e)
  <2>1. PICK i \in 1..Len(Tail(q)) : Tail(q)[i] = e
    BY <1>3
  <2>2. i + 1 \in 1..Len(q) /\ q[i + 1] = e
    BY <1>1, <2>1
  <2> QED
    BY <2>2
<1>4. Contains(q, Head(q))
  BY <1>1
<1> QED
  BY <1>1, <1>2, <1>3, <1>4

(* ... and with one moved to the end.                                         *)
LEMMA MovedContains ==
    ASSUME NEW q \in Seq(Keys), NEW i \in 1..Len(q)
    PROVE  /\ Append(RemoveAt(q, i), q[i]) \in Seq(Keys)
           /\ \A e : Contains(Append(RemoveAt(q, i), q[i]), e) <=> Contains(q, e)
<1> DEFINE r == RemoveAt(q, i)
<1> HIDE DEF Keys
<1>1. /\ Len(q) \in Nat /\ q[i] \in Keys
      /\ SubSeq(q, 1, i - 1) \in Seq(Keys) /\ Len(SubSeq(q, 1, i - 1)) = i - 1
      /\ SubSeq(q, i + 1, Len(q)) \in Seq(Keys) /\ Len(SubSeq(q, i + 1, Len(q))) = Len(q) - i
      /\ \A j \in 1..i - 1 : SubSeq(q, 1, i - 1)[j] = q[j]
      /\ \A j \in 1..Len(q) - i : SubSeq(q, i + 1, Len(q))[j] = q[i + j]
  OBVIOUS
<1>2. /\ r \in Seq(Keys) /\ Len(r) = Len(q) - 1
      /\ \A j \in 1..i - 1 : r[j] = q[j]
      /\ \A j \in i..Len(q) - 1 : r[j] = q[j + 1]
  <2> DEFINE a == SubSeq(q, 1, i - 1)
             b == SubSeq(q, i + 1, Len(q))
  <2>1. r = a \o b
    BY DEF RemoveAt
  <2>2. a \in Seq(Keys) /\ b \in Seq(Keys) /\ Len(a) = i - 1 /\ Len(b) = Len(q) - i
    BY <1>1
  <2>3. (\A j \in 1..i - 1 : a[j] = q[j]) /\ (\A j \in 1..Len(q) - i : b[j] = q[i + j])
    BY <1>1
  <2> HIDE DEF a, b, r
  <2>4. /\ r \in Seq(Keys) /\ Len(r) = Len(a) + Len(b)
        /\ \A j \in 1..Len(a) + Len(b) : r[j] = IF j <= Len(a) THEN a[j] ELSE b[j - Len(a)]
    BY <2>1, <2>2, ConcatProperties
  <2>5. ASSUME NEW j \in i..Len(q) - 1 PROVE r[j] = q[j + 1]
    <3>1. j - (i - 1) \in 1..Len(q) - i /\ j \in 1..Len(a) + Len(b) /\ ~(j <= Len(a))
      BY <1>1, <2>2
    <3>3. r[j] = b[j - (i - 1)]
      BY <2>2, <2>4, <3>1
    <3>2. b[j - (i - 1)] = q[i + (j - (i - 1))] /\ i + (j - (i - 1)) = j + 1
      BY <1>1, <2>3, <3>1
    <3> QED
      BY <3>2, <3>3
  <2>6. ASSUME NEW j \in 1..i - 1 PROVE r[j] = q[j]
    <3>1. j \in 1..Len(a) + Len(b) /\ j <= Len(a)
      BY <1>1, <2>2
    <3> QED
      BY <2>3, <2>4, <3>1
  <2>7. Len(r) = Len(q) - 1
    BY <1>1, <2>2, <2>4
  <2> QED
    BY <2>4, <2>5, <2>6, <2>7
<1> HIDE DEF r
<1>n. Len(q) \in Nat /\ i \in Nat /\ 1 <= i /\ i <= Len(q) /\ Len(r) = Len(q) - 1
  BY <1>1, <1>2
<1>s. \A j \in 1..i - 1 : r[j] = q[j]
  BY <1>2
<1>t. \A j \in i..Len(q) - 1 : r[j] = q[j + 1]
  BY <1>2
<1>3. \A e : Contains(Append(r, q[i]), e) <=> Contains(r, e) \/ e = q[i]
  BY <1>1, <1>2, AppendContains
<1>4. ASSUME NEW e, Contains(q, e) PROVE Contains(r, e) \/ e = q[i]
  <2>1. PICK j \in 1..Len(q) : q[j] = e
    BY <1>4 DEF Contains
  <2>2. CASE j < i
    <3>1. j \in 1..Len(r) /\ j \in 1..i - 1
      BY <1>n, <2>2
    <3>2. r[j] = e
      BY <1>s, <2>1, <3>1
    <3> QED
      BY <3>1, <3>2 DEF Contains
  <2>3. CASE j > i
    <3> DEFINE h == j - 1
    <3>a. h \in i..Len(q) - 1 /\ h + 1 = j
      BY <1>n, <2>3
    <3>b. h \in 1..Len(q) - 1
      BY <1>n, <3>a
    <3> HIDE DEF h
    <3>c. r[h] = q[h + 1]
      BY <1>t, <3>a
    <3>1. h \in 1..Len(r) /\ r[h] = q[j]
      BY <1>n, <3>a, <3>b, <3>c
    <3> QED
      BY <2>1, <3>1 DEF Contains
  <2> QED
    BY <1>n, <2>1, <2>2, <2>3
<1>5. ASSUME NEW e, Contains(r, e) PROVE Contains(q, e)
  <2>1. PICK j \in 1..Len(r) : r[j] = e
    BY <1>5 DEF Contains
  <2>2. CASE j < i
    <3>1. j \in 1..Len(q) /\ j \in 1..i - 1
      BY <1>n, <2>2
    <3>2. q[j] = e
      BY <1>s, <2>1, <3>1
    <3> QED
      BY <3>1, <3>2 DEF Contains
  <2>3. CASE j >= i
    <3>a. j \in i..Len(q) - 1 /\ j + 1 \in 1..Len(q)
      BY <1>n, <2>3
    <3>1. j + 1 \in 1..Len(q) /\ q[j + 1] = e
      BY <1>t, <2>1, <3>a
    <3> QED
      BY <3>1 DEF Contains
  <2> QED
    BY <1>n, <2>1, <2>2, <2>3
<1>6. Contains(q, q[i]) /\ Append(r, q[i]) \in Seq(Keys)
  BY <1>1, <1>2 DEF Contains
<1> QED
  BY <1>3, <1>4, <1>5, <1>6 DEF r

(* The records of a message and the deduplicator, one change at a time.       *)
LEMMA ReceivedKept ==
    ASSUME NEW v, World(v), NEW k \in Keys, Kept(v, {})
    PROVE  LET x == Received(v, k) IN
           /\ World(x) /\ Kept(x, {}) /\ SameLinks(v, x) /\ Contains(x.received, k)
           /\ x.seen = v.seen /\ x.accepted = v.accepted /\ x.orphans = v.orphans
           /\ x.unrecorded = v.unrecorded
<1> DEFINE r == IF Contains(v.received, k) THEN v.received ELSE Append(v.received, k)
           x == [v EXCEPT !.received = r]
<1>1. v.received \in Seq(Keys)
  BY DEF World
<1>2. r \in Seq(Keys) /\ Contains(r, k) /\ \A e : Contains(v.received, e) => Contains(r, e)
  BY <1>1, AppendContains
<1>3. Received(v, k) = x
  BY DEF Received
<1> HIDE DEF r
<1>4. /\ World(x) /\ SameLinks(v, x) /\ x.received = r
      /\ x.seen = v.seen /\ x.accepted = v.accepted /\ x.orphans = v.orphans
      /\ x.unrecorded = v.unrecorded /\ x.evicted = v.evicted /\ x.again = v.again
  BY <1>2 DEF World, SameLinks
<1> HIDE DEF x
<1>5. Kept(x, {})
  BY <1>2, <1>4 DEF Kept
<1> QED
  BY <1>2, <1>3, <1>4, <1>5

(* A key that was seen moves to the end.                                      *)
LEMMA MoveToEndKept ==
    ASSUME NEW v, World(v), NEW k \in Keys, Kept(v, {}), Contains(v.seen, k)
    PROVE  LET x == MoveToEnd(v, k) IN
           /\ World(x) /\ Kept(x, {}) /\ SameLinks(v, x)
           /\ x.accepted = v.accepted /\ x.orphans = v.orphans /\ x.unrecorded = v.unrecorded
<1> DEFINE i == CHOOSE j \in DOMAIN v.seen : v.seen[j] = k
           q == Append(RemoveAt(v.seen, i), k)
           x == [v EXCEPT !.seen = q]
<1>1. v.seen \in Seq(Keys) /\ DOMAIN v.seen = 1..Len(v.seen)
  BY DEF World
<1>2. i \in 1..Len(v.seen) /\ v.seen[i] = k
  BY <1>1 DEF Contains
<1>3. q = Append(RemoveAt(v.seen, i), v.seen[i])
  BY <1>2
<1>4. q \in Seq(Keys) /\ \A e : Contains(q, e) <=> Contains(v.seen, e)
  BY <1>1, <1>2, <1>3, MovedContains
<1>5. MoveToEnd(v, k) = x
  BY DEF MoveToEnd
<1> HIDE DEF q
<1>6. /\ World(x) /\ SameLinks(v, x) /\ x.received = v.received /\ x.seen = q
      /\ x.accepted = v.accepted /\ x.orphans = v.orphans
      /\ x.unrecorded = v.unrecorded /\ x.evicted = v.evicted /\ x.again = v.again
  BY <1>4 DEF World, SameLinks
<1> HIDE DEF x
<1>7. Kept(x, {})
  BY <1>4, <1>6 DEF Kept
<1> QED
  BY <1>5, <1>6, <1>7

(* A dismissal of a key that was seen.                                        *)
LEMMA DuplicateKept ==
    ASSUME NEW v, World(v), NEW k \in Keys, Kept(v, {}), Contains(v.seen, k)
    PROVE  LET x == Duplicate(v, k) IN
           /\ World(x) /\ Kept(x, {}) /\ SameLinks(v, x)
           /\ x.orphans \subseteq v.orphans \cup v.unrecorded
<1> DEFINE n == IF k \in v.accepted THEN v.orphans ELSE v.orphans \cup {k}
           x == [v EXCEPT !.orphans = n]
<1>1. n \in SUBSET Keys
  BY DEF World
<1>2. n \subseteq v.orphans \cup v.unrecorded
  BY DEF Kept
<1>3. Duplicate(v, k) = x
  BY DEF Duplicate
<1> HIDE DEF n
<1>4. /\ World(x) /\ SameLinks(v, x) /\ x.received = v.received /\ x.seen = v.seen
      /\ x.accepted = v.accepted /\ x.orphans = n
      /\ x.unrecorded = v.unrecorded /\ x.evicted = v.evicted /\ x.again = v.again
  BY <1>1 DEF World, SameLinks
<1> HIDE DEF x
<1>5. Kept(x, {})
  BY <1>4 DEF Kept
<1> QED
  BY <1>2, <1>3, <1>4, <1>5

(* The key that is evicted is none or the oldest.                             *)
LEMMA RememberKept ==
    ASSUME NEW v, World(v), NEW k \in Keys, Kept(v, {}), ~Contains(v.seen, k)
    PROVE  LET x == Remember(v, k) IN
           /\ World(x) /\ Kept(x, {k}) /\ SameLinks(v, x)
           /\ Contains(x.seen, k) /\ (k \in x.accepted => k \in x.evicted)
           /\ x.received = v.received /\ x.orphans = v.orphans /\ x.unrecorded = v.unrecorded
<1> DEFINE q == Append(v.seen, k)
           x == Remember(v, k)
<1>1. v.seen \in Seq(Keys) /\ v.evicted \in SUBSET Keys /\ Len(v.seen) \in Nat
  BY DEF World
<1>2. q \in Seq(Keys) /\ Len(q) = Len(v.seen) + 1 /\ \A e : Contains(q, e) <=> Contains(v.seen, e) \/ e = k
  BY <1>1, AppendContains
<1>3. x = IF Len(q) <= MaxSeen THEN [v EXCEPT !.seen = q]
          ELSE [v EXCEPT !.seen = Tail(q), !.evicted = v.evicted \cup {Head(q)}]
  BY DEF Remember, World
<1>4. k \in v.accepted => k \in v.evicted
  BY DEF Kept
<1>5. CASE Len(q) <= MaxSeen
  <2> DEFINE y == [v EXCEPT !.seen = q]
  <2>1. x = y
    BY <1>3, <1>5
  <2> HIDE DEF q
  <2>2. /\ World(y) /\ SameLinks(v, y) /\ y.received = v.received /\ y.seen = q
        /\ y.accepted = v.accepted /\ y.orphans = v.orphans
        /\ y.unrecorded = v.unrecorded /\ y.evicted = v.evicted /\ y.again = v.again
    BY <1>2 DEF World, SameLinks
  <2> HIDE DEF y
  <2>3. Kept(y, {k})
    BY <1>2, <2>2 DEF Kept
  <2> QED
    BY <1>2, <1>4, <2>1, <2>2, <2>3
<1>6. CASE ~(Len(q) <= MaxSeen)
  <2> DEFINE t == Tail(q)
             h == Head(q)
             y == [v EXCEPT !.seen = t]
  <2>1. q # << >> /\ Len(q) > 1
    BY <1>1, <1>2, <1>6, BoundsAssumption
  <2>2. t \in Seq(Keys) /\ h \in Keys /\ \A e : Contains(q, e) <=> Contains(t, e) \/ e = h
    BY <1>2, <2>1, TailContains
  <2>3. Contains(t, k)
    <3>1. /\ Len(t) = Len(q) - 1 /\ t[Len(q) - 1] = q[Len(q) - 1 + 1] /\ q[Len(v.seen) + 1] = k
      BY <1>1, <1>2, <2>1
    <3>2. Len(q) - 1 \in 1..Len(t) /\ t[Len(q) - 1] = k
      BY <1>1, <1>2, <2>1, <3>1
    <3> QED
      BY <3>2 DEF Contains
  <2> HIDE DEF q, t, h
  <2>4. /\ World(y) /\ SameLinks(v, y) /\ y.received = v.received /\ y.seen = t
        /\ y.accepted = v.accepted /\ y.orphans = v.orphans
        /\ y.unrecorded = v.unrecorded /\ y.evicted = v.evicted /\ y.again = v.again
    BY <2>2 DEF World, SameLinks
  <2> DEFINE z == [y EXCEPT !.evicted = v.evicted \cup {h}]
  <2>5. x = z
    BY <1>3, <1>6 DEF t, h
  <2> HIDE DEF y
  <2>6. v.evicted \cup {h} \in SUBSET Keys
    BY <1>1, <2>2
  <2>7. /\ World(z) /\ SameLinks(y, z) /\ z.received = y.received /\ z.seen = t
        /\ z.accepted = y.accepted /\ z.orphans = y.orphans
        /\ z.unrecorded = y.unrecorded /\ z.evicted = v.evicted \cup {h} /\ z.again = y.again
    BY <2>4, <2>6 DEF World, SameLinks
  <2> HIDE DEF z
  <2>8. Kept(z, {k})
    BY <1>2, <2>2, <2>4, <2>7 DEF Kept
  <2>9. SameLinks(v, z)
    BY <2>4, <2>7 DEF SameLinks
  <2> QED
    BY <1>4, <2>3, <2>4, <2>5, <2>7, <2>8, <2>9
<1> QED
  BY <1>5, <1>6

(* An acceptance of a key that was not remembered.                            *)
LEMMA AcceptedKept ==
    ASSUME NEW v, World(v), NEW k \in Keys, Kept(v, {k}), Contains(v.seen, k), Contains(v.received, k),
           k \in v.accepted => k \in v.evicted
    PROVE  LET x == Accepted(v, k) IN
           /\ World(x) /\ Kept(x, {}) /\ SameLinks(v, x) /\ Kept(x, {k}) /\ Contains(x.seen, k)
           /\ x.orphans = v.orphans /\ x.unrecorded = v.unrecorded
<1> DEFINE a == v.accepted \cup {k}
           n == IF k \in v.accepted THEN v.again \cup {k} ELSE v.again
           y == [v EXCEPT !.accepted = a]
           x == [y EXCEPT !.again = n]
<1>1. a \in SUBSET Keys /\ n \in SUBSET Keys
  BY DEF World
<1>2. Accepted(v, k) = x
  BY DEF Accepted, World
<1>3. n \subseteq v.evicted
  BY DEF Kept
<1>4. \A e : e \in a <=> e \in v.accepted \/ e = k
  OBVIOUS
<1> HIDE DEF a, n
<1>5. /\ World(y) /\ SameLinks(v, y) /\ y.received = v.received /\ y.seen = v.seen
      /\ y.accepted = a /\ y.orphans = v.orphans
      /\ y.unrecorded = v.unrecorded /\ y.evicted = v.evicted
  BY <1>1 DEF World, SameLinks
<1> HIDE DEF y
<1>6. /\ World(x) /\ SameLinks(y, x) /\ x.received = y.received /\ x.seen = y.seen
      /\ x.accepted = a /\ x.orphans = y.orphans /\ x.again = n
      /\ x.unrecorded = y.unrecorded /\ x.evicted = y.evicted
  BY <1>1, <1>5 DEF World, SameLinks
<1> HIDE DEF x
<1>7. Kept(x, {})
  BY <1>3, <1>4, <1>5, <1>6 DEF Kept
<1>8. Kept(x, {k})
  BY <1>7 DEF Kept
<1>9. SameLinks(v, x)
  BY <1>5, <1>6 DEF SameLinks
<1> QED
  BY <1>2, <1>5, <1>6, <1>7, <1>8, <1>9

(* A key whose acceptance raised is set down as such.                         *)
LEMMA UnrecordedKept ==
    ASSUME NEW v, World(v), NEW k \in Keys, Kept(v, {k})
    PROVE  LET x == [v EXCEPT !.unrecorded = v.unrecorded \cup {k}] IN
           World(x) /\ Kept(x, {}) /\ SameLinks(v, x) /\ x.orphans = v.orphans /\ x.torn = v.torn
<1> DEFINE n == v.unrecorded \cup {k}
           x == [v EXCEPT !.unrecorded = n]
<1>1. n \in SUBSET Keys /\ \A e : e \in n <=> e \in v.unrecorded \/ e = k
  BY DEF World
<1> HIDE DEF n
<1>2. /\ World(x) /\ SameLinks(v, x) /\ x.received = v.received /\ x.seen = v.seen
      /\ x.accepted = v.accepted /\ x.orphans = v.orphans /\ x.torn = v.torn
      /\ x.unrecorded = n /\ x.evicted = v.evicted /\ x.again = v.again
  BY <1>1 DEF World, SameLinks
<1> HIDE DEF x
<1>3. Kept(x, {})
  BY <1>1, <1>2 DEF Kept
<1> QED
  BY <1>2, <1>3 DEF x, n

-----------------------------------------------------------------------------
(* A message: the deduplicator is kept, and the key is dismissed only if it   *)
(* was accepted, or is one of those whose acceptance is missing.              *)
Fine(v, x) == /\ World(x) /\ Kept(x, {}) /\ SameLinks(v, x)
              /\ x.orphans \subseteq v.orphans \cup v.unrecorded

(* An outcome of an append of a good ledger, and what follows it.             *)
LEMMA FineEmit ==
    ASSUME NEW v, NEW x, World(v), Kept(v, {}), Fine(v, x), NEW o \in Emit(v, x)
    PROVE  IsOutcome(o) /\ Fine(v, o.w)
<1>1. /\ IsOutcome(o) /\ (~o.raised => o.w = x)
      /\ o.raised => SameKeys(v, o.w) \/ SameKeys(x, o.w)
  BY EmitOutcomes DEF Fine
<1>2. CASE ~o.raised
  BY <1>1, <1>2
<1>3. CASE o.raised
  <2>1. World(o.w) /\ o.w.torn
    BY <1>1, <1>3 DEF IsOutcome
  <2>2. Kept(o.w, {})
    BY <1>1, <1>3, KeptSame DEF Fine
  <2>3. o.w.orphans \subseteq v.orphans \cup v.unrecorded
    BY <1>1, <1>3 DEF SameKeys, Fine
  <2> QED
    BY <1>1, <2>1, <2>2, <2>3 DEF Fine, SameLinks
<1> QED
  BY <1>1, <1>2, <1>3 DEF IsOutcome

(* The health audit after a message changes nothing about it.                 *)
LEMMA FineThenHealth ==
    ASSUME NEW v, NEW x, Fine(v, x), NEW o \in AuditHealth(x)
    PROVE  IsOutcome(o) /\ Fine(v, o.w)
<1>1. IsOutcome(o) /\ SameKeys(x, o.w) /\ SameLinks(x, o.w)
  BY AuditHealthOutcomes DEF Fine
<1>2. Kept(o.w, {})
  BY <1>1, KeptSame DEF Fine
<1> QED
  BY <1>1, <1>2 DEF Fine, SameKeys, SameLinks, IsOutcome

(* The dismissal with its record, which may raise.                            *)
LEMMA DuplicateOutcomes ==
    ASSUME NEW v, World(v), NEW k \in Keys, Kept(v, {}), Contains(v.seen, k),
           NEW o \in Emit(MoveToEnd(v, k), Duplicate(MoveToEnd(v, k), k))
    PROVE  IsOutcome(o) /\ Fine(v, o.w)
<1> DEFINE y == MoveToEnd(v, k)
           x == Duplicate(y, k)
<1>1. /\ World(y) /\ Kept(y, {}) /\ SameLinks(v, y) /\ y.accepted = v.accepted
      /\ y.orphans = v.orphans /\ y.unrecorded = v.unrecorded
  BY MoveToEndKept
<1>2. Contains(y.seen, k)
  <2> DEFINE i == CHOOSE j \in DOMAIN v.seen : v.seen[j] = k
  <2>1. v.seen \in Seq(Keys) /\ i \in 1..Len(v.seen) /\ v.seen[i] = k
    BY DEF World, Contains
  <2>2. y.seen = Append(RemoveAt(v.seen, i), v.seen[i])
    BY <2>1 DEF MoveToEnd, World
  <2>3. Contains(Append(RemoveAt(v.seen, i), v.seen[i]), k)
    BY <2>1, MovedContains
  <2> QED
    BY <2>2, <2>3
<1> HIDE DEF y
<1>3. World(x) /\ Kept(x, {}) /\ SameLinks(y, x) /\ x.orphans \subseteq y.orphans \cup y.unrecorded
  BY <1>1, <1>2, DuplicateKept
<1> HIDE DEF x
<1>4. Fine(y, x)
  BY <1>3 DEF Fine
<1>5. IsOutcome(o) /\ Fine(y, o.w)
  BY <1>1, <1>4, FineEmit DEF x, y
<1> QED
  BY <1>1, <1>5 DEF Fine, SameLinks

(* The acceptance with its record, which may raise.                           *)
LEMMA EmitAcceptedOutcomes ==
    ASSUME NEW v, World(v), NEW k \in Keys, Kept(v, {}), ~Contains(v.seen, k), Contains(v.received, k),
           NEW o \in EmitAccepted(Remember(v, k), k)
    PROVE  IsOutcome(o) /\ Fine(v, o.w)
<1> DEFINE y == Remember(v, k)
           x == Accepted(y, k)
<1>1. /\ World(y) /\ Kept(y, {k}) /\ SameLinks(v, y)
      /\ Contains(y.seen, k) /\ (k \in y.accepted => k \in y.evicted)
      /\ y.received = v.received /\ y.orphans = v.orphans /\ y.unrecorded = v.unrecorded
  BY RememberKept
<1>2. PICK e \in Emit(y, x) : o = [e EXCEPT !.w.unrecorded = IF e.raised THEN @ \cup {k} ELSE @]
  BY DEF EmitAccepted
<1> HIDE DEF y
<1>3. /\ World(x) /\ Kept(x, {}) /\ SameLinks(y, x) /\ Kept(x, {k})
      /\ x.orphans = y.orphans /\ x.unrecorded = y.unrecorded
  BY <1>1, AcceptedKept
<1> HIDE DEF x
<1>4. /\ IsOutcome(e) /\ (~e.raised => e.w = x)
      /\ e.raised => SameKeys(y, e.w) \/ SameKeys(x, e.w)
  BY <1>1, <1>3, EmitOutcomes
<1> DEFINE ww == e.w
<1>5. e = [w |-> ww, raised |-> e.raised] /\ World(ww) /\ e.raised \in BOOLEAN
  BY <1>4 DEF IsOutcome
<1>6. CASE ~e.raised
  <2>1. [ww EXCEPT !.unrecorded = ww.unrecorded] = ww
    BY <1>5 DEF World
  <2>2. o = [w |-> [ww EXCEPT !.unrecorded = ww.unrecorded], raised |-> e.raised]
    BY <1>2, <1>5, <1>6
  <2>3. o = e
    BY <1>5, <2>1, <2>2
  <2> QED
    BY <1>1, <1>3, <1>4, <1>6, <2>3 DEF Fine, SameLinks
<1>7. CASE e.raised
  <2> DEFINE z == [ww EXCEPT !.unrecorded = ww.unrecorded \cup {k}]
  <2>1. o = [w |-> z, raised |-> TRUE]
    BY <1>2, <1>5, <1>7
  <2>2. Kept(ww, {k}) /\ ww.torn /\ ww.orphans = y.orphans
    BY <1>1, <1>3, <1>4, <1>7, KeptSame DEF IsOutcome, SameKeys
  <2> HIDE DEF ww
  <2>3. World(z) /\ Kept(z, {}) /\ z.orphans = ww.orphans /\ z.torn = ww.torn
    BY <1>5, <2>2, UnrecordedKept
  <2> HIDE DEF z
  <2>4. IsOutcome(o) /\ o.w = z
    BY <2>1, <2>2, <2>3 DEF IsOutcome
  <2> QED
    BY <1>1, <2>2, <2>3, <2>4 DEF Fine, SameLinks
<1> QED
  BY <1>5, <1>6, <1>7

(* Every way the ingestion of a message can end.                              *)
LEMMA IngestOutcomes ==
    ASSUME NEW v, World(v), Kept(v, {}), NEW s \in Sources, NEW k \in Keys,
           NEW kind \in {"heartbeat", "invalid", "data"}, NEW o \in Ingest(v, s, kind, k)
    PROVE  IsOutcome(o) /\ Fine(v, o.w)
<1> DEFINE c == MarkConnected(v, s)
           x == [c EXCEPT !.degraded = FALSE]
<1>1. World(c) /\ SameKeys(v, c) /\ SameLinks(v, c)
  BY Marked
<1> HIDE DEF c
<1>2. World(x) /\ SameKeys(c, x) /\ SameLinks(c, x)
  BY <1>1 DEF World, SameKeys, SameLinks
<1>3. \/ o \in Then(Emit(x, x), AuditHealth)
      \/ o \in Emit(x, x)
      \/ o \in Then(Emit(x, Received(x, k)), LAMBDA y :
               IF Contains(y.seen, k) THEN Emit(MoveToEnd(y, k), Duplicate(MoveToEnd(y, k), k))
               ELSE Then(EmitAccepted(Remember(y, k), k), AuditHealth))
  BY DEF Ingest, c
<1> HIDE DEF x
<1>4. SameKeys(v, x) /\ SameLinks(v, x)
  BY <1>1, <1>2 DEF SameKeys, SameLinks
<1>5. Kept(x, {})
  BY <1>4, KeptSame
<1>6. Fine(x, x)
  BY <1>2, <1>5 DEF Fine, SameLinks
<1>7. SUFFICES IsOutcome(o) /\ Fine(x, o.w)
  BY <1>4 DEF Fine, SameKeys, SameLinks
<1>8. CASE o \in Emit(x, x)
  BY <1>2, <1>5, <1>6, <1>8, FineEmit
<1>9. CASE o \in Then(Emit(x, x), AuditHealth)
  <2>1. PICK q \in Emit(x, x) : (q.raised /\ o = q) \/ (~q.raised /\ o \in AuditHealth(q.w))
    BY <1>9 DEF Then
  <2>2. IsOutcome(q) /\ Fine(x, q.w)
    BY <1>2, <1>5, <1>6, FineEmit
  <2> QED
    BY <2>1, <2>2, FineThenHealth
<1>10. CASE o \in Then(Emit(x, Received(x, k)), LAMBDA y :
               IF Contains(y.seen, k) THEN Emit(MoveToEnd(y, k), Duplicate(MoveToEnd(y, k), k))
               ELSE Then(EmitAccepted(Remember(y, k), k), AuditHealth))
  <2> DEFINE y == Received(x, k)
  <2>1. PICK q \in Emit(x, y) :
           \/ q.raised /\ o = q
           \/ /\ ~q.raised
              /\ o \in IF Contains(q.w.seen, k) THEN Emit(MoveToEnd(q.w, k), Duplicate(MoveToEnd(q.w, k), k))
                       ELSE Then(EmitAccepted(Remember(q.w, k), k), AuditHealth)
    BY <1>10 DEF Then
  <2>2. /\ World(y) /\ Kept(y, {}) /\ SameLinks(x, y) /\ Contains(y.received, k)
        /\ y.orphans = x.orphans /\ y.unrecorded = x.unrecorded
    BY <1>2, <1>5, ReceivedKept
  <2> HIDE DEF y
  <2>3. Fine(x, y)
    BY <2>2 DEF Fine
  <2>4. IsOutcome(q) /\ Fine(x, q.w) /\ (~q.raised => q.w = y)
    BY <1>2, <1>5, <2>2, <2>3, FineEmit, EmitOutcomes
  <2>5. CASE q.raised /\ o = q
    BY <2>4, <2>5
  <2>6. CASE ~q.raised /\ Contains(y.seen, k) /\ o \in Emit(MoveToEnd(y, k), Duplicate(MoveToEnd(y, k), k))
    <3>1. IsOutcome(o) /\ Fine(y, o.w)
      BY <2>2, <2>6, DuplicateOutcomes
    <3> QED
      BY <2>2, <3>1 DEF Fine, SameLinks
  <2>7. CASE ~q.raised /\ ~Contains(y.seen, k) /\ o \in Then(EmitAccepted(Remember(y, k), k), AuditHealth)
    <3>1. PICK a \in EmitAccepted(Remember(y, k), k) :
             (a.raised /\ o = a) \/ (~a.raised /\ o \in AuditHealth(a.w))
      BY <2>7 DEF Then
    <3>2. IsOutcome(a) /\ Fine(y, a.w)
      BY <2>2, <2>7, EmitAcceptedOutcomes
    <3>3. IsOutcome(o) /\ Fine(y, o.w)
      BY <3>1, <3>2, FineThenHealth
    <3> QED
      BY <2>2, <3>3 DEF Fine, SameLinks
  <2> QED
    BY <2>1, <2>4, <2>5, <2>6, <2>7
<1> QED
  BY <1>3, <1>8, <1>9, <1>10

-----------------------------------------------------------------------------
(* The deduplicator after a start: the accepted keys, each by its rank among  *)
(* the accepted ones in the order of receipt.                                 *)
LEMMA Ranks ==
    ASSUME NEW v, World(v)
    PROVE  /\ Cardinality(AcceptedAt(v)) \in Nat
           /\ \A i \in AcceptedAt(v) : Cardinality(UpTo(v, i)) \in 1..Cardinality(AcceptedAt(v))
           /\ \A i, j \in AcceptedAt(v) : Cardinality(UpTo(v, i)) = Cardinality(UpTo(v, j)) => i = j
<1> DEFINE P == AcceptedAt(v)
<1>1. P \subseteq 1..Len(v.received) /\ Len(v.received) \in Nat
  <2>1. v.received \in Seq(Keys)
    BY DEF World
  <2>2. DOMAIN v.received = 1..Len(v.received) /\ Len(v.received) \in Nat
    BY <2>1
  <2> QED
    BY <2>2 DEF AcceptedAt
<1>2. IsFiniteSet(P) /\ Cardinality(P) \in Nat
  <2>1. IsFiniteSet(1..Len(v.received))
    BY <1>1, FS_Interval
  <2> QED
    BY <1>1, <2>1, FS_Subset, FS_CardinalityType
<1>3. ASSUME NEW i \in P
      PROVE  /\ IsFiniteSet(UpTo(v, i)) /\ Cardinality(UpTo(v, i)) \in 1..Cardinality(P)
  <2>1. UpTo(v, i) \in SUBSET P /\ i \in UpTo(v, i)
    BY <1>1 DEF UpTo
  <2>2. IsFiniteSet(UpTo(v, i)) /\ Cardinality(UpTo(v, i)) <= Cardinality(P)
    BY <1>2, <2>1, FS_Subset
  <2>3. Cardinality(UpTo(v, i)) \in Nat /\ Cardinality(UpTo(v, i)) # 0
    BY <2>1, <2>2, FS_CardinalityType, FS_EmptySet
  <2> QED
    BY <1>2, <2>2, <2>3
<1>4. ASSUME NEW i \in P, NEW j \in P, i < j
      PROVE  Cardinality(UpTo(v, i)) # Cardinality(UpTo(v, j))
  <2>1. UpTo(v, i) \in SUBSET UpTo(v, j) /\ j \in UpTo(v, j) /\ j \notin UpTo(v, i)
    BY <1>1, <1>4 DEF UpTo
  <2>2. IsFiniteSet(UpTo(v, j))
    BY <1>3
  <2> QED
    BY <2>1, <2>2, FS_Subset
<1>5. ASSUME NEW i \in P, NEW j \in P, Cardinality(UpTo(v, i)) = Cardinality(UpTo(v, j))
      PROVE  i = j
  <2>1. i \in Nat /\ j \in Nat
    BY <1>1
  <2>2. ~(i < j) /\ ~(j < i)
    BY <1>4, <1>5
  <2> QED
    BY <2>1, <2>2
<1> QED
  BY <1>2, <1>3, <1>5

(* Each rank is that of some accepted key.                                    *)
LEMMA EveryRank ==
    ASSUME NEW v, World(v), NEW m \in 1..Cardinality(AcceptedAt(v))
    PROVE  \E i \in AcceptedAt(v) : Cardinality(UpTo(v, i)) = m
<1> DEFINE P == AcceptedAt(v)
           n == Cardinality(P)
           f == [i \in P |-> Cardinality(UpTo(v, i))]
           T == (1..n) \ {m}
<1> SUFFICES ASSUME \A i \in P : Cardinality(UpTo(v, i)) # m PROVE FALSE
  OBVIOUS
<1>1. /\ n \in Nat /\ \A i \in P : Cardinality(UpTo(v, i)) \in 1..n
      /\ \A i, j \in P : Cardinality(UpTo(v, i)) = Cardinality(UpTo(v, j)) => i = j
  BY Ranks
<1>2. f \in [P -> T] /\ \A i, j \in P : f[i] = f[j] => i = j
  BY <1>1
<1>3. IsFiniteSet(P)
  <2>1. v.received \in Seq(Keys)
    BY DEF World
  <2>2. DOMAIN v.received = 1..Len(v.received) /\ Len(v.received) \in Nat
    BY <2>1
  <2>3. IsFiniteSet(1..Len(v.received)) /\ P \in SUBSET (1..Len(v.received))
    BY <2>2, FS_Interval DEF AcceptedAt
  <2> QED
    BY <2>3, FS_Subset
<1>4. IsFiniteSet(1..n) /\ Cardinality(1..n) = n
  BY <1>1, FS_Interval
<1>5. IsFiniteSet(T) /\ Cardinality(T) = n - 1
  <2>1. m \in 1..n
    OBVIOUS
  <2> DEFINE I == 1..n
  <2>2. IsFiniteSet(I) /\ Cardinality(I) = n /\ m \in I
    BY <1>4, <2>1
  <2> HIDE DEF I
  <2>3. IsFiniteSet(I \ {m}) /\ Cardinality(I \ {m}) = n - 1
    BY <2>2, FS_RemoveElement
  <2> QED
    BY <2>3 DEF I
<1> HIDE DEF f, T
<1>6. Cardinality(T) < Cardinality(P)
  BY <1>1, <1>5
<1> QED
  BY <1>2, <1>3, <1>5, <1>6, FS_PigeonHole

(* from_ledger finds the accepted keys and no others.                         *)
LEMMA SeedContains ==
    ASSUME NEW v, World(v), Kept(v, {})
    PROVE  Seed(v) \in Seq(Keys) /\ \A k : Contains(Seed(v), k) <=> k \in v.accepted
<1> DEFINE P == AcceptedAt(v)
           n == Cardinality(P)
           at(m) == CHOOSE i \in P : Cardinality(UpTo(v, i)) = m
           q == Seed(v)
<1>1. /\ n \in Nat /\ \A i \in P : Cardinality(UpTo(v, i)) \in 1..n
      /\ \A i, j \in P : Cardinality(UpTo(v, i)) = Cardinality(UpTo(v, j)) => i = j
  BY Ranks
<1>2. \A m \in 1..n : at(m) \in P /\ Cardinality(UpTo(v, at(m))) = m
  BY EveryRank
<1>3. q = [m \in 1..n |-> v.received[at(m)]]
  BY DEF Seed
<1>4. /\ v.received \in Seq(Keys) /\ DOMAIN v.received = 1..Len(v.received) /\ v.accepted \in SUBSET Keys
  BY DEF World
<1>5. \A i \in P : v.received[i] \in v.accepted
  BY DEF AcceptedAt
<1> HIDE DEF q
<1>6. q \in [1..n -> Keys] /\ \A m \in 1..n : q[m] \in v.accepted
  BY <1>2, <1>3, <1>4, <1>5
<1>7. q \in Seq(Keys) /\ Len(q) = n
  BY <1>1, <1>6
<1>8. ASSUME NEW k \in v.accepted PROVE Contains(q, k)
  <2>1. PICK i \in 1..Len(v.received) : v.received[i] = k
    BY DEF Kept, Contains
  <2>2. i \in P
    BY <1>4, <1>8, <2>1 DEF AcceptedAt
  <2> DEFINE m == Cardinality(UpTo(v, i))
  <2>3. m \in 1..n /\ at(m) = i
    BY <1>1, <1>2, <2>2
  <2>4. q[m] = k
    BY <1>3, <2>1, <2>3
  <2> QED
    BY <1>7, <2>3, <2>4 DEF Contains
<1>9. ASSUME NEW k, Contains(q, k) PROVE k \in v.accepted
  BY <1>6, <1>7, <1>9 DEF Contains
<1> QED
  BY <1>7, <1>8, <1>9 DEF q

(* The oldest that do not fit are evicted, the others kept.                   *)
LEMMA SeedSeenContains ==
    ASSUME NEW q \in Seq(Keys), NEW out \in 0..Len(q)
    PROVE  /\ SubSeq(q, out + 1, Len(q)) \in Seq(Keys)
           /\ {q[i] : i \in 1..out} \in SUBSET Keys
           /\ \A k : Contains(q, k) <=> Contains(SubSeq(q, out + 1, Len(q)), k) \/ k \in {q[i] : i \in 1..out}
<1> DEFINE r == SubSeq(q, out + 1, Len(q))
           E == {q[i] : i \in 1..out}
<1> HIDE DEF Keys
<1>1. /\ Len(q) \in Nat /\ r \in Seq(Keys) /\ Len(r) = Len(q) - out
      /\ \A j \in 1..Len(q) - out : r[j] = q[out + j]
      /\ \A i \in 1..Len(q) : q[i] \in Keys
  OBVIOUS
<1>2. E \in SUBSET Keys /\ \A k : k \in E <=> \E i \in 1..out : q[i] = k
  BY <1>1
<1> HIDE DEF r, E
<1>3. ASSUME NEW k, Contains(q, k) PROVE Contains(r, k) \/ k \in E
  <2>1. PICK i \in 1..Len(q) : q[i] = k
    BY <1>3 DEF Contains
  <2>2. CASE i <= out
    BY <1>1, <1>2, <2>1, <2>2
  <2>3. CASE i > out
    <3>1. i - out \in 1..Len(q) - out /\ r[i - out] = q[out + (i - out)] /\ out + (i - out) = i
      BY <1>1, <2>3
    <3> QED
      BY <1>1, <2>1, <3>1 DEF Contains
  <2> QED
    BY <1>1, <2>2, <2>3
<1>4. ASSUME NEW k, Contains(r, k) PROVE Contains(q, k)
  <2>1. PICK j \in 1..Len(q) - out : r[j] = k
    BY <1>1, <1>4 DEF Contains
  <2>2. out + j \in 1..Len(q) /\ q[out + j] = k
    BY <1>1, <2>1
  <2> QED
    BY <2>2 DEF Contains
<1>5. ASSUME NEW k \in E PROVE Contains(q, k)
  <2>1. PICK i \in 1..out : q[i] = k
    BY <1>2
  <2>2. i \in 1..Len(q)
    BY <1>1
  <2> QED
    BY <2>1, <2>2 DEF Contains
<1> QED
  BY <1>1, <1>2, <1>3, <1>4, <1>5 DEF r, E

(* RedundantFeedRouter.from_ledger keeps what Kept says, and forgets the keys *)
(* whose acceptance is missing.                                               *)
LEMMA RebootKept ==
    ASSUME NEW v, World(v), Kept(v, {}), Reboot(v)
    PROVE  /\ World(w') /\ Kept(w', {}) /\ w'.orphans = v.orphans
           /\ w'.torn = v.torn /\ w'.up = v.up /\ w'.breaches = v.breaches
<1> DEFINE a == [v EXCEPT !.seen = << >>]
           b == [a EXCEPT !.unrecorded = {}]
           c == [b EXCEPT !.status = Start.status]
           d == [c EXCEPT !.fresh = Start.fresh]
           q == Seed(v)
           out == IF Len(q) <= MaxSeen THEN 0 ELSE Len(q) - MaxSeen
           r == SubSeq(q, out + 1, Len(q))
           E == {q[i] : i \in 1..out}
           e == [d EXCEPT !.seen = r]
           f == [e EXCEPT !.evicted = v.evicted \cup E]
<1>1. World(a)
  <2> DEFINE none == << >>
  <2>1. none \in Seq(Keys)
    OBVIOUS
  <2>2. a = [v EXCEPT !.seen = none]
    OBVIOUS
  <2> HIDE DEF none, a
  <2> QED
    BY <2>1, <2>2 DEF World
<1>2. /\ a.received = v.received /\ a.accepted = v.accepted /\ a.again = v.again /\ a.orphans = v.orphans
      /\ a.evicted = v.evicted /\ a.torn = v.torn /\ a.up = v.up /\ a.breaches = v.breaches
  BY DEF World
<1>3. q \in Seq(Keys) /\ \A k : Contains(q, k) <=> k \in v.accepted
  BY SeedContains
<1>4. Start.status \in [Sources -> {"connected", "disconnected"}] /\ Start.fresh \in [Sources -> BOOLEAN]
  BY DEF Start
<1>5. w' = f
  <2>1. w' = SeedSeen([v EXCEPT !.seen = << >>, !.unrecorded = {}, !.status = Start.status,
                                !.fresh = Start.fresh], q)
    BY DEF Reboot
  <2>2. [v EXCEPT !.seen = << >>, !.unrecorded = {}, !.status = Start.status, !.fresh = Start.fresh] = d
    OBVIOUS
  <2>3. d.evicted = v.evicted
    BY DEF World
  <2> HIDE DEF d, q
  <2>4. SeedSeen(d, q) = f
    BY <2>3 DEF SeedSeen
  <2> QED
    BY <2>1, <2>2, <2>4
<1> HIDE DEF a, q
<1>6. /\ World(b) /\ b.unrecorded = {} /\ b.evicted = a.evicted
      /\ b.received = a.received /\ b.accepted = a.accepted /\ b.again = a.again /\ b.orphans = a.orphans
      /\ b.torn = a.torn /\ b.up = a.up /\ b.breaches = a.breaches
  BY <1>1 DEF World
<1> HIDE DEF b
<1>7. /\ World(c) /\ SameKeys(b, c) /\ c.torn = b.torn /\ c.up = b.up /\ c.breaches = b.breaches
  BY <1>4, <1>6 DEF World, SameKeys
<1> HIDE DEF c
<1>8. /\ World(d) /\ SameKeys(c, d) /\ d.torn = c.torn /\ d.up = c.up /\ d.breaches = c.breaches
  BY <1>4, <1>7 DEF World, SameKeys
<1> HIDE DEF d
<1>9. out \in 0..Len(q)
  <2>1. Len(q) \in Nat
    BY <1>3
  <2> QED
    BY <2>1, BoundsAssumption
<1> HIDE DEF out
<1>10. /\ r \in Seq(Keys) /\ E \in SUBSET Keys
       /\ \A k : Contains(q, k) <=> Contains(r, k) \/ k \in E
  BY <1>3, <1>9, SeedSeenContains
<1> HIDE DEF r, E
<1>11. /\ World(e) /\ e.seen = r /\ e.unrecorded = d.unrecorded /\ e.evicted = d.evicted
       /\ e.received = d.received /\ e.accepted = d.accepted /\ e.again = d.again /\ e.orphans = d.orphans
       /\ e.torn = d.torn /\ e.up = d.up /\ e.breaches = d.breaches
  BY <1>8, <1>10 DEF World
<1> HIDE DEF e
<1>12. v.evicted \cup E \in SUBSET Keys
  BY <1>10 DEF World
<1>13. /\ World(f) /\ f.seen = r /\ f.unrecorded = e.unrecorded /\ f.evicted = v.evicted \cup E
       /\ f.received = e.received /\ f.accepted = e.accepted /\ f.again = e.again /\ f.orphans = e.orphans
       /\ f.torn = e.torn /\ f.up = e.up /\ f.breaches = e.breaches
  BY <1>11, <1>12 DEF World
<1> HIDE DEF f
<1>14. /\ f.received = v.received /\ f.accepted = v.accepted /\ f.again = v.again /\ f.orphans = v.orphans
       /\ f.torn = v.torn /\ f.up = v.up /\ f.breaches = v.breaches
  BY <1>2, <1>6, <1>7, <1>8, <1>11, <1>13 DEF SameKeys
<1>15. Kept(f, {})
  BY <1>3, <1>10, <1>13, <1>14 DEF Kept
<1> QED
  BY <1>5, <1>13, <1>14, <1>15

-----------------------------------------------------------------------------
(* The inductive invariant: a source is connected on record only while its    *)
(* coroutine streams, unless a record is missing.                             *)
Linked(x, coroutines) == ~x.torn => x.breaches = {} /\ \A s \in x.up : coroutines[s] = "stream"
FeedsInv ==
    /\ World(w) /\ Kept(w, {}) /\ Linked(w, sup)
    /\ sup = [s \in Sources |-> sup[s]]
    /\ conn \in [Sources -> Int] /\ last \in [Sources -> Int]

(* What a step does to the router and the ledger.                             *)
Stepped == World(w') /\ Kept(w', {}) /\ Linked(w', sup') /\ w'.orphans \subseteq w.orphans \cup w.unrecorded

(* A coroutine that leaves its stream.                                        *)
LEMMA LeaveStep ==
    ASSUME FeedsInv, NEW s \in Sources, NEW v, World(v), Kept(v, {}), SameLinks(w, v),
           v.orphans \subseteq w.orphans \cup w.unrecorded,
           NEW O, O \subseteq Reconnect(v, s) \cup ReconnectAfterError(v, s), Leave(s, O)
    PROVE  Stepped /\ sup' = [t \in Sources |-> sup'[t]]
<1>1. PICK o \in O : w' = o.w /\ sup' = [sup EXCEPT ![s] = IF o.raised THEN "failed" ELSE "sleep"]
  BY DEF Leave
<1>2. IsOutcome(o) /\ SameKeys(v, o.w) /\ Down(v, s, o.w)
  BY ReconnectOutcomes, ReconnectAfterErrorOutcomes
<1>3. Kept(o.w, {})
  BY <1>2, KeptSame
<1>4. sup' = [t \in Sources |-> sup'[t]] /\ \A t \in Sources : t # s => sup'[t] = sup[t]
  BY <1>1 DEF FeedsInv
<1>5. Linked(o.w, sup')
  <2> SUFFICES ASSUME ~o.w.torn PROVE o.w.breaches = {} /\ \A t \in o.w.up : sup'[t] = "stream"
    BY DEF Linked
  <2>1. o.w.up = v.up \ {s} /\ o.w.breaches = v.breaches /\ ~v.torn
    BY <1>2 DEF Down
  <2>2. v.up = w.up /\ v.breaches = w.breaches /\ ~w.torn
    BY <2>1 DEF SameLinks
  <2>3. w.breaches = {} /\ w.up \subseteq Sources /\ \A t \in w.up : sup[t] = "stream"
    BY <2>2 DEF FeedsInv, Linked, World
  <2> QED
    BY <1>4, <2>1, <2>2, <2>3
<1> QED
  BY <1>1, <1>2, <1>3, <1>4, <1>5 DEF Stepped, IsOutcome, SameKeys

(* A step that leaves the keys and the connections as they are.               *)
LEMMA QuietStep ==
    ASSUME FeedsInv, World(w'), SameKeys(w, w'), SameLinks(w, w'),
           \A s \in Sources : sup[s] = "stream" => sup'[s] = "stream"
    PROVE  Stepped
<1>1. Kept(w', {})
  BY KeptSame DEF FeedsInv
<1>2. Linked(w', sup')
  BY DEF FeedsInv, Linked, SameLinks, World
<1> QED
  BY <1>1, <1>2 DEF Stepped, SameKeys

(* A connection keeps the invariant.                                          *)
LEMMA ConnectStep ==
    ASSUME FeedsInv, NEW s \in Sources, Connect(s)
    PROVE  Stepped /\ FeedsInv'
<1> DEFINE v == MarkConnected(w, s)
           n == IF s \in v.up THEN v.breaches \cup {s} ELSE v.breaches
           a == [v EXCEPT !.up = v.up \cup {s}]
           x == [a EXCEPT !.breaches = n]
<1>0. World(w) /\ Kept(w, {})
  BY DEF FeedsInv
<1>1. World(v) /\ SameKeys(w, v) /\ SameLinks(w, v)
  BY <1>0, Marked
<1>2. PICK o \in Emit(v, Connected(v, s)) :
         w' = o.w /\ sup' = [sup EXCEPT ![s] = IF o.raised THEN "failed" ELSE "stream"]
  BY DEF Connect
<1> HIDE DEF v
<1>3. Connected(v, s) = x
  BY <1>1 DEF Connected, World
<1>4. /\ World(a) /\ SameKeys(v, a) /\ a.torn = v.torn /\ a.up = v.up \cup {s} /\ a.breaches = v.breaches
  <2>1. v.up \cup {s} \in SUBSET Sources
    BY <1>1 DEF World
  <2> QED
    BY <1>1, <2>1 DEF World, SameKeys
<1> HIDE DEF a
<1>5. n \in SUBSET Sources
  BY <1>1 DEF World
<1>6. s \notin v.up => n = v.breaches
  OBVIOUS
<1> HIDE DEF n
<1>7. /\ World(x) /\ SameKeys(a, x) /\ x.torn = a.torn /\ x.up = a.up /\ x.breaches = n
  BY <1>4, <1>5 DEF World, SameKeys
<1> HIDE DEF x
<1>8. /\ IsOutcome(o) /\ (~o.raised => o.w = x) /\ (o.raised => SameKeys(v, o.w) \/ SameKeys(x, o.w))
  BY <1>1, <1>2, <1>3, <1>7, EmitOutcomes
<1>9. SameKeys(w, o.w)
  BY <1>1, <1>4, <1>7, <1>8 DEF SameKeys
<1>10. Kept(o.w, {})
  BY <1>0, <1>9, KeptSame
<1>11. sup[s] = "connect" /\ conn' = [conn EXCEPT ![s] = 0] /\ last' = last
  BY DEF Connect
<1>12. /\ sup' = [t \in Sources |-> sup'[t]] /\ \A t \in Sources : t # s => sup'[t] = sup[t]
       /\ ~o.raised => sup'[s] = "stream"
  BY <1>2 DEF FeedsInv
<1>13. Linked(o.w, sup')
  <2> SUFFICES ASSUME ~o.w.torn PROVE o.w.breaches = {} /\ \A t \in o.w.up : sup'[t] = "stream"
    BY DEF Linked
  <2>1. ~o.raised /\ o.w = x
    BY <1>8 DEF IsOutcome
  <2>2. ~w.torn /\ v.up = w.up /\ v.breaches = w.breaches
    BY <1>1, <1>4, <1>7, <2>1 DEF SameLinks
  <2>3. w.breaches = {} /\ w.up \subseteq Sources /\ \A t \in w.up : sup[t] = "stream"
    BY <2>2 DEF FeedsInv, Linked, World
  <2>4. s \notin v.up
    BY <1>11, <2>2, <2>3
  <2> QED
    BY <1>4, <1>6, <1>7, <1>12, <2>1, <2>2, <2>3, <2>4
<1>14. conn' \in [Sources -> Int] /\ last' \in [Sources -> Int]
  BY <1>11 DEF FeedsInv
<1>15. World(o.w)
  BY <1>8 DEF IsOutcome
<1> QED
  BY <1>2, <1>9, <1>10, <1>12, <1>13, <1>14, <1>15 DEF Stepped, FeedsInv, SameKeys

(* A message keeps the invariant.                                             *)
LEMMA ReceiveStep ==
    ASSUME FeedsInv, NEW s \in Sources, Receive(s)
    PROVE  Stepped /\ FeedsInv'
<1>0. /\ World(w) /\ Kept(w, {}) /\ conn[s] \in Int /\ last[s] \in Int
      /\ conn \in [Sources -> Int] /\ last \in [Sources -> Int]
  BY DEF FeedsInv
<1>1. PICK skipped \in {0, 1} :
         LET n == conn[s] + skipped
             v == IF skipped = 0 THEN w ELSE Fault(w)
         IN  /\ Arrives(s, n, v) \/ ArrivesAnomalous(s, n, v)
             /\ last' = [last EXCEPT ![s] = IF n > @ THEN n ELSE @]
             /\ conn' = [conn EXCEPT ![s] = n + 1]
  BY DEF Receive
<1> DEFINE n == conn[s] + skipped
           v == IF skipped = 0 THEN w ELSE Fault(w)
<1>2. n \in Int /\ n + 1 \in Int
  BY <1>0
<1>3. World(v) /\ SameKeys(w, v) /\ SameLinks(w, v)
  BY <1>0, Faulty DEF SameKeys, SameLinks
<1>4. Arrives(s, n, v) \/ ArrivesAnomalous(s, n, v)
  BY <1>1
<1>5. conn' \in [Sources -> Int] /\ last' \in [Sources -> Int]
  BY <1>0, <1>1, <1>2
<1> HIDE DEF n, v
<1>6. DataKey(n) \in Keys /\ AnomalyKey(last[s], n) \in Keys
  BY <1>0, <1>2 DEF DataKey, AnomalyKey, Keys
<1>7. Kept(v, {})
  BY <1>0, <1>3, KeptSame
<1>8. ASSUME NEW x, Fine(v, x)
      PROVE  /\ World(x) /\ Kept(x, {}) /\ SameLinks(w, x)
             /\ x.orphans \subseteq w.orphans \cup w.unrecorded
  BY <1>3, <1>8 DEF Fine, SameKeys, SameLinks
<1>9. Stepped /\ sup' = [t \in Sources |-> sup'[t]]
  <2>1. CASE Arrives(s, n, v)
    <3>1. PICK kind \in {"heartbeat", "invalid", "data"} :
             \/ \E o \in Ingest(v, s, kind, DataKey(n)) : ~o.raised /\ w' = o.w /\ UNCHANGED sup
             \/ \E o \in Ingest(v, s, kind, DataKey(n)) : o.raised /\ Leave(s, ReconnectAfterError(o.w, s))
      BY <2>1 DEF Arrives
    <3>2. PICK o \in Ingest(v, s, kind, DataKey(n)) :
             \/ w' = o.w /\ sup' = sup
             \/ Leave(s, ReconnectAfterError(o.w, s))
      BY <3>1
    <3>3. IsOutcome(o) /\ Fine(v, o.w)
      BY <1>3, <1>6, <1>7, IngestOutcomes
    <3>4. /\ World(o.w) /\ Kept(o.w, {}) /\ SameLinks(w, o.w)
          /\ o.w.orphans \subseteq w.orphans \cup w.unrecorded
      BY <1>8, <3>3
    <3>5. CASE w' = o.w /\ sup' = sup
      <4>1. Linked(w', sup')
        BY <3>4, <3>5 DEF FeedsInv, Linked, SameLinks
      <4> QED
        BY <3>4, <3>5, <4>1 DEF Stepped, FeedsInv
    <3>6. CASE Leave(s, ReconnectAfterError(o.w, s))
      BY <3>4, <3>6, LeaveStep
    <3> QED
      BY <3>2, <3>5, <3>6
  <2>2. CASE ArrivesAnomalous(s, n, v)
    <3>1. PICK o \in Ingest(v, s, "data", AnomalyKey(last[s], n)) :
             Leave(s, IF o.raised THEN ReconnectAfterError(o.w, s) ELSE Reconnect(o.w, s))
      BY <2>2 DEF ArrivesAnomalous
    <3>2. IsOutcome(o) /\ Fine(v, o.w)
      BY <1>3, <1>6, <1>7, IngestOutcomes
    <3>3. /\ World(o.w) /\ Kept(o.w, {}) /\ SameLinks(w, o.w)
          /\ o.w.orphans \subseteq w.orphans \cup w.unrecorded
      BY <1>8, <3>2
    <3> DEFINE O == IF o.raised THEN ReconnectAfterError(o.w, s) ELSE Reconnect(o.w, s)
    <3>4. O \subseteq Reconnect(o.w, s) \cup ReconnectAfterError(o.w, s) /\ Leave(s, O)
      BY <3>1
    <3> HIDE DEF O
    <3> QED
      BY <3>3, <3>4, LeaveStep
  <2> QED
    BY <1>4, <2>1, <2>2
<1> QED
  BY <1>5, <1>9 DEF Stepped, FeedsInv

(* Every step keeps the invariant, and dismisses nothing without cause.       *)
LEMMA FeedsStep ==
    ASSUME FeedsInv, [Next]_vars
    PROVE  FeedsInv' /\ w'.orphans \subseteq w.orphans \cup w.unrecorded
<1>0. /\ World(w) /\ Kept(w, {}) /\ sup = [s \in Sources |-> sup[s]] /\ Linked(w, sup)
      /\ conn \in [Sources -> Int] /\ last \in [Sources -> Int]
  BY DEF FeedsInv
<1> DEFINE Goal == FeedsInv' /\ w'.orphans \subseteq w.orphans \cup w.unrecorded
<1>a. ASSUME Stepped, sup' = [s \in Sources |-> sup'[s]], conn' = conn, last' = last PROVE Goal
  BY <1>0, <1>a DEF Stepped, FeedsInv
<1>1. ASSUME NEW s \in Sources, Connect(s) PROVE Goal
  BY <1>1, ConnectStep DEF Stepped
<1>2. ASSUME NEW s \in Sources, Receive(s) PROVE Goal
  BY <1>2, ReceiveStep DEF Stepped
<1>3. ASSUME NEW s \in Sources, StreamEnds(s) PROVE Goal
  <2> DEFINE v == Fault(w)
             O == Reconnect(v, s) \cup ReconnectAfterError(v, s)
  <2>1. World(v) /\ SameKeys(w, v) /\ SameLinks(w, v)
    BY <1>0, Faulty
  <2>2. Leave(s, O) /\ conn' = conn /\ last' = last
    BY <1>3 DEF StreamEnds
  <2> HIDE DEF v
  <2>3. Kept(v, {}) /\ v.orphans \subseteq w.orphans \cup w.unrecorded
    BY <1>0, <2>1, KeptSame DEF SameKeys
  <2>4. O \subseteq Reconnect(v, s) \cup ReconnectAfterError(v, s)
    OBVIOUS
  <2> HIDE DEF O
  <2>5. Stepped /\ sup' = [t \in Sources |-> sup'[t]]
    BY <2>1, <2>2, <2>3, <2>4, LeaveStep
  <2> QED
    BY <1>a, <2>2, <2>5
<1>4. ASSUME NEW s \in Sources, Wake(s) PROVE Goal
  <2>1. w' = w /\ sup[s] = "sleep" /\ sup' = [sup EXCEPT ![s] = "connect"] /\ conn' = conn /\ last' = last
    BY <1>4 DEF Wake
  <2>2. sup' = [t \in Sources |-> sup'[t]] /\ \A t \in Sources : sup[t] = "stream" => sup'[t] = "stream"
    BY <1>0, <2>1
  <2>3. World(w') /\ SameKeys(w, w') /\ SameLinks(w, w')
    BY <1>0, <2>1 DEF SameKeys, SameLinks
  <2> QED
    BY <1>a, <2>1, <2>2, <2>3, QuietStep
<1>5. ASSUME NEW s \in Sources, Cancel(s) PROVE Goal
  <2>1. sup' = [sup EXCEPT ![s] = "failed"] /\ conn' = conn /\ last' = last
    BY <1>5 DEF Cancel
  <2>2. sup' = [t \in Sources |-> sup'[t]] /\ \A t \in Sources : t # s => sup'[t] = sup[t]
    BY <1>0, <2>1
  <2>3. CASE sup[s] = "stream"
    <3>1. PICK o \in AuditDisconnected(w, s) : w' = o.w
      BY <1>5, <2>3 DEF Cancel
    <3>2. IsOutcome(o) /\ SameKeys(w, o.w) /\ Down(w, s, o.w)
      BY <1>0, AuditDisconnectedOutcomes
    <3>3. World(w') /\ Kept(w', {}) /\ w'.orphans \subseteq w.orphans \cup w.unrecorded
      BY <1>0, <3>1, <3>2, KeptSame DEF IsOutcome, SameKeys
    <3>4. Linked(w', sup')
      BY <1>0, <2>2, <3>1, <3>2 DEF Linked, Down, World
    <3>5. Stepped
      BY <3>3, <3>4 DEF Stepped
    <3> QED
      BY <1>a, <2>1, <2>2, <3>5
  <2>4. CASE sup[s] # "stream"
    <3>1. w' = w
      BY <1>5, <2>4 DEF Cancel
    <3>2. \A t \in Sources : sup[t] = "stream" => sup'[t] = "stream"
      BY <2>2, <2>4
    <3>3. World(w') /\ SameKeys(w, w') /\ SameLinks(w, w')
      BY <1>0, <3>1 DEF SameKeys, SameLinks
    <3> QED
      BY <1>a, <2>1, <2>2, <3>2, <3>3, QuietStep
  <2> QED
    BY <2>3, <2>4
<1>6. ASSUME NEW s \in Sources, Stale(s) PROVE Goal
  <2>1. w' = [w EXCEPT !.fresh[s] = FALSE] /\ sup' = sup /\ conn' = conn /\ last' = last
    BY <1>6 DEF Stale
  <2>2. World(w') /\ SameKeys(w, w') /\ SameLinks(w, w')
    BY <1>0, <2>1 DEF World, SameKeys, SameLinks
  <2>3. Stepped
    BY <2>1, <2>2, QuietStep
  <2> QED
    BY <1>0, <1>a, <2>1, <2>3
<1>7. CASE FeedHealth
  <2>1. PICK o \in AuditHealth(w) : w' = o.w
    BY <1>7 DEF FeedHealth
  <2>2. sup' = sup /\ conn' = conn /\ last' = last
    BY <1>7 DEF FeedHealth
  <2>3. World(w') /\ SameKeys(w, w') /\ SameLinks(w, w')
    BY <1>0, <2>1, AuditHealthOutcomes DEF IsOutcome
  <2>4. Stepped
    BY <2>2, <2>3, QuietStep
  <2> QED
    BY <1>0, <1>a, <2>2, <2>4
<1>8. CASE Stop \/ UNCHANGED vars
  <2>1. w' = w /\ sup' = sup /\ conn' = conn /\ last' = last
    BY <1>8 DEF Stop, vars
  <2>2. World(w') /\ SameKeys(w, w') /\ SameLinks(w, w')
    BY <1>0, <2>1 DEF SameKeys, SameLinks
  <2>3. Stepped
    BY <2>1, <2>2, QuietStep
  <2> QED
    BY <1>0, <1>a, <2>1, <2>3
<1>9. ASSUME NEW v, World(v), Kept(v, {}), v.orphans = w.orphans, Reboot(v),
             ~v.torn => v.breaches = {} /\ v.up = {}
      PROVE  Goal
  <2>1. /\ World(w') /\ Kept(w', {}) /\ w'.orphans = v.orphans
        /\ w'.torn = v.torn /\ w'.up = v.up /\ w'.breaches = v.breaches
    BY <1>9, RebootKept
  <2>2. sup' = [s \in Sources |-> "connect"] /\ conn' = [s \in Sources |-> 0] /\ last' = [s \in Sources |-> NoSeq]
    BY <1>9 DEF Reboot
  <2>3. conn' \in [Sources -> Int] /\ last' \in [Sources -> Int]
    BY <2>2 DEF NoSeq
  <2>4. Linked(w', sup')
    BY <1>9, <2>1 DEF Linked
  <2> QED
    BY <1>9, <2>1, <2>2, <2>3, <2>4 DEF FeedsInv
<1>10. CASE Restart
  <2>1. Reboot(w) /\ \A s \in Sources : sup[s] = "failed"
    BY <1>10 DEF Restart
  <2>2. ~w.torn => w.breaches = {} /\ w.up = {}
    BY <1>0, <2>1 DEF Linked, World
  <2> QED
    BY <1>0, <1>9, <2>1, <2>2
<1>11. CASE Kill
  <2> DEFINE v == [w EXCEPT !.torn = TRUE]
  <2>1. Reboot(v)
    BY <1>11 DEF Kill
  <2>2. World(v) /\ SameKeys(w, v) /\ v.torn
    BY <1>0 DEF World, SameKeys
  <2> HIDE DEF v
  <2>3. Kept(v, {}) /\ v.orphans = w.orphans
    BY <1>0, <2>2, KeptSame DEF SameKeys
  <2> QED
    BY <1>9, <2>1, <2>2, <2>3
<1> QED
  BY <1>1, <1>2, <1>3, <1>4, <1>5, <1>6, <1>7, <1>8, <1>10, <1>11 DEF Next

(* Deduplicator and connection records of router and supervisor are in order  *)
(* after every step, whatever raises, stops or is killed.                     *)
THEOREM FeedsInvariant == Spec => []FeedsInv
<1>1. Init => FeedsInv
  <2> SUFFICES ASSUME Init PROVE FeedsInv
    OBVIOUS
  <2>1. /\ w = Start /\ sup = [s \in Sources |-> "connect"]
        /\ conn = [s \in Sources |-> 0] /\ last = [s \in Sources |-> NoSeq]
    BY DEF Init
  <2>2. World(Start)
    <3> DEFINE none == << >>
    <3>1. none \in Seq(Keys)
      OBVIOUS
    <3>2. Start = [status |-> [s \in Sources |-> "disconnected"], fresh |-> [s \in Sources |-> FALSE],
                   seen |-> none, received |-> none, accepted |-> {}, again |-> {}, orphans |-> {},
                   up |-> {}, breaches |-> {}, degraded |-> FALSE,
                   evicted |-> {}, unrecorded |-> {}, torn |-> FALSE, faults |-> 0]
      BY DEF Start
    <3> HIDE DEF none
    <3> QED
      BY <3>1, <3>2 DEF World
  <2>3. /\ Start.seen = << >> /\ Start.accepted = {} /\ Start.again = {} /\ Start.up = {}
        /\ Start.breaches = {}
    BY DEF Start
  <2>4. Kept(Start, {})
    BY <2>3 DEF Kept, Contains
  <2>5. Linked(Start, sup)
    BY <2>3 DEF Linked
  <2>6. conn \in [Sources -> Int] /\ last \in [Sources -> Int]
    BY <2>1 DEF NoSeq
  <2> QED
    BY <2>1, <2>2, <2>4, <2>5, <2>6 DEF FeedsInv
<1>2. FeedsInv /\ [Next]_vars => FeedsInv'
  BY FeedsStep
<1> QED
  BY <1>1, <1>2, PTL DEF Spec

(* Each message is accepted once, whichever of the sources deliver it,        *)
(* whatever append raises and however often the process is started again,     *)
(* unless its key fell out of the deduplicator.                               *)
THEOREM MessagesAcceptedOnce == Spec => []AcceptedOnce
<1>1. FeedsInv => AcceptedOnce
  BY DEF FeedsInv, Kept, AcceptedOnce
<1> QED
  BY <1>1, FeedsInvariant, PTL

(* FEED_CONNECTED and FEED_DISCONNECTED alternate for every source, unless an *)
(* append raised or a process was killed.                                     *)
THEOREM ConnectionsAlternate == Spec => []FeedsAlternate
<1>1. FeedsInv => FeedsAlternate
  BY DEF FeedsInv, Linked, FeedsAlternate
<1> QED
  BY <1>1, FeedsInvariant, PTL

(* No step dismisses a message as a duplicate that was not accepted, but for  *)
(* the ones whose acceptance raised in this very process.                     *)
THEOREM DismissalsExplained == Spec => DuplicatesExplained
<1>1. FeedsInv /\ [Next]_vars => [w'.orphans \subseteq w.orphans \cup w.unrecorded]_vars
  BY FeedsStep
<1> QED
  BY <1>1, FeedsInvariant, PTL DEF Spec, DuplicatesExplained

-----------------------------------------------------------------------------
(* Fills and positions: the second half of this module is about Fills, for    *)
(* any orders, pages and products.  What is on record is replayed by a fold,  *)
(* so it begins with induction over the numbers and with what one more record *)
(* does.                                                                      *)
LEMMA LeastNumber ==
    ASSUME NEW T \in SUBSET Nat, T # {}
    PROVE  \E m \in T : \A k \in T : m <= k
<1> DEFINE R == OpToRel(<, Nat)
<1>1. IsWellFoundedOn(R, Nat)
  BY NatLessThanWellFounded, Zenon
<1>2. \A x, y \in Nat : x < y => <<x, y>> \in R
  BY DEF OpToRel
<1> HIDE DEF R
<1>3. PICK x \in T : \A y \in T : ~(<<y, x>> \in R)
  BY <1>1, WFMin, Zenon
<1>4. \A y \in T : ~(y < x)
  BY <1>2, <1>3, Zenon
<1>5. \A y \in T : x <= y
  BY <1>4
<1> QED
  BY <1>5, Zenon

LEMMA NumberInduction ==
    ASSUME NEW S \in SUBSET Nat, 0 \in S, \A n \in Nat : n \in S => n + 1 \in S
    PROVE  S = Nat
<1> SUFFICES ASSUME S # Nat PROVE FALSE
  OBVIOUS
<1>1. Nat \ S # {} /\ Nat \ S \in SUBSET Nat
  OBVIOUS
<1>2. PICK m \in Nat \ S : \A k \in Nat \ S : m <= k
  BY <1>1, LeastNumber, Zenon
<1>3. m # 0 /\ m - 1 \in Nat /\ m - 1 \in S
  BY <1>2
<1> QED
  BY <1>2, <1>3

LEMMA GreatestOfInterval ==
    ASSUME NEW n \in Nat, NEW T \in SUBSET (1..n), n \in T
    PROVE  Max(T) = n
<1>1. \A y \in T : n >= y
  OBVIOUS
<1>2. \A x \in T : (\A y \in T : x >= y) => x = n
  OBVIOUS
<1> QED
  BY <1>1, <1>2 DEF Max

RecordFold(s, n, f) ==
    [T \in SUBSET (1..n) |-> IF T = {} THEN NoFills ELSE ApplyRecord(f[T \ {Max(T)}], s[Max(T)])]

LEMMA RecordFoldExists ==
    ASSUME NEW s
    PROVE  \A n \in Nat : \E f : f = RecordFold(s, n, f)
<1> DEFINE S == {n \in Nat : \E f : f = RecordFold(s, n, f)}
<1>1. 0 \in S
  <2> DEFINE f == [T \in SUBSET (1..0) |-> NoFills]
  <2>1. \A T \in SUBSET (1..0) : T = {}
    OBVIOUS
  <2>2. f = RecordFold(s, 0, f)
    BY <2>1 DEF RecordFold
  <2> QED
    BY <2>2
<1>2. ASSUME NEW n \in Nat, n \in S
      PROVE  n + 1 \in S
  <2>1. PICK g : g = RecordFold(s, n, g)
    BY <1>2
  <2> DEFINE f == [T \in SUBSET (1..(n + 1)) |->
                     IF n + 1 \in T THEN ApplyRecord(g[T \ {n + 1}], s[n + 1]) ELSE g[T]]
  <2>2. \A T \in SUBSET (1..(n + 1)) : n + 1 \in T => Max(T) = n + 1
    BY GreatestOfInterval
  <2>3. \A T \in SUBSET (1..(n + 1)) : T \in SUBSET (1..n) <=> n + 1 \notin T
    OBVIOUS
  <2>4. \A T \in SUBSET (1..n) : f[T] = g[T]
    OBVIOUS
  <2>5. ASSUME NEW T \in SUBSET (1..(n + 1))
        PROVE  f[T] = IF T = {} THEN NoFills ELSE ApplyRecord(f[T \ {Max(T)}], s[Max(T)])
    <3>1. CASE n + 1 \in T
      <4>1. T \ {n + 1} \in SUBSET (1..n)
        OBVIOUS
      <4>2. f[T] = ApplyRecord(g[T \ {n + 1}], s[n + 1])
        BY <3>1
      <4>3. f[T \ {n + 1}] = g[T \ {n + 1}]
        BY <2>4, <4>1
      <4>4. Max(T) = n + 1 /\ T # {}
        BY <2>2, <3>1
      <4> HIDE DEF f
      <4> QED
        BY <4>2, <4>3, <4>4
    <3>2. CASE n + 1 \notin T
      <4>0. T \in SUBSET (1..n)
        BY <2>3, <3>2
      <4>1. T \in SUBSET (1..n) /\ T \ {Max(T)} \in SUBSET (1..n)
        BY <4>0
      <4>2. g[T] = IF T = {} THEN NoFills ELSE ApplyRecord(g[T \ {Max(T)}], s[Max(T)])
        BY <2>1, <4>1 DEF RecordFold
      <4> HIDE DEF f
      <4> QED
        BY <2>4, <4>1, <4>2
    <3> QED
      BY <3>1, <3>2
  <2>6. f = RecordFold(s, n + 1, f)
    BY <2>5 DEF RecordFold
  <2> QED
    BY <2>6
<1> HIDE DEF S
<1>3. S = Nat
  <2>1. S \in SUBSET Nat
    BY DEF S
  <2> QED
    BY <1>1, <1>2, <2>1, NumberInduction
<1> QED
  BY <1>3 DEF S

LEMMA ProjectionSteps ==
    ASSUME NEW S, NEW s \in Seq(S)
    PROVE  \E g : /\ g[0] = NoFills
                  /\ \A k \in 1..Len(s) : g[k] = ApplyRecord(g[k - 1], s[k])
                  /\ Projection(s) = g[Len(s)]
<1> DEFINE n == Len(s)
<1>0. n \in Nat /\ DOMAIN s = 1..n
  OBVIOUS
<1> HIDE DEF n
<1> DEFINE f == CHOOSE f : f = RecordFold(s, n, f)
<1> DEFINE g == [k \in 0..n |-> f[1..k]]
<1>1. Projection(s) = f[1..n]
  BY <1>0, Zenon DEF Projection, FoldLeft, MapThenFoldSet, RecordFold
<1>2. f = RecordFold(s, n, f)
  BY <1>0, RecordFoldExists, Zenon
<1> HIDE DEF f
<1>3. g[0] = NoFills
  <2>1. 1..0 = {} /\ 1..0 \in SUBSET (1..n)
    BY <1>0
  <2>2. f[1..0] = NoFills
    BY <1>2, <2>1 DEF RecordFold
  <2> QED
    BY <1>0, <2>2
<1>4. ASSUME NEW k \in 1..n
      PROVE  g[k] = ApplyRecord(g[k - 1], s[k])
  <2>1. 1..k \in SUBSET (1..n) /\ k \in 1..k /\ k \in Nat
    BY <1>0
  <2>2. Max(1..k) = k
    BY <2>1, GreatestOfInterval
  <2>3. (1..k) \ {k} = 1..(k - 1)
    OBVIOUS
  <2>4. f[1..k] = ApplyRecord(f[(1..k) \ {Max(1..k)}], s[Max(1..k)])
    <3>1. 1..k # {}
      BY <2>1
    <3> QED
      BY <1>2, <2>1, <3>1 DEF RecordFold
  <2>5. f[1..k] = ApplyRecord(f[1..(k - 1)], s[k])
    BY <2>2, <2>3, <2>4
  <2>6. g[k] = f[1..k] /\ g[k - 1] = f[1..(k - 1)]
    BY <1>0
  <2> QED
    BY <2>5, <2>6
<1>5. g[n] = f[1..n]
  BY <1>0
<1> HIDE DEF g
<1> QED
  BY <1>1, <1>3, <1>4, <1>5 DEF n

LEMMA ProjectionAppend ==
    ASSUME NEW S, NEW s \in Seq(S), NEW r \in S
    PROVE  Projection(Append(s, r)) = ApplyRecord(Projection(s), r)
<1> DEFINE n == Len(s)
<1> DEFINE t == Append(s, r)
<1>1. n \in Nat /\ Len(t) = n + 1 /\ t \in Seq(S) /\ t[n + 1] = r /\ \A k \in 1..n : t[k] = s[k]
  OBVIOUS
<1>2. PICK g : /\ g[0] = NoFills
               /\ \A k \in 1..Len(s) : g[k] = ApplyRecord(g[k - 1], s[k])
               /\ Projection(s) = g[Len(s)]
  BY ProjectionSteps
<1> HIDE DEF t
<1>3. PICK h : /\ h[0] = NoFills
               /\ \A k \in 1..Len(t) : h[k] = ApplyRecord(h[k - 1], t[k])
               /\ Projection(t) = h[Len(t)]
  BY <1>1, ProjectionSteps
<1> HIDE DEF n
<1> DEFINE T == {k \in Nat : k <= n => g[k] = h[k]}
<1>4. 0 \in T
  BY <1>2, <1>3
<1>5. ASSUME NEW k \in Nat, k \in T PROVE k + 1 \in T
  <2> SUFFICES ASSUME k + 1 <= n PROVE g[k + 1] = h[k + 1]
    OBVIOUS
  <2>1. g[k] = h[k] /\ k + 1 \in 1..n /\ k + 1 \in 1..(n + 1) /\ (k + 1) - 1 = k
    BY <1>1, <1>5
  <2>2. g[k + 1] = ApplyRecord(g[k], s[k + 1])
    BY <1>2, <2>1 DEF n
  <2>3. h[k + 1] = ApplyRecord(h[k], t[k + 1])
    BY <1>1, <1>3, <2>1
  <2> QED
    BY <1>1, <2>1, <2>2, <2>3
<1>6. T = Nat
  <2> HIDE DEF T
  <2>1. T \in SUBSET Nat
    BY DEF T
  <2> QED
    BY <1>4, <1>5, <2>1, NumberInduction
<1>7. g[n] = h[n] /\ n + 1 \in 1..(n + 1) /\ (n + 1) - 1 = n
  BY <1>1, <1>6
<1>8. h[n + 1] = ApplyRecord(h[n], r)
  BY <1>1, <1>3, <1>7
<1> QED
  BY <1>1, <1>2, <1>3, <1>7, <1>8 DEF t, n

LEMMA ProjectionEmpty == Projection(<< >>) = NoFills
<1>1. PICK g : /\ g[0] = NoFills
               /\ \A k \in 1..Len(<< >>) : g[k] = ApplyRecord(g[k - 1], << >>[k])
               /\ Projection(<< >>) = g[Len(<< >>)]
  <2>1. << >> \in Seq({})
    OBVIOUS
  <2> QED
    BY <2>1, ProjectionSteps
<1> QED
  BY <1>1

(* Lists, and the trades as a list in which a trade's identity is its place.  *)
IsList(s) == \E S : s \in Seq(S)

LEMMA ListFacts ==
    ASSUME NEW s, IsList(s)
    PROVE  /\ Len(s) \in Nat /\ DOMAIN s = 1..Len(s)
           /\ ToSet(s) = {s[i] : i \in 1..Len(s)} /\ IsFiniteSet(ToSet(s))
<1>1. PICK S : s \in Seq(S)
  BY DEF IsList
<1>2. Len(s) \in Nat /\ DOMAIN s = 1..Len(s) /\ s = [i \in 1..Len(s) |-> s[i]]
  BY <1>1
<1>3. ToSet(s) = {s[i] : i \in 1..Len(s)}
  BY <1>2 DEF ToSet
<1>4. s \in Surjection(1..Len(s), ToSet(s))
  BY <1>2, <1>3 DEF Surjection
<1>5. IsFiniteSet(1..Len(s))
  BY <1>2, FS_Interval
<1> QED
  BY <1>2, <1>3, <1>4, <1>5, FS_Surjection

LEMMA ListAppend ==
    ASSUME NEW s, IsList(s), NEW r
    PROVE  /\ IsList(Append(s, r)) /\ Len(Append(s, r)) = Len(s) + 1
           /\ DOMAIN Append(s, r) = 1..(Len(s) + 1)
           /\ \A i \in 1..Len(s) : Append(s, r)[i] = s[i]
           /\ Append(s, r)[Len(s) + 1] = r
           /\ ToSet(Append(s, r)) = ToSet(s) \cup {r}
           /\ Projection(Append(s, r)) = ApplyRecord(Projection(s), r)
<1>1. PICK S : s \in Seq(S)
  BY DEF IsList
<1> DEFINE R == S \cup {r}
<1>2. s \in Seq(R) /\ r \in R
  BY <1>1
<1> HIDE DEF R
<1> DEFINE t == Append(s, r)
<1>3. /\ t \in Seq(R) /\ Len(t) = Len(s) + 1 /\ DOMAIN t = 1..(Len(s) + 1)
      /\ \A i \in 1..Len(s) : t[i] = s[i]
      /\ t[Len(s) + 1] = r /\ Len(s) \in Nat
  BY <1>2
<1>4. Projection(t) = ApplyRecord(Projection(s), r)
  BY <1>2, ProjectionAppend
<1> HIDE DEF t
<1>5. IsList(t)
  BY <1>3 DEF IsList
<1>6. ToSet(t) = ToSet(s) \cup {r}
  <2>1. \A i \in 1..(Len(s) + 1) : i \in 1..Len(s) \/ i = Len(s) + 1
    BY <1>3
  <2>2. 1..Len(s) \subseteq 1..(Len(s) + 1) /\ Len(s) + 1 \in 1..(Len(s) + 1)
    BY <1>3
  <2>3. IsList(s)
    OBVIOUS
  <2>4. ToSet(s) = {s[i] : i \in 1..Len(s)} /\ ToSet(t) = {t[i] : i \in 1..(Len(s) + 1)}
    BY <1>3, <1>5, <2>3, ListFacts
  <2> QED
    BY <1>3, <2>1, <2>2, <2>4
<1> QED
  BY <1>3, <1>4, <1>5, <1>6 DEF t

TradeList(T) ==
    /\ IsList(T)
    /\ \A k \in 1..Len(T) : /\ T[k].id = k /\ T[k].size = 1
                            /\ T[k] = [id |-> k, order |-> T[k].order, size |-> 1]
                            /\ T[k].order \in OrderIds
IdsOf(l) == Projection(l).ids
FillsOf(l) == {i \in DOMAIN l : l[i].type = "fill"}
DriftsOf(l) == {i \in DOMAIN l : l[i].type = "drift"}
Told(l) == {x \in ToSet(l) : x.type = "drift"}

(* What is on record of a fill is what the venue traded.                      *)
FillOk(T, r) ==
    /\ r.id \in 1..Len(T) /\ r.order = T[r.id].order /\ r.action = r.order /\ r.size = 1
    /\ r.product = OrderOf(r.order).product /\ r.side = OrderOf(r.order).side
DriftOk(r) == r.told => r.exchange - r.bot = r.foreign
(* A drift that is on record twice was recorded by two processes, of which    *)
(* the second had read the ledger before the first recorded it.               *)
DriftsApart(l) ==
    \A i, j \in DriftsOf(l) :
        Key(l[i]) = Key(l[j]) /\ i < j => l[i].by # l[j].by /\ l[j].since < i

(* The replayed sizes are those of the trades on record.                      *)
Moved(T, ids, p, side) ==
    {t \in ToSet(T) : t.id \in ids /\ OrderOf(t.order).product = p /\ OrderOf(t.order).side = side}
Filled(T, ids, o) == {k \in ids : T[k].order = o}
Net(T, ids, p) == Cardinality(Moved(T, ids, p, "buy")) - Cardinality(Moved(T, ids, p, "sell"))
Replays(T, P) ==
    /\ P = [ids |-> P.ids, net |-> P.net, filled |-> P.filled]
    /\ P.ids \subseteq 1..Len(T)
    /\ P.net \in [Products -> Int] /\ P.filled \in [OrderIds -> Nat]
    /\ \A p \in Products : P.net[p] = Net(T, P.ids, p)
    /\ \A o \in OrderIds : P.filled[o] = Cardinality(Filled(T, P.ids, o))

(* Each fill is there once, each drift as often as processes raced for it.    *)
Records(T, l) ==
    /\ IsList(l)
    /\ \A i \in FillsOf(l) : FillOk(T, l[i])
    /\ \A i, j \in FillsOf(l) : l[i].id = l[j].id => i = j
    /\ \A i \in DriftsOf(l) : DriftOk(l[i])
    /\ DriftsApart(l)
    /\ Replays(T, Projection(l))
    /\ IdsOf(l) = {l[i].id : i \in FillsOf(l)}

LEMMA Sided ==
    ASSUME NEW o \in OrderIds
    PROVE  /\ OrderOf(o).side \in {"buy", "sell"}
           /\ \E i \in DOMAIN Orders : Orders[i] = OrderOf(o) /\ Orders[i].id = o
<1>1. \E i \in DOMAIN Orders : Orders[i].id = o
  BY DEF OrderIds
<1> DEFINE c == CHOOSE i \in DOMAIN Orders : Orders[i].id = o
<1>2. c \in DOMAIN Orders /\ Orders[c].id = o
  BY <1>1
<1>3. OrderOf(o) = Orders[c]
  BY DEF OrderOf
<1> HIDE DEF c
<1> QED
  BY <1>2, <1>3, OrdersAssumption

(* One more fill, of a trade that was not on record.                          *)
LEMMA FillCounts ==
    ASSUME NEW T, TradeList(T), NEW P, Replays(T, P),
           NEW r, FillOk(T, r), r.id \notin P.ids, r.type = "fill"
    PROVE  Replays(T, ApplyRecord(P, r)) /\ ApplyRecord(P, r).ids = P.ids \cup {r.id}
<1> DEFINE k == r.id
<1> DEFINE J == P.ids \cup {k}
<1> DEFINE t == T[k]
<1>1. /\ k \in 1..Len(T) /\ t.id = k /\ t.order = r.order /\ t.order \in OrderIds
      /\ t \in ToSet(T) /\ IsFiniteSet(ToSet(T))
  BY ListFacts DEF FillOk, TradeList
<1>2. /\ r.size = 1 /\ r.product = OrderOf(t.order).product /\ r.side = OrderOf(t.order).side
      /\ r.side \in {"buy", "sell"}
  BY <1>1, Sided DEF FillOk
<1> DEFINE net == [P.net EXCEPT ![r.product] = @ + Signed(r.side, r.size)]
<1> DEFINE filled == [P.filled EXCEPT ![r.order] = @ + r.size]
<1>3. ApplyRecord(P, r) = [ids |-> J, net |-> net, filled |-> filled]
  BY DEF ApplyRecord, ApplyFill
<1>4. IsFiniteSet(P.ids) /\ J \subseteq 1..Len(T) /\ Len(T) \in Nat
  <2>1. Len(T) \in Nat /\ P.ids \in SUBSET (1..Len(T))
    BY ListFacts DEF TradeList, Replays
  <2>2. IsFiniteSet(1..Len(T))
    BY <2>1, FS_Interval
  <2> QED
    BY <1>1, <2>1, <2>2, FS_Subset
<1>5. ASSUME NEW p, NEW side
      PROVE  /\ Cardinality(Moved(T, P.ids, p, side)) \in Nat
             /\ Cardinality(Moved(T, J, p, side)) =
                   Cardinality(Moved(T, P.ids, p, side))
                      + (IF r.product = p /\ r.side = side THEN 1 ELSE 0)
  <2>1. Moved(T, P.ids, p, side) \in SUBSET ToSet(T)
    BY DEF Moved
  <2>2. IsFiniteSet(Moved(T, P.ids, p, side)) /\ Cardinality(Moved(T, P.ids, p, side)) \in Nat
    BY <1>1, <2>1, FS_Subset, FS_CardinalityType
  <2>3. t \notin Moved(T, P.ids, p, side)
    BY <1>1 DEF Moved
  <2>4. \A u \in ToSet(T) : u.id = k => u = t
    <3>1. ToSet(T) = {T[i] : i \in 1..Len(T)}
      BY ListFacts DEF TradeList
    <3>2. \A i \in 1..Len(T) : T[i].id = i
      BY DEF TradeList
    <3> QED
      BY <3>1, <3>2
  <2>5. Moved(T, J, p, side) = IF r.product = p /\ r.side = side THEN Moved(T, P.ids, p, side) \cup {t}
                            ELSE Moved(T, P.ids, p, side)
    BY <1>1, <1>2, <2>4 DEF Moved
  <2>6. Cardinality(Moved(T, P.ids, p, side) \cup {t}) = Cardinality(Moved(T, P.ids, p, side)) + 1
    BY <2>2, <2>3, FS_AddElement
  <2> QED
    BY <2>2, <2>5, <2>6
<1>6. ASSUME NEW o
      PROVE  /\ Cardinality(Filled(T, P.ids, o)) \in Nat
             /\ Cardinality(Filled(T, J, o)) = Cardinality(Filled(T, P.ids, o)) + (IF r.order = o THEN 1 ELSE 0)
  <2>1. Filled(T, P.ids, o) \in SUBSET P.ids
    BY DEF Filled
  <2>2. IsFiniteSet(Filled(T, P.ids, o)) /\ Cardinality(Filled(T, P.ids, o)) \in Nat
    BY <1>4, <2>1, FS_Subset, FS_CardinalityType
  <2>3. k \notin Filled(T, P.ids, o)
    BY DEF Filled
  <2>4. Filled(T, J, o) = IF r.order = o THEN Filled(T, P.ids, o) \cup {k} ELSE Filled(T, P.ids, o)
    BY <1>1 DEF Filled
  <2>5. Cardinality(Filled(T, P.ids, o) \cup {k}) = Cardinality(Filled(T, P.ids, o)) + 1
    BY <2>2, <2>3, FS_AddElement
  <2> QED
    BY <2>2, <2>4, <2>5
<1> HIDE DEF J
<1>7. /\ net \in [Products -> Int]
      /\ \A p \in Products : net[p] = P.net[p] + (IF r.product = p THEN Signed(r.side, r.size) ELSE 0)
  <2> DEFINE f == P.net
  <2> DEFINE a == r.product
  <2> DEFINE d == Signed(r.side, r.size)
  <2>1. f \in [Products -> Int] /\ d \in Int
    BY <1>2 DEF Replays, Net, Signed
  <2>2. net = [f EXCEPT ![a] = @ + d]
    OBVIOUS
  <2>3. /\ net \in [Products -> Int]
        /\ \A p \in Products : net[p] = f[p] + (IF a = p THEN d ELSE 0)
    <3> HIDE DEF f, a, d, net
    <3>1. /\ net = [x \in Products |-> IF x = a THEN f[a] + d ELSE f[x]]
          /\ \A x \in Products : f[x] \in Int
          /\ d \in Int
      BY <2>1, <2>2
    <3>2. \A x \in Products : /\ net[x] = f[x] + (IF a = x THEN d ELSE 0)
                             /\ net[x] \in Int
      BY <3>1
    <3> QED
      BY <3>1, <3>2
  <2> QED
    BY <2>3
<1>8. /\ filled \in [OrderIds -> Nat]
      /\ \A o \in OrderIds : filled[o] = P.filled[o] + (IF r.order = o THEN 1 ELSE 0)
  <2> DEFINE f == P.filled
  <2> DEFINE a == r.order
  <2> DEFINE d == r.size
  <2>1. f \in [OrderIds -> Nat] /\ d = 1
    BY <1>2 DEF Replays
  <2>2. filled = [f EXCEPT ![a] = @ + d]
    OBVIOUS
  <2>3. filled = [f EXCEPT ![a] = @ + 1]
    BY <2>1, <2>2
  <2> HIDE DEF f, a, d, filled
  <2>4. /\ filled = [x \in OrderIds |-> IF x = a THEN f[a] + 1 ELSE f[x]]
        /\ \A x \in OrderIds : f[x] \in Nat
    BY <2>1, <2>3
  <2>5. \A x \in OrderIds : /\ filled[x] = f[x] + (IF a = x THEN 1 ELSE 0)
                           /\ filled[x] \in Nat
    BY <2>4
  <2>6. filled \in [OrderIds -> Nat]
    BY <2>4, <2>5
  <2> QED
    BY <2>5, <2>6 DEF f, a
<1> HIDE DEF net, filled
<1>9. \A p \in Products : net[p] = Cardinality(Moved(T, J, p, "buy")) - Cardinality(Moved(T, J, p, "sell"))
  BY <1>2, <1>5, <1>7 DEF Replays, Net, Signed
<1>10. \A o \in OrderIds : filled[o] = Cardinality(Filled(T, J, o))
  BY <1>6, <1>8 DEF Replays
<1>11. Replays(T, [ids |-> J, net |-> net, filled |-> filled])
  BY <1>4, <1>7, <1>8, <1>9, <1>10 DEF Replays, Net
<1> QED
  BY <1>3, <1>11 DEF J

(* What a record adds to the set of its kind.                                 *)
LEMMA KindsAppend ==
    ASSUME NEW l, IsList(l), NEW r
    PROVE  /\ FillsOf(Append(l, r)) = (IF r.type = "fill" THEN FillsOf(l) \cup {Len(l) + 1} ELSE FillsOf(l))
           /\ DriftsOf(Append(l, r)) = (IF r.type = "drift" THEN DriftsOf(l) \cup {Len(l) + 1} ELSE DriftsOf(l))
           /\ Told(Append(l, r)) = (IF r.type = "drift" THEN Told(l) \cup {r} ELSE Told(l))
           /\ FillsOf(l) \subseteq 1..Len(l) /\ DriftsOf(l) \subseteq 1..Len(l) /\ Len(l) \in Nat
           /\ DriftKeys(Append(l, r)) =
                 (IF r.type = "drift" THEN DriftKeys(l) \cup {Key(r)} ELSE DriftKeys(l))
<1> DEFINE m == Append(l, r)
<1> DEFINE n == Len(l)
<1>1. /\ n \in Nat /\ DOMAIN l = 1..n /\ DOMAIN m = 1..(n + 1)
      /\ \A i \in 1..n : m[i] = l[i]
      /\ m[n + 1] = r /\ ToSet(m) = ToSet(l) \cup {r}
  BY ListFacts, ListAppend
<1> HIDE DEF m, n
<1>2. /\ \A i \in 1..(n + 1) : i \in 1..n \/ i = n + 1
      /\ \A i \in 1..n : i \in 1..(n + 1) /\ i # n + 1
      /\ n + 1 \in 1..(n + 1)
  BY <1>1
<1>3. FillsOf(m) = (IF r.type = "fill" THEN FillsOf(l) \cup {n + 1} ELSE FillsOf(l))
  BY <1>1, <1>2 DEF FillsOf
<1>4. DriftsOf(m) = (IF r.type = "drift" THEN DriftsOf(l) \cup {n + 1} ELSE DriftsOf(l))
  BY <1>1, <1>2 DEF DriftsOf
<1>5. Told(m) = (IF r.type = "drift" THEN Told(l) \cup {r} ELSE Told(l))
  BY <1>1 DEF Told
<1>6. DriftKeys(m) = {Key(x) : x \in Told(m)} /\ DriftKeys(l) = {Key(x) : x \in Told(l)}
  BY DEF DriftKeys, Told
<1>7. DriftKeys(m) = (IF r.type = "drift" THEN DriftKeys(l) \cup {Key(r)} ELSE DriftKeys(l))
  BY <1>5, <1>6
<1>8. FillsOf(l) \subseteq 1..n /\ DriftsOf(l) \subseteq 1..n
  BY <1>1 DEF FillsOf, DriftsOf
<1> QED
  BY <1>1, <1>3, <1>4, <1>5, <1>7, <1>8 DEF m, n

LEMMA KeysOfDrifts ==
    ASSUME NEW l, IsList(l)
    PROVE  /\ DriftKeys(l) = {Key(x) : x \in Told(l)}
           /\ Told(l) = {l[i] : i \in DriftsOf(l)}
<1>1. ToSet(l) = {l[i] : i \in 1..Len(l)} /\ DOMAIN l = 1..Len(l)
  BY ListFacts
<1>2. Told(l) = {l[i] : i \in DriftsOf(l)}
  BY <1>1 DEF Told, DriftsOf
<1>3. DriftKeys(l) = {Key(x) : x \in Told(l)}
  BY DEF DriftKeys, Told
<1> QED
  BY <1>2, <1>3

LEMMA FillRecorded ==
    ASSUME NEW T, TradeList(T), NEW l, Records(T, l),
           NEW r, r.type = "fill", FillOk(T, r), r.id \notin IdsOf(l)
    PROVE  /\ Records(T, Append(l, r)) /\ IdsOf(Append(l, r)) = IdsOf(l) \cup {r.id}
           /\ Told(Append(l, r)) = Told(l) /\ DriftKeys(Append(l, r)) = DriftKeys(l)
           /\ DriftsOf(Append(l, r)) = DriftsOf(l)
<1> DEFINE m == Append(l, r)
<1> DEFINE n == Len(l) + 1
<1>0. IsList(l)
  BY DEF Records
<1>1. /\ IsList(m) /\ (\A i \in 1..Len(l) : m[i] = l[i]) /\ m[n] = r
      /\ Projection(m) = ApplyRecord(Projection(l), r)
  BY <1>0, ListAppend
<1>2. /\ FillsOf(m) = FillsOf(l) \cup {n} /\ DriftsOf(m) = DriftsOf(l) /\ Told(m) = Told(l)
      /\ FillsOf(l) \subseteq 1..Len(l) /\ DriftsOf(l) \subseteq 1..Len(l)
      /\ DriftKeys(m) = DriftKeys(l)
  BY <1>0, KindsAppend
<1>3. Replays(T, Projection(m)) /\ IdsOf(m) = IdsOf(l) \cup {r.id}
  BY <1>1, FillCounts DEF IdsOf, Records
<1> HIDE DEF m, n
<1>4. /\ \A i \in FillsOf(l) : m[i] = l[i]
      /\ \A i \in DriftsOf(l) : m[i] = l[i]
  BY <1>1, <1>2
<1>5. IdsOf(l) = {l[i].id : i \in FillsOf(l)}
  BY DEF Records
<1>6. IdsOf(m) = {m[i].id : i \in FillsOf(m)}
  BY <1>1, <1>2, <1>3, <1>4, <1>5
<1>7. \A i \in FillsOf(m) : FillOk(T, m[i])
  BY <1>1, <1>2, <1>4 DEF Records
<1>8. \A i, j \in FillsOf(m) : m[i].id = m[j].id => i = j
  <2>1. \A i \in FillsOf(l) : m[i].id # r.id
    BY <1>4, <1>5
  <2>2. \A i, j \in FillsOf(l) : m[i].id = m[j].id => i = j
    BY <1>4 DEF Records
  <2> QED
    BY <1>1, <1>2, <2>1, <2>2
<1>9. DriftsApart(m)
  BY <1>2, <1>4 DEF Records, DriftsApart
<1>10. \A i \in DriftsOf(m) : DriftOk(m[i])
  BY <1>2, <1>4 DEF Records
<1>11. Records(T, m)
  BY <1>1, <1>3, <1>6, <1>7, <1>8, <1>9, <1>10 DEF Records
<1> QED
  BY <1>2, <1>3, <1>11 DEF m

(* One more drift, which is on record only where others recorded it since.    *)
LEMMA DriftRecorded ==
    ASSUME NEW T, NEW l, Records(T, l), NEW r, r.type = "drift", DriftOk(r),
           \A i \in DriftsOf(l) : Key(l[i]) = Key(r) => l[i].by # r.by /\ r.since < i
    PROVE  /\ Records(T, Append(l, r)) /\ Projection(Append(l, r)) = Projection(l)
           /\ Told(Append(l, r)) = Told(l) \cup {r}
           /\ DriftKeys(Append(l, r)) = DriftKeys(l) \cup {Key(r)}
           /\ DriftsOf(Append(l, r)) = DriftsOf(l) \cup {Len(l) + 1}
<1> DEFINE m == Append(l, r)
<1> DEFINE n == Len(l) + 1
<1>0. IsList(l)
  BY DEF Records
<1>1. /\ IsList(m) /\ (\A i \in 1..Len(l) : m[i] = l[i]) /\ m[n] = r
      /\ Projection(m) = ApplyRecord(Projection(l), r)
  BY <1>0, ListAppend
<1>2. /\ FillsOf(m) = FillsOf(l) /\ DriftsOf(m) = DriftsOf(l) \cup {n} /\ Told(m) = Told(l) \cup {r}
      /\ FillsOf(l) \subseteq 1..Len(l) /\ DriftsOf(l) \subseteq 1..Len(l) /\ Len(l) \in Nat
      /\ DriftKeys(m) = DriftKeys(l) \cup {Key(r)}
  BY <1>0, KindsAppend
<1>3. Projection(m) = Projection(l)
  BY <1>1 DEF ApplyRecord
<1>4. \A i \in DriftsOf(l) : i \in Nat /\ i < n
  BY <1>2
<1> HIDE DEF m, n
<1>5. /\ \A i \in FillsOf(l) : m[i] = l[i]
      /\ \A i \in DriftsOf(l) : m[i] = l[i]
  BY <1>1, <1>2
<1>6. IdsOf(m) = {m[i].id : i \in FillsOf(m)}
  <2>1. {m[i].id : i \in FillsOf(m)} = {l[i].id : i \in FillsOf(l)}
    BY <1>2, <1>5
  <2> QED
    BY <1>3, <2>1 DEF IdsOf, Records
<1>7. \A i \in DriftsOf(m) : DriftOk(m[i])
  BY <1>1, <1>2, <1>5 DEF Records
<1>8. DriftsApart(m)
  <2> SUFFICES ASSUME NEW i \in DriftsOf(m), NEW j \in DriftsOf(m), Key(m[i]) = Key(m[j]), i < j
               PROVE  m[i].by # m[j].by /\ m[j].since < i
    BY DEF DriftsApart
  <2>1. n \in Nat
    BY <1>2 DEF n
  <2>2. i \in DriftsOf(l)
    BY <1>2, <1>4, <2>1
  <2>3. CASE j \in DriftsOf(l)
    BY <1>5, <2>2, <2>3 DEF Records, DriftsApart
  <2>4. CASE j = n
    BY <1>1, <1>5, <2>2, <2>4
  <2> QED
    BY <1>2, <2>3, <2>4
<1>9. Records(T, m)
  BY <1>1, <1>2, <1>3, <1>5, <1>6, <1>7, <1>8 DEF Records
<1> QED
  BY <1>2, <1>3, <1>9 DEF m, n

(* The venue's lists, of the trades T.                                        *)
OfOrder(T, o) == {t \in ToSet(T) : t.order = o}
NewerIn(T, t) == Cardinality({u \in OfOrder(T, t.order) : u.id > t.id})
(* What it held when k trades were made and others held F.                    *)
Held(T, k, F, p) == F[p] + Net(T, 1..k, p)

LEMMA TradeFacts ==
    ASSUME NEW T, TradeList(T)
    PROVE  /\ Len(T) \in Nat /\ DOMAIN T = 1..Len(T) /\ IsFiniteSet(ToSet(T))
           /\ ToSet(T) = {T[i] : i \in 1..Len(T)}
           /\ \A t \in ToSet(T) : t.id \in 1..Len(T) /\ T[t.id] = t /\ t.order \in OrderIds /\ t.size = 1
                                  /\ t = [id |-> t.id, order |-> t.order, size |-> 1]
           /\ \A k \in 1..Len(T) : T[k] \in ToSet(T) /\ T[k].id = k
<1>1. /\ Len(T) \in Nat /\ DOMAIN T = 1..Len(T) /\ IsFiniteSet(ToSet(T))
      /\ ToSet(T) = {T[i] : i \in 1..Len(T)}
  BY ListFacts DEF TradeList
<1>2. ASSUME NEW k \in 1..Len(T)
      PROVE  /\ T[k].id = k /\ T[k].size = 1 /\ T[k].order \in OrderIds
             /\ T[k] = [id |-> T[k].id, order |-> T[k].order, size |-> 1]
             /\ T[T[k].id] = T[k]
  BY <1>2 DEF TradeList
<1> QED
  BY <1>1, <1>2

LEMMA NewerCount ==
    ASSUME NEW T, TradeList(T), NEW t \in ToSet(T)
    PROVE  /\ NewerIn(T, t) \in Nat /\ Cardinality(OfOrder(T, t.order)) \in Nat
           /\ NewerIn(T, t) < Cardinality(OfOrder(T, t.order))
           /\ IsFiniteSet(OfOrder(T, t.order))
<1> DEFINE A == OfOrder(T, t.order)
<1> DEFINE B == {u \in A : u.id > t.id}
<1>1. IsFiniteSet(ToSet(T)) /\ t.id \in Nat
  BY TradeFacts
<1>2. A \in SUBSET ToSet(T) /\ t \in A
  BY DEF OfOrder
<1>3. IsFiniteSet(A) /\ Cardinality(A) \in Nat
  BY <1>1, <1>2, FS_Subset, FS_CardinalityType
<1>4. B \in SUBSET A /\ B # A
  BY <1>1, <1>2
<1>5. IsFiniteSet(B) /\ Cardinality(B) \in Nat /\ Cardinality(B) < Cardinality(A)
  BY <1>3, <1>4, FS_Subset, FS_CardinalityType
<1>6. NewerIn(T, t) = Cardinality(B)
  BY DEF NewerIn
<1> HIDE DEF A, B
<1> QED
  BY <1>3, <1>5, <1>6 DEF A

LEMMA MovedCount ==
    ASSUME NEW T, TradeList(T), NEW ids, NEW p, NEW side
    PROVE  IsFiniteSet(Moved(T, ids, p, side)) /\ Cardinality(Moved(T, ids, p, side)) \in Nat
<1>1. IsFiniteSet(ToSet(T)) /\ Moved(T, ids, p, side) \in SUBSET ToSet(T)
  BY TradeFacts DEF Moved
<1> QED
  BY <1>1, FS_Subset, FS_CardinalityType

LEMMA NetFacts ==
    ASSUME NEW T, TradeList(T), NEW ids, NEW p
    PROVE  Net(T, ids, p) \in Int
<1>1. /\ Cardinality(Moved(T, ids, p, "buy")) \in Nat
      /\ Cardinality(Moved(T, ids, p, "sell")) \in Nat
  BY MovedCount
<1> QED
  BY <1>1 DEF Net

WithTrade(T, o) == Append(T, [id |-> Len(T) + 1, order |-> o, size |-> 1])

(* What was traded before stays what it was.                                  *)
Extends(T, U) == /\ TradeList(T) /\ TradeList(U) /\ Len(T) <= Len(U)
                 /\ \A k \in 1..Len(T) : U[k] = T[k]
LEMMA NetKept ==
    ASSUME NEW T, NEW U, Extends(T, U)
    PROVE  \A ids, p : ids \subseteq 1..Len(T) => Net(U, ids, p) = Net(T, ids, p)
<1> SUFFICES ASSUME NEW ids, NEW p, ids \subseteq 1..Len(T)
             PROVE  Net(U, ids, p) = Net(T, ids, p)
  OBVIOUS
<1>1. ASSUME NEW side
      PROVE  Moved(U, ids, p, side) = Moved(T, ids, p, side)
  <2>1. \A k \in 1..Len(T) : k \in 1..Len(U)
    BY TradeFacts DEF Extends
  <2>2. \A t \in ToSet(U) : t.id \in ids => t \in ToSet(T)
    BY TradeFacts DEF Extends
  <2>3. \A t \in ToSet(T) : t.id \in ids => t \in ToSet(U)
    BY <2>1, TradeFacts DEF Extends
  <2> QED
    BY <2>2, <2>3 DEF Moved
<1> QED
  BY <1>1 DEF Net

(* One more trade: what is on record stays true.                              *)
LEMMA TradeAppends ==
    ASSUME NEW T, TradeList(T), NEW l, Records(T, l), NEW o \in OrderIds, NEW U,
           U = WithTrade(T, o)
    PROVE  /\ TradeList(U) /\ Records(U, l) /\ Len(U) = Len(T) + 1
           /\ \A k \in 1..Len(T) : U[k] = T[k]
           /\ ToSet(T) \subseteq ToSet(U)
           /\ \A t \in ToSet(T) : NewerIn(T, t) \in Nat /\ NewerIn(U, t) \in Nat /\ NewerIn(U, t) >= NewerIn(T, t)
<1> DEFINE u == [id |-> Len(T) + 1, order |-> o, size |-> 1]
<1> DEFINE n == Len(T)
<1>0. IsList(T) /\ n \in Nat
  BY TradeFacts DEF TradeList
<1>1. /\ IsList(U) /\ Len(U) = n + 1
      /\ \A i \in 1..n : U[i] = T[i]
      /\ U[n + 1] = u /\ ToSet(U) = ToSet(T) \cup {u}
  BY <1>0, ListAppend DEF WithTrade
<1>2. u.id = n + 1 /\ u.order = o /\ u.size = 1 /\ u = [id |-> n + 1, order |-> u.order, size |-> 1]
  OBVIOUS
<1> HIDE DEF u, n
<1>3. /\ \A i \in 1..(n + 1) : i \in 1..n \/ i = n + 1
      /\ 1..n \subseteq 1..(n + 1)
      /\ n + 1 \notin 1..n
  BY <1>0
<1>4. TradeList(U)
  <2>1. ASSUME NEW k \in 1..Len(U)
        PROVE  /\ U[k].id = k /\ U[k].size = 1
               /\ U[k] = [id |-> k, order |-> U[k].order, size |-> 1]
               /\ U[k].order \in OrderIds
    <3>1. CASE k \in 1..n
      BY <1>1, <3>1 DEF TradeList, n
    <3>2. CASE k = n + 1
      BY <1>1, <1>2, <3>2
    <3> QED
      BY <1>1, <1>3, <2>1, <3>1, <3>2
  <2> QED
    BY <1>1, <2>1 DEF TradeList
<1>5. ASSUME NEW t \in ToSet(T)
      PROVE  NewerIn(T, t) \in Nat /\ NewerIn(U, t) \in Nat /\ NewerIn(U, t) >= NewerIn(T, t)
  <2> DEFINE A == {x \in OfOrder(T, t.order) : x.id > t.id}
  <2> DEFINE B == {x \in OfOrder(U, t.order) : x.id > t.id}
  <2>1. A \in SUBSET B /\ B \in SUBSET ToSet(U)
    BY <1>1 DEF OfOrder
  <2>2. IsFiniteSet(B)
    BY <1>4, <2>1, TradeFacts, FS_Subset
  <2>3. IsFiniteSet(A) /\ Cardinality(A) <= Cardinality(B) /\ Cardinality(A) \in Nat /\ Cardinality(B) \in Nat
    BY <2>1, <2>2, FS_Subset, FS_CardinalityType
  <2>4. NewerIn(T, t) = Cardinality(A) /\ NewerIn(U, t) = Cardinality(B)
    BY DEF NewerIn
  <2> HIDE DEF A, B
  <2> QED
    BY <2>3, <2>4
<1>6. Replays(U, Projection(l))
  <2> DEFINE P == Projection(l)
  <2>1. Replays(T, P)
    BY DEF Records
  <2> HIDE DEF P
  <2>2. P.ids \subseteq 1..n
    BY <2>1 DEF Replays, n
  <2>3. \A p, side : Moved(U, P.ids, p, side) = Moved(T, P.ids, p, side)
    BY <1>1, <1>2, <1>3, <2>2 DEF Moved
  <2>4. \A x : Filled(U, P.ids, x) = Filled(T, P.ids, x)
    BY <1>1, <2>2 DEF Filled
  <2>5. P.ids \subseteq 1..Len(U)
    BY <1>1, <1>3, <2>2
  <2>6. Replays(U, P)
    BY <2>1, <2>3, <2>4, <2>5 DEF Replays, Net
  <2> QED
    BY <2>6 DEF P
<1>7. \A i \in FillsOf(l) : FillOk(U, l[i])
  BY <1>1, <1>3 DEF Records, FillOk, n
<1>8. Records(U, l)
  BY <1>6, <1>7 DEF Records
<1>9. ToSet(T) \subseteq ToSet(U)
  BY <1>1
<1> QED
  BY <1>1, <1>4, <1>5, <1>8, <1>9 DEF n

-----------------------------------------------------------------------------
(* The pass over the fills: what is before it is on record, on the page, or   *)
(* further down the venue's list.                                             *)
PageShape(t) ==
    t = [pc |-> t.pc, order |-> t.order, page |-> t.page, seen |-> t.seen, rest |-> t.rest,
         more |-> t.more, attempt |-> t.attempt, clean |-> t.clean, before |-> t.before]
Reached(T, t, k) ==
    /\ (\E i \in 1..(t.order - 1) : Orders[i].id = T[k].order) => k \in t.seen
    /\ T[k].order = Orders[t.order].id /\ k \notin t.seen =>
          \/ t.pc = "page" /\ NewerIn(T, T[k]) >= t.page * Limit
          \/ t.pc = "emit" /\ T[k] \in t.rest
          \/ t.pc = "emit" /\ t.more /\ NewerIn(T, T[k]) >= t.page * Limit + Limit
Passing(T, l, t) ==
    /\ PageShape(t)
    /\ t.order \in 1..Len(Orders) /\ t.page \in Nat /\ t.seen = IdsOf(l)
    /\ t.before \in 0..Len(T) /\ t.rest \subseteq ToSet(T)
    /\ t.clean \in BOOLEAN /\ t.more \in BOOLEAN
    /\ t.clean => \A k \in 1..t.before : Reached(T, t, k)
Caught(T, l, c) == c \in 0..Len(T) /\ 1..c \subseteq IdsOf(l)

(* A lookup lists what the venue held when it was answered.                   *)
Listed(T, v, look) ==
    /\ \A x \in look.positions :
          /\ x.product \in Products /\ VenueOf[x.product] = v /\ x.size # 0
          /\ x.size = Held(T, look.trades, look.foreign, x.product)
    /\ \A p \in Products : VenueOf[p] = v /\ Held(T, look.trades, look.foreign, p) # 0 =>
          \E x \in look.positions : x.product = p
LookOk(T, v, look) ==
    /\ look = [found |-> look.found, positions |-> look.positions, trades |-> look.trades,
               foreign |-> look.foreign]
    /\ look.trades \in 0..Len(T) /\ look.foreign \in [Products -> Int]
    /\ look.found => Listed(T, v, look)
Looks(T, looks) == /\ IsList(looks) /\ Len(looks) <= Len(Venues)
                   /\ \A i \in 1..Len(looks) : LookOk(T, Venues[i], looks[i])

(* The exchange state up to the comparison: what was read is still true of    *)
(* the fills read, and what was recorded since is of other processes.         *)
StateShape(t) ==
    t = [pc |-> t.pc, page |-> t.page, attempt |-> t.attempt, looks |-> t.looks, bot |-> t.bot,
         fills |-> t.fills, keys |-> t.keys, since |-> t.since]
Looking(T, l, by, t) ==
    /\ StateShape(t) /\ t.page \in Nat
    /\ t.fills \subseteq IdsOf(l) /\ t.bot \in [Products -> Int]
    /\ \A p \in Products : t.bot[p] = Net(T, t.fills, p)
    /\ t.since \in 0..Len(l) /\ t.keys \subseteq DriftKeys(l)
    /\ \A i \in DriftsOf(l) : Key(l[i]) \in t.keys \/ (i > t.since /\ l[i].by # by)
    /\ Looks(T, t.looks)
    /\ IF t.pc = "snapshots" THEN Len(t.looks) = Len(Venues) /\ t.page \in 1..Len(Venues)
       ELSE Len(t.looks) < Len(Venues)

(* The comparison: what differed is on record or about to be, and nothing of  *)
(* what is about to be was on record when the ledger was read.                *)
HeldOf(T, c, p) == Held(T, LookOf(c, p).trades, LookOf(c, p).foreign, p)
Tells(d, p, bot, exchange) == d.product = p /\ d.bot = bot /\ d.exchange = exchange
Past(T, l, c) == c.fills \subseteq IdsOf(l) /\ Looks(T, c.looks) /\ Len(c.looks) = Len(Venues)
Covers(T, l, c, todo) ==
    \A p \in Products : Abs(Net(T, c.fills, p) - HeldOf(T, c, p)) > Tolerance =>
        \E d \in Told(l) \cup todo : Tells(d, p, Net(T, c.fills, p), HeldOf(T, c, p))
Comparing(T, l, by, t) ==
    /\ t = [pc |-> t.pc, todo |-> t.todo, keys |-> t.keys, since |-> t.since, before |-> t.before]
    /\ t.since \in 0..Len(l) /\ t.keys \subseteq DriftKeys(l)
    /\ \A d \in t.todo : d.type = "drift" /\ DriftOk(d) /\ d.by = by /\ d.since = t.since
    /\ \A d, e \in t.todo : Key(d) = Key(e) => d = e
    /\ \A i \in DriftsOf(l) : \A d \in t.todo :
          Key(l[i]) = Key(d) /\ Key(d) \notin t.keys => i > t.since /\ l[i].by # by
    /\ Past(T, l, t.before) /\ Covers(T, l, t.before, t.todo)

TaskIn(T, l, by, t) ==
    /\ t.pc \in {"page", "emit"} => by = Runtime /\ Passing(T, l, t)
    /\ t.pc \in {"accounts", "positions", "snapshots"} => Looking(T, l, by, t)
    /\ t.pc = "drifts" => Comparing(T, l, by, t)
ComparedIn(T, l, c) == c = Never \/ (Past(T, l, c) /\ Covers(T, l, c, {}))

FillsInv ==
    /\ TradeList(trades) /\ Records(trades, ledger) /\ foreign \in [Products -> Int]
    /\ Caught(trades, ledger, caught)
    /\ task = [p \in Procs |-> task[p]]
    /\ \A p \in Procs : TaskIn(trades, ledger, p, task[p])
    /\ ComparedIn(trades, ledger, compared)

(* How trades and records change: nothing is taken back.                      *)
Grows(T, l, U, m) ==
    /\ TradeList(T) /\ Records(T, l) /\ TradeList(U) /\ Records(U, m)
    /\ Len(T) <= Len(U)
    /\ \A k \in 1..Len(T) : U[k] = T[k]
    /\ ToSet(T) \subseteq ToSet(U)
    /\ \A t \in ToSet(T) : NewerIn(U, t) >= NewerIn(T, t)
    /\ IdsOf(l) \subseteq IdsOf(m) /\ Told(l) \subseteq Told(m) /\ DriftKeys(l) \subseteq DriftKeys(m)
    /\ Len(l) <= Len(m)
    /\ \A i \in DriftsOf(m) : (i \in DriftsOf(l) /\ m[i] = l[i]) \/ i > Len(l)
(* What is new is not the process's own.                                      *)
OfOthers(l, m, by) == \A i \in DriftsOf(m) : i > Len(l) => m[i].by # by

LEMMA GrowthFacts ==
    ASSUME NEW T, NEW l, NEW U, NEW m, Grows(T, l, U, m)
    PROVE  /\ Len(T) \in Nat /\ Len(U) \in Nat /\ Len(T) <= Len(U)
           /\ Len(l) \in Nat /\ Len(m) \in Nat /\ Len(l) <= Len(m)
           /\ IdsOf(l) \subseteq 1..Len(T)
           /\ \A ids, p : ids \subseteq 1..Len(T) => Net(U, ids, p) = Net(T, ids, p)
<1>1. /\ Len(T) \in Nat /\ Len(U) \in Nat /\ Len(T) <= Len(U)
      /\ Len(l) \in Nat /\ Len(m) \in Nat /\ Len(l) <= Len(m)
  BY TradeFacts, ListFacts DEF Grows, Records
<1>2. IdsOf(l) \subseteq 1..Len(T)
  BY DEF Grows, Records, Replays, IdsOf
<1>3. Extends(T, U)
  BY DEF Grows, Extends
<1>4. \A ids, p : ids \subseteq 1..Len(T) => Net(U, ids, p) = Net(T, ids, p)
  BY <1>3, NetKept
<1> QED
  BY <1>1, <1>2, <1>4

LEMMA LooksKept ==
    ASSUME NEW T, NEW l, NEW U, NEW m, Grows(T, l, U, m), NEW looks, Looks(T, looks)
    PROVE  /\ Looks(U, looks)
           /\ \A i \in 1..Len(looks) : \A p :
                 Held(U, looks[i].trades, looks[i].foreign, p) = Held(T, looks[i].trades, looks[i].foreign, p)
<1>1. /\ Len(T) \in Nat /\ Len(U) \in Nat /\ Len(T) <= Len(U)
      /\ \A ids, p : ids \subseteq 1..Len(T) => Net(U, ids, p) = Net(T, ids, p)
  BY GrowthFacts
<1>2. ASSUME NEW i \in 1..Len(looks)
      PROVE  /\ LookOk(U, Venues[i], looks[i])
             /\ \A p : Held(U, looks[i].trades, looks[i].foreign, p) = Held(T, looks[i].trades, looks[i].foreign, p)
  <2> DEFINE a == looks[i]
  <2>1. LookOk(T, Venues[i], a)
    BY DEF Looks
  <2> HIDE DEF a
  <2>2. a.trades \in 0..Len(U) /\ 1..a.trades \subseteq 1..Len(T)
    BY <1>1, <2>1 DEF LookOk
  <2>3. \A p : Held(U, a.trades, a.foreign, p) = Held(T, a.trades, a.foreign, p)
    BY <1>1, <2>2 DEF Held
  <2>4. Listed(T, Venues[i], a) => Listed(U, Venues[i], a)
    BY <2>3 DEF Listed
  <2>5. LookOk(U, Venues[i], a)
    BY <2>1, <2>2, <2>4 DEF LookOk
  <2> QED
    BY <2>3, <2>5 DEF a
<1> QED
  BY <1>2 DEF Looks

LEMMA CompareFacts ==
    ASSUME NEW c, Len(c.looks) = Len(Venues), NEW p \in Products
    PROVE  \E i \in 1..Len(c.looks) : LookOf(c, p) = c.looks[i] /\ Venues[i] = VenueOf[p]
<1>1. DOMAIN Venues = 1..Len(Venues) /\ ToSet(Venues) = {Venues[i] : i \in DOMAIN Venues}
  BY VenueAssumption DEF ToSet
<1>2. \E i \in DOMAIN Venues : Venues[i] = VenueOf[p]
  BY <1>1, VenueAssumption
<1> DEFINE c0 == CHOOSE i \in DOMAIN Venues : Venues[i] = VenueOf[p]
<1>3. c0 \in DOMAIN Venues /\ Venues[c0] = VenueOf[p]
  BY <1>2
<1>4. LookOf(c, p) = c.looks[c0]
  BY DEF LookOf
<1> HIDE DEF c0
<1> QED
  BY <1>1, <1>3, <1>4

LEMMA PastKept ==
    ASSUME NEW T, NEW l, NEW U, NEW m, Grows(T, l, U, m), NEW c, Past(T, l, c)
    PROVE  /\ Past(U, m, c)
           /\ \A p \in Products : /\ Net(U, c.fills, p) = Net(T, c.fills, p)
                                  /\ HeldOf(U, c, p) = HeldOf(T, c, p)
<1>1. Looks(T, c.looks) /\ Len(c.looks) = Len(Venues) /\ c.fills \subseteq IdsOf(l)
  BY DEF Past
<1>2. /\ Looks(U, c.looks)
      /\ \A i \in 1..Len(c.looks) : \A p :
            Held(U, c.looks[i].trades, c.looks[i].foreign, p) = Held(T, c.looks[i].trades, c.looks[i].foreign, p)
  <2> DEFINE looks == c.looks
  <2>1. Looks(T, looks)
    BY <1>1
  <2> HIDE DEF looks
  <2>2. /\ Looks(U, looks)
        /\ \A i \in 1..Len(looks) : \A p :
              Held(U, looks[i].trades, looks[i].foreign, p) = Held(T, looks[i].trades, looks[i].foreign, p)
    BY <2>1, LooksKept
  <2> QED
    BY <2>2 DEF looks
<1>3. \A p \in Products : HeldOf(U, c, p) = HeldOf(T, c, p)
  <2> SUFFICES ASSUME NEW p \in Products
               PROVE  HeldOf(U, c, p) = HeldOf(T, c, p)
    OBVIOUS
  <2>1. PICK i \in 1..Len(c.looks) : LookOf(c, p) = c.looks[i]
    BY <1>1, CompareFacts
  <2> QED
    BY <1>2, <2>1 DEF HeldOf
<1>4. /\ c.fills \subseteq 1..Len(T)
      /\ \A p : Net(U, c.fills, p) = Net(T, c.fills, p)
  BY <1>1, GrowthFacts
<1>5. c.fills \subseteq IdsOf(m)
  BY <1>1 DEF Grows
<1> QED
  BY <1>1, <1>2, <1>3, <1>4, <1>5 DEF Past

LEMMA CoversKept ==
    ASSUME NEW T, NEW l, NEW U, NEW m, Grows(T, l, U, m), NEW c, Past(T, l, c),
           NEW A, NEW B, Covers(T, l, c, A),
           \A d \in A : d \in B \/ \E e \in Told(m) : Key(e) = Key(d)
    PROVE  Covers(U, m, c, B)
<1> SUFFICES ASSUME NEW p \in Products, Abs(Net(U, c.fills, p) - HeldOf(U, c, p)) > Tolerance
             PROVE  \E d \in Told(m) \cup B : Tells(d, p, Net(U, c.fills, p), HeldOf(U, c, p))
  BY DEF Covers
<1>1. Net(U, c.fills, p) = Net(T, c.fills, p) /\ HeldOf(U, c, p) = HeldOf(T, c, p)
  BY PastKept
<1>2. PICK d \in Told(l) \cup A : Tells(d, p, Net(U, c.fills, p), HeldOf(U, c, p))
  BY <1>1 DEF Covers
<1>3. CASE d \in Told(m) \cup B
  BY <1>2, <1>3
<1>4. CASE d \notin Told(m) \cup B
  <2>1. PICK e \in Told(m) : Key(e) = Key(d)
    BY <1>2, <1>4 DEF Grows
  <2>2. e.product = d.product /\ e.bot = d.bot /\ e.exchange = d.exchange
    BY <2>1 DEF Key
  <2> QED
    BY <1>2, <2>2 DEF Tells
<1> QED
  BY <1>3, <1>4

LEMMA ComparedKept ==
    ASSUME NEW T, NEW l, NEW U, NEW m, Grows(T, l, U, m), NEW c, ComparedIn(T, l, c)
    PROVE  ComparedIn(U, m, c)
<1>1. CASE c = Never
  BY <1>1 DEF ComparedIn
<1>2. CASE Past(T, l, c) /\ Covers(T, l, c, {})
  BY <1>2, PastKept, CoversKept DEF ComparedIn
<1> QED
  BY <1>1, <1>2 DEF ComparedIn

LEMMA CaughtKept ==
    ASSUME NEW T, NEW l, NEW U, NEW m, Grows(T, l, U, m), NEW c, Caught(T, l, c)
    PROVE  Caught(U, m, c)
<1>1. Len(T) \in Nat /\ Len(U) \in Nat /\ Len(T) <= Len(U)
  BY TradeFacts DEF Grows
<1>2. c \in 0..Len(U)
  BY <1>1 DEF Caught
<1> QED
  BY <1>2 DEF Caught, Grows

(* A task that waits while others go on: of the fills, only its own process   *)
(* records any.                                                               *)
LEMMA PassingKept ==
    ASSUME NEW T, NEW l, NEW U, NEW m, Grows(T, l, U, m), IdsOf(m) = IdsOf(l), NEW t, Passing(T, l, t)
    PROVE  Passing(U, m, t)
<1>1. Len(T) \in Nat /\ Len(U) \in Nat /\ Len(T) <= Len(U)
  BY TradeFacts DEF Grows
<1>2. t.before \in 0..Len(U) /\ 1..t.before \subseteq 1..Len(T)
  BY <1>1 DEF Passing
<1>3. \A k \in 1..Len(T) : /\ U[k] = T[k] /\ NewerIn(U, T[k]) \in Nat /\ NewerIn(T, T[k]) \in Nat
                           /\ NewerIn(U, T[k]) >= NewerIn(T, T[k])
  BY TradeFacts, NewerCount DEF Grows
<1>4. t.page * Limit \in Nat /\ Limit \in Nat
  BY PageAssumption DEF Passing
<1>5. ASSUME NEW k \in 1..t.before, Reached(T, t, k)
      PROVE  Reached(U, t, k)
  <2>1. U[k] = T[k]
    BY <1>2, <1>3
  <2>2. \A x \in Nat : NewerIn(T, T[k]) >= x => NewerIn(U, U[k]) >= x
    BY <1>2, <1>3, <2>1
  <2>3. t.page * Limit + Limit \in Nat
    BY <1>4
  <2> QED
    BY <1>4, <1>5, <2>1, <2>2, <2>3 DEF Reached
<1> QED
  BY <1>2, <1>5 DEF Passing, Grows

LEMMA LookingKept ==
    ASSUME NEW T, NEW l, NEW U, NEW m, Grows(T, l, U, m), NEW by, OfOthers(l, m, by),
           NEW t, Looking(T, l, by, t)
    PROVE  Looking(U, m, by, t)
<1>1. /\ Len(l) \in Nat /\ Len(m) \in Nat /\ Len(l) <= Len(m)
      /\ IdsOf(l) \subseteq 1..Len(T)
      /\ \A ids, p : ids \subseteq 1..Len(T) => Net(U, ids, p) = Net(T, ids, p)
  BY GrowthFacts
<1>2. Looks(U, t.looks)
  BY LooksKept DEF Looking
<1>3. t.fills \subseteq IdsOf(m) /\ t.keys \subseteq DriftKeys(m)
  BY DEF Looking, Grows
<1>4. \A p \in Products : t.bot[p] = Net(U, t.fills, p)
  BY <1>1 DEF Looking
<1>5. t.since \in 0..Len(m)
  BY <1>1 DEF Looking
<1>6. \A i \in DriftsOf(m) : Key(m[i]) \in t.keys \/ (i > t.since /\ m[i].by # by)
  <2> SUFFICES ASSUME NEW i \in DriftsOf(m)
               PROVE  Key(m[i]) \in t.keys \/ (i > t.since /\ m[i].by # by)
    OBVIOUS
  <2>1. CASE i \in DriftsOf(l) /\ m[i] = l[i]
    BY <2>1 DEF Looking
  <2>2. CASE i > Len(l)
    <3>1. i \in Nat
      BY ListFacts DEF Grows, Records, DriftsOf
    <3>2. i > t.since
      BY <1>1, <2>2, <3>1 DEF Looking
    <3> QED
      BY <2>2, <3>2 DEF OfOthers
  <2> QED
    BY <2>1, <2>2 DEF Grows
<1> QED
  BY <1>2, <1>3, <1>4, <1>5, <1>6 DEF Looking

LEMMA ComparingKept ==
    ASSUME NEW T, NEW l, NEW U, NEW m, Grows(T, l, U, m), NEW by, OfOthers(l, m, by),
           NEW t, Comparing(T, l, by, t)
    PROVE  Comparing(U, m, by, t)
<1>1. /\ Len(l) \in Nat /\ Len(m) \in Nat /\ Len(l) <= Len(m)
  BY GrowthFacts
<1>2. Past(T, l, t.before) /\ Covers(T, l, t.before, t.todo)
  BY DEF Comparing
<1>3. Past(U, m, t.before)
  BY <1>2, PastKept
<1>4. Covers(U, m, t.before, t.todo)
  BY <1>2, CoversKept
<1>5. t.since \in 0..Len(m) /\ t.keys \subseteq DriftKeys(m)
  BY <1>1 DEF Comparing, Grows
<1>6. \A i \in DriftsOf(m) : \A d \in t.todo :
         Key(m[i]) = Key(d) /\ Key(d) \notin t.keys => i > t.since /\ m[i].by # by
  <2> SUFFICES ASSUME NEW i \in DriftsOf(m), NEW d \in t.todo, Key(m[i]) = Key(d), Key(d) \notin t.keys
               PROVE  i > t.since /\ m[i].by # by
    OBVIOUS
  <2>1. CASE i \in DriftsOf(l) /\ m[i] = l[i]
    BY <2>1 DEF Comparing
  <2>2. CASE i > Len(l)
    <3>1. i \in Nat
      BY ListFacts DEF Grows, Records, DriftsOf
    <3>2. i > t.since
      BY <1>1, <2>2, <3>1 DEF Comparing
    <3> QED
      BY <2>2, <3>2 DEF OfOthers
  <2> QED
    BY <2>1, <2>2 DEF Grows
<1> QED
  BY <1>3, <1>4, <1>5, <1>6 DEF Comparing

LEMMA TaskKept ==
    ASSUME NEW T, NEW l, NEW U, NEW m, Grows(T, l, U, m), NEW by, OfOthers(l, m, by),
           by = Runtime => IdsOf(m) = IdsOf(l), NEW t, TaskIn(T, l, by, t)
    PROVE  TaskIn(U, m, by, t)
<1>1. CASE t.pc \in {"page", "emit"}
  BY <1>1, PassingKept DEF TaskIn
<1>2. CASE t.pc \in {"accounts", "positions", "snapshots"}
  BY <1>2, LookingKept DEF TaskIn
<1>3. CASE t.pc = "drifts"
  BY <1>3, ComparingKept DEF TaskIn
<1>4. CASE t.pc \notin {"page", "emit", "accounts", "positions", "snapshots", "drifts"}
  BY <1>4 DEF TaskIn
<1> QED
  BY <1>1, <1>2, <1>3, <1>4

LEMMA TaskOver ==
    ASSUME NEW T, NEW l, NEW by
    PROVE  TaskIn(T, l, by, Idle)
  BY DEF TaskIn, Idle

(* The kinds of step.                                                         *)
LEMMA GrowsByRecord ==
    ASSUME NEW T, TradeList(T), NEW l, Records(T, l), NEW m, Records(T, m), Len(l) <= Len(m),
           IdsOf(l) \subseteq IdsOf(m), Told(l) \subseteq Told(m), DriftKeys(l) \subseteq DriftKeys(m),
           \A i \in DriftsOf(m) : (i \in DriftsOf(l) /\ m[i] = l[i]) \/ i > Len(l)
    PROVE  Grows(T, l, T, m)
<1>1. Len(T) \in Nat
  BY TradeFacts
<1>2. \A t \in ToSet(T) : NewerIn(T, t) >= NewerIn(T, t)
  BY NewerCount
<1> QED
  BY <1>1, <1>2 DEF Grows

LEMMA GrowsByNothing ==
    ASSUME NEW T, TradeList(T), NEW l, Records(T, l)
    PROVE  Grows(T, l, T, l) /\ \A by : OfOthers(l, l, by)
<1>1. Len(l) \in Nat /\ DriftsOf(l) \subseteq 1..Len(l)
  BY ListFacts DEF Records, DriftsOf
<1>2. Len(l) <= Len(l) /\ \A i \in DriftsOf(l) : ~(i > Len(l))
  BY <1>1
<1>3. \A i \in DriftsOf(l) : (i \in DriftsOf(l) /\ l[i] = l[i]) \/ i > Len(l)
  OBVIOUS
<1> QED
  BY <1>2, <1>3, GrowsByRecord DEF OfOthers

LEMMA GrowsByTrade ==
    ASSUME NEW T, TradeList(T), NEW l, Records(T, l), NEW o \in OrderIds, NEW U,
           U = WithTrade(T, o)
    PROVE  Grows(T, l, U, l)
<1>1. /\ TradeList(U) /\ Records(U, l) /\ Len(U) = Len(T) + 1
      /\ \A k \in 1..Len(T) : U[k] = T[k]
      /\ ToSet(T) \subseteq ToSet(U)
      /\ \A t \in ToSet(T) : NewerIn(U, t) >= NewerIn(T, t)
  BY TradeAppends
<1>2. Len(T) \in Nat /\ Len(l) \in Nat
  BY TradeFacts, ListFacts DEF Records
<1>3. Len(T) <= Len(U) /\ Len(l) <= Len(l)
  BY <1>1, <1>2
<1> QED
  BY <1>1, <1>3 DEF Grows

LEMMA OrderPlaces ==
    /\ Len(Orders) \in Nat /\ Len(Orders) >= 1
    /\ \A o \in OrderIds : \E i \in 1..Len(Orders) : Orders[i].id = o
    /\ \A i \in 1..Len(Orders) : Orders[i].id \in OrderIds
<1>1. Orders \in Seq(ToSet(Orders)) /\ Orders # << >>
  BY OrdersAssumption
<1>2. Len(Orders) \in Nat /\ Len(Orders) >= 1 /\ DOMAIN Orders = 1..Len(Orders)
  BY <1>1
<1> QED
  BY <1>2 DEF OrderIds

(* A step of one process; the others wait.                                    *)
LEMMA StepKeeps ==
    ASSUME FillsInv, trades' = trades, foreign' = foreign, compared' = compared,
           Grows(trades, ledger, trades, ledger'), Caught(trades, ledger', caught'),
           NEW p \in Procs, NEW u, Becomes(p, u), TaskIn(trades, ledger', p, u),
           \A q \in Procs : q # p => OfOthers(ledger, ledger', q),
           p # Runtime => IdsOf(ledger') = IdsOf(ledger)
    PROVE  FillsInv'
<1>1. task' = [task EXCEPT ![p] = u] /\ task = [q \in Procs |-> task[q]]
  BY DEF Becomes, FillsInv
<1>2. task' = [q \in Procs |-> task'[q]] /\ \A q \in Procs : task'[q] = IF q = p THEN u ELSE task[q]
  BY <1>1
<1>3. ASSUME NEW q \in Procs
      PROVE  TaskIn(trades, ledger', q, task'[q])
  <2>1. CASE q = p
    BY <1>2, <2>1
  <2>2. CASE q # p
    <3> DEFINE t == task[q]
    <3>1. TaskIn(trades, ledger, q, t)
      BY DEF FillsInv
    <3>2. OfOthers(ledger, ledger', q) /\ (q = Runtime => IdsOf(ledger') = IdsOf(ledger))
      BY <2>2
    <3> HIDE DEF t
    <3>3. TaskIn(trades, ledger', q, t)
      BY <3>1, <3>2, TaskKept
    <3> QED
      BY <1>2, <2>2, <3>3 DEF t
  <2> QED
    BY <2>1, <2>2
<1>4. ComparedIn(trades, ledger', compared)
  BY ComparedKept DEF FillsInv
<1>5. TradeList(trades) /\ Records(trades, ledger')
  BY DEF Grows
<1> QED
  BY <1>2, <1>3, <1>4, <1>5 DEF FillsInv

(* A step that records nothing.                                               *)
LEMMA QuietKeeps ==
    ASSUME FillsInv, trades' = trades, foreign' = foreign, compared' = compared, ledger' = ledger,
           Caught(trades, ledger, caught'),
           NEW p \in Procs, NEW u, Becomes(p, u), TaskIn(trades, ledger, p, u)
    PROVE  FillsInv'
<1>1. Grows(trades, ledger, trades, ledger) /\ \A by : OfOthers(ledger, ledger, by)
  BY GrowsByNothing DEF FillsInv
<1>2. /\ Grows(trades, ledger, trades, ledger') /\ Caught(trades, ledger', caught')
      /\ TaskIn(trades, ledger', p, u) /\ IdsOf(ledger') = IdsOf(ledger)
      /\ \A q \in Procs : q # p => OfOthers(ledger, ledger', q)
  BY <1>1
<1> QED
  BY <1>2, StepKeeps

(* A step of the venue.                                                       *)
LEMMA VenueKeeps ==
    ASSUME FillsInv, Grows(trades, ledger, trades', ledger), foreign' \in [Products -> Int],
           UNCHANGED <<ledger, task, history>>
    PROVE  FillsInv'
<1>1. ledger' = ledger /\ task' = task /\ caught' = caught /\ compared' = compared
  BY DEF history
<1>2. \A by : OfOthers(ledger, ledger, by)
  BY GrowsByNothing DEF FillsInv
<1>3. \A p \in Procs : TaskIn(trades', ledger, p, task[p])
  <2> SUFFICES ASSUME NEW p \in Procs
               PROVE  TaskIn(trades', ledger, p, task[p])
    OBVIOUS
  <2> DEFINE t == task[p]
  <2>1. TaskIn(trades, ledger, p, t)
    BY DEF FillsInv
  <2> HIDE DEF t
  <2>2. TaskIn(trades', ledger, p, t)
    BY <1>2, <2>1, TaskKept
  <2> QED
    BY <2>2 DEF t
<1>4. ComparedIn(trades', ledger, compared) /\ Caught(trades', ledger, caught)
  BY ComparedKept, CaughtKept DEF FillsInv
<1>5. TradeList(trades') /\ Records(trades', ledger)
  BY DEF Grows
<1> QED
  BY <1>1, <1>3, <1>4, <1>5 DEF FillsInv

LEMMA TradeKeeps == FillsInv /\ Trade => FillsInv'
<1> SUFFICES ASSUME FillsInv, Trade
             PROVE  FillsInv'
  OBVIOUS
<1>1. PICK i \in DOMAIN Orders :
          trades' = Append(trades, [id |-> Len(trades) + 1, order |-> Orders[i].id, size |-> 1])
  BY DEF Trade
<1>2. /\ UNCHANGED <<ledger, task, history>> /\ foreign' = foreign
      /\ Orders[i].id \in OrderIds
  BY DEF Trade, OrderIds
<1> DEFINE o == Orders[i].id
<1>3. trades' = WithTrade(trades, o)
  BY <1>1 DEF WithTrade
<1> HIDE DEF o
<1>4. Grows(trades, ledger, trades', ledger)
  BY <1>2, <1>3, GrowsByTrade DEF FillsInv, o
<1>5. foreign' \in [Products -> Int]
  BY <1>2 DEF FillsInv
<1> QED
  BY <1>2, <1>4, <1>5, VenueKeeps

LEMMA ForeignChangeKeeps == FillsInv /\ ForeignChange => FillsInv'
<1> SUFFICES ASSUME FillsInv, ForeignChange
             PROVE  FillsInv'
  OBVIOUS
<1>1. PICK move \in ForeignMoves : foreign' = [foreign EXCEPT ![move.product] = @ + move.by]
  BY DEF ForeignChange
<1>2. move.product \in Products /\ move.by \in Int
  BY ForeignAssumption
<1>3. UNCHANGED <<ledger, task, history>> /\ trades' = trades
  BY DEF ForeignChange
<1>4. foreign' \in [Products -> Int]
  BY <1>1, <1>2 DEF FillsInv
<1>5. Grows(trades, ledger, trades', ledger)
  BY <1>3, GrowsByNothing DEF FillsInv
<1> QED
  BY <1>3, <1>4, <1>5, VenueKeeps

LEMMA TaskDiesKeeps == \A p \in Procs : FillsInv /\ TaskDies(p) => FillsInv'
<1> SUFFICES ASSUME NEW p \in Procs, FillsInv, TaskDies(p)
             PROVE  FillsInv'
  OBVIOUS
<1>1. /\ trades' = trades /\ foreign' = foreign /\ compared' = compared /\ ledger' = ledger /\ caught' = caught
      /\ Becomes(p, Idle)
  BY DEF TaskDies, venue, history
<1>2. Caught(trades, ledger, caught') /\ TaskIn(trades, ledger, p, Idle)
  BY <1>1, TaskOver DEF FillsInv
<1> QED
  BY <1>1, <1>2, QuietKeeps

LEMMA RetryKeeps == \A p \in Procs : FillsInv /\ Retry(p) => FillsInv'
<1> SUFFICES ASSUME NEW p \in Procs, FillsInv, Retry(p)
             PROVE  FillsInv'
  OBVIOUS
<1> DEFINE t == task[p]
<1> DEFINE u == [t EXCEPT !.attempt = @ + 1]
<1>1. /\ trades' = trades /\ foreign' = foreign /\ compared' = compared /\ ledger' = ledger /\ caught' = caught
      /\ Becomes(p, u) /\ t.pc \in {"page", "accounts", "positions"}
  BY DEF Retry, venue, history, Recorded
<1>2. TaskIn(trades, ledger, p, t) /\ Caught(trades, ledger, caught')
  BY <1>1 DEF FillsInv
<1>3. u = [t EXCEPT !.attempt = t.attempt + 1]
  OBVIOUS
<1>4. TaskIn(trades, ledger, p, u)
  <2> HIDE DEF t, u
  <2>1. CASE t.pc = "page"
    <3>1. Passing(trades, ledger, t) /\ p = Runtime
      BY <1>2, <2>1 DEF TaskIn
    <3>2. u = [pc |-> "page", order |-> t.order, page |-> t.page, seen |-> t.seen, rest |-> t.rest,
               more |-> t.more, attempt |-> t.attempt + 1, clean |-> t.clean, before |-> t.before]
      BY <1>3, <2>1, <3>1 DEF Passing, PageShape
    <3>3. PageShape(u) /\ u.pc = "page"
      BY <3>2 DEF PageShape
    <3>4. \A k : Reached(trades, t, k) => Reached(trades, u, k)
      BY <2>1, <3>2 DEF Reached
    <3>5. Passing(trades, ledger, u)
      BY <3>1, <3>2, <3>3, <3>4 DEF Passing
    <3> QED
      BY <3>1, <3>3, <3>5 DEF TaskIn
  <2>2. CASE t.pc \in {"accounts", "positions"}
    <3>1. Looking(trades, ledger, p, t)
      BY <1>2, <2>2 DEF TaskIn
    <3>2. u = [pc |-> t.pc, page |-> t.page, attempt |-> t.attempt + 1, looks |-> t.looks, bot |-> t.bot,
               fills |-> t.fills, keys |-> t.keys, since |-> t.since]
      BY <1>3, <3>1 DEF Looking, StateShape
    <3>3. StateShape(u) /\ u.pc = t.pc
      BY <3>2 DEF StateShape
    <3>4. Looking(trades, ledger, p, u)
      BY <3>1, <3>2, <3>3 DEF Looking
    <3> QED
      BY <2>2, <3>3, <3>4 DEF TaskIn
  <2> QED
    BY <1>1, <2>1, <2>2
<1> HIDE DEF t, u
<1> QED
  BY <1>1, <1>2, <1>4, QuietKeeps

-----------------------------------------------------------------------------
(* The pass over the fills.                                                   *)
LEMMA StartFillsKeeps == FillsInv /\ StartFills => FillsInv'
<1> SUFFICES ASSUME FillsInv, StartFills
             PROVE  FillsInv'
  OBVIOUS
<1> DEFINE u == [pc |-> "page", order |-> 1, page |-> 0, seen |-> Projection(ledger).ids,
                 rest |-> {}, more |-> FALSE, attempt |-> 1, clean |-> TRUE, before |-> Len(trades)]
<1>1. /\ trades' = trades /\ foreign' = foreign /\ compared' = compared /\ ledger' = ledger /\ caught' = caught
      /\ Becomes(Runtime, u)
  BY DEF StartFills, Starts, venue, history
<1>2. /\ Caught(trades, ledger, caught') /\ TradeList(trades) /\ Len(trades) \in Nat
      /\ Runtime \in Procs
  BY <1>1, TradeFacts, RuntimeAssumption DEF FillsInv
<1>3. /\ u.pc = "page" /\ u.order = 1 /\ u.page = 0 /\ u.seen = IdsOf(ledger) /\ u.rest = {}
      /\ u.more = FALSE /\ u.clean = TRUE /\ u.before = Len(trades) /\ PageShape(u)
  BY DEF PageShape, IdsOf
<1> HIDE DEF u
<1>4. ASSUME NEW k \in 1..u.before
      PROVE  Reached(trades, u, k)
  <2>1. k \in 1..Len(trades)
    BY <1>3, <1>4
  <2>2. NewerIn(trades, trades[k]) \in Nat
    BY <1>2, <2>1, TradeFacts, NewerCount
  <2>3. u.page * Limit = 0 /\ 1..(u.order - 1) = {}
    BY <1>3, PageAssumption
  <2> QED
    BY <1>3, <2>2, <2>3 DEF Reached
<1>5. Passing(trades, ledger, u)
  <2>1. u.order \in 1..Len(Orders) /\ u.page \in Nat /\ u.before \in 0..Len(trades)
    BY <1>2, <1>3, OrderPlaces
  <2>2. u.rest \subseteq ToSet(trades) /\ u.clean \in BOOLEAN /\ u.more \in BOOLEAN
    BY <1>3
  <2> QED
    BY <1>3, <1>4, <2>1, <2>2 DEF Passing
<1>6. TaskIn(trades, ledger, Runtime, u)
  BY <1>3, <1>5 DEF TaskIn
<1> QED
  BY <1>1, <1>2, <1>6, QuietKeeps

(* The pass as it is found.                                                   *)
LEMMA PassFacts ==
    ASSUME FillsInv, Pass.pc \in {"page", "emit"}
    PROVE  /\ Passing(trades, ledger, Pass) /\ TradeList(trades) /\ Len(trades) \in Nat
           /\ Records(trades, ledger) /\ Caught(trades, ledger, caught) /\ Runtime \in Procs
           /\ Asked = Orders[Pass.order].id
<1>1. TaskIn(trades, ledger, Runtime, Pass)
  BY RuntimeAssumption DEF FillsInv, Pass
<1> QED
  BY <1>1, TradeFacts, RuntimeAssumption DEF TaskIn, FillsInv, Asked

(* The next order, or the end of the pass.                                    *)
LEMMA NextOrderKeeps ==
    ASSUME FillsInv, trades' = trades, foreign' = foreign, compared' = compared, ledger' = ledger,
           Pass.pc \in {"page", "emit"}, NEW clean \in BOOLEAN, NextOrder(clean),
           clean => Pass.clean /\ \A k \in 1..Pass.before : trades[k].order = Asked => k \in Pass.seen
    PROVE  FillsInv'
<1> DEFINE T == trades
<1> DEFINE t == Pass
<1>1. /\ TradeList(T) /\ Passing(T, ledger, t) /\ Caught(T, ledger, caught)
      /\ Len(T) \in Nat /\ Runtime \in Procs /\ Asked = Orders[t.order].id
  BY PassFacts
<1>2. ASSUME clean, NEW k \in 1..t.before, NEW i \in 1..t.order, Orders[i].id = T[k].order
      PROVE  k \in t.seen
  <2>1. CASE i = t.order
    BY <1>1, <1>2, <2>1
  <2>2. CASE i # t.order
    <3>1. i \in 1..(t.order - 1)
      BY <1>1, <1>2, <2>2 DEF Passing
    <3>2. Reached(T, t, k)
      BY <1>1, <1>2 DEF Passing
    <3> QED
      BY <1>2, <3>1, <3>2 DEF Reached
  <2> QED
    BY <2>1, <2>2
<1>3. CASE t.order < Len(Orders)
  <2> DEFINE u == [t EXCEPT !.pc = "page", !.order = @ + 1, !.page = 0, !.attempt = 1, !.clean = clean]
  <2>1. Becomes(Runtime, u) /\ caught' = caught
    BY <1>3 DEF NextOrder
  <2>2. u = [pc |-> "page", order |-> t.order + 1, page |-> 0, seen |-> t.seen, rest |-> t.rest,
             more |-> t.more, attempt |-> 1, clean |-> clean, before |-> t.before]
    <3>1. PageShape(t)
      BY <1>1 DEF Passing
    <3>2. u = [t EXCEPT !.pc = "page", !.order = t.order + 1, !.page = 0, !.attempt = 1, !.clean = clean]
      OBVIOUS
    <3> HIDE DEF t, u
    <3> QED
      BY <3>1, <3>2 DEF PageShape
  <2> HIDE DEF u, t
  <2>3. u.order \in 1..Len(Orders) /\ u.order - 1 = t.order /\ u.page = 0
    BY <1>1, <1>3, <2>2, OrderPlaces DEF Passing
  <2>4. ASSUME clean, NEW k \in 1..u.before
        PROVE  Reached(T, u, k)
    <3>1. k \in 1..t.before /\ k \in 1..Len(T)
      BY <1>1, <2>2, <2>4 DEF Passing
    <3>2. (\E i \in 1..(u.order - 1) : Orders[i].id = T[k].order) => k \in u.seen
      BY <1>2, <2>2, <2>3, <2>4, <3>1
    <3>3. NewerIn(T, T[k]) \in Nat
      BY <1>1, <3>1, TradeFacts, NewerCount
    <3>4. u.page * Limit = 0
      BY <2>3, PageAssumption
    <3>5. u.pc = "page" /\ NewerIn(T, T[k]) >= u.page * Limit
      BY <2>2, <3>3, <3>4
    <3> QED
      BY <3>2, <3>5 DEF Reached
  <2>5. PageShape(u) /\ u.pc = "page"
    BY <2>2 DEF PageShape
  <2>6. Passing(T, ledger, u)
    BY <1>1, <2>2, <2>3, <2>4, <2>5 DEF Passing
  <2>7. TaskIn(T, ledger, Runtime, u)
    BY <2>5, <2>6 DEF TaskIn
  <2>8. Caught(T, ledger, caught')
    BY <1>1, <2>1
  <2> QED
    BY <1>1, <2>1, <2>7, <2>8, QuietKeeps
<1>4. CASE ~(t.order < Len(Orders))
  <2>1. Becomes(Runtime, Idle) /\ caught' = IF clean THEN t.before ELSE caught
    BY <1>4 DEF NextOrder
  <2> HIDE DEF t
  <2>2. t.order = Len(Orders)
    BY <1>1, <1>4, OrderPlaces DEF Passing
  <2>3. clean => 1..t.before \subseteq IdsOf(ledger)
    <3> SUFFICES ASSUME clean, NEW k \in 1..t.before
                 PROVE  k \in IdsOf(ledger)
      OBVIOUS
    <3>1. k \in 1..Len(T)
      BY <1>1 DEF Passing
    <3>2. T[k].order \in OrderIds
      BY <1>1, <3>1, TradeFacts
    <3>3. PICK i \in 1..Len(Orders) : Orders[i].id = T[k].order
      BY <3>2, OrderPlaces
    <3> QED
      BY <1>1, <1>2, <2>2, <3>3 DEF Passing
  <2>4. Caught(T, ledger, caught')
    BY <1>1, <2>1, <2>3 DEF Caught, Passing
  <2>5. TaskIn(T, ledger, Runtime, Idle)
    BY TaskOver
  <2> QED
    BY <1>1, <2>1, <2>4, <2>5, QuietKeeps
<1> QED
  BY <1>3, <1>4

(* What is further down than this page is on a further page.                  *)
LEMMA LookUpPageKeeps == FillsInv /\ LookUpPage => FillsInv'
<1> SUFFICES ASSUME FillsInv, LookUpPage
             PROVE  FillsInv'
  OBVIOUS
<1> DEFINE T == trades
<1> DEFINE t == Pass
<1> DEFINE from == t.page * Limit
<1> DEFINE found == {x \in TradesOf(Asked) : from <= Newer(x) /\ Newer(x) < from + Limit}
<1> DEFINE more == Cardinality(TradesOf(Asked)) > from + Limit
<1>1. t.pc = "page" /\ UNCHANGED <<venue, history, ledger>>
  BY DEF LookUpPage
<1>2. PICK p : /\ found \subseteq p /\ p \subseteq ToSet(T)
               /\ Becomes(Runtime, [t EXCEPT !.pc = "emit", !.rest = p, !.more = more, !.attempt = 1])
  <2> DEFINE page == ListFills(Asked, t.page)
  <2>1. page = [fills |-> found, more |-> more]
    BY DEF ListFills
  <2>2. page.fills = found /\ page.more = more /\ found \subseteq ToSet(T)
    <3>1. found \subseteq ToSet(T)
      BY DEF TradesOf
    <3> HIDE DEF found, more, page
    <3> QED
      BY <2>1, <3>1
  <2>3. \E p \in {page.fills} \cup {page.fills \cup {x} : x \in {y \in ToSet(trades) : y.order # Asked}} :
            Becomes(Runtime, [t EXCEPT !.pc = "emit", !.rest = p, !.more = page.more, !.attempt = 1])
    BY Zenon DEF LookUpPage
  <2> HIDE DEF page, found, more, t
  <2>4. PICK p \in {page.fills} \cup {page.fills \cup {x} : x \in {y \in ToSet(trades) : y.order # Asked}} :
            Becomes(Runtime, [t EXCEPT !.pc = "emit", !.rest = p, !.more = page.more, !.attempt = 1])
    BY <2>3
  <2>5. page.fills \subseteq p /\ p \subseteq ToSet(T)
    BY <2>2
  <2>6. Becomes(Runtime, [t EXCEPT !.pc = "emit", !.rest = p, !.more = more, !.attempt = 1])
    BY <2>2, <2>4
  <2> QED
    BY <2>2, <2>5, <2>6
<1> DEFINE u == [t EXCEPT !.pc = "emit", !.rest = p, !.more = more, !.attempt = 1]
<1>3. /\ trades' = trades /\ foreign' = foreign /\ caught' = caught /\ compared' = compared /\ ledger' = ledger
      /\ Becomes(Runtime, u)
  BY <1>1, <1>2 DEF venue, history
<1>4. Caught(trades, ledger, caught')
  BY <1>3 DEF FillsInv
<1>5. /\ Passing(T, ledger, t) /\ TradeList(T) /\ Len(T) \in Nat /\ Runtime \in Procs
      /\ Asked = Orders[t.order].id
  BY <1>1, PassFacts
<1>6. found \subseteq p /\ p \subseteq ToSet(T)
  BY <1>2
<1>7. u = [pc |-> "emit", order |-> t.order, page |-> t.page, seen |-> t.seen,
           rest |-> p, more |-> more, attempt |-> 1, clean |-> t.clean, before |-> t.before]
  <2>1. PageShape(t)
    BY <1>5 DEF Passing
  <2>2. u = [t EXCEPT !.pc = "emit", !.rest = p, !.more = more, !.attempt = 1]
    OBVIOUS
  <2> HIDE DEF t, u, more
  <2> QED
    BY <2>1, <2>2 DEF PageShape
<1>8. more \in BOOLEAN /\ (more <=> Cardinality(OfOrder(T, Asked)) > from + Limit)
  BY DEF TradesOf, OfOrder
<1>9. \A x \in ToSet(T) : x.order = Asked /\ from <= NewerIn(T, x) /\ NewerIn(T, x) < from + Limit => x \in found
  BY DEF TradesOf, Newer, NewerIn, OfOrder
<1>10. from = t.page * Limit /\ from \in Nat /\ from + Limit \in Nat
  BY <1>5, PageAssumption DEF Passing
<1> HIDE DEF u, from, found, more, t
<1>11. PageShape(u) /\ u.pc = "emit"
  BY <1>7 DEF PageShape
<1>12. ASSUME u.clean, NEW k \in 1..u.before
       PROVE  Reached(T, u, k)
  <2>1. k \in 1..Len(T) /\ Reached(T, t, k)
    BY <1>5, <1>7, <1>12 DEF Passing
  <2>2. /\ T[k] \in ToSet(T) /\ NewerIn(T, T[k]) \in Nat
        /\ NewerIn(T, T[k]) < Cardinality(OfOrder(T, T[k].order))
        /\ Cardinality(OfOrder(T, T[k].order)) \in Nat
    BY <1>5, <2>1, TradeFacts, NewerCount
  <2>3. ASSUME T[k].order = Orders[u.order].id, k \notin u.seen
        PROVE  \/ u.pc = "emit" /\ T[k] \in u.rest
               \/ u.pc = "emit" /\ u.more /\ NewerIn(T, T[k]) >= u.page * Limit + Limit
    <3>1. T[k].order = Asked /\ k \notin t.seen
      BY <1>5, <1>7, <2>3
    <3>2. NewerIn(T, T[k]) >= from
      BY <1>1, <1>5, <1>10, <2>1, <3>1 DEF Reached
    <3>3. CASE NewerIn(T, T[k]) < from + Limit
      BY <1>6, <1>7, <1>9, <2>2, <3>1, <3>2, <3>3
    <3>4. CASE ~(NewerIn(T, T[k]) < from + Limit)
      <4>1. NewerIn(T, T[k]) >= from + Limit
        BY <1>10, <2>2, <3>4
      <4>2. more
        BY <1>8, <1>10, <2>2, <3>1, <4>1
      <4> QED
        BY <1>7, <1>10, <4>1, <4>2
    <3> QED
      BY <3>3, <3>4
  <2>4. (\E i \in 1..(u.order - 1) : Orders[i].id = T[k].order) => k \in u.seen
    BY <1>7, <2>1 DEF Reached
  <2> QED
    BY <2>3, <2>4 DEF Reached
<1>13. Passing(T, ledger, u)
  BY <1>5, <1>6, <1>7, <1>8, <1>11, <1>12 DEF Passing
<1>14. TaskIn(T, ledger, Runtime, u)
  BY <1>11, <1>13 DEF TaskIn
<1> QED
  BY <1>3, <1>4, <1>5, <1>14, QuietKeeps

LEMMA LookUpPageFailsKeeps == FillsInv /\ LookUpPageFails => FillsInv'
<1> SUFFICES ASSUME FillsInv, LookUpPageFails
             PROVE  FillsInv'
  OBVIOUS
<1>1. /\ trades' = trades /\ foreign' = foreign /\ compared' = compared
      /\ ledger' = ledger /\ NextOrder(FALSE) /\ Pass.pc = "page"
  BY DEF LookUpPageFails, venue, Recorded, Error
<1> QED
  BY <1>1, NextOrderKeeps

(* The next page repeats nothing that this one has not shown.                 *)
LEMMA PageDoneKeeps == FillsInv /\ PageDone => FillsInv'
<1> SUFFICES ASSUME FillsInv, PageDone
             PROVE  FillsInv'
  OBVIOUS
<1> DEFINE T == trades
<1> DEFINE t == Pass
<1>1. /\ trades' = trades /\ foreign' = foreign /\ compared' = compared
      /\ t.pc = "emit" /\ t.rest = {} /\ ledger' = ledger
  BY DEF PageDone, venue, Emits, Recorded, Error
<1>2. /\ Passing(T, ledger, t) /\ TradeList(T) /\ Len(T) \in Nat /\ Caught(T, ledger, caught)
      /\ Asked = Orders[t.order].id /\ Runtime \in Procs
  BY <1>1, PassFacts
<1>3. CASE ~t.more /\ NextOrder(t.clean)
  <2>1. t.clean \in BOOLEAN
    BY <1>2 DEF Passing
  <2>2. t.clean => \A k \in 1..t.before : T[k].order = Asked => k \in t.seen
    <3> HIDE DEF t
    <3> QED
      BY <1>1, <1>2, <1>3 DEF Passing, Reached
  <2> QED
    BY <1>1, <1>3, <2>1, <2>2, NextOrderKeeps
<1>4. CASE t.more /\ caught' = caught /\ Becomes(Runtime, [t EXCEPT !.pc = "page", !.page = @ + 1])
  <2> DEFINE u == [t EXCEPT !.pc = "page", !.page = @ + 1]
  <2>1. Becomes(Runtime, u) /\ Caught(T, ledger, caught')
    BY <1>2, <1>4
  <2>2. u = [pc |-> "page", order |-> t.order, page |-> t.page + 1, seen |-> t.seen,
             rest |-> t.rest, more |-> t.more, attempt |-> t.attempt,
             clean |-> t.clean, before |-> t.before]
    <3>1. PageShape(t)
      BY <1>2 DEF Passing
    <3>2. u = [t EXCEPT !.pc = "page", !.page = t.page + 1]
      OBVIOUS
    <3> HIDE DEF t, u
    <3> QED
      BY <3>1, <3>2 DEF PageShape
  <2> HIDE DEF u, t
  <2>3. PageShape(u) /\ u.pc = "page" /\ u.page \in Nat
    BY <1>2, <2>2 DEF PageShape, Passing
  <2>4. u.page * Limit = t.page * Limit + Limit
    BY <1>2, <2>2, PageAssumption DEF Passing
  <2>5. \A k : Reached(T, t, k) => Reached(T, u, k)
    BY <1>1, <2>2, <2>4 DEF Reached
  <2>6. Passing(T, ledger, u)
    BY <1>2, <2>2, <2>3, <2>5 DEF Passing
  <2>7. TaskIn(T, ledger, Runtime, u)
    BY <2>3, <2>6 DEF TaskIn
  <2> QED
    BY <1>1, <1>2, <2>1, <2>7, QuietKeeps
<1>5. CASE NextOrder(FALSE)
  BY <1>1, <1>5, NextOrderKeeps
<1> QED
  BY <1>3, <1>4, <1>5 DEF PageDone

(* A fill of the page is known, astray or recorded, and leaves the page.      *)
LEMMA OffThePage ==
    ASSUME NEW T, TradeList(T), NEW l, NEW m, NEW t, Passing(T, l, t), t.pc = "emit", NEW f \in t.rest,
           NEW seen, seen = IdsOf(m), t.seen \subseteq seen,
           f.id \in seen \/ f.order # Orders[t.order].id,
           NEW u, u = [pc |-> "emit", order |-> t.order, page |-> t.page, seen |-> seen,
                       rest |-> t.rest \ {f}, more |-> t.more, attempt |-> t.attempt,
                       clean |-> t.clean, before |-> t.before]
    PROVE  Passing(T, m, u) /\ u.pc = "emit"
<1>1. PageShape(u) /\ u.pc = "emit" /\ u.rest \subseteq t.rest
  BY DEF PageShape
<1>2. \A x \in t.rest : x # f => x \in u.rest
  OBVIOUS
<1>3. /\ u.order = t.order /\ u.page = t.page /\ u.seen = seen /\ u.more = t.more /\ u.clean = t.clean
      /\ u.before = t.before
  OBVIOUS
<1>4. ASSUME NEW k \in 1..t.before, Reached(T, t, k)
      PROVE  Reached(T, u, k)
  <2>1. Len(T) \in Nat
    BY TradeFacts
  <2>2. k \in 1..Len(T)
    BY <2>1 DEF Passing
  <2>3. T[k].id = k
    BY <2>2, TradeFacts
  <2>4. T[k] = f /\ T[k].order = Orders[t.order].id => k \in seen
    BY <2>3
  <2> QED
    BY <1>1, <1>2, <1>3, <1>4, <2>4 DEF Reached
<1> QED
  BY <1>1, <1>3, <1>4 DEF Passing

LEMMA EmitFillKeeps == FillsInv /\ EmitFill => FillsInv'
<1> SUFFICES ASSUME FillsInv, EmitFill
             PROVE  FillsInv'
  OBVIOUS
<1> DEFINE T == trades
<1> DEFINE t == Pass
<1>1. /\ trades' = trades /\ foreign' = foreign /\ caught' = caught /\ compared' = compared
      /\ t.pc = "emit"
  BY DEF EmitFill, venue, history
<1>2. PICK f \in t.rest :
         \/ f.id \in t.seen /\ Becomes(Runtime, [t EXCEPT !.rest = @ \ {f}]) /\ ledger' = ledger
         \/ f.id \notin t.seen /\ Astray(f) /\ ledger' = ledger
            /\ Becomes(Runtime, [t EXCEPT !.rest = @ \ {f}])
         \/ f.id \notin t.seen /\ ~Astray(f) /\ ledger' = Append(ledger, FillRecord(f))
            /\ Becomes(Runtime, [[t EXCEPT !.rest = @ \ {f}] EXCEPT !.seen = RememberFill(f.id)])
         \/ f.id \notin t.seen /\ ~Astray(f) /\ Fails(Runtime, FillRecord(f))
  <2>1. Recorded(Error) = ledger /\ \A f : Recorded(FillRecord(f)) = Append(ledger, FillRecord(f))
    BY DEF Recorded, Error, FillRecord
  <2> QED
    BY <2>1, Zenon DEF EmitFill, Emits
<1>3. /\ Passing(T, ledger, t) /\ TradeList(T) /\ Records(T, ledger) /\ PageShape(t)
      /\ Asked = Orders[t.order].id /\ Runtime \in Procs
  BY <1>1, PassFacts DEF Passing
<1>4. f \in ToSet(T) /\ t.seen = IdsOf(ledger)
  BY <1>3 DEF Passing
<1> DEFINE r == FillRecord(f)
<1>5. ASSUME f.id \notin t.seen, ~Astray(f)
      PROVE  /\ IdsOf(Append(ledger, r)) = IdsOf(ledger) \cup {f.id}
             /\ Grows(T, ledger, T, Append(ledger, r))
             /\ \A by : OfOthers(ledger, Append(ledger, r), by)
             /\ Recorded(r) = Append(ledger, r)
  <2>1. /\ f.id \in 1..Len(T) /\ T[f.id] = f /\ f.size = 1
    BY <1>3, <1>4, TradeFacts
  <2>2. f.order = Asked
    BY <1>5 DEF Astray
  <2>3. /\ r.type = "fill" /\ r.id = f.id /\ r.order = f.order /\ r.action = f.order /\ r.size = 1
        /\ r.product = OrderOf(f.order).product /\ r.side = OrderOf(f.order).side
    BY <2>1, <2>2 DEF FillRecord
  <2> HIDE DEF r, t
  <2>4. FillOk(T, r) /\ r.id \notin IdsOf(ledger)
    BY <1>4, <1>5, <2>1, <2>3 DEF FillOk
  <2> DEFINE m == Append(ledger, r)
  <2>5. /\ Records(T, m) /\ IdsOf(m) = IdsOf(ledger) \cup {r.id}
        /\ Told(m) = Told(ledger) /\ DriftKeys(m) = DriftKeys(ledger)
        /\ DriftsOf(m) = DriftsOf(ledger)
    BY <1>3, <2>3, <2>4, FillRecorded
  <2>6. /\ Len(m) = Len(ledger) + 1 /\ Len(ledger) \in Nat /\ DriftsOf(ledger) \subseteq 1..Len(ledger)
        /\ \A i \in 1..Len(ledger) : m[i] = ledger[i]
    <3>1. IsList(ledger)
      BY <1>3 DEF Records
    <3> QED
      BY <3>1, ListAppend, ListFacts DEF DriftsOf
  <2> HIDE DEF m
  <2>7. /\ \A i \in DriftsOf(m) : (i \in DriftsOf(ledger) /\ m[i] = ledger[i]) \/ i > Len(ledger)
        /\ \A i \in DriftsOf(m) : ~(i > Len(ledger))
        /\ Len(ledger) <= Len(m)
    BY <2>5, <2>6
  <2>8. Grows(T, ledger, T, m)
    BY <1>3, <2>5, <2>7, GrowsByRecord
  <2>9. Recorded(r) = m
    BY <2>3 DEF Recorded, m
  <2> QED
    BY <2>3, <2>5, <2>7, <2>8, <2>9 DEF m, OfOthers
<1>6. Grows(T, ledger, T, ledger) /\ \A by : OfOthers(ledger, ledger, by)
  BY <1>3, GrowsByNothing
<1>7. ASSUME Grows(T, ledger, T, ledger'), \A by : OfOthers(ledger, ledger', by),
             NEW seen, seen = IdsOf(ledger'), t.seen \subseteq seen, f.id \in seen \/ Astray(f),
             NEW u, Becomes(Runtime, u),
             u = [pc |-> "emit", order |-> t.order, page |-> t.page, seen |-> seen,
                  rest |-> t.rest \ {f}, more |-> t.more, attempt |-> t.attempt,
                  clean |-> t.clean, before |-> t.before]
      PROVE  FillsInv'
  <2> DEFINE m == ledger'
  <2>1. f.id \in seen \/ f.order # Orders[t.order].id
    BY <1>3, <1>7 DEF Astray
  <2>2. u = [pc |-> "emit", order |-> t.order, page |-> t.page, seen |-> seen,
             rest |-> t.rest \ {f}, more |-> t.more, attempt |-> t.attempt,
             clean |-> t.clean, before |-> t.before]
    BY <1>7
  <2>3. seen = IdsOf(m) /\ t.seen \subseteq seen
    BY <1>7
  <2> HIDE DEF m, t
  <2>4. Passing(T, m, u) /\ u.pc = "emit"
    BY <1>1, <1>3, <2>1, <2>2, <2>3, OffThePage
  <2>5. TaskIn(T, m, Runtime, u)
    BY <2>4 DEF TaskIn
  <2>6. Caught(T, m, caught')
    BY <1>1, <1>7, CaughtKept DEF FillsInv, m
  <2>7. /\ Grows(trades, ledger, trades, ledger') /\ Caught(trades, ledger', caught')
        /\ TaskIn(trades, ledger', Runtime, u)
        /\ \A q \in Procs : q # Runtime => OfOthers(ledger, ledger', q)
    BY <1>7, <2>5, <2>6 DEF m
  <2> QED
    BY <1>1, <1>3, <1>7, <2>7, StepKeeps
<1>8. [t EXCEPT !.rest = @ \ {f}]
         = [pc |-> "emit", order |-> t.order, page |-> t.page, seen |-> t.seen,
            rest |-> t.rest \ {f}, more |-> t.more, attempt |-> t.attempt,
            clean |-> t.clean, before |-> t.before]
  <2>1. [t EXCEPT !.rest = @ \ {f}] = [t EXCEPT !.rest = t.rest \ {f}]
    OBVIOUS
  <2> HIDE DEF t
  <2> QED
    BY <1>1, <1>3, <2>1 DEF PageShape
<1>9. CASE f.id \in t.seen /\ Becomes(Runtime, [t EXCEPT !.rest = @ \ {f}]) /\ ledger' = ledger
  <2> HIDE DEF t
  <2> QED
    BY <1>4, <1>6, <1>7, <1>8, <1>9
<1>10. CASE f.id \notin t.seen /\ Astray(f) /\ ledger' = ledger
            /\ Becomes(Runtime, [t EXCEPT !.rest = @ \ {f}])
  <2> HIDE DEF t
  <2> QED
    BY <1>4, <1>6, <1>7, <1>8, <1>10
<1>11. CASE f.id \notin t.seen /\ ~Astray(f) /\ ledger' = Append(ledger, FillRecord(f))
            /\ Becomes(Runtime, [[t EXCEPT !.rest = @ \ {f}] EXCEPT !.seen = RememberFill(f.id)])
  <2>1. /\ Grows(T, ledger, T, ledger') /\ IdsOf(ledger') = IdsOf(ledger) \cup {f.id}
        /\ \A by : OfOthers(ledger, ledger', by)
    BY <1>5, <1>11
  <2> DEFINE u == [[t EXCEPT !.rest = @ \ {f}] EXCEPT !.seen = RememberFill(f.id)]
  <2>2. u = [pc |-> "emit", order |-> t.order, page |-> t.page, seen |-> t.seen \cup {f.id},
             rest |-> t.rest \ {f}, more |-> t.more, attempt |-> t.attempt,
             clean |-> t.clean, before |-> t.before]
    <3>1. u = [[t EXCEPT !.rest = @ \ {f}] EXCEPT !.seen = t.seen \cup {f.id}]
      BY DEF RememberFill
    <3> HIDE DEF t, u
    <3> QED
      BY <1>8, <3>1
  <2>3. Becomes(Runtime, u)
    BY <1>11
  <2> HIDE DEF t, u
  <2> QED
    BY <1>4, <1>7, <2>1, <2>2, <2>3
<1>12. CASE f.id \notin t.seen /\ ~Astray(f) /\ Fails(Runtime, FillRecord(f))
  <2>1. Becomes(Runtime, Idle) /\ (ledger' = ledger \/ ledger' = Append(ledger, r))
    BY <1>5, <1>12 DEF Fails
  <2>2. Grows(T, ledger, T, ledger') /\ \A by : OfOthers(ledger, ledger', by)
    BY <1>5, <1>6, <1>12, <2>1
  <2>3. /\ Grows(trades, ledger, trades, ledger') /\ Caught(trades, ledger', caught')
        /\ TaskIn(trades, ledger', Runtime, Idle)
        /\ \A q \in Procs : q # Runtime => OfOthers(ledger, ledger', q)
    BY <1>1, <2>2, CaughtKept, TaskOver DEF FillsInv
  <2> QED
    BY <1>1, <1>3, <2>1, <2>3, StepKeeps
<1> QED
  BY <1>2, <1>9, <1>10, <1>11, <1>12

-----------------------------------------------------------------------------
(* The exchange state.                                                        *)
LEMMA VenuePlaces == Len(Venues) \in Nat /\ Len(Venues) >= 1
<1>1. Venues = <<"fcm">> \/ Venues = <<"fcm", "intx">>
  BY VenueAssumption
<1>2. Len(<<"fcm">>) = 1 /\ Len(<<"fcm", "intx">>) = 2
  OBVIOUS
<1> QED
  BY <1>1, <1>2

LEMMA StartExchangeStateKeeps == \A p \in Procs : FillsInv /\ StartExchangeState(p) => FillsInv'
<1> SUFFICES ASSUME NEW p \in Procs, FillsInv, StartExchangeState(p)
             PROVE  FillsInv'
  OBVIOUS
<1> DEFINE u == [pc |-> "accounts", page |-> 1, attempt |-> 1, looks |-> << >>,
                 bot |-> Projection(ledger).net, fills |-> Projection(ledger).ids,
                 keys |-> DriftKeys(ledger), since |-> Len(ledger)]
<1>1. /\ trades' = trades /\ foreign' = foreign /\ compared' = compared /\ ledger' = ledger /\ caught' = caught
      /\ Becomes(p, u)
  BY DEF StartExchangeState, Starts, venue, history
<1>2. /\ Caught(trades, ledger, caught') /\ Records(trades, ledger) /\ IsList(ledger)
      /\ Replays(trades, Projection(ledger)) /\ Len(ledger) \in Nat
  BY <1>1, ListFacts DEF FillsInv, Records
<1> DEFINE none == << >>
<1>3. IsList(none) /\ Len(none) = 0
  <2>1. << >> \in Seq({}) /\ Len(<< >>) = 0
    OBVIOUS
  <2> QED
    BY <2>1 DEF IsList
<1>4. /\ u.pc = "accounts" /\ u.page = 1 /\ u.bot = Projection(ledger).net /\ u.fills = IdsOf(ledger)
      /\ u.looks = none
      /\ u.keys = DriftKeys(ledger) /\ u.since = Len(ledger) /\ StateShape(u)
  BY DEF StateShape, IdsOf
<1> HIDE DEF u, none
<1>5. Looks(trades, u.looks) /\ Len(u.looks) < Len(Venues)
  BY <1>3, <1>4, VenuePlaces DEF Looks
<1>6. u.bot \in [Products -> Int] /\ \A q \in Products : u.bot[q] = Net(trades, u.fills, q)
  BY <1>2, <1>4 DEF Replays, IdsOf
<1>7. \A i \in DriftsOf(ledger) : Key(ledger[i]) \in u.keys
  BY <1>2, <1>4, KeysOfDrifts
<1>8. u.since \in 0..Len(ledger)
  BY <1>2, <1>4
<1>9. Looking(trades, ledger, p, u)
  BY <1>4, <1>5, <1>6, <1>7, <1>8 DEF Looking
<1>10. TaskIn(trades, ledger, p, u)
  BY <1>4, <1>9 DEF TaskIn
<1> QED
  BY <1>1, <1>2, <1>10, QuietKeeps

LEMMA SnapshotAccountsKeeps == \A p \in Procs : FillsInv /\ SnapshotAccounts(p) => FillsInv'
<1> SUFFICES ASSUME NEW p \in Procs, FillsInv, SnapshotAccounts(p)
             PROVE  FillsInv'
  OBVIOUS
<1> DEFINE t == task[p]
<1> DEFINE on == [t EXCEPT !.pc = "positions", !.attempt = 1]
<1> DEFINE more == [t EXCEPT !.page = @ + 1, !.attempt = 1]
<1>1. /\ trades' = trades /\ foreign' = foreign /\ compared' = compared /\ ledger' = ledger /\ caught' = caught
      /\ t.pc = "accounts" /\ (Becomes(p, on) \/ Becomes(p, more) \/ Becomes(p, Idle))
  <2>1. Recorded([type |-> "balance"]) = ledger /\ Recorded(Error) = ledger
    BY DEF Recorded, Error
  <2> QED
    BY <2>1 DEF SnapshotAccounts, Emits, Fails, venue, history
<1>2. Caught(trades, ledger, caught') /\ TaskIn(trades, ledger, p, t)
  BY <1>1 DEF FillsInv
<1>3. Looking(trades, ledger, p, t)
  BY <1>1, <1>2 DEF TaskIn
<1>4. /\ on = [t EXCEPT !.pc = "positions", !.attempt = 1]
      /\ more = [t EXCEPT !.page = t.page + 1, !.attempt = 1]
  OBVIOUS
<1> HIDE DEF t, on, more
<1>5. /\ on = [pc |-> "positions", page |-> t.page, attempt |-> 1, looks |-> t.looks, bot |-> t.bot,
               fills |-> t.fills, keys |-> t.keys, since |-> t.since]
      /\ more = [pc |-> "accounts", page |-> t.page + 1, attempt |-> 1, looks |-> t.looks, bot |-> t.bot,
                 fills |-> t.fills, keys |-> t.keys, since |-> t.since]
  BY <1>1, <1>3, <1>4 DEF Looking, StateShape
<1>6. StateShape(on) /\ on.pc = "positions" /\ StateShape(more) /\ more.pc = "accounts"
  BY <1>5 DEF StateShape
<1>7. Looking(trades, ledger, p, on) /\ Looking(trades, ledger, p, more)
  BY <1>1, <1>3, <1>5, <1>6 DEF Looking
<1>8. TaskIn(trades, ledger, p, on) /\ TaskIn(trades, ledger, p, more) /\ TaskIn(trades, ledger, p, Idle)
  BY <1>6, <1>7, TaskOver DEF TaskIn
<1> QED
  BY <1>1, <1>2, <1>8, QuietKeeps

(* The venue's positions, its zeros left out.                                 *)
LEMMA NetHeld ==
    ASSUME FillsInv
    PROVE  \A p \in Products : NetOf(p) = Held(trades, Len(trades), foreign, p) /\ NetOf(p) \in Int
<1>1. TradeList(trades) /\ foreign \in [Products -> Int]
  BY DEF FillsInv
<1>2. \A p, side : Traded(p, side) = Moved(trades, 1..Len(trades), p, side)
  BY <1>1, TradeFacts DEF Traded, Moved
<1>3. ASSUME NEW p \in Products
      PROVE  NetOf(p) = Held(trades, Len(trades), foreign, p) /\ NetOf(p) \in Int
  <2> DEFINE B == Cardinality(Moved(trades, 1..Len(trades), p, "buy"))
  <2> DEFINE S == Cardinality(Moved(trades, 1..Len(trades), p, "sell"))
  <2>1. B \in Nat /\ S \in Nat /\ foreign[p] \in Int
    BY <1>1, MovedCount
  <2>2. NetOf(p) = foreign[p] + B - S
    BY <1>2 DEF NetOf
  <2>3. Held(trades, Len(trades), foreign, p) = foreign[p] + (B - S)
    BY DEF Held, Net
  <2> HIDE DEF B, S
  <2> QED
    BY <2>1, <2>2, <2>3
<1> QED
  BY <1>3

LEMMA ActualFacts ==
    ASSUME FillsInv, NEW v
    PROVE  /\ \A x \in ActualPositions(v) : /\ x.product \in Products /\ VenueOf[x.product] = v
                                            /\ x.size = NetOf(x.product) /\ x.size # 0
           /\ \A p \in Products : VenueOf[p] = v /\ NetOf(p) # 0 =>
                 \E x \in ActualPositions(v) : x.product = p
<1> DEFINE V(p) == [product |-> p, contracts |-> Abs(NetOf(p)), side |-> IF NetOf(p) > 0 THEN "LONG" ELSE "SHORT"]
<1> DEFINE A(vp) == [product |-> vp.product, size |-> SignedSize(vp)]
<1>1. ASSUME NEW p \in Products
      PROVE  A(V(p)).product = p /\ A(V(p)).size = NetOf(p)
  <2>1. NetOf(p) \in Int
    BY NetHeld
  <2> QED
    BY <2>1 DEF SignedSize, Abs
<1>2. VenuePositions(v) = {V(p) : p \in {q \in Products : VenueOf[q] = v /\ NetOf(q) # 0}}
  BY DEF VenuePositions
<1>3. ActualPositions(v) = {A(vp) : vp \in VenuePositions(v)}
  BY DEF ActualPositions
<1> HIDE DEF A, V
<1>4. ASSUME NEW x \in ActualPositions(v)
      PROVE  \E p \in Products : VenueOf[p] = v /\ NetOf(p) # 0 /\ x = A(V(p))
  BY <1>2, <1>3
<1>5. ASSUME NEW p \in Products, VenueOf[p] = v, NetOf(p) # 0
      PROVE  A(V(p)) \in ActualPositions(v)
  BY <1>2, <1>3, <1>5
<1> QED
  BY <1>1, <1>4, <1>5

LEMMA LooksAppend ==
    ASSUME NEW T, NEW looks, Looks(T, looks), Len(looks) < Len(Venues),
           NEW look, LookOk(T, Venues[Len(looks) + 1], look)
    PROVE  Looks(T, Append(looks, look)) /\ Len(Append(looks, look)) = Len(looks) + 1
<1> DEFINE n == Len(looks)
<1> DEFINE m == Append(looks, look)
<1>1. IsList(looks)
  BY DEF Looks
<1>2. /\ IsList(m) /\ Len(m) = n + 1 /\ (\A i \in 1..n : m[i] = looks[i]) /\ m[n + 1] = look
      /\ n \in Nat
  BY <1>1, ListAppend, ListFacts
<1>3. \A i \in 1..n : LookOk(T, Venues[i], looks[i])
  BY DEF Looks
<1>4. LookOk(T, Venues[n + 1], look) /\ n < Len(Venues)
  OBVIOUS
<1> HIDE DEF n, m
<1>5. \A i \in 1..Len(m) : i \in 1..n \/ i = n + 1
  BY <1>2
<1>6. Len(m) <= Len(Venues)
  BY <1>2, <1>4, VenuePlaces
<1>7. Looks(T, m)
  BY <1>2, <1>3, <1>4, <1>5, <1>6 DEF Looks
<1> QED
  BY <1>2, <1>7 DEF n, m

LEMMA LookUpPositionsKeeps == \A p \in Procs : FillsInv /\ LookUpPositions(p) => FillsInv'
<1> SUFFICES ASSUME NEW p \in Procs, FillsInv, LookUpPositions(p)
             PROVE  FillsInv'
  OBVIOUS
<1> DEFINE t == task[p]
<1> DEFINE n == Len(t.looks) + 1
<1> DEFINE u(found) == [t EXCEPT !.looks = Append(@, Look(Venues[n], found)),
                                 !.pc = IF n = Len(Venues) THEN "snapshots" ELSE "positions",
                                 !.page = 1, !.attempt = 1]
<1>1. /\ trades' = trades /\ foreign' = foreign /\ compared' = compared /\ ledger' = ledger /\ caught' = caught
      /\ t.pc = "positions"
  BY DEF LookUpPositions, venue, history
<1>2. PICK found \in BOOLEAN : Becomes(p, u(found))
  BY DEF LookUpPositions
<1>3. Caught(trades, ledger, caught') /\ TaskIn(trades, ledger, p, t)
  BY <1>1 DEF FillsInv
<1>4. Looking(trades, ledger, p, t) /\ Looks(trades, t.looks) /\ Len(t.looks) < Len(Venues)
      /\ Len(t.looks) \in Nat
  <2>1. Looking(trades, ledger, p, t)
    BY <1>1, <1>3 DEF TaskIn
  <2>2. IsList(t.looks)
    BY <2>1 DEF Looking, Looks
  <2> QED
    BY <1>1, <2>1, <2>2, ListFacts DEF Looking
<1> DEFINE look == Look(Venues[n], found)
<1>5. LookOk(trades, Venues[n], look)
  <2> DEFINE v == Venues[n]
  <2>1. /\ look = [found |-> look.found, positions |-> look.positions, trades |-> look.trades,
                   foreign |-> look.foreign]
        /\ look.found = found /\ look.positions = (IF found THEN ActualPositions(v) ELSE {})
        /\ look.trades = Len(trades) /\ look.foreign = foreign
    BY DEF Look
  <2> HIDE DEF look, v
  <2>2. Len(trades) \in Nat /\ foreign \in [Products -> Int]
    BY TradeFacts DEF FillsInv
  <2>3. look.trades \in 0..Len(trades)
    BY <2>1, <2>2
  <2>4. look.found => Listed(trades, v, look)
    BY <2>1, NetHeld, ActualFacts DEF Listed
  <2> QED
    BY <2>1, <2>2, <2>3, <2>4 DEF LookOk, v
<1> DEFINE mine == u(found)
<1> DEFINE pc == IF n = Len(Venues) THEN "snapshots" ELSE "positions"
<1>6. mine = [t EXCEPT !.looks = Append(t.looks, look), !.pc = pc, !.page = 1, !.attempt = 1]
  OBVIOUS
<1> DEFINE looks == Append(t.looks, look)
<1>7. Looks(trades, looks) /\ Len(looks) = n
  <2> DEFINE s == t.looks
  <2>1. Looks(trades, s) /\ Len(s) < Len(Venues) /\ LookOk(trades, Venues[Len(s) + 1], look)
    BY <1>4, <1>5
  <2> HIDE DEF s, look
  <2>2. Looks(trades, Append(s, look)) /\ Len(Append(s, look)) = Len(s) + 1
    BY <2>1, LooksAppend
  <2> QED
    BY <2>2 DEF s
<1> HIDE DEF look
<1>8. mine = [pc |-> pc, page |-> 1, attempt |-> 1, looks |-> looks, bot |-> t.bot,
           fills |-> t.fills, keys |-> t.keys, since |-> t.since]
  <2> HIDE DEF t, pc, mine, n
  <2> QED
    BY <1>4, <1>6 DEF Looking, StateShape
<1>9. Becomes(p, mine)
  BY <1>2
<1>10. pc \in {"positions", "snapshots"} /\ (pc = "snapshots" <=> n = Len(Venues)) /\ n \in Nat
       /\ n <= Len(Venues)
  BY <1>4, VenuePlaces
<1> HIDE DEF mine, t, pc, n, looks
<1>11. StateShape(mine) /\ mine.pc = pc
  BY <1>8 DEF StateShape
<1>12. IF mine.pc = "snapshots" THEN Len(mine.looks) = Len(Venues) /\ mine.page \in 1..Len(Venues)
       ELSE Len(mine.looks) < Len(Venues)
  BY <1>7, <1>8, <1>10, <1>11, VenuePlaces
<1>13. Looking(trades, ledger, p, mine)
  BY <1>4, <1>7, <1>8, <1>11, <1>12 DEF Looking
<1>14. TaskIn(trades, ledger, p, mine)
  BY <1>10, <1>11, <1>13 DEF TaskIn
<1> QED
  BY <1>1, <1>3, <1>9, <1>14, QuietKeeps

(* What the lookups listed together is what each venue held when asked.       *)
LEMMA HeldFacts ==
    ASSUME NEW T, TradeList(T), NEW c, Looks(T, c.looks), Len(c.looks) = Len(Venues)
    PROVE  \A p \in Products : HeldOf(T, c, p) \in Int
<1> SUFFICES ASSUME NEW p \in Products
             PROVE  HeldOf(T, c, p) \in Int
  OBVIOUS
<1>1. PICK i \in 1..Len(c.looks) : LookOf(c, p) = c.looks[i]
  BY CompareFacts
<1> DEFINE a == c.looks[i]
<1>2. a.foreign[p] \in Int
  BY DEF Looks, LookOk
<1>3. HeldOf(T, c, p) = a.foreign[p] + Net(T, 1..a.trades, p)
  BY <1>1 DEF HeldOf, Held
<1>4. Net(T, 1..a.trades, p) \in Int
  BY NetFacts
<1> HIDE DEF a
<1> QED
  BY <1>2, <1>3, <1>4

ListedRight(T, c, A) ==
    /\ \A x \in A : /\ x.product \in Products /\ x.size # 0
                    /\ x.size = HeldOf(T, c, x.product)
    /\ \A p \in Products : HeldOf(T, c, p) # 0 => \E x \in A : x.product = p

LEMMA ListedTogether ==
    ASSUME NEW T, TradeList(T), NEW c, Looks(T, c.looks), Len(c.looks) = Len(Venues),
           \A i \in 1..Len(c.looks) : c.looks[i].found,
           NEW A, A = UNION {c.looks[i].positions : i \in DOMAIN c.looks}
    PROVE  ListedRight(T, c, A)
<1>1. DOMAIN c.looks = 1..Len(c.looks)
  <2> DEFINE s == c.looks
  <2>1. IsList(s)
    BY DEF Looks
  <2> HIDE DEF s
  <2>2. DOMAIN s = 1..Len(s)
    BY <2>1, ListFacts
  <2> QED
    BY <2>2 DEF s
<1>2. \A i, j \in 1..Len(c.looks) : Venues[i] = Venues[j] => i = j
  <2>1. \A i, j \in 1..Len(Venues) : Venues[i] = Venues[j] => i = j
    <3>1. CASE Venues = <<"fcm">>
      BY <3>1
    <3>2. CASE Venues = <<"fcm", "intx">>
      BY <3>2
    <3> QED
      BY <3>1, <3>2, VenueAssumption
  <2> QED
    BY <2>1
<1>3. \A i \in 1..Len(c.looks) : Listed(T, Venues[i], c.looks[i])
  BY DEF Looks, LookOk
<1>4. ASSUME NEW x \in A
      PROVE  x.product \in Products /\ x.size # 0 /\ x.size = HeldOf(T, c, x.product)
  <2>1. PICK i \in 1..Len(c.looks) : x \in c.looks[i].positions
    BY <1>1
  <2>2. /\ x.product \in Products /\ VenueOf[x.product] = Venues[i] /\ x.size # 0
        /\ x.size = Held(T, c.looks[i].trades, c.looks[i].foreign, x.product)
    BY <1>3, <2>1 DEF Listed
  <2> DEFINE p == x.product
  <2>3. PICK j \in 1..Len(c.looks) : LookOf(c, p) = c.looks[j] /\ Venues[j] = VenueOf[p]
    BY <2>2, CompareFacts
  <2>4. j = i
    BY <1>2, <2>2, <2>3
  <2> QED
    BY <2>2, <2>3, <2>4 DEF HeldOf
<1>5. ASSUME NEW p \in Products, HeldOf(T, c, p) # 0
      PROVE  \E x \in A : x.product = p
  <2>1. PICK j \in 1..Len(c.looks) : LookOf(c, p) = c.looks[j] /\ Venues[j] = VenueOf[p]
    BY CompareFacts
  <2>2. PICK x \in c.looks[j].positions : x.product = p
    BY <1>3, <1>5, <2>1 DEF Listed, HeldOf
  <2>3. x \in A
    BY <1>1, <2>2
  <2> QED
    BY <2>2, <2>3
<1> QED
  BY <1>4, <1>5 DEF ListedRight

(* The differences: one of a product at most, and of each that differs.       *)
DriftsRight(bot, H, D) ==
    /\ \A d \in D : \E p \in Products : \E issue, v : d = Drift(issue, v, p, bot[p], H[p])
    /\ \A d, e \in D : d.product = e.product => d = e
    /\ \A p \in Products : Abs(bot[p] - H[p]) > Tolerance =>
          \E d \in D : d.product = p /\ d.bot = bot[p] /\ d.exchange = H[p]

LEMMA DriftsFound ==
    ASSUME NEW bot \in [Products -> Int], NEW H \in [Products -> Int], NEW A,
           \A x \in A : x.product \in Products /\ x.size # 0 /\ x.size = H[x.product],
           \A p \in Products : H[p] # 0 => \E x \in A : x.product = p,
           NEW D, D = DriftsOfListed(bot, A) \cup DriftsOfMissing(bot, A)
    PROVE  DriftsRight(bot, H, D)
<1> DEFINE First(p) == Drift("bot_position_missing", VenueOf[p], p, bot[p], H[p])
<1> DEFINE Second(p) == Drift("position_size_drift", VenueOf[p], p, bot[p], H[p])
<1> DEFINE Third(p) == Drift("exchange_position_missing", "unknown", p, bot[p], H[p])
<1>1. /\ \A x \in A : x.product \in Products /\ x.size = H[x.product] /\ H[x.product] # 0
      /\ \A p \in Products : H[p] # 0 => \E x \in A : x.product = p /\ x.size = H[p]
  OBVIOUS
<1>2. ASSUME NEW d \in D
      PROVE  \E p \in Products :
                \/ bot[p] = 0 /\ H[p] # 0 /\ d = First(p)
                \/ bot[p] # 0 /\ H[p] # 0 /\ d = Second(p)
                \/ bot[p] # 0 /\ H[p] = 0 /\ d = Third(p)
  <2>1. CASE \E a \in {x \in A : bot[x.product] = 0} :
                d = Drift("bot_position_missing", VenueOf[a.product], a.product, 0, a.size)
    BY <1>1, <2>1
  <2>2. CASE \E a \in {x \in A : /\ bot[x.product] # 0 /\ Abs(bot[x.product] - x.size) > Tolerance} :
                d = Drift("position_size_drift", VenueOf[a.product], a.product, bot[a.product], a.size)
    BY <1>1, <2>2
  <2>3. CASE \E p \in {q \in Products : bot[q] # 0 /\ \A a \in A : a.product # q} :
                d = Drift("exchange_position_missing", "unknown", p, bot[p], 0)
    <3>1. PICK p \in {q \in Products : bot[q] # 0 /\ \A a \in A : a.product # q} :
                d = Drift("exchange_position_missing", "unknown", p, bot[p], 0)
      BY <2>3
    <3>2. H[p] = 0
      BY <1>1, <3>1
    <3> QED
      BY <3>1, <3>2
  <2> QED
    BY <2>1, <2>2, <2>3 DEF DriftsOfListed, DriftsOfMissing
<1>3. \A p : First(p).product = p /\ Second(p).product = p /\ Third(p).product = p
  BY DEF Drift
<1>4. \A p : /\ First(p).bot = bot[p] /\ First(p).exchange = H[p]
             /\ Second(p).bot = bot[p] /\ Second(p).exchange = H[p]
             /\ Third(p).bot = bot[p] /\ Third(p).exchange = H[p]
  BY DEF Drift
<1>5. ASSUME NEW p \in Products, Abs(bot[p] - H[p]) > Tolerance
      PROVE  First(p) \in D \/ Second(p) \in D \/ Third(p) \in D
  <2>1. CASE bot[p] = 0
    <3>1. H[p] # 0
      BY <1>5, <2>1, ToleranceAssumption DEF Abs
    <3>2. PICK a \in A : a.product = p /\ a.size = H[p]
      BY <1>1, <3>1
    <3>3. First(p) \in DriftsOfListed(bot, A)
      BY <2>1, <3>2 DEF DriftsOfListed
    <3> QED
      BY <3>3
  <2>2. CASE bot[p] # 0 /\ H[p] # 0
    <3>1. PICK a \in A : a.product = p /\ a.size = H[p]
      BY <1>1, <2>2
    <3>2. Second(p) \in DriftsOfListed(bot, A)
      BY <1>5, <2>2, <3>1 DEF DriftsOfListed
    <3> QED
      BY <3>2
  <2>3. CASE bot[p] # 0 /\ H[p] = 0
    <3>1. \A a \in A : a.product # p
      BY <1>1, <2>3
    <3>2. Third(p) \in DriftsOfMissing(bot, A)
      BY <2>3, <3>1 DEF DriftsOfMissing
    <3> QED
      BY <3>2
  <2> QED
    BY <2>1, <2>2, <2>3
<1>6. \A d, e \in D : d.product = e.product => d = e
  <2> HIDE DEF First, Second, Third
  <2>1. \A d \in D :
           \/ bot[d.product] = 0 /\ H[d.product] # 0 /\ d = First(d.product)
           \/ bot[d.product] # 0 /\ H[d.product] # 0 /\ d = Second(d.product)
           \/ bot[d.product] # 0 /\ H[d.product] = 0 /\ d = Third(d.product)
    BY <1>2, <1>3
  <2> SUFFICES ASSUME NEW d \in D, NEW e \in D, d.product = e.product
               PROVE  d = e
    OBVIOUS
  <2> DEFINE p == d.product
  <2>2. \/ bot[p] = 0 /\ H[p] # 0 /\ d = First(p)
        \/ bot[p] # 0 /\ H[p] # 0 /\ d = Second(p)
        \/ bot[p] # 0 /\ H[p] = 0 /\ d = Third(p)
    BY <2>1
  <2>0. e.product = p
    OBVIOUS
  <2>3. \/ bot[p] = 0 /\ H[p] # 0 /\ e = First(p)
        \/ bot[p] # 0 /\ H[p] # 0 /\ e = Second(p)
        \/ bot[p] # 0 /\ H[p] = 0 /\ e = Third(p)
    BY <2>0, <2>1, Zenon
  <2> HIDE DEF p
  <2> QED
    BY <2>2, <2>3
<1>7. \A d \in D : \E p \in Products : \E issue, v : d = Drift(issue, v, p, bot[p], H[p])
  <2> SUFFICES ASSUME NEW d \in D
               PROVE  \E p \in Products : \E issue, v : d = Drift(issue, v, p, bot[p], H[p])
    OBVIOUS
  <2>1. PICK p \in Products : d = First(p) \/ d = Second(p) \/ d = Third(p)
    BY <1>2
  <2> QED
    BY <2>1, Zenon
<1>8. \A p \in Products : Abs(bot[p] - H[p]) > Tolerance =>
                 \E d \in D : d.product = p /\ d.bot = bot[p] /\ d.exchange = H[p]
  <2> SUFFICES ASSUME NEW p \in Products, Abs(bot[p] - H[p]) > Tolerance
               PROVE  \E d \in D : d.product = p /\ d.bot = bot[p] /\ d.exchange = H[p]
    OBVIOUS
  <2> HIDE DEF First, Second, Third
  <2> QED
    BY <1>3, <1>4, <1>5
<1> QED
  BY <1>6, <1>7, <1>8 DEF DriftsRight

LEMMA AnnotatedFields ==
    ASSUME NEW issue, NEW v, NEW q, NEW b, NEW x, NEW by, NEW t, NEW e,
           e = Annotated(Drift(issue, v, q, b, x), by, t)
    PROVE  /\ e.type = "drift" /\ e.issue = issue /\ e.product = q /\ e.bot = b /\ e.exchange = x
           /\ e.by = by /\ e.since = t.since
           /\ e.told = (t.fills = 1..LookOf(t, q).trades)
           /\ e.foreign = LookOf(t, q).foreign[q]
  BY DEF Drift, Annotated

(* What a difference is when every trade of the lookup was on record.         *)
LEMMA ToldTruly ==
    ASSUME NEW T, TradeList(T), NEW t, Looks(T, t.looks), Len(t.looks) = Len(Venues), NEW q \in Products,
           t.fills = 1..LookOf(t, q).trades
    PROVE  HeldOf(T, t, q) - Net(T, t.fills, q) = LookOf(t, q).foreign[q]
<1>1. PICK i \in 1..Len(t.looks) : LookOf(t, q) = t.looks[i]
  BY CompareFacts
<1>2. LookOf(t, q).foreign[q] \in Int
  BY <1>1 DEF Looks, LookOk
<1>3. HeldOf(T, t, q) = LookOf(t, q).foreign[q] + Net(T, t.fills, q)
  BY DEF HeldOf, Held
<1>4. Net(T, t.fills, q) \in Int
  BY NetFacts
<1> QED
  BY <1>2, <1>3, <1>4

(* What is about to be recorded is the truth of what was read and looked up.  *)
LEMMA CompareRight ==
    ASSUME NEW T, TradeList(T), NEW l, NEW by, NEW t, Looking(T, l, by, t), Len(t.looks) = Len(Venues),
           \A i \in 1..Len(t.looks) : t.looks[i].found,
           NEW u, u = [pc |-> "drifts", todo |-> Compare(by, t), keys |-> t.keys, since |-> t.since,
                       before |-> [fills |-> t.fills, looks |-> t.looks]]
    PROVE  Comparing(T, l, by, u)
<1> DEFINE c == u.before
<1> DEFINE H == [q \in Products |-> HeldOf(T, t, q)]
<1> DEFINE A == UNION {t.looks[i].positions : i \in DOMAIN t.looks}
<1> DEFINE D == DriftsOfListed(t.bot, A) \cup DriftsOfMissing(t.bot, A)
<1>1. /\ t.bot \in [Products -> Int] /\ (\A q \in Products : t.bot[q] = Net(T, t.fills, q))
      /\ Looks(T, t.looks) /\ t.fills \subseteq IdsOf(l)
  BY DEF Looking
<1>2. \A q \in Products : HeldOf(T, t, q) \in Int
  BY <1>1, HeldFacts
<1>3. H \in [Products -> Int] /\ \A q \in Products : H[q] = HeldOf(T, t, q)
  BY <1>2
<1>4. ListedRight(T, t, A)
  BY <1>1, ListedTogether
<1>5. u.todo = {Annotated(d, by, t) : d \in D}
  BY DEF Compare
<1>6. /\ u.pc = "drifts" /\ u.keys = t.keys /\ u.since = t.since /\ c.fills = t.fills /\ c.looks = t.looks
      /\ u = [pc |-> u.pc, todo |-> u.todo, keys |-> u.keys, since |-> u.since, before |-> u.before]
  OBVIOUS
<1> DEFINE bot == t.bot
<1>0. u.before = c
  OBVIOUS
<1> HIDE DEF c
<1>7. DriftsRight(bot, H, D)
  <2>1. D = DriftsOfListed(bot, A) \cup DriftsOfMissing(bot, A) /\ bot \in [Products -> Int]
    BY <1>1
  <2> HIDE DEF D, A, H, bot
  <2>2. \A x \in A : x.product \in Products /\ x.size # 0 /\ x.size = H[x.product]
    BY <1>3, <1>4 DEF ListedRight
  <2>3. \A p \in Products : H[p] # 0 => \E x \in A : x.product = p
    BY <1>3, <1>4 DEF ListedRight
  <2> QED
    BY <1>3, <2>1, <2>2, <2>3, DriftsFound
<1> HIDE DEF D, A, H
<1>8. ASSUME NEW d \in D
      PROVE  LET e == Annotated(d, by, t)
             IN  /\ e.type = "drift" /\ e.product = d.product /\ e.bot = d.bot /\ e.exchange = d.exchange
                 /\ e.by = by /\ e.since = t.since /\ DriftOk(e)
  <2>0. PICK q \in Products : \E issue, v : d = Drift(issue, v, q, bot[q], H[q])
    BY <1>7, Zenon DEF DriftsRight
  <2>1. PICK issue, v : d = Drift(issue, v, q, bot[q], H[q])
    BY <2>0, Zenon
  <2> DEFINE e == Annotated(d, by, t)
  <2>2. /\ e.type = "drift" /\ e.product = q /\ e.bot = bot[q] /\ e.exchange = H[q]
        /\ e.by = by /\ e.since = t.since
        /\ e.told = (t.fills = 1..LookOf(t, q).trades)
        /\ e.foreign = LookOf(t, q).foreign[q]
    <3> HIDE DEF bot, e
    <3> QED
      BY <2>1, AnnotatedFields DEF e
  <2>3. d.product = q /\ d.bot = bot[q] /\ d.exchange = H[q]
    BY <2>1 DEF Drift
  <2> HIDE DEF e
  <2>4. DriftOk(e)
    <3> SUFFICES ASSUME t.fills = 1..LookOf(t, q).trades
                 PROVE  e.exchange - e.bot = e.foreign
      BY <2>2 DEF DriftOk
    <3>1. HeldOf(T, t, q) - Net(T, t.fills, q) = LookOf(t, q).foreign[q]
      BY <1>1, ToldTruly
    <3> QED
      BY <1>1, <1>3, <2>2, <3>1
  <2> QED
    BY <2>2, <2>3, <2>4 DEF e
<1>9. \A x, y \in u.todo : Key(x) = Key(y) => x = y
  <2> SUFFICES ASSUME NEW d \in D, NEW e \in D, Key(Annotated(d, by, t)) = Key(Annotated(e, by, t))
               PROVE  d = e
    BY <1>5
  <2>1. Annotated(d, by, t).product = Annotated(e, by, t).product
    BY DEF Key
  <2> QED
    BY <1>7, <1>8, <2>1 DEF DriftsRight
<1>10. \A x \in u.todo : x.type = "drift" /\ DriftOk(x) /\ x.by = by /\ x.since = u.since
  BY <1>5, <1>6, <1>8
<1>11. \A i \in DriftsOf(l) : \A d \in u.todo :
          Key(l[i]) = Key(d) /\ Key(d) \notin u.keys => i > u.since /\ l[i].by # by
  BY <1>6 DEF Looking
<1>12. Past(T, l, c)
  BY <1>1, <1>6 DEF Past
<1>13. Covers(T, l, c, u.todo)
  <2>1. \A q \in Products : HeldOf(T, c, q) = H[q] /\ Net(T, c.fills, q) = bot[q]
    BY <1>1, <1>3, <1>6 DEF HeldOf, LookOf
  <2> SUFFICES ASSUME NEW q \in Products, Abs(bot[q] - H[q]) > Tolerance
               PROVE  \E x \in Told(l) \cup u.todo : Tells(x, q, bot[q], H[q])
    BY <2>1 DEF Covers
  <2>2. PICK d \in D : d.product = q /\ d.bot = bot[q] /\ d.exchange = H[q]
    BY <1>7 DEF DriftsRight
  <2>3. Annotated(d, by, t) \in u.todo /\ Tells(Annotated(d, by, t), q, bot[q], H[q])
    BY <1>5, <1>8, <2>2 DEF Tells
  <2> QED
    BY <2>3
<1>14. u.since \in 0..Len(l) /\ u.keys \subseteq DriftKeys(l)
  BY <1>6 DEF Looking
<1> QED
  BY <1>0, <1>6, <1>9, <1>10, <1>11, <1>12, <1>13, <1>14 DEF Comparing

LEMMA LooksFail ==
    ASSUME NEW T, NEW looks, Looks(T, looks), NEW n \in 1..Len(looks)
    PROVE  LET failed == [looks EXCEPT ![n].found = FALSE]
           IN  Looks(T, failed) /\ Len(failed) = Len(looks) /\ ~failed[n].found
<1> DEFINE a == [looks[n] EXCEPT !.found = FALSE]
<1> DEFINE m == [looks EXCEPT ![n] = a]
<1>1. [looks EXCEPT ![n].found = FALSE] = m
  OBVIOUS
<1>2. PICK S : looks \in Seq(S)
  BY DEF Looks, IsList
<1>3. \A i \in 1..Len(looks) : LookOk(T, Venues[i], looks[i])
  BY DEF Looks
<1>4. LookOk(T, Venues[n], a) /\ ~a.found
  <2> DEFINE b == looks[n]
  <2>1. LookOk(T, Venues[n], b)
    BY <1>3
  <2>2. a = [b EXCEPT !.found = FALSE]
    OBVIOUS
  <2> HIDE DEF a, b
  <2>3. a = [found |-> FALSE, positions |-> b.positions, trades |-> b.trades, foreign |-> b.foreign]
    BY <2>1, <2>2 DEF LookOk
  <2> QED
    BY <2>1, <2>3 DEF LookOk
<1> HIDE DEF a
<1>5. m \in Seq(S \cup {a}) /\ Len(m) = Len(looks) /\ m[n] = a
      /\ \A i \in 1..Len(looks) : i # n => m[i] = looks[i]
  BY <1>2
<1> HIDE DEF m
<1>6. IsList(m)
  BY <1>5 DEF IsList
<1>7. Len(m) <= Len(Venues)
  BY <1>5 DEF Looks
<1>8. Looks(T, m)
  BY <1>3, <1>4, <1>5, <1>6, <1>7 DEF Looks
<1> QED
  BY <1>1, <1>4, <1>5, <1>8

(* The next lookup's snapshots, the end with an error, or the comparison.     *)
LEMMA SnappedKeeps ==
    ASSUME FillsInv, NEW p \in Procs, task[p].pc = "snapshots",
           NEW s, Looks(trades, s), Len(s) = Len(Venues)
    PROVE  TaskIn(trades, ledger, p, Snapped(p, s))
<1> DEFINE t == task[p]
<1> DEFINE on == [t EXCEPT !.looks = s]
<1> DEFINE more == [on EXCEPT !.page = @ + 1]
<1> DEFINE u == [pc |-> "drifts", todo |-> Compare(p, on), keys |-> on.keys,
                 since |-> on.since, before |-> [fills |-> on.fills, looks |-> s]]
<1>1. Snapped(p, s) = IF on.page < Len(Venues) THEN more
                      ELSE IF \E i \in DOMAIN s : ~s[i].found THEN Idle ELSE u
  BY DEF Snapped
<1>2. Looking(trades, ledger, p, t) /\ t.page \in 1..Len(Venues) /\ TradeList(trades) /\ t.pc = "snapshots"
  BY DEF FillsInv, TaskIn, Looking
<1>3. more = [on EXCEPT !.page = on.page + 1]
  OBVIOUS
<1>4. on = [t EXCEPT !.looks = s]
  OBVIOUS
<1> HIDE DEF t, on, more
<1>5. on = [pc |-> "snapshots", page |-> t.page, attempt |-> t.attempt, looks |-> s, bot |-> t.bot,
            fills |-> t.fills, keys |-> t.keys, since |-> t.since]
  BY <1>2, <1>4 DEF Looking, StateShape
<1>6. StateShape(on) /\ on.pc = "snapshots"
  BY <1>5 DEF StateShape
<1>7. Looking(trades, ledger, p, on)
  BY <1>2, <1>5, <1>6 DEF Looking
<1>8. CASE on.page < Len(Venues)
  <2>1. more = [pc |-> "snapshots", page |-> on.page + 1, attempt |-> on.attempt, looks |-> s, bot |-> on.bot,
                fills |-> on.fills, keys |-> on.keys, since |-> on.since]
    BY <1>3, <1>5
  <2>2. StateShape(more) /\ more.pc = "snapshots"
    BY <2>1 DEF StateShape
  <2>3. more.page \in 1..Len(Venues) /\ more.page \in Nat
    BY <1>2, <1>5, <1>8, <2>1, VenuePlaces
  <2>4. Looking(trades, ledger, p, more)
    BY <1>5, <1>6, <1>7, <2>1, <2>2, <2>3 DEF Looking
  <2>5. TaskIn(trades, ledger, p, more)
    BY <2>2, <2>4 DEF TaskIn
  <2> QED
    BY <1>1, <1>8, <2>5
<1>9. CASE ~(on.page < Len(Venues)) /\ \E i \in DOMAIN s : ~s[i].found
  BY <1>1, <1>9, TaskOver
<1>10. CASE ~(on.page < Len(Venues)) /\ ~\E i \in DOMAIN s : ~s[i].found
  <2>1. DOMAIN s = 1..Len(s)
    BY ListFacts DEF Looks
  <2>2. /\ Len(on.looks) = Len(Venues) /\ on.looks = s
        /\ \A i \in 1..Len(on.looks) : on.looks[i].found
    BY <1>5, <1>10, <2>1
  <2>3. u = [pc |-> "drifts", todo |-> Compare(p, on), keys |-> on.keys, since |-> on.since,
             before |-> [fills |-> on.fills, looks |-> on.looks]]
    BY <2>2
  <2>0. u.pc = "drifts"
    OBVIOUS
  <2> HIDE DEF u
  <2>4. Comparing(trades, ledger, p, u)
    BY <1>2, <1>7, <2>2, <2>3, CompareRight
  <2>5. TaskIn(trades, ledger, p, u)
    BY <2>0, <2>4 DEF TaskIn
  <2> QED
    BY <1>1, <1>10, <2>5
<1> QED
  BY <1>8, <1>9, <1>10

LEMMA SnapshotPositionsKeeps == \A p \in Procs : FillsInv /\ SnapshotPositions(p) => FillsInv'
<1> SUFFICES ASSUME NEW p \in Procs, FillsInv, SnapshotPositions(p)
             PROVE  FillsInv'
  OBVIOUS
<1> DEFINE s == task[p].looks
<1> DEFINE n == task[p].page
<1> DEFINE failed == [s EXCEPT ![n].found = FALSE]
<1>1. /\ trades' = trades /\ foreign' = foreign /\ compared' = compared /\ ledger' = ledger /\ caught' = caught
      /\ task[p].pc = "snapshots"
      /\ Becomes(p, Snapped(p, s)) \/ Becomes(p, Snapped(p, failed)) \/ Becomes(p, Idle)
  <2>1. Recorded([type |-> "position"]) = ledger /\ Recorded(Error) = ledger
    BY DEF Recorded, Error
  <2> QED
    BY <2>1 DEF SnapshotPositions, Emits, Fails, venue, history
<1>2. Looks(trades, s) /\ Len(s) = Len(Venues) /\ n \in 1..Len(s)
  BY <1>1 DEF FillsInv, TaskIn, Looking
<1> HIDE DEF s, n
<1>3. Looks(trades, failed) /\ Len(failed) = Len(Venues)
  BY <1>2, LooksFail
<1> HIDE DEF failed
<1>4. /\ TaskIn(trades, ledger, p, Snapped(p, s)) /\ TaskIn(trades, ledger, p, Snapped(p, failed))
      /\ TaskIn(trades, ledger, p, Idle) /\ Caught(trades, ledger, caught')
  BY <1>1, <1>2, <1>3, SnappedKeeps, TaskOver DEF FillsInv
<1> QED
  BY <1>1, <1>4, QuietKeeps

(* A difference leaves the list when it is on record.                         *)
LEMMA OffTheList ==
    ASSUME NEW T, NEW l, NEW m, Grows(T, l, T, m), NEW by, NEW t, Comparing(T, l, by, t), NEW d \in t.todo,
           \E e \in Told(m) : Key(e) = Key(d),
           \A i \in DriftsOf(m) : i > Len(l) => Key(m[i]) = Key(d),
           NEW u, u = [pc |-> "drifts", todo |-> t.todo \ {d}, keys |-> t.keys, since |-> t.since,
                       before |-> t.before]
    PROVE  Comparing(T, m, by, u) /\ u.pc = "drifts"
<1>1. u = [pc |-> u.pc, todo |-> u.todo, keys |-> u.keys, since |-> u.since, before |-> u.before]
      /\ u.pc = "drifts"
  OBVIOUS
<1>2. u.todo = t.todo \ {d} /\ u.keys = t.keys /\ u.since = t.since /\ u.before = t.before
  OBVIOUS
<1>3. Past(T, m, u.before)
  BY <1>2, PastKept DEF Comparing
<1>4. Covers(T, m, u.before, u.todo)
  <2>1. \A x \in t.todo : x \in u.todo \/ \E e \in Told(m) : Key(e) = Key(x)
    BY <1>2
  <2>2. Past(T, l, t.before) /\ Covers(T, l, t.before, t.todo)
    BY DEF Comparing
  <2>3. Covers(T, m, t.before, u.todo)
    BY <2>1, <2>2, CoversKept
  <2> QED
    BY <1>2, <2>3
<1>5. \A i \in DriftsOf(m) : \A x \in u.todo :
         Key(m[i]) = Key(x) /\ Key(x) \notin u.keys => i > u.since /\ m[i].by # by
  <2> SUFFICES ASSUME NEW i \in DriftsOf(m), NEW x \in u.todo, Key(m[i]) = Key(x), Key(x) \notin u.keys
               PROVE  i > u.since /\ m[i].by # by
    OBVIOUS
  <2>1. Key(x) # Key(d) /\ x \in t.todo
    BY <1>2 DEF Comparing
  <2>2. i \in DriftsOf(l) /\ m[i] = l[i]
    BY <2>1 DEF Grows
  <2> QED
    BY <1>2, <2>1, <2>2 DEF Comparing
<1>6. /\ u.since \in 0..Len(m) /\ u.keys \subseteq DriftKeys(m)
      /\ \A x, y \in u.todo : Key(x) = Key(y) => x = y
      /\ \A x \in u.todo : x.type = "drift" /\ DriftOk(x) /\ x.by = by /\ x.since = u.since
  BY <1>2, GrowthFacts DEF Comparing, Grows
<1> QED
  BY <1>1, <1>3, <1>4, <1>5, <1>6 DEF Comparing

LEMMA EmitDriftKeeps == \A p \in Procs : FillsInv /\ EmitDrift(p) => FillsInv'
<1> SUFFICES ASSUME NEW p \in Procs, FillsInv, EmitDrift(p)
             PROVE  FillsInv'
  OBVIOUS
<1> DEFINE T == trades
<1> DEFINE t == task[p]
<1>1. /\ trades' = trades /\ foreign' = foreign /\ caught' = caught /\ compared' = compared
      /\ t.pc = "drifts"
  BY DEF EmitDrift, venue, history
<1>2. /\ Comparing(T, ledger, p, t) /\ TradeList(T) /\ Records(T, ledger) /\ IsList(ledger)
      /\ Len(ledger) \in Nat /\ Caught(T, ledger, caught)
  BY <1>1, ListFacts DEF FillsInv, TaskIn, Records
<1>3. PICK d \in t.todo :
         \/ OnRecord(p, d) /\ Becomes(p, [t EXCEPT !.todo = @ \ {d}]) /\ ledger' = ledger
         \/ ~OnRecord(p, d) /\ ledger' = Append(ledger, d) /\ Becomes(p, [t EXCEPT !.todo = @ \ {d}])
         \/ ~OnRecord(p, d) /\ Becomes(p, Idle) /\ (ledger' = ledger \/ ledger' = Append(ledger, d))
  <2>1. \A d \in t.todo : d.type = "drift"
    BY <1>2 DEF Comparing
  <2>2. \A d \in t.todo : Recorded(d) = Append(ledger, d)
    BY <2>1 DEF Recorded
  <2>3. PICK d \in t.todo :
           \/ OnRecord(p, d) /\ Becomes(p, [t EXCEPT !.todo = @ \ {d}]) /\ ledger' = ledger
           \/ ~OnRecord(p, d) /\ Emits(d) /\ Becomes(p, [t EXCEPT !.todo = @ \ {d}])
           \/ ~OnRecord(p, d) /\ Fails(p, d)
    BY Zenon DEF EmitDrift
  <2>4. Recorded(d) = Append(ledger, d)
    BY <2>2
  <2>5. /\ Emits(d) => ledger' = Append(ledger, d)
        /\ Fails(p, d) => Becomes(p, Idle) /\ (ledger' = ledger \/ ledger' = Append(ledger, d))
    BY <2>4 DEF Emits, Fails
  <2> QED
    BY <2>3, <2>5, Zenon
<1> DEFINE u == [t EXCEPT !.todo = @ \ {d}]
<1>4. u = [t EXCEPT !.todo = t.todo \ {d}]
  OBVIOUS
<1> HIDE DEF t, u
<1>5. u = [pc |-> "drifts", todo |-> t.todo \ {d}, keys |-> t.keys, since |-> t.since, before |-> t.before]
  BY <1>1, <1>2, <1>4 DEF Comparing
<1>6. ASSUME ~OnRecord(p, d)
      PROVE  LET m == Append(ledger, d)
             IN  /\ Grows(T, ledger, T, m) /\ d \in Told(m) /\ IdsOf(m) = IdsOf(ledger)
                 /\ \A i \in DriftsOf(m) : i > Len(ledger) => m[i] = d
                 /\ \A q \in Procs : q # p => OfOthers(ledger, m, q)
  <2>1. d.type = "drift" /\ DriftOk(d) /\ d.by = p /\ d.since = t.since
    BY <1>2 DEF Comparing
  <2>2. Key(d) \notin t.keys
    BY <1>6 DEF OnRecord, t
  <2>3. \A i \in DriftsOf(ledger) : Key(ledger[i]) = Key(d) => ledger[i].by # d.by /\ d.since < i
    <3> SUFFICES ASSUME NEW i \in DriftsOf(ledger), Key(ledger[i]) = Key(d)
                 PROVE  ledger[i].by # d.by /\ d.since < i
      OBVIOUS
    <3>1. i > t.since /\ ledger[i].by # p
      BY <1>2, <2>2 DEF Comparing
    <3> QED
      BY <2>1, <3>1
  <2> DEFINE m == Append(ledger, d)
  <2>4. /\ Records(T, m) /\ Projection(m) = Projection(ledger)
        /\ Told(m) = Told(ledger) \cup {d}
        /\ DriftKeys(m) = DriftKeys(ledger) \cup {Key(d)}
        /\ DriftsOf(m) = DriftsOf(ledger) \cup {Len(ledger) + 1}
    BY <1>2, <2>1, <2>3, DriftRecorded
  <2>5. /\ Len(m) = Len(ledger) + 1 /\ DriftsOf(ledger) \subseteq 1..Len(ledger)
        /\ \A i \in 1..Len(ledger) : m[i] = ledger[i]
        /\ m[Len(ledger) + 1] = d
    BY <1>2, ListAppend, ListFacts DEF DriftsOf
  <2> HIDE DEF m
  <2>6. /\ \A i \in DriftsOf(m) : (i \in DriftsOf(ledger) /\ m[i] = ledger[i]) \/ i > Len(ledger)
        /\ \A i \in DriftsOf(m) : i > Len(ledger) => m[i] = d
        /\ Len(ledger) <= Len(m)
    BY <1>2, <2>4, <2>5
  <2>7. IdsOf(m) = IdsOf(ledger)
    BY <2>4 DEF IdsOf
  <2>8. Grows(T, ledger, T, m)
    BY <1>2, <2>4, <2>6, <2>7, GrowsByRecord
  <2>9. \A q \in Procs : q # p => OfOthers(ledger, m, q)
    BY <2>1, <2>6 DEF OfOthers
  <2> QED
    BY <2>4, <2>6, <2>7, <2>8, <2>9 DEF m
<1>7. ASSUME Grows(T, ledger, T, ledger'), IdsOf(ledger') = IdsOf(ledger),
             \E e \in Told(ledger') : Key(e) = Key(d),
             \A i \in DriftsOf(ledger') : i > Len(ledger) => Key(ledger'[i]) = Key(d),
             \A q \in Procs : q # p => OfOthers(ledger, ledger', q),
             Becomes(p, u)
      PROVE  FillsInv'
  <2> DEFINE m == ledger'
  <2>1. /\ Grows(T, ledger, T, m) /\ (\E e \in Told(m) : Key(e) = Key(d))
        /\ \A i \in DriftsOf(m) : i > Len(ledger) => Key(m[i]) = Key(d)
    BY <1>7
  <2> HIDE DEF m
  <2>2. Comparing(T, m, p, u) /\ u.pc = "drifts"
    BY <1>2, <1>5, <2>1, OffTheList
  <2>3. TaskIn(T, m, p, u) /\ Caught(T, m, caught)
    BY <1>2, <2>1, <2>2, CaughtKept DEF TaskIn
  <2>4. TaskIn(trades, ledger', p, u) /\ Caught(trades, ledger', caught')
    BY <1>1, <2>3 DEF m
  <2> QED
    BY <1>1, <1>7, <2>4, StepKeeps
<1>8. CASE OnRecord(p, d) /\ Becomes(p, [t EXCEPT !.todo = @ \ {d}]) /\ ledger' = ledger
  <2>1. Grows(T, ledger, T, ledger) /\ \A by : OfOthers(ledger, ledger, by)
    BY <1>2, GrowsByNothing
  <2>2. Key(d) \in DriftKeys(ledger)
    BY <1>2, <1>8 DEF Comparing, OnRecord, t
  <2>3. \E e \in Told(ledger) : Key(e) = Key(d)
    BY <1>2, <2>2, KeysOfDrifts
  <2>4. \A i \in DriftsOf(ledger) : ~(i > Len(ledger))
    BY <1>2, ListFacts DEF DriftsOf
  <2>5. Becomes(p, u)
    BY <1>8 DEF u
  <2> QED
    BY <1>7, <1>8, <2>1, <2>3, <2>4, <2>5
<1>9. CASE ~OnRecord(p, d) /\ ledger' = Append(ledger, d) /\ Becomes(p, [t EXCEPT !.todo = @ \ {d}])
  <2>1. Becomes(p, u)
    BY <1>9 DEF u
  <2> QED
    BY <1>6, <1>7, <1>9, <2>1
<1>10. CASE ~OnRecord(p, d) /\ Becomes(p, Idle) /\ (ledger' = ledger \/ ledger' = Append(ledger, d))
  <2>1. Grows(T, ledger, T, ledger) /\ \A by : OfOthers(ledger, ledger, by)
    BY <1>2, GrowsByNothing
  <2>2. /\ Grows(T, ledger, T, ledger') /\ IdsOf(ledger') = IdsOf(ledger)
        /\ \A q \in Procs : q # p => OfOthers(ledger, ledger', q)
    BY <1>6, <1>10, <2>1
  <2>3. TaskIn(trades, ledger', p, Idle) /\ Caught(trades, ledger', caught')
    BY <1>1, <1>2, <2>2, TaskOver, CaughtKept
  <2> QED
    BY <1>1, <1>10, <2>2, <2>3, StepKeeps
<1> QED
  BY <1>3, <1>8, <1>9, <1>10

LEMMA DriftsDoneKeeps == \A p \in Procs : FillsInv /\ DriftsDone(p) => FillsInv'
<1> SUFFICES ASSUME NEW p \in Procs, FillsInv, DriftsDone(p)
             PROVE  FillsInv'
  OBVIOUS
<1> DEFINE t == task[p]
<1>1. /\ trades' = trades /\ foreign' = foreign /\ caught' = caught /\ compared' = t.before
      /\ t.pc = "drifts" /\ t.todo = {} /\ ledger' = ledger /\ task' = [task EXCEPT ![p] = Idle]
  BY DEF DriftsDone, venue, Becomes
<1>2. Past(trades, ledger, t.before) /\ Covers(trades, ledger, t.before, {})
  <2>1. TaskIn(trades, ledger, p, t)
    BY DEF FillsInv
  <2> QED
    BY <1>1, <2>1 DEF TaskIn, Comparing
<1>3. ComparedIn(trades, ledger, compared')
  BY <1>1, <1>2 DEF ComparedIn
<1> HIDE DEF t
<1>4. /\ task' = [q \in Procs |-> task'[q]]
      /\ \A q \in Procs : task'[q] = IF q = p THEN Idle ELSE task[q]
  BY <1>1 DEF FillsInv
<1>5. \A q \in Procs : TaskIn(trades, ledger, q, task'[q])
  BY <1>4, TaskOver DEF FillsInv
<1> QED
  BY <1>1, <1>3, <1>4, <1>5 DEF FillsInv

-----------------------------------------------------------------------------
LEMMA FillsInit == FInit => FillsInv
<1> SUFFICES ASSUME FInit
             PROVE  FillsInv
  OBVIOUS
<1>1. /\ trades = << >> /\ foreign = [p \in Products |-> 0] /\ ledger = << >>
      /\ task = [p \in Procs |-> Idle]
      /\ caught = 0 /\ compared = Never
  BY DEF FInit
<1>2. IsList(<< >>) /\ Len(<< >>) = 0 /\ DOMAIN << >> = {}
  <2>1. << >> \in Seq({}) /\ Len(<< >>) = 0 /\ DOMAIN << >> = 1..0
    OBVIOUS
  <2>2. IsList(<< >>)
    BY <2>1 DEF IsList
  <2> QED
    BY <2>1, <2>2
<1> DEFINE e == << >>
<1>3. Projection(e) = NoFills
  BY ProjectionEmpty
<1>4. e = trades /\ e = ledger
  BY <1>1
<1> HIDE DEF e
<1>5. IsList(e) /\ Len(e) = 0 /\ DOMAIN e = {}
  BY <1>2 DEF e
<1>6. TradeList(e)
  BY <1>5 DEF TradeList
<1>7. FillsOf(e) = {} /\ DriftsOf(e) = {}
  BY <1>5 DEF FillsOf, DriftsOf
<1>8. Replays(e, NoFills)
  <2>1. \A p, side : Moved(e, {}, p, side) = {}
    BY DEF Moved
  <2>2. \A o : Filled(e, {}, o) = {}
    BY DEF Filled
  <2>3. Cardinality({}) = 0
    BY FS_EmptySet
  <2>4. NoFills.ids = {} /\ NoFills.net = [p \in Products |-> 0] /\ NoFills.filled = [o \in OrderIds |-> 0]
        /\ NoFills = [ids |-> NoFills.ids, net |-> NoFills.net, filled |-> NoFills.filled]
    BY DEF NoFills
  <2>5. \A p : Net(e, {}, p) = 0
    BY <2>1, <2>3 DEF Net
  <2> QED
    BY <2>2, <2>3, <2>4, <2>5 DEF Replays
<1>9. IdsOf(e) = {}
  BY <1>3 DEF IdsOf, NoFills
<1>10. Records(e, e)
  BY <1>3, <1>5, <1>7, <1>8, <1>9 DEF Records, DriftsApart
<1>11. Caught(e, e, 0)
  BY <1>5 DEF Caught
<1>12. /\ \A p \in Procs : TaskIn(trades, ledger, p, task[p])
       /\ task = [p \in Procs |-> task[p]]
  BY <1>1, TaskOver
<1>13. foreign \in [Products -> Int]
  BY <1>1
<1> QED
  BY <1>1, <1>4, <1>6, <1>10, <1>11, <1>12, <1>13 DEF FillsInv, ComparedIn

LEMMA FillsStep == FillsInv /\ [FNext]_fvars => FillsInv'
<1> SUFFICES ASSUME FillsInv, [FNext]_fvars
             PROVE  FillsInv'
  OBVIOUS
<1>1. CASE UNCHANGED fvars
  <2>1. /\ trades' = trades /\ foreign' = foreign /\ ledger' = ledger /\ task' = task
        /\ caught' = caught /\ compared' = compared
    BY <1>1 DEF fvars
  <2> QED
    BY <2>1 DEF FillsInv
<1>2. CASE FNext
  <2>1. \/ Trade \/ ForeignChange
        \/ StartFills \/ LookUpPage \/ LookUpPageFails \/ EmitFill \/ PageDone
        \/ \E p \in Procs : \/ StartExchangeState(p) \/ SnapshotAccounts(p) \/ LookUpPositions(p)
                            \/ SnapshotPositions(p) \/ EmitDrift(p) \/ DriftsDone(p)
                            \/ Retry(p) \/ TaskDies(p)
    BY <1>2 DEF FNext
  <2> QED
    BY <2>1, TradeKeeps, ForeignChangeKeeps, StartFillsKeeps, LookUpPageKeeps, LookUpPageFailsKeeps,
       EmitFillKeeps, PageDoneKeeps, StartExchangeStateKeeps, SnapshotAccountsKeeps,
       LookUpPositionsKeeps, SnapshotPositionsKeeps, EmitDriftKeeps, DriftsDoneKeeps,
       RetryKeeps, TaskDiesKeeps
<1> QED
  BY <1>1, <1>2

(* Trades, records, the tasks of every process and the last comparison agree, *)
(* however the processes interleave with the venue and with each other,       *)
(* repeat and fail.                                                           *)
(* Trades, records, the running task and the last comparison agree, however   *)
(* the tasks interleave with the venue, repeat and fail.                      *)
THEOREM FillsInvariant == FSpec => []FillsInv
  BY FillsInit, FillsStep, PTL DEF FSpec

(* _apply_exchange_fill, FillReconciliation.reconcile: each fill is on record *)
(* once, for the order that traded; the replayed sizes are those of the       *)
(* trades on record; a pass without errors leaves no earlier trade behind.    *)
(* _apply_exchange_fill, FillReconciliation.reconcile: each fill is on record *)
(* once, for the order that traded; the replayed sizes are those of the       *)
(* trades on record; a pass without errors leaves no earlier trade behind.    *)
THEOREM FillsAreExact == FSpec => []FillsExact
<1>1. FillsInv => FillsExact
  <2> SUFFICES ASSUME FillsInv
               PROVE  FillsExact
    OBVIOUS
  <2> DEFINE known == {ledger[i].id : i \in FillsOf(ledger)}
  <2>1. /\ TradeList(trades) /\ Records(trades, ledger) /\ IdsOf(ledger) = known
        /\ Replays(trades, Projection(ledger)) /\ DOMAIN trades = 1..Len(trades)
    BY TradeFacts DEF FillsInv, Records
  <2>2. \A i, j \in FillsOf(ledger) : ledger[i].id = ledger[j].id => i = j
    BY <2>1 DEF Records
  <2>3. ASSUME NEW i \in FillsOf(ledger)
        PROVE  LET f == ledger[i]
               IN  /\ FillContract(f) /\ f.id \in DOMAIN trades
                   /\ trades[f.id] = [id |-> f.id, order |-> f.order, size |-> f.size]
    <3> DEFINE f == ledger[i]
    <3>1. FillOk(trades, f)
      BY <2>1 DEF Records
    <3> HIDE DEF f
    <3>2. f.id \in 1..Len(trades) /\ f.order = trades[f.id].order /\ f.size = 1
      BY <3>1 DEF FillOk
    <3>3. trades[f.id] = [id |-> f.id, order |-> f.order, size |-> f.size] /\ f.order \in OrderIds
      BY <2>1, <3>2 DEF TradeList
    <3>4. FillContract(f)
      BY <3>1, <3>3, Sided DEF FillContract, FillOk
    <3> QED
      BY <2>1, <3>2, <3>3, <3>4 DEF f
  <2>4. \A o \in OrderIds :
           Projection(ledger).filled[o] = Cardinality({k \in known : trades[k].order = o})
    BY <2>1 DEF Replays, Filled, IdsOf
  <2>5. 1..caught \subseteq known
    BY <2>1 DEF FillsInv, Caught
  <2> HIDE DEF known
  <2> QED
    BY <2>2, <2>3, <2>4, <2>5 DEF FillsExact, FillsOf, known
<1> QED
  BY <1>1, FillsInvariant, PTL

(* _audit_position_drifts, _emit_drift: with any number of processes that     *)
(* check and then record, a difference is recorded again only by another      *)
(* process, which had read the ledger before the first record; with every     *)
(* trade of the lookup on record it is what someone else holds; a comparison  *)
(* leaves no difference unrecorded of what stood when it was made.            *)
THEOREM DriftsAreTold == FSpec => []DriftsTold
<1>1. FillsInv => DriftsTold
  <2> SUFFICES ASSUME FillsInv
               PROVE  DriftsTold
    OBVIOUS
  <2>1. /\ TradeList(trades) /\ Records(trades, ledger) /\ IsList(ledger)
        /\ ComparedIn(trades, ledger, compared)
    BY DEF FillsInv, Records
  <2>2. \A i, j \in DOMAIN ledger :
           /\ ledger[i].type = "drift" /\ ledger[j].type = "drift"
           /\ Key(ledger[i]) = Key(ledger[j]) /\ i < j
           => ledger[i].by # ledger[j].by /\ ledger[j].since < i
    BY <2>1 DEF Records, DriftsApart, DriftsOf
  <2>3. \A d \in Told(ledger) : d.told => d.exchange - d.bot = d.foreign
    BY <2>1, KeysOfDrifts DEF Records, DriftOk
  <2>4. ASSUME NEW p \in Products, Stands(p), Abs(Projection(ledger).net[p] - NetOf(p)) > Tolerance
        PROVE  \E d \in Told(ledger) : /\ d.product = p /\ d.bot = Projection(ledger).net[p]
                                       /\ d.exchange = NetOf(p)
    <3>1. Past(trades, ledger, compared) /\ Covers(trades, ledger, compared, {})
      BY <2>1, <2>4 DEF Stands, ComparedIn
    <3>2. Projection(ledger).net[p] = Net(trades, compared.fills, p)
      BY <2>1, <2>4 DEF Stands, Records, Replays
    <3>3. NetOf(p) = HeldOf(trades, compared, p)
      BY <2>4, NetHeld DEF Stands, HeldOf
    <3> QED
      BY <2>4, <3>1, <3>2, <3>3 DEF Covers, Tells
  <2> QED
    BY <2>2, <2>3, <2>4 DEF DriftsTold, Told
<1> QED
  BY <1>1, FillsInvariant, PTL
=============================================================================
