-------------------------- MODULE AnchoringProofs ---------------------------
(* Theorems about Anchoring, for any processes, jobs, faults and damage: what *)
(* verifies is attested by artifacts in the stores, and only damage makes     *)
(* verification fail.                                                         *)
(*   Shape, Receipts   what the records are and every receipt says of its     *)
(*                     artifact, damaged or not: enough for the first;        *)
(*   Stand             while nothing was damaged, all receipts stand and      *)
(*                     every process holds what others cannot take back: each *)
(*                     part is kept by a longer ledger and fuller stores.     *)
EXTENDS Anchoring, TLAPS

Records(U) == [id : Nat, type : {"data", "checkpoint", "anchor", "archive"}, says : U]
Shape == /\ \E U : ledger \in Seq(Records(U))
         /\ proc = [p \in Procs |-> proc[p]]
         /\ fresh \in Nat /\ damage \in Nat

IsReceipt(type, r) ==
    /\ type = r.type /\ type \in {"anchor", "archive"}
    /\ type = "anchor" => /\ r.artifact.checkpoint = r.checkpoint
                          /\ r.store \in {"local_file", "worm_object"}
Receipts ==
    /\ \A i \in DOMAIN ledger : ledger[i].type \in {"anchor", "archive"}
         => IsReceipt(ledger[i].type, ledger[i].says)
    /\ \A p \in Procs : proc[p].pc \in {"readback", "receipt"}
         => IsReceipt(proc[p].receipt.type, proc[p].receipt)

(* What verification asks, of a ledger l, a directory f and a bucket b.       *)
HashIn(l, n) == [i \in 1..n |-> l[i].id]
CheckpointIn(l, c) == c.through \in 0..Len(l) /\ c.digest = HashIn(l, c.through)
RecordedIn(l, c) == \E j \in DOMAIN l : l[j].type = "checkpoint" /\ l[j].says = c
ArtifactIn(l, a) == /\ a.sequence \in DOMAIN l /\ l[a.sequence].type = "checkpoint"
                    /\ a.hash = HashIn(l, a.sequence) /\ a.checkpoint = l[a.sequence].says
LocalIn(l, f, r) == /\ ArtifactName(r.artifact) \in DOMAIN f /\ f[ArtifactName(r.artifact)] = r.artifact
                    /\ ArtifactIn(l, r.artifact) /\ CheckpointIn(l, r.artifact.checkpoint)
ObjectIn(b, r) == /\ \E o \in b : o.version = r.version /\ o.body = r.artifact /\ o.until >= r.until
                  /\ r.type = "anchor" => \A o \in b : o.version = r.version => o.mode = r.mode
ArchiveIn(l, a) == a.through \in 0..Len(l) /\ a.records = HashIn(l, a.through)
BackedIn(l, r) == IF r.type = "anchor" THEN RecordedIn(l, r.checkpoint)
                  ELSE r.through = r.artifact.through /\ ArchiveIn(l, r.artifact)
StoredIn(l, f, b, r) == IF r.type = "anchor" /\ r.store = "local_file" THEN LocalIn(l, f, r)
                        ELSE ObjectIn(b, r)

(* What a process may hold at step s.                                         *)
StepStands(l, f, b, s) ==
    /\ s.pc = "checkpoint" => CheckpointIn(l, s.checkpoint)
    /\ s.pc = "archive" => ArchiveIn(l, s.artifact)
    /\ s.pc = "readback" => BackedIn(l, s.receipt) /\ (s.receipt.type = "anchor" => s.receipt.store = "worm_object")
    /\ s.pc = "receipt" => BackedIn(l, s.receipt) /\ StoredIn(l, f, b, s.receipt)

(* What record i stands on.                                                   *)
RecordStands(l, f, b, i) ==
    /\ l[i].type = "checkpoint" => l[i].says.through < i /\ CheckpointIn(l, l[i].says)
    /\ l[i].type \in {"anchor", "archive"} => StoredIn(l, f, b, l[i].says)
    /\ l[i].type = "anchor" => \E j \in DOMAIN l : j < i /\ l[j].type = "checkpoint" /\ l[j].says = l[i].says.checkpoint
    /\ l[i].type = "archive" => /\ l[i].says.through < i
                                /\ l[i].says.artifact.records = HashIn(l, l[i].says.through)
                                /\ l[i].says.through \in Nat

Stand == damage = 0 =>
    /\ \A i \in DOMAIN ledger : RecordStands(ledger, files, objects, i)
    /\ \A o \in objects : o.version \in Nat /\ o.version < fresh
    /\ \A p \in Procs : StepStands(ledger, files, objects, proc[p])

AnchoringInv == Shape /\ Receipts /\ Stand

-----------------------------------------------------------------------------
(* Growing: the ledger is longer, the directory and the bucket fuller.        *)
Prefix(l, m) == /\ Len(l) \in Nat /\ Len(m) \in Nat /\ Len(l) <= Len(m)
                /\ DOMAIN l = 1..Len(l) /\ DOMAIN m = 1..Len(m)
                /\ \A i \in 1..Len(l) : m[i] = l[i]
Fuller(f, g) == \A n \in DOMAIN f : n \in DOMAIN g /\ g[n] = f[n]
Newer(b, c) == b \subseteq c /\ \A o \in c \ b : \A q \in b : o.version # q.version

(* A hash of a prefix, and with it all that verification asks, is kept.       *)
LEMMA HashKept ==
    ASSUME NEW l, NEW m, Prefix(l, m), NEW n \in 0..Len(l)
    PROVE  HashIn(m, n) = HashIn(l, n)
    BY DEF Prefix, HashIn

(* A checkpoint stays true of a longer ledger.                                *)
LEMMA CheckpointKept ==
    ASSUME NEW l, NEW m, Prefix(l, m), NEW c, CheckpointIn(l, c)
    PROVE  CheckpointIn(m, c)
<1>1. c.through \in 0..Len(l)
  BY DEF CheckpointIn
<1>2. c.through \in 0..Len(m)
  BY <1>1 DEF Prefix
<1>3. HashIn(m, c.through) = HashIn(l, c.through)
  BY <1>1, HashKept
<1> QED
  BY <1>2, <1>3 DEF CheckpointIn

(* So does an archive.                                                        *)
LEMMA ArchiveKept ==
    ASSUME NEW l, NEW m, Prefix(l, m), NEW a, ArchiveIn(l, a)
    PROVE  ArchiveIn(m, a)
<1>1. a.through \in 0..Len(l)
  BY DEF ArchiveIn
<1>2. a.through \in 0..Len(m)
  BY <1>1 DEF Prefix
<1>3. HashIn(m, a.through) = HashIn(l, a.through)
  BY <1>1, HashKept
<1> QED
  BY <1>2, <1>3 DEF ArchiveIn

(* What a receipt goes back to stays on the ledger.                           *)
LEMMA BackedKept ==
    ASSUME NEW l, NEW m, Prefix(l, m), NEW r, BackedIn(l, r)
    PROVE  BackedIn(m, r)
<1>1. CASE r.type = "anchor"
  <2>1. PICK j \in DOMAIN l : l[j].type = "checkpoint" /\ l[j].says = r.checkpoint
    BY <1>1 DEF BackedIn, RecordedIn
  <2>2. j \in DOMAIN m /\ m[j] = l[j]
    BY <2>1 DEF Prefix
  <2> QED
    BY <1>1, <2>1, <2>2 DEF BackedIn, RecordedIn
<1>2. CASE r.type # "anchor"
  BY <1>2, ArchiveKept DEF BackedIn
<1> QED
  BY <1>1, <1>2

(* What a receipt names stays in the stores.                                  *)
LEMMA StoredKept ==
    ASSUME NEW l, NEW m, Prefix(l, m), NEW f, NEW g, Fuller(f, g), NEW b, NEW c, Newer(b, c),
           NEW r, StoredIn(l, f, b, r)
    PROVE  StoredIn(m, g, c, r)
<1>1. CASE r.type = "anchor" /\ r.store = "local_file"
  <2> DEFINE a == r.artifact
  <2>1. /\ ArtifactName(a) \in DOMAIN f /\ f[ArtifactName(a)] = a
        /\ ArtifactIn(l, a) /\ CheckpointIn(l, a.checkpoint)
    BY <1>1 DEF StoredIn, LocalIn
  <2> HIDE DEF a
  <2>2. ArtifactName(a) \in DOMAIN g /\ g[ArtifactName(a)] = a
    BY <2>1 DEF Fuller
  <2>3. CheckpointIn(m, a.checkpoint)
    BY <2>1, CheckpointKept
  <2>4. a.sequence \in 1..Len(l) /\ DOMAIN l = 1..Len(l)
    BY <2>1 DEF ArtifactIn, Prefix
  <2>5. a.sequence \in DOMAIN m /\ m[a.sequence] = l[a.sequence] /\ a.sequence \in 0..Len(l)
    BY <2>4 DEF Prefix
  <2>6. ArtifactIn(m, a)
    BY <2>1, <2>5, HashKept DEF ArtifactIn
  <2> QED
    BY <1>1, <2>2, <2>3, <2>6 DEF StoredIn, LocalIn, a
<1>2. CASE ~(r.type = "anchor" /\ r.store = "local_file")
  <2>1. ObjectIn(b, r)
    BY <1>2 DEF StoredIn
  <2>2. PICK q \in b : q.version = r.version /\ q.body = r.artifact /\ q.until >= r.until
    BY <2>1 DEF ObjectIn
  <2>3. q \in c
    BY <2>2 DEF Newer
  <2>4. ASSUME NEW o \in c, o.version = r.version PROVE o \in b
    BY <2>2, <2>4 DEF Newer
  <2>5. ObjectIn(c, r)
    BY <2>1, <2>2, <2>3, <2>4 DEF ObjectIn
  <2> QED
    BY <1>2, <2>5 DEF StoredIn
<1> QED
  BY <1>1, <1>2

(* What a process holds stays true while others go on.                        *)
LEMMA StepKept ==
    ASSUME NEW l, NEW m, Prefix(l, m), NEW f, NEW g, Fuller(f, g), NEW b, NEW c, Newer(b, c),
           NEW s, StepStands(l, f, b, s)
    PROVE  StepStands(m, g, c, s)
    BY CheckpointKept, ArchiveKept, BackedKept, StoredKept DEF StepStands

(* What a record stands on stays there.                                       *)
LEMMA RecordKept ==
    ASSUME NEW l, NEW m, Prefix(l, m), NEW f, NEW g, Fuller(f, g), NEW b, NEW c, Newer(b, c),
           NEW i \in DOMAIN l, RecordStands(l, f, b, i)
    PROVE  i \in DOMAIN m /\ RecordStands(m, g, c, i)
<1>1. i \in DOMAIN m /\ m[i] = l[i] /\ i \in 1..Len(l)
  BY DEF Prefix
<1> DEFINE e == l[i]
<1>2. m[i] = e /\ l[i] = e
  BY <1>1
<1> HIDE DEF e
<1>3. e.type = "checkpoint" => e.says.through < i /\ CheckpointIn(m, e.says)
  BY <1>2, CheckpointKept DEF RecordStands
<1>4. e.type \in {"anchor", "archive"} => StoredIn(m, g, c, e.says)
  BY <1>2, StoredKept DEF RecordStands
<1>5. e.type = "anchor" => \E j \in DOMAIN m : j < i /\ m[j].type = "checkpoint" /\ m[j].says = e.says.checkpoint
  BY <1>2 DEF RecordStands, Prefix
<1>6. ASSUME e.type = "archive"
      PROVE  /\ e.says.through < i /\ e.says.artifact.records = HashIn(m, e.says.through)
             /\ e.says.through \in Nat
  <2>1. /\ e.says.through < i /\ e.says.artifact.records = HashIn(l, e.says.through)
        /\ e.says.through \in Nat
    BY <1>2, <1>6 DEF RecordStands
  <2>2. e.says.through \in 0..Len(l)
    BY <1>1, <2>1 DEF Prefix
  <2> QED
    BY <2>1, <2>2, HashKept
<1> QED
  BY <1>1, <1>2, <1>3, <1>4, <1>5, <1>6 DEF RecordStands

-----------------------------------------------------------------------------
(* The ledger after one more record.                                          *)
LEMMA Appended ==
    ASSUME Shape, NEW t \in {"data", "checkpoint", "anchor", "archive"}, NEW x,
           ledger' = Append(ledger, [id |-> fresh, type |-> t, says |-> x])
    PROVE  /\ \E U : ledger' \in Seq(Records(U))
           /\ Prefix(ledger, ledger') /\ Len(ledger') = Len(ledger) + 1
           /\ ledger'[Len(ledger) + 1] = [id |-> fresh, type |-> t, says |-> x]
<1> DEFINE e == [id |-> fresh, type |-> t, says |-> x]
<1>1. PICK U : ledger \in Seq(Records(U))
  BY DEF Shape
<1>2. e \in Records(U \cup {x})
  BY DEF Shape, Records
<1>3. \A q \in Records(U) : q \in Records(U \cup {x})
  BY DEF Records
<1> HIDE DEF e
<1>4. ledger' = Append(ledger, e)
  BY DEF e
<1>5. ledger \in Seq(Records(U \cup {x}))
  <2> DEFINE S == Records(U)
             T == Records(U \cup {x})
  <2>1. ledger \in Seq(S) /\ \A q \in S : q \in T
    BY <1>1, <1>3
  <2> HIDE DEF S, T
  <2>2. Len(ledger) \in Nat /\ ledger \in [1..Len(ledger) -> T]
    BY <2>1
  <2>3. ledger \in Seq(T)
    BY <2>2
  <2> QED
    BY <2>3 DEF T
<1>6. ledger' \in Seq(Records(U \cup {x}))
  BY <1>2, <1>4, <1>5
<1>7. /\ Len(ledger) \in Nat /\ DOMAIN ledger = 1..Len(ledger) /\ Len(ledger') = Len(ledger) + 1
      /\ DOMAIN ledger' = 1..Len(ledger') /\ \A i \in 1..Len(ledger) : ledger'[i] = ledger[i]
      /\ ledger'[Len(ledger) + 1] = e
  BY <1>2, <1>4, <1>5
<1>8. Prefix(ledger, ledger')
  BY <1>7 DEF Prefix
<1> QED
  BY <1>6, <1>7, <1>8 DEF e

(* A ledger nobody wrote to continues itself.                                 *)
LEMMA Unwritten ==
    ASSUME Shape, ledger' = ledger
    PROVE  (\E U : ledger' \in Seq(Records(U))) /\ Prefix(ledger, ledger')
<1>1. PICK U : ledger \in Seq(Records(U))
  BY DEF Shape
<1>2. Len(ledger) \in Nat /\ DOMAIN ledger = 1..Len(ledger)
  BY <1>1
<1> QED
  BY <1>1, <1>2 DEF Prefix

(* A process goes on to step s, and the receipts keep their form.             *)
LEMMA Moved ==
    ASSUME Shape, Receipts, NEW p \in Procs, NEW s, Goes(p, s),
           s.pc \in {"readback", "receipt"} => IsReceipt(s.receipt.type, s.receipt)
    PROVE  /\ proc' = [q \in Procs |-> proc'[q]] /\ proc'[p] = s
           /\ \A q \in Procs : q # p => proc'[q] = proc[q]
           /\ \A q \in Procs : proc'[q].pc \in {"readback", "receipt"}
                => IsReceipt(proc'[q].receipt.type, proc'[q].receipt)
<1>1. /\ proc' = [q \in Procs |-> proc'[q]] /\ proc'[p] = s
      /\ \A q \in Procs : q # p => proc'[q] = proc[q]
  BY DEF Goes, Shape
<1>2. ASSUME NEW q \in Procs, proc'[q].pc \in {"readback", "receipt"}
      PROVE  IsReceipt(proc'[q].receipt.type, proc'[q].receipt)
  <2>1. CASE q = p
    BY <1>1, <1>2, <2>1
  <2>2. CASE q # p
    <3>1. proc'[q] = proc[q]
      BY <1>1, <2>2
    <3> QED
      BY <1>2, <3>1 DEF Receipts
  <2> QED
    BY <2>1, <2>2
<1> QED
  BY <1>1, <1>2

(* A step of one process that writes nothing keeps shapes and receipts.       *)
LEMMA MovedShape ==
    ASSUME Shape, Receipts, NEW p \in Procs, NEW s, Goes(p, s),
           s.pc \in {"readback", "receipt"} => IsReceipt(s.receipt.type, s.receipt),
           ledger' = ledger, fresh' \in Nat, damage' = damage
    PROVE  Shape' /\ Receipts'
<1>1. /\ proc' = [q \in Procs |-> proc'[q]]
      /\ \A q \in Procs : proc'[q].pc \in {"readback", "receipt"}
           => IsReceipt(proc'[q].receipt.type, proc'[q].receipt)
  BY Moved
<1>2. \E U : ledger' \in Seq(Records(U))
  BY Unwritten
<1>3. Shape'
  BY <1>1, <1>2 DEF Shape
<1>4. Receipts'
  BY <1>1 DEF Receipts
<1> QED
  BY <1>3, <1>4

(* The same when it appends a record of type t.                               *)
LEMMA AppendedShape ==
    ASSUME Shape, Receipts, proc' = [q \in Procs |-> proc'[q]],
           \A q \in Procs : proc'[q].pc \in {"readback", "receipt"}
             => IsReceipt(proc'[q].receipt.type, proc'[q].receipt),
           NEW t \in {"data", "checkpoint", "anchor", "archive"}, NEW x, Appends(t, x),
           t \in {"anchor", "archive"} => IsReceipt(t, x), damage' = damage
    PROVE  Shape' /\ Receipts'
<1>1. ledger' = Append(ledger, [id |-> fresh, type |-> t, says |-> x]) /\ fresh' = fresh + 1
  BY DEF Appends
<1>2. /\ \E U : ledger' \in Seq(Records(U))
      /\ Prefix(ledger, ledger') /\ Len(ledger') = Len(ledger) + 1
      /\ ledger'[Len(ledger) + 1] = [id |-> fresh, type |-> t, says |-> x]
  BY <1>1, Appended
<1>3. Shape'
  BY <1>1, <1>2 DEF Shape
<1>4. ASSUME NEW i \in DOMAIN ledger', ledger'[i].type \in {"anchor", "archive"}
      PROVE  IsReceipt(ledger'[i].type, ledger'[i].says)
  <2>1. CASE i \in DOMAIN ledger
    <3>1. ledger'[i] = ledger[i]
      BY <1>2, <2>1 DEF Prefix
    <3> QED
      BY <1>4, <2>1, <3>1 DEF Receipts
  <2>2. CASE i = Len(ledger) + 1
    <3>1. ledger'[i].type = t /\ ledger'[i].says = x
      BY <1>2, <2>2
    <3> QED
      BY <1>4, <3>1
  <2>3. i \in DOMAIN ledger \/ i = Len(ledger) + 1
    BY <1>2 DEF Prefix
  <2> QED
    BY <2>1, <2>2, <2>3
<1>5. Receipts'
  BY <1>4 DEF Receipts
<1> QED
  BY <1>3, <1>5

(* Every step keeps shapes and receipts, damage included.                     *)
LEMMA ShapeStep ==
    ASSUME Shape, Receipts, [Next]_vars
    PROVE  Shape' /\ Receipts'
<1>0. fresh \in Nat /\ damage \in Nat /\ proc = [q \in Procs |-> proc[q]]
  BY DEF Shape
<1>1. ASSUME NEW p \in Procs, TakeCheckpoint(p) PROVE Shape' /\ Receipts'
  BY <1>0, <1>1, MovedShape DEF TakeCheckpoint
<1>2. ASSUME NEW p \in Procs, TakeLatest(p) PROVE Shape' /\ Receipts'
  BY <1>0, <1>2, MovedShape DEF TakeLatest
<1>3. ASSUME NEW p \in Procs, RecordCheckpoint(p) PROVE Shape' /\ Receipts'
  <2> DEFINE s == IF proc[p].store = "none" THEN Idle
               ELSE [pc |-> "publish", store |-> proc[p].store,
                     artifact |-> Artifact(Len(ledger) + 1, Append(Hash(Len(ledger)), fresh),
                                           proc[p].checkpoint)]
  <2>1. Goes(p, s) /\ Appends("checkpoint", proc[p].checkpoint) /\ damage' = damage
    BY <1>3 DEF RecordCheckpoint
  <2>2. s.pc \notin {"readback", "receipt"}
    BY DEF Idle
  <2> HIDE DEF s
  <2>3. /\ proc' = [q \in Procs |-> proc'[q]]
        /\ \A q \in Procs : proc'[q].pc \in {"readback", "receipt"}
             => IsReceipt(proc'[q].receipt.type, proc'[q].receipt)
    BY <2>1, <2>2, Moved
  <2> QED
    BY <2>1, <2>3, AppendedShape
<1>4. ASSUME NEW p \in Procs, PublishLocal(p) PROVE Shape' /\ Receipts'
  <2> DEFINE a == proc[p].artifact
             s == [pc |-> "receipt", receipt |-> AnchorReceipt(a, "local_file", 0)]
  <2>1. /\ Goes(p, s) \/ Goes(p, Idle)
        /\ ledger' = ledger /\ fresh' = fresh /\ damage' = damage
    BY <1>4 DEF PublishLocal
  <2>2. IsReceipt(s.receipt.type, s.receipt) /\ Idle.pc = "idle"
    BY DEF IsReceipt, AnchorReceipt, Idle
  <2> HIDE DEF s
  <2> QED
    BY <1>0, <2>1, <2>2, MovedShape
<1>5. ASSUME NEW p \in Procs, PublishRefused(p) PROVE Shape' /\ Receipts'
  BY <1>0, <1>5, MovedShape DEF PublishRefused, Idle
<1>6. ASSUME NEW p \in Procs, TakeArchive(p) PROVE Shape' /\ Receipts'
  BY <1>0, <1>6, MovedShape DEF TakeArchive
<1>7. ASSUME NEW p \in Procs, PutObject(p) PROVE Shape' /\ Receipts'
  <2> DEFINE a == proc[p].artifact
             r == IF proc[p].pc = "archive" THEN ArchiveReceipt(a, fresh)
                                            ELSE AnchorReceipt(a, "worm_object", fresh)
             s == [pc |-> "readback", receipt |-> r]
  <2>1. /\ Goes(p, s) \/ Goes(p, Idle)
        /\ ledger' = ledger /\ fresh' = fresh + 1 /\ damage' = damage
    BY <1>7 DEF PutObject
  <2>2. IsReceipt(s.receipt.type, s.receipt) /\ Idle.pc = "idle"
    BY DEF IsReceipt, AnchorReceipt, ArchiveReceipt, Idle
  <2> HIDE DEF s
  <2> QED
    BY <1>0, <2>1, <2>2, MovedShape
<1>8. ASSUME NEW p \in Procs, ReadBack(p) PROVE Shape' /\ Receipts'
  <2> DEFINE s == [pc |-> "receipt", receipt |-> proc[p].receipt]
  <2>1. /\ Goes(p, s) \/ Goes(p, Idle)
        /\ proc[p].pc = "readback" /\ ledger' = ledger /\ fresh' = fresh /\ damage' = damage
    BY <1>8 DEF ReadBack
  <2>2. IsReceipt(s.receipt.type, s.receipt) /\ Idle.pc = "idle"
    BY <1>8, <2>1 DEF Receipts, Idle
  <2> HIDE DEF s
  <2> QED
    BY <1>0, <2>1, <2>2, MovedShape
<1>9. ASSUME NEW p \in Procs, RecordReceipt(p) PROVE Shape' /\ Receipts'
  <2> DEFINE r == proc[p].receipt
  <2>1. Goes(p, Idle) /\ Appends(r.type, r) /\ damage' = damage /\ proc[p].pc = "receipt"
    BY <1>9 DEF RecordReceipt
  <2>2. IsReceipt(r.type, r)
    BY <2>1 DEF Receipts
  <2>3. Idle.pc = "idle"
    BY DEF Idle
  <2>4. /\ proc' = [q \in Procs |-> proc'[q]]
        /\ \A q \in Procs : proc'[q].pc \in {"readback", "receipt"}
             => IsReceipt(proc'[q].receipt.type, proc'[q].receipt)
    BY <2>1, <2>3, Moved
  <2>5. r.type \in {"data", "checkpoint", "anchor", "archive"}
    BY <2>2 DEF IsReceipt
  <2> HIDE DEF r
  <2> QED
    BY <2>1, <2>2, <2>4, <2>5, AppendedShape
<1>10. ASSUME NEW p \in Procs, Die(p) PROVE Shape' /\ Receipts'
  BY <1>0, <1>10, MovedShape DEF Die, Idle
<1>11. CASE OtherAppends
  <2>1. Appends("data", Nothing) /\ proc' = proc /\ damage' = damage
    BY <1>11 DEF OtherAppends
  <2>2. \A q \in Procs : proc'[q].pc \in {"readback", "receipt"}
          => IsReceipt(proc'[q].receipt.type, proc'[q].receipt)
    BY <2>1 DEF Receipts
  <2> QED
    BY <1>0, <2>1, <2>2, AppendedShape
<1>12. CASE Rewrite
  <2>1. PICK i \in DOMAIN ledger : ledger' = [ledger EXCEPT ![i].id = fresh]
    BY <1>12 DEF Rewrite
  <2>2. fresh' = fresh + 1 /\ damage' = damage + 1 /\ proc' = proc
    BY <1>12 DEF Rewrite, Damages
  <2>3. PICK U : ledger \in Seq(Records(U))
    BY DEF Shape
  <2> DEFINE e == [ledger[i] EXCEPT !.id = fresh]
  <2>4. ledger[i] \in Records(U)
    BY <2>3
  <2>5. e \in Records(U) /\ e.type = ledger[i].type /\ e.says = ledger[i].says
    BY <1>0, <2>4 DEF Records
  <2>6. ledger' = [ledger EXCEPT ![i] = e]
    BY <2>1
  <2> HIDE DEF e
  <2>7. /\ ledger' \in Seq(Records(U)) /\ DOMAIN ledger' = DOMAIN ledger
        /\ \A j \in DOMAIN ledger : ledger'[j] = IF j = i THEN e ELSE ledger[j]
    BY <2>3, <2>5, <2>6
  <2>8. \A j \in DOMAIN ledger : ledger'[j].type = ledger[j].type /\ ledger'[j].says = ledger[j].says
    BY <2>5, <2>7
  <2>9. Shape'
    <3>1. \E V : ledger' \in Seq(Records(V))
      BY <2>7
    <3> QED
      BY <1>0, <2>2, <3>1 DEF Shape
  <2>10. Receipts'
    <3>1. ASSUME NEW j \in DOMAIN ledger', ledger'[j].type \in {"anchor", "archive"}
          PROVE  IsReceipt(ledger'[j].type, ledger'[j].says)
      <4>1. /\ j \in DOMAIN ledger /\ ledger'[j].type = ledger[j].type
            /\ ledger'[j].says = ledger[j].says
        BY <2>7, <2>8
      <4> QED
        BY <3>1, <4>1 DEF Receipts
    <3>2. \A q \in Procs : proc'[q].pc \in {"readback", "receipt"}
            => IsReceipt(proc'[q].receipt.type, proc'[q].receipt)
      BY <2>2 DEF Receipts
    <3> QED
      BY <3>1, <3>2 DEF Receipts
  <2> QED
    BY <2>9, <2>10
<1>13. CASE PutBack
  <2>1. PICK n \in 1..(Len(ledger) - 1) : ledger' = SubSeq(ledger, 1, n)
    BY <1>13 DEF PutBack
  <2>2. fresh' = fresh /\ damage' = damage + 1 /\ proc' = proc
    BY <1>13 DEF PutBack, Damages
  <2>3. PICK U : ledger \in Seq(Records(U))
    BY DEF Shape
  <2>4. /\ ledger' \in Seq(Records(U)) /\ DOMAIN ledger' = 1..n /\ DOMAIN ledger = 1..Len(ledger)
        /\ Len(ledger) \in Nat /\ \A j \in 1..n : ledger'[j] = ledger[j]
    BY <2>1, <2>3
  <2>5. \A j \in DOMAIN ledger' : j \in DOMAIN ledger /\ ledger'[j] = ledger[j]
    BY <2>4
  <2> QED
    BY <1>0, <2>2, <2>4, <2>5 DEF Shape, Receipts
<1>14. CASE ChangeFile \/ ChangeObject
  <2>1. ledger' = ledger /\ fresh' = fresh /\ damage' = damage + 1 /\ proc' = proc
    BY <1>14 DEF ChangeFile, ChangeObject, Damages
  <2>2. \E U : ledger' \in Seq(Records(U))
    BY <2>1, Unwritten
  <2> QED
    BY <1>0, <2>1, <2>2 DEF Shape, Receipts
<1>15. CASE UNCHANGED vars
  <2>1. ledger' = ledger /\ fresh' = fresh /\ damage' = damage /\ proc' = proc
    BY <1>15 DEF vars
  <2>2. \E U : ledger' \in Seq(Records(U))
    BY <2>1, Unwritten
  <2> QED
    BY <1>0, <2>1, <2>2 DEF Shape, Receipts
<1> QED
  BY <1>1, <1>2, <1>3, <1>4, <1>5, <1>6, <1>7, <1>8, <1>9, <1>10, <1>11, <1>12, <1>13, <1>14, <1>15 DEF Next

-----------------------------------------------------------------------------
(* A step that damages nothing and takes nothing back keeps what stood; what  *)
(* is new has to stand.                                                       *)
LEMMA StandKept ==
    ASSUME Stand, damage' = damage,
           damage = 0 => /\ Prefix(ledger, ledger') /\ Fuller(files, files') /\ Newer(objects, objects')
                         /\ \A o \in objects' : o.version \in Nat /\ o.version < fresh'
                         /\ \A i \in DOMAIN ledger' : i \in DOMAIN ledger
                              \/ RecordStands(ledger', files', objects', i)
                         /\ \A q \in Procs : proc'[q] = proc[q]
                              \/ StepStands(ledger', files', objects', proc'[q])
    PROVE  Stand'
<1> SUFFICES ASSUME damage = 0
             PROVE  /\ \A i \in DOMAIN ledger' : RecordStands(ledger', files', objects', i)
                    /\ \A o \in objects' : o.version \in Nat /\ o.version < fresh'
                    /\ \A p \in Procs : StepStands(ledger', files', objects', proc'[p])
  BY DEF Stand
<1>1. Prefix(ledger, ledger') /\ Fuller(files, files') /\ Newer(objects, objects')
  OBVIOUS
<1>2. ASSUME NEW i \in DOMAIN ledger' PROVE RecordStands(ledger', files', objects', i)
  <2>1. CASE i \in DOMAIN ledger
    <3>1. RecordStands(ledger, files, objects, i)
      BY <2>1 DEF Stand
    <3> QED
      BY <1>1, <2>1, <3>1, RecordKept
  <2> QED
    BY <1>2, <2>1
<1>3. ASSUME NEW q \in Procs PROVE StepStands(ledger', files', objects', proc'[q])
  <2>1. CASE proc'[q] = proc[q]
    <3>1. StepStands(ledger, files, objects, proc'[q])
      BY <2>1 DEF Stand
    <3> QED
      BY <1>1, <3>1, StepKept
  <2> QED
    BY <1>3, <2>1
<1> QED
  BY <1>2, <1>3

(* Ledger and stores continue themselves.                                     *)
LEMMA PrefixSelf ==
    ASSUME Shape
    PROVE  /\ Prefix(ledger, ledger) /\ Fuller(files, files) /\ Newer(objects, objects)
           /\ Len(ledger) \in Nat /\ DOMAIN ledger = 1..Len(ledger)
<1>1. PICK U : ledger \in Seq(Records(U))
  BY DEF Shape
<1>2. Len(ledger) \in Nat /\ DOMAIN ledger = 1..Len(ledger)
  BY <1>1
<1> QED
  BY <1>2 DEF Prefix, Fuller, Newer

(* Only one process moves, to a step s that stands.                           *)
LEMMA MovedStand ==
    ASSUME Shape, Stand, NEW p \in Procs, NEW s, Goes(p, s),
           ledger' = ledger, files' = files, objects' = objects, fresh' = fresh, damage' = damage,
           damage = 0 => StepStands(ledger, files, objects, s)
    PROVE  Stand'
<1>1. proc'[p] = s /\ \A q \in Procs : q # p => proc'[q] = proc[q]
  BY DEF Goes, Shape
<1>2. Prefix(ledger, ledger') /\ Fuller(files, files') /\ Newer(objects, objects')
  BY PrefixSelf
<1>3. damage = 0 => \A o \in objects' : o.version \in Nat /\ o.version < fresh'
  BY DEF Stand
<1>4. damage = 0 => \A q \in Procs : proc'[q] = proc[q]
                      \/ StepStands(ledger', files', objects', proc'[q])
  BY <1>1
<1>5. \A i \in DOMAIN ledger' : i \in DOMAIN ledger
  OBVIOUS
<1> QED
  BY <1>2, <1>3, <1>4, <1>5, StandKept

(* One more record, that stands, and a process that moves or none.            *)
LEMMA AppendedStand ==
    ASSUME Shape, Stand, NEW t \in {"data", "checkpoint", "anchor", "archive"}, NEW x, Appends(t, x),
           files' = files, objects' = objects, damage' = damage,
           damage = 0 => /\ RecordStands(ledger', files, objects, Len(ledger) + 1)
                         /\ \A q \in Procs : proc'[q] = proc[q]
                              \/ StepStands(ledger', files, objects, proc'[q])
    PROVE  Stand'
<1>1. ledger' = Append(ledger, [id |-> fresh, type |-> t, says |-> x]) /\ fresh' = fresh + 1 /\ fresh \in Nat
  BY DEF Appends, Shape
<1>2. Prefix(ledger, ledger') /\ Len(ledger') = Len(ledger) + 1
  BY <1>1, Appended
<1>3. Fuller(files, files') /\ Newer(objects, objects')
  BY PrefixSelf
<1>4. damage = 0 => \A o \in objects' : o.version \in Nat /\ o.version < fresh'
  BY <1>1 DEF Stand
<1>5. \A i \in DOMAIN ledger' : i \in DOMAIN ledger \/ i = Len(ledger) + 1
  BY <1>2 DEF Prefix
<1>6. damage = 0 => \A i \in DOMAIN ledger' : i \in DOMAIN ledger
                      \/ RecordStands(ledger', files', objects', i)
  BY <1>5
<1>7. damage = 0 => \A q \in Procs : proc'[q] = proc[q]
                      \/ StepStands(ledger', files', objects', proc'[q])
  OBVIOUS
<1> QED
  BY <1>2, <1>3, <1>4, <1>6, <1>7, StandKept

(* An artifact that was checked before publishing is in the ledger.           *)
LEMMA PublishableIn ==
    ASSUME NEW p \in Procs, Publishable(p)
    PROVE  /\ ArtifactIn(ledger, proc[p].artifact) /\ CheckpointIn(ledger, proc[p].artifact.checkpoint)
           /\ RecordedIn(ledger, proc[p].artifact.checkpoint)
<1> DEFINE a == proc[p].artifact
<1>1. /\ a.sequence \in DOMAIN ledger /\ ledger[a.sequence].type = "checkpoint"
      /\ a.hash = HashIn(ledger, a.sequence) /\ a.checkpoint = ledger[a.sequence].says
  BY DEF Publishable, Recorded, Of, Hash, HashIn
<1>2. CheckpointIn(ledger, a.checkpoint)
  BY DEF Publishable, VerifyCheckpoint, CheckpointIn, Hash, HashIn
<1> HIDE DEF a
<1>3. ArtifactIn(ledger, a) /\ RecordedIn(ledger, a.checkpoint)
  BY <1>1 DEF ArtifactIn, RecordedIn
<1> QED
  BY <1>2, <1>3 DEF a

(* The steps that write to the ledger or to a store.                          *)
LEMMA RecordCheckpointStands ==
    ASSUME Shape, Stand, NEW p \in Procs, RecordCheckpoint(p)
    PROVE  Stand'
<1> DEFINE c == proc[p].checkpoint
           s == IF proc[p].store = "none" THEN Idle
                ELSE [pc |-> "publish", store |-> proc[p].store,
                      artifact |-> Artifact(Len(ledger) + 1, Append(Hash(Len(ledger)), fresh), c)]
<1>1. /\ proc[p].pc = "checkpoint" /\ Appends("checkpoint", c) /\ Goes(p, s)
      /\ files' = files /\ objects' = objects /\ damage' = damage
  BY DEF RecordCheckpoint
<1>2. s.pc \in {"idle", "publish"}
  BY DEF Idle
<1>3. ASSUME damage = 0 PROVE CheckpointIn(ledger, c)
  BY <1>1, <1>3 DEF Stand, StepStands
<1> HIDE DEF s, c
<1>4. proc'[p] = s /\ \A q \in Procs : q # p => proc'[q] = proc[q]
  BY <1>1 DEF Goes, Shape
<1>5. /\ Prefix(ledger, ledger')
      /\ ledger'[Len(ledger) + 1] = [id |-> fresh, type |-> "checkpoint", says |-> c]
  BY <1>1, Appended DEF Appends
<1>6. ASSUME damage = 0 PROVE RecordStands(ledger', files, objects, Len(ledger) + 1)
  <2> DEFINE n == Len(ledger) + 1
  <2>1. c.through \in 0..Len(ledger) /\ Len(ledger) \in Nat
    BY <1>3, <1>6, PrefixSelf DEF CheckpointIn
  <2>2. c.through < n
    BY <2>1
  <2>3. CheckpointIn(ledger', c)
    BY <1>3, <1>5, <1>6, CheckpointKept
  <2>4. ledger'[n].type = "checkpoint" /\ ledger'[n].says = c
    BY <1>5
  <2> HIDE DEF n
  <2>5. RecordStands(ledger', files, objects, n)
    BY <2>2, <2>3, <2>4 DEF RecordStands
  <2> QED
    BY <2>5 DEF n
<1>7. \A q \in Procs : proc'[q] = proc[q] \/ StepStands(ledger', files, objects, proc'[q])
  BY <1>2, <1>4 DEF StepStands
<1> QED
  BY <1>1, <1>6, <1>7, AppendedStand

(* Publishing to a local file, which may be there already, whole or cut       *)
(* short.                                                                     *)
LEMMA PublishLocalStands ==
    ASSUME Shape, Stand, NEW p \in Procs, PublishLocal(p)
    PROVE  Stand'
<1> DEFINE a == proc[p].artifact
           name == ArtifactName(a)
           r == AnchorReceipt(a, "local_file", 0)
           done == [pc |-> "receipt", receipt |-> r]
<1>1. /\ Publishable(p) /\ ledger' = ledger /\ objects' = objects /\ fresh' = fresh /\ damage' = damage
      /\ \/ name \in DOMAIN files /\ files[name] = a /\ Goes(p, done) /\ files' = files
         \/ Goes(p, Idle) /\ files' = files
         \/ name \notin DOMAIN files /\ files' = WithFile(name, a) /\ Goes(p, done)
         \/ name \notin DOMAIN files /\ files' = WithFile(name, Torn) /\ Goes(p, Idle)
  BY DEF PublishLocal, Reusable
<1>2. ArtifactIn(ledger, a) /\ CheckpointIn(ledger, a.checkpoint) /\ RecordedIn(ledger, a.checkpoint)
  BY <1>1, PublishableIn
<1>3. /\ r.type = "anchor" /\ r.store = "local_file" /\ r.artifact = a /\ r.checkpoint = a.checkpoint
      /\ done.pc = "receipt" /\ done.receipt = r
  BY DEF AnchorReceipt
<1>4. name = ArtifactName(a)
  OBVIOUS
<1> HIDE DEF a, name, r, done
<1>5. Fuller(files, files')
  BY <1>1 DEF Fuller, WithFile
<1>6. Prefix(ledger, ledger') /\ Newer(objects, objects')
  BY <1>1, PrefixSelf
<1>7. ASSUME NEW s, Goes(p, s), StepStands(ledger', files', objects', s)
      PROVE  Stand'
  <2>1. proc'[p] = s /\ \A q \in Procs : q # p => proc'[q] = proc[q]
    BY <1>7 DEF Goes, Shape
  <2>2. \A q \in Procs : proc'[q] = proc[q] \/ StepStands(ledger', files', objects', proc'[q])
    BY <1>7, <2>1
  <2>3. damage = 0 => \A o \in objects' : o.version \in Nat /\ o.version < fresh'
    BY <1>1 DEF Stand
  <2>4. \A i \in DOMAIN ledger' : i \in DOMAIN ledger
    BY <1>1
  <2> QED
    BY <1>1, <1>5, <1>6, <2>2, <2>3, <2>4, StandKept
<1>8. CASE Goes(p, Idle)
  <2>1. StepStands(ledger', files', objects', Idle)
    BY DEF StepStands, Idle
  <2> QED
    BY <1>7, <1>8, <2>1
<1>9. CASE Goes(p, done) /\ name \in DOMAIN files' /\ files'[name] = a
  <2>1. LocalIn(ledger, files', r)
    BY <1>2, <1>3, <1>4, <1>9 DEF LocalIn
  <2>2. StepStands(ledger', files', objects', done)
    BY <1>1, <1>2, <1>3, <2>1 DEF StepStands, BackedIn, StoredIn
  <2> QED
    BY <1>7, <1>9, <2>2
<1>10. files' = WithFile(name, a) => name \in DOMAIN files' /\ files'[name] = a
  BY DEF WithFile
<1> QED
  BY <1>1, <1>8, <1>9, <1>10

(* Publishing to the bucket, also when the answer is lost.                    *)
LEMMA PutObjectStands ==
    ASSUME Shape, Stand, NEW p \in Procs, PutObject(p)
    PROVE  Stand'
<1> DEFINE a == proc[p].artifact
           r == IF proc[p].pc = "archive" THEN ArchiveReceipt(a, fresh)
                                          ELSE AnchorReceipt(a, "worm_object", fresh)
           done == [pc |-> "readback", receipt |-> r]
           object == [version |-> fresh, body |-> a, mode |-> Mode, until |-> Retention]
<1>1. /\ Publishable(p) \/ proc[p].pc = "archive"
      /\ Goes(p, done) \/ Goes(p, Idle)
      /\ objects' = objects \cup {object} \/ objects' = objects
      /\ ledger' = ledger /\ files' = files /\ damage' = damage /\ fresh' = fresh + 1
  BY DEF PutObject
<1>2. done.pc = "readback" /\ done.receipt = r /\ object.version = fresh
  OBVIOUS
<1>3. proc[p].pc = "archive" => r.type = "archive" /\ r.through = a.through /\ r.artifact = a
  BY DEF ArchiveReceipt
<1>4. proc[p].pc # "archive" => r.type = "anchor" /\ r.store = "worm_object" /\ r.checkpoint = a.checkpoint
  BY DEF AnchorReceipt
<1>5. proc[p].pc # "archive" => RecordedIn(ledger, a.checkpoint)
  BY <1>1, PublishableIn
<1>6. damage = 0 /\ proc[p].pc = "archive" => ArchiveIn(ledger, a)
  BY DEF Stand, StepStands
<1> HIDE DEF a, r, done, object
<1>7. damage = 0 => StepStands(ledger', files', objects', done)
  BY <1>1, <1>2, <1>3, <1>4, <1>5, <1>6 DEF StepStands, BackedIn
<1>8. StepStands(ledger', files', objects', Idle)
  BY DEF StepStands, Idle
<1>9. damage = 0 => \A q \in Procs : proc'[q] = proc[q] \/ StepStands(ledger', files', objects', proc'[q])
  BY <1>1, <1>7, <1>8 DEF Goes, Shape
<1>10. fresh \in Nat
  BY DEF Shape
<1>11. damage = 0 => \A o \in objects : o.version \in Nat /\ o.version < fresh
  BY DEF Stand
<1>12. damage = 0 => \A o \in objects' : o.version \in Nat /\ o.version < fresh'
  BY <1>1, <1>2, <1>10, <1>11
<1>13. damage = 0 => Newer(objects, objects')
  BY <1>1, <1>2, <1>10, <1>11 DEF Newer
<1>14. Prefix(ledger, ledger') /\ Fuller(files, files')
  BY <1>1, PrefixSelf
<1>15. \A i \in DOMAIN ledger' : i \in DOMAIN ledger
  BY <1>1
<1> QED
  BY <1>1, <1>9, <1>12, <1>13, <1>14, <1>15, StandKept

(* Appending a receipt, after whatever others appended meanwhile.             *)
LEMMA RecordReceiptStands ==
    ASSUME Shape, Receipts, Stand, NEW p \in Procs, RecordReceipt(p)
    PROVE  Stand'
<1> DEFINE r == proc[p].receipt
<1>1. /\ proc[p].pc = "receipt" /\ Appends(r.type, r) /\ Goes(p, Idle)
      /\ files' = files /\ objects' = objects /\ damage' = damage
  BY DEF RecordReceipt
<1>2. r.type \in {"anchor", "archive"}
  BY <1>1 DEF Receipts, IsReceipt
<1>3. damage = 0 => BackedIn(ledger, r) /\ StoredIn(ledger, files, objects, r)
  BY <1>1 DEF Stand, StepStands
<1> HIDE DEF r
<1>4. /\ Prefix(ledger, ledger')
      /\ ledger'[Len(ledger) + 1] = [id |-> fresh, type |-> r.type, says |-> r]
  BY <1>1, <1>2, Appended DEF Appends
<1>5. /\ Fuller(files, files) /\ Newer(objects, objects)
      /\ Len(ledger) \in Nat /\ DOMAIN ledger = 1..Len(ledger)
  BY PrefixSelf
<1>6. ASSUME damage = 0 PROVE RecordStands(ledger', files, objects, Len(ledger) + 1)
  <2> DEFINE n == Len(ledger) + 1
  <2>1. ledger'[n].type = r.type /\ ledger'[n].says = r
    BY <1>4
  <2>2. StoredIn(ledger', files, objects, r)
    BY <1>3, <1>4, <1>5, <1>6, StoredKept
  <2>3. ASSUME r.type = "anchor"
        PROVE  \E j \in DOMAIN ledger' : j < n /\ ledger'[j].type = "checkpoint" /\ ledger'[j].says = r.checkpoint
    <3>1. PICK j \in DOMAIN ledger : ledger[j].type = "checkpoint" /\ ledger[j].says = r.checkpoint
      BY <1>3, <1>6, <2>3 DEF BackedIn, RecordedIn
    <3>2. j \in DOMAIN ledger' /\ ledger'[j] = ledger[j] /\ j < n
      BY <1>4, <1>5 DEF Prefix
    <3> QED
      BY <3>1, <3>2
  <2>4. ASSUME r.type = "archive"
        PROVE  r.through < n /\ r.artifact.records = HashIn(ledger', r.through) /\ r.through \in Nat
    <3>1. r.through \in 0..Len(ledger) /\ r.artifact.records = HashIn(ledger, r.through)
      BY <1>3, <1>6, <2>4 DEF BackedIn, ArchiveIn
    <3>2. HashIn(ledger', r.through) = HashIn(ledger, r.through)
      BY <1>4, <3>1, HashKept
    <3> QED
      BY <1>5, <3>1, <3>2
  <2> HIDE DEF n
  <2>5. RecordStands(ledger', files, objects, n)
    BY <1>2, <2>1, <2>2, <2>3, <2>4 DEF RecordStands
  <2> QED
    BY <2>5 DEF n
<1>7. \A q \in Procs : proc'[q] = proc[q] \/ StepStands(ledger', files, objects, proc'[q])
  BY <1>1 DEF Goes, Shape, StepStands, Idle
<1> QED
  BY <1>1, <1>2, <1>6, <1>7, AppendedStand

(* Every step leaves what stood standing, or is damage.                       *)
LEMMA StandStep ==
    ASSUME Shape, Receipts, Stand, [Next]_vars
    PROVE  Stand'
<1>0. /\ Len(ledger) \in Nat /\ damage \in Nat
      /\ \A f, b : StepStands(ledger, f, b, Idle)
  BY PrefixSelf DEF Shape, StepStands, Idle
<1>1. ASSUME NEW p \in Procs, TakeCheckpoint(p) PROVE Stand'
  <2> DEFINE c == CheckpointOf(Len(ledger), <<p, fresh>>)
             s == [pc |-> "checkpoint", store |-> Head(todo[p]).store, checkpoint |-> c]
  <2>1. /\ Goes(p, s) /\ ledger' = ledger /\ files' = files /\ objects' = objects /\ fresh' = fresh
        /\ damage' = damage
    BY <1>1 DEF TakeCheckpoint
  <2>2. CheckpointIn(ledger, c)
    BY <1>0 DEF CheckpointOf, CheckpointIn, Hash, HashIn
  <2>3. s.pc = "checkpoint" /\ s.checkpoint = c
    OBVIOUS
  <2> HIDE DEF c, s
  <2>4. StepStands(ledger, files, objects, s)
    BY <2>2, <2>3 DEF StepStands
  <2> QED
    BY <2>1, <2>4, MovedStand
<1>2. ASSUME NEW p \in Procs, TakeLatest(p) PROVE Stand'
  <2>1. PICK s : s.pc = "publish" /\ Goes(p, s)
    BY <1>2 DEF TakeLatest
  <2>2. StepStands(ledger, files, objects, s)
    BY <2>1 DEF StepStands
  <2>3. ledger' = ledger /\ files' = files /\ objects' = objects /\ fresh' = fresh /\ damage' = damage
    BY <1>2 DEF TakeLatest
  <2> QED
    BY <2>1, <2>2, <2>3, MovedStand
<1>3. ASSUME NEW p \in Procs, RecordCheckpoint(p) PROVE Stand'
  BY <1>3, RecordCheckpointStands
<1>4. ASSUME NEW p \in Procs, PublishLocal(p) PROVE Stand'
  BY <1>4, PublishLocalStands
<1>5. ASSUME NEW p \in Procs, PublishRefused(p) \/ Die(p) PROVE Stand'
  <2>1. /\ Goes(p, Idle) /\ ledger' = ledger /\ files' = files /\ objects' = objects /\ fresh' = fresh
        /\ damage' = damage
    BY <1>5 DEF PublishRefused, Die
  <2> QED
    BY <1>0, <2>1, MovedStand
<1>6. ASSUME NEW p \in Procs, TakeArchive(p) PROVE Stand'
  <2> DEFINE a == [through |-> Len(ledger), records |-> Hash(Len(ledger))]
             s == [pc |-> "archive", artifact |-> a]
  <2>1. /\ Goes(p, s) /\ ledger' = ledger /\ files' = files /\ objects' = objects /\ fresh' = fresh
        /\ damage' = damage
    BY <1>6 DEF TakeArchive
  <2>2. ArchiveIn(ledger, a)
    BY <1>0 DEF ArchiveIn, Hash, HashIn
  <2>3. s.pc = "archive" /\ s.artifact = a
    OBVIOUS
  <2> HIDE DEF a, s
  <2>4. StepStands(ledger, files, objects, s)
    BY <2>2, <2>3 DEF StepStands
  <2> QED
    BY <2>1, <2>4, MovedStand
<1>7. ASSUME NEW p \in Procs, PutObject(p) PROVE Stand'
  BY <1>7, PutObjectStands
<1>8. ASSUME NEW p \in Procs, ReadBack(p) PROVE Stand'
  <2> DEFINE r == proc[p].receipt
             s == [pc |-> "receipt", receipt |-> r]
  <2>1. /\ proc[p].pc = "readback"
        /\ ledger' = ledger /\ files' = files /\ objects' = objects /\ fresh' = fresh /\ damage' = damage
        /\ Goes(p, Idle) \/ (/\ Goes(p, s) /\ ObjectFits(r) /\ \A o \in ObjectOf(r) : o.mode = r.mode)
    BY <1>8 DEF ReadBack
  <2>2. damage = 0 => BackedIn(ledger, r) /\ (r.type = "anchor" => r.store = "worm_object")
    BY <2>1 DEF Stand, StepStands
  <2>3. s.pc = "receipt" /\ s.receipt = r
    OBVIOUS
  <2> HIDE DEF r, s
  <2>4. CASE Goes(p, Idle)
    BY <1>0, <2>1, <2>4, MovedStand
  <2>5. CASE Goes(p, s) /\ ObjectFits(r) /\ \A o \in ObjectOf(r) : o.mode = r.mode
    <3>1. ObjectIn(objects, r)
      BY <2>5 DEF ObjectIn, ObjectFits, ObjectOf
    <3>2. damage = 0 => StepStands(ledger, files, objects, s)
      BY <2>2, <2>3, <3>1 DEF StepStands, StoredIn
    <3> QED
      BY <2>1, <2>5, <3>2, MovedStand
  <2> QED
    BY <2>1, <2>4, <2>5
<1>9. ASSUME NEW p \in Procs, RecordReceipt(p) PROVE Stand'
  BY <1>9, RecordReceiptStands
<1>10. CASE OtherAppends
  <2>1. /\ Appends("data", Nothing) /\ proc' = proc /\ files' = files /\ objects' = objects
        /\ damage' = damage
    BY <1>10 DEF OtherAppends
  <2>2. ledger'[Len(ledger) + 1].type = "data"
    BY <2>1, Appended DEF Appends
  <2>3. RecordStands(ledger', files, objects, Len(ledger) + 1)
    BY <2>2 DEF RecordStands
  <2> QED
    BY <2>1, <2>3, AppendedStand
<1>11. CASE Rewrite \/ PutBack \/ ChangeFile \/ ChangeObject
  <2>1. damage' = damage + 1
    BY <1>11 DEF Rewrite, PutBack, ChangeFile, ChangeObject, Damages
  <2>2. damage' # 0
    BY <1>0, <2>1
  <2> QED
    BY <2>2 DEF Stand
<1>12. CASE UNCHANGED vars
  BY <1>12 DEF vars, Stand
<1> QED
  BY <1>1, <1>2, <1>3, <1>4, <1>5, <1>6, <1>7, <1>8, <1>9, <1>10, <1>11, <1>12 DEF Next

(* The inductive invariant of the checkpoints, anchors and archives.          *)
THEOREM AnchoringInvariant == Spec => []AnchoringInv
<1>1. Init => AnchoringInv
  <2> SUFFICES ASSUME Init PROVE AnchoringInv
    OBVIOUS
  <2> DEFINE e == [id |-> 1, type |-> "data", says |-> Nothing]
  <2>1. ledger = <<e>> /\ files = << >> /\ objects = {} /\ fresh = 2 /\ damage = 0
    BY DEF Init
  <2>2. proc = [p \in Procs |-> Idle] /\ \A p \in Procs : proc[p].pc = "idle"
    BY DEF Init, Idle
  <2>3. e \in Records({Nothing}) /\ e.type = "data"
    BY DEF Records
  <2> HIDE DEF e
  <2>4. ledger \in Seq(Records({Nothing})) /\ \A i \in DOMAIN ledger : ledger[i].type = "data"
    BY <2>1, <2>3
  <2>5. Shape
    <3>1. \E U : ledger \in Seq(Records(U))
      BY <2>4
    <3> QED
      BY <2>1, <2>2, <3>1 DEF Shape
  <2>6. Receipts
    BY <2>2, <2>4 DEF Receipts
  <2>7. Stand
    BY <2>1, <2>2, <2>4 DEF Stand, RecordStands, StepStands
  <2> QED
    BY <2>5, <2>6, <2>7 DEF AnchoringInv
<1>2. AnchoringInv /\ [Next]_vars => AnchoringInv'
  BY ShapeStep, StandStep DEF AnchoringInv
<1> QED
  BY <1>1, <1>2, PTL DEF Spec

(* Nothing but damage makes verification fail: not what others append between *)
(* the steps of publishing, a store that fails or loses an answer, a process  *)
(* that dies in the middle, or an artifact published a second time.           *)
THEOREM ReceiptsAlwaysStand == Spec => []ReceiptsStand
<1>1. ASSUME AnchoringInv, damage = 0 PROVE Verifies /\ RemoteVerifies
  <2>1. /\ \A i \in DOMAIN ledger : RecordStands(ledger, files, objects, i)
        /\ \A i \in DOMAIN ledger : ledger[i].type \in {"anchor", "archive"}
             => IsReceipt(ledger[i].type, ledger[i].says)
    BY <1>1 DEF AnchoringInv, Stand, Receipts
  <2>2. CheckpointsVerify
    BY <2>1 DEF CheckpointsVerify, Of, RecordStands, CheckpointIn, VerifyCheckpoint, Hash, HashIn
  <2>3. ASSUME NEW i \in Of("anchor")
        PROVE  /\ AnchorKnown(i)
               /\ ledger[i].says.store = "local_file" => LocalVerifies(ledger[i].says)
               /\ ledger[i].says.store = "worm_object" => RemoteAnchorVerifies(ledger[i].says)
    <3> DEFINE r == ledger[i].says
    <3>1. i \in DOMAIN ledger /\ ledger[i].type = "anchor" /\ r.type = "anchor"
      BY <2>1, <2>3 DEF Of, IsReceipt
    <3>2. AnchorKnown(i) /\ StoredIn(ledger, files, objects, r)
      BY <2>1, <3>1 DEF RecordStands, AnchorKnown, Of
    <3> HIDE DEF r
    <3>3. r.store = "local_file" => LocalVerifies(r)
      BY <3>1, <3>2 DEF StoredIn, LocalIn, LocalVerifies, ArtifactIn, Recorded, Of, CheckpointIn,
                        VerifyCheckpoint, Hash, HashIn
    <3>4. r.store = "worm_object" => RemoteAnchorVerifies(r)
      BY <3>1, <3>2 DEF StoredIn, ObjectIn, RemoteAnchorVerifies, ObjectFits, ObjectOf
    <3> QED
      BY <3>2, <3>3, <3>4 DEF r
  <2>4. ASSUME NEW i \in Of("archive")
        PROVE  /\ ledger[i].says.through < i
               /\ ledger[i].says.artifact.records = Hash(ledger[i].says.through)
               /\ RemoteArchiveVerifies(ledger[i].says)
    <3> DEFINE r == ledger[i].says
    <3>1. i \in DOMAIN ledger /\ ledger[i].type = "archive" /\ r.type = "archive"
      BY <2>1, <2>4 DEF Of, IsReceipt
    <3>2. /\ r.through < i /\ r.artifact.records = Hash(r.through)
          /\ StoredIn(ledger, files, objects, r)
      BY <2>1, <3>1 DEF RecordStands, Hash, HashIn
    <3> HIDE DEF r
    <3>3. RemoteArchiveVerifies(r)
      BY <3>1, <3>2 DEF StoredIn, ObjectIn, RemoteArchiveVerifies, ObjectFits, ObjectOf
    <3> QED
      BY <3>2, <3>3 DEF r
  <2>5. AnchorsVerify /\ RemoteAnchors
    BY <2>3 DEF AnchorsVerify, RemoteAnchors
  <2>6. ArchivesVerify /\ RemoteArchives
    BY <2>4 DEF ArchivesVerify, RemoteArchives
  <2> QED
    BY <2>2, <2>5, <2>6 DEF Verifies, RemoteVerifies
<1>2. AnchoringInv => ReceiptsStand
  BY <1>1 DEF ReceiptsStand
<1> QED
  BY <1>2, AnchoringInvariant, PTL

(* What verifies is attested by an artifact in its store that names exactly   *)
(* the records the ledger has, whatever was damaged before.                   *)
THEOREM AttestedAlways == Spec => []Attested
<1>1. ASSUME AnchoringInv, Verifies, RemoteVerifies PROVE Attested
  <2>1. ASSUME NEW i \in Of("anchor")
        PROVE  LET r == ledger[i].says IN
               /\ r.checkpoint.digest = Hash(r.checkpoint.through)
               /\ IF r.store = "local_file"
                  THEN \E n \in DOMAIN files : files[n] = r.artifact
                  ELSE \E o \in objects : o.body = r.artifact /\ o.until >= r.until
               /\ r.artifact.checkpoint = r.checkpoint
    <3> DEFINE r == ledger[i].says
    <3>1. r.artifact.checkpoint = r.checkpoint /\ r.store \in {"local_file", "worm_object"}
      BY <1>1, <2>1 DEF AnchoringInv, Receipts, IsReceipt, Of
    <3>2. PICK j \in Of("checkpoint") : ledger[j].says = r.checkpoint
      BY <1>1 DEF Verifies, AnchorsVerify, AnchorKnown
    <3>3. VerifyCheckpoint(ledger[j].says)
      BY <1>1 DEF Verifies, CheckpointsVerify
    <3>4. r.checkpoint.digest = Hash(r.checkpoint.through)
      BY <3>2, <3>3 DEF VerifyCheckpoint
    <3>5. /\ r.store = "local_file" => LocalVerifies(r)
          /\ r.store = "worm_object" => RemoteAnchorVerifies(r)
      BY <1>1 DEF Verifies, AnchorsVerify, RemoteVerifies, RemoteAnchors
    <3> HIDE DEF r
    <3>6. IF r.store = "local_file" THEN \E n \in DOMAIN files : files[n] = r.artifact
          ELSE \E o \in objects : o.body = r.artifact /\ o.until >= r.until
      BY <3>1, <3>5 DEF LocalVerifies, RemoteAnchorVerifies, ObjectFits, ObjectOf
    <3> QED
      BY <3>1, <3>4, <3>6 DEF r
  <2>2. ASSUME NEW i \in Of("archive")
        PROVE  LET r == ledger[i].says IN
               /\ r.artifact.records = Hash(r.through)
               /\ \E o \in objects : o.body = r.artifact /\ o.until >= r.until
    BY <1>1 DEF Verifies, ArchivesVerify, RemoteVerifies, RemoteArchives, RemoteArchiveVerifies, ObjectFits, ObjectOf
  <2> QED
    BY <2>1, <2>2 DEF Attested
<1>2. AnchoringInv => Attested
  BY <1>1 DEF Attested
<1> QED
  BY <1>2, AnchoringInvariant, PTL
=============================================================================
