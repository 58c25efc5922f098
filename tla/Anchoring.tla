----------------------------- MODULE Anchoring ------------------------------
(* Checkpoints, anchors and archives of the ledger: a runtime whose tasks     *)
(* publish them and an operator who does so by hand, each reading the ledger, *)
(* writing to a store and appending the receipt in separate steps, while      *)
(* others append, stores fail, and processes die in the middle of a write.    *)
(* Hashes are ideal: the hash at a position stands for the identities of all  *)
(* records up to it, a digest for what it is the digest of.                   *)
(* (Operators directly before a definition, unused otherwise: its mutants.)   *)
EXTENDS Naturals, Sequences

CONSTANTS
    Procs,          \* the processes that publish
    Todos,          \* by process, what to do in turn: the choices of
                    \* [kind: checkpoint, anchor, latest or archive, store]
    Mode,           \* the configured immutability mode of the bucket's objects
    MaxOther,       \* bound on records of others
    MaxTrouble,     \* bound on failing stores and dying processes
    MaxDamage       \* bound on changes behind the program's back

ASSUME ModeAssumption == Mode \in {"governance", "compliance"}
ASSUME BoundsAssumption == MaxOther \in Nat /\ MaxTrouble \in Nat /\ MaxDamage \in Nat

VARIABLES
    ledger,     \* the records: [id, type, says]
    files,      \* the anchor directory: artifacts by name, Torn when cut short
    objects,    \* the bucket: versions [version, body, mode, until]
    proc,       \* by process, where it is in publishing
    todo,       \* by process, what is left to do
    fresh,      \* the next identity
    other, trouble, damage

vars == <<ledger, files, objects, proc, todo, fresh, other, trouble, damage>>

Retention == 1          \* until when a fresh object is kept
Torn == [sequence |-> 0]            \* an artifact that was cut short
Idle == [pc |-> "idle"]
Nothing == << >>

Init ==
    /\ ledger = << [id |-> 1, type |-> "data", says |-> Nothing] >>
    /\ files = << >> /\ objects = {} /\ proc = [p \in Procs |-> Idle]
    /\ todo \in Todos
    /\ fresh = 2 /\ other = 0 /\ trouble = 0 /\ damage = 0

-----------------------------------------------------------------------------
Hash(n) == [i \in 1..n |-> ledger[i].id]        \* the hash at n, the digest of the prefix
Of(type) == {i \in DOMAIN ledger : ledger[i].type = type}
Last(S) == CHOOSE i \in S : \A j \in S : j <= i

Appends(type, says) == /\ ledger' = Append(ledger, [id |-> fresh, type |-> type, says |-> says])
                       /\ fresh' = fresh + 1
Goes(p, step) == proc' = [proc EXCEPT ![p] = step]
Asked(p, kind) == /\ proc[p].pc = "idle" /\ todo[p] # << >> /\ Head(todo[p]).kind = kind
                  /\ todo' = [todo EXCEPT ![p] = Tail(@)]
Troubles == trouble < MaxTrouble /\ trouble' = trouble + 1

(* create_ledger_checkpoint: of everything there is; at tells two apart.      *)
CheckpointOf(n, at) == [through |-> n, digest |-> Hash(n), at |-> at]

VerifyCheckpointCount(c) == c.through \in 0..Len(ledger)
VerifyCheckpoint(c) == c.through \in 0..Len(ledger) /\ c.digest = Hash(c.through)

(* _assert_recorded_checkpoint_in_ledger.                                     *)
Recorded(a) == /\ a.sequence \in Of("checkpoint")
               /\ a.hash = Hash(a.sequence)
               /\ a.checkpoint = ledger[a.sequence].says

(* create_ledger_anchor_artifact, of a recorded checkpoint.                   *)
Artifact(n, hash, c) == [sequence |-> n, hash |-> hash, checkpoint |-> c]
ArtifactName(a) == <<a.checkpoint.through, a.checkpoint.at>>

-----------------------------------------------------------------------------
(* record_ledger_checkpoint, for itself or to publish an anchor.              *)
TakeCheckpoint(p) ==
    /\ Asked(p, "checkpoint") \/ Asked(p, "anchor")
    /\ Goes(p, [pc |-> "checkpoint", store |-> Head(todo[p]).store,
                checkpoint |-> CheckpointOf(Len(ledger), <<p, fresh>>)])
    /\ UNCHANGED <<ledger, files, fresh, objects, other, trouble, damage>>

RecordCheckpoint(p) ==
    /\ proc[p].pc = "checkpoint"
    /\ Appends("checkpoint", proc[p].checkpoint)
    /\ Goes(p, IF proc[p].store = "none" THEN Idle
               ELSE [pc |-> "publish", store |-> proc[p].store,
                     artifact |-> Artifact(Len(ledger) + 1, Append(Hash(Len(ledger)), fresh),
                                           proc[p].checkpoint)])
    /\ UNCHANGED <<files, objects, todo, other, trouble, damage>>

(* latest_recorded_ledger_checkpoint: it must verify.                         *)
TakeLatest(p) ==
    /\ Asked(p, "latest") /\ Of("checkpoint") # {}
    /\ LET n == Last(Of("checkpoint"))
           c == ledger[n].says
       IN  /\ c.through < n /\ VerifyCheckpoint(c)
           /\ Goes(p, [pc |-> "publish", store |-> Head(todo[p]).store,
                       artifact |-> Artifact(n, Hash(n), c)])
    /\ UNCHANGED <<ledger, files, objects, fresh, other, trouble, damage>>

(* publish_recorded_ledger_checkpoint_anchor, with its two checks.            *)
Publishable(p) == /\ proc[p].pc = "publish"
                  /\ Recorded(proc[p].artifact) /\ VerifyCheckpoint(proc[p].artifact.checkpoint)

(* (The version, mode and retention are those of an object.)                  *)
AnchorReceipt(a, store, version) ==
    [type |-> "anchor", store |-> store, checkpoint |-> a.checkpoint, artifact |-> a,
     version |-> version, mode |-> Mode, until |-> Retention]

(* LocalFileLedgerAnchorStore.publish: an artifact of the name must be the    *)
(* same; a new one may be cut short by the end of the process.                *)
ReusableByName(a) == ArtifactName(a) \in DOMAIN files
Reusable(a) == ArtifactName(a) \in DOMAIN files /\ files[ArtifactName(a)] = a

WithFile(name, a) == [n \in DOMAIN files \cup {name} |-> IF n = name THEN a ELSE files[n]]

PublishLocal(p) ==
    LET a == proc[p].artifact
        name == ArtifactName(a)
        done == [pc |-> "receipt", receipt |-> AnchorReceipt(a, "local_file", 0)]
    IN  /\ Publishable(p) /\ proc[p].store = "local_file"
        /\ \/ Reusable(a) /\ Goes(p, done) /\ UNCHANGED <<files, trouble>>
           \/ /\ name \in DOMAIN files /\ ~Reusable(a)
              /\ Goes(p, Idle) /\ UNCHANGED <<files, trouble>>
           \/ /\ name \notin DOMAIN files
              /\ files' = WithFile(name, a) /\ Goes(p, done) /\ UNCHANGED trouble
           \/ /\ name \notin DOMAIN files
              /\ files' = WithFile(name, Torn) /\ Goes(p, Idle) /\ Troubles
        /\ UNCHANGED <<ledger, objects, fresh, todo, other, damage>>

(* The checkpoint is not in the ledger, or not of it: publishing raises.      *)
PublishRefused(p) ==
    /\ proc[p].pc = "publish" /\ ~Publishable(p)
    /\ Goes(p, Idle)
    /\ UNCHANGED <<ledger, files, objects, fresh, todo, other, trouble, damage>>

(* create_ledger_archive_artifact: everything there is.                       *)
TakeArchive(p) ==
    /\ Asked(p, "archive")
    /\ Goes(p, [pc |-> "archive", artifact |-> [through |-> Len(ledger), records |-> Hash(Len(ledger))]])
    /\ UNCHANGED <<ledger, files, objects, fresh, other, trouble, damage>>

ArchiveReceipt(a, version) ==
    [type |-> "archive", through |-> a.through, artifact |-> a,
     version |-> version, mode |-> Mode, until |-> Retention]

(* put_object makes a new version, whatever is there; an answer that is lost  *)
(* leaves it behind.                                                          *)
PutObject(p) ==
    LET a == proc[p].artifact
        r == IF proc[p].pc = "archive" THEN ArchiveReceipt(a, fresh)
                                       ELSE AnchorReceipt(a, "worm_object", fresh)
        object == [version |-> fresh, body |-> a, mode |-> Mode, until |-> Retention]
    IN  /\ \/ Publishable(p) /\ proc[p].store = "worm_object"
           \/ proc[p].pc = "archive"
        /\ \/ /\ objects' = objects \cup {object}
              /\ \/ Goes(p, [pc |-> "readback", receipt |-> r]) /\ UNCHANGED trouble
                 \/ Goes(p, Idle) /\ Troubles
           \/ UNCHANGED objects /\ Goes(p, Idle) /\ Troubles
        /\ fresh' = fresh + 1
        /\ UNCHANGED <<ledger, files, todo, other, damage>>

(* _get_verified_object, _get_verified_retention: of that very version.       *)
ObjectOf(r) == {o \in objects : o.version = r.version}
ObjectFits(r) == \E o \in ObjectOf(r) : o.body = r.artifact /\ o.until >= r.until

(* What was put is read back, or reading it back fails.                       *)
ReadBack(p) ==
    LET r == proc[p].receipt
    IN  /\ proc[p].pc = "readback"
        /\ \/ /\ ObjectFits(r) /\ \A o \in ObjectOf(r) : o.mode = r.mode
              /\ Goes(p, [pc |-> "receipt", receipt |-> r]) /\ UNCHANGED trouble
           \/ /\ ~(ObjectFits(r) /\ \A o \in ObjectOf(r) : o.mode = r.mode)
              /\ Goes(p, Idle) /\ UNCHANGED trouble
           \/ Goes(p, Idle) /\ Troubles
        /\ UNCHANGED <<ledger, files, objects, fresh, todo, other, damage>>

RecordReceipt(p) ==
    /\ proc[p].pc = "receipt"
    /\ Appends(proc[p].receipt.type, proc[p].receipt)
    /\ Goes(p, Idle)
    /\ UNCHANGED <<files, objects, todo, other, trouble, damage>>

-----------------------------------------------------------------------------
(* Other records; a process dies; and changes behind the program's back: a    *)
(* record rewritten along with the chain after it, an older copy of the       *)
(* ledger put back, an artifact changed or removed, a retention loosened.     *)
OtherAppends == /\ other < MaxOther /\ other' = other + 1
                /\ Appends("data", Nothing)
                /\ UNCHANGED <<files, objects, proc, todo, trouble, damage>>

Die(p) == /\ proc[p].pc # "idle" /\ Goes(p, Idle) /\ Troubles
          /\ UNCHANGED <<ledger, files, objects, fresh, todo, other, damage>>

Damages == damage < MaxDamage /\ damage' = damage + 1
Rewrite == /\ Damages
           /\ \E i \in DOMAIN ledger : ledger' = [ledger EXCEPT ![i].id = fresh]
           /\ fresh' = fresh + 1
           /\ UNCHANGED <<files, objects, proc, todo, other, trouble>>
PutBack == /\ Damages
           /\ \E n \in 1..(Len(ledger) - 1) : ledger' = SubSeq(ledger, 1, n)
           /\ UNCHANGED <<files, objects, proc, fresh, todo, other, trouble>>
ChangeFile == /\ Damages
              /\ \E name \in DOMAIN files :
                    \/ files' = [files EXCEPT ![name] = Torn]
                    \/ files' = [n \in DOMAIN files \ {name} |-> files[n]]
              /\ UNCHANGED <<ledger, objects, proc, fresh, todo, other, trouble>>
ChangeObject == /\ Damages
                /\ \E o \in objects :
                      \/ objects' = objects \ {o}
                      \/ /\ o.mode = "governance"
                         /\ \E to \in {[o EXCEPT !.until = 0], [o EXCEPT !.mode = "compliance"]} :
                               objects' = (objects \ {o}) \cup {to}
                /\ UNCHANGED <<ledger, files, proc, fresh, todo, other, trouble>>

Next ==
    \/ OtherAppends \/ Rewrite \/ PutBack \/ ChangeFile \/ ChangeObject
    \/ \E p \in Procs :
          \/ TakeCheckpoint(p) \/ TakeLatest(p) \/ RecordCheckpoint(p) \/ PublishLocal(p) \/ PublishRefused(p) \/ TakeArchive(p)
          \/ PutObject(p) \/ ReadBack(p) \/ RecordReceipt(p) \/ Die(p)

Spec == Init /\ [][Next]_vars

-----------------------------------------------------------------------------
(* Verification: load_verified_ledger_view raises unless all three hold.      *)
CheckpointsVerify ==
    \A i \in Of("checkpoint") : ledger[i].says.through < i /\ VerifyCheckpoint(ledger[i].says)

(* _assert_anchor_checkpoint_in_ledger: on record before the anchor.          *)
AnchorKnown(i) == \E j \in Of("checkpoint") : j < i /\ ledger[j].says = ledger[i].says.checkpoint
LocalVerifies(r) == LET name == ArtifactName(r.artifact) IN
                    /\ name \in DOMAIN files /\ files[name] = r.artifact
                    /\ Recorded(r.artifact) /\ VerifyCheckpoint(r.artifact.checkpoint)
AnchorsVerify ==
    \A i \in Of("anchor") : /\ AnchorKnown(i)
                            /\ ledger[i].says.store = "local_file" => LocalVerifies(ledger[i].says)
ArchivesVerify ==
    \A i \in Of("archive") : /\ ledger[i].says.through < i
                             /\ ledger[i].says.artifact.records = Hash(ledger[i].says.through)
Verifies == CheckpointsVerify /\ AnchorsVerify /\ ArchivesVerify

(* The remote verification of ledger health, when it is asked for.  The mode  *)
(* of an archive is not compared: the comparison follows a raise.             *)
RemoteAnchorVerifies(r) == ObjectFits(r) /\ \A o \in ObjectOf(r) : o.mode = r.mode
RemoteArchiveVerifies(r) == ObjectFits(r)
RemoteAnchors ==
    \A i \in Of("anchor") : ledger[i].says.store = "worm_object" => RemoteAnchorVerifies(ledger[i].says)
RemoteArchives == \A i \in Of("archive") : RemoteArchiveVerifies(ledger[i].says)
RemoteVerifies == RemoteAnchors /\ RemoteArchives

-----------------------------------------------------------------------------
(* Nothing but damage makes verification fail: whatever else is appended      *)
(* between the steps of a checkpoint, an anchor or an archive, whichever      *)
(* steps fail or are repeated by another process, and whatever a process that *)
(* died left in a store, all receipts on record stand.                        *)
ReceiptsStand == damage = 0 => Verifies /\ RemoteVerifies

(* What verifies is attested from outside: for each receipt on record there   *)
(* is an artifact in its store, kept as long as the receipt says, that names  *)
(* exactly the records the ledger has now up to the checkpoint; rewriting one *)
(* of them, putting back an older copy and going on from there, or loosing an *)
(* artifact does not go unnoticed while a receipt that covers it is on        *)
(* record.                                                                    *)
Attested ==
    Verifies /\ RemoteVerifies =>
        /\ \A i \in Of("anchor") : LET r == ledger[i].says IN
             /\ r.checkpoint.digest = Hash(r.checkpoint.through)
             /\ IF r.store = "local_file"
                THEN \E n \in DOMAIN files : files[n] = r.artifact
                ELSE \E o \in objects : o.body = r.artifact /\ o.until >= r.until
             /\ r.artifact.checkpoint = r.checkpoint
        /\ \A i \in Of("archive") : LET r == ledger[i].says IN
             /\ r.artifact.records = Hash(r.through)
             /\ \E o \in objects : o.body = r.artifact /\ o.until >= r.until
=============================================================================
