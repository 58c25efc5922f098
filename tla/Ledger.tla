------------------------------- MODULE Ledger -------------------------------
(* audit/ledger.py: the hash-chained JSONL ledger that every StateRail        *)
(* process appends to.  Instances of AuditLedger in several processes share   *)
(* one file, kept apart only by an O_EXCL lock file that is never waited for  *)
(* and never broken: who finds it taken raises LedgerLockError.  A process    *)
(* may be killed, and a write may fail, between any two steps.                *)
(*                                                                            *)
(* (Operators directly before a definition, unused otherwise: its mutants.)   *)
EXTENDS Naturals, Sequences

CONSTANTS Procs,        \* processes, each with one AuditLedger instance
          NoProc,       \* no process: there is no lock file
          Payloads,     \* what callers append
          MaxRecords    \* bound on the length of the file

ASSUME NoProcAssumption == NoProc \notin Procs

VARIABLES
    records,    \* the complete lines of the file, as AuditRecords
    torn,       \* bytes after the last newline: an unfinished line
    lockFile,   \* the pid in <ledger>.lock, NoProc when there is no such file
    pc,         \* where each process is
    state,      \* AuditLedger._state, as last refreshed by each instance
    pending,    \* the payload of the append each process is executing
    view,       \* the payloads each process's last snapshot returned
    acked       \* history: the <<sequence, payload>> pairs appends returned

vars == <<records, torn, lockFile, pc, state, pending, view, acked>>

-----------------------------------------------------------------------------
(* Records and their hashes.  SHA-256 over the canonical JSON of everything   *)
(* but the hash itself is taken as injective: a hash is the history it        *)
(* commits to, the chain of <<sequence, payload>> pairs that ends in it.      *)
Hashes == Seq(Nat \X Payloads)
GenesisHash == << >>
RecordHash(previous, sequence, payload) == Append(previous, <<sequence, payload>>)

AuditRecord == [sequence : Nat, payload : Payloads,
                previous_hash : Hashes, record_hash : Hashes]
LedgerState == [next_sequence : Nat, last_hash : Hashes]

(* The hash the record on line i must name as its predecessor.                *)
HashBefore(rs, i) == IF i = 1 THEN GenesisHash ELSE rs[i - 1].record_hash

(* _verify_audit_record: sequence, chain and content of the record on line i. *)
RecordVerifies(rs, i) ==
    /\ rs[i].sequence = i
    /\ rs[i].previous_hash = HashBefore(rs, i)
    /\ rs[i].record_hash
         = RecordHash(rs[i].previous_hash, rs[i].sequence, rs[i].payload)

VerifiesNoBoundary(rs, tail) == \A i \in 1..Len(rs) : RecordVerifies(rs, i)

(* _verify_locked: the append boundary, then every record in order.           *)
Verifies(rs, tail) == ~tail /\ \A i \in 1..Len(rs) : RecordVerifies(rs, i)

(* The LedgerState that a successful verification returns.                    *)
StateOf(rs) == [next_sequence |-> Len(rs) + 1,
                last_hash |-> HashBefore(rs, Len(rs) + 1)]

(* The record append builds from the state it has just verified.              *)
NewRecord(s, e) ==
    [sequence |-> s.next_sequence, payload |-> e, previous_hash |-> s.last_hash,
     record_hash |-> RecordHash(s.last_hash, s.next_sequence, e)]

PayloadsOf(rs) == [i \in 1..Len(rs) |-> rs[i].payload]

-----------------------------------------------------------------------------
(* "down": no process; "idle": between operations; the others hold the lock.  *)
Inside == {"opening", "appending", "verified", "writing", "written", "reading"}
Steps  == Inside \cup {"down", "idle"}

Init == /\ records = << >> /\ torn = FALSE
        /\ lockFile = NoProc
        /\ pc = [p \in Procs |-> "down"]
        /\ state = [p \in Procs |-> StateOf(<< >>)]
        /\ pending = [p \in Procs |-> {}]
        /\ view = [p \in Procs |-> << >>]
        /\ acked = {}

AcquireNotExclusive(p, step) == lockFile' = p /\ pc' = [pc EXCEPT ![p] = step]

(* _process_lock: create the lock file, or raise at once if it is there.      *)
Acquire(p, step) == /\ lockFile = NoProc
                    /\ lockFile' = p
                    /\ pc' = [pc EXCEPT ![p] = step]

(* The finally clause: leaving _process_lock, normally or not, unlinks it.    *)
Release(p, step) == /\ lockFile' = NoProc
                    /\ pc' = [pc EXCEPT ![p] = step]

(* A process starts and constructs its AuditLedger.                           *)
Open(p) == /\ pc[p] = "down"
           /\ Acquire(p, "opening")
           /\ UNCHANGED <<records, torn, state, pending, view, acked>>

(* The constructor's verification succeeds, or raises LedgerCorruptionError.  *)
FinishOpen(p) ==
    /\ pc[p] = "opening"
    /\ \/ /\ Verifies(records, torn)
          /\ state' = [state EXCEPT ![p] = StateOf(records)]
          /\ Release(p, "idle")
       \/ /\ ~Verifies(records, torn)
          /\ Release(p, "down")
          /\ UNCHANGED state
    /\ UNCHANGED <<records, torn, pending, view, acked>>

(* append: take the lock for payload e.  (With the lock taken by another      *)
(* process LedgerLockError is raised and nothing changes.)                    *)
CallAppend(p, e) == /\ pc[p] = "idle"
                    /\ Len(records) < MaxRecords
                    /\ Acquire(p, "appending")
                    /\ pending' = [pending EXCEPT ![p] = {e}]
                    /\ UNCHANGED <<records, torn, state, view, acked>>

VerifyTrustsCache(p) ==
    /\ pc[p] = "appending"
    /\ pc' = [pc EXCEPT ![p] = "verified"]
    /\ UNCHANGED <<records, torn, lockFile, state, pending, view, acked>>

(* append verifies the whole file before it builds the record.                *)
VerifyForAppend(p) ==
    /\ pc[p] = "appending"
    /\ \/ /\ Verifies(records, torn)
          /\ state' = [state EXCEPT ![p] = StateOf(records)]
          /\ pc' = [pc EXCEPT ![p] = "verified"]
          /\ UNCHANGED <<lockFile, pending>>
       \/ /\ ~Verifies(records, torn)
          /\ Release(p, "idle")
          /\ pending' = [pending EXCEPT ![p] = {}]
          /\ UNCHANGED state
    /\ UNCHANGED <<records, torn, view, acked>>

(* The first bytes of the new line reach the file.                            *)
BeginWrite(p) == /\ pc[p] = "verified"
                 /\ torn' = TRUE
                 /\ pc' = [pc EXCEPT ![p] = "writing"]
                 /\ UNCHANGED <<records, lockFile, state, pending, view, acked>>

CompleteWriteTruncates(p) ==
    /\ pc[p] = "writing"
    /\ \E e \in pending[p] : records' = <<NewRecord(state[p], e)>>
    /\ torn' = FALSE
    /\ pc' = [pc EXCEPT ![p] = "written"]
    /\ UNCHANGED <<lockFile, state, pending, view, acked>>

(* The line is complete, newline included.                                    *)
CompleteWrite(p) ==
    /\ pc[p] = "writing"
    /\ \E e \in pending[p] : records' = Append(records, NewRecord(state[p], e))
    /\ torn' = FALSE
    /\ pc' = [pc EXCEPT ![p] = "written"]
    /\ UNCHANGED <<lockFile, state, pending, view, acked>>

(* fsync succeeded: _state moves on, the lock goes and append returns.        *)
ReturnAppend(p) ==
    /\ pc[p] = "written"
    /\ \E e \in pending[p] :
         LET record == NewRecord(state[p], e)
         IN /\ state' = [state EXCEPT ![p] =
                           [next_sequence |-> record.sequence + 1,
                            last_hash |-> record.record_hash]]
            /\ acked' = acked \cup {<<record.sequence, e>>}
    /\ pending' = [pending EXCEPT ![p] = {}]
    /\ Release(p, "idle")
    /\ UNCHANGED <<records, torn, view>>

(* open, write, flush or fsync raises OSError: the lock goes, but whatever    *)
(* has reached the file stays there, and _state is not moved on.              *)
WriteFails(p) == /\ pc[p] \in {"verified", "writing", "written"}
                 /\ pending' = [pending EXCEPT ![p] = {}]
                 /\ Release(p, "idle")
                 /\ UNCHANGED <<records, torn, state, view, acked>>

CallSnapshot(p) == /\ pc[p] = "idle"
                   /\ Acquire(p, "reading")
                   /\ UNCHANGED <<records, torn, state, pending, view, acked>>

SnapshotOfCachedState(p) ==
    /\ pc[p] = "reading"
    /\ view' = [view EXCEPT ![p] =
                  SubSeq(PayloadsOf(records), 1, state[p].next_sequence - 1)]
    /\ Release(p, "idle")
    /\ UNCHANGED <<records, torn, state, pending, acked>>

SnapshotAwaitsRepair(p) ==
    /\ pc[p] = "reading" /\ Verifies(records, torn)
    /\ state' = [state EXCEPT ![p] = StateOf(records)]
    /\ view' = [view EXCEPT ![p] = PayloadsOf(records)]
    /\ Release(p, "idle")
    /\ UNCHANGED <<records, torn, pending, acked>>

(* snapshot (and iter_records, verify): verify, then read, under one lock.    *)
FinishSnapshot(p) ==
    /\ pc[p] = "reading"
    /\ \/ /\ Verifies(records, torn)
          /\ state' = [state EXCEPT ![p] = StateOf(records)]
          /\ view' = [view EXCEPT ![p] = PayloadsOf(records)]
       \/ /\ ~Verifies(records, torn)
          /\ UNCHANGED <<state, view>>
    /\ Release(p, "idle")
    /\ UNCHANGED <<records, torn, pending, acked>>

(* The process is killed: no finally clause runs, so a lock it holds stays,   *)
(* and an unfinished line stays unfinished.                                   *)
Crash(p) == /\ pc[p] # "down"
            /\ pc' = [pc EXCEPT ![p] = "down"]
            /\ pending' = [pending EXCEPT ![p] = {}]
            /\ UNCHANGED <<records, torn, lockFile, state, view, acked>>

(* An operator deletes the lock file of a process that is gone.  Nothing in   *)
(* the code does: app/readiness.py only reports that the file exists.         *)
ClearStaleLock == /\ lockFile # NoProc
                  /\ pc[lockFile] = "down"
                  /\ lockFile' = NoProc
                  /\ UNCHANGED <<records, torn, pc, state, pending, view, acked>>

Advance(p) == \/ FinishOpen(p) \/ VerifyForAppend(p) \/ BeginWrite(p)
              \/ CompleteWrite(p) \/ ReturnAppend(p) \/ FinishSnapshot(p)

Next == \/ \E p \in Procs : \/ Open(p)
                            \/ \E e \in Payloads : CallAppend(p, e)
                            \/ CallSnapshot(p)
                            \/ Advance(p)
                            \/ WriteFails(p)
                            \/ Crash(p)
        \/ ClearStaleLock

Spec == Init /\ [][Next]_vars

(* A process that has entered an operation runs on; nothing else is assumed:  *)
(* calls, failures, kills and the operator are not fair.                      *)
FairSpec == Spec /\ \A p \in Procs : WF_vars(Advance(p))

-----------------------------------------------------------------------------
(* The shape of the file, the lock and the AuditLedger instances.             *)
TypeOK ==
    /\ records \in Seq(AuditRecord)
    /\ torn \in BOOLEAN
    /\ lockFile \in Procs \cup {NoProc}
    /\ pc \in [Procs -> Steps]
    /\ state \in [Procs -> LedgerState]
    /\ pending \in [Procs -> SUBSET Payloads]
    /\ view \in [Procs -> Seq(Payloads)]
    /\ acked \in SUBSET (Nat \X Payloads)

(* Whoever is inside an operation owns the lock file, so no two processes     *)
(* are, whatever was killed or failed before (_process_lock).                 *)
LockOwnership == \A p \in Procs : pc[p] \in Inside => lockFile = p

(* No exception path leaks the lock: a live process that is between           *)
(* operations never leaves its own lock file behind (the finally clause).     *)
NoLeakedLock == \A p \in Procs : pc[p] = "idle" => lockFile # p

(* The complete lines always form a valid chain from the genesis hash, even   *)
(* though several processes append with states they cached at different       *)
(* times: what append builds always continues the file it is written to.      *)
ChainIntact == \A i \in 1..Len(records) : RecordVerifies(records, i)

(* An append that returned is in the file at the sequence it returned,        *)
(* however many kills and failed writes follow.                               *)
AckedDurable == \A a \in acked : /\ a[1] \in 1..Len(records)
                                 /\ records[a[1]].payload = a[2]

(* A line whose writer was killed or failed half-way.                         *)
AbandonedLine == torn /\ \A p \in Procs : pc[p] # "writing"

(* An abandoned line fails every later append closed: whoever opens, appends  *)
(* or restarts afterwards, no record is ever written behind it.               *)
TornStopsAppends == [](AbandonedLine => []torn)

(* The ledger implements the append-only log the other components rely on.    *)
Log == INSTANCE AppendOnlyLog WITH log <- PayloadsOf(records)
RefinesLog == Log!Spec

(* Every operation ends: the process that holds the lock gives it up, or is   *)
(* killed (and then the lock needs the operator).                             *)
OperationsEnd == \A p \in Procs : pc[p] \in Inside ~> pc[p] \in {"idle", "down"}
=============================================================================
