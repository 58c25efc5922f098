---------------------------- MODULE LedgerProofs ----------------------------
(* The ledger's safety, for any number of processes, payloads and records.    *)
EXTENDS Ledger, SequenceTheorems, TLAPS

(* The steps of an append between its verification and its return work on     *)
(* the state of the file as it is: nobody else wrote since it was verified.   *)
AppendInProgress ==
    \A p \in Procs :
        /\ \A e, f \in pending[p] : e = f
        /\ pc[p] \in {"verified", "writing"} => state[p] = StateOf(records)
        /\ pc[p] = "verified" => ~torn
        /\ pc[p] = "written" =>
             /\ state[p].next_sequence = Len(records)
             /\ \A e \in pending[p] : /\ records # << >>
                                      /\ records[Len(records)] = NewRecord(state[p], e)

IInv == /\ TypeOK /\ LockOwnership /\ NoLeakedLock
        /\ ChainIntact /\ AckedDurable /\ AppendInProgress

(* What _verify_locked returns for a well-typed file.                         *)
LEMMA StateOfType ==
    ASSUME NEW rs \in Seq(AuditRecord)
    PROVE  /\ StateOf(rs) \in LedgerState
           /\ StateOf(rs).next_sequence = Len(rs) + 1
           /\ StateOf(rs).last_hash = HashBefore(rs, Len(rs) + 1)
<1>1. HashBefore(rs, Len(rs) + 1) \in Hashes
  <2>1. GenesisHash \in Hashes
    BY EmptySeq DEF GenesisHash, Hashes
  <2>2. CASE Len(rs) = 0
    BY <2>1, <2>2 DEF HashBefore
  <2>3. CASE Len(rs) # 0
    <3>1. rs[Len(rs)] \in AuditRecord /\ Len(rs) + 1 # 1 /\ Len(rs) + 1 - 1 = Len(rs)
      BY <2>3
    <3> QED BY <3>1 DEF HashBefore, AuditRecord
  <2> QED BY <2>2, <2>3
<1>2. Len(rs) + 1 \in Nat
  OBVIOUS
<1> QED BY <1>1, <1>2 DEF StateOf, LedgerState

(* The record append builds, field by field.                                  *)
LEMMA NewRecordType ==
    ASSUME NEW s \in LedgerState, NEW e \in Payloads
    PROVE  /\ NewRecord(s, e) \in AuditRecord
           /\ NewRecord(s, e).sequence = s.next_sequence
           /\ NewRecord(s, e).payload = e
           /\ NewRecord(s, e).previous_hash = s.last_hash
           /\ NewRecord(s, e).record_hash = RecordHash(s.last_hash, s.next_sequence, e)
<1>1. RecordHash(s.last_hash, s.next_sequence, e) \in Hashes
  BY DEF RecordHash, Hashes, LedgerState
<1> QED BY <1>1 DEF NewRecord, AuditRecord, LedgerState

(* What the write of a line does to the chain.                                *)
LEMMA AppendKeepsChain ==
    ASSUME NEW rs \in Seq(AuditRecord), NEW e \in Payloads,
           \A i \in 1..Len(rs) : RecordVerifies(rs, i)
    PROVE  LET ns == Append(rs, NewRecord(StateOf(rs), e))
           IN  \A i \in 1..Len(ns) : RecordVerifies(ns, i)
<1> DEFINE r == NewRecord(StateOf(rs), e)
           ns == Append(rs, r)
<1>1. /\ r \in AuditRecord
      /\ r.sequence = Len(rs) + 1
      /\ r.payload = e
      /\ r.previous_hash = HashBefore(rs, Len(rs) + 1)
      /\ r.record_hash = RecordHash(r.previous_hash, r.sequence, r.payload)
  BY StateOfType, NewRecordType
<1> HIDE DEF r
<1>2. /\ ns \in Seq(AuditRecord) /\ Len(ns) = Len(rs) + 1
      /\ ns[Len(rs) + 1] = r
      /\ \A i \in 1..Len(rs) : ns[i] = rs[i]
  BY <1>1
<1> HIDE DEF ns
<1>3. \A i \in 1..Len(rs) + 1 : HashBefore(ns, i) = HashBefore(rs, i)
  BY <1>2 DEF HashBefore
<1>4. ASSUME NEW i \in 1..Len(ns) PROVE RecordVerifies(ns, i)
  <2>1. CASE i \in 1..Len(rs)
    BY <2>1, <1>2, <1>3 DEF RecordVerifies
  <2>2. CASE i = Len(rs) + 1
    BY <2>2, <1>1, <1>2, <1>3 DEF RecordVerifies
  <2> QED BY <2>1, <2>2, <1>2
<1> QED BY <1>4 DEF ns, r

(* An empty file without processes satisfies the inductive invariant ...      *)
LEMMA InitIInv == Init => IInv
<1> SUFFICES ASSUME Init PROVE IInv
  OBVIOUS
<1>1. << >> \in Seq(AuditRecord) /\ << >> \in Seq(Payloads)
  BY EmptySeq
<1>a. StateOf(<< >>) \in LedgerState
  BY <1>1, StateOfType
<1>2. TypeOK
  BY <1>1, <1>a DEF Init, TypeOK, Steps
<1>3. LockOwnership /\ NoLeakedLock
  BY NoProcAssumption DEF Init, LockOwnership, NoLeakedLock, Inside
<1>4. ChainIntact /\ AckedDurable /\ AppendInProgress
  BY DEF Init, ChainIntact, AckedDurable, AppendInProgress
<1> QED BY <1>2, <1>3, <1>4 DEF IInv

(* ... and every step of every process preserves it.                          *)
LEMMA NextIInv == IInv /\ [Next]_vars => IInv'
<1> SUFFICES ASSUME IInv, [Next]_vars PROVE IInv'
  OBVIOUS
<1> USE NoProcAssumption DEF IInv
<1>s. \A rs \in Seq(AuditRecord) : StateOf(rs) \in LedgerState
  BY StateOfType
<1>1. ASSUME NEW p \in Procs, Open(p) PROVE IInv'
  <2>1. TypeOK'
    BY <1>1 DEF Open, Acquire, TypeOK, Steps, Inside
  <2>2. (LockOwnership /\ NoLeakedLock)'
    BY <1>1 DEF Open, Acquire, TypeOK, LockOwnership, NoLeakedLock, Inside
  <2>3. (ChainIntact /\ AckedDurable /\ AppendInProgress)'
    BY <1>1 DEF Open, Acquire, TypeOK, ChainIntact, AckedDurable, AppendInProgress
  <2> QED BY <2>1, <2>2, <2>3
<1>2. ASSUME NEW p \in Procs, FinishOpen(p) PROVE IInv'
  <2>1. TypeOK'
    BY <1>2, <1>s DEF FinishOpen, Release, TypeOK, Steps, Inside
  <2>2. (LockOwnership /\ NoLeakedLock)'
    BY <1>2 DEF FinishOpen, Release, TypeOK, LockOwnership, NoLeakedLock, Inside
  <2>3. (ChainIntact /\ AckedDurable)'
    BY <1>2 DEF FinishOpen, ChainIntact, AckedDurable
  <2>4. AppendInProgress'
    <3>1. /\ \A q \in Procs : q # p => pc'[q] = pc[q] /\ state'[q] = state[q]
          /\ pc'[p] \in {"idle", "down"}
      BY <1>2 DEF FinishOpen, Release, TypeOK
    <3> QED BY <1>2, <3>1 DEF FinishOpen, AppendInProgress
  <2> QED BY <2>1, <2>2, <2>3, <2>4
<1>3. ASSUME NEW p \in Procs, NEW e \in Payloads, CallAppend(p, e) PROVE IInv'
  <2>1. TypeOK'
    BY <1>3 DEF CallAppend, Acquire, TypeOK, Steps, Inside
  <2>2. (LockOwnership /\ NoLeakedLock)'
    BY <1>3 DEF CallAppend, Acquire, TypeOK, LockOwnership, NoLeakedLock, Inside
  <2>3. (ChainIntact /\ AckedDurable /\ AppendInProgress)'
    BY <1>3 DEF CallAppend, Acquire, TypeOK, ChainIntact, AckedDurable, AppendInProgress
  <2> QED BY <2>1, <2>2, <2>3
<1>4. ASSUME NEW p \in Procs, VerifyForAppend(p) PROVE IInv'
  <2>1. TypeOK'
    BY <1>4, <1>s DEF VerifyForAppend, Release, TypeOK, Steps, Inside
  <2>2. (LockOwnership /\ NoLeakedLock)'
    BY <1>4 DEF VerifyForAppend, Release, TypeOK, LockOwnership, NoLeakedLock, Inside
  <2>3. (ChainIntact /\ AckedDurable)'
    BY <1>4 DEF VerifyForAppend, ChainIntact, AckedDurable
  <2>4. AppendInProgress'
    <3>1. \A q \in Procs : q # p => /\ pc'[q] = pc[q] /\ state'[q] = state[q]
                                    /\ pending'[q] = pending[q]
      BY <1>4 DEF VerifyForAppend, Release, TypeOK
    <3>2. \/ /\ pc'[p] = "verified" /\ state'[p] = StateOf(records) /\ ~torn
             /\ pending'[p] = pending[p]
          \/ pc'[p] = "idle" /\ pending'[p] = {}
      BY <1>4 DEF VerifyForAppend, Release, TypeOK, Verifies
    <3> QED BY <1>4, <3>1, <3>2 DEF VerifyForAppend, AppendInProgress
  <2> QED BY <2>1, <2>2, <2>3, <2>4
<1>5. ASSUME NEW p \in Procs, BeginWrite(p) PROVE IInv'
  <2>1. TypeOK'
    BY <1>5 DEF BeginWrite, TypeOK, Steps, Inside
  <2>2. (LockOwnership /\ NoLeakedLock)'
    BY <1>5 DEF BeginWrite, TypeOK, LockOwnership, NoLeakedLock, Inside
  <2>3. (ChainIntact /\ AckedDurable)'
    BY <1>5 DEF BeginWrite, ChainIntact, AckedDurable
  <2>4. AppendInProgress'
    <3>1. \A q \in Procs : q # p => pc'[q] = pc[q] /\ pc[q] \notin Inside
      BY <1>5 DEF BeginWrite, TypeOK, LockOwnership, Inside
    <3>2. pc'[p] = "writing" /\ pc[p] = "verified"
      BY <1>5 DEF BeginWrite, TypeOK
    <3> QED BY <1>5, <3>1, <3>2 DEF BeginWrite, AppendInProgress, Inside
  <2> QED BY <2>1, <2>2, <2>3, <2>4
<1>6. ASSUME NEW p \in Procs, CompleteWrite(p) PROVE IInv'
  <2>1. PICK e \in pending[p] : records' = Append(records, NewRecord(state[p], e))
    BY <1>6 DEF CompleteWrite
  <2>2. e \in Payloads /\ state[p] = StateOf(records) /\ records \in Seq(AuditRecord)
        /\ state[p] \in LedgerState
    BY <1>6, <2>1 DEF CompleteWrite, TypeOK, AppendInProgress
  <2>3. NewRecord(state[p], e) \in AuditRecord
    BY <2>2, NewRecordType
  <2>4. TypeOK'
    <3>1. records' \in Seq(AuditRecord)
      BY <2>1, <2>2, <2>3, AppendProperties
    <3> QED BY <1>6, <3>1 DEF CompleteWrite, TypeOK, Steps, Inside
  <2>5. (LockOwnership /\ NoLeakedLock)'
    BY <1>6 DEF CompleteWrite, TypeOK, LockOwnership, NoLeakedLock, Inside
  <2>6. ChainIntact'
    BY <2>1, <2>2, AppendKeepsChain DEF ChainIntact
  <2>7. /\ Len(records') = Len(records) + 1
        /\ records'[Len(records) + 1] = NewRecord(state[p], e)
        /\ \A i \in 1..Len(records) : records'[i] = records[i]
    BY <2>1, <2>2, <2>3
  <2>8. AckedDurable'
    BY <1>6, <2>2, <2>7 DEF CompleteWrite, AckedDurable
  <2>9. AppendInProgress'
    <3> SUFFICES ASSUME NEW q \in Procs
                 PROVE  /\ \A ee, f \in pending'[q] : ee = f
                        /\ pc'[q] \in {"verified", "writing"} => state'[q] = StateOf(records')
                        /\ pc'[q] = "verified" => ~torn'
                        /\ pc'[q] = "written" =>
                             /\ state'[q].next_sequence = Len(records')
                             /\ \A ee \in pending'[q] :
                                  /\ records' # << >>
                                  /\ records'[Len(records')] = NewRecord(state'[q], ee)
      BY DEF AppendInProgress
    <3>1. UNCHANGED <<state, pending>> /\ pc' = [pc EXCEPT ![p] = "written"]
      BY <1>6 DEF CompleteWrite
    <3>2. CASE q = p
      <4>1. state'[q].next_sequence = Len(records')
        BY <3>1, <3>2, <2>2, <2>7, StateOfType
      <4>2. records' # << >>
        BY <2>2, <2>7
      <4> QED BY <3>1, <3>2, <2>1, <2>2, <2>7, <4>1, <4>2 DEF AppendInProgress, TypeOK
    <3>3. CASE q # p
      <4>1. pc[q] \notin Inside
        BY <1>6, <3>3 DEF LockOwnership, CompleteWrite, Inside
      <4> QED BY <3>1, <3>3, <4>1 DEF AppendInProgress, TypeOK, Inside
    <3> QED BY <3>2, <3>3
  <2> QED BY <2>4, <2>5, <2>6, <2>8, <2>9
<1>7. ASSUME NEW p \in Procs, ReturnAppend(p) PROVE IInv'
  <2>1. PICK e \in pending[p] :
          LET record == NewRecord(state[p], e)
          IN /\ state' = [state EXCEPT ![p] =
                            [next_sequence |-> record.sequence + 1,
                             last_hash |-> record.record_hash]]
             /\ acked' = acked \cup {<<record.sequence, e>>}
    BY <1>7 DEF ReturnAppend
  <2>2. e \in Payloads /\ state[p] \in LedgerState /\ records \in Seq(AuditRecord)
    BY <1>7, <2>1 DEF TypeOK
  <2>3. /\ NewRecord(state[p], e).sequence = Len(records)
        /\ NewRecord(state[p], e).payload = e
        /\ NewRecord(state[p], e).record_hash \in Hashes
        /\ records[Len(records)] = NewRecord(state[p], e)
        /\ records # << >>
    BY <1>7, <2>1, <2>2, NewRecordType DEF ReturnAppend, AppendInProgress, AuditRecord
  <2>4. TypeOK'
    <3>1. state' \in [Procs -> LedgerState]
      BY <2>1, <2>2, <2>3 DEF TypeOK, LedgerState
    <3>2. acked' \in SUBSET (Nat \X Payloads)
      BY <2>1, <2>2, <2>3 DEF TypeOK
    <3> QED BY <1>7, <3>1, <3>2 DEF ReturnAppend, Release, TypeOK, Steps, Inside
  <2>5. (LockOwnership /\ NoLeakedLock)'
    BY <1>7 DEF ReturnAppend, Release, TypeOK, LockOwnership, NoLeakedLock, Inside
  <2>6. ChainIntact'
    BY <1>7 DEF ReturnAppend, ChainIntact
  <2>7. AckedDurable'
    BY <1>7, <2>1, <2>2, <2>3 DEF ReturnAppend, AckedDurable
  <2>8. AppendInProgress'
    BY <1>7, <2>1 DEF ReturnAppend, Release, TypeOK, AppendInProgress, Steps
  <2> QED BY <2>4, <2>5, <2>6, <2>7, <2>8
<1>8. ASSUME NEW p \in Procs, WriteFails(p) PROVE IInv'
  <2>1. TypeOK'
    BY <1>8 DEF WriteFails, Release, TypeOK, Steps, Inside
  <2>2. (LockOwnership /\ NoLeakedLock)'
    BY <1>8 DEF WriteFails, Release, TypeOK, LockOwnership, NoLeakedLock, Inside
  <2>3. (ChainIntact /\ AckedDurable /\ AppendInProgress)'
    BY <1>8 DEF WriteFails, Release, TypeOK, ChainIntact, AckedDurable, AppendInProgress
  <2> QED BY <2>1, <2>2, <2>3
<1>9. ASSUME NEW p \in Procs, CallSnapshot(p) PROVE IInv'
  <2>1. TypeOK'
    BY <1>9 DEF CallSnapshot, Acquire, TypeOK, Steps, Inside
  <2>2. (LockOwnership /\ NoLeakedLock)'
    BY <1>9 DEF CallSnapshot, Acquire, TypeOK, LockOwnership, NoLeakedLock, Inside
  <2>3. (ChainIntact /\ AckedDurable /\ AppendInProgress)'
    BY <1>9 DEF CallSnapshot, Acquire, TypeOK, ChainIntact, AckedDurable, AppendInProgress
  <2> QED BY <2>1, <2>2, <2>3
<1>10. ASSUME NEW p \in Procs, FinishSnapshot(p) PROVE IInv'
  <2>1. PayloadsOf(records) \in Seq(Payloads)
    <3>1. Len(records) \in Nat /\ \A i \in 1..Len(records) : records[i] \in AuditRecord
      BY ElementOfSeq, LenProperties DEF TypeOK
    <3>2. \A i \in 1..Len(records) : records[i].payload \in Payloads
      BY <3>1 DEF AuditRecord
    <3> QED BY <3>1, <3>2, IsASeq DEF PayloadsOf
  <2>2. TypeOK'
    BY <1>10, <1>s, <2>1, ZenonT(40) DEF FinishSnapshot, Release, TypeOK, Steps, Inside
  <2>3. (LockOwnership /\ NoLeakedLock)'
    BY <1>10 DEF FinishSnapshot, Release, TypeOK, LockOwnership, NoLeakedLock, Inside
  <2>4. (ChainIntact /\ AckedDurable /\ AppendInProgress)'
    BY <1>10 DEF FinishSnapshot, Release, TypeOK, ChainIntact, AckedDurable, AppendInProgress
  <2> QED BY <2>2, <2>3, <2>4
<1>11. ASSUME NEW p \in Procs, Crash(p) PROVE IInv'
  <2>1. TypeOK'
    BY <1>11 DEF Crash, TypeOK, Steps, Inside
  <2>2. (LockOwnership /\ NoLeakedLock)'
    BY <1>11 DEF Crash, TypeOK, LockOwnership, NoLeakedLock, Inside
  <2>3. (ChainIntact /\ AckedDurable /\ AppendInProgress)'
    BY <1>11 DEF Crash, TypeOK, ChainIntact, AckedDurable, AppendInProgress
  <2> QED BY <2>1, <2>2, <2>3
<1>12. ASSUME ClearStaleLock PROVE IInv'
  <2>1. TypeOK'
    BY <1>12 DEF ClearStaleLock, TypeOK
  <2>2. (LockOwnership /\ NoLeakedLock)'
    BY <1>12 DEF ClearStaleLock, TypeOK, LockOwnership, NoLeakedLock, Inside
  <2>3. (ChainIntact /\ AckedDurable /\ AppendInProgress)'
    BY <1>12 DEF ClearStaleLock, ChainIntact, AckedDurable, AppendInProgress
  <2> QED BY <2>1, <2>2, <2>3
<1>13. CASE UNCHANGED vars
  BY <1>13 DEF vars, TypeOK, LockOwnership, NoLeakedLock, ChainIntact, AckedDurable,
               AppendInProgress
<1> QED
  BY <1>1, <1>2, <1>3, <1>4, <1>5, <1>6, <1>7, <1>8, <1>9, <1>10, <1>11, <1>12, <1>13
  DEF Next, Advance

(* The inductive invariant: lock ownership makes AppendInProgress stable,     *)
(* AppendInProgress makes every written line continue the chain.              *)
THEOREM LedgerInvariant == Spec => []IInv
BY InitIInv, NextIInv, PTL DEF Spec

(* AuditLedger's data keep their types.                                       *)
THEOREM TypeCorrect == Spec => []TypeOK
BY LedgerInvariant, PTL DEF IInv

(* _process_lock excludes: at most one process is inside an operation.        *)
THEOREM MutualExclusion == Spec => []LockOwnership
BY LedgerInvariant, PTL DEF IInv

(* No exception path of append, snapshot or the constructor leaks the lock.   *)
THEOREM LockNeverLeaks == Spec => []NoLeakedLock
BY LedgerInvariant, PTL DEF IInv

(* append always continues a valid chain: _verify_locked accepts every        *)
(* complete line any interleaving of processes has written.                   *)
THEOREM ChainAlwaysIntact == Spec => []ChainIntact
BY LedgerInvariant, PTL DEF IInv

(* What append returned stays at the sequence it returned.                    *)
THEOREM AckedAlwaysDurable == Spec => []AckedDurable
BY LedgerInvariant, PTL DEF IInv

-----------------------------------------------------------------------------
(* What readers see of the file is a sequence of payloads of its length, ...  *)
LEMMA PayloadsOfType ==
    ASSUME NEW rs \in Seq(AuditRecord)
    PROVE  /\ PayloadsOf(rs) \in Seq(Payloads)
           /\ Len(PayloadsOf(rs)) = Len(rs)
           /\ DOMAIN PayloadsOf(rs) = 1..Len(rs)
<1>1. Len(rs) \in Nat /\ \A i \in 1..Len(rs) : rs[i] \in AuditRecord
  BY ElementOfSeq, LenProperties
<1>2. \A i \in 1..Len(rs) : rs[i].payload \in Payloads
  BY <1>1 DEF AuditRecord
<1> QED BY <1>1, <1>2 DEF PayloadsOf

(* ... and a completed line appends one payload to it.                        *)
LEMMA PayloadsOfAppend ==
    ASSUME NEW rs \in Seq(AuditRecord), NEW r \in AuditRecord
    PROVE  PayloadsOf(Append(rs, r)) = Append(PayloadsOf(rs), r.payload)
<1> DEFINE ns == Append(rs, r)
           ps == Append(PayloadsOf(rs), r.payload)
<1>1. r.payload \in Payloads
  BY DEF AuditRecord
<1>2. /\ ns \in Seq(AuditRecord) /\ Len(ns) = Len(rs) + 1
      /\ ns[Len(rs) + 1] = r /\ \A i \in 1..Len(rs) : ns[i] = rs[i]
  BY AppendProperties
<1>3. /\ PayloadsOf(ns) \in Seq(Payloads) /\ Len(PayloadsOf(ns)) = Len(rs) + 1
      /\ \A i \in 1..Len(rs) + 1 : PayloadsOf(ns)[i] = ns[i].payload
  BY <1>2, PayloadsOfType DEF PayloadsOf
<1>4. /\ ps \in Seq(Payloads) /\ Len(ps) = Len(rs) + 1
      /\ ps[Len(rs) + 1] = r.payload
      /\ \A i \in 1..Len(rs) : ps[i] = rs[i].payload
  BY <1>1, PayloadsOfType, AppendProperties DEF PayloadsOf
<1> HIDE DEF ns, ps
<1>5. \A i \in 1..Len(PayloadsOf(ns)) : PayloadsOf(ns)[i] = ps[i]
  <2> SUFFICES ASSUME NEW i \in 1..Len(rs) + 1 PROVE PayloadsOf(ns)[i] = ps[i]
    BY <1>3
  <2>1. CASE i \in 1..Len(rs)
    BY <2>1, <1>2, <1>3, <1>4
  <2>2. CASE i = Len(rs) + 1
    BY <2>2, <1>2, <1>3, <1>4
  <2> QED BY <2>1, <2>2
<1>6. PayloadsOf(ns) = ps
  BY <1>3, <1>4, <1>5, SeqEqual
<1> QED BY <1>6 DEF ns, ps

(* An empty file is the empty log, ...                                        *)
LEMMA InitRefines == Init => Log!Init
<1>1. PayloadsOf(<< >>) = << >>
  BY DEF PayloadsOf
<1> QED BY <1>1 DEF Init, Log!Init

(* ... and every step of the ledger appends one payload to the log or leaves  *)
(* it alone.                                                                  *)
LEMMA NextRefines == IInv /\ [Next]_vars => [Log!Next]_(Log!vars)
<1> SUFFICES ASSUME IInv, [Next]_vars PROVE [Log!Next]_(Log!vars)
  OBVIOUS
<1>t. TypeOK /\ records \in Seq(AuditRecord)
  BY DEF IInv, TypeOK
<1>1. ASSUME NEW p \in Procs, CompleteWrite(p) PROVE Log!Next
  <2>1. PICK e \in pending[p] : records' = Append(records, NewRecord(state[p], e))
    BY <1>1 DEF CompleteWrite
  <2>2. e \in Payloads /\ state[p] \in LedgerState
    BY <1>t, <2>1 DEF TypeOK
  <2>3. PayloadsOf(records') = Append(PayloadsOf(records), e)
    BY <1>t, <2>1, <2>2, NewRecordType, PayloadsOfAppend
  <2>4. Log!Commit(e)
    BY <1>1, <2>3 DEF CompleteWrite, Log!Commit
  <2> QED BY <2>2, <2>4 DEF Log!Next
<1>2. ASSUME NEW p \in Procs, ReturnAppend(p) PROVE Log!Next
  <2>1. PICK e \in pending[p] : acked' = acked \cup {<<NewRecord(state[p], e).sequence, e>>}
    BY <1>2 DEF ReturnAppend
  <2>2. e \in Payloads /\ state[p] \in LedgerState
    BY <1>t, <2>1 DEF TypeOK
  <2>3. /\ NewRecord(state[p], e).sequence = Len(records)
        /\ records[Len(records)].payload = e /\ Len(records) \in 1..Len(records)
    BY <1>2, <1>t, <2>1, <2>2, NewRecordType, EmptySeq
    DEF IInv, ReturnAppend, AppendInProgress
  <2>4. Len(records) \in DOMAIN PayloadsOf(records) /\ PayloadsOf(records)[Len(records)] = e
    BY <1>t, <2>3 DEF PayloadsOf
  <2>5. PayloadsOf(records') = PayloadsOf(records) /\ view' = view
    BY <1>2 DEF ReturnAppend
  <2>6. Log!Acknowledge
    BY <2>1, <2>3, <2>4, <2>5 DEF Log!Acknowledge
  <2> QED BY <2>6 DEF Log!Next
<1>3. ASSUME NEW p \in Procs, FinishSnapshot(p) PROVE [Log!Next]_(Log!vars)
  <2>1. Log!Read(p) \/ UNCHANGED <<records, view, acked>>
    BY <1>3 DEF FinishSnapshot, Log!Read
  <2> QED BY <2>1 DEF Log!Next, Log!vars
<1>4. ASSUME UNCHANGED <<records, view, acked>> PROVE [Log!Next]_(Log!vars)
  BY <1>4 DEF Log!vars
<1>5. \/ \E p \in Procs : CompleteWrite(p) \/ ReturnAppend(p) \/ FinishSnapshot(p)
      \/ UNCHANGED <<records, view, acked>>
  BY DEF Next, Advance, vars, Open, FinishOpen, CallAppend, VerifyForAppend, BeginWrite,
         WriteFails, CallSnapshot, Crash, ClearStaleLock
<1> QED BY <1>1, <1>2, <1>3, <1>4, <1>5

(* The ledger implements the append-only log: files, locks, torn lines and    *)
(* kills never show through to a caller as anything but a growing log.        *)
THEOREM Refinement == Spec => RefinesLog
<1>1. Init => Log!Init
  BY InitRefines
<1>2. IInv /\ [Next]_vars => [Log!Next]_(Log!vars)
  BY NextRefines
<1> QED BY <1>1, <1>2, LedgerInvariant, PTL DEF Spec, RefinesLog, Log!Spec

(* No record follows a line that its writer abandoned.                        *)
THEOREM TornFailsClosed == Spec => TornStopsAppends
<1>1. IInv /\ AbandonedLine /\ [Next]_vars => AbandonedLine'
  <2> SUFFICES ASSUME IInv, AbandonedLine, [Next]_vars PROVE AbandonedLine'
    OBVIOUS
  <2>1. \A p \in Procs : pc[p] # "writing" /\ pc[p] # "verified"
    BY DEF IInv, AbandonedLine, AppendInProgress
  <2>2. ASSUME NEW p \in Procs, VerifyForAppend(p) PROVE AbandonedLine'
    BY <2>1, <2>2 DEF VerifyForAppend, Verifies, AbandonedLine, Release, IInv, TypeOK
  <2>3. ASSUME NEW p \in Procs,
               \/ Open(p) \/ FinishOpen(p) \/ ReturnAppend(p) \/ WriteFails(p)
               \/ CallSnapshot(p) \/ FinishSnapshot(p) \/ Crash(p)
               \/ \E e \in Payloads : CallAppend(p, e)
        PROVE  AbandonedLine'
    BY <2>1, <2>3 DEF AbandonedLine, Open, FinishOpen, ReturnAppend, WriteFails, CallAppend,
         CallSnapshot, FinishSnapshot, Crash, Acquire, Release, IInv, TypeOK
  <2>4. ASSUME UNCHANGED <<torn, pc>> PROVE AbandonedLine'
    BY <2>4 DEF AbandonedLine
  <2>5. ASSUME NEW p \in Procs, BeginWrite(p) \/ CompleteWrite(p) PROVE FALSE
    BY <2>1, <2>5 DEF BeginWrite, CompleteWrite
  <2> QED BY <2>2, <2>3, <2>4, <2>5 DEF Next, Advance, ClearStaleLock, vars
<1>2. AbandonedLine => torn
  BY DEF AbandonedLine
<1> QED BY <1>1, <1>2, LedgerInvariant, PTL DEF Spec, TornStopsAppends
=============================================================================
