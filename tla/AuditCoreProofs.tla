-------------------------- MODULE AuditCoreProofs --------------------------
(* Theorems about AuditCore, for any rules, any number of emissions, other    *)
(* processes and faults: a one-shot rule is audited once, a firing that is    *)
(* held has its record, a returned emit has audited all it owed, and, while   *)
(* every BEFORE rule is repeatable, the ledger passes the trigger contract.   *)
(* The invariant has one part per fact the emission in progress owes:         *)
(*   JobShape   what the phase says of event, rules and sequence;             *)
(*   OneShots   a one-shot rule on record is held, one that is due is not on  *)
(*              record;                                                       *)
(*   Firings    a held key is on record, dropped, or about to be recorded;    *)
(*   Owed       which of the records that an event owes exist by now;         *)
(*   Predicted  the predicted sequence is as far ahead as records are due.    *)
EXTENDS AuditCore, FiniteSetTheorems, WellFoundedInduction, TLAPS

JobShape ==
    /\ job.phase = "idle" => job = Idle
    /\ ~up => job = Idle
    /\ job.phase = "before" => job.event \in Events /\ job.due \subseteq BeforeRules(job.event)
    /\ job.phase = "after" => /\ job.event \in Events /\ job.due \subseteq AfterRules(job.event)
                              /\ job.at \in DOMAIN log /\ log[job.at].type = job.event
    /\ job.phase = "time" => /\ job.at = 0 /\ job.failures = 0
                             /\ \A i \in job.due : Rules[i].kind = "time"

OneShots ==
    \A i \in DOMAIN Rules : ~Rules[i].repeatable =>
        /\ \A m, n \in Fired(Rules[i].id) : m = n
        /\ up /\ Fired(Rules[i].id) # {} => OnceKey(Rules[i]) \in fired
        /\ i \in job.due => Fired(Rules[i].id) = {} /\ OnceKey(Rules[i]) \in fired

Firings ==
    \A k \in fired : \/ Fired(k[1]) # {}
                     \/ k[1] \in dropped
                     \/ \E i \in job.due : Rules[i].id = k[1]

(* The records of rule i that name sequence s, and the errors between two.    *)
Named(i, s) == {n \in DOMAIN log : log[n].rule = Rules[i].id /\ log[n].matched = s}
Errors(a, b) == {n \in (a + 1)..b : log[n].type = "error"}

(* What the records say of the ones they name.                                *)
AuditsTrue ==
    \A n \in DOMAIN log :
        /\ log[n].rule = NoRule => log[n].matched = 0
        /\ \A i \in DOMAIN Rules : log[n].rule = Rules[i].id => log[n].relation = Rules[i].relation
        /\ log[n].relation # "before" /\ log[n].matched # 0
             => log[n].matched < n /\ log[log[n].matched].type = log[n].event

OwedNow ==
    /\ job.phase = "before" => job.failed = job.failures
    /\ job.phase = "after" =>
         /\ \A i \in AfterRules(job.event) : Rules[i].repeatable =>
              IF i \in job.due THEN Named(i, job.at) = {} ELSE \E n \in DOMAIN log : Named(i, job.at) = {n}
         /\ job.failed <= job.failures + Cardinality(Errors(job.at, Len(log)))
         /\ \A x \in returned : x.seq # job.at

OwedBefore ==
    \A x \in returned :
        /\ x.seq \in DOMAIN log /\ x.end \in x.seq..Len(log)
        /\ \A i \in AfterRules(log[x.seq].type) :
             Rules[i].repeatable => \E n \in DOMAIN log : Named(i, x.seq) = {n}
        /\ x.failed <= Cardinality(Errors(x.seq, x.end))

KeysBehind == \A k \in fired : k[2] = "after" => k[3] <= Len(log)

Owed == AuditsTrue /\ OwedNow /\ OwedBefore /\ KeysBehind

CoreInv == TypeOK /\ JobShape /\ OneShots /\ Firings /\ Owed

BeforeRepeatable ==
    \A i \in DOMAIN Rules : Rules[i].kind = "message" /\ Rules[i].relation = "before" => Rules[i].repeatable

Predicted ==
    ~shifted =>
      /\ \A n \in DOMAIN log : log[n].relation = "before" /\ log[n].matched # 0 =>
           \/ log[n].matched \in (n + 1)..Len(log) /\ log[log[n].matched].type = log[n].event
           \/ job.phase = "before" /\ log[n].matched = job.at /\ log[n].event = job.event
      /\ job.phase = "before" => job.at = Len(log) + 1 + Cardinality(job.due)
      /\ \A k \in fired : k[2] = "before" => \/ k[3] <= Len(log)
                                             \/ job.phase = "before" /\ k[3] = job.at

-----------------------------------------------------------------------------
(* What appending does to the ledger.                                         *)
LEMMA Appended ==
    ASSUME NEW S, NEW s \in Seq(S), NEW r \in S
    PROVE  /\ Append(s, r) \in Seq(S)
           /\ Len(s) \in Nat /\ Len(Append(s, r)) = Len(s) + 1
           /\ DOMAIN s = 1..Len(s) /\ DOMAIN Append(s, r) = 1..(Len(s) + 1)
           /\ \A n \in 1..Len(s) : Append(s, r)[n] = s[n]
           /\ Append(s, r)[Len(s) + 1] = r
    OBVIOUS

(* There are finitely many rules, so a selection of them has a size.          *)
LEMMA SelectionsFinite ==
    ASSUME NEW S \in SUBSET (DOMAIN Rules)
    PROVE  IsFiniteSet(S) /\ Cardinality(S) \in Nat
<1>1. IsFiniteSet(1..Len(Rules))
  BY RulesAssumption, FS_Interval
<1>2. DOMAIN Rules = 1..Len(Rules)
  BY RulesAssumption
<1> QED
  BY <1>1, <1>2, FS_Subset, FS_CardinalityType

(* Of the rules that are due one was registered first.                        *)
LEMMA FirstIsDue ==
    ASSUME NEW due \in SUBSET (DOMAIN Rules), due # {}
    PROVE  First(due) \in due
<1>1. DOMAIN Rules \subseteq Nat
  BY RulesAssumption
<1>2. \E x \in due : \A y \in due : ~ (<<y, x>> \in OpToRel(<, Nat))
  BY <1>1, NatLessThanWellFounded, WFMin
<1>3. PICK x \in due : \A y \in due : ~ (<<y, x>> \in OpToRel(<, Nat))
  BY <1>2
<1>4. ASSUME NEW y \in due PROVE x <= y
  <2>1. x \in Nat /\ y \in Nat
    BY <1>1
  <2>2. <<y, x>> \notin {z \in Nat \X Nat : z[1] < z[2]}
    BY <1>3 DEF OpToRel
  <2>3. <<y, x>> \in Nat \X Nat /\ <<y, x>>[1] = y /\ <<y, x>>[2] = x
    BY <2>1
  <2> QED
    BY <2>1, <2>2, <2>3
<1> QED
  BY <1>4 DEF First

(* What is said of a rule by its place.                                       *)
LEMMA RuleFacts ==
    ASSUME NEW i \in DOMAIN Rules
    PROVE  /\ Rules[i].id \in Ids /\ Rules[i].id # NoRule
           /\ Rules[i].relation \in {"before", "on", "after"}
           /\ Rules[i].repeatable \in BOOLEAN
           /\ \A j \in DOMAIN Rules : Rules[i].id = Rules[j].id => i = j
<1>1. Rules[i] \in [id : Ids, kind : {"message", "time"}, relation : {"before", "on", "after"},
                    event : Events \cup {AnyEvent}, repeatable : BOOLEAN, target : Int]
  <2> DEFINE Shape == [id : Ids, kind : {"message", "time"}, relation : {"before", "on", "after"},
                       event : Events \cup {AnyEvent}, repeatable : BOOLEAN, target : Int]
  <2>1. Rules \in Seq(Shape)
    BY RulesAssumption
  <2>2. Rules[i] \in Shape
    <3> HIDE DEF Shape
    <3> QED BY <2>1
  <2> QED
    BY <2>2
<1> QED
  BY <1>1, RulesAssumption

(* A key names its rule, and a number only if the rule is repeatable.         *)
LEMMA KeyFacts ==
    ASSUME NEW i \in DOMAIN Rules, NEW what \in {"before", "after", "time"}, NEW n \in Nat
    PROVE  LET k == Key(Rules[i], what, n) IN
           /\ k \in Ids \X {"once", "before", "after", "time"} \X Nat
           /\ k[1] = Rules[i].id
           /\ IF Rules[i].repeatable THEN k[2] = what /\ k[3] = n ELSE k = OnceKey(Rules[i]) /\ k[2] = "once"
    BY RuleFacts DEF Key, OnceKey

(* Records are records.                                                       *)
LEMMA RecordFacts ==
    /\ \A e \in Events \cup {"error"} :
         /\ EventRecord(e) \in Records /\ EventRecord(e).type = e /\ EventRecord(e).rule = NoRule
         /\ EventRecord(e).relation = "none" /\ EventRecord(e).matched = 0
    /\ \A i \in DOMAIN Rules, e \in Events \cup {AnyEvent}, s \in Nat :
         LET d == Decision(Rules[i], e, s) IN
         /\ d \in Records /\ d.type = "trigger.fired" /\ d.rule = Rules[i].id
         /\ d.relation = Rules[i].relation /\ d.event = e /\ d.matched = s
<1>1. ASSUME NEW e \in Events \cup {"error"}
      PROVE  /\ EventRecord(e) \in Records /\ EventRecord(e).type = e /\ EventRecord(e).rule = NoRule
             /\ EventRecord(e).relation = "none" /\ EventRecord(e).matched = 0
  BY DEF EventRecord, Records
<1>2. ASSUME NEW i \in DOMAIN Rules, NEW e \in Events \cup {AnyEvent}, NEW s \in Nat
      PROVE  LET d == Decision(Rules[i], e, s) IN
             /\ d \in Records /\ d.type = "trigger.fired" /\ d.rule = Rules[i].id
             /\ d.relation = Rules[i].relation /\ d.event = e /\ d.matched = s
  BY RuleFacts DEF Decision, Records
<1> QED
  BY <1>1, <1>2

(* The ledger after one more record, and what that does to the selections of  *)
(* records the properties speak of.                                           *)
LEMMA Grown ==
    ASSUME TypeOK, NEW r \in Records, log' = Append(log, r)
    PROVE  /\ log' \in Seq(Records) /\ Len(log) \in Nat /\ Len(log') = Len(log) + 1
           /\ DOMAIN log = 1..Len(log) /\ DOMAIN log' = 1..(Len(log) + 1)
           /\ \A n \in DOMAIN log : log'[n] = log[n]
           /\ log'[Len(log) + 1] = r
           /\ \A id : Fired(id)' = IF r.rule = id THEN Fired(id) \cup {Len(log) + 1} ELSE Fired(id)
           /\ \A i, s : Named(i, s)' = IF r.rule = Rules[i].id /\ r.matched = s
                                       THEN Named(i, s) \cup {Len(log) + 1} ELSE Named(i, s)
<1>1. /\ log' \in Seq(Records) /\ Len(log) \in Nat /\ Len(log') = Len(log) + 1
      /\ DOMAIN log = 1..Len(log) /\ DOMAIN log' = 1..(Len(log) + 1)
      /\ \A n \in 1..Len(log) : log'[n] = log[n]
      /\ log'[Len(log) + 1] = r
  <2>1. log \in Seq(Records)
    BY DEF TypeOK
  <2> QED
    BY <2>1, Appended
<1>2. ASSUME NEW id
      PROVE  Fired(id)' = IF r.rule = id THEN Fired(id) \cup {Len(log) + 1} ELSE Fired(id)
  BY <1>1 DEF Fired
<1>3. ASSUME NEW i, NEW s
      PROVE  Named(i, s)' = IF r.rule = Rules[i].id /\ r.matched = s
                            THEN Named(i, s) \cup {Len(log) + 1} ELSE Named(i, s)
  BY <1>1 DEF Named
<1> QED
  BY <1>1, <1>2, <1>3

(* The records an append can add.                                             *)
LEMMA Decided ==
    ASSUME TypeOK, AppendDecision
    PROVE  LET i == First(job.due)
               r == Decision(Rules[i], job.event, job.at)
           IN  /\ i \in job.due /\ i \in DOMAIN Rules
               /\ r \in Records /\ r.type = "trigger.fired" /\ r.rule = Rules[i].id
               /\ r.relation = Rules[i].relation /\ r.event = job.event /\ r.matched = job.at
               /\ log' = Append(log, r)
<1> DEFINE i == First(job.due)
<1>1. job.due \in SUBSET (DOMAIN Rules) /\ job.event \in Events \cup {AnyEvent} /\ job.at \in Nat
  BY DEF TypeOK, Jobs
<1>2. i \in job.due
  BY <1>1, FirstIsDue DEF AppendDecision
<1>3. i \in DOMAIN Rules
  BY <1>1, <1>2
<1> HIDE DEF i
<1>4. LET r == Decision(Rules[i], job.event, job.at)
      IN  /\ r \in Records /\ r.type = "trigger.fired" /\ r.rule = Rules[i].id
          /\ r.relation = Rules[i].relation /\ r.event = job.event /\ r.matched = job.at
  BY <1>1, <1>3, RecordFacts
<1> QED
  BY <1>2, <1>3, <1>4 DEF AppendDecision, i

(* Selections select, and keys are keys.                                      *)
LEMMA SelectionFacts ==
    /\ \A e : /\ BeforeRules(e) \subseteq DOMAIN Rules /\ AfterRules(e) \subseteq DOMAIN Rules
              /\ \A i \in BeforeRules(e) : Rules[i].relation = "before" /\ Rules[i].kind = "message"
              /\ \A i \in AfterRules(e) : Rules[i].relation # "before" /\ Rules[i].kind = "message"
    /\ \A t : /\ DueRules(t) \subseteq DOMAIN Rules
              /\ \A i \in DueRules(t) : Rules[i].kind = "time"
    /\ \A S, what, n : Fresh(S, what, n) \subseteq S
    BY DEF BeforeRules, AfterRules, MessageRules, DueRules, Fresh

(* The keys of due rules are keys.                                            *)
LEMMA KeysTyped ==
    ASSUME NEW due \in SUBSET (DOMAIN Rules), NEW what \in {"before", "after", "time"}, NEW n \in Nat
    PROVE  KeysOf(due, what, n) \subseteq Ids \X {"once", "before", "after", "time"} \X Nat
<1>1. ASSUME NEW i \in due
      PROVE  Key(Rules[i], what, n) \in Ids \X {"once", "before", "after", "time"} \X Nat
  BY KeyFacts
<1> QED
  BY <1>1 DEF KeysOf

-----------------------------------------------------------------------------
(* The emission in progress after each step that changes it.                  *)
LEMMA EmitJob ==
    ASSUME TypeOK, NEW e \in Events, Emit(e)
    PROVE  /\ PredictedSequence(e) \in Nat
           /\ job' \in Jobs /\ job'.phase = "before" /\ job'.event = e /\ job'.at = PredictedSequence(e)
           /\ job'.due = Fresh(BeforeRules(e), "before", PredictedSequence(e))
           /\ job'.due \subseteq BeforeRules(e) /\ job'.due \in SUBSET (DOMAIN Rules)
           /\ fired' = fired \cup KeysOf(job'.due, "before", job'.at)
           /\ up /\ job = Idle
<1> DEFINE seq == PredictedSequence(e)
           due == Fresh(BeforeRules(e), "before", seq)
<1>1. Cardinality(BeforeRules(e)) \in Nat
  BY SelectionFacts, SelectionsFinite
<1>2. Len(log) \in Nat
  BY DEF TypeOK
<1>3. seq \in Nat
  BY <1>1, <1>2 DEF PredictedSequence
<1>4. due \subseteq BeforeRules(e) /\ due \in SUBSET (DOMAIN Rules)
  BY SelectionFacts
<1>5. /\ fired' = fired \cup KeysOf(due, "before", seq) /\ up /\ job = Idle
      /\ \E n \in 0..MaxHookFailures : job' = [phase |-> "before", event |-> e, due |-> due, at |-> seq,
                                                failures |-> n, failed |-> n]
  BY DEF Emit
<1> HIDE DEF seq, due
<1>6. PICK n \in 0..MaxHookFailures : job' = [phase |-> "before", event |-> e, due |-> due, at |-> seq,
                                              failures |-> n, failed |-> n]
  BY <1>5
<1>7. /\ job' \in Jobs /\ job'.phase = "before" /\ job'.event = e /\ job'.at = seq /\ job'.due = due
  BY <1>3, <1>4, <1>6, RulesAssumption DEF Jobs
<1>8. due = Fresh(BeforeRules(e), "before", seq) /\ seq = PredictedSequence(e)
  BY DEF due, seq
<1> QED
  BY <1>3, <1>4, <1>5, <1>7, <1>8

(* What AppendDecision does to the emission in progress.                      *)
LEMMA DecisionJob ==
    ASSUME TypeOK, AppendDecision
    PROVE  /\ job' \in Jobs /\ job'.due = job.due \ {First(job.due)}
           /\ job'.phase = job.phase /\ job'.event = job.event /\ job'.at = job.at
           /\ job'.failures = job.failures /\ job'.failed = job.failed
           /\ fired' = fired /\ up' = up /\ returned' = returned /\ dropped' = dropped /\ shifted' = shifted
    BY DEF TypeOK, Jobs, AppendDecision, history

(* What AppendEvent does to it.                                               *)
LEMMA EventJob ==
    ASSUME TypeOK, JobShape, AppendEvent
    PROVE  /\ job' \in Jobs /\ job'.phase = "after" /\ job'.event = job.event /\ job'.at = Len(log) + 1
           /\ job'.due = Fresh(AfterRules(job.event), "after", Len(log) + 1)
           /\ job'.due \subseteq AfterRules(job.event) /\ job'.due \in SUBSET (DOMAIN Rules)
           /\ \E n \in Nat : job'.failures = job.failures + n /\ job'.failed = job.failed + n
           /\ fired' = fired \cup KeysOf(job'.due, "after", Len(log) + 1)
           /\ job.event \in Events /\ Len(log) + 1 \in Nat
           /\ job.phase = "before" /\ job.due = {}
           /\ log' = Append(log, EventRecord(job.event))
           /\ up' = up /\ returned' = returned /\ dropped' = dropped /\ shifted' = shifted
<1> DEFINE seq == Len(log) + 1
           due == Fresh(AfterRules(job.event), "after", seq)
<1>2. Len(log) \in Nat /\ job \in Jobs
  BY DEF TypeOK
<1>3. seq \in Nat
  BY <1>2
<1>4. due \subseteq AfterRules(job.event) /\ due \in SUBSET (DOMAIN Rules)
  BY SelectionFacts
<1>5. /\ fired' = fired \cup KeysOf(due, "after", seq) /\ job.phase = "before" /\ job.due = {}
      /\ log' = Append(log, EventRecord(job.event))
      /\ \E n \in 0..MaxHookFailures : job' = [job EXCEPT !.phase = "after", !.due = due, !.at = seq,
                                !.failures = @ + n, !.failed = @ + n]
      /\ up' = up /\ returned' = returned /\ dropped' = dropped /\ shifted' = shifted
  BY DEF AppendEvent, history
<1> HIDE DEF seq, due
<1>6. PICK n \in 0..MaxHookFailures : job' = [job EXCEPT !.phase = "after", !.due = due, !.at = seq,
                                !.failures = @ + n, !.failed = @ + n]
  BY <1>5
<1>7. n \in Nat
  BY RulesAssumption
<1>8. /\ job' \in Jobs /\ job'.phase = "after" /\ job'.event = job.event /\ job'.at = seq /\ job'.due = due
      /\ job'.failures = job.failures + n /\ job'.failed = job.failed + n
  <2> DEFINE a == job.failures + n
             b == job.failed + n
  <2>1. a \in Nat /\ b \in Nat
    BY <1>2, <1>7 DEF Jobs
  <2>2. job' = [job EXCEPT !.phase = "after", !.due = due, !.at = seq, !.failures = a, !.failed = b]
    BY <1>2, <1>6 DEF Jobs
  <2>3. a = job.failures + n /\ b = job.failed + n
    OBVIOUS
  <2> HIDE DEF a, b
  <2>4. /\ job' \in Jobs /\ job'.phase = "after" /\ job'.event = job.event /\ job'.at = seq
        /\ job'.due = due /\ job'.failures = a /\ job'.failed = b
    BY <1>2, <1>3, <1>4, <2>1, <2>2 DEF Jobs
  <2> QED
    BY <2>3, <2>4
<1>9. due = Fresh(AfterRules(job.event), "after", Len(log) + 1) /\ seq = Len(log) + 1
  BY DEF due, seq
<1>10. job.event \in Events
  BY <1>5 DEF JobShape
<1> QED
  BY <1>3, <1>4, <1>5, <1>7, <1>8, <1>9, <1>10

(* What AppendHookFailure does to it.                                         *)
LEMMA FailureJob ==
    ASSUME TypeOK, AppendHookFailure
    PROVE  /\ job' \in Jobs /\ job'.due = job.due /\ job'.due = {} /\ job.phase = "after"
           /\ job'.phase = job.phase /\ job'.event = job.event /\ job'.at = job.at
           /\ job'.failures = job.failures - 1 /\ job'.failed = job.failed
           /\ log' = Append(log, EventRecord("error"))
           /\ fired' = fired /\ up' = up /\ returned' = returned /\ dropped' = dropped /\ shifted' = shifted
<1> DEFINE a == job.failures - 1
<1>1. job \in Jobs
  BY DEF TypeOK
<1>2. a \in Nat
  BY <1>1 DEF Jobs, AppendHookFailure
<1>3. job' = [job EXCEPT !.failures = a]
  BY <1>1 DEF Jobs, AppendHookFailure
<1>4. a = job.failures - 1
  OBVIOUS
<1> HIDE DEF a
<1>5. /\ job' \in Jobs /\ job'.due = job.due /\ job'.phase = job.phase /\ job'.event = job.event
      /\ job'.at = job.at /\ job'.failures = a /\ job'.failed = job.failed
  BY <1>1, <1>2, <1>3 DEF Jobs
<1>6. /\ job.phase = "after" /\ job.due = {} /\ log' = Append(log, EventRecord("error"))
      /\ fired' = fired /\ up' = up /\ returned' = returned /\ dropped' = dropped /\ shifted' = shifted
  BY DEF AppendHookFailure, ErrorRecord, history
<1> QED
  BY <1>4, <1>5, <1>6

(* What PollTime begins.                                                      *)
LEMMA PollJob ==
    ASSUME TypeOK, PollTime
    PROVE  /\ job' \in Jobs /\ job'.phase = "time" /\ job'.at = 0 /\ job'.failures = 0
           /\ job'.due = Fresh(DueRules(now), "time", now) /\ job'.due \subseteq DueRules(now)
           /\ job'.due \in SUBSET (DOMAIN Rules)
           /\ fired' = fired \cup KeysOf(job'.due, "time", now) /\ now \in Nat
           /\ up /\ job = Idle /\ up' = up /\ log' = log
           /\ returned' = returned /\ dropped' = dropped /\ shifted' = shifted
<1> DEFINE due == Fresh(DueRules(now), "time", now)
<1>1. due \subseteq DueRules(now) /\ due \in SUBSET (DOMAIN Rules)
  BY SelectionFacts
<1>2. /\ job' = [Idle EXCEPT !.phase = "time", !.due = due] /\ fired' = fired \cup KeysOf(due, "time", now)
      /\ up /\ job = Idle /\ up' = up /\ log' = log
      /\ returned' = returned /\ dropped' = dropped /\ shifted' = shifted
  BY DEF PollTime, history
<1>3. now \in Nat
  BY RulesAssumption DEF TypeOK
<1>4. due = Fresh(DueRules(now), "time", now)
  OBVIOUS
<1> HIDE DEF due
<1>5. job' \in Jobs /\ job'.phase = "time" /\ job'.at = 0 /\ job'.failures = 0 /\ job'.due = due
  BY <1>1, <1>2 DEF Jobs, Idle
<1> QED
  BY <1>1, <1>2, <1>3, <1>4, <1>5

(* No emission in progress.                                                   *)
LEMMA IdleFacts ==
    /\ Idle \in Jobs /\ Idle.phase = "idle" /\ Idle.due = {} /\ Idle.failures = 0
    BY DEF Idle, Jobs

-----------------------------------------------------------------------------
(* The shape of the state is kept, and with it what a phase says of the job.  *)
LEMMA TypeStep ==
    ASSUME TypeOK, JobShape, [Next]_vars
    PROVE  TypeOK'
<1>1. ASSUME NEW e \in Events, Emit(e) PROVE TypeOK'
  <2>1. KeysOf(job'.due, "before", job'.at) \subseteq Ids \X {"once", "before", "after", "time"} \X Nat
    <3>1. job'.due \in SUBSET (DOMAIN Rules) /\ job'.at \in Nat
      BY <1>1, EmitJob
    <3> QED
      BY <3>1, KeysTyped
  <2>2. job' \in Jobs /\ fired' = fired \cup KeysOf(job'.due, "before", job'.at)
    BY <1>1, EmitJob
  <2>3. UNCHANGED <<log, up, now, returned, dropped, shifted>>
    BY <1>1 DEF Emit, history
  <2> QED
    BY <2>1, <2>2, <2>3 DEF TypeOK
<1>2. ASSUME NEW e \in Events, OtherAppend(e) PROVE TypeOK'
  <2>1. log' = Append(log, EventRecord(e)) /\ EventRecord(e) \in Records
    BY <1>2, RecordFacts DEF OtherAppend
  <2>2. log' \in Seq(Records)
    BY <2>1, Grown
  <2> QED
    BY <1>2, <2>2 DEF OtherAppend, TypeOK
<1>3. CASE PollTime
  <2>1. KeysOf(job'.due, "time", now) \subseteq Ids \X {"once", "before", "after", "time"} \X Nat
    <3>1. job'.due \in SUBSET (DOMAIN Rules) /\ now \in Nat
      BY <1>3, PollJob
    <3> QED
      BY <3>1, KeysTyped
  <2>2. job' \in Jobs /\ fired' = fired \cup KeysOf(job'.due, "time", now)
    BY <1>3, PollJob
  <2>3. UNCHANGED <<log, up, now, returned, dropped, shifted>>
    BY <1>3 DEF PollTime, history
  <2> QED
    BY <2>1, <2>2, <2>3 DEF TypeOK
<1>4. CASE AppendDecision
  <2>1. log' \in Seq(Records)
    BY <1>4, Decided, Grown
  <2>2. job' \in Jobs
    BY <1>4, DecisionJob
  <2>3. UNCHANGED <<up, fired, now, returned, dropped, shifted>>
    BY <1>4 DEF AppendDecision, history
  <2> QED
    BY <2>1, <2>2, <2>3 DEF TypeOK
<1>5. CASE AppendEvent
  <2>1. KeysOf(job'.due, "after", Len(log) + 1) \subseteq Ids \X {"once", "before", "after", "time"} \X Nat
    <3>1. job'.due \in SUBSET (DOMAIN Rules) /\ Len(log) + 1 \in Nat
      BY <1>5, EventJob
    <3> QED
      BY <3>1, KeysTyped
  <2>2. /\ job' \in Jobs /\ fired' = fired \cup KeysOf(job'.due, "after", Len(log) + 1)
        /\ job.event \in Events /\ log' = Append(log, EventRecord(job.event))
    BY <1>5, EventJob
  <2>3. log' \in Seq(Records)
    BY <2>2, RecordFacts, Grown
  <2>4. UNCHANGED <<up, now, returned, dropped, shifted>>
    BY <1>5 DEF AppendEvent, history
  <2> QED
    BY <2>1, <2>2, <2>3, <2>4 DEF TypeOK
<1>6. CASE AppendHookFailure
  <2>1. log' \in Seq(Records)
    BY <1>6, FailureJob, RecordFacts, Grown
  <2>2. job' \in Jobs
    BY <1>6, FailureJob
  <2>3. UNCHANGED <<up, fired, now, returned, dropped, shifted>>
    BY <1>6 DEF AppendHookFailure, history
  <2> QED
    BY <2>1, <2>2, <2>3 DEF TypeOK
<1>7. CASE ReturnEmit
  <2>1. job.at \in Nat /\ job.failed \in Nat /\ Len(log) \in Nat
    BY DEF TypeOK, Jobs
  <2> QED
    BY <1>7, <2>1, IdleFacts DEF TypeOK, ReturnEmit, history
<1>8. CASE ReturnPoll
  BY <1>8, IdleFacts DEF TypeOK, ReturnPoll, history
<1>9. CASE AppendRaises
  <2>1. {Rules[i].id : i \in job.due} \subseteq Ids
    BY DEF TypeOK, Jobs, Ids
  <2>2. (shifted \/ job.phase = "before") \in BOOLEAN
    OBVIOUS
  <2> QED
    BY <1>9, <2>1, <2>2, IdleFacts DEF TypeOK, AppendRaises
<1>10. CASE Kill
  BY <1>10, IdleFacts DEF TypeOK, Kill
<1>11. CASE Restart
  <2>1. SeededKeys(log) \subseteq Ids \X {"once", "before", "after", "time"} \X Nat
    BY DEF SeededKeys, OnceKey, Ids
  <2> QED
    BY <1>11, <2>1 DEF TypeOK, Restart, history
<1>12. CASE Tick
  BY <1>12, RulesAssumption DEF TypeOK, Tick, history
<1>13. CASE UNCHANGED vars
  BY <1>13 DEF TypeOK, vars, history
<1> QED
  BY <1>1, <1>2, <1>3, <1>4, <1>5, <1>6, <1>7, <1>8, <1>9, <1>10, <1>11, <1>12, <1>13 DEF Next, Proceed

(* Every step keeps the shape of the emission in progress.                    *)
LEMMA ShapeStep ==
    ASSUME TypeOK, JobShape, [Next]_vars
    PROVE  JobShape'
<1> DEFINE Kept == /\ job' = job /\ up' = up
                   /\ \A n \in DOMAIN log : n \in DOMAIN log' /\ log'[n] = log[n]
<1>0. ASSUME Kept PROVE JobShape'
  BY <1>0 DEF JobShape
<1>00. ASSUME job' = Idle PROVE JobShape'
  BY <1>00, IdleFacts DEF JobShape
<1>1. ASSUME NEW e \in Events, Emit(e) PROVE JobShape'
  <2>1. job'.phase = "before" /\ job'.event = e /\ job'.due \subseteq BeforeRules(e) /\ up
    BY <1>1, EmitJob
  <2>2. up' = up
    BY <1>1 DEF Emit
  <2> QED
    BY <2>1, <2>2 DEF JobShape
<1>2. ASSUME NEW e \in Events, OtherAppend(e) PROVE JobShape'
  <2>1. log' = Append(log, EventRecord(e)) /\ EventRecord(e) \in Records /\ job' = job /\ up' = up
    BY <1>2, RecordFacts DEF OtherAppend
  <2>2. /\ Len(log) \in Nat /\ DOMAIN log = 1..Len(log) /\ DOMAIN log' = 1..(Len(log) + 1)
        /\ \A n \in DOMAIN log : log'[n] = log[n]
    BY <2>1, Grown
  <2>3. Kept
    BY <2>1, <2>2
  <2> QED
    BY <1>0, <2>3
<1>3. CASE PollTime
  <2>1. /\ job'.phase = "time" /\ job'.at = 0 /\ job'.failures = 0 /\ job'.due \subseteq DueRules(now)
        /\ up /\ up' = up
    BY <1>3, PollJob
  <2>2. \A i \in job'.due : Rules[i].kind = "time"
    BY <2>1, SelectionFacts
  <2> QED
    BY <2>1, <2>2 DEF JobShape
<1>4. CASE AppendDecision
  <2>1. /\ job'.due = job.due \ {First(job.due)} /\ job'.phase = job.phase /\ job'.event = job.event
        /\ job'.at = job.at /\ job'.failures = job.failures /\ up' = up
    BY <1>4, DecisionJob
  <2>2. /\ \A n \in DOMAIN log : n \in DOMAIN log' /\ log'[n] = log[n]
    <3>1. /\ Len(log) \in Nat /\ DOMAIN log = 1..Len(log) /\ DOMAIN log' = 1..(Len(log) + 1)
          /\ \A n \in DOMAIN log : log'[n] = log[n]
      BY <1>4, Decided, Grown
    <3> QED
      BY <3>1
  <2>3. job.due # {}
    BY <1>4 DEF AppendDecision
  <2>4. job # Idle /\ up
    BY <2>3, IdleFacts DEF JobShape
  <2>5. job.phase # "idle"
    BY <2>4 DEF JobShape
  <2> QED
    BY <2>1, <2>2, <2>4, <2>5 DEF JobShape
<1>5. CASE AppendEvent
  <2>1. /\ job'.phase = "after" /\ job'.event = job.event /\ job'.at = Len(log) + 1
        /\ job'.due \subseteq AfterRules(job.event) /\ job.event \in Events
        /\ log' = Append(log, EventRecord(job.event)) /\ job.phase = "before" /\ up' = up
    BY <1>5, EventJob
  <2>2. EventRecord(job.event) \in Records /\ EventRecord(job.event).type = job.event
    BY <2>1, RecordFacts
  <2>3. Len(log) + 1 \in DOMAIN log' /\ log'[Len(log) + 1] = EventRecord(job.event)
    <3>1. /\ Len(log) \in Nat /\ DOMAIN log' = 1..(Len(log) + 1)
          /\ log'[Len(log) + 1] = EventRecord(job.event)
      BY <2>1, <2>2, Grown
    <3> QED
      BY <3>1
  <2>4. up
    BY <2>1, IdleFacts DEF JobShape
  <2> QED
    BY <2>1, <2>2, <2>3, <2>4 DEF JobShape
<1>6. CASE AppendHookFailure
  <2>1. /\ job'.due = {} /\ job.phase = "after" /\ job'.phase = job.phase /\ job'.event = job.event
        /\ job'.at = job.at /\ log' = Append(log, EventRecord("error")) /\ up' = up
    BY <1>6, FailureJob
  <2>2. \A n \in DOMAIN log : n \in DOMAIN log' /\ log'[n] = log[n]
    <3>1. /\ Len(log) \in Nat /\ DOMAIN log = 1..Len(log) /\ DOMAIN log' = 1..(Len(log) + 1)
          /\ \A n \in DOMAIN log : log'[n] = log[n]
      BY <2>1, RecordFacts, Grown
    <3> QED
      BY <3>1
  <2>3. up
    BY <2>1, IdleFacts DEF JobShape
  <2> QED
    BY <2>1, <2>2, <2>3 DEF JobShape
<1>7. CASE ReturnEmit \/ ReturnPoll \/ AppendRaises \/ Kill
  BY <1>7, <1>00 DEF ReturnEmit, ReturnPoll, AppendRaises, Kill
<1>8. CASE Restart
  <2>1. job' = Idle
    BY <1>8 DEF Restart, JobShape
  <2> QED
    BY <2>1, <1>00
<1>9. CASE Tick \/ UNCHANGED vars
  <2>1. Kept
    BY <1>9 DEF Tick, vars, history
  <2> QED
    BY <1>0, <2>1
<1> QED
  BY <1>1, <1>2, <1>3, <1>4, <1>5, <1>6, <1>7, <1>8, <1>9 DEF Next, Proceed

-----------------------------------------------------------------------------
(* One-shot rules, and the records of firings.                                *)
LEMMA Unwritten ==
    ASSUME log' = log
    PROVE  /\ \A id : Fired(id)' = Fired(id)
           /\ \A i, s : Named(i, s)' = Named(i, s)
           /\ \A a, b : Errors(a, b)' = Errors(a, b)
    BY DEF Fired, Named, Errors

(* An evaluation marks the keys of the rules it finds due; a one-shot rule is *)
(* due only while it is not on record.                                        *)
LEMMA EvaluationKeeps ==
    ASSUME OneShots, Firings, up, up' = up, dropped' = dropped,
           NEW S, S \subseteq DOMAIN Rules, NEW what \in {"before", "after", "time"}, NEW n \in Nat,
           job.due = {}, job'.due = Fresh(S, what, n), fired' = fired \cup KeysOf(job'.due, what, n),
           \A i \in DOMAIN Rules : Fired(Rules[i].id)' = Fired(Rules[i].id),
           \A k \in fired : Fired(k[1]) # {} => Fired(k[1])' # {}
    PROVE  OneShots' /\ Firings'
<1>1. job'.due \subseteq DOMAIN Rules /\ \A i \in job'.due : Key(Rules[i], what, n) \notin fired
  BY DEF Fresh
<1>2. \A i \in job'.due : Key(Rules[i], what, n) \in fired'
  BY DEF KeysOf
<1>3. \A i \in job'.due : ~Rules[i].repeatable => Key(Rules[i], what, n) = OnceKey(Rules[i])
  BY DEF Key
<1>4. ASSUME NEW i \in DOMAIN Rules, ~Rules[i].repeatable
      PROVE  /\ \A m, o \in Fired(Rules[i].id)' : m = o
             /\ up' /\ Fired(Rules[i].id)' # {} => OnceKey(Rules[i]) \in fired'
             /\ i \in job'.due => Fired(Rules[i].id)' = {} /\ OnceKey(Rules[i]) \in fired'
  <2>1. Fired(Rules[i].id)' = Fired(Rules[i].id)
    OBVIOUS
  <2>2. \A m, o \in Fired(Rules[i].id) : m = o
    BY <1>4 DEF OneShots
  <2>3. Fired(Rules[i].id) # {} => OnceKey(Rules[i]) \in fired
    BY <1>4 DEF OneShots
  <2> QED
    BY <1>1, <1>2, <1>3, <1>4, <2>1, <2>2, <2>3
<1>5. OneShots'
  BY <1>4 DEF OneShots
<1>6. ASSUME NEW k \in fired'
      PROVE  Fired(k[1])' # {} \/ k[1] \in dropped' \/ \E i \in job'.due : Rules[i].id = k[1]
  <2>1. CASE k \in fired
    BY <2>1 DEF Firings
  <2>2. CASE k \in KeysOf(job'.due, what, n)
    <3>1. PICK i \in job'.due : k = Key(Rules[i], what, n)
      BY <2>2 DEF KeysOf
    <3>2. k[1] = Rules[i].id
      BY <3>1 DEF Key, OnceKey
    <3> QED
      BY <3>2
  <2> QED
    BY <2>1, <2>2
<1>7. Firings'
  BY <1>6 DEF Firings
<1> QED
  BY <1>5, <1>7

(* A record that no rule wrote changes nothing about them.                    *)
LEMMA PlainRecord ==
    ASSUME TypeOK, NEW r \in Records, log' = Append(log, r), r.rule = NoRule
    PROVE  /\ \A i \in DOMAIN Rules : Fired(Rules[i].id)' = Fired(Rules[i].id)
           /\ \A k \in fired : Fired(k[1])' = Fired(k[1])
<1>1. \A id : Fired(id)' = IF r.rule = id THEN Fired(id) \cup {Len(log) + 1} ELSE Fired(id)
  BY Grown
<1>2. \A k \in fired : k[1] \in Ids
  BY DEF TypeOK
<1> QED
  BY <1>1, <1>2, RuleFacts, RulesAssumption

(* Every step keeps firings and one-shot rules in order.                      *)
LEMMA FiringStep ==
    ASSUME TypeOK, JobShape, OneShots, Firings, [Next]_vars
    PROVE  OneShots' /\ Firings'
<1>0. ASSUME \A i \in DOMAIN Rules : Fired(Rules[i].id)' = Fired(Rules[i].id),
             \A k \in fired : Fired(k[1])' = Fired(k[1]),
             fired' = fired, up' = up, job'.due = job.due, dropped' = dropped
      PROVE  OneShots' /\ Firings'
  BY <1>0 DEF OneShots, Firings
<1>1. ASSUME NEW e \in Events, Emit(e) PROVE OneShots' /\ Firings'
  <2>1. /\ PredictedSequence(e) \in Nat /\ up /\ job = Idle /\ job'.at = PredictedSequence(e)
        /\ job'.due = Fresh(BeforeRules(e), "before", PredictedSequence(e))
        /\ fired' = fired \cup KeysOf(job'.due, "before", job'.at)
    BY <1>1, EmitJob
  <2>2. up' = up /\ dropped' = dropped /\ log' = log
    BY <1>1 DEF Emit, history
  <2>3. \A id : Fired(id)' = Fired(id)
    BY <2>2, Unwritten
  <2> QED
    BY <2>1, <2>2, <2>3, EvaluationKeeps, SelectionFacts, IdleFacts
<1>2. ASSUME NEW e \in Events, OtherAppend(e) PROVE OneShots' /\ Firings'
  <2>1. log' = Append(log, EventRecord(e)) /\ EventRecord(e) \in Records /\ EventRecord(e).rule = NoRule
    BY <1>2, RecordFacts DEF OtherAppend
  <2>2. fired' = fired /\ up' = up /\ job'.due = job.due /\ dropped' = dropped
    BY <1>2 DEF OtherAppend
  <2> QED
    BY <1>0, <2>1, <2>2, PlainRecord
<1>3. CASE PollTime
  <2>1. /\ now \in Nat /\ up /\ job = Idle /\ up' = up /\ dropped' = dropped /\ log' = log
        /\ job'.due = Fresh(DueRules(now), "time", now)
        /\ fired' = fired \cup KeysOf(job'.due, "time", now)
    BY <1>3, PollJob
  <2>2. \A id : Fired(id)' = Fired(id)
    BY <2>1, Unwritten
  <2> QED
    BY <2>1, <2>2, EvaluationKeeps, SelectionFacts, IdleFacts
<1>4. CASE AppendDecision
  <2> DEFINE i == First(job.due)
             r == Decision(Rules[i], job.event, job.at)
  <2>1. i \in job.due /\ i \in DOMAIN Rules /\ r \in Records /\ r.rule = Rules[i].id /\ log' = Append(log, r)
    BY <1>4, Decided
  <2>2. /\ job'.due = job.due \ {i} /\ fired' = fired /\ up' = up /\ dropped' = dropped
    BY <1>4, DecisionJob
  <2> HIDE DEF i, r
  <2>3. \A id : Fired(id)' = IF r.rule = id THEN Fired(id) \cup {Len(log) + 1} ELSE Fired(id)
    BY <2>1, Grown
  <2>4. ASSUME NEW j \in DOMAIN Rules, ~Rules[j].repeatable
        PROVE  /\ \A m, o \in Fired(Rules[j].id)' : m = o
               /\ up' /\ Fired(Rules[j].id)' # {} => OnceKey(Rules[j]) \in fired'
               /\ j \in job'.due => Fired(Rules[j].id)' = {} /\ OnceKey(Rules[j]) \in fired'
    <3>1. CASE j = i
      <4>1. Fired(Rules[j].id) = {} /\ OnceKey(Rules[j]) \in fired
        BY <2>1, <2>4, <3>1 DEF OneShots
      <4>2. Fired(Rules[j].id)' = {Len(log) + 1}
        BY <2>1, <2>3, <3>1, <4>1
      <4> QED
        BY <2>2, <3>1, <4>1, <4>2
    <3>2. CASE j # i
      <4>1. Fired(Rules[j].id)' = Fired(Rules[j].id)
        BY <2>1, <2>3, <3>2, RuleFacts
      <4>2. /\ \A m, o \in Fired(Rules[j].id) : m = o
            /\ up /\ Fired(Rules[j].id) # {} => OnceKey(Rules[j]) \in fired
            /\ j \in job.due => Fired(Rules[j].id) = {} /\ OnceKey(Rules[j]) \in fired
        BY <2>4 DEF OneShots
      <4> QED
        BY <2>2, <4>1, <4>2
    <3> QED
      BY <3>1, <3>2
  <2>5. ASSUME NEW k \in fired'
        PROVE  Fired(k[1])' # {} \/ k[1] \in dropped' \/ \E j \in job'.due : Rules[j].id = k[1]
    <3>1. CASE k[1] = Rules[i].id
      <4>1. Fired(k[1])' = Fired(k[1]) \cup {Len(log) + 1}
        BY <2>1, <2>3, <3>1
      <4> QED
        BY <4>1
    <3>2. CASE k[1] # Rules[i].id
      <4>1. Fired(k[1])' = Fired(k[1])
        BY <2>1, <2>3, <3>2
      <4>2. Fired(k[1]) # {} \/ k[1] \in dropped \/ \E j \in job.due : Rules[j].id = k[1]
        BY <2>2, <2>5 DEF Firings
      <4> QED
        BY <2>2, <3>2, <4>1, <4>2
    <3> QED
      BY <3>1, <3>2
  <2> QED
    BY <2>4, <2>5 DEF OneShots, Firings
<1>5. CASE AppendEvent
  <2>1. /\ job.event \in Events /\ Len(log) + 1 \in Nat /\ job.due = {} /\ job.phase = "before"
        /\ log' = Append(log, EventRecord(job.event)) /\ up' = up /\ dropped' = dropped
        /\ job'.due = Fresh(AfterRules(job.event), "after", Len(log) + 1)
        /\ fired' = fired \cup KeysOf(job'.due, "after", Len(log) + 1)
    BY <1>5, EventJob
  <2>2. EventRecord(job.event) \in Records /\ EventRecord(job.event).rule = NoRule
    BY <2>1, RecordFacts
  <2>3. /\ \A j \in DOMAIN Rules : Fired(Rules[j].id)' = Fired(Rules[j].id)
        /\ \A k \in fired : Fired(k[1])' = Fired(k[1])
    BY <2>1, <2>2, PlainRecord
  <2>4. up
    BY <2>1, IdleFacts DEF JobShape
  <2> QED
    BY <2>1, <2>3, <2>4, EvaluationKeeps, SelectionFacts
<1>6. CASE AppendHookFailure
  <2>1. /\ log' = Append(log, EventRecord("error")) /\ job'.due = job.due
        /\ fired' = fired /\ up' = up /\ dropped' = dropped
    BY <1>6, FailureJob
  <2>2. EventRecord("error") \in Records /\ EventRecord("error").rule = NoRule
    BY RecordFacts
  <2> QED
    BY <1>0, <2>1, <2>2, PlainRecord
<1>7. CASE ReturnEmit \/ ReturnPoll
  <2>1. log' = log /\ fired' = fired /\ up' = up /\ dropped' = dropped /\ job.due = {} /\ job' = Idle
    BY <1>7 DEF ReturnEmit, ReturnPoll, history
  <2> QED
    BY <1>0, <2>1, Unwritten, IdleFacts
<1>8. CASE AppendRaises
  <2>1. /\ log' = log /\ fired' = fired /\ up' = up /\ job' = Idle
        /\ dropped' = dropped \cup {Rules[i].id : i \in job.due}
    BY <1>8 DEF AppendRaises
  <2>2. \A id : Fired(id)' = Fired(id)
    BY <2>1, Unwritten
  <2>3. OneShots'
    BY <2>1, <2>2, IdleFacts DEF OneShots
  <2>4. ASSUME NEW k \in fired'
        PROVE  Fired(k[1])' # {} \/ k[1] \in dropped'
    BY <2>1, <2>2, <2>4 DEF Firings
  <2>5. Firings'
    BY <2>4 DEF Firings
  <2> QED
    BY <2>3, <2>5
<1>9. CASE Kill
  <2>1. log' = log /\ fired' = {} /\ up' = FALSE /\ job' = Idle
    BY <1>9 DEF Kill
  <2> QED
    BY <2>1, Unwritten, IdleFacts DEF OneShots, Firings
<1>10. CASE Restart
  <2>1. log' = log /\ fired' = SeededKeys(log) /\ job' = job /\ job = Idle
    BY <1>10 DEF Restart, JobShape
  <2>2. \A id : Fired(id)' = Fired(id)
    BY <2>1, Unwritten
  <2>3. ASSUME NEW i \in DOMAIN Rules, ~Rules[i].repeatable, Fired(Rules[i].id) # {}
        PROVE  OnceKey(Rules[i]) \in fired'
    BY <2>1, <2>3 DEF SeededKeys, Fired
  <2>4. OneShots'
    BY <2>1, <2>2, <2>3, IdleFacts DEF OneShots
  <2>5. ASSUME NEW k \in SeededKeys(log) PROVE Fired(k[1]) # {}
    <3>1. PICK i \in DOMAIN Rules : /\ k = OnceKey(Rules[i])
                                    /\ \E n \in DOMAIN log : log[n].rule = Rules[i].id
      BY <2>5 DEF SeededKeys
    <3>2. k[1] = Rules[i].id
      BY <3>1 DEF OnceKey
    <3> QED
      BY <3>1, <3>2 DEF Fired
  <2>6. Firings'
    BY <2>1, <2>2, <2>5 DEF Firings
  <2> QED
    BY <2>4, <2>6
<1>11. CASE Tick \/ UNCHANGED vars
  <2>1. log' = log /\ fired' = fired /\ up' = up /\ dropped' = dropped /\ job'.due = job.due
    BY <1>11 DEF Tick, vars, history
  <2> QED
    BY <1>0, <2>1, Unwritten
<1> QED
  BY <1>1, <1>2, <1>3, <1>4, <1>5, <1>6, <1>7, <1>8, <1>9, <1>10, <1>11 DEF Next, Proceed

-----------------------------------------------------------------------------
(* What the records say of the ones they name stays true.                     *)
LEMMA AuditsGrow ==
    ASSUME TypeOK, AuditsTrue, NEW r \in Records, log' = Append(log, r),
           r.rule = NoRule => r.matched = 0,
           \A i \in DOMAIN Rules : r.rule = Rules[i].id => r.relation = Rules[i].relation,
           r.relation # "before" /\ r.matched # 0
             => r.matched \in DOMAIN log /\ log[r.matched].type = r.event
    PROVE  AuditsTrue'
<1>1. /\ Len(log) \in Nat /\ DOMAIN log = 1..Len(log) /\ DOMAIN log' = 1..(Len(log) + 1)
      /\ \A n \in DOMAIN log : log'[n] = log[n]
      /\ log'[Len(log) + 1] = r
  BY Grown
<1>2. ASSUME NEW n \in DOMAIN log PROVE log[n].matched \in Nat
  <2>1. log[n] \in Records
    BY DEF TypeOK
  <2> QED
    BY <2>1 DEF Records
<1>3. ASSUME NEW n \in DOMAIN log'
      PROVE  /\ log'[n].rule = NoRule => log'[n].matched = 0
             /\ \A i \in DOMAIN Rules : log'[n].rule = Rules[i].id => log'[n].relation = Rules[i].relation
             /\ log'[n].relation # "before" /\ log'[n].matched # 0
                  => log'[n].matched < n /\ log'[log'[n].matched].type = log'[n].event
  <2>1. CASE n \in DOMAIN log
    <3>1. log'[n] = log[n]
      BY <1>1, <2>1
    <3>2. /\ log[n].rule = NoRule => log[n].matched = 0
          /\ \A i \in DOMAIN Rules : log[n].rule = Rules[i].id => log[n].relation = Rules[i].relation
          /\ log[n].relation # "before" /\ log[n].matched # 0
               => log[n].matched < n /\ log[log[n].matched].type = log[n].event
      BY <2>1 DEF AuditsTrue
    <3>3. ASSUME log[n].relation # "before", log[n].matched # 0
          PROVE  log'[log[n].matched] = log[log[n].matched]
      <4>1. log[n].matched \in DOMAIN log
        BY <1>1, <1>2, <2>1, <3>2, <3>3
      <4> QED
        BY <1>1, <4>1
    <3> QED
      BY <3>1, <3>2, <3>3
  <2>2. CASE n = Len(log) + 1
    <3>1. log'[n] = r
      BY <1>1, <2>2
    <3>2. ASSUME r.matched \in DOMAIN log PROVE r.matched < n /\ log'[r.matched] = log[r.matched]
      BY <1>1, <2>2, <3>2
    <3> QED
      BY <3>1, <3>2
  <2>3. n \in DOMAIN log \/ n = Len(log) + 1
    BY <1>1
  <2> QED
    BY <2>1, <2>2, <2>3
<1> QED
  BY <1>3 DEF AuditsTrue

(* What returned emits have on record stays on record, once.                  *)
LEMMA ReturnsGrow ==
    ASSUME TypeOK, OwedBefore, NEW r \in Records, log' = Append(log, r), returned' = returned,
           \A x \in returned : \A i \in AfterRules(log[x.seq].type) :
               ~(r.rule = Rules[i].id /\ r.matched = x.seq)
    PROVE  OwedBefore'
<1>1. /\ Len(log) \in Nat /\ Len(log') = Len(log) + 1
      /\ DOMAIN log = 1..Len(log) /\ DOMAIN log' = 1..(Len(log) + 1)
      /\ \A n \in DOMAIN log : log'[n] = log[n]
      /\ \A i, s : Named(i, s)' = IF r.rule = Rules[i].id /\ r.matched = s
                                  THEN Named(i, s) \cup {Len(log) + 1} ELSE Named(i, s)
  BY Grown
<1>2. ASSUME NEW x \in returned
      PROVE  /\ x.seq \in DOMAIN log' /\ x.end \in x.seq..Len(log')
             /\ \A i \in AfterRules(log'[x.seq].type) :
                  Rules[i].repeatable => \E n \in DOMAIN log' : Named(i, x.seq)' = {n}
             /\ x.failed <= Cardinality(Errors(x.seq, x.end)')
  <2>1. /\ x.seq \in DOMAIN log /\ x.end \in x.seq..Len(log)
        /\ \A i \in AfterRules(log[x.seq].type) :
             Rules[i].repeatable => \E n \in DOMAIN log : Named(i, x.seq) = {n}
        /\ x.failed <= Cardinality(Errors(x.seq, x.end))
    BY <1>2 DEF OwedBefore
  <2>2. log'[x.seq] = log[x.seq]
    BY <1>1, <2>1
  <2>3. ASSUME NEW i \in AfterRules(log[x.seq].type) PROVE Named(i, x.seq)' = Named(i, x.seq)
    BY <1>1, <1>2
  <2>4. Errors(x.seq, x.end)' = Errors(x.seq, x.end)
    <3>1. \A n \in (x.seq + 1)..x.end : n \in DOMAIN log /\ log'[n] = log[n]
      BY <1>1, <2>1
    <3> QED
      BY <3>1 DEF Errors
  <2>5. x.seq \in DOMAIN log' /\ x.end \in x.seq..Len(log') /\ DOMAIN log \subseteq DOMAIN log'
    BY <1>1, <2>1
  <2> QED
    BY <2>1, <2>2, <2>3, <2>4, <2>5
<1> QED
  BY <1>2 DEF OwedBefore

(* The errors after an event when one more record is written.                 *)
LEMMA ErrorsGrow ==
    ASSUME TypeOK, NEW r \in Records, log' = Append(log, r), NEW a \in DOMAIN log
    PROVE  /\ Cardinality(Errors(a, Len(log))) \in Nat
           /\ Cardinality({n \in (a + 1)..Len(log') : log'[n].type = "error"}) =
                Cardinality(Errors(a, Len(log))) + (IF r.type = "error" THEN 1 ELSE 0)
<1>1. /\ Len(log) \in Nat /\ Len(log') = Len(log) + 1
      /\ DOMAIN log = 1..Len(log) /\ DOMAIN log' = 1..(Len(log) + 1)
      /\ \A n \in DOMAIN log : log'[n] = log[n]
      /\ log'[Len(log) + 1] = r
  BY Grown
<1> DEFINE E == Errors(a, Len(log))
           F == {n \in (a + 1)..Len(log') : log'[n].type = "error"}
<1>2. IsFiniteSet(E) /\ Cardinality(E) \in Nat
  <2>1. a + 1 \in Int /\ Len(log) \in Int
    BY <1>1
  <2>2. IsFiniteSet((a + 1)..Len(log))
    BY <2>1, FS_Interval
  <2>3. E \in SUBSET ((a + 1)..Len(log))
    BY DEF Errors
  <2> QED
    BY <2>2, <2>3, FS_Subset, FS_CardinalityType
<1>3. F = IF r.type = "error" THEN E \cup {Len(log) + 1} ELSE E
  <2>1. F = {n \in (a + 1)..(Len(log) + 1) : log'[n].type = "error"}
    BY <1>1
  <2>2. \A n \in (a + 1)..Len(log) : log'[n] = log[n]
    BY <1>1
  <2>3. (a + 1)..(Len(log) + 1) = ((a + 1)..Len(log)) \cup {Len(log) + 1}
    BY <1>1
  <2> QED
    BY <1>1, <2>1, <2>2, <2>3 DEF Errors
<1>4. Len(log) + 1 \notin E
  BY <1>1 DEF Errors
<1> HIDE DEF E, F
<1>5. Cardinality(E \cup {Len(log) + 1}) = Cardinality(E) + 1
  BY <1>2, <1>4, FS_AddElement
<1>6. Cardinality(F) = Cardinality(E) + (IF r.type = "error" THEN 1 ELSE 0)
  BY <1>2, <1>3, <1>5
<1> QED
  BY <1>2, <1>6 DEF E, F

(* A record that no rule wrote adds to none of them.                          *)
LEMMA PlainOwed ==
    ASSUME TypeOK, JobShape, AuditsTrue, OwedBefore, NEW e \in Events \cup {"error"},
           log' = Append(log, EventRecord(e)), returned' = returned
    PROVE  AuditsTrue' /\ OwedBefore' /\ \A i \in DOMAIN Rules : \A s : Named(i, s)' = Named(i, s)
<1> DEFINE r == EventRecord(e)
<1>1. r \in Records /\ r.rule = NoRule /\ r.matched = 0
  BY RecordFacts
<1>2. log' = Append(log, r)
  OBVIOUS
<1> HIDE DEF r
<1>3. \A i \in DOMAIN Rules : r.rule # Rules[i].id
  BY <1>1, RuleFacts
<1>4. AuditsTrue'
  BY <1>1, <1>2, <1>3, AuditsGrow
<1>5. \A x \in returned : \A i \in AfterRules(log[x.seq].type) : ~(r.rule = Rules[i].id /\ r.matched = x.seq)
  BY <1>3, SelectionFacts
<1>6. OwedBefore'
  BY <1>1, <1>2, <1>5, ReturnsGrow
<1>7. \A i, s : Named(i, s)' = IF r.rule = Rules[i].id /\ r.matched = s
                               THEN Named(i, s) \cup {Len(log) + 1} ELSE Named(i, s)
  BY <1>1, <1>2, Grown
<1> QED
  BY <1>3, <1>4, <1>6, <1>7

(* What the emission in progress owes, when a record that no rule wrote is    *)
(* appended while it records what its event fired.                            *)
LEMMA PlainOwedNow ==
    ASSUME TypeOK, JobShape, AuditsTrue, OwedNow, OwedBefore, NEW e \in Events \cup {"error"},
           log' = Append(log, EventRecord(e)), returned' = returned,
           job'.phase = job.phase, job'.event = job.event, job'.due = job.due, job'.at = job.at,
           job'.failed = job.failed,
           job'.failures = job.failures \/ (job.phase = "after" /\ job'.failures = job.failures - 1 /\ e = "error")
    PROVE  OwedNow'
<1>1. CASE job.phase = "after"
  <2>1. /\ \A i \in AfterRules(job.event) : Rules[i].repeatable =>
             IF i \in job.due THEN Named(i, job.at) = {} ELSE \E n \in DOMAIN log : Named(i, job.at) = {n}
        /\ job.failed <= job.failures + Cardinality(Errors(job.at, Len(log)))
        /\ \A x \in returned : x.seq # job.at
    BY <1>1 DEF OwedNow
  <2>2. job.at \in DOMAIN log
    BY <1>1 DEF JobShape
  <2>3. EventRecord(e) \in Records /\ EventRecord(e).type = e
    BY RecordFacts
  <2>4. /\ Cardinality(Errors(job.at, Len(log))) \in Nat
        /\ Cardinality(Errors(job.at, Len(log))') =
             Cardinality(Errors(job.at, Len(log))) + (IF e = "error" THEN 1 ELSE 0)
    <3> DEFINE a == job.at
    <3>1. a \in DOMAIN log
      BY <2>2
    <3> HIDE DEF a
    <3>2. /\ Cardinality(Errors(a, Len(log))) \in Nat
          /\ Cardinality({n \in (a + 1)..Len(log') : log'[n].type = "error"}) =
               Cardinality(Errors(a, Len(log))) + (IF EventRecord(e).type = "error" THEN 1 ELSE 0)
      BY <2>3, <3>1, ErrorsGrow
    <3>3. Errors(job.at, Len(log))' = {n \in (a + 1)..Len(log') : log'[n].type = "error"}
      BY DEF Errors, a
    <3> QED
      BY <2>3, <3>2, <3>3 DEF a
  <2>5. job.failed \in Nat /\ job.failures \in Nat
    BY DEF TypeOK, Jobs
  <2>6. job'.failed <= job'.failures + Cardinality(Errors(job.at, Len(log))')
    BY <2>1, <2>4, <2>5
  <2>7. \A i \in AfterRules(job.event) : Named(i, job.at)' = Named(i, job.at)
    <3>1. \A i \in DOMAIN Rules : \A s : {n \in DOMAIN log' : log'[n].rule = Rules[i].id /\ log'[n].matched = s}
                                         = Named(i, s)
      BY PlainOwed DEF Named
    <3>2. ASSUME NEW i \in AfterRules(job.event) PROVE Named(i, job.at)' = Named(i, job.at)
      <4>1. i \in DOMAIN Rules
        BY SelectionFacts
      <4>2. Named(i, job.at)' = {n \in DOMAIN log' : log'[n].rule = Rules[i].id /\ log'[n].matched = job.at}
        BY DEF Named
      <4> QED
        BY <3>1, <4>1, <4>2
    <3> QED
      BY <3>2
  <2>8. DOMAIN log \subseteq DOMAIN log'
    <3>1. /\ Len(log) \in Nat /\ DOMAIN log = 1..Len(log) /\ DOMAIN log' = 1..(Len(log) + 1)
      BY <2>3, Grown
    <3> QED
      BY <3>1
  <2>9. \A i \in AfterRules(job.event) : Rules[i].repeatable =>
          IF i \in job.due THEN Named(i, job.at)' = {} ELSE \E n \in DOMAIN log' : Named(i, job.at)' = {n}
    BY <2>1, <2>7, <2>8
  <2> QED
    BY <1>1, <2>1, <2>6, <2>9 DEF OwedNow
<1>2. CASE job.phase # "after"
  BY <1>2 DEF OwedNow
<1> QED
  BY <1>1, <1>2

(* The keys an evaluation marks name the record it is about.                  *)
LEMMA KeysMarked ==
    ASSUME NEW due \in SUBSET (DOMAIN Rules), NEW what \in {"before", "after", "time"}, NEW n \in Nat,
           NEW k \in KeysOf(due, what, n)
    PROVE  k[2] \in {"once", what} /\ (k[2] = what => k[3] = n)
<1>1. PICK i \in due : k = Key(Rules[i], what, n)
  BY DEF KeysOf
<1>2. CASE Rules[i].repeatable
  BY <1>1, <1>2 DEF Key
<1>3. CASE ~Rules[i].repeatable
  BY <1>1, <1>3 DEF Key, OnceKey
<1> QED
  BY <1>2, <1>3

(* Every step keeps the fired keys behind the ledger.                         *)
LEMMA KeysBehindStep ==
    ASSUME TypeOK, JobShape, KeysBehind, [Next]_vars
    PROVE  KeysBehind'
<1>0. Len(log) \in Nat /\ \A k \in fired : k[3] \in Nat
  BY DEF TypeOK
<1>1. ASSUME fired' = fired, Len(log') \in Nat, Len(log') >= Len(log) PROVE KeysBehind'
  BY <1>0, <1>1 DEF KeysBehind
<1>2. ASSUME NEW e \in Events, Emit(e) PROVE KeysBehind'
  <2>1. /\ job'.due \in SUBSET (DOMAIN Rules) /\ PredictedSequence(e) \in Nat /\ job'.at = PredictedSequence(e)
        /\ fired' = fired \cup KeysOf(job'.due, "before", job'.at)
    BY <1>2, EmitJob
  <2>2. \A k \in KeysOf(job'.due, "before", job'.at) : k[2] # "after"
    <3>1. job'.at \in Nat
      BY <2>1
    <3>2. ASSUME NEW k \in KeysOf(job'.due, "before", job'.at) PROVE k[2] \in {"once", "before"}
      BY <2>1, <3>1, KeysMarked
    <3> QED
      BY <3>2
  <2>3. log' = log
    BY <1>2 DEF Emit
  <2>4. ASSUME NEW k \in fired', k[2] = "after" PROVE k[3] <= Len(log')
    <3>1. k \in fired
      BY <2>1, <2>2, <2>4
    <3> QED
      BY <2>3, <2>4, <3>1 DEF KeysBehind
  <2> QED
    BY <2>4 DEF KeysBehind
<1>3. ASSUME NEW e \in Events, OtherAppend(e) PROVE KeysBehind'
  <2>1. log' = Append(log, EventRecord(e)) /\ EventRecord(e) \in Records /\ fired' = fired
    BY <1>3, RecordFacts DEF OtherAppend
  <2>2. Len(log') = Len(log) + 1
    BY <2>1, Grown
  <2> QED
    BY <1>0, <1>1, <2>1, <2>2
<1>4. CASE PollTime
  <2>1. /\ job'.due \in SUBSET (DOMAIN Rules) /\ now \in Nat /\ log' = log
        /\ fired' = fired \cup KeysOf(job'.due, "time", now)
    BY <1>4, PollJob
  <2>2. \A k \in KeysOf(job'.due, "time", now) : k[2] # "after"
    BY <2>1, KeysMarked
  <2> QED
    BY <2>1, <2>2 DEF KeysBehind
<1>5. CASE AppendDecision
  <2>1. Len(log') = Len(log) + 1
    BY <1>5, Decided, Grown
  <2>2. fired' = fired
    BY <1>5, DecisionJob
  <2> QED
    BY <1>0, <1>1, <2>1, <2>2
<1>6. CASE AppendEvent
  <2>1. /\ job'.due \in SUBSET (DOMAIN Rules) /\ Len(log) + 1 \in Nat /\ job.event \in Events
        /\ log' = Append(log, EventRecord(job.event))
        /\ fired' = fired \cup KeysOf(job'.due, "after", Len(log) + 1)
    BY <1>6, EventJob
  <2>2. ASSUME NEW k \in KeysOf(job'.due, "after", Len(log) + 1)
        PROVE  k[2] \in {"once", "after"} /\ (k[2] = "after" => k[3] = Len(log) + 1)
    <3> DEFINE s == Len(log) + 1
               due == job'.due
    <3>1. s \in Nat /\ due \in SUBSET (DOMAIN Rules) /\ k \in KeysOf(due, "after", s)
      BY <2>1
    <3> HIDE DEF s, due
    <3>2. k[2] \in {"once", "after"} /\ (k[2] = "after" => k[3] = s)
      BY <3>1, KeysMarked
    <3> QED
      BY <3>2 DEF s
  <2>3. Len(log') = Len(log) + 1
    BY <2>1, RecordFacts, Grown
  <2> QED
    BY <1>0, <2>1, <2>2, <2>3 DEF KeysBehind
<1>7. CASE AppendHookFailure
  <2>1. log' = Append(log, EventRecord("error")) /\ fired' = fired
    BY <1>7, FailureJob
  <2>2. Len(log') = Len(log) + 1
    BY <2>1, RecordFacts, Grown
  <2> QED
    BY <1>0, <1>1, <2>1, <2>2
<1>8. CASE ReturnEmit \/ ReturnPoll \/ AppendRaises \/ Tick \/ UNCHANGED vars
  BY <1>0, <1>1, <1>8 DEF ReturnEmit, ReturnPoll, AppendRaises, Tick, vars, history
<1>9. CASE Kill
  BY <1>9 DEF Kill, KeysBehind
<1>10. CASE Restart
  <2>1. \A k \in SeededKeys(log) : k[2] = "once"
    BY DEF SeededKeys, OnceKey
  <2> QED
    BY <1>10, <2>1 DEF Restart, KeysBehind
<1> QED
  BY <1>2, <1>3, <1>4, <1>5, <1>6, <1>7, <1>8, <1>9, <1>10 DEF Next, Proceed

(* When emit returns, and when a record of a decision or the event is written.*)
LEMMA ReturnOwed ==
    ASSUME TypeOK, JobShape, OwedNow, OwedBefore, ReturnEmit
    PROVE  OwedBefore'
<1> DEFINE y == [seq |-> job.at, failed |-> job.failed, end |-> Len(log)]
<1>1. /\ job.phase = "after" /\ job.due = {} /\ job.failures = 0 /\ log' = log
      /\ returned' = returned \cup {y}
  BY DEF ReturnEmit
<1>2. y.seq = job.at /\ y.failed = job.failed /\ y.end = Len(log)
  OBVIOUS
<1> HIDE DEF y
<1>3. job.at \in DOMAIN log /\ log[job.at].type = job.event
  BY <1>1 DEF JobShape
<1>4. Len(log) \in Nat /\ DOMAIN log = 1..Len(log) /\ job.failed \in Nat
  BY DEF TypeOK, Jobs
<1>5. /\ \A i \in AfterRules(job.event) : Rules[i].repeatable =>
           \E n \in DOMAIN log : Named(i, job.at) = {n}
      /\ job.failed <= job.failures + Cardinality(Errors(job.at, Len(log)))
  BY <1>1 DEF OwedNow
<1>6. Cardinality(Errors(job.at, Len(log))) \in Nat
  <2>1. job.at + 1 \in Int /\ Len(log) \in Int
    BY <1>3, <1>4
  <2>2. IsFiniteSet((job.at + 1)..Len(log))
    BY <2>1, FS_Interval
  <2>3. Errors(job.at, Len(log)) \in SUBSET ((job.at + 1)..Len(log))
    BY DEF Errors
  <2> QED
    BY <2>2, <2>3, FS_Subset, FS_CardinalityType
<1>7. ASSUME NEW x \in returned'
      PROVE  /\ x.seq \in DOMAIN log /\ x.end \in x.seq..Len(log)
             /\ \A i \in AfterRules(log[x.seq].type) :
                  Rules[i].repeatable => \E n \in DOMAIN log : Named(i, x.seq) = {n}
             /\ x.failed <= Cardinality(Errors(x.seq, x.end))
  <2>1. CASE x \in returned
    BY <2>1 DEF OwedBefore
  <2>2. CASE x = y
    <3>1. x.seq \in DOMAIN log /\ x.end \in x.seq..Len(log)
      BY <1>2, <1>3, <1>4, <2>2
    <3>2. job.failed <= Cardinality(Errors(job.at, Len(log)))
      BY <1>1, <1>4, <1>5, <1>6
    <3> QED
      BY <1>2, <1>3, <1>5, <2>2, <3>1, <3>2
  <2> QED
    BY <1>1, <2>1, <2>2
<1> QED
  <2>1. ASSUME NEW x \in returned'
        PROVE  /\ x.seq \in DOMAIN log' /\ x.end \in x.seq..Len(log')
               /\ \A i \in AfterRules(log'[x.seq].type) :
                    Rules[i].repeatable => \E n \in DOMAIN log' : Named(i, x.seq)' = {n}
               /\ x.failed <= Cardinality(Errors(x.seq, x.end)')
    <3>1. /\ \A i : Named(i, x.seq)' = Named(i, x.seq)
          /\ Errors(x.seq, x.end)' = Errors(x.seq, x.end)
      BY <1>1 DEF Named, Errors
    <3> QED
      BY <1>1, <1>7, <2>1, <3>1
  <2> QED
    BY <2>1 DEF OwedBefore

(* A trigger record settles what is owed to its rule.                         *)
LEMMA DecisionOwed ==
    ASSUME TypeOK, JobShape, AuditsTrue, OwedNow, OwedBefore, AppendDecision
    PROVE  AuditsTrue' /\ OwedNow' /\ OwedBefore'
<1> DEFINE i == First(job.due)
           r == Decision(Rules[i], job.event, job.at)
<1>1. /\ i \in job.due /\ i \in DOMAIN Rules
      /\ r \in Records /\ r.type = "trigger.fired" /\ r.rule = Rules[i].id
      /\ r.relation = Rules[i].relation /\ r.event = job.event /\ r.matched = job.at
      /\ log' = Append(log, r)
  BY Decided
<1>2. /\ job'.due = job.due \ {i} /\ job'.phase = job.phase /\ job'.event = job.event /\ job'.at = job.at
      /\ job'.failures = job.failures /\ job'.failed = job.failed /\ returned' = returned
  BY DecisionJob
<1> HIDE DEF i, r
<1>3. \A j \in DOMAIN Rules : r.rule = Rules[j].id => j = i
  BY <1>1, RuleFacts
<1>4. r.rule # NoRule
  BY <1>1, RuleFacts
<1>5. job.phase \in {"before", "after", "time"}
  <2>1. job.phase # "idle"
    BY <1>1, IdleFacts DEF JobShape
  <2> QED
    BY <2>1 DEF TypeOK, Jobs
<1>6. /\ job.phase = "before" => Rules[i].relation = "before" /\ Rules[i].kind = "message"
      /\ job.phase = "after" => /\ Rules[i].relation # "before" /\ i \in AfterRules(job.event)
                                /\ job.at \in DOMAIN log /\ log[job.at].type = job.event
      /\ job.phase = "time" => Rules[i].kind = "time" /\ job.at = 0
  BY <1>1, SelectionFacts DEF JobShape
<1>7. AuditsTrue'
  <2>1. \A j \in DOMAIN Rules : r.rule = Rules[j].id => r.relation = Rules[j].relation
    BY <1>1, <1>3
  <2>2. r.relation # "before" /\ r.matched # 0 => r.matched \in DOMAIN log /\ log[r.matched].type = r.event
    BY <1>1, <1>5, <1>6
  <2> QED
    BY <1>1, <1>4, <2>1, <2>2, AuditsGrow
<1>8. OwedBefore'
  <2>1. ASSUME NEW x \in returned, NEW j \in AfterRules(log[x.seq].type),
               r.rule = Rules[j].id, r.matched = x.seq
        PROVE  FALSE
    <3>1. j \in DOMAIN Rules /\ Rules[j].relation # "before" /\ Rules[j].kind = "message"
      BY SelectionFacts
    <3>2. j = i
      BY <1>3, <2>1, <3>1
    <3>3. job.phase = "after"
      BY <1>5, <1>6, <3>1, <3>2
    <3> QED
      BY <1>1, <2>1, <3>3 DEF OwedNow
  <2> QED
    BY <1>1, <1>2, <2>1, ReturnsGrow
<1>9. OwedNow'
  <2>1. CASE job.phase = "after"
    <3>1. /\ \A j \in AfterRules(job.event) : Rules[j].repeatable =>
               IF j \in job.due THEN Named(j, job.at) = {} ELSE \E n \in DOMAIN log : Named(j, job.at) = {n}
          /\ job.failed <= job.failures + Cardinality(Errors(job.at, Len(log)))
          /\ \A x \in returned : x.seq # job.at
      BY <2>1 DEF OwedNow
    <3>2. job.at \in DOMAIN log
      BY <1>6, <2>1
    <3>3. Errors(job.at, Len(log))' = {n \in (job.at + 1)..Len(log') : log'[n].type = "error"}
      BY <1>2 DEF Errors
    <3> DEFINE a == job.at
    <3>4. a \in DOMAIN log
      BY <3>2
    <3> HIDE DEF a
    <3>5. /\ Cardinality(Errors(a, Len(log))) \in Nat
          /\ Cardinality({n \in (a + 1)..Len(log') : log'[n].type = "error"}) =
               Cardinality(Errors(a, Len(log))) + (IF r.type = "error" THEN 1 ELSE 0)
      BY <1>1, <3>4, ErrorsGrow
    <3>6. Cardinality(Errors(job.at, Len(log))') = Cardinality(Errors(job.at, Len(log)))
      <4>1. Errors(job.at, Len(log))' = {n \in (a + 1)..Len(log') : log'[n].type = "error"}
        BY <3>3 DEF a
      <4>2. r.type # "error"
        BY <1>1
      <4>3. Cardinality(Errors(job.at, Len(log))') = Cardinality(Errors(a, Len(log)))
        BY <3>5, <4>1, <4>2
      <4> QED
        BY <4>3 DEF a
    <3>7. \A j, s : {n \in DOMAIN log' : log'[n].rule = Rules[j].id /\ log'[n].matched = s} =
                        IF r.rule = Rules[j].id /\ r.matched = s
                        THEN Named(j, s) \cup {Len(log) + 1} ELSE Named(j, s)
      BY <1>1, Grown DEF Named
    <3>8. Len(log) \in Nat /\ DOMAIN log = 1..Len(log) /\ DOMAIN log' = 1..(Len(log) + 1)
      BY <1>1, Grown
    <3>9. ASSUME NEW j \in AfterRules(job.event), Rules[j].repeatable
          PROVE  IF j \in job'.due THEN Named(j, job.at)' = {}
                                   ELSE \E n \in DOMAIN log' : Named(j, job.at)' = {n}
      <4>1. j \in DOMAIN Rules
        BY SelectionFacts
      <4>2. Named(j, job.at)' = {n \in DOMAIN log' : log'[n].rule = Rules[j].id /\ log'[n].matched = job.at}
        BY <1>2 DEF Named
      <4>3. CASE j = i
        <5>1. Named(j, job.at) = {}
          BY <1>1, <3>1, <3>9, <4>3
        <5>2. Named(j, job.at)' = {Len(log) + 1}
          <6>1. r.rule = Rules[j].id /\ r.matched = job.at
            BY <1>1, <4>3
          <6>2. {n \in DOMAIN log' : log'[n].rule = Rules[j].id /\ log'[n].matched = job.at}
                  = Named(j, job.at) \cup {Len(log) + 1}
            BY <3>7, <6>1
          <6> QED
            BY <4>2, <5>1, <6>2
        <5>3. j \notin job'.due /\ Len(log) + 1 \in DOMAIN log'
          BY <1>2, <3>8, <4>3
        <5> QED
          BY <5>2, <5>3
      <4>4. CASE j # i
        <5>1. Named(j, job.at)' = Named(j, job.at)
          BY <1>3, <3>7, <4>1, <4>2, <4>4
        <5>2. DOMAIN log \subseteq DOMAIN log' /\ (j \in job'.due <=> j \in job.due)
          BY <1>2, <3>8, <4>4
        <5> QED
          BY <3>1, <3>9, <5>1, <5>2
      <4> QED
        BY <4>3, <4>4
    <3> QED
      BY <1>2, <2>1, <3>1, <3>6, <3>9 DEF OwedNow
  <2>2. CASE job.phase # "after"
    BY <1>2, <2>2 DEF OwedNow
  <2> QED
    BY <2>1, <2>2
<1> QED
  BY <1>7, <1>8, <1>9

(* The event's record makes the after rules owe theirs.                       *)
LEMMA EventOwed ==
    ASSUME TypeOK, JobShape, AuditsTrue, OwedNow, OwedBefore, KeysBehind, AppendEvent
    PROVE  AuditsTrue' /\ OwedNow' /\ OwedBefore'
<1>1. /\ job'.phase = "after" /\ job'.event = job.event /\ job'.at = Len(log) + 1
      /\ job'.due = Fresh(AfterRules(job.event), "after", Len(log) + 1)
      /\ \E n \in Nat : job'.failures = job.failures + n /\ job'.failed = job.failed + n
      /\ job.event \in Events /\ job.phase = "before"
      /\ log' = Append(log, EventRecord(job.event)) /\ returned' = returned
  BY EventJob
<1>2. job.event \in Events \cup {"error"}
  BY <1>1
<1> DEFINE e == job.event
<1>3. e \in Events \cup {"error"} /\ log' = Append(log, EventRecord(e))
  BY <1>1
<1> HIDE DEF e
<1>4. /\ AuditsTrue' /\ OwedBefore'
      /\ \A i \in DOMAIN Rules : \A s : Named(i, s)' = Named(i, s)
  BY <1>1, <1>3, PlainOwed
<1>5. Len(log) \in Nat /\ DOMAIN log = 1..Len(log) /\ Len(log') = Len(log) + 1
  <2>1. EventRecord(e) \in Records
    BY <1>3, RecordFacts
  <2> QED
    BY <1>3, <2>1, Grown
<1>6. ASSUME NEW i \in AfterRules(job.event), Rules[i].repeatable
      PROVE  i \in job'.due /\ Named(i, Len(log) + 1) = {}
  <2>1. i \in DOMAIN Rules /\ Rules[i].relation # "before"
    BY SelectionFacts
  <2>2. Key(Rules[i], "after", Len(log) + 1) = <<Rules[i].id, "after", Len(log) + 1>>
    BY <1>6 DEF Key
  <2>3. <<Rules[i].id, "after", Len(log) + 1>> \notin fired
    <3>1. SUFFICES ASSUME <<Rules[i].id, "after", Len(log) + 1>> \in fired PROVE FALSE
      OBVIOUS
    <3>2. Len(log) + 1 <= Len(log)
      BY <3>1 DEF KeysBehind
    <3> QED
      BY <1>5, <3>2
  <2>4. i \in job'.due
    BY <1>1, <2>2, <2>3 DEF Fresh
  <2>5. ASSUME NEW n \in DOMAIN log, log[n].rule = Rules[i].id, log[n].matched = Len(log) + 1 PROVE FALSE
    <3>1. log[n].relation # "before"
      BY <2>1, <2>5 DEF AuditsTrue
    <3>2. log[n].matched # 0
      BY <1>5, <2>5
    <3>3. log[n].matched < n
      BY <3>1, <3>2 DEF AuditsTrue
    <3> QED
      BY <1>5, <2>5, <3>3
  <2> QED
    BY <2>4, <2>5 DEF Named
<1>7. ASSUME NEW i \in AfterRules(job.event), Rules[i].repeatable
      PROVE  i \in job'.due /\ {n \in DOMAIN log' : /\ log'[n].rule = Rules[i].id
                                                     /\ log'[n].matched = Len(log) + 1} = {}
  <2>1. i \in DOMAIN Rules
    BY SelectionFacts
  <2>2. \A s : {n \in DOMAIN log' : log'[n].rule = Rules[i].id /\ log'[n].matched = s} = Named(i, s)
    BY <1>4, <2>1 DEF Named
  <2> QED
    BY <1>6, <1>7, <2>2
<1>8. /\ job.failed \in Nat /\ job.failures \in Nat /\ job.failed = job.failures
  BY <1>1 DEF TypeOK, Jobs, OwedNow
<1>9. Cardinality(Errors(job.at, Len(log))') \in Nat
  <2>1. Errors(job.at, Len(log))' = {n \in (Len(log) + 2)..(Len(log) + 1) : log'[n].type = "error"}
    BY <1>1, <1>5 DEF Errors
  <2>2. Errors(job.at, Len(log))' = {}
    BY <1>5, <2>1
  <2> QED
    BY <2>2, FS_EmptySet
<1>10. job'.failed <= job'.failures + Cardinality(Errors(job.at, Len(log))')
  BY <1>1, <1>8, <1>9
<1>11. \A x \in returned' : x.seq # job'.at
  BY <1>1, <1>5 DEF OwedBefore
<1>12. \A i \in AfterRules(job'.event) : Rules[i].repeatable => i \in job'.due /\ Named(i, job.at)' = {}
  BY <1>1, <1>7 DEF Named
<1>13. OwedNow'
  BY <1>1, <1>10, <1>11, <1>12 DEF OwedNow
<1> QED
  BY <1>4, <1>13

(* Every step keeps what is owed.                                             *)
LEMMA OwedStep ==
    ASSUME TypeOK, JobShape, Owed, [Next]_vars
    PROVE  Owed'
<1>1. KeysBehind'
  BY KeysBehindStep DEF Owed
<1>2. AuditsTrue /\ OwedNow /\ OwedBefore /\ KeysBehind
  BY DEF Owed
<1> SUFFICES AuditsTrue' /\ OwedNow' /\ OwedBefore'
  BY <1>1 DEF Owed
<1>0. ASSUME log' = log, returned' = returned PROVE AuditsTrue' /\ OwedBefore'
  <2>1. AuditsTrue'
    BY <1>0, <1>2 DEF AuditsTrue
  <2>2. ASSUME NEW x \in returned
        PROVE  /\ x.seq \in DOMAIN log' /\ x.end \in x.seq..Len(log')
               /\ \A i \in AfterRules(log'[x.seq].type) :
                    Rules[i].repeatable => \E n \in DOMAIN log' : Named(i, x.seq)' = {n}
               /\ x.failed <= Cardinality(Errors(x.seq, x.end)')
    <3>1. /\ \A i : Named(i, x.seq)' = Named(i, x.seq)
          /\ Errors(x.seq, x.end)' = Errors(x.seq, x.end)
      BY <1>0 DEF Named, Errors
    <3> QED
      BY <1>0, <1>2, <2>2, <3>1 DEF OwedBefore
  <2> QED
    BY <1>0, <2>1, <2>2 DEF OwedBefore
<1>3. ASSUME log' = log, returned' = returned, job' = job \/ job'.phase \notin {"before", "after"}
      PROVE  AuditsTrue' /\ OwedNow' /\ OwedBefore'
  <2>1. CASE job' = job
    <3>1. /\ \A i : Named(i, job.at)' = Named(i, job.at)
          /\ Errors(job.at, Len(log))' = Errors(job.at, Len(log))
      BY <1>3, <2>1 DEF Named, Errors
    <3> QED
      BY <1>0, <1>2, <1>3, <2>1, <3>1 DEF OwedNow
  <2>2. CASE job'.phase \notin {"before", "after"}
    BY <1>0, <1>3, <2>2 DEF OwedNow
  <2> QED
    BY <1>3, <2>1, <2>2
<1>4. ASSUME NEW e \in Events, Emit(e) PROVE AuditsTrue' /\ OwedNow' /\ OwedBefore'
  <2>1. log' = log /\ returned' = returned
    BY <1>4 DEF Emit
  <2>2. job'.phase = "before" /\ job'.failed = job'.failures
    BY <1>4 DEF Emit
  <2>3. AuditsTrue' /\ OwedBefore'
    BY <1>0, <2>1
  <2> QED
    BY <2>2, <2>3 DEF OwedNow
<1>5. ASSUME NEW e \in Events, OtherAppend(e) PROVE AuditsTrue' /\ OwedNow' /\ OwedBefore'
  <2>1. log' = Append(log, EventRecord(e)) /\ returned' = returned /\ job' = job /\ e \in Events \cup {"error"}
    BY <1>5 DEF OtherAppend
  <2>2. AuditsTrue' /\ OwedBefore'
    BY <1>2, <2>1, PlainOwed
  <2>3. OwedNow'
    BY <1>2, <2>1, PlainOwedNow
  <2> QED
    BY <2>2, <2>3
<1>6. CASE PollTime
  BY <1>3, <1>6, PollJob
<1>7. CASE AppendDecision
  BY <1>2, <1>7, DecisionOwed
<1>8. CASE AppendEvent
  BY <1>2, <1>8, EventOwed
<1>9. CASE AppendHookFailure
  <2>1. /\ log' = Append(log, EventRecord("error")) /\ returned' = returned /\ job.phase = "after"
        /\ job'.due = job.due /\ job'.phase = job.phase /\ job'.event = job.event /\ job'.at = job.at
        /\ job'.failures = job.failures - 1 /\ job'.failed = job.failed
        /\ "error" \in Events \cup {"error"}
    BY <1>9, FailureJob
  <2>2. AuditsTrue' /\ OwedBefore'
    BY <1>2, <2>1, PlainOwed
  <2>3. OwedNow'
    BY <1>2, <2>1, PlainOwedNow
  <2> QED
    BY <2>2, <2>3
<1>10. CASE ReturnEmit
  <2>1. OwedBefore'
    BY <1>2, <1>10, ReturnOwed
  <2>2. log' = log /\ job' = Idle
    BY <1>10 DEF ReturnEmit
  <2> QED
    BY <1>2, <2>1, <2>2, IdleFacts DEF AuditsTrue, OwedNow
<1>11. CASE ReturnPoll \/ AppendRaises \/ Kill
  <2>1. log' = log /\ returned' = returned /\ job' = Idle
    BY <1>11 DEF ReturnPoll, AppendRaises, Kill
  <2> QED
    BY <1>3, <2>1, IdleFacts
<1>12. CASE Restart \/ Tick \/ UNCHANGED vars
  BY <1>3, <1>12 DEF Restart, Tick, vars
<1> QED
  BY <1>4, <1>5, <1>6, <1>7, <1>8, <1>9, <1>10, <1>11, <1>12 DEF Next, Proceed

-----------------------------------------------------------------------------
(* The predicted sequence.                                                    *)
LEMMA PredictedGrows ==
    ASSUME TypeOK, Predicted, ~shifted, job.phase # "before", job'.phase # "before",
           NEW r \in Records, log' = Append(log, r), r.relation # "before" \/ r.matched = 0,
           fired' = fired
    PROVE  Predicted'
<1>1. /\ Len(log) \in Nat /\ Len(log') = Len(log) + 1
      /\ DOMAIN log = 1..Len(log) /\ DOMAIN log' = 1..(Len(log) + 1)
      /\ \A n \in DOMAIN log : log'[n] = log[n]
      /\ log'[Len(log) + 1] = r
  BY Grown
<1>2. ASSUME NEW n \in DOMAIN log', log'[n].relation = "before", log'[n].matched # 0
      PROVE  log'[n].matched \in (n + 1)..Len(log') /\ log'[log'[n].matched].type = log'[n].event
  <2>1. n \in DOMAIN log /\ log'[n] = log[n]
    BY <1>1, <1>2
  <2>2. log[n].matched \in (n + 1)..Len(log) /\ log[log[n].matched].type = log[n].event
    BY <1>2, <2>1 DEF Predicted
  <2>3. log[n].matched \in DOMAIN log
    BY <1>1, <2>1, <2>2
  <2>4. log'[log[n].matched] = log[log[n].matched]
    BY <1>1, <2>3
  <2>5. log[n].matched \in (n + 1)..(Len(log) + 1)
    BY <1>1, <2>1, <2>2
  <2> QED
    BY <1>1, <2>1, <2>2, <2>4, <2>5
<1>3. ASSUME NEW k \in fired', k[2] = "before" PROVE k[3] <= Len(log')
  <2>1. k[3] <= Len(log) /\ k[3] \in Nat
    BY <1>3 DEF Predicted, TypeOK
  <2> QED
    BY <1>1, <2>1
<1> QED
  BY <1>2, <1>3 DEF Predicted

(* A step outside the before phase leaves the prediction alone.               *)
LEMMA PredictedRests ==
    ASSUME Predicted, ~shifted, job.phase # "before", job'.phase # "before", log' = log,
           \A k \in fired' : k \in fired \/ k[2] # "before"
    PROVE  Predicted'
    BY DEF Predicted

(* Every step keeps the prediction true, when no before rule is one-shot.     *)
LEMMA PredictedStep ==
    ASSUME TypeOK, JobShape, Predicted, BeforeRepeatable, [Next]_vars
    PROVE  Predicted'
<1> SUFFICES ASSUME ~shifted' PROVE Predicted'
  BY DEF Predicted
<1>1. Len(log) \in Nat /\ DOMAIN log = 1..Len(log) /\ \A k \in fired : k[3] \in Nat
  BY DEF TypeOK
<1>2. ASSUME NEW e \in Events, Emit(e) PROVE Predicted'
  <2> DEFINE seq == PredictedSequence(e)
  <2>1. /\ seq \in Nat /\ job'.phase = "before" /\ job'.at = seq /\ job = Idle
        /\ job'.due = Fresh(BeforeRules(e), "before", seq)
        /\ job'.due \in SUBSET (DOMAIN Rules)
        /\ fired' = fired \cup KeysOf(job'.due, "before", job'.at)
    BY <1>2, EmitJob
  <2>2. log' = log /\ shifted' = shifted
    BY <1>2 DEF Emit, history
  <2>3. seq = Len(log) + 1 + Cardinality(BeforeRules(e)) /\ Cardinality(BeforeRules(e)) \in Nat
    BY SelectionFacts, SelectionsFinite DEF PredictedSequence
  <2>4. job.phase # "before"
    BY <2>1, IdleFacts
  <2> HIDE DEF seq
  <2>5. ASSUME NEW i \in BeforeRules(e) PROVE Key(Rules[i], "before", seq) \notin fired
    <3>1. Rules[i].repeatable
      BY SelectionFacts DEF BeforeRepeatable
    <3>2. Key(Rules[i], "before", seq) = <<Rules[i].id, "before", seq>>
      BY <3>1 DEF Key
    <3>3. ASSUME <<Rules[i].id, "before", seq>> \in fired PROVE seq <= Len(log)
      BY <2>2, <2>4, <3>3 DEF Predicted
    <3> QED
      BY <1>1, <2>3, <3>2, <3>3
  <2>6. job'.due = BeforeRules(e)
    BY <2>1, <2>5 DEF Fresh
  <2>7. job'.at = Len(log') + 1 + Cardinality(job'.due)
    BY <2>1, <2>2, <2>3, <2>6
  <2>8. \A k \in KeysOf(job'.due, "before", job'.at) : k[2] = "before" => k[3] = job'.at
    <3> DEFINE s == job'.at
               due == job'.due
    <3>1. s \in Nat /\ due \in SUBSET (DOMAIN Rules)
      BY <2>1
    <3> HIDE DEF s, due
    <3>2. ASSUME NEW k \in KeysOf(due, "before", s)
          PROVE  k[2] \in {"once", "before"} /\ (k[2] = "before" => k[3] = s)
      BY <3>1, KeysMarked
    <3> QED
      BY <3>2 DEF s, due
  <2> QED
    BY <2>1, <2>2, <2>4, <2>7, <2>8 DEF Predicted
<1>3. ASSUME NEW e \in Events, OtherAppend(e) PROVE Predicted'
  <2>1. /\ log' = Append(log, EventRecord(e)) /\ fired' = fired /\ job' = job
        /\ shifted' = (shifted \/ job.phase = "before")
    BY <1>3 DEF OtherAppend
  <2>2. EventRecord(e) \in Records /\ EventRecord(e).matched = 0
    BY RecordFacts
  <2>3. ~shifted /\ job.phase # "before"
    BY <2>1
  <2> QED
    BY <2>1, <2>2, <2>3, PredictedGrows
<1>4. CASE PollTime
  <2>1. /\ job'.phase = "time" /\ job = Idle /\ log' = log /\ shifted' = shifted
        /\ job'.due \in SUBSET (DOMAIN Rules) /\ now \in Nat
        /\ fired' = fired \cup KeysOf(job'.due, "time", now)
    BY <1>4, PollJob
  <2>2. \A k \in KeysOf(job'.due, "time", now) : k[2] # "before"
    BY <2>1, KeysMarked
  <2> QED
    BY <2>1, <2>2, IdleFacts, PredictedRests
<1>5. CASE AppendDecision
  <2> DEFINE i == First(job.due)
             r == Decision(Rules[i], job.event, job.at)
  <2>1. /\ i \in job.due /\ i \in DOMAIN Rules
        /\ r \in Records /\ r.rule = Rules[i].id
        /\ r.relation = Rules[i].relation /\ r.event = job.event /\ r.matched = job.at
        /\ log' = Append(log, r)
    BY <1>5, Decided
  <2>2. /\ job'.due = job.due \ {i} /\ job'.phase = job.phase /\ job'.event = job.event /\ job'.at = job.at
        /\ fired' = fired /\ shifted' = shifted
    BY <1>5, DecisionJob
  <2> HIDE DEF i, r
  <2>3. CASE job.phase = "before"
    <3>1. /\ Len(log') = Len(log) + 1
          /\ DOMAIN log = 1..Len(log) /\ DOMAIN log' = 1..(Len(log) + 1)
          /\ \A n \in DOMAIN log : log'[n] = log[n]
          /\ log'[Len(log) + 1] = r
      BY <2>1, Grown
    <3>2. job'.at = Len(log') + 1 + Cardinality(job'.due)
      <4>1. job.due \in SUBSET (DOMAIN Rules)
        BY DEF TypeOK, Jobs
      <4>2. IsFiniteSet(job.due) /\ Cardinality(job.due) \in Nat
        BY <4>1, SelectionsFinite
      <4>3. Cardinality(job.due \ {i}) = Cardinality(job.due) - 1
        BY <2>1, <4>2, FS_RemoveElement
      <4>4. job.at = Len(log) + 1 + Cardinality(job.due)
        BY <2>2, <2>3 DEF Predicted
      <4> QED
        BY <1>1, <2>2, <3>1, <4>2, <4>3, <4>4
    <3>3. ASSUME NEW n \in DOMAIN log', log'[n].relation = "before", log'[n].matched # 0
          PROVE  \/ log'[n].matched \in (n + 1)..Len(log') /\ log'[log'[n].matched].type = log'[n].event
                 \/ log'[n].matched = job.at /\ log'[n].event = job.event
      <4>1. CASE n \in DOMAIN log
        <5>1. log'[n] = log[n]
          BY <3>1, <4>1
        <5>2. \/ log[n].matched \in (n + 1)..Len(log) /\ log[log[n].matched].type = log[n].event
              \/ log[n].matched = job.at /\ log[n].event = job.event
          BY <2>2, <3>3, <4>1, <5>1 DEF Predicted
        <5>3. ASSUME log[n].matched \in (n + 1)..Len(log)
              PROVE  log[n].matched \in (n + 1)..Len(log') /\ log'[log[n].matched] = log[log[n].matched]
          <6>1. log[n].matched \in DOMAIN log /\ log[n].matched \in (n + 1)..(Len(log) + 1)
            BY <1>1, <4>1, <5>3
          <6> QED
            BY <3>1, <6>1
        <5> QED
          BY <5>1, <5>2, <5>3
      <4>2. CASE n = Len(log) + 1
        BY <2>1, <3>1, <4>2
      <4>3. n \in DOMAIN log \/ n = Len(log) + 1
        BY <1>1, <3>1
      <4> QED
        BY <4>1, <4>2, <4>3
    <3>4. ASSUME NEW k \in fired', k[2] = "before" PROVE k[3] <= Len(log') \/ k[3] = job.at
      <4>1. k[3] <= Len(log) \/ k[3] = job.at
        BY <2>2, <2>3, <3>4 DEF Predicted
      <4>2. k[3] \in Nat
        BY <1>1, <2>2, <3>4
      <4> QED
        BY <1>1, <3>1, <4>1, <4>2
    <3> QED
      BY <2>2, <2>3, <3>2, <3>3, <3>4 DEF Predicted
  <2>4. CASE job.phase # "before"
    <3>1. job.phase = "after" \/ job.phase = "time"
      <4>1. job.phase # "idle"
        BY <2>1, IdleFacts DEF JobShape
      <4> QED
        BY <2>4, <4>1 DEF TypeOK, Jobs
    <3>2. r.relation # "before" \/ r.matched = 0
      <4>1. CASE job.phase = "after"
        BY <2>1, <4>1, SelectionFacts DEF JobShape
      <4>2. CASE job.phase = "time"
        BY <2>1, <4>2 DEF JobShape
      <4> QED
        BY <3>1, <4>1, <4>2
    <3> QED
      BY <2>1, <2>2, <2>4, <3>2, PredictedGrows
  <2> QED
    BY <2>3, <2>4
<1>6. CASE AppendEvent
  <2> DEFINE r == EventRecord(job.event)
  <2>1. /\ job'.phase = "after" /\ job'.due \in SUBSET (DOMAIN Rules) /\ job.phase = "before" /\ job.due = {}
        /\ fired' = fired \cup KeysOf(job'.due, "after", Len(log) + 1)
        /\ log' = Append(log, r) /\ shifted' = shifted /\ Len(log) + 1 \in Nat
        /\ r \in Records /\ r.type = job.event /\ r.matched = 0
    BY <1>6, EventJob, RecordFacts
  <2> HIDE DEF r
  <2>2. /\ Len(log') = Len(log) + 1
        /\ DOMAIN log = 1..Len(log) /\ DOMAIN log' = 1..(Len(log) + 1)
        /\ \A n \in DOMAIN log : log'[n] = log[n]
        /\ log'[Len(log) + 1] = r
    BY <2>1, Grown
  <2>3. job.at = Len(log) + 1
    <3>1. Cardinality(job.due) = 0
      BY <2>1, FS_EmptySet
    <3> QED
      BY <1>1, <2>1, <3>1 DEF Predicted
  <2>4. ASSUME NEW n \in DOMAIN log', log'[n].relation = "before", log'[n].matched # 0
        PROVE  log'[n].matched \in (n + 1)..Len(log') /\ log'[log'[n].matched].type = log'[n].event
    <3>1. n \in DOMAIN log /\ log'[n] = log[n]
      <4>1. n # Len(log) + 1
        BY <2>1, <2>2, <2>4
      <4> QED
        BY <1>1, <2>2, <4>1
    <3>2. \/ log[n].matched \in (n + 1)..Len(log) /\ log[log[n].matched].type = log[n].event
          \/ log[n].matched = Len(log) + 1 /\ log[n].event = job.event
      BY <2>1, <2>3, <2>4, <3>1 DEF Predicted
    <3>3. ASSUME log[n].matched \in (n + 1)..Len(log)
          PROVE  log[n].matched \in (n + 1)..(Len(log) + 1) /\ log'[log[n].matched] = log[log[n].matched]
      <4>1. log[n].matched \in DOMAIN log /\ log[n].matched \in (n + 1)..(Len(log) + 1)
        BY <1>1, <3>1, <3>3
      <4> QED
        BY <2>2, <4>1
    <3>4. Len(log) + 1 \in (n + 1)..(Len(log) + 1)
      BY <1>1, <3>1
    <3> QED
      BY <2>1, <2>2, <3>1, <3>2, <3>3, <3>4
  <2>5. ASSUME NEW k \in fired', k[2] = "before" PROVE k[3] <= Len(log')
    <3> DEFINE s == Len(log) + 1
               due == job'.due
    <3>1. s \in Nat /\ due \in SUBSET (DOMAIN Rules) /\ fired' = fired \cup KeysOf(due, "after", s)
      BY <2>1
    <3> HIDE DEF s, due
    <3>2. \A l \in KeysOf(due, "after", s) : l[2] # "before"
      BY <3>1, KeysMarked
    <3>3. k \in fired
      BY <2>5, <3>1, <3>2
    <3>4. k[3] <= Len(log) \/ k[3] = Len(log) + 1
      BY <2>1, <2>3, <2>5, <3>3 DEF Predicted
    <3>5. k[3] \in Nat
      BY <1>1, <3>3
    <3> QED
      BY <1>1, <2>2, <3>4, <3>5
  <2> QED
    BY <2>1, <2>4, <2>5 DEF Predicted
<1>7. CASE AppendHookFailure
  <2>1. /\ job.phase = "after" /\ job'.phase = job.phase /\ log' = Append(log, EventRecord("error"))
        /\ fired' = fired /\ shifted' = shifted
    BY <1>7, FailureJob
  <2>2. EventRecord("error") \in Records /\ EventRecord("error").matched = 0
    BY RecordFacts
  <2> QED
    BY <2>1, <2>2, PredictedGrows
<1>8. CASE ReturnEmit \/ ReturnPoll
  <2>1. log' = log /\ shifted' = shifted /\ fired' = fired /\ job.phase # "before" /\ job' = Idle
    BY <1>8 DEF ReturnEmit, ReturnPoll, history
  <2> QED
    BY <2>1, IdleFacts, PredictedRests
<1>9. CASE AppendRaises \/ Kill
  <2>1. /\ log' = log /\ shifted' = (shifted \/ job.phase = "before") /\ job' = Idle
        /\ fired' = fired \/ fired' = {}
    BY <1>9 DEF AppendRaises, Kill
  <2> QED
    BY <2>1, IdleFacts, PredictedRests
<1>10. CASE Restart
  <2>1. log' = log /\ shifted' = shifted /\ job' = Idle /\ job = Idle /\ fired' = SeededKeys(log)
    BY <1>10 DEF Restart, history, JobShape
  <2>2. \A k \in SeededKeys(log) : k[2] = "once"
    BY DEF SeededKeys, OnceKey
  <2> QED
    BY <2>1, <2>2, IdleFacts, PredictedRests
<1>11. CASE Tick \/ UNCHANGED vars
  BY <1>11 DEF Tick, vars, history, Predicted
<1> QED
  BY <1>2, <1>3, <1>4, <1>5, <1>6, <1>7, <1>8, <1>9, <1>10, <1>11 DEF Next, Proceed

-----------------------------------------------------------------------------
(* It holds in the beginning and every step keeps it.                         *)
LEMMA CoreInit == Init => CoreInv
<1> SUFFICES ASSUME Init PROVE CoreInv
  OBVIOUS
<1>1. log = << >> /\ up = TRUE /\ fired = {} /\ job = Idle /\ returned = {} /\ DOMAIN log = {} /\ Len(log) = 0
  BY DEF Init
<1>2. TypeOK
  <2>1. log \in Seq(Records) /\ job \in Jobs
    BY <1>1, IdleFacts
  <2>2. now \in 0..MaxTime
    BY RulesAssumption DEF Init
  <2>3. dropped = {} /\ shifted = FALSE
    BY DEF Init
  <2> QED
    BY <1>1, <2>1, <2>2, <2>3 DEF TypeOK
<1>3. JobShape
  BY <1>1, IdleFacts DEF JobShape
<1>4. OneShots /\ Firings
  BY <1>1, IdleFacts DEF OneShots, Firings, Fired
<1>5. Owed
  BY <1>1, IdleFacts DEF Owed, AuditsTrue, OwedNow, OwedBefore, KeysBehind
<1> QED
  BY <1>2, <1>3, <1>4, <1>5 DEF CoreInv

(* Every step keeps the invariant.                                            *)
LEMMA CoreStep == CoreInv /\ [Next]_vars => CoreInv'
  BY TypeStep, ShapeStep, FiringStep, OwedStep DEF CoreInv

(* The invariant holds in every reachable state: one proof for all its parts, *)
(* since each of them leans on the others' picture of the job.                *)
THEOREM CoreInvariant == Spec => []CoreInv
<1> QED
  BY CoreInit, CoreStep, PTL DEF Spec

(* The shape of the ledger, the fired keys and the emission in progress       *)
(* survives every emission, fault and restart.                                *)
THEOREM TypeCorrect == Spec => []TypeOK
<1>1. CoreInv => TypeOK
  BY DEF CoreInv
<1> QED
  BY <1>1, CoreInvariant, PTL

(* seed_fired_from_records and the fired keys together let a rule that is not *)
(* repeatable be audited at most once in the life of a ledger.                *)
THEOREM OneShotsOnce == Spec => []OneShotOnce
<1>1. CoreInv => OneShotOnce
  <2> SUFFICES ASSUME CoreInv, NEW i \in DOMAIN Rules, ~Rules[i].repeatable
               PROVE  Cardinality(Fired(Rules[i].id)) <= 1
    BY DEF OneShotOnce
  <2>1. \A m, n \in Fired(Rules[i].id) : m = n
    BY DEF CoreInv, OneShots
  <2>2. CASE Fired(Rules[i].id) = {}
    BY <2>2, FS_EmptySet
  <2>3. CASE Fired(Rules[i].id) # {}
    <3>1. PICK n \in Fired(Rules[i].id) : TRUE
      BY <2>3
    <3>2. Fired(Rules[i].id) = {n}
      BY <2>1, <3>1
    <3>3. Cardinality(Fired(Rules[i].id)) = 1
      BY <3>2, FS_Singleton
    <3> QED
      BY <3>3
  <2> QED
    BY <2>2, <2>3
<1> QED
  BY <1>1, CoreInvariant, PTL

(* A key the trigger engine holds as fired has its record once the evaluation *)
(* that marked it is over, unless the append of that record raised.           *)
THEOREM FiringsAudited == Spec => []FiringAudited
<1>1. CoreInv => FiringAudited
  BY IdleFacts DEF CoreInv, Firings, FiringAudited
<1> QED
  BY <1>1, CoreInvariant, PTL

(* When emit returns, the triggers its event fires and the hooks that failed  *)
(* are on record: each trigger once, whoever appends meanwhile and later.     *)
THEOREM ReturnsComplete == Spec => []ReturnComplete
<1>1. CoreInv => ReturnComplete
  <2> SUFFICES ASSUME CoreInv, NEW x \in returned
               PROVE  /\ \A i \in AfterRules(log[x.seq].type) : Rules[i].repeatable =>
                           Cardinality({n \in Fired(Rules[i].id) : log[n].matched = x.seq}) = 1
                      /\ x.failed <= Cardinality({n \in (x.seq + 1)..x.end : log[n].type = "error"})
    BY DEF ReturnComplete
  <2>1. /\ \A i \in AfterRules(log[x.seq].type) :
             Rules[i].repeatable => \E n \in DOMAIN log : Named(i, x.seq) = {n}
        /\ x.failed <= Cardinality(Errors(x.seq, x.end))
    BY DEF CoreInv, Owed, OwedBefore
  <2>2. ASSUME NEW i \in AfterRules(log[x.seq].type), Rules[i].repeatable
        PROVE  Cardinality({n \in Fired(Rules[i].id) : log[n].matched = x.seq}) = 1
    <3>1. PICK m \in DOMAIN log : Named(i, x.seq) = {m}
      BY <2>1, <2>2
    <3>2. {n \in Fired(Rules[i].id) : log[n].matched = x.seq} = {m}
      BY <3>1 DEF Named, Fired
    <3> QED
      BY <3>2, FS_Singleton
  <2> QED
    BY <2>1, <2>2 DEF Errors
<1> QED
  BY <1>1, CoreInvariant, PTL

(* Between two emissions the ledger passes the trigger contract of the health *)
(* report, but for what another process, an exception or a kill shifted, if   *)
(* every BEFORE rule is repeatable: the prediction of evaluate_before_append  *)
(* counts every rule that matches, and only then do all of them fire.         *)
THEOREM ContractKept == BeforeRepeatable => (Spec => []TriggerContract)
<1> SUFFICES ASSUME BeforeRepeatable PROVE Spec => []TriggerContract
  OBVIOUS
<1>1. Init => CoreInv /\ Predicted
  <2>1. Init => Predicted
    BY IdleFacts DEF Init, Predicted
  <2> QED
    BY <2>1, CoreInit
<1>2. CoreInv /\ Predicted /\ [Next]_vars => (CoreInv /\ Predicted)'
  BY PredictedStep, CoreStep DEF CoreInv
<1>3. CoreInv /\ Predicted => TriggerContract
  <2> SUFFICES ASSUME CoreInv, Predicted, job = Idle, NEW n \in DOMAIN log,
                      ~(shifted /\ log[n].relation = "before"),
                      log[n].type = "trigger.fired", log[n].matched # 0
               PROVE  /\ log[n].matched \in DOMAIN log \ {n}
                      /\ log[log[n].matched].type = log[n].event
                      /\ IF log[n].relation = "before" THEN n < log[n].matched ELSE n > log[n].matched
    BY DEF TriggerContract, TriggerContractHolds
  <2>1. Len(log) \in Nat /\ DOMAIN log = 1..Len(log) /\ log[n].matched \in Nat
    <3>1. log \in Seq(Records) /\ log[n] \in Records
      BY DEF CoreInv, TypeOK
    <3> QED
      BY <3>1 DEF Records
  <2>2. CASE log[n].relation = "before"
    <3>1. log[n].matched \in (n + 1)..Len(log) /\ log[log[n].matched].type = log[n].event
      BY <2>2, IdleFacts DEF Predicted
    <3> QED
      BY <2>1, <2>2, <3>1
  <2>3. CASE log[n].relation # "before"
    <3>1. log[n].matched < n /\ log[log[n].matched].type = log[n].event
      BY <2>3 DEF CoreInv, Owed, AuditsTrue
    <3> QED
      BY <2>1, <2>3, <3>1
  <2> QED
    BY <2>2, <2>3
<1> QED
  BY <1>1, <1>2, <1>3, PTL DEF Spec
=============================================================================
