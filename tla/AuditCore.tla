----------------------------- MODULE AuditCore -----------------------------
(* core/engine.py with hooks/registry.py and triggers/rules.py: the emission  *)
(* of one event runs the before-hooks, audits the triggers due before it,     *)
(* appends it, runs the after-hooks, audits the triggers it fires and then    *)
(* the hooks that failed.  Each record is a ledger append of its own, so      *)
(* another process can append between any two of them, every one of them can  *)
(* raise (LedgerLockError, OSError) and the process can be killed between     *)
(* them.  TriggerEngine keeps the keys that have fired in memory only and     *)
(* seeds the one-shot ones from the ledger when the process starts.           *)
(* (Operators directly before a definition, unused otherwise: its mutants.)   *)
EXTENDS Integers, Sequences, FiniteSets

CONSTANTS
    Events,         \* the event types callers emit
    AnyEvent,       \* a MessageTrigger without an event type
    Rules,          \* the registered rules, in order: a sequence of records
                    \* [id, kind, relation, event, repeatable, target]
    NoRule,
    Tolerance,      \* TimeTrigger.tolerance
    MaxLog, MaxTime,        \* nothing is begun beyond these: bounds
    MaxHookFailures,        \* failing hooks at each of the two hook points
    OtherProcesses,         \* may another process append to this ledger?
    Faults                  \* may appends raise, and the process be killed?

Ids == {Rules[i].id : i \in DOMAIN Rules}

(* Registration refuses a second rule of an id and asks for a relation.       *)
ASSUME RulesAssumption ==
    /\ Rules \in Seq([id : Ids, kind : {"message", "time"}, relation : {"before", "on", "after"},
                      event : Events \cup {AnyEvent}, repeatable : BOOLEAN, target : Int])
    /\ \A i, j \in DOMAIN Rules : Rules[i].id = Rules[j].id => i = j
    /\ NoRule \notin Ids /\ AnyEvent \notin Events
    /\ MaxTime \in Nat /\ MaxHookFailures \in Nat

VARIABLES log,      \* the ledger, as AppendOnlyLog: what each record says
          up,       \* the process runs
          fired,    \* TriggerEngine._fired_keys
          now,      \* the clock
          job,      \* the emission (or trigger poll) in progress
          returned, \* history: the emits that returned, with the hooks that failed
          dropped,  \* history: keys whose TRIGGER_FIRED record an exception dropped
          shifted   \* history: something came between a prediction and its event

vars == <<log, up, fired, now, job, returned, dropped, shifted>>
history == <<dropped, shifted>>

-----------------------------------------------------------------------------
(* Records, decisions and fired keys.                                         *)
EventRecord(e) == [type |-> e, rule |-> NoRule, relation |-> "none",
                   event |-> AnyEvent, matched |-> 0]
ErrorRecord == EventRecord("error")
Decision(r, e, seq) == [type |-> "trigger.fired", rule |-> r.id, relation |-> r.relation,
                        event |-> e, matched |-> seq]

OnceKey(r) == <<r.id, "once", 0>>
Key(r, what, n) == IF r.repeatable THEN <<r.id, what, n>> ELSE OnceKey(r)

MatchesEvent(r, e) == r.event \in {AnyEvent, e}

(* TimeTrigger.evaluate_time.                                                 *)
TimeDue(r, t) ==
    \/ r.relation = "before" /\ t < r.target
    \/ r.relation = "on" /\ t - r.target \in -Tolerance..Tolerance
    \/ r.relation = "after" /\ t > r.target

(* Selections of rules, by their place in the order of registration.          *)
MessageRules(e) == {i \in DOMAIN Rules : Rules[i].kind = "message" /\ MatchesEvent(Rules[i], e)}
BeforeRules(e) == {i \in MessageRules(e) : Rules[i].relation = "before"}
AfterRules(e)  == MessageRules(e) \ BeforeRules(e)
DueRules(t)    == {i \in DOMAIN Rules : Rules[i].kind = "time" /\ TimeDue(Rules[i], t)}

(* Those whose key has not fired, and the one that was registered first.      *)
Fresh(candidates, what, n) == {i \in candidates : Key(Rules[i], what, n) \notin fired}
KeysOf(due, what, n) == {Key(Rules[i], what, n) : i \in due}
First(due) == CHOOSE i \in due : \A j \in due : i <= j

PredictedOffByOne(e) ==
    Len(log) + Cardinality(BeforeRules(e))

(* evaluate_before_append: the sequence the event will get is predicted from  *)
(* the number of rules that match, those that fired already included.         *)
PredictedSequence(e) ==
    Len(log) + 1 + Cardinality(BeforeRules(e))

-----------------------------------------------------------------------------
(* The event; the rules whose decisions are yet to be recorded, and the       *)
(* sequence these name; the failed hooks not yet recorded, and all of them.   *)
Idle == [phase |-> "idle", event |-> AnyEvent, due |-> {}, at |-> 0, failures |-> 0, failed |-> 0]

Init == /\ log = << >> /\ now = 0
        /\ up = TRUE /\ fired = {}
        /\ job = Idle
        /\ returned = {} /\ dropped = {} /\ shifted = FALSE

(* _emit: run the before-hooks, then evaluate_before_append.                  *)
Emit(e) ==
    LET seq == PredictedSequence(e)
        due == Fresh(BeforeRules(e), "before", seq)
    IN  /\ up /\ job = Idle
        /\ Len(log) < MaxLog
        /\ \E n \in 0..MaxHookFailures :
             job' = [phase |-> "before", event |-> e, due |-> due, at |-> seq,
                     failures |-> n, failed |-> n]
        /\ fired' = fired \cup KeysOf(due, "before", seq)
        /\ UNCHANGED <<log, up, now, returned, history>>

(* One TRIGGER_FIRED record of the evaluation in progress.                    *)
AppendDecision ==
    /\ job.due # {}
    /\ log' = Append(log, Decision(Rules[First(job.due)], job.event, job.at))
    /\ job' = [job EXCEPT !.due = @ \ {First(@)}]
    /\ UNCHANGED <<up, fired, now, returned, history>>

(* The event itself; then the after-hooks and the triggers it fires.          *)
AppendEvent ==
    LET seq == Len(log) + 1
        due == Fresh(AfterRules(job.event), "after", seq)
    IN  /\ job.phase = "before" /\ job.due = {}
        /\ log' = Append(log, EventRecord(job.event))
        /\ \E n \in 0..MaxHookFailures :
             job' = [job EXCEPT !.phase = "after", !.due = due, !.at = seq,
                                !.failures = @ + n, !.failed = @ + n]
        /\ fired' = fired \cup KeysOf(due, "after", seq)
        /\ UNCHANGED <<up, now, returned, history>>

(* _emit_hook_failures: one ERROR record per failed hook.                     *)
AppendHookFailure ==
    /\ job.phase = "after" /\ job.due = {} /\ job.failures > 0
    /\ log' = Append(log, ErrorRecord)
    /\ job' = [job EXCEPT !.failures = @ - 1]
    /\ UNCHANGED <<up, fired, now, returned, history>>

ReturnBeforeFailures ==
    /\ job.phase = "after" /\ job.due = {}
    /\ returned' = returned \cup {[seq |-> job.at, failed |-> job.failed, end |-> Len(log)]}
    /\ job' = Idle
    /\ UNCHANGED <<log, up, fired, now, history>>

ReturnEmit ==
    /\ job.phase = "after" /\ job.due = {} /\ job.failures = 0
    /\ returned' = returned \cup {[seq |-> job.at, failed |-> job.failed, end |-> Len(log)]}
    /\ job' = Idle
    /\ UNCHANGED <<log, up, fired, now, history>>

PollTimeForgets ==
    LET due == Fresh(DueRules(now), "time", now)
    IN  /\ up /\ job = Idle /\ due # {}
        /\ fired' = fired \cup KeysOf(due, "time", now)
        /\ UNCHANGED <<log, up, now, job, returned, history>>

(* emit_due_time_triggers, the handler of the trigger polling task.           *)
PollTime ==
    LET due == Fresh(DueRules(now), "time", now)
    IN  /\ up /\ job = Idle /\ due # {}
        /\ job' = [Idle EXCEPT !.phase = "time", !.due = due]
        /\ fired' = fired \cup KeysOf(due, "time", now)
        /\ UNCHANGED <<log, up, now, returned, history>>

ReturnPoll == /\ job.phase = "time" /\ job.due = {}
              /\ job' = Idle
              /\ UNCHANGED <<log, up, fired, now, returned, history>>

(* The append that is due raises: the exception leaves _emit, the decisions   *)
(* and hook failures that were not appended are dropped, the keys stay.       *)
AppendRaises ==
    /\ Faults
    /\ job.due # {} \/ job.phase = "before" \/ job.failures > 0
    /\ job' = Idle
    /\ dropped' = dropped \cup {Rules[i].id : i \in job.due}
    /\ shifted' = (shifted \/ job.phase = "before")
    /\ UNCHANGED <<log, up, fired, now, returned>>

(* The process is killed; its successor seeds the one-shot rules that have a  *)
(* TRIGGER_FIRED record (seed_fired_from_records).                            *)
Kill == /\ Faults /\ up
        /\ up' = FALSE /\ fired' = {} /\ job' = Idle
        /\ shifted' = (shifted \/ job.phase = "before")
        /\ UNCHANGED <<log, now, returned, dropped>>

SeedsNothing(records) == {}

SeededKeys(records) ==
    {OnceKey(Rules[i]) :
        i \in {j \in DOMAIN Rules : /\ ~Rules[j].repeatable
                                   /\ \E n \in DOMAIN records : records[n].rule = Rules[j].id}}

Restart == /\ ~up
           /\ up' = TRUE
           /\ fired' = SeededKeys(log)
           /\ UNCHANGED <<log, now, job, returned, history>>

(* Another process appends an event of its own.                               *)
OtherAppend(e) == /\ OtherProcesses
                  /\ Len(log) < MaxLog
                  /\ log' = Append(log, EventRecord(e))
                  /\ shifted' = (shifted \/ job.phase = "before")
                  /\ UNCHANGED <<up, fired, now, job, returned, dropped>>

Tick == /\ now < MaxTime
        /\ now' = now + 1
        /\ UNCHANGED <<log, up, fired, job, returned, history>>

Proceed == \/ AppendDecision \/ AppendEvent \/ AppendHookFailure
           \/ ReturnEmit \/ ReturnPoll

Next == \/ \E e \in Events : Emit(e) \/ OtherAppend(e)
        \/ PollTime \/ Proceed \/ AppendRaises \/ Kill \/ Restart \/ Tick

Spec == Init /\ [][Next]_vars

(* An emission runs on unless it raises or its process is killed; callers,    *)
(* the clock and the operator who restarts the process promise nothing.       *)
FairSpec == Spec /\ WF_vars(Proceed)

-----------------------------------------------------------------------------
Fired(id) == {n \in DOMAIN log : log[n].rule = id}

Records == [type : Events \cup {"error", "trigger.fired"}, rule : Ids \cup {NoRule},
            relation : {"none", "before", "on", "after"}, event : Events \cup {AnyEvent},
            matched : Nat]
Jobs == [phase : {"idle", "before", "after", "time"}, event : Events \cup {AnyEvent},
         due : SUBSET DOMAIN Rules, at : Nat, failures : Nat, failed : Nat]

(* The shape of the ledger, the fired keys and the emission in progress.      *)
TypeOK ==
    /\ log \in Seq(Records) /\ up \in BOOLEAN /\ now \in 0..MaxTime
    /\ fired \subseteq Ids \X {"once", "before", "after", "time"} \X Nat
    /\ job \in Jobs
    /\ returned \subseteq [seq : Nat, failed : Nat, end : Nat]
    /\ dropped \subseteq Ids /\ shifted \in BOOLEAN

(* A rule that is not repeatable is audited at most once in the life of the   *)
(* ledger, through any number of restarts, failed appends and kills           *)
(* (seed_fired_from_records).                                                 *)
OneShotOnce ==
    \A i \in DOMAIN Rules : Rules[i].repeatable \/ Cardinality(Fired(Rules[i].id)) <= 1

(* When emit returns nothing it owes is missing: every repeatable ON or AFTER *)
(* rule that its event matches is audited for that record, exactly once, and  *)
(* every hook that failed during it has its ERROR record, after the event and *)
(* before the return; failing hooks are isolated, and never silent.           *)
ReturnComplete ==
    \A x \in returned :
        /\ \A i \in AfterRules(log[x.seq].type) : Rules[i].repeatable =>
             Cardinality({n \in Fired(Rules[i].id) : log[n].matched = x.seq}) = 1
        /\ x.failed <= Cardinality({n \in (x.seq + 1)..x.end : log[n].type = "error"})

(* app/ledger_health.py, _trigger_contract_check: a fired trigger that names  *)
(* a record names an existing one of the type it says, on the right side.     *)
TriggerContractHolds(records, n) ==
    records[n].type = "trigger.fired" /\ records[n].matched # 0
      => /\ records[n].matched \in DOMAIN records \ {n}
         /\ records[records[n].matched].type = records[n].event
         /\ IF records[n].relation = "before" THEN n < records[n].matched
                                             ELSE n > records[n].matched

(* Between two emissions the ledger passes the trigger contract of the health *)
(* report.  An ON or AFTER trigger names an earlier record of the type it     *)
(* matched whoever else appends meanwhile; the sequence predicted for a       *)
(* BEFORE trigger is the one its event gets, unless another process's append, *)
(* an exception or a kill came between the two.  (That is so while no BEFORE  *)
(* rule is one-shot: the prediction counts those that will not fire again.)   *)
TriggerContract ==
    job = Idle => \A n \in DOMAIN log :
                     TriggerContractHolds(log, n) \/ (shifted /\ log[n].relation = "before")

(* Whatever TriggerEngine holds as fired has its TRIGGER_FIRED record once    *)
(* the evaluation that marked it is over, unless the append of that record    *)
(* raised: only then is a firing not auditable.                               *)
FiringAudited ==
    up /\ job = Idle => \A k \in fired : Fired(k[1]) # {} \/ k[1] \in dropped
=============================================================================
