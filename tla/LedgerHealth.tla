---------------------------- MODULE LedgerHealth ----------------------------
(* app/ledger_health.py over a log of abstract records: the contracts that    *)
(* relate records to one another, and the ones of the operator's result       *)
(* records.  A check is the set of positions it complains about; its count is *)
(* what the report, the acknowledgement digest and the live gate use.         *)
(* (Feed, trigger, lineage and fill contracts are checked where those records *)
(* are produced: Feeds, AuditCore, OrderManagers, Fills.)                     *)
EXTENDS Naturals, Sequences, FiniteSets

Steps == <<"readiness", "catalog", "feed", "exchange">>

Of(log, type) == {i \in DOMAIN log : log[i].type = type}
Latest(S) == IF S = {} THEN 0 ELSE CHOOSE i \in S : \A j \in S : j <= i

(* Starts and stops of each component alternate.  A start that is still open  *)
(* is no anomaly; the next start of the component after it is.                *)
SystemLifecycle(log) ==
    LET starts == Of(log, "started")
        stops == Of(log, "stopped")
        before(i) == Latest({j \in starts \cup stops : j < i /\ log[j].component = log[i].component})
    IN  {i \in starts : before(i) \in starts} \cup {i \in stops : before(i) \notin starts}

(* Every start is closed once, by a record that names it and its subject.     *)
Unpaired(log, starts, closures) ==
    LET fitting == {i \in closures : log[i].start \in starts /\ log[log[i].start].of = log[i].of}
        first == {i \in fitting : ~\E j \in fitting : j < i /\ log[j].start = log[i].start}
    IN  (closures \ first) \cup (starts \ {log[i].start : i \in first})

(* Only an error of category runtime_task closes a task.                      *)
RuntimeTasks(log) ==
    Unpaired(log, Of(log, "task_started"),
             Of(log, "task_completed")
               \cup {i \in Of(log, "error") : log[i].category = "runtime_task"})

StrategyEvaluations(log) ==
    Unpaired(log, Of(log, "strategy_started"),
             Of(log, "strategy_completed") \cup Of(log, "strategy_failed"))

(* The operator's result records agree with themselves.                       *)
SimulationValid(r) ==
    /\ r.completed + r.failed = r.strategies /\ r.strategies > 0
    /\ r.status = "ok" => r.failed = 0 /\ r.rejected = 0
    /\ r.status = "attention" => r.failed > 0 \/ r.rejected > 0

PreflightValid(r) ==
    LET n == Len(r.completed)
    IN  /\ r.completed = SubSeq(Steps, 1, n) /\ r.skipped = SubSeq(Steps, n + 1, Len(Steps))
        /\ Len(r.statuses) = n /\ n > 0
        /\ \A i \in 1..(n - 1) : r.statuses[i] = "ok"
        /\ r.status = r.statuses[n]
        /\ r.status = "ok" => r.skipped = << >> /\ r.stopped = ""
        /\ r.status = "attention" => r.stopped = r.completed[n]

AcknowledgementValid(r) == r.status = "attention" /\ r.through > 0
HealthResultValid(r) == (r.status = "ok") <=> (r.checks = {})

Invalid(log, type, Valid(_)) == {i \in Of(log, type) : ~Valid(log[i])}

(* The catalog is on record since the latest start of the orchestrator, when  *)
(* that start's configuration refreshes it on start.                          *)
OrchestratorStarts(log) == {i \in Of(log, "started") : log[i].component = "orchestrator"}
CatalogStale(log) ==
    LET start == Latest(OrchestratorStarts(log))
    IN  IF start # 0 /\ log[start].config.catalog /\ Latest(Of(log, "products")) < start
        THEN {start} ELSE {}

(* ledger_health: the counts by check, the status, and what needs attention.  *)
Counts(log) ==
    [lifecycle       |-> Cardinality(SystemLifecycle(log)),
     errors          |-> Cardinality(Of(log, "error")),
     strategy        |-> Cardinality(StrategyEvaluations(log)),
     simulation      |-> Cardinality(Invalid(log, "simulation", SimulationValid)),
     acknowledgement |-> Cardinality(Invalid(log, "acknowledged", AcknowledgementValid)),
     health          |-> Cardinality(Invalid(log, "health", HealthResultValid)),
     task            |-> Cardinality(RuntimeTasks(log)),
     preflight       |-> Cardinality(Invalid(log, "preflight", PreflightValid)),
     catalog         |-> Cardinality(CatalogStale(log))]

AttentionChecks(log) == LET counts == Counts(log)
                        IN  {<<c, counts[c]>> : c \in {d \in DOMAIN counts : counts[d] > 0}}
Status(log) == IF AttentionChecks(log) = {} THEN "ok" ELSE "attention"
=============================================================================
