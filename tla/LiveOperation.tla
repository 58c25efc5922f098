--------------------------- MODULE LiveOperation ----------------------------
(* Operating the bot live: a runtime process (the live runtime gate, the      *)
(* application, the orchestrator's loop, its tasks and strategy evaluations)  *)
(* and the operator's commands (smokes, the aggregate no-order preflight,     *)
(* strategy simulation, the acknowledgement of ledger health), each a process *)
(* of its own, that meet only in the ledger.  An emission is one step; it may *)
(* raise, with its record on the ledger or not (the hooks and triggers of a   *)
(* record are appended after it), and each process may be killed.             *)
(* (Operators directly before a definition, unused otherwise: its mutants.)   *)
EXTENDS LedgerHealth

CONSTANTS
    Setups      \* the situations to look at: [log: what is on the ledger, todo:
                \* the operator's commands, each to be given once in any order,
                \* tasks: the schedule, limit: max_cycles or 0, faults: bound on
                \* emissions that raise, kills and failing assemblies, cycles:
                \* bound on the cycles of a run without limit, outages: bound
                \* on what goes wrong at the venue or in a strategy]

VARIABLES
    setup,      \* the situation, for good
    log,        \* the ledger
    rt,         \* the runtime process
    op,         \* the operator's command
    todo,       \* the commands not given yet
    stop,       \* CoinbaseApplication.stop was called
    admitted,   \* the runs that began: [config, read: length of the ledger at each
                \* read of the gate]
    faults      \* what went wrong: [n, outages, and by contract what it excuses]

vars == <<setup, log, rt, op, todo, stop, admitted, faults>>

(* A configuration, with what the checks of it alone make of it: the          *)
(* readiness checks that fail and the live requirements that are missing.     *)
NoConfig == [name |-> "none", live |-> FALSE, strategy |-> FALSE, catalog |-> FALSE,
             failing |-> {}, missing |-> {}]
NoRead == [health |-> 0, review |-> 0, preflight |-> 0, simulation |-> 0]
RtOff == [pc |-> "off", config |-> NoConfig, read |-> NoRead, fit |-> FALSE, queue |-> << >>,
          cycles |-> 0, begun |-> FALSE, task |-> 0, strat |-> 0, bot |-> FALSE,
          crash |-> FALSE, saw |-> {}]
OpIdle == [pc |-> "idle", config |-> NoConfig, aggregate |-> FALSE, statuses |-> << >>,
           start |-> 0, failed |-> FALSE, saw |-> [digest |-> {}, through |-> 0],
           result |-> [failed |-> 0, rejected |-> 0]]

Init ==
    /\ setup \in Setups
    /\ log = setup.log /\ todo = setup.todo
    /\ rt = RtOff /\ op = OpIdle /\ stop = FALSE /\ admitted = {}
    /\ faults = [n |-> 0, outages |-> 0, lifecycle |-> 0, task |-> 0, strategy |-> 0]

-----------------------------------------------------------------------------
(* Emissions.                                                                 *)
Here == Len(log) + 1                    \* the sequence of the next record

Emits(r) == log' = Append(log, r) /\ UNCHANGED faults
Raises(r, excused) ==
    /\ faults.n < setup.faults
    /\ log' \in {log, Append(log, r)}
    /\ faults' = [faults EXCEPT !.n = @ + 1, ![excused] = @ + 1]
RaisesFreely(r) ==                      \* excuses nothing
    /\ faults.n < setup.faults
    /\ log' \in {log, Append(log, r)}
    /\ faults' = [faults EXCEPT !.n = @ + 1]
Outage == /\ faults.outages < setup.outages
          /\ faults' = [faults EXCEPT !.outages = @ + 1]

Started(c, config) == [type |-> "started", component |-> c, config |-> config]
Stopped(c) == [type |-> "stopped", component |-> c]
Error(category, of, start) == [type |-> "error", category |-> category, of |-> of, start |-> start]
Closure(type, of, start) == [type |-> type, of |-> of, start |-> start]

-----------------------------------------------------------------------------
(* The live runtime gate: four checks, each a look of its own at the ledger,  *)
(* to which the other processes append in between.  All of them are made.     *)
SafetyGate(config) == config.missing = {}

(* ledger_health_acknowledgement: of the attention that the gate's health     *)
(* check saw, through a record after which nothing but acknowledgements was   *)
(* appended until now.                                                        *)
AcknowledgementStands(i) ==
    /\ log[i].digest = rt.saw
    /\ \A j \in (i + 1)..Len(log) : log[j].type = "acknowledged"
AcknowledgementValidAt(i) ==
    /\ log[i].digest = rt.saw
    /\ log[i].through \in DOMAIN log
    /\ \A j \in (log[i].through + 1)..Len(log) : log[j].type = "acknowledged"
HealthGate == rt.saw = {} \/ \E i \in Of(log, "acknowledged") : AcknowledgementValidAt(i)

(* live_preflight_gate: some recorded result is clean and of this config; a   *)
(* later one that is not does not matter.                                     *)
PreflightIssues(r, config) ==
    \/ r.config # config \/ r.status # "ok" \/ r.completed # Steps \/ r.skipped # << >>
    \/ \E i \in DOMAIN r.statuses : r.statuses[i] # "ok"
PreflightGate(config) == \E i \in Of(log, "preflight") : ~PreflightIssues(log[i], config)

(* strategy_simulation_gate, the same.                                        *)
SimulationIssues(r, config) ==
    r.config # config \/ r.status # "ok" \/ r.failed > 0 \/ r.rejected > 0
SimulationGate(config) == config.strategy => \E i \in Of(log, "simulation") :
                                                 ~SimulationIssues(log[i], config)

-----------------------------------------------------------------------------
(* The runtime.                                                               *)
Give(c) == c \in todo /\ todo' = todo \ {c}

RtStart(c) ==
    /\ rt.pc = "off" /\ c.kind = "start" /\ Give(c)
    /\ rt' = [RtOff EXCEPT !.pc = IF c.config.live THEN "gate_health" ELSE "admitted",
                           !.config = c.config, !.fit = SafetyGate(c.config)]
    /\ UNCHANGED <<setup, log, op, stop, admitted, faults>>

RtGateHealth ==
    /\ rt.pc = "gate_health"
    /\ rt' = [rt EXCEPT !.pc = "gate_review", !.read.health = Len(log),
                        !.saw = AttentionChecks(log)]
    /\ UNCHANGED <<setup, log, op, todo, stop, admitted, faults>>

RtGateReview ==
    /\ rt.pc = "gate_review"
    /\ rt' = [rt EXCEPT !.pc = "gate_preflight", !.read.review = Len(log), !.saw = {},
                        !.fit = @ /\ HealthGate]
    /\ UNCHANGED <<setup, log, op, todo, stop, admitted, faults>>

RtGatePreflight ==
    /\ rt.pc = "gate_preflight"
    /\ rt' = [rt EXCEPT !.pc = "gate_simulation", !.read.preflight = Len(log),
                        !.fit = @ /\ PreflightGate(rt.config)]
    /\ UNCHANGED <<setup, log, op, todo, stop, admitted, faults>>

RtGateSimulation ==
    /\ rt.pc = "gate_simulation"
    /\ rt' = [rt EXCEPT !.pc = IF rt.fit /\ SimulationGate(rt.config) THEN "admitted" ELSE "refused",
                        !.read.simulation = Len(log)]
    /\ UNCHANGED <<setup, log, op, todo, stop, admitted, faults>>

(* Credentials are missing, or the assembly raises.                           *)
RtAssemblyFails ==
    /\ rt.pc = "admitted" /\ faults.n < setup.faults
    /\ rt' = [rt EXCEPT !.pc = "refused"]
    /\ faults' = [faults EXCEPT !.n = @ + 1]
    /\ UNCHANGED <<setup, log, op, todo, stop, admitted>>

(* The refusal is on the ledger, whose health needs attention from then on.   *)
RtRefuse ==
    LET r == Error("config", "", 0)
    IN  /\ rt.pc = "refused"
        /\ Emits(r) \/ RaisesFreely(r)
        /\ rt' = RtOff
        /\ UNCHANGED <<setup, op, todo, stop, admitted>>

RtBegin ==
    LET r == Started("orchestrator", rt.config)
    IN  /\ rt.pc = "admitted"
        /\ \/ /\ Emits(r)
              /\ rt' = [rt EXCEPT !.pc = "loop", !.begun = TRUE, !.queue = setup.tasks]
           \/ Raises(r, "lifecycle") /\ rt' = [rt EXCEPT !.pc = "erring"]
        /\ admitted' = admitted \cup {[config |-> rt.config, read |-> rt.read]}
        /\ UNCHANGED <<setup, op, todo, stop>>

(* run_until: the next due task, unless a stop was asked for or the limit     *)
(* reached.                                                                   *)
LoopEndsAtLimitOnly == setup.limit # 0 /\ rt.cycles >= setup.limit
LoopEnds == stop \/ (setup.limit # 0 /\ rt.cycles >= setup.limit)

RtLeaveLoop ==
    /\ rt.pc = "loop" /\ LoopEnds
    /\ rt' = [rt EXCEPT !.pc = "stopping"]
    /\ UNCHANGED <<setup, log, op, todo, stop, admitted, faults>>

RtWake ==
    /\ rt.pc = "loop" /\ ~LoopEnds /\ rt.queue = << >>
    /\ setup.limit = 0 => rt.cycles < setup.cycles
    /\ \E due \in SUBSET {setup.tasks[i] : i \in DOMAIN setup.tasks} \ {{}} :
          rt' = [rt EXCEPT !.queue = SelectSeq(setup.tasks, LAMBDA t : t \in due)]
    /\ UNCHANGED <<setup, log, op, todo, stop, admitted, faults>>

RtTask ==
    LET r == [type |-> "task_started", of |-> Head(rt.queue)]
    IN  /\ rt.pc = "loop" /\ ~LoopEnds /\ rt.queue # << >>
        /\ \/ Emits(r) /\ rt' = [rt EXCEPT !.pc = "task", !.task = Here]
           \/ Raises(r, "task") /\ rt' = [rt EXCEPT !.pc = "stopping", !.crash = TRUE]
        /\ UNCHANGED <<setup, op, todo, stop, admitted>>

(* The catalog task.  A failure of the venue is a BotError.                   *)
RtCatalog ==
    LET r == [type |-> "products"]
    IN  /\ rt.pc = "task" /\ Head(rt.queue) = "catalog"
        /\ \/ Emits(r) /\ rt' = [rt EXCEPT !.pc = "closing"]
           \/ RaisesFreely(r) /\ rt' = [rt EXCEPT !.pc = "failing"]
           \/ /\ Outage /\ UNCHANGED log
              /\ \E bot \in BOOLEAN : rt' = [rt EXCEPT !.pc = "failing", !.bot = bot]
        /\ UNCHANGED <<setup, op, todo, stop, admitted>>

(* The strategy task: one evaluation; its failure is recorded and the task    *)
(* completes.                                                                 *)
RtEvaluate ==
    LET r == [type |-> "strategy_started", of |-> "strategy"]
    IN  /\ rt.pc = "task" /\ Head(rt.queue) = "strategy"
        /\ \/ Emits(r) /\ rt' = [rt EXCEPT !.pc = "evaluating", !.strat = Here]
           \/ Raises(r, "strategy") /\ rt' = [rt EXCEPT !.pc = "failing"]
        /\ UNCHANGED <<setup, op, todo, stop, admitted>>

RtEvaluated ==
    LET r == Closure("strategy_completed", "strategy", rt.strat)
    IN  /\ rt.pc = "evaluating"
        /\ \/ Emits(r) /\ rt' = [rt EXCEPT !.pc = "closing", !.strat = 0]
           \/ Raises(r, "strategy") /\ rt' = [rt EXCEPT !.pc = "strategy_error"]
           \/ Outage /\ UNCHANGED log /\ rt' = [rt EXCEPT !.pc = "strategy_error"]
        /\ UNCHANGED <<setup, op, todo, stop, admitted>>

RtStrategyError ==
    LET r == Error("strategy", "strategy", rt.strat)
    IN  /\ rt.pc = "strategy_error"
        /\ \/ Emits(r) /\ rt' = [rt EXCEPT !.pc = "strategy_failed"]
           \/ Raises(r, "strategy") /\ rt' = [rt EXCEPT !.pc = "failing", !.strat = 0]
        /\ UNCHANGED <<setup, op, todo, stop, admitted>>

RtStrategyFailed ==
    LET r == Closure("strategy_failed", "strategy", rt.strat)
    IN  /\ rt.pc = "strategy_failed"
        /\ \/ Emits(r) /\ rt' = [rt EXCEPT !.pc = "closing", !.strat = 0]
           \/ Raises(r, "strategy") /\ rt' = [rt EXCEPT !.pc = "failing", !.strat = 0]
        /\ UNCHANGED <<setup, op, todo, stop, admitted>>

(* _run_task's end: completed, or an error in its place.  A BotError keeps a  *)
(* category of its own.                                                       *)
Done == [rt EXCEPT !.pc = "loop", !.task = 0, !.bot = FALSE, !.cycles = @ + 1,
                   !.queue = Tail(@)]

RtClose ==
    LET r == Closure("task_completed", Head(rt.queue), rt.task)
    IN  /\ rt.pc = "closing"
        /\ \/ Emits(r) /\ rt' = Done
           \/ Raises(r, "task") /\ rt' = [rt EXCEPT !.pc = "failing"]
        /\ UNCHANGED <<setup, op, todo, stop, admitted>>

Category(bot) == IF bot THEN "exchange_transport" ELSE "runtime_task"
RtFail ==
    LET r == Error(Category(rt.bot), Head(rt.queue), rt.task)
    IN  /\ rt.pc = "failing"
        /\ \/ /\ log' = Append(log, r)
              /\ faults' = [faults EXCEPT !.task = @ + (IF rt.bot THEN 1 ELSE 0)]
              /\ rt' = Done
           \/ Raises(r, "task") /\ rt' = [rt EXCEPT !.pc = "stopping", !.task = 0, !.crash = TRUE]
        /\ UNCHANGED <<setup, op, todo, stop, admitted>>

(* The end of run_until, of CoinbaseApplication.run, and of the command.      *)
RtStop ==
    LET r == Stopped("orchestrator")
    IN  /\ rt.pc = "stopping"
        /\ \/ /\ Emits(r)
              /\ rt' = [rt EXCEPT !.pc = IF rt.crash THEN "erring" ELSE "checking", !.begun = FALSE]
           \/ /\ Raises(r, "lifecycle")
              /\ rt' = [rt EXCEPT !.pc = "erring", !.begun = FALSE]
        /\ UNCHANGED <<setup, op, todo, stop, admitted>>

RtErring ==
    LET r == Error("unexpected", "", 0)
    IN  /\ rt.pc = "erring"
        /\ Emits(r) \/ RaisesFreely(r)
        /\ rt' = RtOff /\ stop' = FALSE
        /\ UNCHANGED <<setup, op, todo, admitted>>

RtCheckHealth ==
    /\ rt.pc = "checking"
    /\ rt' = [rt EXCEPT !.pc = "reporting", !.saw = AttentionChecks(log)]
    /\ UNCHANGED <<setup, log, op, todo, stop, admitted, faults>>

RtReportHealth ==
    LET r == [type |-> "health", checks |-> rt.saw,
              status |-> IF rt.saw = {} THEN "ok" ELSE "attention"]
    IN  /\ rt.pc = "reporting"
        /\ Emits(r) \/ RaisesFreely(r)
        /\ rt' = RtOff /\ stop' = FALSE
        /\ UNCHANGED <<setup, op, todo, admitted>>

Stop ==
    /\ rt.begun /\ ~stop /\ setup.limit = 0
    /\ stop' = TRUE
    /\ UNCHANGED <<setup, log, rt, op, todo, admitted, faults>>

RtStep ==
    \/ RtGateHealth \/ RtGateReview \/ RtGatePreflight \/ RtGateSimulation
    \/ RtRefuse \/ RtBegin \/ RtLeaveLoop \/ RtWake \/ RtTask \/ RtCatalog \/ RtEvaluate
    \/ RtEvaluated \/ RtStrategyError \/ RtStrategyFailed \/ RtClose \/ RtFail \/ RtStop
    \/ RtErring \/ RtCheckHealth \/ RtReportHealth

-----------------------------------------------------------------------------
(* The operator's commands.                                                   *)

(* readiness: the latest start on record, of whichever component, was of this *)
(* configuration; and what the configuration and the environment alone say.   *)
FingerprintOk(config) == LET start == Latest(Of(log, "started"))
                         IN  start = 0 \/ log[start].config = config
StaticChecksOk(config) == config.failing = {}
ReadinessOk(config, allow) == (FingerprintOk(config) \/ allow) /\ StaticChecksOk(config)

(* Credentials are missing or the assembly raises.                            *)
OpUnable == Outage /\ op' = [OpIdle EXCEPT !.pc = "smoke_error"]

(* A failed readiness is not recorded.                                        *)
OpPreflight(c) ==
    /\ op.pc = "idle" /\ c.kind = "preflight" /\ Give(c)
    /\ \/ OpUnable
       \/ /\ op' = IF ReadinessOk(c.config, c.allow)
                    THEN [OpIdle EXCEPT !.pc = "catalog", !.config = c.config,
                                        !.aggregate = TRUE, !.statuses = <<"ok">>]
                    ELSE OpIdle
          /\ UNCHANGED faults
    /\ UNCHANGED <<setup, log, rt, stop, admitted>>

OpSmoke(c) ==
    /\ op.pc = "idle" /\ c.kind \in {"catalog", "feed", "exchange"} /\ Give(c)
    /\ OpUnable \/ (UNCHANGED faults /\ op' = [OpIdle EXCEPT !.pc = c.kind, !.config = c.config])
    /\ UNCHANGED <<setup, log, rt, stop, admitted>>

(* The next step of the aggregate, unless this one needs attention.           *)
StepDoneAnyway(status) ==
    LET n == Len(op.statuses) + 1
    IN  op' = IF ~op.aggregate THEN OpIdle
              ELSE [op EXCEPT !.statuses = Append(@, status), !.start = 0,
                              !.pc = IF n = Len(Steps) THEN "record" ELSE Steps[n + 1]]
StepDone(status) ==
    LET n == Len(op.statuses) + 1
    IN  op' = IF ~op.aggregate THEN OpIdle
              ELSE [op EXCEPT !.statuses = Append(@, status), !.start = 0,
                              !.pc = IF status # "ok" \/ n = Len(Steps) THEN "record"
                                     ELSE Steps[n + 1]]

(* Exceptions leave the command, without a result.                            *)
OpCatalog ==
    LET r == [type |-> "products"]
    IN  /\ op.pc = "catalog"
        /\ \/ Emits(r) /\ StepDone("ok")
           \/ log' = Append(log, r) /\ Outage /\ StepDone("attention")
           \/ UNCHANGED log /\ Outage /\ op' = [op EXCEPT !.pc = "smoke_error"]
           \/ RaisesFreely(r) /\ op' = [op EXCEPT !.pc = "smoke_error"]
        /\ UNCHANGED <<setup, rt, todo, stop, admitted>>

OpSmokeStart ==
    LET r == Started(op.pc, op.config)
    IN  /\ op.pc \in {"feed", "exchange"} /\ op.start = 0
        /\ \/ Emits(r) /\ op' = [op EXCEPT !.start = Here]
           \/ Raises(r, "lifecycle") /\ op' = OpIdle
        /\ UNCHANGED <<setup, rt, todo, stop, admitted>>

(* The feeds or the lookups fail, and the error is recorded first.            *)
OpSmokeFails ==
    /\ op.pc \in {"feed", "exchange"} /\ op.start # 0 /\ ~op.failed /\ Outage
    /\ op' = [op EXCEPT !.failed = TRUE]
    /\ log' = Append(log, Error("smoke", "", 0))
    /\ UNCHANGED <<setup, rt, todo, stop, admitted>>

OpSmokeError ==
    LET r == Error("smoke", "", 0)
    IN  /\ op.pc = "smoke_error"
        /\ Emits(r) \/ RaisesFreely(r)
        /\ op' = OpIdle
        /\ UNCHANGED <<setup, rt, todo, stop, admitted>>

(* SYSTEM_STOPPED in any case; whoever wrote an error since the start of a    *)
(* feed smoke, it needs attention.                                            *)
FeedErrors == \E i \in Of(log, "error") : i > op.start

OpSmokeStop ==
    LET r == Stopped(op.pc)
    IN  /\ op.pc \in {"feed", "exchange"} /\ op.start # 0
        /\ \/ /\ Emits(r)
              /\ IF op.failed THEN op' = OpIdle
                 ELSE StepDone(IF op.pc = "feed" /\ FeedErrors THEN "attention" ELSE "ok")
           \/ log' = Append(log, r) /\ Outage /\ ~op.failed /\ StepDone("attention")
           \/ Raises(r, "lifecycle") /\ op' = OpIdle
        /\ UNCHANGED <<setup, rt, todo, stop, admitted>>

OpRecordPreflight ==
    LET n == Len(op.statuses)
        r == [type |-> "preflight", config |-> op.config, statuses |-> op.statuses,
              completed |-> SubSeq(Steps, 1, n), skipped |-> SubSeq(Steps, n + 1, Len(Steps)),
              status |-> op.statuses[n],
              stopped |-> IF op.statuses[n] = "ok" THEN "" ELSE Steps[n]]
    IN  /\ op.pc = "record"
        /\ Emits(r) \/ RaisesFreely(r)
        /\ op' = OpIdle
        /\ UNCHANGED <<setup, rt, todo, stop, admitted>>

(* strategy_simulation_payload reads the ledger and evaluates the strategies; *)
(* the result is recorded afterwards.                                         *)
OpSimulate(c) ==
    /\ op.pc = "idle" /\ c.kind = "simulate" /\ Give(c)
    /\ \/ UNCHANGED faults /\ op' = [OpIdle EXCEPT !.pc = "simulated", !.config = c.config]
       \/ /\ Outage
          /\ \E result \in {[failed |-> 1, rejected |-> 0], [failed |-> 0, rejected |-> 1]} :
                op' = [OpIdle EXCEPT !.pc = "simulated", !.config = c.config, !.result = result]
    /\ UNCHANGED <<setup, log, rt, stop, admitted>>

SimulationStatus(x) == IF x.failed > 0 \/ x.rejected > 0 THEN "attention" ELSE "ok"
OpRecordSimulation ==
    LET r == [type |-> "simulation", config |-> op.config, strategies |-> 2,
              completed |-> 2 - op.result.failed, failed |-> op.result.failed,
              rejected |-> op.result.rejected, status |-> SimulationStatus(op.result)]
    IN  /\ op.pc = "simulated"
        /\ Emits(r) \/ RaisesFreely(r)
        /\ op' = OpIdle
        /\ UNCHANGED <<setup, rt, todo, stop, admitted>>

(* acknowledge_ledger_health reads the health, which must need attention,     *)
(* then records what it read.                                                 *)
OpAcknowledge(c) ==
    /\ op.pc = "idle" /\ c.kind = "acknowledge" /\ Give(c)
    /\ op' = IF Status(log) = "ok" THEN OpIdle
             ELSE [OpIdle EXCEPT !.pc = "reviewed",
                      !.saw = [digest |-> AttentionChecks(log), through |-> Len(log)]]
    /\ UNCHANGED <<setup, log, rt, stop, admitted, faults>>

OpRecordAcknowledgement ==
    LET r == [type |-> "acknowledged", status |-> "attention", digest |-> op.saw.digest,
              through |-> op.saw.through]
    IN  /\ op.pc = "reviewed"
        /\ Emits(r) \/ RaisesFreely(r)
        /\ op' = OpIdle
        /\ UNCHANGED <<setup, rt, todo, stop, admitted>>

-----------------------------------------------------------------------------
(* A process is killed: what it had open stays open.                          *)
One(b) == IF b THEN 1 ELSE 0

Kill ==
    /\ faults.n < setup.faults
    /\ \/ /\ rt.pc # "off" /\ rt' = RtOff /\ stop' = FALSE /\ UNCHANGED op
          /\ faults' = [faults EXCEPT !.n = @ + 1, !.lifecycle = @ + One(rt.begun),
                                      !.task = @ + One(rt.task # 0),
                                      !.strategy = @ + One(rt.strat # 0)]
       \/ /\ op.pc # "idle" /\ op' = OpIdle /\ UNCHANGED <<rt, stop>>
          /\ faults' = [faults EXCEPT !.n = @ + 1, !.lifecycle = @ + One(op.start # 0)]
    /\ UNCHANGED <<setup, log, todo, admitted>>

OpStep ==
    \/ OpCatalog \/ OpSmokeStart \/ OpSmokeFails \/ OpSmokeError \/ OpSmokeStop
    \/ OpRecordPreflight \/ OpRecordSimulation \/ OpRecordAcknowledgement

Next ==
    \/ RtStep \/ OpStep \/ RtAssemblyFails \/ Stop \/ Kill
    \/ \E c \in todo : RtStart(c) \/ OpPreflight(c) \/ OpSmoke(c) \/ OpSimulate(c) \/ OpAcknowledge(c)

(* The event loop of the runtime goes on; what people do is not promised.     *)
Spec == Init /\ [][Next]_vars /\ WF_vars(RtStep)

-----------------------------------------------------------------------------
(* What the ledger holds of a configuration, and of a review of its health.   *)
Evidence(prefix, config) ==
    LET from(c) == {i \in Of(prefix, "started") : prefix[i].component = c /\ prefix[i].config = config}
        ends(c, i) == {j \in Of(prefix, "stopped") : j > i /\ prefix[j].component = c}
    IN  \E p \in Of(prefix, "products"), f \in from("feed"), x \in from("exchange") :
           /\ p < f
           /\ \E j \in ends("feed", f) : j < x /\ ~\E e \in Of(prefix, "error") : f < e /\ e < j
           /\ ends("exchange", x) # {}
ReviewedAt(l, health, review) ==
    \/ Status(SubSeq(l, 1, health)) = "ok"
    \/ \E i \in Of(SubSeq(l, 1, review), "acknowledged") :
          /\ l[i].digest = AttentionChecks(SubSeq(l, 1, health))
          /\ l[i].digest = AttentionChecks(SubSeq(l, 1, l[i].through))
          /\ \A j \in 1..review : l[j].type = "acknowledged" \/ j <= l[i].through

(* What is on the ledger to begin with came about in the same way.            *)
Earned(l, i) ==
    /\ l[i].type = "preflight" /\ ~PreflightIssues(l[i], l[i].config)
         => Evidence(SubSeq(l, 1, i - 1), l[i].config)
    /\ l[i].type = "acknowledged"
         => l[i].through \in 0..(i - 1) /\ l[i].digest = AttentionChecks(SubSeq(l, 1, l[i].through))
ASSUME SetupsAssumption ==
    \A x \in Setups : /\ x.log \in Seq({x.log[i] : i \in DOMAIN x.log})
                      /\ \A i \in DOMAIN x.log : Earned(x.log, i)

(* The runs before ended in order: every start on it was closed, and health   *)
(* complains of no record.                                                    *)
Settled(l) ==
    /\ SystemLifecycle(l) = {} /\ RuntimeTasks(l) = {} /\ StrategyEvaluations(l) = {}
    /\ \A i \in Of(l, "started") : \E j \in Of(l, "stopped") :
          j > i /\ l[j].component = l[i].component
    /\ Invalid(l, "simulation", SimulationValid) = {} /\ Invalid(l, "preflight", PreflightValid) = {}
    /\ Invalid(l, "acknowledged", AcknowledgementValid) = {}
    /\ Invalid(l, "health", HealthResultValid) = {}
ASSUME SettledAssumption == \A x \in Setups : Settled(x.log)

(* A live run begins only on evidence and review.  The ledger, as the gate    *)
(* read it for each check, holds of the very configuration the product        *)
(* snapshot, a feed smoke without an error by anyone and an exchange-state    *)
(* smoke, in that order and each begun and ended, and a clean simulation when *)
(* strategies are scheduled; and whatever its health complained of was shown  *)
(* to the operator whose acknowledgement came, by the gate's next read, after *)
(* the last other record, also when the review, the runtime and the smokes    *)
(* ran at the same time as the gate's reads.                                  *)
StartAdmitted ==
    \A a \in admitted :
        a.config.live =>
            /\ ReviewedAt(log, a.read.health, a.read.review)
            /\ Evidence(SubSeq(log, 1, a.read.preflight), a.config)
            /\ a.config.strategy => \E i \in Of(SubSeq(log, 1, a.read.simulation), "simulation") :
                  log[i].config = a.config /\ log[i].status = "ok"

(* Ledger health reports no contract mismatch of the runtime's and the        *)
(* operator's records that nothing explains: an unpaired start or stop of a   *)
(* component, task or strategy evaluation goes back to a kill or an emission  *)
(* that raised right there (or, for a task, to a BotError), one for one, or   *)
(* is still running; the operator's result records are always sound.          *)
HealthExplained ==
    LET n == Counts(log)
    IN  /\ n.lifecycle <= faults.lifecycle
        /\ n.task <= faults.task + One(rt.task # 0)
        /\ n.strategy <= faults.strategy + One(rt.strat # 0)
        /\ n.simulation + n.preflight + n.acknowledgement + n.health = 0

(* RuntimeOrchestrator.stop is honoured: the run ends, whatever its tasks do, *)
(* after the task it is in.                                                   *)
StopHonoured == stop ~> rt.pc = "off"
=============================================================================
