--------------------------- MODULE Reconciliation ---------------------------
(* reconciliation/watchdog.py and reconciliation/recovery.py, composed with   *)
(* the gateway, the venue and the user feed of ActionGateway.  Both are tasks *)
(* the orchestrator runs to their end on the runtime's event loop, so neither *)
(* a submission of the runtime nor an update of the feed comes in between;    *)
(* the venue does.  (A second process and orders placed by hand, neither of   *)
(* which the tasks look at, are left to ActionGateway.)  Each record of a     *)
(* task is an append that may raise or be the last thing the process does:    *)
(* the task ends there, and its next run starts from a fresh replay, as it    *)
(* does after a restart.                                                      *)
(* (Operators directly before a definition, unused otherwise: its mutants.)   *)
EXTENDS ActionGateway

CONSTANTS
    MaxFaults,      \* bound: appends of a task, or lookups, that raise
    Outage          \* may lookups raise for ever?

NoResultIssue == "missing_execution_result"
NoUpdateIssue == "missing_user_confirmation"
Issues == {NoResultIssue, NoUpdateIssue}

VARIABLES
    overdue,    \* {<<order, issue>>}: the policy's timeout for it has elapsed
    task,       \* the task in progress and what it has yet to record
    faults,     \* appends of tasks and lookups that raised
    lost,       \* history: the orders with an update that was lost
    written     \* history: how many records of the tasks are about <<order, issue>>

rvars == <<overdue, task, faults, lost, written>>
allvars == <<vars, rvars>>

NoTask == [name |-> "none", todo |-> {}, found |-> {}]
RInit == Init /\ overdue = {} /\ task = NoTask /\ faults = 0 /\ lost = {}
              /\ written = [mi \in {"watchdog", "recovery"} \X Keys \X Issues |-> 0]

Task(name, todo) == IF todo = {} THEN NoTask ELSE [name |-> name, todo |-> todo, found |-> {}]
Count(name, m) == written' = [written EXCEPT ![<<name, m.key, m.issue>>] = @ + 1]

(* What the order must look like for the watchdog to wait for the record the  *)
(* issue is about: _missing_execution_result, _missing_user_confirmation.     *)
Awaited(k, issue) ==
    LET o == truth.orders[k]
    IN  IF issue = NoResultIssue THEN o.started /\ ~o.executed
        ELSE o.executed /\ o.result = "accepted" /\ ~o.updated

(* The timeout of the policy elapses since the record it counts from.         *)
TimesOut ==
    \E k \in Keys, issue \in Issues :
        /\ Awaited(k, issue) /\ <<k, issue>> \notin overdue
        /\ overdue' = overdue \cup {<<k, issue>>}
        /\ UNCHANGED <<vars, task, faults, lost, written>>

-----------------------------------------------------------------------------
(* ReconciliationWatchdog.audit: replay, collect the findings, ...            *)
Mismatch(k, issue) == [key |-> k, issue |-> issue, xid |-> truth.orders[k].xid]

FindingsAgain ==
    {m \in {Mismatch(k, issue) : k \in Keys, issue \in Issues} :
        Awaited(m.key, m.issue) /\ <<m.key, m.issue>> \in overdue}

FindingsConfirmedOnly ==
    {m \in {Mismatch(k, NoUpdateIssue) : k \in Keys} :
        Awaited(m.key, m.issue) /\ <<m.key, m.issue>> \in overdue /\ ~HasMismatch(truth, m)}

Findings ==
    {m \in {Mismatch(k, issue) : k \in Keys, issue \in Issues} :
        Awaited(m.key, m.issue) /\ <<m.key, m.issue>> \in overdue /\ ~HasMismatch(truth, m)}

LoopFree == task = NoTask /\ At(Runtime, "idle")

(* (an audit without findings records nothing)                                *)
BeginAudit ==
    /\ LoopFree /\ Findings # {}
    /\ task' = Task("watchdog", Findings)
    /\ UNCHANGED <<vars, overdue, faults, lost, written>>

(* ... and record them one by one.  (The code goes through the orders as the  *)
(* projection has them; no finding looks at another, so any order will do.)   *)
EmitMismatch ==
    /\ task.name = "watchdog"
    /\ \E m \in task.todo : /\ truth' = ApplyMismatch(truth, m)
                            /\ Count("watchdog", m)
                            /\ task' = Task("watchdog", task.todo \ {m})
    /\ UNCHANGED <<proc, venue, feed, submits, sent, overdue, faults, lost>>

-----------------------------------------------------------------------------
UnrecoveredWithId == {i \in DOMAIN truth.mismatches : LET m == truth.mismatches[i] IN
                         m.xid # NoId /\ <<m.key, m.issue>> \notin truth.recoveries}

(* ReconciliationRecovery.recover: replay, and for every mismatch that has no *)
(* recovery yet, in order, ...                                                *)
Unrecovered == {i \in DOMAIN truth.mismatches : LET m == truth.mismatches[i] IN
                   <<m.key, m.issue>> \notin truth.recoveries}

BeginRecover ==
    /\ LoopFree /\ Unrecovered # {}
    /\ task' = Task("recovery", Unrecovered)
    /\ UNCHANGED <<vars, overdue, faults, lost, written>>

Foremost == CHOOSE i \in task.todo : \A j \in task.todo : i <= j
Current == truth.mismatches[Foremost]

(* ... look the order up by the exchange id the mismatch was recorded with    *)
(* (without one the recovery fails at once).  A lookup finds the order as it  *)
(* is at the venue, or comes back without it (404, any other HTTP error, an   *)
(* update that breaks the contract), ...                                      *)
Lookups(m) ==
    IF m.xid = NoId \/ venue[m.xid] = "none" THEN {{}}
    ELSE {{}, {Update(m.xid, venue[m.xid])}}

Lookup ==
    /\ task.name = "recovery"
    /\ \E updates \in Lookups(Current) :
           task' = [task EXCEPT !.name = "found", !.found = updates]
    /\ UNCHANGED <<vars, overdue, faults, lost, written>>

(* ... and record what came of it.  (The ERROR record that follows a failed   *)
(* lookup changes no order.)                                                  *)
EmitRecovery ==
    /\ task.name = "found"
    /\ truth' = ApplyRecovery(truth, Current, task.found)
    /\ Count("recovery", Current)
    /\ task' = Task("recovery", task.todo \ {Foremost})
    /\ UNCHANGED <<proc, venue, feed, submits, sent, overdue, faults, lost>>

(* The lookup raises.  The handler records an ERROR and then calls            *)
(* _emit_recovery without client_order_id: a TypeError ends the task, and     *)
(* with it the rest of the mismatches, before anything about them is on       *)
(* record.                                                                    *)
LookupFails ==
    /\ task.name = "recovery" /\ Current.xid # NoId
    /\ \/ Outage /\ UNCHANGED faults
       \/ faults < MaxFaults /\ faults' = faults + 1
    /\ task' = NoTask
    /\ UNCHANGED <<vars, overdue, lost, written>>

(* The append of a task's record raises, or the process dies, with the record *)
(* durable or not.                                                            *)
TaskFails ==
    /\ task # NoTask /\ faults < MaxFaults
    /\ faults' = faults + 1
    /\ task' = NoTask
    /\ \/ UNCHANGED <<truth, written>>
       \/ /\ task.name = "watchdog"
          /\ \E m \in task.todo : truth' = ApplyMismatch(truth, m) /\ Count("watchdog", m)
       \/ /\ task.name = "found"
          /\ truth' = ApplyRecovery(truth, Current, task.found)
          /\ Count("recovery", Current)
    /\ UNCHANGED <<proc, venue, feed, submits, sent, overdue, lost>>

RuntimeDeliversAnyTime == Deliver /\ UNCHANGED rvars

RuntimeStep == task = NoTask /\ Step(Runtime) /\ UNCHANGED rvars
RuntimeFinishes == ~At(Runtime, "idle") /\ RuntimeStep
RuntimeDelivers == task = NoTask /\ Deliver /\ UNCHANGED rvars
(* An update is lost: the connection drops, or the append of it raises.       *)
UpdateLost == /\ feed # << >>
              /\ feed' = Tail(feed)
              /\ lost' = lost \cup {Head(feed).cid}
              /\ UNCHANGED <<truth, proc, venue, submits, sent, overdue, task, faults, written>>
OrderFills == VenueFills /\ UNCHANGED rvars

RNext == \/ RuntimeStep \/ RuntimeDelivers \/ UpdateLost \/ OrderFills
         \/ TimesOut \/ BeginAudit \/ EmitMismatch
         \/ BeginRecover \/ Lookup \/ EmitRecovery \/ LookupFails \/ TaskFails

(* The clock goes on, the event loop runs what is ready, and the orchestrator *)
(* runs a task that is due again and again, whatever became of it before.     *)
Fairness ==
    /\ WF_allvars(TimesOut) /\ WF_allvars(EmitMismatch)
    /\ WF_allvars(Lookup) /\ WF_allvars(EmitRecovery) /\ WF_allvars(RuntimeFinishes)
    /\ SF_allvars(BeginAudit) /\ SF_allvars(BeginRecover)

RSpec == RInit /\ [][RNext]_allvars /\ Fairness

-----------------------------------------------------------------------------
(* One mismatch and one recovery record at most for an order and an issue,    *)
(* though every run of a task starts from a replay and a run may have failed  *)
(* right after, or right before, its record became durable.                   *)
ReconciledOnce == \A w \in DOMAIN written : written[w] <= 1

(* Once every submission and task has returned and every update has arrived,  *)
(* an order that is open in the projection is open at the venue, unless an    *)
(* update of it was lost: the answer of a lookup that is recorded while       *)
(* updates of the order wait in the feed does not put it back.                *)
SettledUnlessLost ==
    Settled /\ task = NoTask =>
        \A k \in Keys : truth.orders[k].status = "open" /\ truth.orders[k].cid \notin lost
                          => venue[truth.orders[k].cid] = "open"

(* Every order whose execution was started and never got a result is flagged  *)
(* in the end, also when the process died in the middle of the execution; and *)
(* every order the venue accepted is confirmed by the user feed or flagged,   *)
(* though the feed may lose the confirmation.                                 *)
MissingFlagged ==
    /\ \A k \in Keys : truth.orders[k].started
         ~> (truth.orders[k].executed \/ HasMismatch(truth, [key |-> k, issue |-> NoResultIssue]))
    /\ \A k \in Keys : truth.orders[k].executed
         ~> \/ truth.orders[k].updated \/ truth.orders[k].result # "accepted"
            \/ HasMismatch(truth, [key |-> k, issue |-> NoUpdateIssue])

(* Every mismatch gets its recovery record: the venue was asked, or cannot    *)
(* be.                                                                        *)
MismatchesRecovered ==
    \A k \in Keys, issue \in Issues :
        HasMismatch(truth, [key |-> k, issue |-> issue]) ~> <<k, issue>> \in truth.recoveries
=============================================================================
