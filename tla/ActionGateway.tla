--------------------------- MODULE ActionGateway ----------------------------
(* actions/gateway.py with actions/execution.py, the venue it executes on and *)
(* the user-order feed that reports back, over the projection of the ledger   *)
(* (OrderProjection).  ActionGateway.submit replays the ledger, records the   *)
(* request and decides on the projection it replayed BEFORE the request;      *)
(* submit_and_execute then calls the executor and records what came of it.    *)
(* Every record is an append of its own: another process that shares the      *)
(* ledger can append in between, an append can raise (before or after the     *)
(* record became durable) and the process can die at any point.  A gateway    *)
(* keeps nothing in memory between two calls, so a restarted process is an    *)
(* idle one.                                                                  *)
(* (Operators directly before a definition, unused otherwise: its mutants.)   *)
EXTENDS OrderProjection

CONSTANTS
    Procs, Runtime,     \* the processes that share the ledger; Runtime has the feed
    Commands,           \* the commands callers may submit, again and again:
                        \* [id, type, cid, target, kind, logical, relation, root,
                        \*  parent, sources, product, side, size, approved,
                        \*  by: the processes that submit it]
    ExternalCids,       \* client order ids of orders placed at the venue by hand
    MaxOpenOrders, MaxDaily,    \* RiskPolicy.max_open_orders, max_daily_notional
    AmbiguousFailures,  \* may an HTTP error answer a request that took effect?
    MaxSubmits, MaxFeed \* bounds: submissions in all, updates on their way

Places == {c \in Commands : c.type = "place"}

ASSUME GatewayAssumption ==
    /\ Runtime \in Procs /\ MaxSubmits \in Nat /\ MaxOpenOrders \in Nat
    /\ \A c \in Commands : /\ c.id \in Actions /\ c.target \in Cids
                           /\ c.type \in {"place", "cancel"} /\ c.size \in Nat
    /\ \A c \in Places : c.cid \in Cids \ ExternalCids /\ (c.cid = c.id \/ c.cid \notin Actions)
    /\ ExternalCids \subseteq Cids \ Actions
    /\ NoId \notin Actions \cup Cids

VARIABLES
    truth,      \* the projection of the ledger as it stands
    proc,       \* the submission each process is in
    venue,      \* the venue's orders
    feed,       \* order updates on their way to Runtime
    submits,    \* submissions begun
    sent        \* history: how often the command of an action was handed to the executor

vars == <<truth, proc, venue, feed, submits, sent>>

NoResult == [status |-> "none", cid |-> NoId, xid |-> NoId]
NoCommand == [id |-> NoId]
IdleProc == [pc |-> "idle", cmd |-> NoCommand, view |-> Empty, result |-> NoResult]

Init == /\ truth = Empty
        /\ proc = [p \in Procs |-> IdleProc]
        /\ venue = [c \in Cids |-> "none"]
        /\ feed = << >> /\ submits = 0 /\ sent = [a \in Actions |-> 0]

At(p, pc) == proc[p].pc = pc
Goto(p, pc) == proc' = [proc EXCEPT ![p].pc = pc]
Return(p) == proc' = [proc EXCEPT ![p] = IdleProc]
LeaveWorld == UNCHANGED <<venue, feed, submits, sent>>

-----------------------------------------------------------------------------
(* _validate and _evaluate_risk, on the projection replayed before the        *)
(* request: why the command is rejected, or "none".                           *)
OpenOrdersOkOffByOne(c, v) == Cardinality(LiveOrders(v)) <= MaxOpenOrders

OpenOrdersOk(c, v) ==
    Cardinality(LiveOrders(v))
      + (IF c.kind \in {"amend", "cancel_replace", "staged_release"} THEN 0 ELSE 1)
    <= MaxOpenOrders

DailyOk(c, v) == c.kind = "staged_release" \/ DailyNotional(v) + c.size <= MaxDaily

IdentifierNeverTaken(c, v) == FALSE
IdentifierTaken(c, v) == v.byClient[c.cid] \notin {NoId, c.id}

RejectionNoDuplicate(c, v) ==
    IF c.type # "place" THEN "none"
    ELSE IF ~LineageOk(c, v.logical) THEN "validation_failed"
    ELSE IF IdentifierTaken(c, v) THEN "duplicate_order_identity"
    ELSE IF ~OpenOrdersOk(c, v) \/ ~DailyOk(c, v) THEN "risk_check_failed"
    ELSE "none"

Rejection(c, v) ==
    IF v.actions[c.id] # Absent THEN "duplicate_action_id"
    ELSE IF c.type # "place" THEN "none"
    ELSE IF ~LineageOk(c, v.logical) THEN "validation_failed"
    ELSE IF IdentifierTaken(c, v) THEN "duplicate_order_identity"
    ELSE IF ~OpenOrdersOk(c, v) \/ ~DailyOk(c, v) THEN "risk_check_failed"
    ELSE "none"

(* submit: replay the ledger, ...                                             *)
Begin(p, c) ==
    /\ At(p, "idle") /\ p \in c.by /\ submits < MaxSubmits
    /\ proc' = [proc EXCEPT ![p] = [pc |-> "request", cmd |-> c, view |-> truth,
                                    result |-> NoResult]]
    /\ submits' = submits + 1
    /\ UNCHANGED <<truth, venue, feed, sent>>

(* ... record the request, ...                                                *)
Request(p) ==
    /\ At(p, "request")
    /\ truth' = ApplyRequested(truth, proc[p].cmd)
    /\ Goto(p, "decide")
    /\ LeaveWorld

(* ... decide on what was replayed before, and reject it, ...                 *)
Why(p) == Rejection(proc[p].cmd, proc[p].view)
Reject(p) ==
    /\ At(p, "decide") /\ Why(p) # "none"
    /\ truth' = ApplyRejected(truth, proc[p].cmd, Why(p))
    /\ Return(p)
    /\ LeaveWorld

(* ... or accept it, ...                                                      *)
Accept(p) ==
    /\ At(p, "decide") /\ Why(p) = "none"
    /\ truth' = ApplyAccepted(truth, proc[p].cmd)
    /\ Goto(p, "logical")
    /\ LeaveWorld

(* ... record the logical order if it was new in the replay, ...              *)
RecordLogical(p) ==
    LET c == proc[p].cmd
    IN  /\ At(p, "logical")
        /\ truth' = IF c.type = "place" /\ c.logical \notin DOMAIN proc[p].view.logical
                    THEN ApplyLogical(truth, c) ELSE truth
        /\ proc' = [proc EXCEPT ![p].view = Empty,
                                ![p].pc = IF c.kind = "staged_release" THEN "stage" ELSE "start"]
        /\ LeaveWorld

(* ... and, for a staged release, the placement: it is not executed.          *)
RecordStaged(p) ==
    /\ At(p, "stage")
    /\ truth' = ApplyPlacement(truth, proc[p].cmd, "staged")
    /\ Return(p)
    /\ LeaveWorld

(* submit_and_execute: record the start, ...                                  *)
Start(p) ==
    /\ At(p, "start")
    /\ truth' = ApplyStarted(truth, proc[p].cmd)
    /\ Goto(p, "execute")
    /\ LeaveWorld

-----------------------------------------------------------------------------
(* The venue.  It keeps one order per client order id, reports every change   *)
(* of an order on the user feed, in order, and answers a request by a result, *)
(* by an HTTP error or not at all (a transport exception).                    *)
SizeOf(cid) == IF cid \in ExternalCids THEN 1
               ELSE (CHOOSE c \in Places : c.cid = cid).size
Update(cid, status) == [cid |-> cid, xid |-> cid, status |-> status,
                        leaves |-> IF status = "filled" THEN 0 ELSE SizeOf(cid)]

VenueSet(cid, status) ==
    /\ Len(feed) < MaxFeed
    /\ venue' = [venue EXCEPT ![cid] = status]
    /\ feed' = Append(feed, Update(cid, status))
VenueSame == UNCHANGED <<venue, feed>>

VenueFills == \E cid \in Cids : /\ venue[cid] = "open"
                                /\ VenueSet(cid, "filled")
                                /\ UNCHANGED <<truth, proc, submits, sent>>
VenueExternal == \E cid \in ExternalCids : /\ venue[cid] = "none"
                                           /\ VenueSet(cid, "open")
                                           /\ UNCHANGED <<truth, proc, submits, sent>>

(* The execution results of CoinbaseAdvancedTradeRestExecutor.                *)
PlaceResult(c, status) == [status |-> status, cid |-> c.cid,
                           xid |-> IF status = "accepted" THEN c.cid ELSE NoId]
CancelResult(c, status) == [status |-> status, cid |-> NoId, xid |-> c.target]

(* The venue acts on the command, or does not.                                *)
TakesEffect(c) ==
    IF c.type = "place"
    THEN IF venue[c.cid] = "none" THEN VenueSet(c.cid, "open") ELSE VenueSame
    ELSE venue[c.target] = "open" /\ VenueSet(c.target, "cancelled")
Success(c) == IF c.type = "place" THEN PlaceResult(c, "accepted") ELSE CancelResult(c, "cancelled")
Failure(c, status) == IF c.type = "place" THEN PlaceResult(c, status) ELSE CancelResult(c, status)

Answer(p, r) == proc' = [proc EXCEPT ![p].pc = "settle", ![p].result = r]

(* ... call the executor, ...                                                 *)
Execute(p) ==
    LET c == proc[p].cmd
    IN  /\ At(p, "execute")
        /\ sent' = [sent EXCEPT ![c.id] = @ + 1]
        /\ \/ TakesEffect(c) /\ Answer(p, Success(c))
           \/ TakesEffect(c) /\ Goto(p, "error")
           \/ AmbiguousFailures /\ TakesEffect(c) /\ Answer(p, Failure(c, "failed"))
           \/ VenueSame /\ \E status \in {"rejected", "failed"} : Answer(p, Failure(c, status))
           \/ VenueSame /\ Goto(p, "error")
        /\ UNCHANGED <<truth, submits>>

(* ... replay the ledger again and check the result against it               *)
(* (_validate_execution_result), ...                                          *)
Available(id, c, orders) == id = NoId \/ orders[id] \in {NoId, c.id}
ResultOk(c, r) ==
    c.type = "place" => /\ Available(r.cid, c, truth.byClient)
                        /\ Available(r.xid, c, truth.byExchange)

Settle(p) ==
    /\ At(p, "settle")
    /\ Goto(p, CASE ~ResultOk(proc[p].cmd, proc[p].result) -> "error"
                 [] proc[p].result.status \in {"rejected", "failed"} -> "fail_result"
                 [] OTHER -> "executed")
    /\ UNCHANGED truth /\ LeaveWorld

(* ... and record it: the ledger after each of the three records of the try   *)
(* block, and the step that appends it.                                       *)
AfterPlacement(c) == ApplyPlacement(truth, c, "accepted")
AfterRecord(p) ==
    LET c == proc[p].cmd r == proc[p].result
    IN  CASE At(p, "executed") -> ApplyExecuted(truth, c, r)
          [] At(p, "placement") -> AfterPlacement(c)
          [] At(p, "fail_result") -> ApplyFailed(truth, c, r)
InTry(p) == proc[p].pc \in {"executed", "placement", "fail_result"}

Record(p) ==
    /\ InTry(p)
    /\ truth' = AfterRecord(p)
    /\ IF At(p, "executed") /\ proc[p].cmd.type = "place" THEN Goto(p, "placement") ELSE Return(p)
    /\ LeaveWorld

(* An append inside the try block raises, with its record durable or not: the *)
(* except clause takes it for a failure of the executor.                      *)
RecordRaises(p) ==
    /\ InTry(p)
    /\ truth' \in {truth, AfterRecord(p)}
    /\ Goto(p, "error")
    /\ LeaveWorld

(* The except clause: an ERROR record, which the orders do not depend on, and *)
(* ACTION_EXECUTION_FAILED without a result.                                  *)
RecordError(p) ==
    /\ At(p, "error")
    /\ proc' = [proc EXCEPT ![p].pc = "fail", ![p].result = NoResult]
    /\ UNCHANGED truth /\ LeaveWorld

Fail(p) ==
    /\ At(p, "fail")
    /\ truth' = ApplyFailed(truth, proc[p].cmd, NoResult)
    /\ Return(p)
    /\ LeaveWorld

(* The process is killed, or an append outside the try block raises and the   *)
(* exception reaches the caller.                                              *)
Abandon(p) ==
    /\ ~At(p, "idle")
    /\ Return(p)
    /\ UNCHANGED truth /\ LeaveWorld

-----------------------------------------------------------------------------
(* The runtime's feed task accepts the next update.  Submissions run on the   *)
(* same event loop, so no update is accepted in the middle of one.            *)
Deliver ==
    /\ At(Runtime, "idle") /\ feed # << >>
    /\ truth' = ApplyUpdate(truth, Head(feed))
    /\ feed' = Tail(feed)
    /\ UNCHANGED <<proc, venue, submits, sent>>

Step(p) == \/ \E c \in Commands : Begin(p, c)
           \/ Request(p) \/ Reject(p) \/ Accept(p)
           \/ RecordLogical(p) \/ RecordStaged(p)
           \/ Start(p) \/ Execute(p) \/ Settle(p) \/ Record(p)
           \/ RecordRaises(p) \/ RecordError(p) \/ Fail(p) \/ Abandon(p)

Next == \/ \E p \in Procs : Step(p)
        \/ Deliver \/ VenueFills \/ VenueExternal

Spec == Init /\ [][Next]_vars

-----------------------------------------------------------------------------
Pcs == {"idle", "request", "decide", "logical", "stage", "start", "execute", "settle",
        "executed", "placement", "fail_result", "error", "fail"}

OrderSnapshots == [status : Lifecycles \cup {Absent}, cid : Cids \cup {NoId},
                   xid : Cids \cup {NoId}, size : Nat, accepted : BOOLEAN,
                   started : BOOLEAN, executed : BOOLEAN, updated : BOOLEAN,
                   result : {"none", "accepted", "rejected", "failed", "cancelled"}]

Results == [status : {"none", "accepted", "rejected", "failed", "cancelled"},
            cid : Cids \cup {NoId}, xid : Cids \cup {NoId}]
Updates == [cid : Cids, xid : Cids, status : {"open", "filled", "cancelled"}, leaves : Nat]

ProjectionFields == {"actions", "requested", "orders", "byClient", "byExchange", "logical",
                     "placements", "mismatches", "recoveries", "owners"}

ProjectionOk(p) ==
    /\ p = [field \in ProjectionFields |-> p[field]]
    /\ p.actions \in [Actions -> ActionStatuses \cup {Absent}]
    /\ p.requested \subseteq Actions
    /\ p.orders \in [Keys -> OrderSnapshots]
    /\ p.byClient \in [Cids -> Keys \cup {NoId}]
    /\ p.byExchange \in [Cids -> Keys \cup {NoId}]
    /\ p.owners \in [client : [Cids -> Keys \cup {NoId}], exchange : [Cids -> Keys \cup {NoId}],
                      collision : BOOLEAN]

(* The shape of the ledger's projection, of the submissions and of the venue. *)
TypeOK ==
    /\ ProjectionOk(truth)
    /\ proc = [p \in Procs |-> [pc |-> proc[p].pc, cmd |-> proc[p].cmd,
                                view |-> proc[p].view, result |-> proc[p].result]]
    /\ \A p \in Procs : /\ proc[p].pc \in Pcs
                        /\ proc[p].cmd \in (IF At(p, "idle") THEN {NoCommand} ELSE Commands)
                        /\ ProjectionOk(proc[p].view)
                        /\ proc[p].result \in Results
    /\ venue \in [Cids -> {"none", "open", "filled", "cancelled"}]
    /\ feed \in Seq(Updates)
    /\ submits \in 0..MaxSubmits
    /\ sent \in [Actions -> Nat]

Ours == Cids \ ExternalCids
OpenAtVenue == {cid \in Ours : venue[cid] = "open"}
Settled == feed = << >> /\ \A p \in Procs : At(p, "idle")

(* An action is handed to the executor at most once, however often its        *)
(* command is submitted, and whatever append raised or process died in the    *)
(* submissions before: the gateway rejects the id of any request on record.   *)
SentAtMostOnce == \A a \in Actions : sent[a] <= 1

(* No order that is open at the venue is ever forgotten: the projection holds *)
(* an order of that client order id in a status the risk gate counts as live, *)
(* also after a lost answer, a raising append or a crash between the venue's  *)
(* acceptance and the record of it.  The one exception is an HTTP error that  *)
(* answered a request which took effect: the executor reports it as failed,   *)
(* and the projection takes that as final.                                    *)
NoOpenOrderForgotten ==
    \A cid \in OpenAtVenue : \E k \in Keys :
        /\ truth.orders[k].cid = cid
        /\ \/ k \in LiveOrders(truth)
           \/ AmbiguousFailures /\ truth.orders[k].result = "failed"

(* No two actions ever claim the same client or exchange order id, so an      *)
(* update or a cancellation reaches the order it is about: the order identity *)
(* contract of ledger health holds of every ledger, whatever order the        *)
(* records of submissions, answers and updates come in.                       *)
IdentityUnique == ~truth.owners.collision

(* The bot never has more orders open at the venue than max_open_orders,      *)
(* though the risk gate decides on a replay and not on the venue.             *)
OpenWithinLimit == Cardinality(OpenAtVenue) <= MaxOpenOrders

(* Once every submission has returned and every update has arrived, the       *)
(* projection and the venue agree on which orders are open, both ways: no     *)
(* order is open on record only, and none at the venue only, also when an     *)
(* HTTP error hid that the request took effect, a record of the result raised *)
(* (the action is then on record as executed and as failed) or the process    *)
(* died in between.                                                           *)
SettledTruth ==
    Settled => {cid \in Cids : venue[cid] = "open"}
                 = {truth.orders[k].cid : k \in {j \in Keys : truth.orders[j].status = "open"}}
=============================================================================
