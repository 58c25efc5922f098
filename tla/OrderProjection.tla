-------------------------- MODULE OrderProjection ---------------------------
(* projections/state.py, the actions, orders, logical orders and placements   *)
(* of SourceOfTruthProjection: one operator per record type, giving the       *)
(* projection after that record is applied.  The projection of a ledger is    *)
(* the left fold of these over its records from Empty; nothing but the ledger *)
(* feeds it, so every process that replays the same records gets the same.    *)
(* Where the code keeps a sequence number only to know that a record was seen *)
(* the model keeps the fact.  An exchange order id is named by the client     *)
(* order id of the order the venue gave it to.                                *)
(* (Operators directly before a definition, unused otherwise: its mutants.)   *)
EXTENDS OrderLineage, Sequences, Functions

CONSTANTS
    Actions,        \* action ids
    Cids            \* client order ids

Keys == Actions \cup Cids       \* the keys of orders_by_action_id

ActionStatuses == {"requested", "accepted", "rejected", "executed", "failed"}
Lifecycles == {"requested", "accepted", "rejected", "open", "pending", "filled",
               "cancel_queued", "cancelled", "expired", "failed", "execution_unknown"}
Absent == "absent"              \* no such key

NoOrder == [status |-> Absent, cid |-> NoId, xid |-> NoId, size |-> 0,
            accepted |-> FALSE, started |-> FALSE, executed |-> FALSE,
            result |-> "none", updated |-> FALSE]

Empty == [actions    |-> [a \in Actions |-> Absent],
          requested  |-> {},                          \* requested_sequence set
          orders     |-> [k \in Keys |-> NoOrder],    \* orders_by_action_id
          byClient   |-> [c \in Cids |-> NoId],       \* orders_by_client_order_id
          byExchange |-> [c \in Cids |-> NoId],       \* orders_by_exchange_order_id
          logical    |-> << >>,                       \* logical_orders_by_id
          placements |-> << >>,                       \* placements_by_id
          mismatches |-> << >>,                       \* reconciliation_mismatches, in order
          recoveries |-> {},                          \* keys of reconciliation_recoveries
          owners     |-> [client |-> [c \in Cids |-> NoId],     \* as ledger health replays
                          exchange |-> [c \in Cids |-> NoId],   \* the same records
                          collision |-> FALSE]]

Put(f, k, v) == [x \in DOMAIN f \cup {k} |-> IF x = k THEN v ELSE f[x]]
HasOrder(p, k) == p.orders[k].status # Absent

(* _index_order: the maps follow the identifiers the order has now.           *)
Index(p, k) ==
    LET o == p.orders[k]
    IN  [p EXCEPT !.byClient = IF o.cid = NoId THEN @ ELSE [@ EXCEPT ![o.cid] = k],
                  !.byExchange = IF o.xid = NoId THEN @ ELSE [@ EXCEPT ![o.xid] = k]]

(* _order_identity_contract_check: the first action to claim an identifier    *)
(* owns it, and another one's claim is a collision.                           *)
Claim(p, type, id, k) ==
    IF id = NoId \/ p.owners[type][id] = k THEN p
    ELSE IF p.owners[type][id] = NoId THEN [p EXCEPT !.owners[type][id] = k]
    ELSE [p EXCEPT !.owners.collision = TRUE]
ClaimBoth(p, cid, xid, k) == Claim(Claim(p, "client", cid, k), "exchange", xid, k)
ClaimUpdate(p, u) ==
    LET o == p.owners
    IN  ClaimBoth(p, u.cid, u.xid, IF o.exchange[u.xid] # NoId THEN o.exchange[u.xid]
                                   ELSE IF o.client[u.cid] # NoId THEN o.client[u.cid]
                                   ELSE u.cid)

WithOrder(p, k, o) == [p EXCEPT !.orders[k] = o]
SetAction(p, a, status) == [p EXCEPT !.actions[a] = status]

-----------------------------------------------------------------------------
(* ACTION_REQUESTED.  A second request of an action id is a duplicate attempt *)
(* and changes nothing.  The order is not indexed until it is accepted.       *)
ApplyRequested(p, c) ==
    IF c.id \in p.requested THEN p
    ELSE LET q == [SetAction(p, c.id, "requested") EXCEPT !.requested = @ \cup {c.id}]
         IN  IF c.type # "place" THEN q
             ELSE WithOrder(q, c.id, [p.orders[c.id] EXCEPT !.status = "requested",
                                            !.cid = c.cid, !.size = c.size])

(* ACTION_REJECTED.  The rejection of a duplicate attempt leaves the action   *)
(* alone once that has got past its request.                                  *)
ApplyRejected(p, c, reason) ==
    LET q == SetAction(p, c.id, "rejected")
    IN  IF reason = "duplicate_action_id" /\ p.actions[c.id] \notin {Absent, "requested"} THEN p
        ELSE IF c.type # "place" \/ ~HasOrder(p, c.id) THEN q
        ELSE [q EXCEPT !.orders[c.id].status = "rejected"]

(* ACTION_ACCEPTED.                                                           *)
ApplyAccepted(p, c) ==
    LET q == SetAction(IF c.type = "place" THEN Claim(p, "client", c.cid, c.id) ELSE p,
                       c.id, "accepted")
    IN  IF c.type # "place" \/ ~HasOrder(p, c.id) THEN q
        ELSE Index([q EXCEPT !.orders[c.id].status = "accepted",
                             !.orders[c.id].accepted = TRUE], c.id)

(* ACTION_EXECUTION_STARTED.                                                  *)
ApplyStarted(p, c) ==
    LET q == SetAction(p, c.id, "accepted")
    IN  IF c.type # "place" \/ ~HasOrder(p, c.id) THEN q
        ELSE [q EXCEPT !.orders[c.id].started = TRUE]

(* What an execution result says of an order: its identifiers and its status. *)
WithResult(o, r) ==
    [o EXCEPT !.result = r.status,
              !.cid = IF r.cid = NoId THEN @ ELSE r.cid,
              !.xid = IF r.xid = NoId THEN @ ELSE r.xid]

(* ACTION_EXECUTION_FAILED.  A result that says rejected or failed is final;  *)
(* without one nobody knows what the venue did.                               *)
ApplyFailed(p, c, r) ==
    LET q == SetAction(p, c.id, "failed")
        o == [p.orders[c.id] EXCEPT !.started = TRUE]
    IN  IF c.type # "place" \/ ~HasOrder(p, c.id) THEN q
        ELSE IF r.status \in {"failed", "rejected"}
        THEN Index(WithOrder(q, c.id, [WithResult(o, r) EXCEPT !.status = r.status]), c.id)
        ELSE WithOrder(q, c.id, [o EXCEPT !.status = "execution_unknown"])

(* The order a cancellation result or an exchange update speaks of.           *)
FindOrder(p, xid, cid) ==
    IF xid # NoId /\ p.byExchange[xid] # NoId THEN p.byExchange[xid]
    ELSE IF cid # NoId THEN p.byClient[cid] ELSE NoId

(* ACTION_EXECUTED of a place command, then of a cancel command.              *)
ApplyPlaced(p, c, r) ==
    LET o == [p.orders[c.id] EXCEPT !.started = TRUE, !.executed = TRUE]
        status == CASE r.status = "accepted" -> "open"
                    [] r.status \in {"rejected", "failed"} -> r.status
                    [] OTHER -> IF o.status = Absent THEN "accepted" ELSE o.status
    IN  Index(WithOrder(p, c.id, [WithResult(o, r) EXCEPT !.status = status]), c.id)

ApplyCancelled(p, r) ==
    LET k == FindOrder(p, r.xid, r.cid)
    IN  IF k = NoId THEN p
        ELSE [p EXCEPT !.orders[k].result = r.status,
                       !.orders[k].status = IF r.status \in {"cancelled", "failed"}
                                            THEN r.status ELSE @]

ApplyExecuted(p, c, r) ==
    LET q == SetAction(p, c.id, IF r.status \in {"rejected", "failed"} THEN "failed" ELSE "executed")
    IN  IF c.type = "place" THEN ApplyPlaced(ClaimBoth(q, r.cid, r.xid, c.id), c, r)
        ELSE ApplyCancelled(q, r)

-----------------------------------------------------------------------------
(* _apply_exchange_order_update: the last update decides, whatever the order  *)
(* was before.  An order nobody here placed gets a snapshot under its client  *)
(* order id.  What is left to fill becomes the order's size.                  *)
ApplyUpdateTerminalSticks(p, u) ==
    LET found == FindOrder(p, u.xid, u.cid)
        k == IF found = NoId THEN u.cid ELSE found
    IN  Index(WithOrder(p, k, [p.orders[k] EXCEPT
            !.status = IF @ \in {"failed", "execution_unknown"} THEN @ ELSE u.status,
            !.xid = u.xid, !.cid = u.cid, !.size = u.leaves, !.updated = TRUE]), k)

ApplyUpdate(p, u) ==
    LET found == FindOrder(p, u.xid, u.cid)
        k == IF found = NoId THEN u.cid ELSE found
    IN  Index(WithOrder(ClaimUpdate(p, u), k,
                        [p.orders[k] EXCEPT !.status = u.status, !.xid = u.xid, !.cid = u.cid,
                                            !.size = u.leaves, !.updated = TRUE]), k)

(* ORDER_LOGICAL_CREATED and ORDER_PLACEMENT_RECORDED: the first one wins.    *)
ApplyLogical(p, c) ==
    IF c.logical \in DOMAIN p.logical THEN p
    ELSE [p EXCEPT !.logical = Put(@, c.logical, LogicalOrder(c))]

ApplyPlacement(p, c, status) ==
    IF c.id \in DOMAIN p.placements THEN p
    ELSE [p EXCEPT !.placements = Put(@, c.id, [kind |-> c.kind, status |-> status,
                                                logical |-> c.logical])]

(* RECONCILIATION_MISMATCH: mismatches are kept by order and issue, in the    *)
(* order in which they first came, each with the identifiers it was found by. *)
SameMismatch(m, n) == m.key = n.key /\ m.issue = n.issue
HasMismatch(p, m) == \E i \in DOMAIN p.mismatches : SameMismatch(p.mismatches[i], m)
ApplyMismatch(p, m) ==
    [p EXCEPT !.mismatches =
        IF HasMismatch(p, m)
        THEN [i \in DOMAIN @ |-> IF SameMismatch(@[i], m) THEN m ELSE @[i]]
        ELSE Append(@, m)]

(* RECONCILIATION_RECOVERY; the update a lookup found, if any, is applied as  *)
(* the exchange's own.                                                        *)
ApplyRecoveryMissingFails(p, m, updates) ==
    LET q == [p EXCEPT !.recoveries = @ \cup {<<m.key, m.issue>>}]
    IN  IF updates = {} THEN [q EXCEPT !.orders[m.key].status = "failed"]
        ELSE ApplyUpdate(q, CHOOSE u \in updates : TRUE)

ApplyRecovery(p, m, updates) ==
    LET q == [p EXCEPT !.recoveries = @ \cup {<<m.key, m.issue>>}]
        u == CHOOSE x \in updates : TRUE
    IN  IF updates = {} THEN q ELSE ApplyUpdate(ClaimBoth(q, u.cid, u.xid, m.key), u)

-----------------------------------------------------------------------------
(* risk/gate.py: what the risk gate counts.                                   *)
LiveStatuses == {"accepted", "cancel_queued", "execution_unknown", "open",
                 "pending", "requested"}
DailyStatuses == (LiveStatuses \ {"requested"}) \cup {"filled"}

Staged(p, k) == k \in DOMAIN p.placements /\ p.placements[k].kind = "staged_release"
LiveOrders(p) == {k \in Keys : p.orders[k].status \in LiveStatuses /\ ~Staged(p, k)}
DailyOrders(p) == {k \in Keys : p.orders[k].accepted /\ ~Staged(p, k)
                                 /\ p.orders[k].status \in DailyStatuses}
DailyNotional(p) == SumFunctionOnSet([k \in Keys |-> p.orders[k].size], DailyOrders(p))
=============================================================================
