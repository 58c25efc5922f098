--------------------------- MODULE GatewayProofs ----------------------------
(* Proofs about ActionGateway and Reconciliation, for any commands,           *)
(* identifiers, processes and bounds.  Three parts:                           *)
(*   the identities: an action is sent at most once and ids never collide;    *)
(*   the truth: no open order is forgotten, the projection settles to the     *)
(*     venue's truth, and the venue never holds more open orders than the     *)
(*     limit, each from an inductive invariant of its own on top of the first;*)
(*   reconciliation: an order's issue gets one mismatch and one recovery      *)
(*     record at most, and the records of its tasks keep all of the above but *)
(*     the limit.                                                             *)
EXTENDS Reconciliation, FiniteSetTheorems, SequenceTheorems, WellFoundedInduction, TLAPS

-----------------------------------------------------------------------------
(* What the operators of OrderProjection do to the fields of a projection.    *)

(* A map after an identifier, if there is one, was given to k.                *)
Given(f, id, k) == IF id = NoId THEN f ELSE [f EXCEPT ![id] = k]

(* The fields of a projection.                                                *)
Shaped(p) == p = [field \in ProjectionFields |-> p[field]]

(* SetAction changes one action and nothing else.                             *)
LEMMA SetActionFacts ==
    ASSUME NEW p, ProjectionOk(p), NEW a \in Actions, NEW s \in ActionStatuses
    PROVE  LET q == SetAction(p, a, s)
           IN  /\ ProjectionOk(q)
               /\ q.actions = [p.actions EXCEPT ![a] = s]
               /\ q.requested = p.requested /\ q.orders = p.orders
               /\ q.byClient = p.byClient /\ q.byExchange = p.byExchange
               /\ q.owners = p.owners /\ q.placements = p.placements
  BY DEF SetAction, ProjectionOk, ProjectionFields

(* WithOrder replaces one order and nothing else.                             *)
LEMMA WithOrderFacts ==
    ASSUME NEW p, ProjectionOk(p), NEW k \in Keys, NEW o \in OrderSnapshots
    PROVE  LET q == WithOrder(p, k, o)
           IN  /\ ProjectionOk(q)
               /\ q.orders = [p.orders EXCEPT ![k] = o]
               /\ q.requested = p.requested /\ q.actions = p.actions
               /\ q.byClient = p.byClient /\ q.byExchange = p.byExchange
               /\ q.owners = p.owners /\ q.placements = p.placements
  BY DEF WithOrder, ProjectionOk, ProjectionFields

(* _index_order changes the two maps, by the identifiers of the order.        *)
LEMMA IndexFacts ==
    ASSUME NEW p, ProjectionOk(p), NEW k \in Keys
    PROVE  LET q == Index(p, k)
           IN  /\ ProjectionOk(q)
               /\ q.byClient = Given(p.byClient, p.orders[k].cid, k)
               /\ q.byExchange = Given(p.byExchange, p.orders[k].xid, k)
               /\ q.requested = p.requested /\ q.actions = p.actions
               /\ q.orders = p.orders
               /\ q.owners = p.owners /\ q.placements = p.placements
<1> DEFINE q == Index(p, k)
<1>0. Shaped(p)
  BY DEF ProjectionOk, Shaped
<1>1. /\ Shaped(q)
      /\ q.byClient = Given(p.byClient, p.orders[k].cid, k)
      /\ q.byExchange = Given(p.byExchange, p.orders[k].xid, k)
      /\ q.requested = p.requested /\ q.actions = p.actions
      /\ q.orders = p.orders
      /\ q.owners = p.owners /\ q.placements = p.placements
  BY <1>0 DEF Index, Given, Shaped, ProjectionFields
<1>2. p.orders[k].cid \in Cids \cup {NoId} /\ p.orders[k].xid \in Cids \cup {NoId}
  BY DEF ProjectionOk, OrderSnapshots
<1> HIDE DEF q
<1>3. /\ q.byClient \in [Cids -> Keys \cup {NoId}]
      /\ q.byExchange \in [Cids -> Keys \cup {NoId}]
  <2>1. p.byClient \in [Cids -> Keys \cup {NoId}] /\ p.byExchange \in [Cids -> Keys \cup {NoId}]
    BY DEF ProjectionOk
  <2> QED BY <1>1, <1>2, <2>1 DEF Given
<1>4. ProjectionOk(q)
  BY <1>1, <1>3 DEF ProjectionOk, Shaped
<1> QED BY <1>1, <1>4 DEF q

(* Claims leave everything but the owners alone, ...                          *)
LEMMA ClaimFacts ==
    ASSUME NEW p, ProjectionOk(p), NEW type \in {"client", "exchange"},
           NEW id \in Cids \cup {NoId}, NEW k \in Keys
    PROVE  LET q == Claim(p, type, id, k)
           IN  /\ ProjectionOk(q)
               /\ q.byClient = p.byClient /\ q.byExchange = p.byExchange
               /\ q.requested = p.requested /\ q.actions = p.actions
               /\ q.orders = p.orders /\ q.placements = p.placements
  BY DEF Claim, ProjectionOk, ProjectionFields

(* ... and the claim of an identifier that is free or one's own is no         *)
(* collision.                                                                 *)
LEMMA ClaimClient ==
    ASSUME NEW p, ProjectionOk(p), NEW id \in Cids \cup {NoId}, NEW k \in Keys,
           id = NoId \/ p.owners.client[id] \in {NoId, k}
    PROVE  LET q == Claim(p, "client", id, k)
           IN  /\ q.owners.client = Given(p.owners.client, id, k)
               /\ q.owners.exchange = p.owners.exchange
               /\ q.owners.collision = p.owners.collision
  BY DEF Claim, ProjectionOk, ProjectionFields, Given

(* A venue id that is free, or the order's own, is claimed without a          *)
(* collision.                                                                 *)
LEMMA ClaimExchange ==
    ASSUME NEW p, ProjectionOk(p), NEW id \in Cids \cup {NoId}, NEW k \in Keys,
           id = NoId \/ p.owners.exchange[id] \in {NoId, k}
    PROVE  LET q == Claim(p, "exchange", id, k)
           IN  /\ q.owners.exchange = Given(p.owners.exchange, id, k)
               /\ q.owners.client = p.owners.client
               /\ q.owners.collision = p.owners.collision
  BY DEF Claim, ProjectionOk, ProjectionFields, Given

(* The maps, the owners and the placements are those of p.                    *)
SameMaps(p, q) == /\ q.byClient = p.byClient /\ q.byExchange = p.byExchange
                  /\ q.owners = p.owners /\ q.placements = p.placements

(* At most the order under k differs, and neither its identifiers nor its     *)
(* result.                                                                    *)
SameButStatus(p, q, k) ==
    /\ \A j \in Keys : j # k => q.orders[j] = p.orders[j]
    /\ q.orders[k].cid = p.orders[k].cid /\ q.orders[k].xid = p.orders[k].xid
    /\ q.orders[k].result = p.orders[k].result

(* ACTION_REQUESTED: the first request of an id sets its action and order.    *)
LEMMA RequestedFacts ==
    ASSUME NEW p, ProjectionOk(p), NEW c \in Commands
    PROVE  LET q == ApplyRequested(p, c)
           IN  /\ ProjectionOk(q) /\ SameMaps(p, q)
               /\ c.id \in p.requested => q = p
               /\ c.id \notin p.requested =>
                    /\ q.actions = [p.actions EXCEPT ![c.id] = "requested"]
                    /\ q.requested = p.requested \cup {c.id}
                    /\ \A j \in Keys : j # c.id => q.orders[j] = p.orders[j]
                    /\ c.type # "place" => q.orders = p.orders
                    /\ c.type = "place" => /\ q.orders[c.id].status = "requested"
                                           /\ q.orders[c.id].cid = c.cid
                                           /\ q.orders[c.id].xid = p.orders[c.id].xid
                                           /\ q.orders[c.id].result = p.orders[c.id].result
<1> DEFINE r == SetAction(p, c.id, "requested")
           s == [r EXCEPT !.requested = @ \cup {c.id}]
           o == [p.orders[c.id] EXCEPT !.status = "requested", !.cid = c.cid, !.size = c.size]
<1>1. c.id \in Actions /\ c.id \in Keys /\ c.size \in Nat /\ (c.type = "place" => c.cid \in Cids)
  BY GatewayAssumption DEF Keys, Places
<1>2. /\ ProjectionOk(r) /\ SameMaps(p, r) /\ r.orders = p.orders /\ r.requested = p.requested
      /\ r.actions = [p.actions EXCEPT ![c.id] = "requested"]
  BY <1>1, SetActionFacts DEF SameMaps, ActionStatuses
<1>3. /\ ProjectionOk(s) /\ SameMaps(p, s) /\ s.orders = p.orders
      /\ s.requested = p.requested \cup {c.id}
      /\ s.actions = [p.actions EXCEPT ![c.id] = "requested"]
  <2> HIDE DEF r
  <2> QED BY <1>1, <1>2 DEF ProjectionOk, SameMaps, ProjectionFields
<1>4. p.orders[c.id] \in OrderSnapshots /\ p.orders \in [Keys -> OrderSnapshots]
  BY <1>1 DEF ProjectionOk
<1>5. CASE c.type = "place"
  <2>1. o \in OrderSnapshots /\ o.status = "requested" /\ o.cid = c.cid
        /\ o.xid = p.orders[c.id].xid /\ o.result = p.orders[c.id].result
    BY <1>1, <1>4, <1>5 DEF OrderSnapshots, Lifecycles
  <2> DEFINE q == WithOrder(s, c.id, o)
  <2>2. /\ ProjectionOk(q) /\ SameMaps(p, q) /\ q.actions = s.actions
        /\ q.requested = s.requested /\ q.orders = [p.orders EXCEPT ![c.id] = o]
    <3> HIDE DEF s, o
    <3> QED BY <1>1, <1>3, <2>1, WithOrderFacts DEF SameMaps
  <2>3. c.id \notin p.requested => ApplyRequested(p, c) = q
    BY <1>5 DEF ApplyRequested
  <2>4. c.id \in p.requested => ApplyRequested(p, c) = p
    BY DEF ApplyRequested
  <2> HIDE DEF q, s, o
  <2> QED BY <1>1, <1>3, <1>4, <1>5, <2>1, <2>2, <2>3, <2>4 DEF SameMaps
<1>6. CASE c.type # "place"
  <2>1. ApplyRequested(p, c) = IF c.id \in p.requested THEN p ELSE s
    BY <1>6 DEF ApplyRequested
  <2> HIDE DEF s
  <2> QED BY <1>1, <1>3, <1>6, <2>1 DEF SameMaps
<1> QED BY <1>5, <1>6

(* ACTION_REJECTED: the action, and the status of its order.                  *)
LEMMA RejectedFacts ==
    ASSUME NEW p, ProjectionOk(p), NEW c \in Commands, NEW reason
    PROVE  LET q == ApplyRejected(p, c, reason)
           IN  /\ ProjectionOk(q) /\ SameMaps(p, q) /\ SameButStatus(p, q, c.id)
               /\ q.requested = p.requested
               /\ q = p \/ q.actions = [p.actions EXCEPT ![c.id] = "rejected"]
               /\ q.orders[c.id].status \in {p.orders[c.id].status, "rejected"}
               /\ reason = "duplicate_action_id" /\ p.actions[c.id] \notin {Absent, "requested"}
                    => q = p
<1> DEFINE r == SetAction(p, c.id, "rejected")
           o == [p.orders[c.id] EXCEPT !.status = "rejected"]
           s == [r EXCEPT !.orders[c.id].status = "rejected"]
<1>1. c.id \in Actions /\ c.id \in Keys
  BY GatewayAssumption DEF Keys
<1>2. /\ ProjectionOk(r) /\ SameMaps(p, r) /\ r.orders = p.orders /\ r.requested = p.requested
      /\ r.actions = [p.actions EXCEPT ![c.id] = "rejected"]
  BY <1>1, SetActionFacts DEF SameMaps, ActionStatuses
<1>3. p.orders[c.id] \in OrderSnapshots /\ p.orders \in [Keys -> OrderSnapshots]
  BY <1>1 DEF ProjectionOk
<1>4. o \in OrderSnapshots /\ o.status = "rejected" /\ o.cid = p.orders[c.id].cid
      /\ o.xid = p.orders[c.id].xid /\ o.result = p.orders[c.id].result
  BY <1>3 DEF OrderSnapshots, Lifecycles
<1>5. s = WithOrder(r, c.id, o)
  BY <1>2 DEF WithOrder
<1>6. /\ ProjectionOk(s) /\ SameMaps(p, s) /\ s.requested = p.requested
      /\ s.actions = r.actions /\ s.orders = [p.orders EXCEPT ![c.id] = o]
  <2> HIDE DEF s, o, r
  <2> QED BY <1>1, <1>2, <1>4, <1>5, WithOrderFacts DEF SameMaps
<1>7. /\ ApplyRejected(p, c, reason) \in {p, r, s}
      /\ reason = "duplicate_action_id" /\ p.actions[c.id] \notin {Absent, "requested"}
           => ApplyRejected(p, c, reason) = p
  BY DEF ApplyRejected
<1> HIDE DEF s, o, r
<1> QED BY <1>1, <1>2, <1>3, <1>4, <1>6, <1>7 DEF SameMaps, SameButStatus

(* ACTION_ACCEPTED: an order that is on record, and whose client order id is  *)
(* free or its own, is indexed and owns that id.                              *)
LEMMA AcceptedFacts ==
    ASSUME NEW p, ProjectionOk(p), NEW c \in Commands
    PROVE  LET q == ApplyAccepted(p, c)
           IN  /\ ProjectionOk(q) /\ SameButStatus(p, q, c.id)
               /\ q.requested = p.requested /\ q.placements = p.placements
               /\ q.actions = [p.actions EXCEPT ![c.id] = "accepted"]
               /\ c.type # "place" => SameMaps(p, q) /\ q.orders = p.orders
               /\ c.type = "place" /\ HasOrder(p, c.id) /\ p.orders[c.id].cid = c.cid
                    /\ p.owners.client[c.cid] \in {NoId, c.id}
                    => /\ q.orders[c.id].status = "accepted"
                       /\ q.byClient = [p.byClient EXCEPT ![c.cid] = c.id]
                       /\ q.byExchange = Given(p.byExchange, p.orders[c.id].xid, c.id)
                       /\ q.owners.client = [p.owners.client EXCEPT ![c.cid] = c.id]
                       /\ q.owners.exchange = p.owners.exchange
                       /\ q.owners.collision = p.owners.collision
<1>1. c.id \in Actions /\ c.id \in Keys /\ NoId \notin Cids /\ "accepted" \in ActionStatuses
  BY GatewayAssumption DEF Keys, ActionStatuses
<1>2. p.orders[c.id] \in OrderSnapshots /\ p.orders \in [Keys -> OrderSnapshots]
  BY <1>1 DEF ProjectionOk
<1>3. CASE c.type # "place"
  <2> DEFINE r == SetAction(p, c.id, "accepted")
  <2>1. /\ ProjectionOk(r) /\ SameMaps(p, r) /\ r.orders = p.orders /\ r.requested = p.requested
        /\ r.actions = [p.actions EXCEPT ![c.id] = "accepted"]
    BY <1>1, SetActionFacts DEF SameMaps
  <2>2. ApplyAccepted(p, c) = r
    BY <1>3 DEF ApplyAccepted
  <2> HIDE DEF r
  <2> QED BY <1>3, <2>1, <2>2 DEF SameMaps, SameButStatus
<1>4. CASE c.type = "place"
  <2> DEFINE l == Claim(p, "client", c.cid, c.id)
             r == SetAction(l, c.id, "accepted")
             o == [p.orders[c.id] EXCEPT !.status = "accepted", !.accepted = TRUE]
             s == [r EXCEPT !.orders[c.id].status = "accepted", !.orders[c.id].accepted = TRUE]
             t == Index(s, c.id)
             Granted(w) == /\ w.client = [p.owners.client EXCEPT ![c.cid] = c.id]
                           /\ w.exchange = p.owners.exchange
                           /\ w.collision = p.owners.collision
  <2>0. c.cid \in Cids /\ c.cid # NoId
    BY <1>1, <1>4, GatewayAssumption DEF Places
  <2>1. /\ ProjectionOk(l) /\ l.byClient = p.byClient /\ l.byExchange = p.byExchange
        /\ l.requested = p.requested /\ l.actions = p.actions
        /\ l.orders = p.orders /\ l.placements = p.placements
    BY <1>1, <2>0, ClaimFacts
  <2>2. p.owners.client[c.cid] \in {NoId, c.id} => Granted(l.owners)
    BY <1>1, <2>0, ClaimClient DEF Given
  <2> HIDE DEF l, Granted
  <2>3. /\ ProjectionOk(r) /\ r.byClient = p.byClient /\ r.byExchange = p.byExchange
        /\ r.orders = p.orders /\ r.requested = p.requested /\ r.placements = p.placements
        /\ r.actions = [p.actions EXCEPT ![c.id] = "accepted"] /\ r.owners = l.owners
    BY <1>1, <2>1, SetActionFacts
  <2>4. o \in OrderSnapshots /\ o.status = "accepted" /\ o.cid = p.orders[c.id].cid
        /\ o.xid = p.orders[c.id].xid /\ o.result = p.orders[c.id].result
    BY <1>2 DEF OrderSnapshots, Lifecycles
  <2>5. s = WithOrder(r, c.id, o)
    <3>1. r = [field \in ProjectionFields |-> r[field]] /\ r.orders = p.orders
      BY <2>3 DEF ProjectionOk
    <3> HIDE DEF r
    <3> QED BY <3>1, <1>1, <1>2 DEF WithOrder, ProjectionFields, OrderSnapshots
  <2> HIDE DEF s, o, r
  <2>6. /\ ProjectionOk(s) /\ s.byClient = p.byClient /\ s.byExchange = p.byExchange
        /\ s.orders = [p.orders EXCEPT ![c.id] = o] /\ s.requested = p.requested
        /\ s.placements = p.placements /\ s.actions = r.actions /\ s.owners = l.owners
    BY <1>1, <2>3, <2>4, <2>5, WithOrderFacts
  <2>7. s.orders[c.id] = o
    BY <1>1, <1>2, <2>6
  <2>8. /\ ProjectionOk(t) /\ t.requested = s.requested /\ t.actions = s.actions
        /\ t.orders = s.orders /\ t.owners = s.owners /\ t.placements = s.placements
        /\ t.byClient = Given(s.byClient, s.orders[c.id].cid, c.id)
        /\ t.byExchange = Given(s.byExchange, s.orders[c.id].xid, c.id)
    <3>1. ProjectionOk(s) /\ c.id \in Keys
      BY <1>1, <2>6
    <3> QED BY <3>1, IndexFacts
  <2>9. ApplyAccepted(p, c) = IF ~HasOrder(p, c.id) THEN r ELSE t
    BY <1>4 DEF ApplyAccepted, r, s, l
  <2> HIDE DEF t
  <2>10. SameButStatus(p, r, c.id)
    BY <2>3 DEF SameButStatus
  <2>11. SameButStatus(p, t, c.id) /\ t.orders[c.id].status = "accepted"
    BY <1>1, <1>2, <2>4, <2>6, <2>7, <2>8 DEF SameButStatus
  <2>12. CASE ~HasOrder(p, c.id)
    BY <1>4, <2>3, <2>9, <2>10, <2>12
  <2>13. CASE HasOrder(p, c.id)
    <3>1. /\ t.byExchange = Given(p.byExchange, p.orders[c.id].xid, c.id)
          /\ p.orders[c.id].cid = c.cid => t.byClient = [p.byClient EXCEPT ![c.cid] = c.id]
      BY <2>0, <2>4, <2>6, <2>7, <2>8 DEF Given
    <3>2. p.owners.client[c.cid] \in {NoId, c.id} => Granted(t.owners)
      BY <2>2, <2>6, <2>8
    <3>3. /\ ProjectionOk(t) /\ t.requested = p.requested /\ t.placements = p.placements
          /\ t.actions = [p.actions EXCEPT ![c.id] = "accepted"]
      BY <2>3, <2>6, <2>8
    <3>4. ApplyAccepted(p, c) = t
      BY <2>9, <2>13
    <3> QED BY <1>4, <3>1, <3>2, <3>3, <3>4, <2>11 DEF Granted
  <2> QED BY <2>12, <2>13
<1> QED BY <1>3, <1>4

(* ACTION_EXECUTION_STARTED changes no identifier and no status of an order.  *)
LEMMA StartedFacts ==
    ASSUME NEW p, ProjectionOk(p), NEW c \in Commands
    PROVE  LET q == ApplyStarted(p, c)
           IN  /\ ProjectionOk(q) /\ SameMaps(p, q) /\ SameButStatus(p, q, c.id)
               /\ q.requested = p.requested
               /\ q.actions = [p.actions EXCEPT ![c.id] = "accepted"]
               /\ q.orders[c.id].status = p.orders[c.id].status
<1> DEFINE r == SetAction(p, c.id, "accepted")
           o == [p.orders[c.id] EXCEPT !.started = TRUE]
           s == [r EXCEPT !.orders[c.id].started = TRUE]
<1>1. c.id \in Actions /\ c.id \in Keys
  BY GatewayAssumption DEF Keys
<1>2. /\ ProjectionOk(r) /\ SameMaps(p, r) /\ r.orders = p.orders /\ r.requested = p.requested
      /\ r.actions = [p.actions EXCEPT ![c.id] = "accepted"]
  BY <1>1, SetActionFacts DEF SameMaps, ActionStatuses
<1>3. p.orders[c.id] \in OrderSnapshots /\ p.orders \in [Keys -> OrderSnapshots]
  BY <1>1 DEF ProjectionOk
<1>4. o \in OrderSnapshots /\ o.status = p.orders[c.id].status /\ o.cid = p.orders[c.id].cid
      /\ o.xid = p.orders[c.id].xid /\ o.result = p.orders[c.id].result
  BY <1>3 DEF OrderSnapshots
<1>5. s = WithOrder(r, c.id, o)
  BY <1>2 DEF WithOrder
<1>6. /\ ProjectionOk(s) /\ SameMaps(p, s) /\ s.requested = p.requested
      /\ s.actions = r.actions /\ s.orders = [p.orders EXCEPT ![c.id] = o]
  <2> HIDE DEF s, o, r
  <2> QED BY <1>1, <1>2, <1>4, <1>5, WithOrderFacts DEF SameMaps
<1>7. ApplyStarted(p, c) \in {r, s}
  BY DEF ApplyStarted
<1> HIDE DEF s, o, r
<1> QED BY <1>1, <1>2, <1>3, <1>4, <1>6, <1>7 DEF SameMaps, SameButStatus

(* What an execution result says of an order.                                 *)
LEMMA WithResultFacts ==
    ASSUME NEW o \in OrderSnapshots, NEW r \in Results
    PROVE  /\ WithResult(o, r) \in OrderSnapshots
           /\ WithResult(o, r).result = r.status
           /\ WithResult(o, r).cid = IF r.cid = NoId THEN o.cid ELSE r.cid
           /\ WithResult(o, r).xid = IF r.xid = NoId THEN o.xid ELSE r.xid
           /\ WithResult(o, r).status = o.status
  BY DEF WithResult, OrderSnapshots, Results

(* ACTION_EXECUTION_FAILED, of a command whose order is indexed already.      *)
LEMMA FailedFacts ==
    ASSUME NEW p, ProjectionOk(p), NEW c \in Commands,
           NEW r \in {NoResult, Failure(c, "rejected"), Failure(c, "failed")},
           c.type = "place" => p.byClient[c.cid] = c.id /\ p.orders[c.id].cid = c.cid
    PROVE  LET q == ApplyFailed(p, c, r)
               o == p.orders[c.id]
           IN  /\ ProjectionOk(q)
               /\ q.requested = p.requested /\ q.placements = p.placements
               /\ q.owners = p.owners /\ q.byClient = p.byClient
               /\ q.byExchange \in {p.byExchange, Given(p.byExchange, o.xid, c.id)}
               /\ q.actions = [p.actions EXCEPT ![c.id] = "failed"]
               /\ \A j \in Keys : j # c.id => q.orders[j] = p.orders[j]
               /\ q.orders[c.id].cid = o.cid /\ q.orders[c.id].xid = o.xid
               /\ c.type # "place" \/ ~HasOrder(p, c.id) => q.orders[c.id] = o
               /\ c.type = "place" /\ HasOrder(p, c.id) =>
                    IF r = NoResult THEN /\ q.orders[c.id].status = "execution_unknown"
                                         /\ q.orders[c.id].result = o.result
                    ELSE /\ q.orders[c.id].status = r.status
                         /\ q.orders[c.id].result = r.status
<1> DEFINE n == SetAction(p, c.id, "failed")
           o == [p.orders[c.id] EXCEPT !.started = TRUE]
<1>1. /\ c.id \in Actions /\ c.id \in Keys /\ NoId \notin Cids /\ "failed" \in ActionStatuses
      /\ c.target \in Cids /\ (c.type = "place" => c.cid \in Cids)
  BY GatewayAssumption DEF Keys, ActionStatuses, Places
<1>2. p.orders[c.id] \in OrderSnapshots /\ p.orders \in [Keys -> OrderSnapshots]
  BY <1>1 DEF ProjectionOk
<1>3. /\ ProjectionOk(n) /\ n.byClient = p.byClient /\ n.byExchange = p.byExchange
      /\ n.orders = p.orders /\ n.requested = p.requested /\ n.placements = p.placements
      /\ n.actions = [p.actions EXCEPT ![c.id] = "failed"] /\ n.owners = p.owners
  BY <1>1, SetActionFacts
<1>4. o \in OrderSnapshots /\ o.cid = p.orders[c.id].cid /\ o.status = p.orders[c.id].status
      /\ o.xid = p.orders[c.id].xid /\ o.result = p.orders[c.id].result
  BY <1>2 DEF OrderSnapshots
<1>5. /\ r \in Results /\ (r = NoResult \/ r.status \in {"rejected", "failed"})
      /\ NoResult.status = "none"
      /\ c.type = "place" => r.cid \in {NoId, c.cid} /\ r.xid = NoId
  BY <1>1 DEF Results, NoResult, Failure, PlaceResult, CancelResult
<1>6. CASE c.type # "place" \/ ~HasOrder(p, c.id)
  <2>1. ApplyFailed(p, c, r) = n
    BY <1>6 DEF ApplyFailed
  <2> HIDE DEF n
  <2> QED BY <1>3, <1>6, <2>1
<1>7. CASE c.type = "place" /\ HasOrder(p, c.id) /\ r = NoResult
  <2> DEFINE m == [o EXCEPT !.status = "execution_unknown"]
             q == WithOrder(n, c.id, m)
  <2>1. m \in OrderSnapshots /\ m.cid = o.cid /\ m.status = "execution_unknown"
        /\ m.xid = o.xid /\ m.result = o.result
    <3> HIDE DEF o
    <3> QED BY <1>4 DEF OrderSnapshots, Lifecycles
  <2>2. ApplyFailed(p, c, r) = q
    BY <1>5, <1>7 DEF ApplyFailed
  <2> HIDE DEF m, n, o
  <2>3. /\ ProjectionOk(q) /\ q.byClient = n.byClient /\ q.byExchange = n.byExchange
        /\ q.orders = [n.orders EXCEPT ![c.id] = m] /\ q.requested = n.requested
        /\ q.placements = n.placements /\ q.actions = n.actions /\ q.owners = n.owners
    <3>1. ProjectionOk(n) /\ c.id \in Keys /\ m \in OrderSnapshots
      BY <1>1, <1>3, <2>1
    <3> QED BY <3>1, WithOrderFacts
  <2> HIDE DEF q
  <2>4. q.orders[c.id] = m /\ \A j \in Keys : j # c.id => q.orders[j] = p.orders[j]
    BY <1>1, <1>2, <1>3, <2>3
  <2> QED BY <1>3, <1>4, <1>7, <2>1, <2>2, <2>3, <2>4
<1>8. CASE c.type = "place" /\ HasOrder(p, c.id) /\ r # NoResult
  <2> DEFINE v == WithResult(o, r)
             m == [v EXCEPT !.status = r.status]
             w == WithOrder(n, c.id, m)
             q == Index(w, c.id)
  <2>0. /\ v \in OrderSnapshots /\ v.cid = c.cid /\ v.xid = o.xid /\ v.result = r.status
        /\ r.status \in {"rejected", "failed"}
    <3> HIDE DEF o
    <3> QED BY <1>4, <1>5, <1>8, WithResultFacts
  <2>1. m \in OrderSnapshots /\ m.cid = c.cid /\ m.status = r.status
        /\ m.xid = o.xid /\ m.result = r.status
    <3> HIDE DEF o, v
    <3> QED BY <2>0 DEF OrderSnapshots, Lifecycles
  <2>2. ApplyFailed(p, c, r) = q
    BY <1>5, <1>8 DEF ApplyFailed
  <2> HIDE DEF v, m, n, o
  <2>3. /\ ProjectionOk(w) /\ w.byClient = n.byClient /\ w.byExchange = n.byExchange
        /\ w.orders = [n.orders EXCEPT ![c.id] = m] /\ w.requested = n.requested
        /\ w.placements = n.placements /\ w.actions = n.actions /\ w.owners = n.owners
    <3>1. ProjectionOk(n) /\ c.id \in Keys /\ m \in OrderSnapshots
      BY <1>1, <1>3, <2>1
    <3> QED BY <3>1, WithOrderFacts
  <2>4. w.orders[c.id] = m /\ \A j \in Keys : j # c.id => w.orders[j] = p.orders[j]
    <3> HIDE DEF w
    <3> QED BY <1>1, <1>2, <1>3, <2>3
  <2> HIDE DEF w
  <2>5. /\ ProjectionOk(q) /\ q.byClient = Given(w.byClient, w.orders[c.id].cid, c.id)
        /\ q.byExchange = Given(w.byExchange, w.orders[c.id].xid, c.id)
        /\ q.orders = w.orders /\ q.requested = w.requested
        /\ q.placements = w.placements /\ q.actions = w.actions /\ q.owners = w.owners
    <3>1. ProjectionOk(w) /\ c.id \in Keys
      BY <1>1, <2>3
    <3> QED BY <3>1, IndexFacts
  <2> HIDE DEF q
  <2>6. q.byClient = p.byClient
    <3>1. q.byClient = [p.byClient EXCEPT ![c.cid] = c.id]
      BY <1>1, <1>3, <1>8, <2>1, <2>3, <2>4, <2>5 DEF Given
    <3>2. p.byClient \in [Cids -> Keys \cup {NoId}] /\ p.byClient[c.cid] = c.id
      BY <1>8 DEF ProjectionOk
    <3> QED BY <3>1, <3>2
  <2>7. q.byExchange = Given(p.byExchange, p.orders[c.id].xid, c.id)
    BY <1>3, <1>4, <2>1, <2>3, <2>4, <2>5
  <2>8. /\ q.orders[c.id] = m /\ \A j \in Keys : j # c.id => q.orders[j] = p.orders[j]
        /\ m.cid = p.orders[c.id].cid /\ m.xid = p.orders[c.id].xid
    BY <1>4, <1>8, <2>1, <2>4, <2>5
  <2>9. /\ q.requested = p.requested /\ q.placements = p.placements /\ q.owners = p.owners
        /\ q.actions = [p.actions EXCEPT ![c.id] = "failed"]
    BY <1>3, <2>3, <2>5
  <2> QED BY <1>8, <2>1, <2>2, <2>5, <2>6, <2>7, <2>8, <2>9
<1> QED BY <1>6, <1>7, <1>8

(* Claiming a client order id and its exchange order id for one order.        *)
LEMMA ClaimBothFacts ==
    ASSUME NEW p, ProjectionOk(p), NEW x \in Cids, NEW k \in Keys,
           p.owners.client[x] \in {NoId, k}, p.owners.exchange[x] \in {NoId, k}
    PROVE  LET q == ClaimBoth(p, x, x, k)
           IN  /\ ProjectionOk(q)
               /\ q.byClient = p.byClient /\ q.byExchange = p.byExchange
               /\ q.requested = p.requested /\ q.actions = p.actions
               /\ q.orders = p.orders /\ q.placements = p.placements
               /\ q.owners.client = [p.owners.client EXCEPT ![x] = k]
               /\ q.owners.exchange = [p.owners.exchange EXCEPT ![x] = k]
               /\ q.owners.collision = p.owners.collision
<1> DEFINE l == Claim(p, "client", x, k)
           q == Claim(l, "exchange", x, k)
<1>0. x # NoId /\ x \in Cids \cup {NoId}
  BY GatewayAssumption
<1>1. /\ ProjectionOk(l)
      /\ l.byClient = p.byClient /\ l.byExchange = p.byExchange
      /\ l.requested = p.requested /\ l.actions = p.actions
      /\ l.orders = p.orders /\ l.placements = p.placements
  BY <1>0, ClaimFacts
<1>2. /\ l.owners.client = [p.owners.client EXCEPT ![x] = k]
      /\ l.owners.exchange = p.owners.exchange
      /\ l.owners.collision = p.owners.collision
  BY <1>0, ClaimClient DEF Given
<1> HIDE DEF l
<1>3. /\ ProjectionOk(q)
      /\ q.byClient = l.byClient /\ q.byExchange = l.byExchange
      /\ q.requested = l.requested /\ q.actions = l.actions
      /\ q.orders = l.orders /\ q.placements = l.placements
  BY <1>0, <1>1, ClaimFacts
<1>4. /\ q.owners.exchange = Given(l.owners.exchange, x, k)
      /\ q.owners.client = l.owners.client
      /\ q.owners.collision = l.owners.collision
  <2>1. ProjectionOk(l) /\ l.owners.exchange[x] \in {NoId, k}
    BY <1>1, <1>2
  <2> QED BY <1>0, <2>1, ClaimExchange
<1>5. ClaimBoth(p, x, x, k) = q
  BY DEF ClaimBoth, l
<1> HIDE DEF q
<1>6. q.owners.exchange = [p.owners.exchange EXCEPT ![x] = k]
  BY <1>0, <1>2, <1>4 DEF Given
<1> QED BY <1>1, <1>2, <1>3, <1>4, <1>5, <1>6

(* Giving an order both of its identifiers, and indexing it.                  *)
LEMMA IndexedFacts ==
    ASSUME NEW p, ProjectionOk(p), NEW k \in Keys, NEW o \in OrderSnapshots, NEW x \in Cids,
           o.cid = x, o.xid = x
    PROVE  LET q == Index(WithOrder(p, k, o), k)
           IN  /\ ProjectionOk(q)
               /\ q.byClient = [p.byClient EXCEPT ![x] = k]
               /\ q.byExchange = [p.byExchange EXCEPT ![x] = k]
               /\ q.requested = p.requested /\ q.actions = p.actions
               /\ q.orders = [p.orders EXCEPT ![k] = o]
               /\ q.owners = p.owners /\ q.placements = p.placements
<1> DEFINE w == WithOrder(p, k, o)
           q == Index(w, k)
<1>0. x # NoId /\ p.orders \in [Keys -> OrderSnapshots]
  BY GatewayAssumption DEF ProjectionOk
<1>1. /\ ProjectionOk(w)
      /\ w.orders = [p.orders EXCEPT ![k] = o]
      /\ w.requested = p.requested /\ w.actions = p.actions
      /\ w.byClient = p.byClient /\ w.byExchange = p.byExchange
      /\ w.owners = p.owners /\ w.placements = p.placements
  BY WithOrderFacts
<1> HIDE DEF w
<1>2. w.orders[k] = o
  BY <1>0, <1>1
<1>3. /\ ProjectionOk(q)
      /\ q.byClient = Given(w.byClient, w.orders[k].cid, k)
      /\ q.byExchange = Given(w.byExchange, w.orders[k].xid, k)
      /\ q.requested = w.requested /\ q.actions = w.actions
      /\ q.orders = w.orders
      /\ q.owners = w.owners /\ q.placements = w.placements
  <2>1. ProjectionOk(w)
    BY <1>1
  <2> QED BY <2>1, IndexFacts
<1> HIDE DEF q
<1>4. /\ q.byClient = [p.byClient EXCEPT ![x] = k]
      /\ q.byExchange = [p.byExchange EXCEPT ![x] = k]
  BY <1>0, <1>1, <1>2, <1>3 DEF Given
<1>5. Index(WithOrder(p, k, o), k) = q
  BY DEF q, w
<1> QED BY <1>1, <1>3, <1>4, <1>5

(* ACTION_EXECUTED of a place command the venue accepted: the order is open,  *)
(* and both of its identifiers are its own.                                   *)
LEMMA PlacedFacts ==
    ASSUME NEW p, ProjectionOk(p), NEW c \in Commands, c.type = "place",
           p.owners.client[c.cid] \in {NoId, c.id}, p.owners.exchange[c.cid] \in {NoId, c.id}
    PROVE  LET q == ApplyExecuted(p, c, PlaceResult(c, "accepted"))
           IN  /\ ProjectionOk(q)
               /\ q.requested = p.requested /\ q.placements = p.placements
               /\ q.actions = [p.actions EXCEPT ![c.id] = "executed"]
               /\ q.byClient = [p.byClient EXCEPT ![c.cid] = c.id]
               /\ q.byExchange = [p.byExchange EXCEPT ![c.cid] = c.id]
               /\ q.owners.client = [p.owners.client EXCEPT ![c.cid] = c.id]
               /\ q.owners.exchange = [p.owners.exchange EXCEPT ![c.cid] = c.id]
               /\ q.owners.collision = p.owners.collision
               /\ \A j \in Keys : j # c.id => q.orders[j] = p.orders[j]
               /\ q.orders[c.id].cid = c.cid /\ q.orders[c.id].xid = c.cid
               /\ q.orders[c.id].status = "open" /\ q.orders[c.id].result = "accepted"
<1> DEFINE r == PlaceResult(c, "accepted")
           n == SetAction(p, c.id, "executed")
           l == ClaimBoth(n, c.cid, c.cid, c.id)
           v == [p.orders[c.id] EXCEPT !.started = TRUE, !.executed = TRUE]
           w == WithResult(v, r)
           o == [w EXCEPT !.status = "open"]
           q == Index(WithOrder(l, c.id, o), c.id)
<1>1. /\ c.id \in Actions /\ c.id \in Keys /\ NoId \notin Cids /\ "executed" \in ActionStatuses
      /\ c.cid \in Cids
  BY GatewayAssumption DEF Keys, ActionStatuses, Places
<1>2. p.orders[c.id] \in OrderSnapshots /\ p.orders \in [Keys -> OrderSnapshots]
  BY <1>1 DEF ProjectionOk
<1>3. /\ ProjectionOk(n) /\ n.byClient = p.byClient /\ n.byExchange = p.byExchange
      /\ n.orders = p.orders /\ n.requested = p.requested /\ n.placements = p.placements
      /\ n.actions = [p.actions EXCEPT ![c.id] = "executed"] /\ n.owners = p.owners
  BY <1>1, SetActionFacts
<1>4. r \in Results /\ r.status = "accepted" /\ r.cid = c.cid /\ r.xid = c.cid
  BY <1>1 DEF Results, PlaceResult
<1>5. v \in OrderSnapshots
  BY <1>2 DEF OrderSnapshots
<1>6. w \in OrderSnapshots /\ w.cid = c.cid /\ w.xid = c.cid /\ w.result = "accepted"
  <2> HIDE DEF v, r
  <2> QED BY <1>1, <1>4, <1>5, WithResultFacts
<1>7. o \in OrderSnapshots /\ o.cid = c.cid /\ o.xid = c.cid /\ o.result = "accepted"
      /\ o.status = "open"
  <2> HIDE DEF w
  <2> QED BY <1>6 DEF OrderSnapshots, Lifecycles
<1>e. ApplyExecuted(p, c, r) = q
  <2>1. l.orders = p.orders
    <3> HIDE DEF n
    <3>1. /\ ProjectionOk(n) /\ n.owners.client[c.cid] \in {NoId, c.id}
          /\ n.owners.exchange[c.cid] \in {NoId, c.id}
      BY <1>3
    <3>2. l.orders = n.orders
      BY <1>1, <3>1, ClaimBothFacts
    <3> QED BY <1>3, <3>2
  <2>2. ApplyExecuted(p, c, r) = ApplyPlaced(l, c, r)
    BY <1>4 DEF ApplyExecuted
  <2> HIDE DEF r, l, n
  <2>3. r.status = "accepted"
    BY <1>4
  <2>4. ApplyPlaced(l, c, r) =
          Index(WithOrder(l, c.id,
              [WithResult([l.orders[c.id] EXCEPT !.started = TRUE, !.executed = TRUE], r)
                 EXCEPT !.status = "open"]), c.id)
    BY <2>3 DEF ApplyPlaced
  <2> QED BY <2>1, <2>2, <2>4
<1> HIDE DEF n, v, w, o, r
<1>8. /\ ProjectionOk(l)
      /\ l.byClient = n.byClient /\ l.byExchange = n.byExchange
      /\ l.requested = n.requested /\ l.actions = n.actions
      /\ l.orders = n.orders /\ l.placements = n.placements
      /\ l.owners.client = [n.owners.client EXCEPT ![c.cid] = c.id]
      /\ l.owners.exchange = [n.owners.exchange EXCEPT ![c.cid] = c.id]
      /\ l.owners.collision = n.owners.collision
  <2>1. /\ ProjectionOk(n) /\ n.owners.client[c.cid] \in {NoId, c.id}
        /\ n.owners.exchange[c.cid] \in {NoId, c.id}
    BY <1>3
  <2> QED BY <1>1, <2>1, ClaimBothFacts
<1> HIDE DEF l
<1>9. /\ ProjectionOk(q)
      /\ q.byClient = [l.byClient EXCEPT ![c.cid] = c.id]
      /\ q.byExchange = [l.byExchange EXCEPT ![c.cid] = c.id]
      /\ q.requested = l.requested /\ q.actions = l.actions
      /\ q.orders = [l.orders EXCEPT ![c.id] = o]
      /\ q.owners = l.owners /\ q.placements = l.placements
  <2>1. ProjectionOk(l)
    BY <1>8
  <2> QED BY <1>1, <1>7, <2>1, IndexedFacts
<1> HIDE DEF q
<1>10. q.orders[c.id] = o /\ \A j \in Keys : j # c.id => q.orders[j] = p.orders[j]
  BY <1>1, <1>2, <1>3, <1>8, <1>9
<1>11. /\ q.byClient = [p.byClient EXCEPT ![c.cid] = c.id]
       /\ q.byExchange = [p.byExchange EXCEPT ![c.cid] = c.id]
       /\ q.requested = p.requested /\ q.placements = p.placements
       /\ q.actions = [p.actions EXCEPT ![c.id] = "executed"]
  BY <1>3, <1>8, <1>9
<1>12. /\ q.owners.client = [p.owners.client EXCEPT ![c.cid] = c.id]
       /\ q.owners.exchange = [p.owners.exchange EXCEPT ![c.cid] = c.id]
       /\ q.owners.collision = p.owners.collision
  BY <1>3, <1>8, <1>9
<1>13. ApplyExecuted(p, c, PlaceResult(c, "accepted")) = q
  BY <1>e DEF r
<1> QED BY <1>7, <1>9, <1>10, <1>11, <1>12, <1>13

(* ACTION_EXECUTED of a cancel command: the order found by the exchange order *)
(* id, if any, is cancelled.                                                  *)
LEMMA CancelledFacts ==
    ASSUME NEW p, ProjectionOk(p), NEW c \in Commands, c.type # "place"
    PROVE  LET q == ApplyExecuted(p, c, CancelResult(c, "cancelled"))
               k == p.byExchange[c.target]
           IN  /\ ProjectionOk(q) /\ SameMaps(p, q)
               /\ q.requested = p.requested
               /\ q.actions = [p.actions EXCEPT ![c.id] = "executed"]
               /\ \A j \in Keys : k = NoId \/ j # k => q.orders[j] = p.orders[j]
               /\ k # NoId => /\ q.orders[k].cid = p.orders[k].cid
                              /\ q.orders[k].xid = p.orders[k].xid
                              /\ q.orders[k].status = "cancelled"
                              /\ q.orders[k].result = "cancelled"
<1> DEFINE r == CancelResult(c, "cancelled")
           n == SetAction(p, c.id, "executed")
           k == p.byExchange[c.target]
           o == [p.orders[k] EXCEPT !.result = "cancelled", !.status = "cancelled"]
           q == WithOrder(n, k, o)
<1>1. /\ c.id \in Actions /\ c.target \in Cids /\ NoId \notin Cids /\ "executed" \in ActionStatuses
  BY GatewayAssumption DEF ActionStatuses
<1>2. p.orders \in [Keys -> OrderSnapshots] /\ k \in Keys \cup {NoId}
  BY <1>1 DEF ProjectionOk
<1>3. /\ ProjectionOk(n) /\ n.byClient = p.byClient /\ n.byExchange = p.byExchange
      /\ n.orders = p.orders /\ n.requested = p.requested /\ n.placements = p.placements
      /\ n.actions = [p.actions EXCEPT ![c.id] = "executed"] /\ n.owners = p.owners
  BY <1>1, SetActionFacts
<1>4. r.status = "cancelled" /\ r.cid = NoId /\ r.xid = c.target /\ r.xid # NoId
  BY <1>1 DEF CancelResult
<1>5. ApplyExecuted(p, c, r) = ApplyCancelled(n, r)
  BY <1>4 DEF ApplyExecuted
<1> HIDE DEF n, r
<1>6. FindOrder(n, r.xid, r.cid) = k
  BY <1>3, <1>4 DEF FindOrder
<1>7. CASE k = NoId
  <2>1. ApplyExecuted(p, c, r) = n
    BY <1>5, <1>6, <1>7 DEF ApplyCancelled
  <2> QED BY <1>3, <1>7, <2>1 DEF SameMaps, r
<1>8. CASE k # NoId
  <2>0. k \in Keys /\ p.orders[k] \in OrderSnapshots
    BY <1>2, <1>8
  <2>1. /\ k \in Keys /\ o \in OrderSnapshots /\ o.status = "cancelled" /\ o.result = "cancelled"
        /\ o.cid = p.orders[k].cid /\ o.xid = p.orders[k].xid
    <3> HIDE DEF k
    <3> QED BY <2>0 DEF OrderSnapshots, Lifecycles
  <2>2. ApplyCancelled(n, r) = [n EXCEPT !.orders[k].result = "cancelled",
                                         !.orders[k].status = "cancelled"]
    <3> HIDE DEF k
    <3> QED BY <1>4, <1>6, <1>8 DEF ApplyCancelled
  <2>3. [n EXCEPT !.orders[k].result = "cancelled", !.orders[k].status = "cancelled"] = q
    <3>1. n = [field \in ProjectionFields |-> n[field]] /\ n.orders = p.orders
      BY <1>3 DEF ProjectionOk
    <3> HIDE DEF k
    <3> QED BY <1>2, <2>0, <3>1 DEF WithOrder, ProjectionFields, OrderSnapshots
  <2> HIDE DEF o
  <2>4. /\ ProjectionOk(q) /\ q.byClient = n.byClient /\ q.byExchange = n.byExchange
        /\ q.orders = [n.orders EXCEPT ![k] = o] /\ q.requested = n.requested
        /\ q.placements = n.placements /\ q.actions = n.actions /\ q.owners = n.owners
    <3>1. ProjectionOk(n)
      BY <1>3
    <3> HIDE DEF k
    <3> QED BY <2>1, <3>1, WithOrderFacts
  <2> HIDE DEF q
  <2>5. q.orders[k] = o /\ \A j \in Keys : j # k => q.orders[j] = p.orders[j]
    <3> HIDE DEF k
    <3> QED BY <1>2, <1>3, <2>1, <2>4
  <2>6. ApplyExecuted(p, c, CancelResult(c, "cancelled")) = q
    BY <1>5, <2>2, <2>3 DEF r
  <2> HIDE DEF k
  <2> QED BY <1>3, <1>8, <2>1, <2>4, <2>5, <2>6 DEF SameMaps, k
<1> QED BY <1>7, <1>8

(* ORDER_LOGICAL_CREATED changes no order.                                    *)
LEMMA LogicalFacts ==
    ASSUME NEW p, ProjectionOk(p), NEW c \in Commands
    PROVE  LET q == ApplyLogical(p, c)
           IN  /\ ProjectionOk(q) /\ SameMaps(p, q) /\ q.orders = p.orders
               /\ q.requested = p.requested /\ q.actions = p.actions
  BY DEF ApplyLogical, ProjectionOk, ProjectionFields, SameMaps

(* ORDER_PLACEMENT_RECORDED adds at most the placement of the command.        *)
LEMMA PlacementFacts ==
    ASSUME NEW p, ProjectionOk(p), NEW c \in Commands, NEW status
    PROVE  LET q == ApplyPlacement(p, c, status)
           IN  /\ ProjectionOk(q) /\ q.orders = p.orders
               /\ q.byClient = p.byClient /\ q.byExchange = p.byExchange
               /\ q.owners = p.owners
               /\ q.requested = p.requested /\ q.actions = p.actions
               /\ \A k : k # c.id => (Staged(q, k) <=> Staged(p, k))
               /\ DOMAIN q.placements = DOMAIN p.placements \cup {c.id}
               /\ Staged(q, c.id) => Staged(p, c.id) \/ c.kind = "staged_release"
  BY DEF ApplyPlacement, ProjectionOk, ProjectionFields, Staged, Put

-----------------------------------------------------------------------------
(* The inductive invariant behind the first two results.                      *)

(* The hypothesis: what one process submits, under an action id or a client   *)
(* order id, no other process submits.  (Two processes that may submit the    *)
(* same id can both find it absent in the ledger: the gateway takes no lock   *)
(* across its replay and its records.)                                        *)
Alone == \A c, d \in Commands : \A p \in c.by, q \in d.by :
    c.id = d.id \/ (c.type = "place" /\ d.type = "place" /\ c.cid = d.cid) => p = q

(* The gateway has decided on action a: there is more than its request.       *)
Decided(t, a) == t.actions[a] \notin {Absent, "requested"}

(* An order that carries an exchange order id has the client order id too.    *)
Owning(t) == \A k \in Keys : t.orders[k].xid # NoId => t.byClient[t.orders[k].xid] = k

(* The two maps, the owners ledger health replays and the identifiers the     *)
(* orders carry agree.                                                        *)
Coherent(t) ==
    /\ \A a \in Actions : t.actions[a] = Absent <=> a \notin t.requested
    /\ \A a \in Actions : Decided(t, a) \/ t.orders[a].xid = NoId
    /\ \A k \in Keys : t.orders[k].xid \in {NoId, t.orders[k].cid}
    /\ Owning(t)
    /\ ~t.owners.collision
    /\ t.owners.client = t.byClient
    /\ \A x \in Cids :
         /\ t.byExchange[x] \in {NoId, t.byClient[x]}
         /\ t.owners.exchange[x] \in {NoId, t.byClient[x]}
         /\ t.byClient[x] # NoId => t.orders[t.byClient[x]].cid = x
         /\ t.byClient[x] \notin Actions => t.byClient[x] \in {NoId, x}
         /\ t.byClient[x] \in Actions => Decided(t, t.byClient[x])

(* What a submission pr knows of the ledger t and of what was sent, s.        *)
Deciding == {"request", "decide"}
Unsent == {"logical", "stage", "start", "execute"}
Afterwards == {"settle", "executed", "placement", "fail_result", "error", "fail"}

SubmissionOk(pr, t, s) ==
    LET c == pr.cmd
    IN  /\ pr.pc = "request" => pr.view.actions[c.id] = t.actions[c.id]
        /\ pr.pc = "decide" => t.actions[c.id] # Absent
        /\ pr.pc = "decide" /\ pr.view.actions[c.id] = Absent =>
             /\ t.actions[c.id] = "requested"
             /\ c.type = "place" => /\ t.orders[c.id].cid = c.cid
                                    /\ t.orders[c.id].status = "requested"
        /\ pr.pc \in Deciding /\ c.type = "place" =>
             pr.view.byClient[c.cid] = t.byClient[c.cid]
        /\ pr.pc \in Unsent \cup Afterwards =>
             /\ Decided(t, c.id)
             /\ c.type = "place" => t.byClient[c.cid] = c.id
        /\ pr.pc \in Unsent => s[c.id] = 0
        /\ pr.pc = "settle" =>
             pr.result \in {Success(c), Failure(c, "rejected"), Failure(c, "failed")}
        /\ pr.pc \in {"executed", "placement"} => pr.result = Success(c)
        /\ pr.pc = "fail_result" =>
             pr.result \in {Failure(c, "rejected"), Failure(c, "failed")}

(* What the venue v holds and the feed f carries is on record in t.           *)
Known == ExternalCids \cup {c.cid : c \in Places}

WorldOk(t, v, f) ==
    /\ \A x \in Cids : v[x] # "none" => /\ x \in Known
                                        /\ x \in ExternalCids \/ t.byClient[x] # NoId
    /\ \A i \in 1..Len(f) : /\ f[i].xid = f[i].cid
                            /\ f[i].cid \in ExternalCids \/ t.byClient[f[i].cid] # NoId

SentOk(t, s) == \A a \in Actions : s[a] = 0 \/ (s[a] = 1 /\ Decided(t, a))

GatewayInv ==
    /\ TypeOK
    /\ Coherent(truth)
    /\ \A p \in Procs : ~At(p, "idle") => /\ p \in proc[p].cmd.by
                                          /\ SubmissionOk(proc[p], truth, sent)
    /\ WorldOk(truth, venue, feed)
    /\ SentOk(truth, sent)

(* q is p once the update u has been applied to the order under key k.        *)
Applied(p, q, u, k) ==
    /\ ProjectionOk(q) /\ k \in Keys
    /\ q.requested = p.requested /\ q.placements = p.placements
    /\ q.actions = p.actions
    /\ q.byClient = [p.byClient EXCEPT ![u.cid] = k]
    /\ q.byExchange = [p.byExchange EXCEPT ![u.cid] = k]
    /\ q.owners.client = [p.owners.client EXCEPT ![u.cid] = k]
    /\ q.owners.exchange = [p.owners.exchange EXCEPT ![u.cid] = k]
    /\ q.owners.collision = p.owners.collision
    /\ \A j \in Keys : j # k => q.orders[j] = p.orders[j]
    /\ q.orders[k].cid = u.cid /\ q.orders[k].xid = u.cid
    /\ q.orders[k].status = u.status /\ q.orders[k].result = p.orders[k].result

(* An update of an order that is on record, or was placed by hand: both maps  *)
(* find the same order, and it keeps the identifiers.                         *)
LEMMA UpdateFacts ==
    ASSUME NEW p, ProjectionOk(p), Coherent(p), NEW u \in Updates, u.xid = u.cid
    PROVE  Applied(p, ApplyUpdate(p, u), u,
                   IF p.byClient[u.cid] = NoId THEN u.cid ELSE p.byClient[u.cid])
<1> DEFINE x == u.cid
           k == IF p.byClient[x] = NoId THEN x ELSE p.byClient[x]
           l == ClaimBoth(p, x, x, k)
           o == [p.orders[k] EXCEPT !.status = u.status, !.xid = u.xid, !.cid = u.cid,
                                    !.size = u.leaves, !.updated = TRUE]
           q == Index(WithOrder(l, k, o), k)
<1>1. /\ x \in Cids /\ x # NoId /\ u.xid = x /\ u.leaves \in Nat
      /\ u.status \in {"open", "filled", "cancelled"}
  BY GatewayAssumption DEF Updates
<1>2. /\ p.byClient[x] \in Keys \cup {NoId} /\ p.orders \in [Keys -> OrderSnapshots]
      /\ x \in Keys
  BY <1>1 DEF ProjectionOk, Keys
<1>3. /\ p.byExchange[x] \in {NoId, p.byClient[x]} /\ p.owners.client[x] = p.byClient[x]
      /\ p.owners.exchange[x] \in {NoId, p.byClient[x]}
  BY <1>1 DEF Coherent
<1>4. k \in Keys /\ p.orders[k] \in OrderSnapshots
  BY <1>2
<1>5. p.owners.client[x] \in {NoId, k} /\ p.owners.exchange[x] \in {NoId, k}
  BY <1>3
<1>6. ApplyUpdate(p, u) = q
  <2>1. (IF FindOrder(p, u.xid, u.cid) = NoId THEN u.cid ELSE FindOrder(p, u.xid, u.cid)) = k
    BY <1>1, <1>3 DEF FindOrder
  <2>2. ClaimUpdate(p, u) = l
    BY <1>1, <1>3 DEF ClaimUpdate
  <2> HIDE DEF l, k
  <2> QED BY <2>1, <2>2 DEF ApplyUpdate
<1> HIDE DEF k
<1>7. /\ o \in OrderSnapshots /\ o.cid = x /\ o.xid = x
      /\ o.status = u.status /\ o.result = p.orders[k].result
  <2> HIDE DEF x
  <2> QED BY <1>1, <1>4 DEF OrderSnapshots, Lifecycles, x
<1> HIDE DEF o, x
<1>8. /\ ProjectionOk(l)
      /\ l.byClient = p.byClient /\ l.byExchange = p.byExchange
      /\ l.requested = p.requested /\ l.actions = p.actions
      /\ l.orders = p.orders /\ l.placements = p.placements
      /\ l.owners.client = [p.owners.client EXCEPT ![x] = k]
      /\ l.owners.exchange = [p.owners.exchange EXCEPT ![x] = k]
      /\ l.owners.collision = p.owners.collision
  BY <1>1, <1>4, <1>5, ClaimBothFacts
<1> HIDE DEF l
<1>9. /\ ProjectionOk(q)
      /\ q.byClient = [l.byClient EXCEPT ![x] = k]
      /\ q.byExchange = [l.byExchange EXCEPT ![x] = k]
      /\ q.requested = l.requested /\ q.actions = l.actions
      /\ q.orders = [l.orders EXCEPT ![k] = o]
      /\ q.owners = l.owners /\ q.placements = l.placements
  <2>1. ProjectionOk(l)
    BY <1>8
  <2> QED BY <1>1, <1>4, <1>7, <2>1, IndexedFacts
<1> HIDE DEF q
<1>10. q.orders[k] = o /\ \A j \in Keys : j # k => q.orders[j] = p.orders[j]
  BY <1>2, <1>4, <1>8, <1>9
<1>11. /\ q.byClient = [p.byClient EXCEPT ![x] = k]
       /\ q.byExchange = [p.byExchange EXCEPT ![x] = k]
       /\ q.requested = p.requested /\ q.placements = p.placements
       /\ q.actions = p.actions
  BY <1>8, <1>9
<1>12. /\ q.owners.client = [p.owners.client EXCEPT ![x] = k]
       /\ q.owners.exchange = [p.owners.exchange EXCEPT ![x] = k]
       /\ q.owners.collision = p.owners.collision
  BY <1>8, <1>9
<1>13. Applied(p, q, u, k)
  BY <1>4, <1>7, <1>9, <1>10, <1>11, <1>12 DEF x, Applied
<1> QED BY <1>6, <1>13 DEF x, k

-----------------------------------------------------------------------------
(* What every record keeps, and what it leaves alone of other submissions.    *)

(* From t to u, no action but those of A is touched and no client order id    *)
(* but those of X, and the orders of undecided actions stay as they are.      *)
Apart(t, u, A, X) ==
    /\ \A a \in Actions \ A : u.actions[a] = t.actions[a]
    /\ \A x \in Cids \ X : u.byClient[x] = t.byClient[x]
    /\ \A a \in Actions \ A : Decided(t, a) \/ u.orders[a] = t.orders[a]

(* What is decided stays decided, and who has a client order id keeps it.     *)
Grows(t, u) ==
    /\ \A a \in Actions : Decided(t, a) => Decided(u, a)
    /\ \A x \in Cids : t.byClient[x] # NoId => u.byClient[x] = t.byClient[x]

Moves(t, u, A, X) == ProjectionOk(u) /\ Coherent(u) /\ Apart(t, u, A, X) /\ Grows(t, u)

(* The client order id of a place command.                                    *)
CidsOf(c) == IF c.type = "place" THEN {c.cid} ELSE {}

(* A projection that stays as it is moves nothing.                            *)
LEMMA NothingMoves ==
    ASSUME NEW t, ProjectionOk(t), Coherent(t), NEW A, NEW X
    PROVE  Moves(t, t, A, X)
  BY DEF Moves, Apart, Grows

(* ACTION_REQUESTED moves its own action only.                                *)
LEMMA RequestedMoves ==
    ASSUME NEW t, ProjectionOk(t), Coherent(t), NEW c \in Commands
    PROVE  Moves(t, ApplyRequested(t, c), {c.id}, {})
<1> DEFINE u == ApplyRequested(t, c)
<1>0. c.id \in Actions /\ c.id \in Keys /\ NoId \notin Keys
  BY GatewayAssumption DEF Keys
<1>1. CASE c.id \in t.requested
  <2>1. ApplyRequested(t, c) = t
    BY <1>1 DEF ApplyRequested
  <2> QED BY <2>1, NothingMoves
<1>2. CASE c.id \notin t.requested
  <2>1. /\ ProjectionOk(u) /\ SameMaps(t, u)
        /\ u.actions = [t.actions EXCEPT ![c.id] = "requested"]
        /\ u.requested = t.requested \cup {c.id}
        /\ \A j \in Keys : j # c.id => u.orders[j] = t.orders[j]
        /\ u.orders[c.id].xid = t.orders[c.id].xid
    BY <1>2, RequestedFacts
  <2>2. t.actions[c.id] = Absent /\ t.orders[c.id].xid = NoId /\ ~Decided(t, c.id)
    BY <1>0, <1>2 DEF Coherent, Decided
  <2> HIDE DEF u
  <2>3. /\ u.actions[c.id] = "requested"
        /\ \A a \in Actions : a # c.id => u.actions[a] = t.actions[a]
    BY <1>0, <2>1 DEF ProjectionOk
  <2>4. /\ \A a \in Actions : a # c.id => (Decided(u, a) <=> Decided(t, a))
        /\ ~Decided(u, c.id)
    BY <2>3 DEF Decided
  <2>5. \A x \in Cids : t.byClient[x] # c.id
    BY <1>0, <2>2 DEF Coherent
  <2>6. Coherent(u)
    <3>1. \A a \in Actions : u.actions[a] = Absent <=> a \notin u.requested
      BY <2>1, <2>3 DEF Coherent, Absent
    <3>2. \A a \in Actions : Decided(u, a) \/ u.orders[a].xid = NoId
      BY <1>0, <2>1, <2>2, <2>4 DEF Coherent, Keys
    <3>3. \A k \in Keys : u.orders[k].xid \in {NoId, u.orders[k].cid}
      BY <1>0, <2>1, <2>2 DEF Coherent
    <3>4. \A x \in Cids :
            /\ u.byExchange[x] \in {NoId, u.byClient[x]}
            /\ u.owners.exchange[x] \in {NoId, u.byClient[x]}
            /\ u.byClient[x] # NoId => u.orders[u.byClient[x]].cid = x
            /\ u.byClient[x] \notin Actions => u.byClient[x] \in {NoId, x}
            /\ u.byClient[x] \in Actions => Decided(u, u.byClient[x])
      <4>1. u.byClient = t.byClient /\ u.byExchange = t.byExchange /\ u.owners = t.owners
        BY <2>1 DEF SameMaps
      <4>2. \A x \in Cids : t.byClient[x] \in Keys \cup {NoId}
        BY DEF ProjectionOk
      <4>3. \A x \in Cids : u.byClient[x] # NoId => u.orders[u.byClient[x]].cid = x
        BY <2>1, <2>5, <4>1, <4>2 DEF Coherent
      <4> QED BY <2>4, <2>5, <4>1, <4>3 DEF Coherent, Decided
    <3>5. Owning(u)
      BY <1>0, <2>1, <2>2 DEF Coherent, Owning, SameMaps
    <3> QED BY <2>1, <3>1, <3>2, <3>3, <3>4, <3>5 DEF Coherent, SameMaps
  <2>7. Apart(t, u, {c.id}, {}) /\ Grows(t, u)
    BY <2>1, <2>2, <2>3, <2>4 DEF Apart, Grows, SameMaps, Keys
  <2> QED BY <2>1, <2>6, <2>7 DEF Moves, u
<1> QED BY <1>1, <1>2

(* A record that touches one decided action, and the status and result of     *)
(* orders already decided.                                                    *)
LEMMA StatusMoves ==
    ASSUME NEW t, ProjectionOk(t), Coherent(t), NEW u, ProjectionOk(u), NEW a \in Actions,
           t.actions[a] # Absent, Decided(u, a),
           \A b \in Actions : b # a => u.actions[b] = t.actions[b],
           u.requested = t.requested, u.byClient = t.byClient, u.owners = t.owners,
           \A x \in Cids : u.byExchange[x] \in {t.byExchange[x], t.byClient[x]},
           \A k \in Keys : u.orders[k].cid = t.orders[k].cid /\ u.orders[k].xid = t.orders[k].xid,
           \A b \in Actions : b # a /\ ~Decided(t, b) => u.orders[b] = t.orders[b],
           NEW X
    PROVE  Moves(t, u, {a}, X)
<1>1. \A b \in Actions : /\ b # a => (Decided(u, b) <=> Decided(t, b))
                         /\ Decided(t, b) => Decided(u, b)
  BY DEF Decided
<1>2. Coherent(u)
  <2>1. \A b \in Actions : u.actions[b] = Absent <=> b \notin u.requested
    BY DEF Coherent, Decided
  <2>2. \A b \in Actions : Decided(u, b) \/ u.orders[b].xid = NoId
    BY <1>1 DEF Coherent, Keys, Decided
  <2>3. \A k \in Keys : u.orders[k].xid \in {NoId, u.orders[k].cid}
    BY DEF Coherent
  <2>4. \A x \in Cids :
            /\ u.byExchange[x] \in {NoId, u.byClient[x]}
            /\ u.owners.exchange[x] \in {NoId, u.byClient[x]}
            /\ u.byClient[x] \notin Actions => u.byClient[x] \in {NoId, x}
            /\ u.byClient[x] \in Actions => Decided(u, u.byClient[x])
    BY <1>1 DEF Coherent, Decided
  <2>5. \A x \in Cids : u.byClient[x] # NoId => u.orders[u.byClient[x]].cid = x
    <3>1. \A x \in Cids : t.byClient[x] \in Keys \cup {NoId}
      BY DEF ProjectionOk
    <3> QED BY <3>1 DEF Coherent
  <2>6. ~u.owners.collision /\ u.owners.client = u.byClient /\ Owning(u)
    BY DEF Coherent, Owning
  <2> QED BY <2>1, <2>2, <2>3, <2>4, <2>5, <2>6 DEF Coherent
<1>3. Apart(t, u, {a}, X) /\ Grows(t, u)
  BY <1>1 DEF Apart, Grows, Decided
<1> QED BY <1>2, <1>3 DEF Moves

(* ACTION_REJECTED moves its own action only.                                 *)
LEMMA RejectedMoves ==
    ASSUME NEW t, ProjectionOk(t), Coherent(t), NEW c \in Commands, t.actions[c.id] # Absent,
           NEW reason
    PROVE  Moves(t, ApplyRejected(t, c, reason), {c.id}, {})
<1> DEFINE u == ApplyRejected(t, c, reason)
<1>0. c.id \in Actions /\ c.id \in Keys
  BY GatewayAssumption DEF Keys
<1>1. /\ ProjectionOk(u) /\ SameMaps(t, u) /\ SameButStatus(t, u, c.id)
      /\ u.requested = t.requested
      /\ u = t \/ u.actions = [t.actions EXCEPT ![c.id] = "rejected"]
  BY RejectedFacts
<1>2. CASE u = t
  BY <1>2, NothingMoves
<1>3. CASE u # t
  <2> HIDE DEF u
  <2>1. t.actions \in [Actions -> ActionStatuses \cup {Absent}]
    BY DEF ProjectionOk
  <2>2. Decided(u, c.id) /\ \A b \in Actions : b # c.id => u.actions[b] = t.actions[b]
    BY <1>0, <1>1, <1>3, <2>1 DEF Decided, Absent
  <2>3. /\ u.byClient = t.byClient /\ u.owners = t.owners /\ u.byExchange = t.byExchange
        /\ \A k \in Keys : /\ u.orders[k].cid = t.orders[k].cid
                           /\ u.orders[k].xid = t.orders[k].xid
        /\ \A b \in Actions : b # c.id => u.orders[b] = t.orders[b]
    BY <1>1 DEF SameMaps, SameButStatus, Keys
  <2>4. \A x \in Cids : u.byExchange[x] \in {t.byExchange[x], t.byClient[x]}
    BY <2>3
  <2>5. Moves(t, u, {c.id}, {})
    BY <1>0, <1>1, <2>2, <2>3, <2>4, StatusMoves
  <2> QED BY <2>5 DEF u
<1> QED BY <1>2, <1>3

(* A record from t to u that gives the client order id x, which was free or   *)
(* its own, to the order under k.                                             *)
Gives(t, u, A, X, x, k) ==
    /\ u.requested = t.requested
    /\ \A b \in Actions : \/ u.actions[b] = t.actions[b]
                          \/ b \in A /\ t.actions[b] # Absent /\ Decided(u, b)
    /\ t.byClient[x] = k \/ (t.byClient[x] = NoId /\ x \in X)
    /\ \A y \in Cids : t.byClient[y] = k => y = x
    /\ k \in Actions => Decided(u, k) /\ (k \in A \/ Decided(t, k))
    /\ k \notin Actions => k = x
    /\ u.byClient = [t.byClient EXCEPT ![x] = k]
    /\ u.owners.client = [t.owners.client EXCEPT ![x] = k]
    /\ ~u.owners.collision
    /\ \A y \in Cids : /\ u.byExchange[y] \in {t.byExchange[y], u.byClient[y]}
                       /\ u.owners.exchange[y] \in {t.owners.exchange[y], u.byClient[y]}
    /\ \A j \in Keys : j # k => u.orders[j] = t.orders[j]
    /\ u.orders[k].cid = x /\ u.orders[k].xid \in {NoId, x}

(* Giving an order its identifiers moves no one else's.                       *)
LEMMA IdentityMoves ==
    ASSUME NEW t, ProjectionOk(t), Coherent(t), NEW u, ProjectionOk(u),
           NEW A, NEW X, NEW x \in Cids, NEW k \in Keys, Gives(t, u, A, X, x, k)
    PROVE  Moves(t, u, A, X)
<1> USE DEF Gives
<1>0. NoId \notin Keys /\ Actions \subseteq Keys
  BY GatewayAssumption DEF Keys
<1>1. \A b \in Actions : Decided(t, b) => Decided(u, b)
  BY DEF Decided
<1>2. u.byClient[x] = k /\ \A y \in Cids : y # x => u.byClient[y] = t.byClient[y]
  BY DEF ProjectionOk
<1>3. \A y \in Cids : t.byClient[y] \in Keys \cup {NoId}
  BY DEF ProjectionOk
<1>4. Coherent(u)
  <2>1. \A b \in Actions : u.actions[b] = Absent <=> b \notin u.requested
    BY DEF Coherent, Decided
  <2>2. \A b \in Actions : Decided(u, b) \/ u.orders[b].xid = NoId
    BY <1>0, <1>1 DEF Coherent, Decided
  <2>3. \A j \in Keys : u.orders[j].xid \in {NoId, u.orders[j].cid}
    BY DEF Coherent
  <2>4. ~u.owners.collision /\ u.owners.client = u.byClient
    BY DEF Coherent
  <2>5. \A y \in Cids : u.byExchange[y] \in {NoId, u.byClient[y]}
    BY <1>2 DEF Coherent
  <2>6. \A y \in Cids : u.owners.exchange[y] \in {NoId, u.byClient[y]}
    BY <1>2 DEF Coherent
  <2>7. \A y \in Cids : u.byClient[y] # NoId => u.orders[u.byClient[y]].cid = y
    BY <1>2, <1>3 DEF Coherent
  <2>8. \A y \in Cids : u.byClient[y] \notin Actions => u.byClient[y] \in {NoId, y}
    BY <1>2 DEF Coherent
  <2>9. \A y \in Cids : u.byClient[y] \in Actions => Decided(u, u.byClient[y])
    BY <1>1, <1>2 DEF Coherent, Decided
  <2>10. Owning(u)
    <3> SUFFICES ASSUME NEW j \in Keys, u.orders[j].xid # NoId PROVE u.byClient[u.orders[j].xid] = j
      BY DEF Owning
    <3>1. CASE j = k
      BY <1>2, <3>1
    <3>2. CASE j # k
      <4>1. u.orders[j].xid = t.orders[j].xid /\ t.byClient[t.orders[j].xid] = j
        BY <3>2 DEF Coherent, Owning
      <4>2. t.orders[j].xid \in Cids
        BY <4>1 DEF ProjectionOk, OrderSnapshots
      <4>3. t.orders[j].xid # x
        BY <1>0, <3>2, <4>1
      <4> QED BY <1>2, <4>1, <4>2, <4>3
    <3> QED BY <3>1, <3>2
  <2> QED BY <2>1, <2>2, <2>3, <2>4, <2>5, <2>6, <2>7, <2>8, <2>9, <2>10 DEF Coherent
<1>5. Apart(t, u, A, X)
  BY <1>0, <1>2 DEF Apart, Decided
<1>6. Grows(t, u)
  BY <1>0, <1>1, <1>2 DEF Grows, Decided
<1> QED BY <1>4, <1>5, <1>6 DEF Moves

(* ACTION_ACCEPTED decides its action and, of a placement, takes its client   *)
(* order id.                                                                  *)
LEMMA AcceptedMoves ==
    ASSUME NEW t, ProjectionOk(t), Coherent(t), NEW c \in Commands,
           t.actions[c.id] = "requested",
           c.type = "place" => /\ t.orders[c.id].cid = c.cid /\ HasOrder(t, c.id)
                               /\ t.byClient[c.cid] \in {NoId, c.id}
    PROVE  LET u == ApplyAccepted(t, c)
           IN  /\ Moves(t, u, {c.id}, CidsOf(c))
               /\ Decided(u, c.id)
               /\ c.type = "place" => u.byClient[c.cid] = c.id
<1> DEFINE u == ApplyAccepted(t, c)
<1>0. c.id \in Actions /\ c.id \in Keys /\ (c.type = "place" => c.cid \in Cids)
  BY GatewayAssumption DEF Keys, Places
<1>1. /\ ProjectionOk(u) /\ SameButStatus(t, u, c.id)
      /\ u.requested = t.requested
      /\ u.actions = [t.actions EXCEPT ![c.id] = "accepted"]
  BY AcceptedFacts
<1>2. t.actions \in [Actions -> ActionStatuses \cup {Absent}] /\ t.actions[c.id] # Absent
  BY DEF ProjectionOk, Absent
<1>3. Decided(u, c.id) /\ \A b \in Actions : b # c.id => u.actions[b] = t.actions[b]
  <2> HIDE DEF u
  <2> QED BY <1>0, <1>1, <1>2 DEF Decided, Absent
<1>4. CASE c.type # "place"
  <2>1. SameMaps(t, u) /\ u.orders = t.orders
    BY <1>4, AcceptedFacts
  <2> HIDE DEF u
  <2>2. u.byClient = t.byClient /\ u.owners = t.owners /\ u.byExchange = t.byExchange
    BY <2>1 DEF SameMaps
  <2>3. Moves(t, u, {c.id}, CidsOf(c))
    BY <1>0, <1>1, <1>2, <1>3, <2>1, <2>2, StatusMoves
  <2> QED BY <1>3, <1>4, <2>3 DEF u
<1>5. CASE c.type = "place"
  <2>0. t.owners.client = t.byClient /\ ~t.owners.collision /\ t.orders[c.id].xid = NoId
        /\ t.byExchange \in [Cids -> Keys \cup {NoId}] /\ t.byClient \in [Cids -> Keys \cup {NoId}]
    BY <1>0 DEF Coherent, Decided, ProjectionOk
  <2>1. /\ u.byClient = [t.byClient EXCEPT ![c.cid] = c.id]
        /\ u.byExchange = Given(t.byExchange, t.orders[c.id].xid, c.id)
        /\ u.owners.client = [t.owners.client EXCEPT ![c.cid] = c.id]
        /\ u.owners.exchange = t.owners.exchange
        /\ u.owners.collision = t.owners.collision
    BY <1>5, <2>0, AcceptedFacts
  <2> HIDE DEF u
  <2>2. u.byExchange = t.byExchange /\ ~u.owners.collision
    BY <2>0, <2>1 DEF Given
  <2>3. \A y \in Cids : t.byClient[y] = c.id => y = c.cid
    BY <1>0, <1>5, GatewayAssumption DEF Coherent
  <2>4. /\ \A j \in Keys : j # c.id => u.orders[j] = t.orders[j]
        /\ u.orders[c.id].cid = c.cid /\ u.orders[c.id].xid = NoId
    BY <1>1, <1>5, <2>0 DEF SameButStatus
  <2>5. \A b \in Actions : \/ u.actions[b] = t.actions[b]
                           \/ b \in {c.id} /\ t.actions[b] # Absent /\ Decided(u, b)
    BY <1>2, <1>3
  <2>6. c.cid \in Cids /\ c.cid \in CidsOf(c) /\ t.byClient[c.cid] \in {NoId, c.id}
    BY <1>0, <1>5 DEF CidsOf
  <2>7. \A y \in Cids : /\ u.byExchange[y] \in {t.byExchange[y], u.byClient[y]}
                        /\ u.owners.exchange[y] \in {t.owners.exchange[y], u.byClient[y]}
    BY <2>1, <2>2
  <2>8. u.byClient[c.cid] = c.id
    BY <2>0, <2>1, <2>6
  <2>9. Moves(t, u, {c.id}, CidsOf(c))
    <3>1. Gives(t, u, {c.id}, CidsOf(c), c.cid, c.id)
      BY <1>0, <1>1, <1>3, <2>1, <2>2, <2>3, <2>4, <2>5, <2>6, <2>7 DEF Gives
    <3> QED BY <1>0, <1>1, <2>6, <3>1, IdentityMoves
  <2> QED BY <1>3, <2>8, <2>9 DEF u
<1> QED BY <1>4, <1>5

(* ACTION_EXECUTION_STARTED moves its own action only.                        *)
LEMMA StartedMoves ==
    ASSUME NEW t, ProjectionOk(t), Coherent(t), NEW c \in Commands, Decided(t, c.id)
    PROVE  Moves(t, ApplyStarted(t, c), {c.id}, {})
<1> DEFINE u == ApplyStarted(t, c)
<1>0. c.id \in Actions /\ c.id \in Keys
  BY GatewayAssumption DEF Keys
<1>1. /\ ProjectionOk(u) /\ SameMaps(t, u) /\ SameButStatus(t, u, c.id)
      /\ u.requested = t.requested
      /\ u.actions = [t.actions EXCEPT ![c.id] = "accepted"]
  BY StartedFacts
<1> HIDE DEF u
<1>2. t.actions \in [Actions -> ActionStatuses \cup {Absent}] /\ t.actions[c.id] # Absent
  BY DEF ProjectionOk, Decided
<1>3. Decided(u, c.id) /\ \A b \in Actions : b # c.id => u.actions[b] = t.actions[b]
  BY <1>0, <1>1, <1>2 DEF Decided, Absent
<1>4. /\ u.byClient = t.byClient /\ u.owners = t.owners /\ u.byExchange = t.byExchange
      /\ \A k \in Keys : /\ u.orders[k].cid = t.orders[k].cid
                         /\ u.orders[k].xid = t.orders[k].xid
      /\ \A b \in Actions : b # c.id => u.orders[b] = t.orders[b]
  BY <1>1 DEF SameMaps, SameButStatus, Keys
<1>5. \A x \in Cids : u.byExchange[x] \in {t.byExchange[x], t.byClient[x]}
  BY <1>4
<1>6. Moves(t, u, {c.id}, {})
  BY <1>0, <1>1, <1>2, <1>3, <1>4, <1>5, StatusMoves
<1> QED BY <1>6 DEF u

(* The record of a logical order moves its own action only.                   *)
LEMMA LogicalMoves ==
    ASSUME NEW t, ProjectionOk(t), Coherent(t), NEW c \in Commands, Decided(t, c.id)
    PROVE  Moves(t, ApplyLogical(t, c), {c.id}, {})
<1> DEFINE u == ApplyLogical(t, c)
<1>0. c.id \in Actions
  BY GatewayAssumption
<1>1. /\ ProjectionOk(u) /\ SameMaps(t, u) /\ u.orders = t.orders
      /\ u.requested = t.requested /\ u.actions = t.actions
  BY LogicalFacts
<1> HIDE DEF u
<1>2. u.byClient = t.byClient /\ u.owners = t.owners /\ u.byExchange = t.byExchange
      /\ t.actions[c.id] # Absent /\ Decided(u, c.id)
  BY <1>1 DEF SameMaps, Decided
<1>6. Moves(t, u, {c.id}, {})
  BY <1>0, <1>1, <1>2, StatusMoves
<1> QED BY <1>6 DEF u

(* The record of a placement moves its own action only.                       *)
LEMMA PlacementMoves ==
    ASSUME NEW t, ProjectionOk(t), Coherent(t), NEW c \in Commands, Decided(t, c.id), NEW status
    PROVE  Moves(t, ApplyPlacement(t, c, status), {c.id}, {})
<1> DEFINE u == ApplyPlacement(t, c, status)
<1>0. c.id \in Actions
  BY GatewayAssumption
<1>1. /\ ProjectionOk(u) /\ u.orders = t.orders /\ u.owners = t.owners
      /\ u.byClient = t.byClient /\ u.byExchange = t.byExchange
      /\ u.requested = t.requested /\ u.actions = t.actions
  BY PlacementFacts
<1> HIDE DEF u
<1>2. t.actions[c.id] # Absent /\ Decided(u, c.id)
  BY <1>1 DEF Decided
<1>6. Moves(t, u, {c.id}, {})
  BY <1>0, <1>1, <1>2, StatusMoves
<1> QED BY <1>6 DEF u

(* ACTION_EXECUTED moves its own action and the order it is about.            *)
LEMMA ExecutedMoves ==
    ASSUME NEW t, ProjectionOk(t), Coherent(t), NEW c \in Commands, Decided(t, c.id),
           c.type = "place" => t.byClient[c.cid] = c.id
    PROVE  Moves(t, ApplyExecuted(t, c, Success(c)), {c.id}, CidsOf(c))
<1> DEFINE u == ApplyExecuted(t, c, Success(c))
<1>0. /\ c.id \in Actions /\ c.id \in Keys /\ c.target \in Cids
      /\ (c.type = "place" => c.cid \in Cids) /\ NoId \notin Keys
  BY GatewayAssumption DEF Keys, Places
<1>1. /\ t.actions \in [Actions -> ActionStatuses \cup {Absent}] /\ t.actions[c.id] # Absent
      /\ t.byClient \in [Cids -> Keys \cup {NoId}] /\ t.byExchange \in [Cids -> Keys \cup {NoId}]
      /\ t.owners.exchange \in [Cids -> Keys \cup {NoId}]
  BY DEF ProjectionOk, Decided
<1>2. CASE c.type = "place"
  <2>1. /\ t.owners.client = t.byClient /\ ~t.owners.collision
        /\ t.owners.exchange[c.cid] \in {NoId, c.id}
    BY <1>0, <1>2 DEF Coherent
  <2>2. Success(c) = PlaceResult(c, "accepted")
    BY <1>2 DEF Success
  <2>3. /\ ProjectionOk(u)
        /\ u.requested = t.requested
        /\ u.actions = [t.actions EXCEPT ![c.id] = "executed"]
        /\ u.byClient = [t.byClient EXCEPT ![c.cid] = c.id]
        /\ u.byExchange = [t.byExchange EXCEPT ![c.cid] = c.id]
        /\ u.owners.client = [t.owners.client EXCEPT ![c.cid] = c.id]
        /\ u.owners.exchange = [t.owners.exchange EXCEPT ![c.cid] = c.id]
        /\ u.owners.collision = t.owners.collision
        /\ \A j \in Keys : j # c.id => u.orders[j] = t.orders[j]
        /\ u.orders[c.id].cid = c.cid /\ u.orders[c.id].xid = c.cid
    BY <1>2, <2>1, <2>2, PlacedFacts
  <2> HIDE DEF u
  <2>4. Decided(u, c.id) /\ \A b \in Actions : b # c.id => u.actions[b] = t.actions[b]
    BY <1>0, <1>1, <2>3 DEF Decided, Absent
  <2>5. \A b \in Actions : \/ u.actions[b] = t.actions[b]
                           \/ b \in {c.id} /\ t.actions[b] # Absent /\ Decided(u, b)
    BY <1>1, <2>4
  <2>6. \A y \in Cids : t.byClient[y] = c.id => y = c.cid
    BY <1>0, <1>2 DEF Coherent
  <2>7. \A y \in Cids : /\ u.byExchange[y] \in {t.byExchange[y], u.byClient[y]}
                        /\ u.owners.exchange[y] \in {t.owners.exchange[y], u.byClient[y]}
    BY <1>0, <1>1, <1>2, <2>3
  <2>8. Moves(t, u, {c.id}, CidsOf(c))
    <3>1. /\ ProjectionOk(u) /\ u.requested = t.requested
          /\ u.byClient = [t.byClient EXCEPT ![c.cid] = c.id]
          /\ u.owners.client = [t.owners.client EXCEPT ![c.cid] = c.id]
          /\ ~u.owners.collision
      BY <2>1, <2>3
    <3>2. /\ \A j \in Keys : j # c.id => u.orders[j] = t.orders[j]
          /\ u.orders[c.id].cid = c.cid /\ u.orders[c.id].xid \in {NoId, c.cid}
      BY <2>3
    <3>3. c.cid \in Cids /\ t.byClient[c.cid] \in {NoId, c.id} /\ t.byClient[c.cid] = c.id
      BY <1>0, <1>2
    <3>4. Gives(t, u, {c.id}, CidsOf(c), c.cid, c.id)
      BY <1>0, <2>4, <2>5, <2>6, <2>7, <3>1, <3>2, <3>3 DEF Gives
    <3> QED BY <1>0, <3>1, <3>3, <3>4, IdentityMoves
  <2> QED BY <2>8 DEF u
<1>3. CASE c.type # "place"
  <2> DEFINE k == t.byExchange[c.target]
  <2>1. Success(c) = CancelResult(c, "cancelled")
    BY <1>3 DEF Success
  <2>2. /\ ProjectionOk(u) /\ SameMaps(t, u)
        /\ u.requested = t.requested
        /\ u.actions = [t.actions EXCEPT ![c.id] = "executed"]
        /\ \A j \in Keys : k = NoId \/ j # k => u.orders[j] = t.orders[j]
        /\ k # NoId => /\ u.orders[k].cid = t.orders[k].cid
                       /\ u.orders[k].xid = t.orders[k].xid
    BY <1>3, <2>1, CancelledFacts
  <2>3. k \in Keys \cup {NoId} /\ (k \in Actions => Decided(t, k))
    BY <1>0, <1>1, GatewayAssumption DEF Coherent
  <2> HIDE DEF u, k
  <2>4. Decided(u, c.id) /\ \A b \in Actions : b # c.id => u.actions[b] = t.actions[b]
    BY <1>0, <1>1, <2>2 DEF Decided, Absent
  <2>5. /\ u.byClient = t.byClient /\ u.owners = t.owners /\ u.byExchange = t.byExchange
        /\ \A j \in Keys : /\ u.orders[j].cid = t.orders[j].cid
                           /\ u.orders[j].xid = t.orders[j].xid
    BY <2>2 DEF SameMaps
  <2>6. \A b \in Actions : b # c.id /\ ~Decided(t, b) => u.orders[b] = t.orders[b]
    BY <2>2, <2>3 DEF Keys
  <2>7. \A x \in Cids : u.byExchange[x] \in {t.byExchange[x], t.byClient[x]}
    BY <2>5
  <2>8. Moves(t, u, {c.id}, CidsOf(c))
    BY <1>0, <1>1, <2>2, <2>4, <2>5, <2>6, <2>7, StatusMoves
  <2> QED BY <2>8 DEF u
<1> QED BY <1>2, <1>3

(* ACTION_FAILED moves its own action and no identifier.                      *)
LEMMA FailedMoves ==
    ASSUME NEW t, ProjectionOk(t), Coherent(t), NEW c \in Commands, Decided(t, c.id),
           c.type = "place" => t.byClient[c.cid] = c.id,
           NEW r \in {NoResult, Failure(c, "rejected"), Failure(c, "failed")}
    PROVE  Moves(t, ApplyFailed(t, c, r), {c.id}, {})
<1> DEFINE u == ApplyFailed(t, c, r)
           o == t.orders[c.id]
<1>0. /\ c.id \in Actions /\ c.id \in Keys
      /\ (c.type = "place" => c.cid \in Cids) /\ NoId \notin Keys
  BY GatewayAssumption DEF Keys, Places
<1>1. /\ t.actions \in [Actions -> ActionStatuses \cup {Absent}] /\ t.actions[c.id] # Absent
      /\ t.byExchange \in [Cids -> Keys \cup {NoId}]
      /\ o.xid \in Cids \cup {NoId}
  BY <1>0 DEF ProjectionOk, Decided, OrderSnapshots
<1>2. c.type = "place" => t.orders[c.id].cid = c.cid
  BY <1>0 DEF Coherent
<1>3. /\ ProjectionOk(u)
      /\ u.requested = t.requested /\ u.owners = t.owners /\ u.byClient = t.byClient
      /\ u.byExchange \in {t.byExchange, Given(t.byExchange, o.xid, c.id)}
      /\ u.actions = [t.actions EXCEPT ![c.id] = "failed"]
      /\ \A j \in Keys : j # c.id => u.orders[j] = t.orders[j]
      /\ u.orders[c.id].cid = o.cid /\ u.orders[c.id].xid = o.xid
  BY <1>2, FailedFacts
<1>4. c.type # "place" => u.byExchange = t.byExchange
  BY DEF ApplyFailed, SetAction
<1>5. c.type = "place" => o.xid \in {NoId, c.cid}
  BY <1>0, <1>2 DEF Coherent
<1> HIDE DEF u, o
<1>6. \A x \in Cids : u.byExchange[x] \in {t.byExchange[x], t.byClient[x]}
  BY <1>0, <1>1, <1>3, <1>4, <1>5 DEF Given
<1>7. Decided(u, c.id) /\ \A b \in Actions : b # c.id => u.actions[b] = t.actions[b]
  BY <1>0, <1>1, <1>3 DEF Decided, Absent
<1>8. /\ \A k \in Keys : /\ u.orders[k].cid = t.orders[k].cid
                         /\ u.orders[k].xid = t.orders[k].xid
      /\ \A b \in Actions : b # c.id => u.orders[b] = t.orders[b]
  BY <1>3 DEF o, Keys
<1>9. Moves(t, u, {c.id}, {})
  BY <1>0, <1>1, <1>3, <1>6, <1>7, <1>8, StatusMoves
<1> QED BY <1>9 DEF u

(* An update of the user feed moves no action and only foreign identifiers.   *)
LEMMA UpdateMoves ==
    ASSUME NEW t, ProjectionOk(t), Coherent(t), NEW u \in Updates, u.xid = u.cid,
           u.cid \in ExternalCids \/ t.byClient[u.cid] # NoId
    PROVE  Moves(t, ApplyUpdate(t, u), {}, ExternalCids)
<1> DEFINE q == ApplyUpdate(t, u)
           x == u.cid
           k == IF t.byClient[x] = NoId THEN x ELSE t.byClient[x]
<1>0. x \in Cids /\ x \in Keys /\ NoId \notin Keys /\ (x \in ExternalCids => x \notin Actions)
  BY GatewayAssumption DEF Keys, Updates
<1>a. Applied(t, q, u, k)
  BY UpdateFacts
<1>1. /\ ProjectionOk(q) /\ k \in Keys
      /\ q.requested = t.requested
      /\ q.actions = t.actions
      /\ q.byClient = [t.byClient EXCEPT ![x] = k]
      /\ q.byExchange = [t.byExchange EXCEPT ![x] = k]
      /\ q.owners.client = [t.owners.client EXCEPT ![x] = k]
      /\ q.owners.exchange = [t.owners.exchange EXCEPT ![x] = k]
      /\ q.owners.collision = t.owners.collision
      /\ \A j \in Keys : j # k => q.orders[j] = t.orders[j]
      /\ q.orders[k].cid = x /\ q.orders[k].xid = x
  <2> HIDE DEF q, k
  <2> QED BY <1>a DEF Applied
<1>2. /\ t.byClient \in [Cids -> Keys \cup {NoId}] /\ t.byExchange \in [Cids -> Keys \cup {NoId}]
      /\ t.owners.exchange \in [Cids -> Keys \cup {NoId}] /\ t.byClient[x] \in Keys \cup {NoId}
  BY <1>0 DEF ProjectionOk
<1>3. /\ k \in Actions => Decided(t, k)
      /\ k \notin Actions => k = x
      /\ \A y \in Cids : t.byClient[y] = k => y = x
      /\ ~t.owners.collision
  BY <1>0 DEF Coherent
<1>4. t.byClient[x] \in {NoId, k} /\ (x \in ExternalCids \/ t.byClient[x] = k)
  OBVIOUS
<1> HIDE DEF q, k
<1>5. k \in Actions => Decided(q, k)
  BY <1>1, <1>3 DEF Decided
<1>6. \A y \in Cids : /\ q.byExchange[y] \in {t.byExchange[y], q.byClient[y]}
                      /\ q.owners.exchange[y] \in {t.owners.exchange[y], q.byClient[y]}
  BY <1>0, <1>1, <1>2
<1>7. Moves(t, q, {}, ExternalCids)
  <2>1. /\ ProjectionOk(q) /\ q.requested = t.requested
        /\ q.byClient = [t.byClient EXCEPT ![x] = k]
        /\ q.owners.client = [t.owners.client EXCEPT ![x] = k]
        /\ ~q.owners.collision /\ k \in Keys
        /\ \A b \in Actions : q.actions[b] = t.actions[b]
    BY <1>1, <1>3
  <2>2. /\ \A j \in Keys : j # k => q.orders[j] = t.orders[j]
        /\ q.orders[k].cid = x /\ q.orders[k].xid \in {NoId, x}
    BY <1>1
  <2> HIDE DEF x
  <2>3. Gives(t, q, {}, ExternalCids, x, k)
    BY <1>0, <1>3, <1>4, <1>5, <1>6, <2>1, <2>2 DEF Gives
  <2> QED BY <1>0, <2>1, <2>3, IdentityMoves
<1> QED BY <1>7 DEF q

-----------------------------------------------------------------------------
(* Steps.                                                                     *)

(* The empty ledger's projection is sound and coherent.                       *)
LEMMA EmptyOk == ProjectionOk(Empty) /\ Coherent(Empty)
<1>1. ProjectionOk(Empty)
  <2>1. NoOrder \in OrderSnapshots
    BY DEF NoOrder, OrderSnapshots
  <2>2. Shaped(Empty)
    BY DEF Shaped, Empty, ProjectionFields
  <2> HIDE DEF NoOrder
  <2> QED BY <2>1, <2>2 DEF ProjectionOk, Empty, Shaped
<1>2. Coherent(Empty)
  <2>1. /\ \A a \in Actions : Empty.actions[a] = Absent
        /\ Empty.requested = {}
        /\ \A k \in Keys : Empty.orders[k].xid = NoId
        /\ Empty.byClient = [x \in Cids |-> NoId]
        /\ \A x \in Cids : Empty.byClient[x] = NoId /\ Empty.byExchange[x] = NoId
    BY DEF Empty, NoOrder
  <2>2. /\ Empty.owners.collision = FALSE /\ Empty.owners.client = [x \in Cids |-> NoId]
        /\ \A x \in Cids : Empty.owners.exchange[x] = NoId
    BY DEF Empty
  <2>3. NoId \notin Actions /\ Actions \subseteq Keys
    BY GatewayAssumption DEF Keys
  <2> HIDE DEF Empty
  <2> QED BY <2>1, <2>2, <2>3 DEF Coherent, Decided, Owning
<1> QED BY <1>1, <1>2

(* A submission keeps what it knows while others change what is theirs.       *)
LEMMA SubmissionKept ==
    ASSUME NEW t, NEW u, NEW A, NEW X, Apart(t, u, A, X), Grows(t, u),
           NEW pr, pr.cmd \in Commands, pr.cmd.id \notin A,
           pr.cmd.type = "place" => pr.cmd.cid \notin X,
           NEW s, NEW s2, s2[pr.cmd.id] = s[pr.cmd.id],
           SubmissionOk(pr, t, s)
    PROVE  SubmissionOk(pr, u, s2)
<1> DEFINE c == pr.cmd
<1>1. c.id \in Actions /\ (c.type = "place" => c.cid \in Cids)
  BY GatewayAssumption DEF Places
<1>2. /\ u.actions[c.id] = t.actions[c.id]
      /\ c.type = "place" => u.byClient[c.cid] = t.byClient[c.cid]
      /\ t.actions[c.id] = "requested" => u.orders[c.id] = t.orders[c.id]
  BY <1>1 DEF Apart, Decided
<1> QED BY <1>2 DEF SubmissionOk, Decided

(* What venue and feed name stays on record as the projection grows.          *)
LEMMA WorldKept ==
    ASSUME NEW t, NEW u, Grows(t, u), NEW v, NEW f \in Seq(Updates), WorldOk(t, v, f)
    PROVE  WorldOk(u, v, f)
<1>1. \A i \in 1..Len(f) : f[i].cid \in Cids
  <2>1. \A i \in 1..Len(f) : f[i] \in Updates
    OBVIOUS
  <2> QED BY <2>1 DEF Updates
<1> QED BY <1>1 DEF WorldOk, Grows

(* What was sent stays decided as the projection grows.                       *)
LEMMA SentKept ==
    ASSUME NEW t, NEW u, Grows(t, u), NEW s, SentOk(t, s)
    PROVE  SentOk(u, s)
<1>1. \A a \in Actions : Decided(t, a) => Decided(u, a)
  BY DEF Grows
<1> QED BY <1>1 DEF SentOk

(* A process at a further point of its submission.                            *)
Further(n, c) ==
    /\ n = [pc |-> n.pc, cmd |-> n.cmd, view |-> n.view, result |-> n.result]
    /\ n.pc \in Pcs \ {"idle"} /\ n.cmd = c /\ n.result \in Results
    /\ ProjectionOk(n.view)

(* It is idle again, or further and knows what it should.                     *)
Onward(n, c, t, s) == n = IdleProc \/ (Further(n, c) /\ SubmissionOk(n, t, s))

(* The processes after a step of one of them, which was in a submission of c. *)
LEMMA ProcsStep ==
    ASSUME GatewayInv, Alone, NEW p \in Procs, NEW c \in Commands, p \in c.by, NEW n,
           Apart(truth, truth', {c.id}, CidsOf(c)), Grows(truth, truth'),
           proc' = [proc EXCEPT ![p] = n],
           Onward(n, c, truth', sent'),
           \A a \in Actions : a # c.id => sent'[a] = sent[a]
    PROVE  /\ proc' = [q \in Procs |-> [pc |-> proc'[q].pc, cmd |-> proc'[q].cmd,
                                        view |-> proc'[q].view, result |-> proc'[q].result]]
           /\ \A q \in Procs :
                /\ proc'[q].pc \in Pcs
                /\ proc'[q].cmd \in (IF proc'[q].pc = "idle" THEN {NoCommand} ELSE Commands)
                /\ ProjectionOk(proc'[q].view)
                /\ proc'[q].result \in Results
                /\ proc'[q].pc # "idle" => /\ q \in proc'[q].cmd.by
                                           /\ SubmissionOk(proc'[q], truth', sent')
<1>1. proc = [q \in Procs |-> [pc |-> proc[q].pc, cmd |-> proc[q].cmd,
                               view |-> proc[q].view, result |-> proc[q].result]]
  BY DEF GatewayInv, TypeOK
<1>2. proc'[p] = n /\ \A q \in Procs : q # p => proc'[q] = proc[q]
  BY <1>1
<1>3. /\ IdleProc = [pc |-> IdleProc.pc, cmd |-> IdleProc.cmd, view |-> IdleProc.view,
                     result |-> IdleProc.result]
      /\ IdleProc.pc = "idle" /\ IdleProc.cmd = NoCommand /\ ProjectionOk(IdleProc.view)
      /\ IdleProc.result \in Results
  BY EmptyOk DEF IdleProc, Results, NoResult
<1>4. proc' = [q \in Procs |-> [pc |-> proc'[q].pc, cmd |-> proc'[q].cmd,
                                view |-> proc'[q].view, result |-> proc'[q].result]]
  <2>1. n = [pc |-> n.pc, cmd |-> n.cmd, view |-> n.view, result |-> n.result]
    <3> HIDE DEF IdleProc
    <3> QED BY <1>3 DEF Further, Onward
  <2> QED BY <1>1, <2>1
<1>5. ASSUME NEW q \in Procs
      PROVE  /\ proc'[q].pc \in Pcs
             /\ proc'[q].cmd \in (IF proc'[q].pc = "idle" THEN {NoCommand} ELSE Commands)
             /\ ProjectionOk(proc'[q].view)
             /\ proc'[q].result \in Results
             /\ proc'[q].pc # "idle" => /\ q \in proc'[q].cmd.by
                                        /\ SubmissionOk(proc'[q], truth', sent')
  <2>1. CASE q = p
    <3> HIDE DEF IdleProc
    <3>1. CASE n = IdleProc
      BY <1>2, <1>3, <2>1, <3>1 DEF Pcs
    <3>2. CASE Further(n, c) /\ SubmissionOk(n, truth', sent')
      BY <1>2, <2>1, <3>2 DEF Further
    <3> QED BY <3>1, <3>2 DEF Onward
  <2>2. CASE q # p
    <3>1. /\ proc[q].pc \in Pcs
          /\ proc[q].cmd \in (IF proc[q].pc = "idle" THEN {NoCommand} ELSE Commands)
          /\ ProjectionOk(proc[q].view)
          /\ proc[q].result \in Results
          /\ proc[q].pc # "idle" => /\ q \in proc[q].cmd.by
                                    /\ SubmissionOk(proc[q], truth, sent)
      BY DEF GatewayInv, TypeOK, At
    <3>2. ASSUME proc[q].pc # "idle"
          PROVE  SubmissionOk(proc[q], truth', sent')
      <4> DEFINE d == proc[q].cmd
      <4>1. d \in Commands /\ q \in d.by /\ SubmissionOk(proc[q], truth, sent)
        BY <3>1, <3>2
      <4>2. c.id # d.id /\ ~(c.type = "place" /\ d.type = "place" /\ c.cid = d.cid)
        <5> HIDE DEF d
        <5> QED BY <2>2, <4>1 DEF Alone
      <4>3. d.type = "place" => d.cid \notin CidsOf(c)
        <5> HIDE DEF d
        <5> QED BY <4>2 DEF CidsOf
      <4>4. d.id \notin {c.id} /\ sent'[d.id] = sent[d.id]
        BY <4>1, <4>2, GatewayAssumption
      <4> QED BY <4>1, <4>3, <4>4, SubmissionKept
    <3> QED BY <1>2, <2>2, <3>1, <3>2
  <2> QED BY <2>1, <2>2
<1> QED BY <1>4, <1>5

(* A step of a submission at which only the ledger and the process change.    *)
LEMMA SubmissionStep ==
    ASSUME GatewayInv, Alone, NEW p \in Procs, ~At(p, "idle"), NEW n,
           Moves(truth, truth', {proc[p].cmd.id}, CidsOf(proc[p].cmd)),
           proc' = [proc EXCEPT ![p] = n],
           Onward(n, proc[p].cmd, truth', sent),
           LeaveWorld
    PROVE  GatewayInv' /\ Grows(truth, truth')
<1> DEFINE c == proc[p].cmd
<1>1. c \in Commands /\ p \in c.by /\ TypeOK
  BY DEF GatewayInv, TypeOK, At
<1>2. venue' = venue /\ feed' = feed /\ submits' = submits /\ sent' = sent
  BY DEF LeaveWorld
<1>3. /\ Apart(truth, truth', {c.id}, CidsOf(c)) /\ Grows(truth, truth')
      /\ ProjectionOk(truth') /\ Coherent(truth')
  BY DEF Moves
<1>4. /\ proc' = [q \in Procs |-> [pc |-> proc'[q].pc, cmd |-> proc'[q].cmd,
                                   view |-> proc'[q].view, result |-> proc'[q].result]]
      /\ \A q \in Procs :
           /\ proc'[q].pc \in Pcs
           /\ proc'[q].cmd \in (IF proc'[q].pc = "idle" THEN {NoCommand} ELSE Commands)
           /\ ProjectionOk(proc'[q].view)
           /\ proc'[q].result \in Results
           /\ proc'[q].pc # "idle" => /\ q \in proc'[q].cmd.by
                                      /\ SubmissionOk(proc'[q], truth', sent')
  <2> HIDE DEF c
  <2>1. Onward(n, c, truth', sent')
    BY <1>2 DEF c
  <2> QED BY <1>1, <1>2, <1>3, <2>1, ProcsStep
<1>5. WorldOk(truth', venue', feed') /\ SentOk(truth', sent')
  BY <1>1, <1>2, <1>3, WorldKept, SentKept DEF GatewayInv, TypeOK
<1>6. TypeOK'
  BY <1>1, <1>2, <1>3, <1>4 DEF TypeOK, At
<1> QED BY <1>3, <1>4, <1>5, <1>6 DEF GatewayInv, At

(* A step at which the submission is over.                                    *)
LEMMA ReturnStep ==
    ASSUME GatewayInv, Alone, NEW p \in Procs, ~At(p, "idle"),
           Moves(truth, truth', {proc[p].cmd.id}, CidsOf(proc[p].cmd)),
           proc' = [proc EXCEPT ![p] = IdleProc], LeaveWorld
    PROVE  GatewayInv' /\ Grows(truth, truth')
<1>1. Onward(IdleProc, proc[p].cmd, truth', sent)
  BY DEF Onward
<1> QED BY <1>1, SubmissionStep

(* A move of fewer identifiers is a move of more.                             *)
LEMMA Widen ==
    ASSUME NEW t, NEW u, NEW A, NEW X, Moves(t, u, A, {})
    PROVE  Moves(t, u, A, X)
  BY DEF Moves, Apart

(* Going on to the next record leaves the submission's command, replay and    *)
(* result.                                                                    *)
LEMMA GotoFacts ==
    ASSUME TypeOK, NEW p \in Procs, ~At(p, "idle"), NEW x \in Pcs \ {"idle"}
    PROVE  LET n == [proc[p] EXCEPT !.pc = x]
           IN  /\ Further(n, proc[p].cmd) /\ n.pc = x /\ n.cmd = proc[p].cmd
               /\ n.view = proc[p].view /\ n.result = proc[p].result
<1>1. proc[p] = [pc |-> proc[p].pc, cmd |-> proc[p].cmd,
                 view |-> proc[p].view, result |-> proc[p].result]
  <2>1. proc = [q \in Procs |-> [pc |-> proc[q].pc, cmd |-> proc[q].cmd,
                                 view |-> proc[q].view, result |-> proc[q].result]]
    BY DEF TypeOK
  <2> QED BY <2>1
<1>2. ProjectionOk(proc[p].view) /\ proc[p].result \in Results
  BY DEF TypeOK
<1> QED BY <1>1, <1>2 DEF Further

(* What a process in a submission knows.                                      *)
LEMMA InSubmission ==
    ASSUME GatewayInv, NEW p \in Procs, ~At(p, "idle")
    PROVE  /\ TypeOK /\ ProjectionOk(truth) /\ Coherent(truth)
           /\ proc[p].cmd \in Commands /\ p \in proc[p].cmd.by
           /\ SubmissionOk(proc[p], truth, sent)
           /\ proc[p].cmd.id \in Actions
           /\ proc[p].cmd.type = "place" => proc[p].cmd.cid \in Cids
<1>1. /\ TypeOK /\ ProjectionOk(truth) /\ Coherent(truth)
      /\ proc[p].cmd \in Commands /\ p \in proc[p].cmd.by
      /\ SubmissionOk(proc[p], truth, sent)
  BY DEF GatewayInv, TypeOK, At
<1> QED BY <1>1, GatewayAssumption DEF Places

(* Request keeps the invariant and only adds to what is decided.              *)
LEMMA RequestStep ==
    ASSUME GatewayInv, Alone, NEW p \in Procs, Request(p)
    PROVE  GatewayInv' /\ Grows(truth, truth')
<1> DEFINE c == proc[p].cmd
           n == [proc[p] EXCEPT !.pc = "decide"]
<1>1. /\ At(p, "request") /\ ~At(p, "idle") /\ truth' = ApplyRequested(truth, c)
      /\ proc' = [proc EXCEPT ![p] = n] /\ LeaveWorld
  BY DEF Request, Goto, At
<1>2. /\ TypeOK /\ ProjectionOk(truth) /\ Coherent(truth) /\ c \in Commands
      /\ SubmissionOk(proc[p], truth, sent) /\ c.id \in Actions
      /\ c.type = "place" => c.cid \in Cids
  BY <1>1, InSubmission
<1>3. /\ Further(n, c) /\ n.pc = "decide" /\ n.cmd = c /\ n.view = proc[p].view
  BY <1>1, <1>2, GotoFacts DEF Pcs
<1>4. Moves(truth, truth', {c.id}, CidsOf(c))
  BY <1>1, <1>2, RequestedMoves, Widen
<1>5. SubmissionOk(n, truth', sent)
  <2>1. /\ proc[p].view.actions[c.id] = truth.actions[c.id]
        /\ c.type = "place" => proc[p].view.byClient[c.cid] = truth.byClient[c.cid]
    BY <1>1 , <1>2 DEF SubmissionOk, At, Deciding
  <2>2. /\ c.id \in truth.requested => truth' = truth
        /\ truth'.byClient = truth.byClient
        /\ c.id \notin truth.requested =>
             /\ truth'.actions = [truth.actions EXCEPT ![c.id] = "requested"]
             /\ c.type = "place" => /\ truth'.orders[c.id].status = "requested"
                                    /\ truth'.orders[c.id].cid = c.cid
    <3> HIDE DEF c
    <3> QED BY <1>1, <1>2, RequestedFacts DEF SameMaps
  <2>3. c.id \in truth.requested <=> truth.actions[c.id] # Absent
    BY <1>2 DEF Coherent
  <2>4. truth.actions \in [Actions -> ActionStatuses \cup {Absent}]
    BY <1>2 DEF ProjectionOk
  <2> HIDE DEF c, n
  <2>5. /\ truth'.actions[c.id] # Absent
        /\ truth.actions[c.id] = Absent =>
             /\ truth'.actions[c.id] = "requested"
             /\ c.type = "place" => /\ truth'.orders[c.id].status = "requested"
                                    /\ truth'.orders[c.id].cid = c.cid
    BY <1>2, <2>2, <2>3, <2>4 DEF Absent
  <2> QED BY <1>3, <2>1, <2>2, <2>5 DEF SubmissionOk, Deciding, Unsent, Afterwards
<1> HIDE DEF n
<1> QED BY <1>1, <1>3, <1>4, <1>5, SubmissionStep DEF Onward

(* Reject keeps the invariant and only adds to what is decided.               *)
LEMMA RejectStep ==
    ASSUME GatewayInv, Alone, NEW p \in Procs, Reject(p)
    PROVE  GatewayInv' /\ Grows(truth, truth')
<1> DEFINE c == proc[p].cmd
<1>1. /\ At(p, "decide") /\ ~At(p, "idle") /\ truth' = ApplyRejected(truth, c, Why(p))
      /\ proc' = [proc EXCEPT ![p] = IdleProc] /\ LeaveWorld
  BY DEF Reject, Return, At
<1>2. /\ TypeOK /\ ProjectionOk(truth) /\ Coherent(truth) /\ c \in Commands
      /\ truth.actions[c.id] # Absent
  BY <1>1, InSubmission DEF SubmissionOk, At
<1>3. Moves(truth, truth', {c.id}, CidsOf(c))
  BY <1>1, <1>2, RejectedMoves, Widen
<1> QED BY <1>1, <1>3, ReturnStep

(* Accept keeps the invariant and only adds to what is decided.               *)
LEMMA AcceptStep ==
    ASSUME GatewayInv, Alone, NEW p \in Procs, Accept(p)
    PROVE  GatewayInv' /\ Grows(truth, truth')
<1> DEFINE c == proc[p].cmd
           n == [proc[p] EXCEPT !.pc = "logical"]
<1>1. /\ At(p, "decide") /\ ~At(p, "idle") /\ truth' = ApplyAccepted(truth, c)
      /\ proc' = [proc EXCEPT ![p] = n] /\ LeaveWorld /\ Why(p) = "none"
  BY DEF Accept, Goto, At
<1>2. /\ TypeOK /\ ProjectionOk(truth) /\ Coherent(truth) /\ c \in Commands
      /\ SubmissionOk(proc[p], truth, sent) /\ c.id \in Actions
      /\ c.type = "place" => c.cid \in Cids
  BY <1>1, InSubmission
<1>3. /\ Further(n, c) /\ n.pc = "logical" /\ n.cmd = c
  BY <1>1, <1>2, GotoFacts DEF Pcs
<1>4. /\ proc[p].view.actions[c.id] = Absent
      /\ c.type = "place" => proc[p].view.byClient[c.cid] \in {NoId, c.id}
  BY <1>1 DEF Why, Rejection, IdentifierTaken
<1>5. /\ truth.actions[c.id] = "requested"
      /\ c.type = "place" => /\ truth.orders[c.id].cid = c.cid /\ HasOrder(truth, c.id)
                             /\ truth.byClient[c.cid] \in {NoId, c.id}
  BY <1>1, <1>2, <1>4 DEF SubmissionOk, At, Deciding, HasOrder, Absent
<1>6. /\ Moves(truth, truth', {c.id}, CidsOf(c))
      /\ Decided(truth', c.id)
      /\ c.type = "place" => truth'.byClient[c.cid] = c.id
  <2> HIDE DEF c
  <2> QED BY <1>1, <1>2, <1>5, AcceptedMoves
<1>7. sent[c.id] = 0
  <2>1. ~Decided(truth, c.id)
    BY <1>5 DEF Decided
  <2> QED BY <1>2, <2>1 DEF GatewayInv, SentOk
<1>8. SubmissionOk(n, truth', sent)
  <2> HIDE DEF c, n
  <2> QED BY <1>3, <1>6, <1>7 DEF SubmissionOk, Deciding, Unsent, Afterwards
<1> HIDE DEF n
<1> QED BY <1>1, <1>3, <1>6, <1>8, SubmissionStep DEF Onward

(* RecordLogical keeps the invariant and only adds to what is decided.        *)
LEMMA RecordLogicalStep ==
    ASSUME GatewayInv, Alone, NEW p \in Procs, RecordLogical(p)
    PROVE  GatewayInv' /\ Grows(truth, truth')
<1> DEFINE c == proc[p].cmd
           x == IF c.kind = "staged_release" THEN "stage" ELSE "start"
           n == [proc[p] EXCEPT !.view = Empty, !.pc = x]
<1>1. /\ At(p, "logical") /\ ~At(p, "idle") /\ truth' \in {truth, ApplyLogical(truth, c)}
      /\ proc' = [proc EXCEPT ![p].view = Empty, ![p].pc = x] /\ LeaveWorld
  BY DEF RecordLogical, At
<1>2. /\ TypeOK /\ ProjectionOk(truth) /\ Coherent(truth) /\ c \in Commands
      /\ SubmissionOk(proc[p], truth, sent) /\ c.id \in Actions
  BY <1>1, InSubmission
<1>3. /\ Decided(truth, c.id) /\ sent[c.id] = 0
      /\ c.type = "place" => truth.byClient[c.cid] = c.id
  BY <1>1, <1>2 DEF SubmissionOk, At, Unsent
<1>4. Further(n, c) /\ n.pc \in {"stage", "start"} /\ n.cmd = c
  <2>1. proc[p] = [pc |-> proc[p].pc, cmd |-> proc[p].cmd,
                   view |-> proc[p].view, result |-> proc[p].result]
    BY <1>2 DEF TypeOK
  <2>2. proc[p].result \in Results
    BY <1>2 DEF TypeOK
  <2>3. x \in {"stage", "start"} /\ ProjectionOk(Empty)
    BY EmptyOk
  <2> DEFINE m == [proc[p] EXCEPT !.view = Empty]
  <2>4. /\ m = [pc |-> m.pc, cmd |-> m.cmd, view |-> m.view, result |-> m.result]
        /\ m.view = Empty /\ m.cmd = c /\ m.result \in Results
    BY <2>1, <2>2
  <2>5. n = [m EXCEPT !.pc = x]
    OBVIOUS
  <2> HIDE DEF x, m, n
  <2> QED BY <2>3, <2>4, <2>5 DEF Further, Pcs
<1>5. proc' = [proc EXCEPT ![p] = n]
  <2>1. proc = [q \in Procs |-> [pc |-> proc[q].pc, cmd |-> proc[q].cmd,
                                 view |-> proc[q].view, result |-> proc[q].result]]
    BY <1>2 DEF TypeOK
  <2> HIDE DEF x
  <2> QED BY <1>1, <2>1
<1>6. Moves(truth, truth', {c.id}, CidsOf(c))
  BY <1>1, <1>2, <1>3, LogicalMoves, NothingMoves, Widen
<1>7. Decided(truth', c.id) /\ (c.type = "place" => truth'.byClient[c.cid] = c.id)
  <2> HIDE DEF c
  <2> QED BY <1>1, <1>2, <1>3, LogicalFacts DEF SameMaps, Decided
<1>8. SubmissionOk(n, truth', sent)
  <2> HIDE DEF c, n
  <2> QED BY <1>3, <1>4, <1>7 DEF SubmissionOk, Deciding, Unsent, Afterwards
<1> HIDE DEF n
<1> QED BY <1>1, <1>4, <1>5, <1>6, <1>8, SubmissionStep DEF Onward

(* RecordStaged keeps the invariant and only adds to what is decided.         *)
LEMMA RecordStagedStep ==
    ASSUME GatewayInv, Alone, NEW p \in Procs, RecordStaged(p)
    PROVE  GatewayInv' /\ Grows(truth, truth')
<1> DEFINE c == proc[p].cmd
<1>1. /\ At(p, "stage") /\ ~At(p, "idle") /\ truth' = ApplyPlacement(truth, c, "staged")
      /\ proc' = [proc EXCEPT ![p] = IdleProc] /\ LeaveWorld
  BY DEF RecordStaged, Return, At
<1>2. /\ TypeOK /\ ProjectionOk(truth) /\ Coherent(truth) /\ c \in Commands
      /\ Decided(truth, c.id)
  BY <1>1, InSubmission DEF SubmissionOk, At, Unsent
<1>3. Moves(truth, truth', {c.id}, CidsOf(c))
  BY <1>1, <1>2, PlacementMoves, Widen
<1> QED BY <1>1, <1>3, ReturnStep

(* Start keeps the invariant and only adds to what is decided.                *)
LEMMA StartStep ==
    ASSUME GatewayInv, Alone, NEW p \in Procs, Start(p)
    PROVE  GatewayInv' /\ Grows(truth, truth')
<1> DEFINE c == proc[p].cmd
           n == [proc[p] EXCEPT !.pc = "execute"]
<1>1. /\ At(p, "start") /\ ~At(p, "idle") /\ truth' = ApplyStarted(truth, c)
      /\ proc' = [proc EXCEPT ![p] = n] /\ LeaveWorld
  BY DEF Start, Goto, At
<1>2. /\ TypeOK /\ ProjectionOk(truth) /\ Coherent(truth) /\ c \in Commands
      /\ SubmissionOk(proc[p], truth, sent) /\ c.id \in Actions
  BY <1>1, InSubmission
<1>3. /\ Decided(truth, c.id) /\ sent[c.id] = 0
      /\ c.type = "place" => truth.byClient[c.cid] = c.id
  BY <1>1, <1>2 DEF SubmissionOk, At, Unsent
<1>4. /\ Further(n, c) /\ n.pc = "execute" /\ n.cmd = c
  BY <1>1, <1>2, GotoFacts DEF Pcs
<1>5. Moves(truth, truth', {c.id}, CidsOf(c))
  BY <1>1, <1>2, <1>3, StartedMoves, Widen
<1>6. truth'.byClient = truth.byClient /\ Decided(truth', c.id)
  BY <1>1, <1>2, <1>3, <1>5, StartedFacts DEF SameMaps, Moves, Grows
<1>7. SubmissionOk(n, truth', sent)
  <2> HIDE DEF c, n
  <2> QED BY <1>3, <1>4, <1>6 DEF SubmissionOk, Deciding, Unsent, Afterwards
<1> HIDE DEF n
<1> QED BY <1>1, <1>4, <1>5, <1>7, SubmissionStep DEF Onward

(* The venue changes an order that is on record, and reports it.              *)
LEMMA VenueSetFacts ==
    ASSUME TypeOK, WorldOk(truth, venue, feed), NEW x \in Cids, x \in Known,
           x \in ExternalCids \/ truth.byClient[x] # NoId,
           NEW status \in {"open", "filled", "cancelled"}, VenueSet(x, status)
    PROVE  /\ venue' \in [Cids -> {"none", "open", "filled", "cancelled"}]
           /\ feed' \in Seq(Updates)
           /\ WorldOk(truth, venue', feed')
           /\ Update(x, status) \in Updates /\ feed' = Append(feed, Update(x, status))
<1> DEFINE u == Update(x, status)
<1>1. SizeOf(x) \in Nat
  <2>1. CASE x \in ExternalCids
    BY <2>1 DEF SizeOf
  <2>2. CASE x \notin ExternalCids
    <3>1. \E c \in Places : c.cid = x
      BY <2>2 DEF Known
    <3>2. (CHOOSE c \in Places : c.cid = x) \in Places
      BY <3>1
    <3> QED BY <2>2, <3>2, GatewayAssumption DEF SizeOf, Places
  <2> QED BY <2>1, <2>2
<1>2. u \in Updates /\ u.cid = x /\ u.xid = x
  BY <1>1 DEF Update, Updates
<1>3. venue' = [venue EXCEPT ![x] = status] /\ feed' = Append(feed, u)
  BY DEF VenueSet
<1>4. venue \in [Cids -> {"none", "open", "filled", "cancelled"}] /\ feed \in Seq(Updates)
  BY DEF TypeOK
<1> HIDE DEF u
<1>5. /\ feed' \in Seq(Updates) /\ Len(feed') = Len(feed) + 1
      /\ \A i \in 1..Len(feed) : feed'[i] = feed[i]
      /\ feed'[Len(feed) + 1] = u
  BY <1>2, <1>3, <1>4
<1>6. \A i \in 1..Len(feed') : /\ feed'[i].xid = feed'[i].cid
                               /\ feed'[i].cid \in ExternalCids \/ truth.byClient[feed'[i].cid] # NoId
  <2> SUFFICES ASSUME NEW i \in 1..Len(feed')
               PROVE  /\ feed'[i].xid = feed'[i].cid
                      /\ feed'[i].cid \in ExternalCids \/ truth.byClient[feed'[i].cid] # NoId
    OBVIOUS
  <2>0. Len(feed) \in Nat
    BY <1>4
  <2>1. i \in 1..Len(feed) \/ i = Len(feed) + 1
    BY <1>5, <2>0
  <2>2. CASE i \in 1..Len(feed)
    <3>1. /\ feed[i].xid = feed[i].cid
          /\ feed[i].cid \in ExternalCids \/ truth.byClient[feed[i].cid] # NoId
      BY <2>2 DEF WorldOk
    <3> QED BY <1>5, <2>2, <3>1
  <2>3. CASE i = Len(feed) + 1
    BY <1>2, <1>5, <2>3
  <2> QED BY <2>1, <2>2, <2>3
<1>7. \A y \in Cids : venue'[y] # "none" => /\ y \in Known
                                            /\ y \in ExternalCids \/ truth.byClient[y] # NoId
  BY <1>3, <1>4 DEF WorldOk
<1> QED BY <1>2, <1>3, <1>4, <1>5, <1>6, <1>7 DEF WorldOk, u

(* Begin keeps the invariant and only adds to what is decided.                *)
LEMMA BeginStep ==
    ASSUME GatewayInv, Alone, NEW p \in Procs, NEW c \in Commands, Begin(p, c)
    PROVE  GatewayInv' /\ Grows(truth, truth')
<1> DEFINE n == [pc |-> "request", cmd |-> c, view |-> truth, result |-> NoResult]
<1>1. /\ At(p, "idle") /\ p \in c.by /\ submits < MaxSubmits /\ proc' = [proc EXCEPT ![p] = n]
      /\ submits' = submits + 1 /\ truth' = truth /\ venue' = venue /\ feed' = feed /\ sent' = sent
  BY DEF Begin
<1>2. TypeOK /\ ProjectionOk(truth) /\ Coherent(truth)
  BY DEF GatewayInv, TypeOK
<1>3. /\ n.pc = "request" /\ n.cmd = c /\ n.view = truth /\ n.result = NoResult /\ Further(n, c)
  BY <1>2 DEF Further, Pcs, Results, NoResult
<1> HIDE DEF n
<1>4. SubmissionOk(n, truth', sent')
  BY <1>1, <1>3 DEF SubmissionOk, Deciding, Unsent, Afterwards
<1>5. Moves(truth, truth', {c.id}, CidsOf(c))
  BY <1>1, <1>2, NothingMoves
<1>6. /\ proc' = [q \in Procs |-> [pc |-> proc'[q].pc, cmd |-> proc'[q].cmd,
                                   view |-> proc'[q].view, result |-> proc'[q].result]]
      /\ \A q \in Procs :
           /\ proc'[q].pc \in Pcs
           /\ proc'[q].cmd \in (IF proc'[q].pc = "idle" THEN {NoCommand} ELSE Commands)
           /\ ProjectionOk(proc'[q].view)
           /\ proc'[q].result \in Results
           /\ proc'[q].pc # "idle" => /\ q \in proc'[q].cmd.by
                                      /\ SubmissionOk(proc'[q], truth', sent')
  <2>1. Onward(n, c, truth', sent') /\ \A a \in Actions : a # c.id => sent'[a] = sent[a]
    BY <1>1, <1>3, <1>4 DEF Onward
  <2>2. Apart(truth, truth', {c.id}, CidsOf(c)) /\ Grows(truth, truth')
    BY <1>5 DEF Moves
  <2> QED BY <1>1, <2>1, <2>2, ProcsStep
<1>7. submits' \in 0..MaxSubmits
  BY <1>1, <1>2, GatewayAssumption DEF TypeOK
<1>8. TypeOK'
  BY <1>1, <1>2, <1>6, <1>7 DEF TypeOK, At
<1> QED BY <1>1, <1>5, <1>6, <1>8 DEF GatewayInv, At, Moves

(* The venue acts on a command, or does not.                                  *)
LEMMA EffectFacts ==
    ASSUME TypeOK, WorldOk(truth, venue, feed), NEW c \in Commands,
           c.type = "place" => truth.byClient[c.cid] = c.id,
           TakesEffect(c) \/ VenueSame
    PROVE  /\ venue' \in [Cids -> {"none", "open", "filled", "cancelled"}]
           /\ feed' \in Seq(Updates)
           /\ WorldOk(truth, venue', feed')
<1>1. CASE VenueSame
  BY <1>1 DEF VenueSame, TypeOK
<1>2. CASE TakesEffect(c) /\ c.type = "place"
  <2>1. c.cid \in Cids /\ c.cid \in Known /\ truth.byClient[c.cid] # NoId
    BY <1>2, GatewayAssumption DEF Known, Places
  <2>2. VenueSet(c.cid, "open") \/ VenueSame
    BY <1>2 DEF TakesEffect
  <2> QED BY <1>1, <2>1, <2>2, VenueSetFacts
<1>3. CASE TakesEffect(c) /\ c.type # "place"
  <2>1. c.target \in Cids /\ venue[c.target] = "open" /\ VenueSet(c.target, "cancelled")
    BY <1>3, GatewayAssumption DEF TakesEffect
  <2>2. c.target \in Known /\ (c.target \in ExternalCids \/ truth.byClient[c.target] # NoId)
    BY <2>1 DEF WorldOk
  <2> QED BY <2>1, <2>2, VenueSetFacts
<1> QED BY <1>1, <1>2, <1>3

(* Execute keeps the invariant and only adds to what is decided.              *)
LEMMA ExecuteStep ==
    ASSUME GatewayInv, Alone, NEW p \in Procs, Execute(p)
    PROVE  GatewayInv' /\ Grows(truth, truth')
<1> DEFINE c == proc[p].cmd
<1>1. /\ At(p, "execute") /\ ~At(p, "idle") /\ sent' = [sent EXCEPT ![c.id] = @ + 1]
      /\ truth' = truth /\ submits' = submits /\ (TakesEffect(c) \/ VenueSame)
  BY DEF Execute, At
<1>2. /\ TypeOK /\ ProjectionOk(truth) /\ Coherent(truth) /\ c \in Commands /\ p \in c.by
      /\ SubmissionOk(proc[p], truth, sent) /\ c.id \in Actions
  BY <1>1, InSubmission
<1>3. /\ Decided(truth, c.id) /\ sent[c.id] = 0
      /\ c.type = "place" => truth.byClient[c.cid] = c.id
  BY <1>1, <1>2 DEF SubmissionOk, At, Unsent
<1>4. /\ sent' \in [Actions -> Nat] /\ sent'[c.id] = 1
      /\ \A a \in Actions : a # c.id => sent'[a] = sent[a]
  BY <1>1, <1>2, <1>3 DEF TypeOK
<1>5. SentOk(truth', sent')
  BY <1>1, <1>3, <1>4 DEF GatewayInv, SentOk
<1>6. /\ venue' \in [Cids -> {"none", "open", "filled", "cancelled"}]
      /\ feed' \in Seq(Updates)
      /\ WorldOk(truth', venue', feed')
  <2>1. WorldOk(truth, venue, feed)
    BY DEF GatewayInv
  <2> QED BY <1>1, <1>2, <1>3, <2>1, EffectFacts
<1>7. \E n : Onward(n, c, truth', sent') /\ proc' = [proc EXCEPT ![p] = n]
  <2>1. CASE Goto(p, "error")
    <3> DEFINE n == [proc[p] EXCEPT !.pc = "error"]
    <3>1. Further(n, c) /\ n.pc = "error" /\ n.cmd = c
      BY <1>1, <1>2, GotoFacts DEF Pcs
    <3>2. proc' = [proc EXCEPT ![p] = n]
      BY <2>1 DEF Goto
    <3> HIDE DEF n, c
    <3>3. SubmissionOk(n, truth', sent')
      BY <1>1, <1>3, <3>1 DEF SubmissionOk, Deciding, Unsent, Afterwards
    <3> QED BY <3>1, <3>2, <3>3 DEF Onward
  <2>2. ASSUME NEW r \in {Success(c), Failure(c, "rejected"), Failure(c, "failed")}, Answer(p, r)
        PROVE  \E n : Onward(n, c, truth', sent') /\ proc' = [proc EXCEPT ![p] = n]
    <3> DEFINE n == [proc[p] EXCEPT !.pc = "settle", !.result = r]
    <3>1. r \in Results
      <4> HIDE DEF c
      <4>1. c.target \in Cids /\ (c.type = "place" => c.cid \in Cids)
        BY <1>2, GatewayAssumption DEF Places
      <4> QED BY <4>1 DEF Results, Success, Failure, PlaceResult, CancelResult
    <3>2. proc = [q \in Procs |-> [pc |-> proc[q].pc, cmd |-> proc[q].cmd,
                                   view |-> proc[q].view, result |-> proc[q].result]]
          /\ ProjectionOk(proc[p].view)
      BY <1>2 DEF TypeOK
    <3>3. proc' = [proc EXCEPT ![p] = n]
      BY <2>2, <3>2 DEF Answer
    <3>4. Further(n, c) /\ n.pc = "settle" /\ n.cmd = c /\ n.result = r
      <4>1. proc[p] = [pc |-> proc[p].pc, cmd |-> proc[p].cmd,
                       view |-> proc[p].view, result |-> proc[p].result]
        BY <3>2
      <4> DEFINE m == [proc[p] EXCEPT !.pc = "settle"]
      <4>2. /\ m = [pc |-> m.pc, cmd |-> m.cmd, view |-> m.view, result |-> m.result]
            /\ m.pc = "settle" /\ m.cmd = c /\ ProjectionOk(m.view)
        BY <3>2, <4>1
      <4>3. n = [m EXCEPT !.result = r]
        OBVIOUS
      <4> HIDE DEF m, n
      <4> QED BY <3>1, <4>2, <4>3 DEF Further, Pcs
    <3> HIDE DEF n, c
    <3>5. SubmissionOk(n, truth', sent')
      BY <1>1, <1>3, <2>2, <3>4 DEF SubmissionOk, Deciding, Unsent, Afterwards
    <3> QED BY <3>3, <3>4, <3>5 DEF Onward
  <2>3. \/ Goto(p, "error")
        \/ \E r \in {Success(c), Failure(c, "rejected"), Failure(c, "failed")} : Answer(p, r)
    BY DEF Execute
  <2> QED BY <2>1, <2>2, <2>3
<1>8. Apart(truth, truth', {c.id}, CidsOf(c)) /\ Grows(truth, truth')
  BY <1>1, <1>2, NothingMoves DEF Moves
<1>9. /\ proc' = [q \in Procs |-> [pc |-> proc'[q].pc, cmd |-> proc'[q].cmd,
                                   view |-> proc'[q].view, result |-> proc'[q].result]]
      /\ \A q \in Procs :
           /\ proc'[q].pc \in Pcs
           /\ proc'[q].cmd \in (IF proc'[q].pc = "idle" THEN {NoCommand} ELSE Commands)
           /\ ProjectionOk(proc'[q].view)
           /\ proc'[q].result \in Results
           /\ proc'[q].pc # "idle" => /\ q \in proc'[q].cmd.by
                                      /\ SubmissionOk(proc'[q], truth', sent')
  <2>1. PICK n : Onward(n, c, truth', sent') /\ proc' = [proc EXCEPT ![p] = n]
    BY <1>7
  <2> HIDE DEF c
  <2> QED BY <1>2, <1>4, <1>8, <2>1, ProcsStep
<1>10. TypeOK'
  BY <1>1, <1>2, <1>4, <1>6, <1>9 DEF TypeOK, At
<1> QED BY <1>1, <1>2, <1>5, <1>6, <1>8, <1>9, <1>10 DEF GatewayInv, At

(* A step after which the process goes on at x with the result it has, and    *)
(* at which only the ledger and the process change.                           *)
LEMMA AfterwardsStep ==
    ASSUME GatewayInv, Alone, NEW p \in Procs, proc[p].pc \in Afterwards,
           NEW x \in Afterwards, Goto(p, x), LeaveWorld,
           Moves(truth, truth', {proc[p].cmd.id}, CidsOf(proc[p].cmd)),
           x = "settle" => proc[p].pc = "settle",
           x \in {"executed", "placement"} => proc[p].result = Success(proc[p].cmd),
           x = "fail_result" => proc[p].result \in {Failure(proc[p].cmd, "rejected"),
                                                    Failure(proc[p].cmd, "failed")}
    PROVE  GatewayInv' /\ Grows(truth, truth')
<1> DEFINE c == proc[p].cmd
           n == [proc[p] EXCEPT !.pc = x]
<1>1. ~At(p, "idle") /\ x \in Pcs \ {"idle"} /\ proc' = [proc EXCEPT ![p] = n]
  BY DEF At, Afterwards, Pcs, Goto
<1>2. /\ TypeOK /\ c \in Commands /\ SubmissionOk(proc[p], truth, sent) /\ c.id \in Actions
      /\ c.type = "place" => c.cid \in Cids
  BY <1>1, InSubmission
<1>3. /\ Further(n, c) /\ n.pc = x /\ n.cmd = c /\ n.result = proc[p].result
  BY <1>1, <1>2, GotoFacts
<1>4. /\ Decided(truth, c.id)
      /\ c.type = "place" => truth.byClient[c.cid] = c.id
  BY <1>2 DEF SubmissionOk
<1>5. /\ Decided(truth', c.id)
      /\ c.type = "place" => truth'.byClient[c.cid] = c.id
  BY <1>2, <1>4, GatewayAssumption DEF Moves, Grows
<1>6. SubmissionOk(n, truth', sent)
  <2>1. x = "settle" => proc[p].result \in {Success(c), Failure(c, "rejected"), Failure(c, "failed")}
    BY <1>2 DEF SubmissionOk
  <2>2. x \notin Deciding \cup Unsent
    BY DEF Deciding, Unsent, Afterwards
  <2>3. /\ x \in {"executed", "placement"} => proc[p].result = Success(c)
        /\ x = "fail_result" => proc[p].result \in {Failure(c, "rejected"), Failure(c, "failed")}
    OBVIOUS
  <2> HIDE DEF c, n
  <2> QED BY <1>3, <1>5, <2>1, <2>2, <2>3 DEF SubmissionOk, Deciding
<1> HIDE DEF n
<1> QED BY <1>1, <1>3, <1>6, SubmissionStep DEF Onward

(* Settle keeps the invariant and only adds to what is decided.               *)
LEMMA SettleStep ==
    ASSUME GatewayInv, Alone, NEW p \in Procs, Settle(p)
    PROVE  GatewayInv' /\ Grows(truth, truth')
<1> DEFINE c == proc[p].cmd
           r == proc[p].result
           x == CASE ~ResultOk(c, r) -> "error"
                  [] r.status \in {"rejected", "failed"} -> "fail_result"
                  [] OTHER -> "executed"
<1>1. At(p, "settle") /\ ~At(p, "idle") /\ Goto(p, x) /\ truth' = truth /\ LeaveWorld
  BY DEF Settle, At
<1>2. /\ TypeOK /\ ProjectionOk(truth) /\ Coherent(truth) /\ c \in Commands
      /\ SubmissionOk(proc[p], truth, sent)
  BY <1>1, InSubmission
<1>3. r \in {Success(c), Failure(c, "rejected"), Failure(c, "failed")}
  BY <1>1, <1>2 DEF SubmissionOk, At
<1>4. /\ Success(c).status \notin {"rejected", "failed"}
      /\ Failure(c, "rejected").status = "rejected" /\ Failure(c, "failed").status = "failed"
  BY DEF Success, Failure, PlaceResult, CancelResult
<1>5. /\ x \in Afterwards /\ x # "settle" /\ (x = "executed" => r = Success(c)) /\ x # "placement"
      /\ x = "fail_result" => r \in {Failure(c, "rejected"), Failure(c, "failed")}
  <2> HIDE DEF c, r
  <2> QED BY <1>3, <1>4 DEF Afterwards
<1>6. Moves(truth, truth', {c.id}, CidsOf(c)) /\ proc[p].pc \in Afterwards
  BY <1>1, <1>2, NothingMoves DEF At, Afterwards
<1> HIDE DEF x
<1> QED BY <1>1, <1>5, <1>6, AfterwardsStep

(* The three records of the try block.                                        *)
LEMMA RecordMoves ==
    ASSUME GatewayInv, NEW p \in Procs, InTry(p)
    PROVE  Moves(truth, AfterRecord(p), {proc[p].cmd.id}, CidsOf(proc[p].cmd))
<1> DEFINE c == proc[p].cmd
           r == proc[p].result
<1>1. ~At(p, "idle") /\ proc[p].pc \in Afterwards
  BY DEF InTry, At, Afterwards
<1>2. /\ TypeOK /\ ProjectionOk(truth) /\ Coherent(truth) /\ c \in Commands
      /\ SubmissionOk(proc[p], truth, sent)
  BY <1>1, InSubmission
<1>3. /\ Decided(truth, c.id)
      /\ c.type = "place" => truth.byClient[c.cid] = c.id
  BY <1>1, <1>2 DEF SubmissionOk
<1>4. CASE At(p, "executed")
  <2>1. r = Success(c)
    BY <1>2, <1>4 DEF SubmissionOk, At
  <2>2. AfterRecord(p) = ApplyExecuted(truth, c, Success(c))
    BY <1>4, <2>1 DEF AfterRecord, At
  <2> QED BY <1>2, <1>3, <2>2, ExecutedMoves
<1>5. CASE At(p, "placement")
  <2>1. AfterRecord(p) = ApplyPlacement(truth, c, "accepted")
    BY <1>5 DEF AfterRecord, AfterPlacement, At
  <2> QED BY <1>2, <1>3, <2>1, PlacementMoves, Widen
<1>6. CASE At(p, "fail_result")
  <2>1. r \in {NoResult, Failure(c, "rejected"), Failure(c, "failed")}
    BY <1>2, <1>6 DEF SubmissionOk, At
  <2>2. AfterRecord(p) = ApplyFailed(truth, c, r)
    BY <1>6 DEF AfterRecord, At
  <2> QED BY <1>2, <1>3, <2>1, <2>2, FailedMoves, Widen
<1> QED BY <1>4, <1>5, <1>6 DEF InTry, At

(* Record keeps the invariant and only adds to what is decided.               *)
LEMMA RecordStep ==
    ASSUME GatewayInv, Alone, NEW p \in Procs, Record(p)
    PROVE  GatewayInv' /\ Grows(truth, truth')
<1>1. /\ InTry(p) /\ truth' = AfterRecord(p) /\ LeaveWorld
      /\ proc[p].pc \in Afterwards /\ ~At(p, "idle")
  BY DEF Record, InTry, Afterwards, At
<1>2. Moves(truth, truth', {proc[p].cmd.id}, CidsOf(proc[p].cmd))
  BY <1>1, RecordMoves
<1>3. CASE At(p, "executed") /\ Goto(p, "placement")
  <2>1. proc[p].result = Success(proc[p].cmd)
    BY <1>1, <1>3, InSubmission DEF SubmissionOk, At
  <2>2. "placement" \in Afterwards
    BY DEF Afterwards
  <2> QED BY <1>1, <1>2, <1>3, <2>1, <2>2, AfterwardsStep
<1>4. CASE Return(p)
  BY <1>1, <1>2, <1>4, ReturnStep DEF Return
<1> QED BY <1>3, <1>4 DEF Record

(* RecordRaises keeps the invariant and only adds to what is decided.         *)
LEMMA RecordRaisesStep ==
    ASSUME GatewayInv, Alone, NEW p \in Procs, RecordRaises(p)
    PROVE  GatewayInv' /\ Grows(truth, truth')
<1>1. /\ InTry(p) /\ truth' \in {truth, AfterRecord(p)} /\ LeaveWorld /\ Goto(p, "error")
      /\ proc[p].pc \in Afterwards /\ ~At(p, "idle") /\ "error" \in Afterwards
  BY DEF RecordRaises, InTry, Afterwards, At
<1>2. Moves(truth, truth', {proc[p].cmd.id}, CidsOf(proc[p].cmd))
  BY <1>1, RecordMoves, NothingMoves, InSubmission
<1> QED BY <1>1, <1>2, AfterwardsStep

(* RecordError keeps the invariant and only adds to what is decided.          *)
LEMMA RecordErrorStep ==
    ASSUME GatewayInv, Alone, NEW p \in Procs, RecordError(p)
    PROVE  GatewayInv' /\ Grows(truth, truth')
<1> DEFINE c == proc[p].cmd
           m == [proc[p] EXCEPT !.pc = "fail"]
           n == [proc[p] EXCEPT !.pc = "fail", !.result = NoResult]
<1>1. /\ At(p, "error") /\ ~At(p, "idle") /\ truth' = truth /\ LeaveWorld
      /\ proc' = [proc EXCEPT ![p].pc = "fail", ![p].result = NoResult]
  BY DEF RecordError, At
<1>2. /\ TypeOK /\ ProjectionOk(truth) /\ Coherent(truth) /\ c \in Commands
      /\ SubmissionOk(proc[p], truth, sent)
  BY <1>1, InSubmission
<1>3. /\ Decided(truth, c.id)
      /\ c.type = "place" => truth.byClient[c.cid] = c.id
  BY <1>1, <1>2 DEF SubmissionOk, At, Afterwards
<1>4. Further(m, c) /\ m.pc = "fail" /\ m.cmd = c
  BY <1>1, <1>2, GotoFacts DEF Pcs
<1>5. n = [m EXCEPT !.result = NoResult]
  OBVIOUS
<1>6. proc' = [proc EXCEPT ![p] = n]
  <2>1. proc = [q \in Procs |-> [pc |-> proc[q].pc, cmd |-> proc[q].cmd,
                                 view |-> proc[q].view, result |-> proc[q].result]]
    BY <1>2 DEF TypeOK
  <2> QED BY <1>1, <2>1
<1> HIDE DEF m, n
<1>7. Further(n, c) /\ n.pc = "fail" /\ n.cmd = c
  BY <1>4, <1>5 DEF Further, NoResult, Results
<1>8. SubmissionOk(n, truth', sent)
  <2> HIDE DEF c
  <2> QED BY <1>1, <1>3, <1>7 DEF SubmissionOk, Deciding, Unsent, Afterwards
<1>9. Moves(truth, truth', {c.id}, CidsOf(c))
  BY <1>1, <1>2, NothingMoves
<1> QED BY <1>1, <1>6, <1>7, <1>8, <1>9, SubmissionStep DEF Onward

(* Fail keeps the invariant and only adds to what is decided.                 *)
LEMMA FailStep ==
    ASSUME GatewayInv, Alone, NEW p \in Procs, Fail(p)
    PROVE  GatewayInv' /\ Grows(truth, truth')
<1> DEFINE c == proc[p].cmd
<1>1. /\ At(p, "fail") /\ ~At(p, "idle") /\ truth' = ApplyFailed(truth, c, NoResult)
      /\ proc' = [proc EXCEPT ![p] = IdleProc] /\ LeaveWorld
  BY DEF Fail, Return, At
<1>2. /\ TypeOK /\ ProjectionOk(truth) /\ Coherent(truth) /\ c \in Commands
      /\ SubmissionOk(proc[p], truth, sent)
  BY <1>1, InSubmission
<1>3. /\ Decided(truth, c.id)
      /\ c.type = "place" => truth.byClient[c.cid] = c.id
  BY <1>1, <1>2 DEF SubmissionOk, At, Afterwards
<1>4. Moves(truth, truth', {c.id}, CidsOf(c))
  BY <1>1, <1>2, <1>3, FailedMoves, Widen
<1> QED BY <1>1, <1>4, ReturnStep

(* Abandon keeps the invariant and only adds to what is decided.              *)
LEMMA AbandonStep ==
    ASSUME GatewayInv, Alone, NEW p \in Procs, Abandon(p)
    PROVE  GatewayInv' /\ Grows(truth, truth')
<1>1. /\ ~At(p, "idle") /\ truth' = truth
      /\ proc' = [proc EXCEPT ![p] = IdleProc] /\ LeaveWorld
  BY DEF Abandon, Return
<1>2. Moves(truth, truth', {proc[p].cmd.id}, CidsOf(proc[p].cmd))
  BY <1>1, NothingMoves, InSubmission
<1> QED BY <1>1, <1>2, ReturnStep

(* Every submission keeps what it knows while an update is applied.           *)
LEMMA DeliverStep ==
    ASSUME GatewayInv, Deliver
    PROVE  GatewayInv' /\ Grows(truth, truth')
<1> DEFINE u == Head(feed)
<1>1. /\ feed # << >> /\ truth' = ApplyUpdate(truth, u) /\ feed' = Tail(feed)
      /\ proc' = proc /\ venue' = venue /\ submits' = submits /\ sent' = sent
  BY DEF Deliver
<1>2. /\ TypeOK /\ ProjectionOk(truth) /\ Coherent(truth) /\ feed \in Seq(Updates)
      /\ WorldOk(truth, venue, feed) /\ SentOk(truth, sent)
  BY DEF GatewayInv, TypeOK
<1>3. /\ u \in Updates /\ u = feed[1] /\ 1 \in 1..Len(feed) /\ feed' \in Seq(Updates)
      /\ Len(feed') = Len(feed) - 1 /\ \A i \in 1..Len(feed') : feed'[i] = feed[i + 1]
  BY <1>1, <1>2
<1> HIDE DEF u
<1>4. u.xid = u.cid /\ (u.cid \in ExternalCids \/ truth.byClient[u.cid] # NoId)
  BY <1>2, <1>3 DEF WorldOk
<1>5. Moves(truth, truth', {}, ExternalCids)
  BY <1>1, <1>2, <1>3, <1>4, UpdateMoves
<1>6. /\ Apart(truth, truth', {}, ExternalCids) /\ Grows(truth, truth')
      /\ ProjectionOk(truth') /\ Coherent(truth')
  BY <1>5 DEF Moves
<1>7. ASSUME NEW q \in Procs, ~At(q, "idle")
      PROVE  SubmissionOk(proc[q], truth', sent')
  <2> DEFINE c == proc[q].cmd
  <2>1. c \in Commands /\ SubmissionOk(proc[q], truth, sent)
    BY <1>7, InSubmission
  <2>2. c.type = "place" => c.cid \notin ExternalCids
    BY <2>1, GatewayAssumption DEF Places
  <2>3. sent'[c.id] = sent[c.id]
    BY <1>1
  <2> DEFINE pr == proc[q]
  <2>4. pr.cmd = c
    OBVIOUS
  <2> HIDE DEF c, pr
  <2>5. SubmissionOk(pr, truth', sent')
    BY <1>6, <2>1, <2>2, <2>3, <2>4, SubmissionKept DEF pr
  <2> QED BY <2>5 DEF pr
<1>8. WorldOk(truth', venue', feed')
  <2>1. WorldOk(truth', venue, feed)
    BY <1>2, <1>6, WorldKept
  <2>2. Len(feed) \in Nat
    BY <1>2
  <2>3. \A i \in 1..Len(feed') : i + 1 \in 1..Len(feed) /\ feed'[i] = feed[i + 1]
    BY <1>3, <2>2
  <2> QED BY <1>1, <2>1, <2>3 DEF WorldOk
<1>9. SentOk(truth', sent')
  BY <1>1, <1>2, <1>6, SentKept
<1>10. TypeOK'
  BY <1>1, <1>2, <1>3, <1>6 DEF TypeOK, At
<1> QED BY <1>1, <1>6, <1>7, <1>8, <1>9, <1>10 DEF GatewayInv, At

(* The venue on its own.                                                      *)
LEMMA VenueStep ==
    ASSUME GatewayInv, NEW x \in Cids, x \in Known,
           x \in ExternalCids \/ truth.byClient[x] # NoId,
           NEW status \in {"open", "filled"}, VenueSet(x, status),
           UNCHANGED <<truth, proc, submits, sent>>
    PROVE  GatewayInv' /\ Grows(truth, truth')
<1>1. TypeOK /\ WorldOk(truth, venue, feed)
  BY DEF GatewayInv
<1>2. /\ venue' \in [Cids -> {"none", "open", "filled", "cancelled"}]
      /\ feed' \in Seq(Updates)
      /\ WorldOk(truth, venue', feed')
  BY <1>1, VenueSetFacts
<1>3. TypeOK'
  BY <1>1, <1>2 DEF TypeOK, At
<1>4. Grows(truth, truth')
  BY DEF Grows
<1> QED BY <1>2, <1>3, <1>4 DEF GatewayInv, At

(* Every step keeps the invariant.                                            *)
LEMMA GatewayInductive ==
    ASSUME GatewayInv, Alone, [Next]_vars
    PROVE  GatewayInv' /\ Grows(truth, truth')
<1>1. ASSUME NEW p \in Procs, Step(p) PROVE GatewayInv' /\ Grows(truth, truth')
  BY <1>1, BeginStep, RequestStep, RejectStep, AcceptStep, RecordLogicalStep, RecordStagedStep,
     StartStep, ExecuteStep, SettleStep, RecordStep, RecordRaisesStep, RecordErrorStep,
     FailStep, AbandonStep DEF Step
<1>2. CASE Deliver
  BY <1>2, DeliverStep
<1>3. CASE VenueFills
  <2>1. PICK x \in Cids : /\ venue[x] = "open" /\ VenueSet(x, "filled")
                          /\ UNCHANGED <<truth, proc, submits, sent>>
    BY <1>3 DEF VenueFills
  <2>2. x \in Known /\ (x \in ExternalCids \/ truth.byClient[x] # NoId)
    BY <2>1 DEF GatewayInv, WorldOk
  <2> QED BY <2>1, <2>2, VenueStep
<1>4. CASE VenueExternal
  <2>1. PICK x \in ExternalCids : /\ VenueSet(x, "open")
                                  /\ UNCHANGED <<truth, proc, submits, sent>>
    BY <1>4 DEF VenueExternal
  <2>2. x \in Cids /\ x \in Known
    BY GatewayAssumption DEF Known
  <2> QED BY <2>1, <2>2, VenueStep
<1>5. CASE UNCHANGED vars
  <2>1. Grows(truth, truth')
    BY <1>5 DEF vars, Grows
  <2> QED BY <1>5, <2>1 DEF vars, GatewayInv, TypeOK, At
<1> QED BY <1>1, <1>2, <1>3, <1>4, <1>5 DEF Next

(* The invariant holds of an empty ledger and idle processes.                 *)
LEMMA GatewayInit == ASSUME Init PROVE GatewayInv
<1>1. /\ truth = Empty /\ proc = [p \in Procs |-> IdleProc] /\ venue = [c \in Cids |-> "none"]
      /\ feed = << >> /\ submits = 0 /\ sent = [a \in Actions |-> 0]
  BY DEF Init
<1>2. /\ IdleProc = [pc |-> IdleProc.pc, cmd |-> IdleProc.cmd, view |-> IdleProc.view,
                     result |-> IdleProc.result]
      /\ IdleProc.pc = "idle" /\ IdleProc.cmd = NoCommand /\ ProjectionOk(IdleProc.view)
      /\ IdleProc.result \in Results
  BY EmptyOk DEF IdleProc, Results, NoResult
<1>3. TypeOK
  BY <1>1, <1>2, EmptyOk, GatewayAssumption DEF TypeOK, At, Pcs
<1>4. WorldOk(truth, venue, feed) /\ SentOk(truth, sent)
  BY <1>1 DEF WorldOk, SentOk
<1> QED BY <1>1, <1>2, <1>3, <1>4, EmptyOk DEF GatewayInv, At

(* When no id is submitted by two processes, the inductive invariant holds of *)
(* every behaviour of the gateway ...                                         *)
THEOREM GatewayInvariant == Alone => (Spec => []GatewayInv)
<1> SUFFICES ASSUME Alone PROVE Spec => []GatewayInv
  OBVIOUS
<1>1. Init => GatewayInv
  BY GatewayInit
<1>2. GatewayInv /\ [Next]_vars => GatewayInv'
  BY GatewayInductive
<1> QED BY <1>1, <1>2, PTL DEF Spec

(* ... and with it its types, ...                                             *)
THEOREM TypeCorrect == Alone => (Spec => []TypeOK)
<1>1. GatewayInv => TypeOK
  BY DEF GatewayInv
<1> QED BY <1>1, GatewayInvariant, PTL

(* ... an action reaches the executor at most once, whatever crashes and      *)
(* raising appends come between, and ...                                      *)
THEOREM ActionsSentOnce == Alone => (Spec => []SentAtMostOnce)
<1>1. GatewayInv => SentAtMostOnce
  BY DEF GatewayInv, SentOk, SentAtMostOnce
<1> QED BY <1>1, GatewayInvariant, PTL

(* ... no two orders ever claim one identifier.                               *)
THEOREM IdentitiesUnique == Alone => (Spec => []IdentityUnique)
<1>1. GatewayInv => IdentityUnique
  BY DEF GatewayInv, Coherent, IdentityUnique
<1> QED BY <1>1, GatewayInvariant, PTL

-----------------------------------------------------------------------------
(* No open order is forgotten.                                                *)

(* The order t has under the client order id x.                               *)
OrderOf(t, x) == t.orders[t.byClient[x]]

(* Where it counts as live, or was reported failed by an ambiguous answer.    *)
Remembered(o) == o.status \in LiveStatuses \/ (AmbiguousFailures /\ o.result = "failed")

(* An order that was never sent is as accepted, and not at the venue; one     *)
(* that was sent is no staged placement, and is remembered while it is open.  *)
OrdersOk(t, v, s) ==
    /\ \A x \in Ours :
         /\ t.byClient[x] # NoId => t.byClient[x] \in Actions
         /\ v[x] # "none" => t.byClient[x] # NoId /\ s[t.byClient[x]] = 1
         /\ t.byClient[x] # NoId /\ s[t.byClient[x]] = 0 => OrderOf(t, x).status = "accepted"
         /\ v[x] = "open" => Remembered(OrderOf(t, x))
    /\ \A a \in Actions : /\ Staged(t, a) => s[a] = 0
                          /\ a \in DOMAIN t.placements => Decided(t, a)

(* An update that says an order is closed is never ahead of the venue.        *)
FeedOk(v, f) ==
    \A i \in 1..Len(f) : /\ v[f[i].cid] # "none"
                         /\ f[i].status # "open" => v[f[i].cid] # "open"

(* What a submission knows of its placement and of its result.                *)
ResultKnown(pr, t, v, s) ==
    LET c == pr.cmd
    IN  /\ pr.pc \in Unsent => ~Staged(t, c.id)
        /\ pr.pc \in {"start", "execute"} \cup Afterwards => c.kind # "staged_release"
        /\ pr.pc \in Afterwards => s[c.id] = 1
        /\ pr.pc \in {"settle", "fail_result"} /\ c.type = "place" =>
             /\ pr.result = Failure(c, "rejected") => v[c.cid] = "none"
             /\ pr.result = Failure(c, "failed") => AmbiguousFailures \/ v[c.cid] = "none"
        /\ pr.pc \in {"settle", "executed"} /\ c.type # "place" /\ pr.result = Success(c) =>
             v[c.target] \notin {"none", "open"}

OrdersInv ==
    /\ OrdersOk(truth, venue, sent)
    /\ FeedOk(venue, feed)
    /\ \A p \in Procs : ~At(p, "idle") => ResultKnown(proc[p], truth, venue, sent)

(* A record from t to u leaves the orders under our client order ids as they  *)
(* are, or makes a new one, or changes one that was sent and still remembers  *)
(* it while it is open.                                                       *)
Tends(t, u, v, s) ==
    /\ \A x \in Ours :
         \/ /\ u.byClient[x] = t.byClient[x]
            /\ t.byClient[x] # NoId =>
                 \/ /\ OrderOf(u, x).status = OrderOf(t, x).status
                    /\ OrderOf(u, x).result = OrderOf(t, x).result
                 \/ s[t.byClient[x]] = 1 /\ (v[x] = "open" => Remembered(OrderOf(u, x)))
         \/ /\ t.byClient[x] = NoId /\ u.byClient[x] \in Actions
            /\ OrderOf(u, x).status = "accepted"
    /\ \A a \in Actions : /\ Staged(u, a) => s[a] = 0
                          /\ a \in DOMAIN u.placements => Decided(u, a)

(* What Tends says of a record keeps the orders remembered.                   *)
LEMMA OrdersTend ==
    ASSUME NEW t, NEW u, NEW v, NEW s, OrdersOk(t, v, s), Tends(t, u, v, s)
    PROVE  OrdersOk(u, v, s)
<1>1. ASSUME NEW x \in Ours
      PROVE  /\ u.byClient[x] # NoId => u.byClient[x] \in Actions
             /\ v[x] # "none" => u.byClient[x] # NoId /\ s[u.byClient[x]] = 1
             /\ u.byClient[x] # NoId /\ s[u.byClient[x]] = 0 => OrderOf(u, x).status = "accepted"
             /\ v[x] = "open" => Remembered(OrderOf(u, x))
  <2>1. /\ t.byClient[x] # NoId => t.byClient[x] \in Actions
        /\ v[x] # "none" => t.byClient[x] # NoId /\ s[t.byClient[x]] = 1
        /\ t.byClient[x] # NoId /\ s[t.byClient[x]] = 0 => OrderOf(t, x).status = "accepted"
        /\ v[x] = "open" => Remembered(OrderOf(t, x))
    BY DEF OrdersOk
  <2>2. CASE t.byClient[x] = NoId /\ u.byClient[x] \in Actions /\ OrderOf(u, x).status = "accepted"
    BY <2>1, <2>2
  <2>3. CASE /\ u.byClient[x] = t.byClient[x]
             /\ t.byClient[x] # NoId =>
                  \/ /\ OrderOf(u, x).status = OrderOf(t, x).status
                     /\ OrderOf(u, x).result = OrderOf(t, x).result
                  \/ s[t.byClient[x]] = 1 /\ (v[x] = "open" => Remembered(OrderOf(u, x)))
    BY <2>1, <2>3 DEF Remembered
  <2> QED BY <2>2, <2>3 DEF Tends
<1> QED BY <1>1 DEF OrdersOk, Tends

(* A submission keeps what it knows of its result while orders close.         *)
LEMMA ResultKept ==
    ASSUME NEW pr, pr.cmd \in Commands, NEW t, NEW u, NEW v, NEW v2, NEW s, NEW s2,
           ResultKnown(pr, t, v, s), Staged(u, pr.cmd.id) => Staged(t, pr.cmd.id),
           s2[pr.cmd.id] = s[pr.cmd.id],
           pr.cmd.type = "place" /\ v[pr.cmd.cid] = "none" => v2[pr.cmd.cid] = "none",
           \A x \in Cids : v[x] \notin {"none", "open"} => v2[x] = v[x]
    PROVE  ResultKnown(pr, u, v2, s2)
<1>1. pr.cmd.target \in Cids
  BY GatewayAssumption
<1> QED BY <1>1 DEF ResultKnown

(* The processes after a step of p that left the venue alone.                 *)
LEMMA OrdersSubmission ==
    ASSUME GatewayInv, OrdersInv, Alone, NEW p \in Procs, NEW c \in Commands, p \in c.by, NEW n,
           proc' = [proc EXCEPT ![p] = n],
           n = IdleProc \/ ResultKnown(n, truth', venue, sent),
           Tends(truth, truth', venue, sent),
           \A a \in Actions : a # c.id /\ Staged(truth', a) => Staged(truth, a),
           venue' = venue, feed' = feed, sent' = sent
    PROVE  OrdersInv'
<1>1. OrdersOk(truth', venue', sent') /\ FeedOk(venue', feed')
  BY OrdersTend DEF OrdersInv
<1>2. ASSUME NEW q \in Procs, proc'[q].pc # "idle"
      PROVE  ResultKnown(proc'[q], truth', venue', sent')
  <2>0. /\ proc = [r \in Procs |-> [pc |-> proc[r].pc, cmd |-> proc[r].cmd,
                                    view |-> proc[r].view, result |-> proc[r].result]]
        /\ IdleProc.pc = "idle"
    BY DEF GatewayInv, TypeOK, IdleProc
  <2>1. CASE q = p
    BY <1>2, <2>0, <2>1
  <2>2. CASE q # p
    <3> DEFINE d == proc[q].cmd
    <3>1. proc'[q] = proc[q] /\ ~At(q, "idle") /\ ResultKnown(proc[q], truth, venue, sent)
      BY <1>2, <2>0, <2>2 DEF At, OrdersInv
    <3>2. d \in Commands /\ q \in d.by /\ d.id \in Actions
      BY <3>1, InSubmission
    <3>3. c.id # d.id
      <4> HIDE DEF d
      <4> QED BY <2>2, <3>2 DEF Alone
    <3> QED BY <3>1, <3>2, <3>3, ResultKept
  <2> QED BY <2>1, <2>2
<1> QED BY <1>1, <1>2 DEF OrdersInv, At

(* A record that leaves our client order ids and the placements alone, and    *)
(* the orders but that under k, of which it keeps what counts.                *)
Touches(t, u, v, s, k) ==
    /\ u.placements = t.placements
    /\ \A x \in Ours : u.byClient[x] = t.byClient[x]
    /\ \A j \in Keys : j # k => u.orders[j] = t.orders[j]
    /\ \A x \in Ours : t.byClient[x] = k =>
         \/ u.orders[k].status = t.orders[k].status /\ u.orders[k].result = t.orders[k].result
         \/ s[k] = 1 /\ (v[x] = "open" => Remembered(u.orders[k]))

(* A record that touches one order tends the orders.                          *)
LEMMA TendsAt ==
    ASSUME NEW t, ProjectionOk(t), Coherent(t), NEW u, NEW v, NEW s, OrdersOk(t, v, s),
           Grows(t, u), NEW k, Touches(t, u, v, s, k)
    PROVE  Tends(t, u, v, s) /\ \A a \in Actions : Staged(u, a) => Staged(t, a)
<1> USE DEF Touches
<1>1. \A x \in Ours : t.byClient[x] # NoId => t.byClient[x] \in Keys
  BY DEF ProjectionOk, Ours
<1>2. \A a \in Actions : /\ Staged(u, a) => Staged(t, a)
                         /\ a \in DOMAIN u.placements => Decided(u, a)
  BY DEF Staged, OrdersOk, Grows
<1>3. \A a \in Actions : Staged(t, a) => s[a] = 0
  BY DEF OrdersOk
<1>4. ASSUME NEW x \in Ours, t.byClient[x] # NoId
      PROVE  \/ /\ OrderOf(u, x).status = OrderOf(t, x).status
                /\ OrderOf(u, x).result = OrderOf(t, x).result
             \/ s[t.byClient[x]] = 1 /\ (v[x] = "open" => Remembered(OrderOf(u, x)))
  <2>1. CASE t.byClient[x] = k
    BY <2>1 DEF OrderOf
  <2>2. CASE t.byClient[x] # k
    BY <1>1, <1>4, <2>2 DEF OrderOf
  <2> QED BY <2>1, <2>2
<1>5. \A a \in Actions : /\ Staged(u, a) => s[a] = 0
                         /\ a \in DOMAIN u.placements => Decided(u, a)
  BY <1>2, <1>3
<1> QED BY <1>2, <1>4, <1>5 DEF Tends

(* No record at all tends them.                                               *)
LEMMA TendsSame ==
    ASSUME NEW t, ProjectionOk(t), Coherent(t), NEW v, NEW s, OrdersOk(t, v, s)
    PROVE  Tends(t, t, v, s)
  BY DEF Tends, OrdersOk

(* The record of a placement tends them.                                      *)
LEMMA TendsPlaced ==
    ASSUME NEW t, ProjectionOk(t), Coherent(t), NEW v, NEW s, OrdersOk(t, v, s),
           NEW c \in Commands, Decided(t, c.id), NEW status,
           c.kind = "staged_release" => s[c.id] = 0
    PROVE  LET u == ApplyPlacement(t, c, status)
           IN  /\ Tends(t, u, v, s)
               /\ \A a \in Actions : a # c.id /\ Staged(u, a) => Staged(t, a)
               /\ c.kind # "staged_release" /\ Staged(u, c.id) => Staged(t, c.id)
<1> DEFINE u == ApplyPlacement(t, c, status)
<1>0. c.id \in Actions
  BY GatewayAssumption
<1>1. /\ u.orders = t.orders /\ u.byClient = t.byClient /\ u.actions = t.actions
      /\ \A k : k # c.id => (Staged(u, k) <=> Staged(t, k))
      /\ DOMAIN u.placements = DOMAIN t.placements \cup {c.id}
      /\ Staged(u, c.id) => Staged(t, c.id) \/ c.kind = "staged_release"
  BY PlacementFacts
<1> HIDE DEF u
<1>2. \A a \in Actions : /\ Staged(t, a) => s[a] = 0
                         /\ a \in DOMAIN t.placements => Decided(t, a)
  BY DEF OrdersOk
<1>3. \A a \in Actions : /\ Staged(u, a) => s[a] = 0
                         /\ a \in DOMAIN u.placements => Decided(u, a)
  BY <1>0, <1>1, <1>2 DEF Decided
<1>4. Tends(t, u, v, s)
  BY <1>1, <1>3 DEF Tends, OrderOf
<1> QED BY <1>1, <1>4 DEF u

(* What a submission knows, of its orders too.                                *)
LEMMA InOrders ==
    ASSUME GatewayInv, OrdersInv, NEW p \in Procs, ~At(p, "idle")
    PROVE  /\ OrdersOk(truth, venue, sent) /\ FeedOk(venue, feed)
           /\ ResultKnown(proc[p], truth, venue, sent)
  BY DEF OrdersInv

(* No order is on record under an action that is undecided.                   *)
LEMMA Unclaimed ==
    ASSUME NEW t, Coherent(t), NEW a \in Actions, ~Decided(t, a)
    PROVE  \A x \in Ours : t.byClient[x] # a
  BY DEF Coherent, Ours

(* What a rejection and an acceptance leave alone.                            *)
LEMMA RejectedKeeps ==
    ASSUME NEW t, ProjectionOk(t), NEW c \in Commands, NEW reason
    PROVE  LET u == ApplyRejected(t, c, reason)
           IN  /\ u.byClient = t.byClient /\ u.placements = t.placements
               /\ reason = "duplicate_action_id" => (Decided(t, c.id) => u = t)
               /\ \A j \in Keys : j # c.id => u.orders[j] = t.orders[j]
<1> DEFINE u == ApplyRejected(t, c, reason)
<1>1. /\ SameMaps(t, u) /\ SameButStatus(t, u, c.id)
      /\ reason = "duplicate_action_id" => (Decided(t, c.id) => u = t)
  BY RejectedFacts DEF Decided
<1> HIDE DEF u
<1>2. /\ u.byClient = t.byClient /\ u.placements = t.placements
      /\ \A j \in Keys : j # c.id => u.orders[j] = t.orders[j]
  BY <1>1 DEF SameMaps, SameButStatus
<1> QED BY <1>1, <1>2 DEF u

(* ACTION_ACCEPTED makes at most one order, accepted, under its client order  *)
(* id.                                                                        *)
LEMMA AcceptedKeeps ==
    ASSUME NEW t, ProjectionOk(t), NEW c \in Commands,
           c.type = "place" => /\ HasOrder(t, c.id) /\ t.orders[c.id].cid = c.cid
                               /\ t.byClient[c.cid] \in {NoId, c.id},
           c.type = "place" => t.owners.client[c.cid] \in {NoId, c.id}
    PROVE  LET u == ApplyAccepted(t, c)
           IN  /\ c.type # "place" => u.byClient = t.byClient
               /\ c.type = "place" => /\ u.byClient = [t.byClient EXCEPT ![c.cid] = c.id]
                                      /\ u.orders[c.id].status = "accepted"
               /\ u.placements = t.placements
               /\ \A j \in Keys : j # c.id => u.orders[j] = t.orders[j]
<1> DEFINE u == ApplyAccepted(t, c)
<1>1. /\ SameButStatus(t, u, c.id) /\ u.placements = t.placements
      /\ c.type # "place" => SameMaps(t, u)
  BY AcceptedFacts
<1>2. c.type = "place" => /\ u.byClient = [t.byClient EXCEPT ![c.cid] = c.id]
                          /\ u.orders[c.id].status = "accepted"
  BY AcceptedFacts, ZenonT(40)
<1> HIDE DEF u
<1>3. /\ c.type # "place" => u.byClient = t.byClient
      /\ \A j \in Keys : j # c.id => u.orders[j] = t.orders[j]
  BY <1>1 DEF SameMaps, SameButStatus
<1> QED BY <1>1, <1>2, <1>3 DEF u

(* Request keeps the orders remembered.                                       *)
LEMMA RequestOrders ==
    ASSUME GatewayInv, OrdersInv, Alone, NEW p \in Procs, Request(p)
    PROVE  OrdersInv'
<1> DEFINE c == proc[p].cmd
           n == [proc[p] EXCEPT !.pc = "decide"]
<1>1. /\ At(p, "request") /\ ~At(p, "idle") /\ truth' = ApplyRequested(truth, c)
      /\ proc' = [proc EXCEPT ![p] = n] /\ venue' = venue /\ feed' = feed /\ sent' = sent
  BY DEF Request, Goto, At, LeaveWorld
<1>2. /\ TypeOK /\ ProjectionOk(truth) /\ Coherent(truth) /\ c \in Commands /\ p \in c.by
      /\ c.id \in Actions /\ OrdersOk(truth, venue, sent)
  BY <1>1, InSubmission, InOrders
<1>3. n.pc = "decide"
  BY <1>1, <1>2, GotoFacts DEF Pcs
<1>4. Grows(truth, truth')
  BY RequestStep
<1>5. /\ truth'.byClient = truth.byClient /\ truth'.placements = truth.placements
      /\ c.id \in truth.requested => truth' = truth
      /\ \A j \in Keys : j # c.id => truth'.orders[j] = truth.orders[j]
  <2> HIDE DEF c
  <2> QED BY <1>1, <1>2, RequestedFacts, ZenonT(40) DEF SameMaps
<1>6. c.id \notin truth.requested => \A x \in Ours : truth.byClient[x] # c.id
  <2>1. c.id \notin truth.requested => ~Decided(truth, c.id)
    BY <1>2 DEF Coherent, Decided
  <2> QED BY <1>2, <2>1, Unclaimed
<1>7. /\ Tends(truth, truth', venue, sent)
      /\ \A a \in Actions : Staged(truth', a) => Staged(truth, a)
  <2> HIDE DEF c
  <2>1. Touches(truth, truth', venue, sent, c.id)
    BY <1>5, <1>6 DEF Touches
  <2> QED BY <1>2, <1>4, <2>1, TendsAt
<1>8. ResultKnown(n, truth', venue, sent)
  <2> HIDE DEF n
  <2> QED BY <1>3 DEF ResultKnown, Unsent, Afterwards
<1> HIDE DEF n, c
<1> QED BY <1>1, <1>2, <1>7, <1>8, OrdersSubmission

(* Reject keeps the orders remembered.                                        *)
LEMMA RejectOrders ==
    ASSUME GatewayInv, OrdersInv, Alone, NEW p \in Procs, Reject(p)
    PROVE  OrdersInv'
<1> DEFINE c == proc[p].cmd
<1>1. /\ At(p, "decide") /\ ~At(p, "idle") /\ truth' = ApplyRejected(truth, c, Why(p))
      /\ proc' = [proc EXCEPT ![p] = IdleProc] /\ venue' = venue /\ feed' = feed /\ sent' = sent
  BY DEF Reject, Return, At, LeaveWorld
<1>2. /\ TypeOK /\ ProjectionOk(truth) /\ Coherent(truth) /\ c \in Commands /\ p \in c.by
      /\ c.id \in Actions /\ OrdersOk(truth, venue, sent) /\ SubmissionOk(proc[p], truth, sent)
  BY <1>1, InSubmission, InOrders
<1>3. Grows(truth, truth')
  BY RejectStep
<1>4. Decided(truth, c.id) => Why(p) = "duplicate_action_id"
  <2>1. Decided(truth, c.id) => proc[p].view.actions[c.id] # Absent
    BY <1>1, <1>2 DEF SubmissionOk, At, Decided
  <2> QED BY <2>1 DEF Why, Rejection
<1>5. /\ truth'.byClient = truth.byClient /\ truth'.placements = truth.placements
      /\ Decided(truth, c.id) => truth' = truth
      /\ \A j \in Keys : j # c.id => truth'.orders[j] = truth.orders[j]
  <2> HIDE DEF c
  <2> QED BY <1>1, <1>2, <1>4, RejectedKeeps
<1>6. /\ Tends(truth, truth', venue, sent)
      /\ \A a \in Actions : Staged(truth', a) => Staged(truth, a)
  <2> HIDE DEF c
  <2>1. Touches(truth, truth', venue, sent, c.id)
    BY <1>2, <1>5, Unclaimed DEF Touches
  <2> QED BY <1>2, <1>3, <2>1, TendsAt
<1> HIDE DEF c
<1> QED BY <1>1, <1>2, <1>6, OrdersSubmission

(* Accept keeps the orders remembered.                                        *)
LEMMA AcceptOrders ==
    ASSUME GatewayInv, OrdersInv, Alone, NEW p \in Procs, Accept(p)
    PROVE  OrdersInv'
<1> DEFINE c == proc[p].cmd
           n == [proc[p] EXCEPT !.pc = "logical"]
<1>1. /\ At(p, "decide") /\ ~At(p, "idle") /\ truth' = ApplyAccepted(truth, c)
      /\ proc' = [proc EXCEPT ![p] = n] /\ Why(p) = "none"
      /\ venue' = venue /\ feed' = feed /\ sent' = sent
  BY DEF Accept, Goto, At, LeaveWorld
<1>2. /\ TypeOK /\ ProjectionOk(truth) /\ Coherent(truth) /\ c \in Commands /\ p \in c.by
      /\ c.id \in Actions /\ OrdersOk(truth, venue, sent) /\ SubmissionOk(proc[p], truth, sent)
      /\ c.type = "place" => c.cid \in Cids
  BY <1>1, InSubmission, InOrders
<1>3. n.pc = "logical" /\ n.cmd = c
  BY <1>1, <1>2, GotoFacts DEF Pcs
<1>4. Grows(truth, truth')
  BY AcceptStep
<1>5. /\ proc[p].view.actions[c.id] = Absent
      /\ c.type = "place" => proc[p].view.byClient[c.cid] \in {NoId, c.id}
  BY <1>1 DEF Why, Rejection, IdentifierTaken
<1>6. /\ ~Decided(truth, c.id)
      /\ c.type = "place" => /\ truth.orders[c.id].cid = c.cid /\ HasOrder(truth, c.id)
                             /\ truth.byClient[c.cid] \in {NoId, c.id}
  BY <1>1, <1>2, <1>5 DEF SubmissionOk, At, Deciding, HasOrder, Absent, Decided
<1>7. \A x \in Ours : truth.byClient[x] # c.id
  BY <1>2, <1>6, Unclaimed
<1>8. /\ c.type # "place" => truth'.byClient = truth.byClient
      /\ c.type = "place" => /\ truth'.byClient = [truth.byClient EXCEPT ![c.cid] = c.id]
                             /\ truth'.orders[c.id].status = "accepted"
      /\ truth'.placements = truth.placements
      /\ \A j \in Keys : j # c.id => truth'.orders[j] = truth.orders[j]
  <2>1. truth.owners.client = truth.byClient
    BY <1>2 DEF Coherent
  <2>2. c.type = "place" => truth.owners.client[c.cid] \in {NoId, c.id}
    BY <1>6, <2>1
  <2> HIDE DEF c
  <2> QED BY <1>1, <1>2, <1>6, <2>2, AcceptedKeeps
<1>9. \A a \in Actions : Staged(truth', a) => Staged(truth, a)
  BY <1>8 DEF Staged
<1>10. Tends(truth, truth', venue, sent)
  <2> HIDE DEF c
  <2>1. \A a \in Actions : /\ Staged(truth', a) => sent[a] = 0
                           /\ a \in DOMAIN truth'.placements => Decided(truth', a)
    BY <1>2, <1>4, <1>8, <1>9 DEF OrdersOk, Grows
  <2>2. CASE c.type # "place"
    <3>1. \A x \in Ours : truth.byClient[x] # NoId => OrderOf(truth', x) = OrderOf(truth, x)
      BY <1>2, <1>7, <1>8, <2>2 DEF OrderOf, ProjectionOk, Ours
    <3> QED BY <1>8, <2>1, <2>2, <3>1 DEF Tends
  <2>3. CASE c.type = "place"
    <3>0. c.cid \in Ours /\ truth.byClient \in [Cids -> Keys \cup {NoId}]
      BY <1>2, <2>3, GatewayAssumption DEF Ours, Places, ProjectionOk
    <3>1. truth.byClient[c.cid] = NoId /\ truth'.byClient[c.cid] = c.id
      BY <1>6, <1>7, <1>8, <2>3, <3>0 DEF Ours
    <3>2. \A x \in Ours : x # c.cid => truth'.byClient[x] = truth.byClient[x]
      BY <1>8, <2>3, <3>0 DEF Ours
    <3>3. \A x \in Ours : x # c.cid /\ truth.byClient[x] # NoId => OrderOf(truth', x) = OrderOf(truth, x)
      BY <1>7, <1>8, <3>0, <3>2 DEF OrderOf, Ours
    <3>4. OrderOf(truth', c.cid).status = "accepted"
      BY <1>8, <2>3, <3>1 DEF OrderOf
    <3> QED BY <1>2, <2>1, <3>0, <3>1, <3>2, <3>3, <3>4 DEF Tends
  <2> QED BY <2>2, <2>3
<1>11. ResultKnown(n, truth', venue, sent)
  <2>1. ~Staged(truth', c.id)
    BY <1>2, <1>6, <1>9 DEF OrdersOk, Staged
  <2> HIDE DEF n, c
  <2> QED BY <1>3, <2>1 DEF ResultKnown, Unsent, Afterwards
<1> HIDE DEF n, c
<1> QED BY <1>1, <1>2, <1>9, <1>10, <1>11, OrdersSubmission

(* RecordLogical keeps the orders remembered.                                 *)
LEMMA RecordLogicalOrders ==
    ASSUME GatewayInv, OrdersInv, Alone, NEW p \in Procs, RecordLogical(p)
    PROVE  OrdersInv'
<1> DEFINE c == proc[p].cmd
           x == IF c.kind = "staged_release" THEN "stage" ELSE "start"
           n == [proc[p] EXCEPT !.view = Empty, !.pc = x]
<1>1. /\ At(p, "logical") /\ ~At(p, "idle") /\ truth' \in {truth, ApplyLogical(truth, c)}
      /\ proc' = [proc EXCEPT ![p].view = Empty, ![p].pc = x]
      /\ venue' = venue /\ feed' = feed /\ sent' = sent
  BY DEF RecordLogical, At, LeaveWorld
<1>2. /\ TypeOK /\ ProjectionOk(truth) /\ Coherent(truth) /\ c \in Commands /\ p \in c.by
      /\ OrdersOk(truth, venue, sent) /\ ResultKnown(proc[p], truth, venue, sent)
      /\ c.id \in Actions
  BY <1>1, InSubmission, InOrders
<1>3. proc' = [proc EXCEPT ![p] = n] /\ n.pc = x /\ n.cmd = c
  <2>1. proc = [q \in Procs |-> [pc |-> proc[q].pc, cmd |-> proc[q].cmd,
                                 view |-> proc[q].view, result |-> proc[q].result]]
    BY <1>2 DEF TypeOK
  <2> HIDE DEF x
  <2>2. proc' = [proc EXCEPT ![p] = n]
    BY <1>1, <2>1
  <2>3. n.pc = x /\ n.cmd = c
    <3>1. proc[p] = [pc |-> proc[p].pc, cmd |-> proc[p].cmd,
                     view |-> proc[p].view, result |-> proc[p].result]
      BY <2>1
    <3> QED BY <3>1
  <2> QED BY <2>2, <2>3
<1>4. Grows(truth, truth')
  BY RecordLogicalStep
<1>5. Touches(truth, truth', venue, sent, c.id)
  <2>1. /\ truth'.byClient = truth.byClient /\ truth'.placements = truth.placements
        /\ truth'.orders = truth.orders
    <3> HIDE DEF c
    <3> QED BY <1>1, <1>2, LogicalFacts DEF SameMaps
  <2> QED BY <2>1 DEF Touches
<1>6. /\ Tends(truth, truth', venue, sent)
      /\ \A a \in Actions : Staged(truth', a) => Staged(truth, a)
  <2> HIDE DEF c
  <2> QED BY <1>2, <1>4, <1>5, TendsAt
<1>7. ResultKnown(n, truth', venue, sent)
  <2>1. ~Staged(truth', c.id)
    BY <1>1, <1>2, <1>6 DEF ResultKnown, At, Unsent
  <2>2. x \in {"stage", "start"} /\ (x = "start" => c.kind # "staged_release")
    OBVIOUS
  <2> HIDE DEF n, c, x
  <2> QED BY <1>3, <2>1, <2>2 DEF ResultKnown, Unsent, Afterwards
<1> HIDE DEF n, c
<1> QED BY <1>2, <1>1, <1>3, <1>6, <1>7, OrdersSubmission

(* RecordStaged keeps the orders remembered.                                  *)
LEMMA RecordStagedOrders ==
    ASSUME GatewayInv, OrdersInv, Alone, NEW p \in Procs, RecordStaged(p)
    PROVE  OrdersInv'
<1> DEFINE c == proc[p].cmd
<1>1. /\ At(p, "stage") /\ ~At(p, "idle") /\ truth' = ApplyPlacement(truth, c, "staged")
      /\ proc' = [proc EXCEPT ![p] = IdleProc] /\ venue' = venue /\ feed' = feed /\ sent' = sent
  BY DEF RecordStaged, Return, At, LeaveWorld
<1>2. /\ ProjectionOk(truth) /\ Coherent(truth) /\ c \in Commands /\ p \in c.by
      /\ OrdersOk(truth, venue, sent) /\ SubmissionOk(proc[p], truth, sent)
  BY <1>1, InSubmission, InOrders
<1>3. Decided(truth, c.id) /\ sent[c.id] = 0
  BY <1>1, <1>2 DEF SubmissionOk, At, Unsent
<1> HIDE DEF c
<1>4. /\ Tends(truth, truth', venue, sent)
      /\ \A a \in Actions : a # c.id /\ Staged(truth', a) => Staged(truth, a)
  BY <1>1, <1>2, <1>3, TendsPlaced
<1> QED BY <1>1, <1>2, <1>4, OrdersSubmission

(* Start keeps the orders remembered.                                         *)
LEMMA StartOrders ==
    ASSUME GatewayInv, OrdersInv, Alone, NEW p \in Procs, Start(p)
    PROVE  OrdersInv'
<1> DEFINE c == proc[p].cmd
           n == [proc[p] EXCEPT !.pc = "execute"]
<1>1. /\ At(p, "start") /\ ~At(p, "idle") /\ truth' = ApplyStarted(truth, c)
      /\ proc' = [proc EXCEPT ![p] = n] /\ venue' = venue /\ feed' = feed /\ sent' = sent
  BY DEF Start, Goto, At, LeaveWorld
<1>2. /\ TypeOK /\ ProjectionOk(truth) /\ Coherent(truth) /\ c \in Commands /\ p \in c.by
      /\ OrdersOk(truth, venue, sent) /\ ResultKnown(proc[p], truth, venue, sent)
      /\ c.id \in Actions
  BY <1>1, InSubmission, InOrders
<1>3. n.pc = "execute" /\ n.cmd = c
  BY <1>1, <1>2, GotoFacts DEF Pcs
<1>4. Grows(truth, truth')
  BY StartStep
<1>5. Touches(truth, truth', venue, sent, c.id)
  <2> HIDE DEF c
  <2>1. /\ SameMaps(truth, truth') /\ SameButStatus(truth, truth', c.id)
        /\ truth'.orders[c.id].status = truth.orders[c.id].status
    BY <1>1, <1>2, StartedFacts
  <2> QED BY <2>1 DEF Touches, SameMaps, SameButStatus
<1>6. /\ Tends(truth, truth', venue, sent)
      /\ \A a \in Actions : Staged(truth', a) => Staged(truth, a)
  <2> HIDE DEF c
  <2> QED BY <1>2, <1>4, <1>5, TendsAt
<1>7. ResultKnown(n, truth', venue, sent)
  <2>1. ~Staged(truth', c.id) /\ c.kind # "staged_release"
    BY <1>1, <1>2, <1>6 DEF ResultKnown, At, Unsent
  <2> HIDE DEF n, c
  <2> QED BY <1>3, <2>1 DEF ResultKnown, Unsent, Afterwards
<1> HIDE DEF n, c
<1> QED BY <1>2, <1>1, <1>3, <1>6, <1>7, OrdersSubmission

(* Begin keeps the orders remembered.                                         *)
LEMMA BeginOrders ==
    ASSUME GatewayInv, OrdersInv, Alone, NEW p \in Procs, NEW c \in Commands, Begin(p, c)
    PROVE  OrdersInv'
<1> DEFINE n == [pc |-> "request", cmd |-> c, view |-> truth, result |-> NoResult]
<1>1. /\ p \in c.by /\ proc' = [proc EXCEPT ![p] = n]
      /\ truth' = truth /\ venue' = venue /\ feed' = feed /\ sent' = sent
  BY DEF Begin
<1>2. ProjectionOk(truth) /\ Coherent(truth) /\ OrdersOk(truth, venue, sent)
  BY DEF GatewayInv, TypeOK, OrdersInv
<1>3. n.pc = "request"
  OBVIOUS
<1> HIDE DEF n
<1>4. ResultKnown(n, truth', venue, sent)
  BY <1>3 DEF ResultKnown, Unsent, Afterwards
<1>5. Tends(truth, truth', venue, sent) /\ \A a \in Actions : Staged(truth', a) => Staged(truth, a)
  BY <1>1, <1>2, TendsSame
<1> QED BY <1>1, <1>4, <1>5, OrdersSubmission

(* Abandon keeps the orders remembered.                                       *)
LEMMA AbandonOrders ==
    ASSUME GatewayInv, OrdersInv, Alone, NEW p \in Procs, Abandon(p)
    PROVE  OrdersInv'
<1>1. /\ ~At(p, "idle") /\ proc' = [proc EXCEPT ![p] = IdleProc]
      /\ truth' = truth /\ venue' = venue /\ feed' = feed /\ sent' = sent
  BY DEF Abandon, Return, LeaveWorld
<1>2. /\ ProjectionOk(truth) /\ Coherent(truth) /\ OrdersOk(truth, venue, sent)
      /\ proc[p].cmd \in Commands /\ p \in proc[p].cmd.by
  BY <1>1, InSubmission, InOrders
<1>3. Tends(truth, truth', venue, sent) /\ \A a \in Actions : Staged(truth', a) => Staged(truth, a)
  BY <1>1, <1>2, TendsSame
<1> QED BY <1>1, <1>2, <1>3, OrdersSubmission

(* A step to x of a submission that has called the executor.                  *)
LEMMA AfterwardsOrders ==
    ASSUME GatewayInv, OrdersInv, Alone, NEW p \in Procs, proc[p].pc \in Afterwards,
           NEW x \in Afterwards, Goto(p, x), LeaveWorld, x # "settle",
           x \in {"executed", "fail_result"} => proc[p].pc = "settle",
           Tends(truth, truth', venue, sent),
           \A a \in Actions : a # proc[p].cmd.id /\ Staged(truth', a) => Staged(truth, a)
    PROVE  OrdersInv'
<1> DEFINE c == proc[p].cmd
           n == [proc[p] EXCEPT !.pc = x]
<1>1. /\ ~At(p, "idle") /\ x \in Pcs \ {"idle"} /\ proc' = [proc EXCEPT ![p] = n]
      /\ venue' = venue /\ feed' = feed /\ sent' = sent
  BY DEF At, Afterwards, Pcs, Goto, LeaveWorld
<1>2. /\ TypeOK /\ c \in Commands /\ p \in c.by /\ ResultKnown(proc[p], truth, venue, sent)
  BY <1>1, InSubmission, InOrders
<1>3. n.pc = x /\ n.cmd = c /\ n.result = proc[p].result
  BY <1>1, <1>2, GotoFacts
<1>4. x \notin Unsent /\ x \notin {"start", "execute"}
  BY DEF Unsent, Afterwards
<1> HIDE DEF n
<1>5. ResultKnown(n, truth', venue, sent)
  BY <1>2, <1>3, <1>4 DEF ResultKnown
<1> HIDE DEF c
<1>6. \A a \in Actions : a # c.id /\ Staged(truth', a) => Staged(truth, a)
  BY DEF c
<1> QED BY <1>1, <1>2, <1>5, <1>6, OrdersSubmission

(* Settle keeps the orders remembered.                                        *)
LEMMA SettleOrders ==
    ASSUME GatewayInv, OrdersInv, Alone, NEW p \in Procs, Settle(p)
    PROVE  OrdersInv'
<1> DEFINE x == CASE ~ResultOk(proc[p].cmd, proc[p].result) -> "error"
                  [] proc[p].result.status \in {"rejected", "failed"} -> "fail_result"
                  [] OTHER -> "executed"
<1>1. At(p, "settle") /\ ~At(p, "idle") /\ Goto(p, x) /\ truth' = truth /\ LeaveWorld
  BY DEF Settle, At
<1>2. x \in {"error", "fail_result", "executed"}
  OBVIOUS
<1>3. /\ ProjectionOk(truth) /\ Coherent(truth) /\ OrdersOk(truth, venue, sent)
  BY <1>1, InSubmission, InOrders
<1>4. Tends(truth, truth', venue, sent) /\ \A a \in Actions : Staged(truth', a) => Staged(truth, a)
  BY <1>1, <1>3, TendsSame
<1> HIDE DEF x
<1>5. proc[p].pc = "settle" /\ proc[p].pc \in Afterwards /\ x \in Afterwards /\ x # "settle"
  BY <1>1, <1>2 DEF At, Afterwards
<1> QED BY <1>1, <1>4, <1>5, AfterwardsOrders

(* RecordError keeps the orders remembered.                                   *)
LEMMA RecordErrorOrders ==
    ASSUME GatewayInv, OrdersInv, Alone, NEW p \in Procs, RecordError(p)
    PROVE  OrdersInv'
<1> DEFINE c == proc[p].cmd
           n == [proc[p] EXCEPT !.pc = "fail", !.result = NoResult]
<1>1. /\ At(p, "error") /\ ~At(p, "idle") /\ truth' = truth
      /\ venue' = venue /\ feed' = feed /\ sent' = sent
      /\ proc' = [proc EXCEPT ![p].pc = "fail", ![p].result = NoResult]
  BY DEF RecordError, At, LeaveWorld
<1>2. /\ TypeOK /\ ProjectionOk(truth) /\ Coherent(truth) /\ c \in Commands /\ p \in c.by
      /\ OrdersOk(truth, venue, sent) /\ ResultKnown(proc[p], truth, venue, sent)
  BY <1>1, InSubmission, InOrders
<1>3. proc' = [proc EXCEPT ![p] = n] /\ n.pc = "fail" /\ n.cmd = c
  <2>1. proc = [q \in Procs |-> [pc |-> proc[q].pc, cmd |-> proc[q].cmd,
                                 view |-> proc[q].view, result |-> proc[q].result]]
    BY <1>2 DEF TypeOK
  <2>2. proc' = [proc EXCEPT ![p] = n]
    BY <1>1, <2>1
  <2>3. n.pc = "fail" /\ n.cmd = c
    <3>1. proc[p] = [pc |-> proc[p].pc, cmd |-> proc[p].cmd,
                     view |-> proc[p].view, result |-> proc[p].result]
      BY <2>1
    <3> QED BY <3>1
  <2> QED BY <2>2, <2>3
<1>4. Tends(truth, truth', venue, sent) /\ \A a \in Actions : Staged(truth', a) => Staged(truth, a)
  BY <1>1, <1>2, TendsSame
<1>5. ResultKnown(n, truth', venue, sent)
  <2>1. c.kind # "staged_release" /\ sent[c.id] = 1
    BY <1>1, <1>2 DEF ResultKnown, At, Afterwards
  <2> HIDE DEF n, c
  <2> QED BY <1>3, <2>1 DEF ResultKnown, Unsent, Afterwards
<1> HIDE DEF n, c
<1> QED BY <1>1, <1>2, <1>3, <1>4, <1>5, OrdersSubmission

(* What the records of the try block leave alone, and set.                    *)
LEMMA PlacedKeeps ==
    ASSUME NEW t, ProjectionOk(t), Coherent(t), NEW c \in Commands, c.type = "place",
           t.byClient[c.cid] = c.id
    PROVE  LET u == ApplyExecuted(t, c, Success(c))
           IN  /\ u.placements = t.placements
               /\ u.byClient = t.byClient
               /\ \A j \in Keys : j # c.id => u.orders[j] = t.orders[j]
               /\ u.orders[c.id].status = "open"
               /\ u.orders[c.id].cid = c.cid
<1> DEFINE u == ApplyExecuted(t, c, PlaceResult(c, "accepted"))
<1>0. c.cid \in Cids /\ t.byClient \in [Cids -> Keys \cup {NoId}]
  BY GatewayAssumption DEF Places, ProjectionOk
<1>1. t.owners.client[c.cid] \in {NoId, c.id} /\ t.owners.exchange[c.cid] \in {NoId, c.id}
  BY <1>0 DEF Coherent
<1>2. Success(c) = PlaceResult(c, "accepted")
  BY DEF Success
<1>3. /\ ProjectionOk(u)
      /\ u.requested = t.requested /\ u.placements = t.placements
      /\ u.actions = [t.actions EXCEPT ![c.id] = "executed"]
      /\ u.byClient = [t.byClient EXCEPT ![c.cid] = c.id]
      /\ u.byExchange = [t.byExchange EXCEPT ![c.cid] = c.id]
      /\ u.owners.client = [t.owners.client EXCEPT ![c.cid] = c.id]
      /\ u.owners.exchange = [t.owners.exchange EXCEPT ![c.cid] = c.id]
      /\ u.owners.collision = t.owners.collision
      /\ \A j \in Keys : j # c.id => u.orders[j] = t.orders[j]
      /\ u.orders[c.id].cid = c.cid /\ u.orders[c.id].xid = c.cid
      /\ u.orders[c.id].status = "open" /\ u.orders[c.id].result = "accepted"
  BY <1>1, PlacedFacts
<1>4. u.byClient = t.byClient
  <2> HIDE DEF u
  <2> QED BY <1>0, <1>3
<1> QED BY <1>2, <1>3, <1>4

(* ACTION_EXECUTED of a cancellation changes at most the order it names.      *)
LEMMA CancelledKeeps ==
    ASSUME NEW t, ProjectionOk(t), NEW c \in Commands, c.type # "place"
    PROVE  LET u == ApplyExecuted(t, c, Success(c))
               k == t.byExchange[c.target]
           IN  /\ u.byClient = t.byClient /\ u.placements = t.placements
               /\ \A j \in Keys : k = NoId \/ j # k => u.orders[j] = t.orders[j]
               /\ k # NoId => u.orders[k].status = "cancelled"
<1> DEFINE u == ApplyExecuted(t, c, CancelResult(c, "cancelled"))
           k == t.byExchange[c.target]
<1>1. Success(c) = CancelResult(c, "cancelled")
  BY DEF Success
<1>2. /\ ProjectionOk(u) /\ SameMaps(t, u)
      /\ u.requested = t.requested
      /\ u.actions = [t.actions EXCEPT ![c.id] = "executed"]
      /\ \A j \in Keys : k = NoId \/ j # k => u.orders[j] = t.orders[j]
      /\ k # NoId => /\ u.orders[k].cid = t.orders[k].cid
                     /\ u.orders[k].xid = t.orders[k].xid
                     /\ u.orders[k].status = "cancelled"
                     /\ u.orders[k].result = "cancelled"
  BY CancelledFacts
<1> QED BY <1>1, <1>2 DEF SameMaps

(* ACTION_FAILED changes at most its own order.                               *)
LEMMA FailedKeeps ==
    ASSUME NEW t, ProjectionOk(t), Coherent(t), NEW c \in Commands,
           c.type = "place" => t.byClient[c.cid] = c.id,
           NEW r \in {NoResult, Failure(c, "rejected"), Failure(c, "failed")}
    PROVE  LET u == ApplyFailed(t, c, r)
           IN  /\ u.byClient = t.byClient /\ u.placements = t.placements
               /\ \A j \in Keys : j # c.id => u.orders[j] = t.orders[j]
               /\ c.type = "place" => t.orders[c.id].cid = c.cid
               /\ c.type # "place" \/ ~HasOrder(t, c.id) => u.orders[c.id] = t.orders[c.id]
               /\ c.type = "place" /\ HasOrder(t, c.id) =>
                    IF r = NoResult THEN u.orders[c.id].status = "execution_unknown"
                    ELSE u.orders[c.id].status = r.status /\ u.orders[c.id].result = r.status
<1> DEFINE u == ApplyFailed(t, c, r)
<1>0. c.id \in Actions /\ (c.type = "place" => c.cid \in Cids) /\ NoId \notin Actions
  BY GatewayAssumption DEF Places
<1>1. c.type = "place" => t.orders[c.id].cid = c.cid
  BY <1>0 DEF Coherent
<1>2. c.type = "place" => t.byClient[c.cid] = c.id /\ t.orders[c.id].cid = c.cid
  BY <1>1
<1>3. /\ ProjectionOk(u)
      /\ u.requested = t.requested /\ u.placements = t.placements
      /\ u.owners = t.owners /\ u.byClient = t.byClient
      /\ u.byExchange \in {t.byExchange, Given(t.byExchange, t.orders[c.id].xid, c.id)}
      /\ u.actions = [t.actions EXCEPT ![c.id] = "failed"]
      /\ \A j \in Keys : j # c.id => u.orders[j] = t.orders[j]
      /\ u.orders[c.id].cid = t.orders[c.id].cid /\ u.orders[c.id].xid = t.orders[c.id].xid
      /\ c.type # "place" \/ ~HasOrder(t, c.id) => u.orders[c.id] = t.orders[c.id]
      /\ c.type = "place" /\ HasOrder(t, c.id) =>
           IF r = NoResult THEN /\ u.orders[c.id].status = "execution_unknown"
                                /\ u.orders[c.id].result = t.orders[c.id].result
           ELSE /\ u.orders[c.id].status = r.status
                /\ u.orders[c.id].result = r.status
  BY <1>2, FailedFacts
<1> QED BY <1>1, <1>3

(* The records of the try block keep what counts of the orders.               *)
LEMMA PlacedTends ==
    ASSUME NEW t, ProjectionOk(t), Coherent(t), NEW c \in Commands, c.type = "place",
           t.byClient[c.cid] = c.id, NEW v, NEW s, s[c.id] = 1
    PROVE  Touches(t, ApplyExecuted(t, c, Success(c)), v, s, c.id)
<1> DEFINE u == ApplyExecuted(t, c, Success(c))
<1>1. /\ u.placements = t.placements
      /\ u.byClient = t.byClient
      /\ \A j \in Keys : j # c.id => u.orders[j] = t.orders[j]
      /\ u.orders[c.id].status = "open"
      /\ u.orders[c.id].cid = c.cid
  BY PlacedKeeps
<1> HIDE DEF u
<1>2. Touches(t, u, v, s, c.id)
  BY <1>1 DEF Touches, Remembered, LiveStatuses
<1> QED BY <1>2 DEF u

(* A cancellation that took effect may close its order.                       *)
LEMMA CancelledTends ==
    ASSUME NEW t, ProjectionOk(t), Coherent(t), NEW c \in Commands, c.type # "place",
           NEW v, NEW s, OrdersOk(t, v, s), v[c.target] \notin {"none", "open"}
    PROVE  \E k : Touches(t, ApplyExecuted(t, c, Success(c)), v, s, k)
<1> DEFINE u == ApplyExecuted(t, c, Success(c))
           k == t.byExchange[c.target]
<1>0. c.target \in Cids /\ k \in Keys \cup {NoId} /\ NoId \notin Keys
  BY GatewayAssumption DEF ProjectionOk, Keys
<1>2. /\ u.byClient = t.byClient /\ u.placements = t.placements
      /\ \A j \in Keys : k = NoId \/ j # k => u.orders[j] = t.orders[j]
      /\ k # NoId => u.orders[k].status = "cancelled"
  BY CancelledKeeps
<1>3. k \in {NoId, t.byClient[c.target]}
  BY <1>0 DEF Coherent
<1> HIDE DEF u, k
<1>4. ASSUME NEW x \in Ours, t.byClient[x] = k, k # NoId
      PROVE  s[k] = 1 /\ v[x] # "open"
  <2>1. t.byClient[c.target] = k /\ x \in Cids
    BY <1>3, <1>4 DEF Ours
  <2>2. t.orders[k].cid = x /\ t.orders[k].cid = c.target
    BY <1>0, <1>4, <2>1 DEF Coherent
  <2> QED BY <1>4, <2>2 DEF OrdersOk
<1>5. CASE k # NoId
  <2>1. Touches(t, u, v, s, k)
    BY <1>2, <1>4, <1>5 DEF Touches
  <2> QED BY <2>1 DEF u
<1>6. CASE k = NoId
  <2>1. \A j \in Keys : u.orders[j] = t.orders[j]
    BY <1>2, <1>6
  <2>2. Touches(t, u, v, s, c.id)
    <3>1. c.id \in Keys
      BY GatewayAssumption DEF Keys
    <3> QED BY <1>2, <2>1, <3>1 DEF Touches
  <2> QED BY <2>2 DEF u
<1> QED BY <1>5, <1>6

(* A failure closes its order only if the venue does not have it, or may hide *)
(* an effect.                                                                 *)
LEMMA FailedTends ==
    ASSUME NEW t, ProjectionOk(t), Coherent(t), NEW c \in Commands,
           c.type = "place" => t.byClient[c.cid] = c.id,
           NEW r \in {NoResult, Failure(c, "rejected"), Failure(c, "failed")},
           NEW v, NEW s, s[c.id] = 1,
           c.type = "place" /\ r = Failure(c, "rejected") => v[c.cid] = "none",
           c.type = "place" /\ r = Failure(c, "failed") => AmbiguousFailures \/ v[c.cid] = "none"
    PROVE  Touches(t, ApplyFailed(t, c, r), v, s, c.id)
<1> DEFINE u == ApplyFailed(t, c, r)
<1>0. c.id \in Actions /\ (c.type = "place" => c.cid \in Cids) /\ NoId \notin Actions
  BY GatewayAssumption DEF Places
<1>1. /\ u.byClient = t.byClient /\ u.placements = t.placements
      /\ \A j \in Keys : j # c.id => u.orders[j] = t.orders[j]
      /\ c.type = "place" => t.orders[c.id].cid = c.cid
      /\ c.type # "place" \/ ~HasOrder(t, c.id) => u.orders[c.id] = t.orders[c.id]
      /\ c.type = "place" /\ HasOrder(t, c.id) =>
           IF r = NoResult THEN u.orders[c.id].status = "execution_unknown"
           ELSE u.orders[c.id].status = r.status /\ u.orders[c.id].result = r.status
  BY FailedKeeps
<1> HIDE DEF u
<1>3. ASSUME NEW x \in Ours, t.byClient[x] = c.id, c.type = "place", HasOrder(t, c.id)
      PROVE  v[x] = "open" => Remembered(u.orders[c.id])
  <2>1. x = c.cid
    BY <1>0, <1>1, <1>3 DEF Coherent, Ours
  <2>2. CASE r = NoResult
    BY <1>1, <1>3, <2>2 DEF Remembered, LiveStatuses
  <2>3. CASE r = Failure(c, "rejected")
    BY <1>3, <2>1, <2>3
  <2>4. CASE r = Failure(c, "failed")
    <3>1. r # NoResult /\ r.status = "failed"
      BY <1>3, <2>4 DEF Failure, PlaceResult, NoResult
    <3> QED BY <1>1, <1>3, <2>1, <2>4, <3>1 DEF Remembered
  <2> QED BY <2>2, <2>3, <2>4
<1>4. Touches(t, u, v, s, c.id)
  BY <1>1, <1>3 DEF Touches
<1> QED BY <1>4 DEF u

(* The result record tends the orders.                                        *)
LEMMA RecordTends ==
    ASSUME GatewayInv, OrdersInv, NEW p \in Procs, InTry(p)
    PROVE  /\ Tends(truth, AfterRecord(p), venue, sent)
           /\ \A a \in Actions : a # proc[p].cmd.id /\ Staged(AfterRecord(p), a) => Staged(truth, a)
<1> DEFINE c == proc[p].cmd
           r == proc[p].result
           u == AfterRecord(p)
<1>1. ~At(p, "idle") /\ proc[p].pc \in Afterwards
  BY DEF InTry, At, Afterwards
<1>2. /\ TypeOK /\ ProjectionOk(truth) /\ Coherent(truth) /\ c \in Commands
      /\ SubmissionOk(proc[p], truth, sent) /\ ResultKnown(proc[p], truth, venue, sent)
      /\ OrdersOk(truth, venue, sent)
  BY <1>1, InSubmission, InOrders
<1>3. /\ Decided(truth, c.id) /\ sent[c.id] = 1 /\ c.kind # "staged_release"
      /\ c.type = "place" => truth.byClient[c.cid] = c.id
  BY <1>1, <1>2 DEF SubmissionOk, ResultKnown
<1>4. Grows(truth, u)
  BY RecordMoves DEF Moves
<1>5. CASE At(p, "executed")
  <2>1. r = Success(c)
    BY <1>2, <1>5 DEF SubmissionOk, At
  <2>2. u = ApplyExecuted(truth, c, Success(c))
    BY <1>5, <2>1 DEF AfterRecord, At
  <2>3. c.type # "place" => venue[c.target] \notin {"none", "open"}
    BY <1>2, <1>5, <2>1 DEF ResultKnown, At
  <2> HIDE DEF c, u
  <2>4. \E k : Touches(truth, u, venue, sent, k)
    <3>1. CASE c.type = "place"
      BY <1>2, <1>3, <2>2, <3>1, PlacedTends
    <3>2. CASE c.type # "place"
      BY <1>2, <2>2, <2>3, <3>2, CancelledTends
    <3> QED BY <3>1, <3>2
  <2>5. /\ Tends(truth, u, venue, sent)
        /\ \A a \in Actions : Staged(u, a) => Staged(truth, a)
    BY <1>2, <1>4, <2>4, TendsAt
  <2> QED BY <2>5 DEF u
<1>6. CASE At(p, "placement")
  <2>1. u = ApplyPlacement(truth, c, "accepted")
    BY <1>6 DEF AfterRecord, AfterPlacement, At
  <2> HIDE DEF c, u
  <2>2. /\ Tends(truth, u, venue, sent)
        /\ \A a \in Actions : a # c.id /\ Staged(u, a) => Staged(truth, a)
    BY <1>2, <1>3, <2>1, TendsPlaced
  <2> QED BY <2>2 DEF u, c
<1>7. CASE At(p, "fail_result")
  <2>1. /\ r \in {NoResult, Failure(c, "rejected"), Failure(c, "failed")}
        /\ c.type = "place" /\ r = Failure(c, "rejected") => venue[c.cid] = "none"
    BY <1>2, <1>7 DEF SubmissionOk, At, ResultKnown
  <2>2. c.type = "place" /\ r = Failure(c, "failed") => AmbiguousFailures \/ venue[c.cid] = "none"
    BY <1>2, <1>7 DEF SubmissionOk, At, ResultKnown
  <2>3. u = ApplyFailed(truth, c, r)
    BY <1>7 DEF AfterRecord, At
  <2> HIDE DEF c, u, r
  <2>4. Touches(truth, u, venue, sent, c.id)
    BY <1>2, <1>3, <2>1, <2>2, <2>3, FailedTends
  <2>5. /\ Tends(truth, u, venue, sent)
        /\ \A a \in Actions : Staged(u, a) => Staged(truth, a)
    BY <1>2, <1>4, <2>4, TendsAt
  <2> QED BY <2>5 DEF u
<1> QED BY <1>5, <1>6, <1>7 DEF InTry, At

(* Record keeps the orders remembered.                                        *)
LEMMA RecordOrders ==
    ASSUME GatewayInv, OrdersInv, Alone, NEW p \in Procs, Record(p)
    PROVE  OrdersInv'
<1>1. /\ InTry(p) /\ truth' = AfterRecord(p) /\ LeaveWorld
      /\ proc[p].pc \in Afterwards /\ ~At(p, "idle")
  BY DEF Record, InTry, Afterwards, At
<1>2. /\ Tends(truth, truth', venue, sent)
      /\ \A a \in Actions : a # proc[p].cmd.id /\ Staged(truth', a) => Staged(truth, a)
  BY <1>1, RecordTends
<1>3. CASE At(p, "executed") /\ Goto(p, "placement")
  <2>1. "placement" \in Afterwards
    BY DEF Afterwards
  <2> QED BY <1>1, <1>2, <1>3, <2>1, AfterwardsOrders
<1>4. CASE Return(p)
  <2>1. proc[p].cmd \in Commands /\ p \in proc[p].cmd.by
    BY <1>1, InSubmission
  <2>2. proc' = [proc EXCEPT ![p] = IdleProc] /\ venue' = venue /\ feed' = feed /\ sent' = sent
    BY <1>1, <1>4 DEF Return, LeaveWorld
  <2> QED BY <1>2, <2>1, <2>2, OrdersSubmission
<1> QED BY <1>3, <1>4 DEF Record

(* RecordRaises keeps the orders remembered.                                  *)
LEMMA RecordRaisesOrders ==
    ASSUME GatewayInv, OrdersInv, Alone, NEW p \in Procs, RecordRaises(p)
    PROVE  OrdersInv'
<1>1. /\ InTry(p) /\ truth' \in {truth, AfterRecord(p)} /\ LeaveWorld /\ Goto(p, "error")
      /\ proc[p].pc \in Afterwards /\ ~At(p, "idle") /\ "error" \in Afterwards
  BY DEF RecordRaises, InTry, Afterwards, At
<1>2. ProjectionOk(truth) /\ Coherent(truth) /\ OrdersOk(truth, venue, sent)
  BY <1>1, InSubmission, InOrders
<1>3. /\ Tends(truth, truth', venue, sent)
      /\ \A a \in Actions : a # proc[p].cmd.id /\ Staged(truth', a) => Staged(truth, a)
  BY <1>1, <1>2, RecordTends, TendsSame
<1> QED BY <1>1, <1>3, AfterwardsOrders

(* Fail keeps the orders remembered.                                          *)
LEMMA FailOrders ==
    ASSUME GatewayInv, OrdersInv, Alone, NEW p \in Procs, Fail(p)
    PROVE  OrdersInv'
<1> DEFINE c == proc[p].cmd
<1>1. /\ At(p, "fail") /\ ~At(p, "idle") /\ truth' = ApplyFailed(truth, c, NoResult)
      /\ proc' = [proc EXCEPT ![p] = IdleProc] /\ venue' = venue /\ feed' = feed /\ sent' = sent
  BY DEF Fail, Return, At, LeaveWorld
<1>2. /\ ProjectionOk(truth) /\ Coherent(truth) /\ c \in Commands /\ p \in c.by
      /\ SubmissionOk(proc[p], truth, sent) /\ ResultKnown(proc[p], truth, venue, sent)
      /\ OrdersOk(truth, venue, sent)
  BY <1>1, InSubmission, InOrders
<1>3. sent[c.id] = 1 /\ (c.type = "place" => truth.byClient[c.cid] = c.id)
  BY <1>1, <1>2 DEF SubmissionOk, ResultKnown, At, Afterwards
<1>4. Grows(truth, truth')
  BY FailStep
<1> HIDE DEF c
<1>5. c.type = "place" => NoResult # Failure(c, "rejected") /\ NoResult # Failure(c, "failed")
  BY DEF NoResult, Failure, PlaceResult
<1>6. Touches(truth, truth', venue, sent, c.id)
  BY <1>1, <1>2, <1>3, <1>5, FailedTends
<1>7. /\ Tends(truth, truth', venue, sent)
      /\ \A a \in Actions : Staged(truth', a) => Staged(truth, a)
  BY <1>2, <1>4, <1>6, TendsAt
<1> QED BY <1>1, <1>2, <1>7, OrdersSubmission

(* An update leaves what is under our client order ids alone, but for the     *)
(* order it is about.                                                         *)
LEMMA UpdateTends ==
    ASSUME NEW t, ProjectionOk(t), Coherent(t), NEW u \in Updates, u.xid = u.cid,
           u.cid \in ExternalCids \/ t.byClient[u.cid] # NoId,
           NEW v, NEW s, OrdersOk(t, v, s),
           v[u.cid] # "none", u.status # "open" => v[u.cid] # "open"
    PROVE  \E k : Touches(t, ApplyUpdate(t, u), v, s, k)
<1> DEFINE q == ApplyUpdate(t, u)
           x == u.cid
           k == IF t.byClient[x] = NoId THEN x ELSE t.byClient[x]
<1>0. /\ x \in Cids /\ x \in Keys /\ NoId \notin Keys /\ (x \in ExternalCids => x \notin Actions)
      /\ t.byClient \in [Cids -> Keys \cup {NoId}]
  BY GatewayAssumption DEF Keys, Updates, ProjectionOk
<1>a. Applied(t, q, u, k)
  BY UpdateFacts
<1>1. /\ ProjectionOk(q) /\ k \in Keys
      /\ q.requested = t.requested /\ q.placements = t.placements
      /\ q.actions = t.actions
      /\ q.byClient = [t.byClient EXCEPT ![x] = k]
      /\ q.byExchange = [t.byExchange EXCEPT ![x] = k]
      /\ q.owners.client = [t.owners.client EXCEPT ![x] = k]
      /\ q.owners.exchange = [t.owners.exchange EXCEPT ![x] = k]
      /\ q.owners.collision = t.owners.collision
      /\ \A j \in Keys : j # k => q.orders[j] = t.orders[j]
      /\ q.orders[k].cid = x /\ q.orders[k].xid = x
      /\ q.orders[k].status = u.status /\ q.orders[k].result = t.orders[k].result
  <2> HIDE DEF q, k
  <2> QED BY <1>a DEF Applied
<1>2. t.byClient[x] \in {NoId, k} /\ (t.byClient[x] = NoId => k = x /\ x \in ExternalCids)
  OBVIOUS
<1> HIDE DEF q, k
<1>3. \A y \in Ours : q.byClient[y] = t.byClient[y]
  BY <1>0, <1>1, <1>2 DEF Ours
<1>4. ASSUME NEW y \in Ours, t.byClient[y] = k
      PROVE  s[k] = 1 /\ (v[y] = "open" => Remembered(q.orders[k]))
  <2>1. y \in Cids /\ k \in Actions /\ k # NoId
    BY <1>0, <1>1, <1>4 DEF Ours, OrdersOk
  <2>2. t.byClient[x] = k
    BY <1>0, <1>2, <2>1
  <2>3. y = x
    BY <1>0, <1>4, <2>1, <2>2 DEF Coherent
  <2>4. s[k] = 1
    BY <1>4, <2>3 DEF OrdersOk
  <2>5. v[y] = "open" => q.orders[k].status = "open"
    BY <1>1, <2>3
  <2> QED BY <2>4, <2>5 DEF Remembered, LiveStatuses
<1>5. Touches(t, q, v, s, k)
  BY <1>1, <1>3, <1>4 DEF Touches
<1> QED BY <1>5 DEF q

(* Deliver keeps the orders remembered.                                       *)
LEMMA DeliverOrders ==
    ASSUME GatewayInv, OrdersInv, Deliver
    PROVE  OrdersInv'
<1> DEFINE u == Head(feed)
<1>1. /\ feed # << >> /\ truth' = ApplyUpdate(truth, u) /\ feed' = Tail(feed)
      /\ proc' = proc /\ venue' = venue /\ sent' = sent
  BY DEF Deliver
<1>2. /\ ProjectionOk(truth) /\ Coherent(truth) /\ feed \in Seq(Updates)
      /\ WorldOk(truth, venue, feed) /\ OrdersOk(truth, venue, sent) /\ FeedOk(venue, feed)
  BY DEF GatewayInv, TypeOK, OrdersInv
<1>3. /\ u \in Updates /\ u = feed[1] /\ 1 \in 1..Len(feed) /\ Len(feed) \in Nat
      /\ Len(feed') = Len(feed) - 1 /\ \A i \in 1..Len(feed') : feed'[i] = feed[i + 1]
  BY <1>1, <1>2
<1> HIDE DEF u
<1>4. u.xid = u.cid /\ (u.cid \in ExternalCids \/ truth.byClient[u.cid] # NoId)
  BY <1>2, <1>3 DEF WorldOk
<1>5. venue[u.cid] # "none" /\ (u.status # "open" => venue[u.cid] # "open")
  BY <1>2, <1>3 DEF FeedOk
<1>6. \E k : Touches(truth, truth', venue, sent, k)
  BY <1>1, <1>2, <1>3, <1>4, <1>5, UpdateTends
<1>7. Grows(truth, truth')
  BY DeliverStep
<1>8. /\ Tends(truth, truth', venue, sent)
      /\ \A a \in Actions : Staged(truth', a) => Staged(truth, a)
  BY <1>2, <1>6, <1>7, TendsAt
<1>9. OrdersOk(truth', venue', sent')
  BY <1>1, <1>2, <1>8, OrdersTend
<1>10. FeedOk(venue', feed')
  <2>1. \A i \in 1..Len(feed') : i + 1 \in 1..Len(feed) /\ feed'[i] = feed[i + 1]
    BY <1>3
  <2> QED BY <1>1, <1>2, <2>1 DEF FeedOk
<1>11. ASSUME NEW q \in Procs, ~At(q, "idle")
       PROVE  ResultKnown(proc[q], truth', venue, sent)
  <2>1. proc[q].cmd \in Commands /\ proc[q].cmd.id \in Actions
    BY <1>11, InSubmission
  <2>2. ResultKnown(proc[q], truth, venue, sent)
    BY <1>11, InOrders
  <2> QED BY <1>8, <2>1, <2>2, ResultKept
<1> QED BY <1>1, <1>9, <1>10, <1>11 DEF OrdersInv, At

(* The venue opens an order, or closes one that is open, and says so.         *)
Turns(v, x, status) == \/ v[x] = "none" /\ status = "open"
                       \/ v[x] = "open" /\ status \in {"filled", "cancelled"}

(* A client order id of ours that the venue may act on.                       *)
OnRecord(t, s, x) ==
    x \in Ours => /\ t.byClient[x] # NoId /\ s[t.byClient[x]] = 1
                  /\ Remembered(OrderOf(t, x))

(* The venue v with the feed f becomes w, and u is reported.                  *)
Reports(v, f, x, w, u) ==
    /\ f \in Seq(Updates) /\ u \in Updates /\ x \in Cids
    /\ u.cid = x /\ u.status = w[x]
    /\ w[x] # "none" /\ Turns(v, x, w[x]) /\ \A y \in Cids : y # x => w[y] = v[y]

(* A change at the venue of an order on record, and its report.               *)
LEMMA VenueOrders ==
    ASSUME NEW t, NEW v, NEW f, NEW s, OrdersOk(t, v, s), FeedOk(v, f),
           NEW x, NEW w, NEW u, Reports(v, f, x, w, u), OnRecord(t, s, x)
    PROVE  /\ OrdersOk(t, w, s) /\ FeedOk(w, Append(f, u))
           /\ \A y \in Cids : v[y] \notin {"none", "open"} => w[y] = v[y]
<1> DEFINE g == Append(f, u)
           status == w[x]
<1> USE DEF Reports
<1>1. w[x] = status /\ \A y \in Cids : y # x => w[y] = v[y]
  OBVIOUS
<1>2. status # "none" /\ v[x] \in {"none", "open"}
  BY DEF Turns
<1>3. OrdersOk(t, w, s)
  BY <1>1, <1>2 DEF OrdersOk, Ours, OnRecord
<1>4. \A y \in Cids : v[y] \notin {"none", "open"} => w[y] = v[y]
  BY <1>1, <1>2
<1>5. ASSUME NEW i \in 1..Len(g)
      PROVE  w[g[i].cid] # "none" /\ (g[i].status # "open" => w[g[i].cid] # "open")
  <2>0. Len(f) \in Nat
    OBVIOUS
  <2>1. Len(g) = Len(f) + 1 /\ g[Len(f) + 1] = u /\ \A j \in 1..Len(f) : g[j] = f[j]
    OBVIOUS
  <2> HIDE DEF g
  <2>2. CASE i = Len(f) + 1
    BY <1>1, <1>2, <2>1, <2>2
  <2>3. CASE i \in 1..Len(f)
    <3>0. f[i] \in Updates
      BY <2>3
    <3>1. g[i] = f[i] /\ f[i].cid \in Cids
      BY <2>1, <2>3, <3>0 DEF Updates
    <3>2. v[f[i].cid] # "none" /\ (f[i].status # "open" => v[f[i].cid] # "open")
      BY <2>3 DEF FeedOk
    <3>3. CASE f[i].cid # x
      BY <1>1, <3>1, <3>2, <3>3
    <3>4. CASE f[i].cid = x
      BY <1>1, <1>2, <3>1, <3>2, <3>4
    <3> QED BY <3>3, <3>4
  <2> QED BY <1>5, <2>0, <2>1, <2>2, <2>3
<1> QED BY <1>3, <1>4, <1>5 DEF FeedOk

(* The venue after VenueSet, when what it does is on record in t.             *)
LEMMA VenueSetOrders ==
    ASSUME GatewayInv, NEW s, OrdersOk(truth, venue, s), FeedOk(venue, feed),
           NEW x \in Cids, NEW status \in {"open", "filled", "cancelled"}, Turns(venue, x, status),
           x \in Known, VenueSet(x, status), OnRecord(truth, s, x)
    PROVE  /\ OrdersOk(truth, venue', s) /\ FeedOk(venue', feed')
           /\ \A y \in Cids : venue[y] \notin {"none", "open"} => venue'[y] = venue[y]
           /\ \A y \in Cids : y # x => venue'[y] = venue[y]
           /\ venue'[x] = status
<1> DEFINE u == Update(x, status)
<1>1. /\ TypeOK /\ WorldOk(truth, venue, feed) /\ (x \in ExternalCids \/ truth.byClient[x] # NoId)
  BY DEF GatewayInv, Ours, OnRecord
<1>2. u \in Updates /\ feed' = Append(feed, u) /\ venue' = [venue EXCEPT ![x] = status]
  BY <1>1, VenueSetFacts DEF VenueSet
<1>3. u.cid = x /\ u.status = status
  BY DEF Update
<1>4. /\ venue \in [Cids -> {"none", "open", "filled", "cancelled"}] /\ feed \in Seq(Updates)
  BY <1>1 DEF TypeOK
<1> HIDE DEF u
<1>5. venue'[x] = status /\ \A y \in Cids : y # x => venue'[y] = venue[y]
  BY <1>2, <1>4
<1>6. /\ OrdersOk(truth, venue', s) /\ FeedOk(venue', Append(feed, u))
      /\ \A y \in Cids : venue[y] \notin {"none", "open"} => venue'[y] = venue[y]
  <2>1. Reports(venue, feed, x, venue', u)
    BY <1>2, <1>3, <1>4, <1>5 DEF Reports
  <2> QED BY <2>1, VenueOrders
<1> QED BY <1>2, <1>5, <1>6

(* The venue's own changes keep the orders remembered.                        *)
LEMMA VenueAlone ==
    ASSUME GatewayInv, OrdersInv, NEW x \in Cids, NEW status \in {"open", "filled"},
           Turns(venue, x, status), x \in ExternalCids \/ venue[x] = "open",
           VenueSet(x, status), UNCHANGED <<truth, proc, submits, sent>>
    PROVE  OrdersInv'
<1>1. /\ OrdersOk(truth, venue, sent) /\ FeedOk(venue, feed) /\ WorldOk(truth, venue, feed)
  BY DEF OrdersInv, GatewayInv
<1>2. x \in Known
  BY <1>1 DEF WorldOk, Known
<1>3. OnRecord(truth, sent, x)
  BY <1>1 DEF OrdersOk, Ours, OnRecord
<1>4. /\ OrdersOk(truth, venue', sent) /\ FeedOk(venue', feed')
      /\ \A y \in Cids : venue[y] \notin {"none", "open"} => venue'[y] = venue[y]
      /\ \A y \in Cids : y # x => venue'[y] = venue[y]
  BY <1>1, <1>2, <1>3, VenueSetOrders
<1>5. ASSUME NEW q \in Procs, ~At(q, "idle")
      PROVE  ResultKnown(proc[q], truth, venue', sent)
  <2> DEFINE c == proc[q].cmd
  <2>1. c \in Commands
    BY <1>5, InSubmission
  <2>2. ResultKnown(proc[q], truth, venue, sent)
    BY <1>5, InOrders
  <2>3. c.type = "place" => c.cid \in Cids /\ c.cid \notin ExternalCids
    BY <2>1, GatewayAssumption DEF Places
  <2>4. c.type = "place" /\ venue[c.cid] = "none" => venue'[c.cid] = "none"
    <3> HIDE DEF c
    <3> QED BY <1>4, <2>3
  <2> QED BY <1>4, <2>1, <2>2, <2>4, ResultKept
<1> QED BY <1>4, <1>5 DEF OrdersInv, At

(* Execute keeps the orders remembered.                                       *)
LEMMA ExecuteOrders ==
    ASSUME GatewayInv, OrdersInv, Alone, NEW p \in Procs, Execute(p)
    PROVE  OrdersInv'
<1> DEFINE c == proc[p].cmd
<1>1. /\ At(p, "execute") /\ ~At(p, "idle") /\ sent' = [sent EXCEPT ![c.id] = @ + 1]
      /\ truth' = truth /\ (TakesEffect(c) \/ VenueSame)
  BY DEF Execute, At
<1>2. /\ TypeOK /\ ProjectionOk(truth) /\ Coherent(truth) /\ c \in Commands /\ p \in c.by
      /\ SubmissionOk(proc[p], truth, sent) /\ c.id \in Actions
      /\ ResultKnown(proc[p], truth, venue, sent)
      /\ OrdersOk(truth, venue, sent) /\ FeedOk(venue, feed)
  BY <1>1, InSubmission, InOrders
<1>3. /\ sent[c.id] = 0 /\ ~Staged(truth, c.id) /\ c.kind # "staged_release"
      /\ c.type = "place" => truth.byClient[c.cid] = c.id
  BY <1>1, <1>2 DEF SubmissionOk, ResultKnown, At, Unsent
<1>4. sent'[c.id] = 1 /\ \A a \in Actions : a # c.id => sent'[a] = sent[a]
  BY <1>1, <1>2, <1>3 DEF TypeOK
<1>5. OrdersOk(truth, venue, sent')
  <2> HIDE DEF c
  <2>1. \A a \in Actions : sent'[a] = sent[a] \/ (a = c.id /\ sent'[a] = 1)
    BY <1>4
  <2> QED BY <1>2, <1>3, <2>1 DEF OrdersOk
<1>6. c.type = "place" => /\ c.cid \in Ours /\ c.cid \in Known /\ venue[c.cid] = "none"
                          /\ OnRecord(truth, sent', c.cid)
  <2>1. c.type = "place" => c.cid \in Ours /\ c.cid \in Known
    BY <1>2, GatewayAssumption DEF Places, Ours, Known
  <2>2. c.id # NoId
    BY <1>2, GatewayAssumption
  <2> HIDE DEF c
  <2>3. c.type = "place" => OrderOf(truth, c.cid).status = "accepted" /\ venue[c.cid] = "none"
    BY <1>2, <1>3, <2>1, <2>2 DEF OrdersOk
  <2> QED BY <1>3, <1>4, <2>1, <2>2, <2>3 DEF Remembered, LiveStatuses, OnRecord
<1>7. c.target \in Cids
  BY <1>2, GatewayAssumption
<1>8. /\ OrdersOk(truth, venue', sent') /\ FeedOk(venue', feed')
      /\ \A y \in Cids : venue[y] \notin {"none", "open"} => venue'[y] = venue[y]
      /\ \A y \in Cids : venue[y] = "none" /\ venue'[y] # "none" => c.type = "place" /\ y = c.cid
      /\ TakesEffect(c) /\ c.type # "place" => venue'[c.target] = "cancelled"
      /\ TakesEffect(c) \/ venue' = venue
  <2>1. CASE VenueSame /\ (~TakesEffect(c) \/ c.type = "place")
    BY <1>2, <1>5, <2>1 DEF VenueSame
  <2>2. CASE c.type = "place" /\ VenueSet(c.cid, "open") /\ TakesEffect(c)
    <3> HIDE DEF c
    <3>1. Turns(venue, c.cid, "open") /\ c.cid \in Cids
      BY <1>6, <2>2 DEF Turns, Ours
    <3>2. /\ OrdersOk(truth, venue', sent') /\ FeedOk(venue', feed')
          /\ \A y \in Cids : venue[y] \notin {"none", "open"} => venue'[y] = venue[y]
          /\ \A y \in Cids : y # c.cid => venue'[y] = venue[y]
      BY <1>2, <1>5, <1>6, <2>2, <3>1, VenueSetOrders
    <3> QED BY <2>2, <3>2
  <2>3. CASE c.type # "place" /\ venue[c.target] = "open" /\ VenueSet(c.target, "cancelled")
             /\ TakesEffect(c)
    <3> HIDE DEF c
    <3>1. Turns(venue, c.target, "cancelled")
      BY <2>3 DEF Turns
    <3>2. c.target \in Known
      BY <1>7, <2>3 DEF GatewayInv, WorldOk
    <3>3. OnRecord(truth, sent', c.target)
      BY <1>5, <2>3 DEF OrdersOk, OnRecord
    <3>4. /\ OrdersOk(truth, venue', sent') /\ FeedOk(venue', feed')
          /\ \A y \in Cids : venue[y] \notin {"none", "open"} => venue'[y] = venue[y]
          /\ \A y \in Cids : y # c.target => venue'[y] = venue[y]
          /\ venue'[c.target] = "cancelled"
      BY <1>2, <1>5, <1>7, <2>3, <3>1, <3>2, <3>3, VenueSetOrders
    <3> QED BY <2>3, <3>4
  <2> HIDE DEF c
  <2>4. TakesEffect(c) => \/ c.type = "place" /\ VenueSet(c.cid, "open")
                          \/ c.type = "place" /\ VenueSame
                          \/ /\ c.type # "place" /\ venue[c.target] = "open"
                             /\ VenueSet(c.target, "cancelled")
    BY DEF TakesEffect
  <2> QED BY <1>1, <2>1, <2>2, <2>3, <2>4
<1>9. ASSUME NEW q \in Procs, q # p, ~At(q, "idle")
      PROVE  ResultKnown(proc[q], truth, venue', sent')
  <2> DEFINE d == proc[q].cmd
  <2>1. d \in Commands /\ q \in d.by /\ d.id \in Actions /\ (d.type = "place" => d.cid \in Cids)
    BY <1>9, InSubmission
  <2>2. ResultKnown(proc[q], truth, venue, sent)
    BY <1>9, InOrders
  <2>3. c.id # d.id /\ ~(c.type = "place" /\ d.type = "place" /\ c.cid = d.cid)
    <3> HIDE DEF c, d
    <3> QED BY <1>2, <1>9, <2>1 DEF Alone
  <2>4. d.type = "place" /\ venue[d.cid] = "none" => venue'[d.cid] = "none"
    <3> HIDE DEF c, d
    <3> QED BY <1>8, <2>1, <2>3
  <2>5. sent'[d.id] = sent[d.id]
    BY <1>4, <2>1, <2>3
  <2> QED BY <1>8, <2>1, <2>2, <2>4, <2>5, ResultKept
<1>10. ResultKnown(proc'[p], truth, venue', sent') /\ \A q \in Procs : q # p => proc'[q] = proc[q]
  <2>0. proc = [q \in Procs |-> [pc |-> proc[q].pc, cmd |-> proc[q].cmd,
                                 view |-> proc[q].view, result |-> proc[q].result]]
    BY <1>2 DEF TypeOK
  <2>1. CASE Goto(p, "error")
    <3>1. /\ proc'[p].pc = "error" /\ proc'[p].cmd = c
          /\ \A q \in Procs : q # p => proc'[q] = proc[q]
      BY <2>0, <2>1 DEF Goto
    <3> HIDE DEF c
    <3> QED BY <1>3, <1>4, <3>1 DEF ResultKnown, Unsent, Afterwards
  <2>2. ASSUME NEW r, Answer(p, r),
               \/ r = Success(c) /\ TakesEffect(c)
               \/ r = Failure(c, "failed") /\ (AmbiguousFailures \/ VenueSame)
               \/ r = Failure(c, "rejected") /\ VenueSame
        PROVE  ResultKnown(proc'[p], truth, venue', sent') /\ \A q \in Procs : q # p => proc'[q] = proc[q]
    <3>1. proc'[p] = [proc[p] EXCEPT !.pc = "settle", !.result = r]
          /\ \A q \in Procs : q # p => proc'[q] = proc[q]
      BY <2>0, <2>2 DEF Answer
    <3>2. proc'[p].pc = "settle" /\ proc'[p].cmd = c /\ proc'[p].result = r
      <4>1. proc[p] = [pc |-> proc[p].pc, cmd |-> proc[p].cmd,
                       view |-> proc[p].view, result |-> proc[p].result]
        BY <2>0
      <4> QED BY <3>1, <4>1
    <3> HIDE DEF c
    <3>3. /\ Success(c).status \notin {"rejected", "failed"}
          /\ Failure(c, "rejected").status = "rejected" /\ Failure(c, "failed").status = "failed"
      BY DEF Success, Failure, PlaceResult, CancelResult
    <3>4. VenueSame => venue' = venue
      BY DEF VenueSame
    <3>5. c.type = "place" => /\ r = Failure(c, "rejected") => venue'[c.cid] = "none"
                              /\ r = Failure(c, "failed") => AmbiguousFailures \/ venue'[c.cid] = "none"
      BY <1>6, <2>2, <3>3, <3>4
    <3>6. c.type # "place" /\ r = Success(c) => venue'[c.target] \notin {"none", "open"}
      BY <1>8, <2>2, <3>3
    <3>7. ResultKnown(proc'[p], truth, venue', sent')
      BY <1>3, <1>4, <3>2, <3>5, <3>6 DEF ResultKnown, Unsent, Afterwards
    <3> QED BY <3>1, <3>7
  <2>3. \/ Goto(p, "error")
        \/ \E r : /\ Answer(p, r)
                  /\ \/ r = Success(c) /\ TakesEffect(c)
                     \/ r = Failure(c, "failed") /\ (AmbiguousFailures \/ VenueSame)
                     \/ r = Failure(c, "rejected") /\ VenueSame
    BY DEF Execute
  <2> QED BY <2>1, <2>2, <2>3
<1> QED BY <1>1, <1>8, <1>9, <1>10 DEF OrdersInv, At

(* Every step keeps the orders remembered.                                    *)
LEMMA OrdersInductive ==
    ASSUME GatewayInv, OrdersInv, Alone, [Next]_vars
    PROVE  OrdersInv'
<1>1. ASSUME NEW p \in Procs, Step(p) PROVE OrdersInv'
  BY <1>1, BeginOrders, RequestOrders, RejectOrders, AcceptOrders, RecordLogicalOrders,
     RecordStagedOrders, StartOrders, ExecuteOrders, SettleOrders, RecordOrders,
     RecordRaisesOrders, RecordErrorOrders, FailOrders, AbandonOrders DEF Step
<1>2. CASE Deliver
  BY <1>2, DeliverOrders
<1>3. CASE VenueFills
  BY <1>3, VenueAlone DEF VenueFills, Turns
<1>4. CASE VenueExternal
  BY <1>4, VenueAlone, GatewayAssumption DEF VenueExternal, Turns
<1>5. CASE UNCHANGED vars
  BY <1>5 DEF vars, OrdersInv, At
<1> QED BY <1>1, <1>2, <1>3, <1>4, <1>5 DEF Next

(* They are to begin with: there are none.                                    *)
LEMMA OrdersInit == ASSUME Init PROVE OrdersInv
<1>1. /\ truth = Empty /\ proc = [p \in Procs |-> IdleProc] /\ venue = [c \in Cids |-> "none"]
      /\ feed = << >> /\ IdleProc.pc = "idle"
  BY DEF Init, IdleProc
<1>2. (\A x \in Cids : Empty.byClient[x] = NoId) /\ DOMAIN Empty.placements = {}
  BY DEF Empty
<1>3. OrdersOk(truth, venue, sent)
  BY <1>1, <1>2 DEF OrdersOk, Ours, Staged
<1> QED BY <1>1, <1>3 DEF OrdersInv, FeedOk, At

(* The invariant says it: an open order's action remembers it.                *)
LEMMA OrdersRemembered == ASSUME GatewayInv, OrdersInv PROVE NoOpenOrderForgotten
<1> SUFFICES ASSUME NEW x \in OpenAtVenue
             PROVE  \E k \in Keys : /\ truth.orders[k].cid = x
                                    /\ \/ k \in LiveOrders(truth)
                                       \/ AmbiguousFailures /\ truth.orders[k].result = "failed"
  BY DEF NoOpenOrderForgotten
<1> DEFINE k == truth.byClient[x]
<1>1. x \in Ours /\ x \in Cids /\ venue[x] = "open" /\ OrdersOk(truth, venue, sent) /\ Coherent(truth)
  BY DEF OpenAtVenue, Ours, OrdersInv, GatewayInv
<1>2. k # NoId /\ k \in Actions /\ sent[k] = 1 /\ Remembered(truth.orders[k])
  BY <1>1 DEF OrdersOk, OrderOf
<1>3. truth.orders[k].cid = x /\ ~Staged(truth, k) /\ k \in Keys
  BY <1>1, <1>2 DEF Coherent, OrdersOk, Keys
<1> QED BY <1>2, <1>3 DEF Remembered, LiveOrders

(* No order of ours that is open at the venue is ever forgotten by the        *)
(* projection, whatever answers are lost, appends raise or processes die,     *)
(* when no id is submitted by two processes.                                  *)
THEOREM OpenOrdersKept == Alone => (Spec => []NoOpenOrderForgotten)
<1> SUFFICES ASSUME Alone PROVE Spec => []NoOpenOrderForgotten
  OBVIOUS
<1>1. Init => OrdersInv
  BY OrdersInit
<1>2. GatewayInv /\ OrdersInv /\ [Next]_vars => OrdersInv'
  BY OrdersInductive
<1>3. GatewayInv /\ OrdersInv => NoOpenOrderForgotten
  BY OrdersRemembered
<1> QED BY <1>1, <1>2, <1>3, GatewayInvariant, PTL DEF Spec

-----------------------------------------------------------------------------
(* The projection settles to the truth.                                       *)

(* The hypothesis: the process that takes the feed is the one that submits.   *)
(* (Another's submission can record an acceptance after the runtime took the  *)
(* update that says the order is filled.)                                     *)
RuntimeOnly == \A c \in Commands : c.by \subseteq {Runtime}

Pending(f, x) == \E i \in 1..Len(f) : f[i].cid = x

(* An order the projection has open is open, or the feed will tell, or an     *)
(* update of it was lost (L: the orders with a lost update).                  *)
OpenKnown(t, v, f, L) ==
    \A k \in Keys : t.orders[k].status = "open" =>
        LET x == t.orders[k].cid
        IN  x \in Cids /\ t.byClient[x] = k /\ (v[x] = "open" \/ Pending(f, x) \/ x \in L)

(* The last update of an order says what the venue says.                      *)
LastUpdateTrue(v, f) ==
    \A i \in 1..Len(f) : (\A j \in 1..Len(f) : j > i => f[j].cid # f[i].cid)
                           => f[i].status = v[f[i].cid]

(* An acceptance that is not on record yet is on its way on the feed too, or  *)
(* was.                                                                       *)
Reported(pr, f, L) ==
    /\ pr.pc \in {"settle", "executed", "placement"} /\ pr.cmd.type = "place"
    /\ pr.result = Success(pr.cmd)
    => Pending(f, pr.cmd.cid) \/ pr.cmd.cid \in L

SettledInv(L) == /\ OpenKnown(truth, venue, feed, L) /\ LastUpdateTrue(venue, feed)
                 /\ Reported(proc[Runtime], feed, L)

(* One process that submits is alone on the ledger.                           *)
LEMMA RuntimeAlone == ASSUME RuntimeOnly PROVE Alone
  BY DEF RuntimeOnly, Alone

(* A record that makes no order open.                                         *)
OpensNone(t, u) ==
    \A k \in Keys : u.orders[k].status = "open" =>
        t.orders[k].status = "open" /\ u.orders[k].cid = t.orders[k].cid

(* A record that makes none open but what the feed will tell of.              *)
OpensTold(t, u, f, L) ==
    \A k \in Keys : u.orders[k].status = "open" =>
        \/ t.orders[k].status = "open" /\ u.orders[k].cid = t.orders[k].cid
        \/ /\ u.orders[k].cid \in Cids /\ u.byClient[u.orders[k].cid] = k
           /\ Pending(f, u.orders[k].cid) \/ u.orders[k].cid \in L

(* A record that opens only orders the feed still tells of.                   *)
LEMMA SettledRecord ==
    ASSUME NEW L, GatewayInv, SettledInv(L), NEW p \in Procs, NEW n,
           proc' = [proc EXCEPT ![p] = n], Reported(n, feed, L),
           Grows(truth, truth'), OpensTold(truth, truth', feed, L), venue' = venue, feed' = feed
    PROVE  SettledInv(L)'
<1>1. OpenKnown(truth', venue', feed', L)
  <2>1. NoId \notin Keys
    BY GatewayAssumption DEF Keys
  <2> QED BY <2>1 DEF SettledInv, OpenKnown, Grows, OpensTold
<1>2. proc'[Runtime] \in {n, proc[Runtime]}
  <2>1. proc = [q \in Procs |-> [pc |-> proc[q].pc, cmd |-> proc[q].cmd,
                                 view |-> proc[q].view, result |-> proc[q].result]]
    BY DEF GatewayInv, TypeOK
  <2>2. Runtime \in Procs
    BY GatewayAssumption
  <2> QED BY <2>1, <2>2
<1>3. Reported(proc'[Runtime], feed, L)
  BY <1>2 DEF SettledInv
<1> QED BY <1>1, <1>3 DEF SettledInv

(* A record that opens no order.                                              *)
LEMMA SettledSubmission ==
    ASSUME NEW L, GatewayInv, SettledInv(L), NEW p \in Procs, NEW n,
           proc' = [proc EXCEPT ![p] = n], Reported(n, feed, L),
           Grows(truth, truth'), OpensNone(truth, truth'), venue' = venue, feed' = feed
    PROVE  SettledInv(L)'
<1>1. OpensTold(truth, truth', feed, L)
  BY DEF OpensNone, OpensTold
<1> QED BY <1>1, SettledRecord

(* An idle process has nothing to report.                                     *)
LEMMA IdleReported == ASSUME NEW L PROVE Reported(IdleProc, feed, L)
  BY DEF Reported, IdleProc

(* ACTION_REQUESTED opens no order.                                           *)
LEMMA RequestedOpens ==
    ASSUME NEW t, ProjectionOk(t), NEW c \in Commands
    PROVE  OpensNone(t, ApplyRequested(t, c))
<1> DEFINE u == ApplyRequested(t, c)
<1>1. CASE c.id \in t.requested
  BY <1>1 DEF ApplyRequested, OpensNone
<1>2. CASE c.id \notin t.requested
  <2>1. /\ \A j \in Keys : j # c.id => u.orders[j] = t.orders[j]
        /\ c.type # "place" => u.orders = t.orders
    BY <1>2, RequestedFacts
  <2>2. c.type = "place" => u.orders[c.id].status = "requested"
    BY <1>2, RequestedFacts, ZenonT(40)
  <2> HIDE DEF u
  <2>3. OpensNone(t, u)
    BY <2>1, <2>2 DEF OpensNone
  <2> QED BY <2>3 DEF u
<1> QED BY <1>1, <1>2

(* Request keeps the projection on its way to the truth.                      *)
LEMMA RequestSettled ==
    ASSUME NEW L, GatewayInv, SettledInv(L), Alone, NEW p \in Procs, Request(p)
    PROVE  SettledInv(L)'
<1> DEFINE c == proc[p].cmd
           n == [proc[p] EXCEPT !.pc = "decide"]
<1>1. /\ At(p, "request") /\ ~At(p, "idle") /\ truth' = ApplyRequested(truth, c)
      /\ proc' = [proc EXCEPT ![p] = n] /\ venue' = venue /\ feed' = feed
  BY DEF Request, Goto, At, LeaveWorld
<1>2. TypeOK /\ ProjectionOk(truth) /\ c \in Commands
  BY <1>1, InSubmission
<1>3. n.pc = "decide"
  BY <1>1, <1>2, GotoFacts DEF Pcs
<1>4. Grows(truth, truth')
  BY RequestStep
<1>5. OpensNone(truth, truth')
  BY <1>1, <1>2, RequestedOpens
<1> HIDE DEF n
<1>6. Reported(n, feed, L)
  BY <1>3 DEF Reported
<1> QED BY <1>1, <1>4, <1>5, <1>6, SettledSubmission

(* ACTION_REJECTED opens no order.                                            *)
LEMMA RejectedOpens ==
    ASSUME NEW t, ProjectionOk(t), NEW c \in Commands, NEW reason
    PROVE  OpensNone(t, ApplyRejected(t, c, reason))
<1> DEFINE u == ApplyRejected(t, c, reason)
<1>1. /\ ProjectionOk(u) /\ SameMaps(t, u) /\ SameButStatus(t, u, c.id)
      /\ u.requested = t.requested
      /\ u = t \/ u.actions = [t.actions EXCEPT ![c.id] = "rejected"]
      /\ u.orders[c.id].status \in {t.orders[c.id].status, "rejected"}
  BY RejectedFacts
<1> HIDE DEF u
<1>2. OpensNone(t, u)
  BY <1>1 DEF OpensNone, SameButStatus
<1> QED BY <1>2 DEF u

(* Reject keeps the projection on its way to the truth.                       *)
LEMMA RejectSettled ==
    ASSUME NEW L, GatewayInv, SettledInv(L), Alone, NEW p \in Procs, Reject(p)
    PROVE  SettledInv(L)'
<1> DEFINE c == proc[p].cmd
<1>1. /\ At(p, "decide") /\ ~At(p, "idle") /\ truth' = ApplyRejected(truth, c, Why(p))
      /\ proc' = [proc EXCEPT ![p] = IdleProc] /\ venue' = venue /\ feed' = feed
  BY DEF Reject, Return, At, LeaveWorld
<1>2. ProjectionOk(truth) /\ c \in Commands
  BY <1>1, InSubmission
<1>3. Grows(truth, truth')
  BY RejectStep
<1>4. OpensNone(truth, truth')
  BY <1>1, <1>2, RejectedOpens
<1> QED BY <1>1, <1>3, <1>4, IdleReported, SettledSubmission

(* ACTION_ACCEPTED opens no order.                                            *)
LEMMA AcceptedOpens ==
    ASSUME NEW t, ProjectionOk(t), NEW c \in Commands,
           c.type = "place" => /\ HasOrder(t, c.id) /\ t.orders[c.id].cid = c.cid
                               /\ t.byClient[c.cid] \in {NoId, c.id},
           c.type = "place" => t.owners.client[c.cid] \in {NoId, c.id}
    PROVE  OpensNone(t, ApplyAccepted(t, c))
<1> DEFINE u == ApplyAccepted(t, c)
<1>1. c.type # "place" => SameMaps(t, u) /\ u.orders = t.orders
  BY AcceptedFacts
<1>2. /\ c.type # "place" => u.byClient = t.byClient
      /\ c.type = "place" => /\ u.byClient = [t.byClient EXCEPT ![c.cid] = c.id]
                             /\ u.orders[c.id].status = "accepted"
      /\ u.placements = t.placements
      /\ \A j \in Keys : j # c.id => u.orders[j] = t.orders[j]
  BY AcceptedKeeps
<1> HIDE DEF u
<1>3. OpensNone(t, u)
  BY <1>1, <1>2 DEF OpensNone
<1> QED BY <1>3 DEF u

(* Accept keeps the projection on its way to the truth.                       *)
LEMMA AcceptSettled ==
    ASSUME NEW L, GatewayInv, SettledInv(L), Alone, NEW p \in Procs, Accept(p)
    PROVE  SettledInv(L)'
<1> DEFINE c == proc[p].cmd
           n == [proc[p] EXCEPT !.pc = "logical"]
<1>1. /\ At(p, "decide") /\ ~At(p, "idle") /\ truth' = ApplyAccepted(truth, c)
      /\ proc' = [proc EXCEPT ![p] = n] /\ Why(p) = "none" /\ venue' = venue /\ feed' = feed
  BY DEF Accept, Goto, At, LeaveWorld
<1>2. /\ TypeOK /\ ProjectionOk(truth) /\ Coherent(truth) /\ c \in Commands
      /\ SubmissionOk(proc[p], truth, sent)
  BY <1>1, InSubmission
<1>3. n.pc = "logical"
  BY <1>1, <1>2, GotoFacts DEF Pcs
<1>4. Grows(truth, truth')
  BY AcceptStep
<1>5. /\ proc[p].view.actions[c.id] = Absent
      /\ c.type = "place" => proc[p].view.byClient[c.cid] \in {NoId, c.id}
  BY <1>1 DEF Why, Rejection, IdentifierTaken
<1>6. c.type = "place" => /\ HasOrder(truth, c.id) /\ truth.orders[c.id].cid = c.cid
                          /\ truth.byClient[c.cid] \in {NoId, c.id}
  BY <1>1, <1>2, <1>5 DEF SubmissionOk, At, Deciding, HasOrder, Absent
<1>7. c.type = "place" => truth.owners.client[c.cid] \in {NoId, c.id}
  BY <1>2, <1>6 DEF Coherent
<1>8. OpensNone(truth, truth')
  <2> HIDE DEF c
  <2> QED BY <1>1, <1>2, <1>6, <1>7, AcceptedOpens
<1> HIDE DEF n
<1>9. Reported(n, feed, L)
  BY <1>3 DEF Reported
<1> QED BY <1>1, <1>4, <1>8, <1>9, SettledSubmission

(* RecordLogical keeps the projection on its way to the truth.                *)
LEMMA RecordLogicalSettled ==
    ASSUME NEW L, GatewayInv, SettledInv(L), Alone, NEW p \in Procs, RecordLogical(p)
    PROVE  SettledInv(L)'
<1> DEFINE c == proc[p].cmd
           x == IF c.kind = "staged_release" THEN "stage" ELSE "start"
           n == [proc[p] EXCEPT !.view = Empty, !.pc = x]
<1>1. /\ At(p, "logical") /\ ~At(p, "idle") /\ truth' \in {truth, ApplyLogical(truth, c)}
      /\ proc' = [proc EXCEPT ![p].view = Empty, ![p].pc = x] /\ venue' = venue /\ feed' = feed
  BY DEF RecordLogical, At, LeaveWorld
<1>2. TypeOK /\ ProjectionOk(truth) /\ c \in Commands
  BY <1>1, InSubmission
<1>3. proc' = [proc EXCEPT ![p] = n] /\ n.pc = x
  <2>1. proc = [q \in Procs |-> [pc |-> proc[q].pc, cmd |-> proc[q].cmd,
                                 view |-> proc[q].view, result |-> proc[q].result]]
    BY <1>2 DEF TypeOK
  <2> HIDE DEF x
  <2>2. proc' = [proc EXCEPT ![p] = n]
    BY <1>1, <2>1
  <2>3. n.pc = x
    <3>1. proc[p] = [pc |-> proc[p].pc, cmd |-> proc[p].cmd,
                     view |-> proc[p].view, result |-> proc[p].result]
      BY <2>1
    <3> QED BY <3>1
  <2> QED BY <2>2, <2>3
<1>4. Grows(truth, truth')
  BY RecordLogicalStep
<1>5. OpensNone(truth, truth')
  <2>1. truth'.orders = truth.orders
    <3> HIDE DEF c
    <3> QED BY <1>1, <1>2, LogicalFacts
  <2> QED BY <2>1 DEF OpensNone
<1>6. x \in {"stage", "start"}
  OBVIOUS
<1> HIDE DEF n, x
<1>7. Reported(n, feed, L)
  BY <1>3, <1>6 DEF Reported
<1> QED BY <1>1, <1>3, <1>4, <1>5, <1>7, SettledSubmission

(* RecordStaged keeps the projection on its way to the truth.                 *)
LEMMA RecordStagedSettled ==
    ASSUME NEW L, GatewayInv, SettledInv(L), Alone, NEW p \in Procs, RecordStaged(p)
    PROVE  SettledInv(L)'
<1> DEFINE c == proc[p].cmd
<1>1. /\ At(p, "stage") /\ ~At(p, "idle") /\ truth' = ApplyPlacement(truth, c, "staged")
      /\ proc' = [proc EXCEPT ![p] = IdleProc] /\ venue' = venue /\ feed' = feed
  BY DEF RecordStaged, Return, At, LeaveWorld
<1>2. ProjectionOk(truth) /\ c \in Commands
  BY <1>1, InSubmission
<1>3. Grows(truth, truth')
  BY RecordStagedStep
<1> HIDE DEF c
<1>4. truth'.orders = truth.orders
  BY <1>1, <1>2, PlacementFacts
<1>5. OpensNone(truth, truth')
  BY <1>4 DEF OpensNone
<1> QED BY <1>1, <1>3, <1>5, IdleReported, SettledSubmission

(* Start keeps the projection on its way to the truth.                        *)
LEMMA StartSettled ==
    ASSUME NEW L, GatewayInv, SettledInv(L), Alone, NEW p \in Procs, Start(p)
    PROVE  SettledInv(L)'
<1> DEFINE c == proc[p].cmd
           n == [proc[p] EXCEPT !.pc = "execute"]
<1>1. /\ At(p, "start") /\ ~At(p, "idle") /\ truth' = ApplyStarted(truth, c)
      /\ proc' = [proc EXCEPT ![p] = n] /\ venue' = venue /\ feed' = feed
  BY DEF Start, Goto, At, LeaveWorld
<1>2. TypeOK /\ ProjectionOk(truth) /\ c \in Commands
  BY <1>1, InSubmission
<1>3. n.pc = "execute"
  BY <1>1, <1>2, GotoFacts DEF Pcs
<1>4. Grows(truth, truth')
  BY StartStep
<1>5. OpensNone(truth, truth')
  <2> HIDE DEF c
  <2>1. /\ SameButStatus(truth, truth', c.id)
        /\ truth'.orders[c.id].status = truth.orders[c.id].status
    BY <1>1, <1>2, StartedFacts
  <2> QED BY <2>1 DEF OpensNone, SameButStatus
<1> HIDE DEF n
<1>6. Reported(n, feed, L)
  BY <1>3 DEF Reported
<1> QED BY <1>1, <1>4, <1>5, <1>6, SettledSubmission

(* Begin keeps the projection on its way to the truth.                        *)
LEMMA BeginSettled ==
    ASSUME NEW L, GatewayInv, SettledInv(L), NEW p \in Procs, NEW c \in Commands, Begin(p, c)
    PROVE  SettledInv(L)'
<1> DEFINE n == [pc |-> "request", cmd |-> c, view |-> truth, result |-> NoResult]
<1>1. /\ proc' = [proc EXCEPT ![p] = n] /\ truth' = truth /\ venue' = venue /\ feed' = feed
      /\ n.pc = "request"
  BY DEF Begin
<1> HIDE DEF n
<1>2. Reported(n, feed, L) /\ Grows(truth, truth') /\ OpensNone(truth, truth')
  BY <1>1 DEF Reported, Grows, OpensNone
<1> QED BY <1>1, <1>2, SettledSubmission

(* Abandon keeps the projection on its way to the truth.                      *)
LEMMA AbandonSettled ==
    ASSUME NEW L, GatewayInv, SettledInv(L), NEW p \in Procs, Abandon(p)
    PROVE  SettledInv(L)'
<1>1. /\ proc' = [proc EXCEPT ![p] = IdleProc] /\ truth' = truth /\ venue' = venue /\ feed' = feed
  BY DEF Abandon, Return, LeaveWorld
<1>2. Grows(truth, truth') /\ OpensNone(truth, truth')
  BY <1>1 DEF Grows, OpensNone
<1> QED BY <1>1, <1>2, IdleReported, SettledSubmission

(* A step to x of a submission of the runtime's that has its result.          *)
LEMMA AfterwardsSettled ==
    ASSUME NEW L, GatewayInv, SettledInv(L), RuntimeOnly, NEW p \in Procs, proc[p].pc \in Afterwards,
           NEW x \in Afterwards, Goto(p, x), LeaveWorld,
           x \in {"settle", "executed", "placement"} =>
             proc[p].pc \in {"settle", "executed", "placement"},
           Grows(truth, truth'), OpensTold(truth, truth', feed, L)
    PROVE  SettledInv(L)'
<1> DEFINE n == [proc[p] EXCEPT !.pc = x]
<1>1. /\ ~At(p, "idle") /\ x \in Pcs \ {"idle"} /\ proc' = [proc EXCEPT ![p] = n]
      /\ venue' = venue /\ feed' = feed
  BY DEF At, Afterwards, Pcs, Goto, LeaveWorld
<1>2. TypeOK /\ proc[p].cmd \in Commands /\ p \in proc[p].cmd.by
  BY <1>1, InSubmission
<1>3. n.pc = x /\ n.cmd = proc[p].cmd /\ n.result = proc[p].result
  BY <1>1, <1>2, GotoFacts
<1>4. p = Runtime
  BY <1>2 DEF RuntimeOnly
<1>5. Reported(proc[p], feed, L)
  BY <1>4 DEF SettledInv
<1> HIDE DEF n
<1>6. Reported(n, feed, L)
  BY <1>3, <1>5 DEF Reported
<1> QED BY <1>1, <1>6, SettledRecord

(* Settle keeps the projection on its way to the truth.                       *)
LEMMA SettleSettled ==
    ASSUME NEW L, GatewayInv, SettledInv(L), RuntimeOnly, NEW p \in Procs, Settle(p)
    PROVE  SettledInv(L)'
<1> DEFINE x == CASE ~ResultOk(proc[p].cmd, proc[p].result) -> "error"
                  [] proc[p].result.status \in {"rejected", "failed"} -> "fail_result"
                  [] OTHER -> "executed"
<1>1. At(p, "settle") /\ Goto(p, x) /\ truth' = truth /\ LeaveWorld
  BY DEF Settle, At
<1>2. x \in {"error", "fail_result", "executed"}
  OBVIOUS
<1> HIDE DEF x
<1>3. proc[p].pc = "settle" /\ proc[p].pc \in Afterwards /\ x \in Afterwards
  BY <1>1, <1>2 DEF At, Afterwards
<1>4. Grows(truth, truth') /\ OpensTold(truth, truth', feed, L)
  BY <1>1 DEF Grows, OpensTold
<1> QED BY <1>1, <1>3, <1>4, AfterwardsSettled

(* RecordError keeps the projection on its way to the truth.                  *)
LEMMA RecordErrorSettled ==
    ASSUME NEW L, GatewayInv, SettledInv(L), NEW p \in Procs, RecordError(p)
    PROVE  SettledInv(L)'
<1> DEFINE n == [proc[p] EXCEPT !.pc = "fail", !.result = NoResult]
<1>1. /\ truth' = truth /\ venue' = venue /\ feed' = feed
      /\ proc' = [proc EXCEPT ![p].pc = "fail", ![p].result = NoResult]
  BY DEF RecordError, LeaveWorld
<1>2. proc' = [proc EXCEPT ![p] = n] /\ n.pc = "fail"
  <2>1. proc = [q \in Procs |-> [pc |-> proc[q].pc, cmd |-> proc[q].cmd,
                                 view |-> proc[q].view, result |-> proc[q].result]]
    BY DEF GatewayInv, TypeOK
  <2>2. proc' = [proc EXCEPT ![p] = n]
    BY <1>1, <2>1
  <2>3. n.pc = "fail"
    <3>1. proc[p] = [pc |-> proc[p].pc, cmd |-> proc[p].cmd,
                     view |-> proc[p].view, result |-> proc[p].result]
      BY <2>1
    <3> QED BY <3>1
  <2> QED BY <2>2, <2>3
<1> HIDE DEF n
<1>3. Reported(n, feed, L) /\ Grows(truth, truth') /\ OpensNone(truth, truth')
  BY <1>1, <1>2 DEF Reported, Grows, OpensNone
<1> QED BY <1>1, <1>2, <1>3, SettledSubmission

(* ACTION_FAILED opens no order.                                              *)
LEMMA FailedOpens ==
    ASSUME NEW t, ProjectionOk(t), Coherent(t), NEW c \in Commands,
           c.type = "place" => t.byClient[c.cid] = c.id,
           NEW r \in {NoResult, Failure(c, "rejected"), Failure(c, "failed")}
    PROVE  OpensNone(t, ApplyFailed(t, c, r))
<1> DEFINE u == ApplyFailed(t, c, r)
<1>1. /\ u.byClient = t.byClient /\ u.placements = t.placements
      /\ \A j \in Keys : j # c.id => u.orders[j] = t.orders[j]
      /\ c.type = "place" => t.orders[c.id].cid = c.cid
      /\ c.type # "place" \/ ~HasOrder(t, c.id) => u.orders[c.id] = t.orders[c.id]
      /\ c.type = "place" /\ HasOrder(t, c.id) =>
           IF r = NoResult THEN u.orders[c.id].status = "execution_unknown"
           ELSE u.orders[c.id].status = r.status /\ u.orders[c.id].result = r.status
  BY FailedKeeps
<1>2. r = NoResult \/ r.status \in {"rejected", "failed"}
  BY DEF Failure, PlaceResult, CancelResult
<1> HIDE DEF u
<1>3. OpensNone(t, u)
  BY <1>1, <1>2 DEF OpensNone
<1> QED BY <1>3 DEF u

(* ACTION_EXECUTED of a cancellation opens no order.                          *)
LEMMA CancelledOpens ==
    ASSUME NEW t, ProjectionOk(t), NEW c \in Commands, c.type # "place"
    PROVE  OpensNone(t, ApplyExecuted(t, c, Success(c)))
<1> DEFINE u == ApplyExecuted(t, c, Success(c))
           k == t.byExchange[c.target]
<1>1. /\ u.byClient = t.byClient /\ u.placements = t.placements
      /\ \A j \in Keys : k = NoId \/ j # k => u.orders[j] = t.orders[j]
      /\ k # NoId => u.orders[k].status = "cancelled"
  BY CancelledKeeps
<1> HIDE DEF u, k
<1>2. OpensNone(t, u)
  BY <1>1 DEF OpensNone
<1> QED BY <1>2 DEF u

(* ACTION_EXECUTED of a placement opens its order, of which the feed still    *)
(* tells.                                                                     *)
LEMMA PlacedOpens ==
    ASSUME NEW L, NEW t, ProjectionOk(t), Coherent(t), NEW c \in Commands, c.type = "place",
           t.byClient[c.cid] = c.id, NEW f, Pending(f, c.cid) \/ c.cid \in L
    PROVE  OpensTold(t, ApplyExecuted(t, c, Success(c)), f, L)
<1> DEFINE u == ApplyExecuted(t, c, Success(c))
<1>1. /\ u.placements = t.placements
      /\ u.byClient = t.byClient
      /\ \A j \in Keys : j # c.id => u.orders[j] = t.orders[j]
      /\ u.orders[c.id].status = "open"
      /\ u.orders[c.id].cid = c.cid
  BY PlacedKeeps
<1>2. c.cid \in Cids
  BY GatewayAssumption DEF Places
<1> HIDE DEF u
<1>3. OpensTold(t, u, f, L)
  BY <1>1, <1>2 DEF OpensTold
<1> QED BY <1>3 DEF u

(* Fail keeps the projection on its way to the truth.                         *)
LEMMA FailSettled ==
    ASSUME NEW L, GatewayInv, SettledInv(L), Alone, NEW p \in Procs, Fail(p)
    PROVE  SettledInv(L)'
<1> DEFINE c == proc[p].cmd
<1>1. /\ At(p, "fail") /\ ~At(p, "idle") /\ truth' = ApplyFailed(truth, c, NoResult)
      /\ proc' = [proc EXCEPT ![p] = IdleProc] /\ venue' = venue /\ feed' = feed
  BY DEF Fail, Return, At, LeaveWorld
<1>2. /\ ProjectionOk(truth) /\ Coherent(truth) /\ c \in Commands
      /\ SubmissionOk(proc[p], truth, sent)
  BY <1>1, InSubmission
<1>3. c.type = "place" => truth.byClient[c.cid] = c.id
  BY <1>1, <1>2 DEF SubmissionOk, At, Afterwards
<1>4. Grows(truth, truth')
  BY FailStep
<1>5. OpensNone(truth, truth')
  <2> HIDE DEF c
  <2> QED BY <1>1, <1>2, <1>3, FailedOpens
<1> QED BY <1>1, <1>4, <1>5, IdleReported, SettledSubmission

(* Each record of the try block makes an order open only when the feed will   *)
(* tell of it too.                                                            *)
LEMMA RecordOpens ==
    ASSUME NEW L, GatewayInv, SettledInv(L), RuntimeOnly, NEW p \in Procs, InTry(p)
    PROVE  OpensTold(truth, AfterRecord(p), feed, L)
<1> DEFINE c == proc[p].cmd
           r == proc[p].result
           u == AfterRecord(p)
<1>1. ~At(p, "idle") /\ proc[p].pc \in Afterwards
  BY DEF InTry, At, Afterwards
<1>2. /\ ProjectionOk(truth) /\ Coherent(truth) /\ c \in Commands /\ p \in c.by
      /\ SubmissionOk(proc[p], truth, sent)
  BY <1>1, InSubmission
<1>3. c.type = "place" => truth.byClient[c.cid] = c.id
  BY <1>1, <1>2 DEF SubmissionOk
<1>4. Reported(proc[p], feed, L)
  BY <1>2 DEF RuntimeOnly, SettledInv
<1>5. OpensNone(truth, u) => OpensTold(truth, u, feed, L)
  <2> HIDE DEF u
  <2> QED BY DEF OpensNone, OpensTold
<1>6. CASE At(p, "executed")
  <2>1. r = Success(c)
    BY <1>2, <1>6 DEF SubmissionOk, At
  <2>2. u = ApplyExecuted(truth, c, Success(c))
    BY <1>6, <2>1 DEF AfterRecord, At
  <2>3. c.type = "place" => Pending(feed, c.cid) \/ c.cid \in L
    BY <1>4, <1>6, <2>1 DEF Reported, At
  <2>4. CASE c.type = "place"
    <3> HIDE DEF c, u
    <3>1. OpensTold(truth, u, feed, L)
      BY <1>2, <1>3, <2>2, <2>3, <2>4, PlacedOpens
    <3> QED BY <3>1 DEF u
  <2>5. CASE c.type # "place"
    <3> HIDE DEF c, u
    <3>1. OpensNone(truth, u)
      BY <1>2, <2>2, <2>5, CancelledOpens
    <3> QED BY <1>5, <3>1 DEF u
  <2> QED BY <2>4, <2>5
<1>7. CASE At(p, "placement")
  <2>1. u = ApplyPlacement(truth, c, "accepted")
    BY <1>7 DEF AfterRecord, AfterPlacement, At
  <2> HIDE DEF c, u
  <2>2. u.orders = truth.orders
    BY <1>2, <2>1, PlacementFacts
  <2>3. OpensNone(truth, u)
    BY <2>2 DEF OpensNone
  <2> QED BY <1>5, <2>3 DEF u
<1>8. CASE At(p, "fail_result")
  <2>1. r \in {NoResult, Failure(c, "rejected"), Failure(c, "failed")}
    BY <1>2, <1>8 DEF SubmissionOk, At
  <2>2. u = ApplyFailed(truth, c, r)
    BY <1>8 DEF AfterRecord, At
  <2> HIDE DEF c, u, r
  <2>3. OpensNone(truth, u)
    BY <1>2, <1>3, <2>1, <2>2, FailedOpens
  <2> QED BY <1>5, <2>3 DEF u
<1> QED BY <1>6, <1>7, <1>8 DEF InTry, At

(* Record keeps the projection on its way to the truth.                       *)
LEMMA RecordSettled ==
    ASSUME NEW L, GatewayInv, SettledInv(L), RuntimeOnly, NEW p \in Procs, Record(p)
    PROVE  SettledInv(L)'
<1>1. /\ InTry(p) /\ truth' = AfterRecord(p) /\ LeaveWorld /\ proc[p].pc \in Afterwards
  BY DEF Record, InTry, Afterwards
<1>2. Grows(truth, truth') /\ OpensTold(truth, truth', feed, L)
  BY <1>1, RecordMoves, RecordOpens DEF Moves
<1>3. CASE At(p, "executed") /\ Goto(p, "placement")
  <2>1. "placement" \in Afterwards /\ proc[p].pc = "executed"
    BY <1>3 DEF Afterwards, At
  <2> QED BY <1>1, <1>2, <1>3, <2>1, AfterwardsSettled
<1>4. CASE Return(p)
  <2>1. proc' = [proc EXCEPT ![p] = IdleProc] /\ venue' = venue /\ feed' = feed
    BY <1>1, <1>4 DEF Return, LeaveWorld
  <2> QED BY <1>2, <2>1, IdleReported, SettledRecord
<1> QED BY <1>3, <1>4 DEF Record

(* RecordRaises keeps the projection on its way to the truth.                 *)
LEMMA RecordRaisesSettled ==
    ASSUME NEW L, GatewayInv, SettledInv(L), RuntimeOnly, NEW p \in Procs, RecordRaises(p)
    PROVE  SettledInv(L)'
<1>1. /\ InTry(p) /\ truth' \in {truth, AfterRecord(p)} /\ LeaveWorld /\ Goto(p, "error")
      /\ proc[p].pc \in Afterwards /\ "error" \in Afterwards
  BY DEF RecordRaises, InTry, Afterwards
<1>2. Grows(truth, AfterRecord(p)) /\ OpensTold(truth, AfterRecord(p), feed, L)
  BY <1>1, RecordMoves, RecordOpens DEF Moves
<1>3. Grows(truth, truth) /\ OpensTold(truth, truth, feed, L)
  BY DEF Grows, OpensTold
<1>4. Grows(truth, truth') /\ OpensTold(truth, truth', feed, L)
  BY <1>1, <1>2, <1>3
<1> QED BY <1>1, <1>4, AfterwardsSettled

(* The venue opens or closes an order, and the feed will tell.                *)
LEMMA VenueSettled ==
    ASSUME NEW L, NEW t, NEW v, NEW f, OpenKnown(t, v, f, L), LastUpdateTrue(v, f),
           NEW x, NEW w, NEW u, Reports(v, f, x, w, u)
    PROVE  /\ OpenKnown(t, w, Append(f, u), L) /\ LastUpdateTrue(w, Append(f, u))
           /\ Pending(Append(f, u), x)
           /\ \A y : Pending(f, y) => Pending(Append(f, u), y)
<1> DEFINE g == Append(f, u)
           m == Len(f)
<1> USE DEF Reports
<1>1. /\ m \in Nat /\ Len(g) = m + 1 /\ g[m + 1] = u /\ \A j \in 1..m : g[j] = f[j] /\ f[j] \in Updates
  OBVIOUS
<1> HIDE DEF g, m
<1>2. Pending(g, x)
  BY <1>1 DEF Pending
<1>3. ASSUME NEW y, Pending(f, y) PROVE Pending(g, y)
  BY <1>1, <1>3 DEF Pending, m
<1>4. OpenKnown(t, w, g, L)
  BY <1>2, <1>3 DEF OpenKnown
<1>5. ASSUME NEW i \in 1..Len(g), \A j \in 1..Len(g) : j > i => g[j].cid # g[i].cid
      PROVE  g[i].status = w[g[i].cid]
  <2>1. CASE i = m + 1
    BY <1>1, <2>1
  <2>2. CASE i # m + 1
    <3>1. i \in 1..m /\ m + 1 > i /\ m + 1 \in 1..Len(g)
      BY <1>1, <2>2
    <3>2. g[i] = f[i] /\ f[i].cid \in Cids /\ f[i].cid # x
      BY <1>1, <1>5, <3>1 DEF Updates
    <3>3. \A j \in 1..m : j > i => f[j].cid # f[i].cid
      BY <1>1, <1>5, <3>1
    <3>4. f[i].status = v[f[i].cid]
      BY <3>1, <3>3 DEF LastUpdateTrue, m
    <3> QED BY <3>2, <3>4
  <2> QED BY <2>1, <2>2
<1>6. LastUpdateTrue(w, g)
  BY <1>5 DEF LastUpdateTrue
<1> QED BY <1>2, <1>3, <1>4, <1>6 DEF g

(* A change at the venue is the last update the feed has of its order.        *)
LEMMA VenueSetSettled ==
    ASSUME NEW L, GatewayInv, SettledInv(L),
           NEW x \in Cids, NEW status \in {"open", "filled", "cancelled"}, Turns(venue, x, status),
           x \in Known, VenueSet(x, status), x \in ExternalCids \/ truth.byClient[x] # NoId
    PROVE  /\ OpenKnown(truth, venue', feed', L) /\ LastUpdateTrue(venue', feed')
           /\ Pending(feed', x) /\ \A y : Pending(feed, y) => Pending(feed', y)
<1> DEFINE u == Update(x, status)
<1>1. TypeOK /\ WorldOk(truth, venue, feed)
  BY DEF GatewayInv
<1>2. u \in Updates /\ feed' = Append(feed, u) /\ venue' = [venue EXCEPT ![x] = status]
  BY <1>1, VenueSetFacts DEF VenueSet
<1>3. u.cid = x /\ u.status = status
  BY DEF Update
<1>4. /\ venue \in [Cids -> {"none", "open", "filled", "cancelled"}] /\ feed \in Seq(Updates)
      /\ OpenKnown(truth, venue, feed, L) /\ LastUpdateTrue(venue, feed)
  BY <1>1 DEF TypeOK, SettledInv
<1> HIDE DEF u
<1>5. venue'[x] = status /\ \A y \in Cids : y # x => venue'[y] = venue[y]
  BY <1>2, <1>4
<1>6. Reports(venue, feed, x, venue', u)
  BY <1>2, <1>3, <1>4, <1>5 DEF Reports
<1>7. /\ OpenKnown(truth, venue', Append(feed, u), L) /\ LastUpdateTrue(venue', Append(feed, u))
      /\ Pending(Append(feed, u), x)
      /\ \A y : Pending(feed, y) => Pending(Append(feed, u), y)
  BY <1>4, <1>6, VenueSettled
<1> QED BY <1>2, <1>7

(* The venue's own changes keep the projection on its way to the truth.       *)
LEMMA VenueAloneSettled ==
    ASSUME NEW L, GatewayInv, SettledInv(L), NEW x \in Cids, NEW status \in {"open", "filled"},
           Turns(venue, x, status), x \in ExternalCids \/ venue[x] = "open",
           VenueSet(x, status), UNCHANGED <<truth, proc, submits, sent>>
    PROVE  SettledInv(L)'
<1>1. WorldOk(truth, venue, feed)
  BY DEF GatewayInv
<1>2. x \in Known /\ (x \in ExternalCids \/ truth.byClient[x] # NoId)
  BY <1>1 DEF WorldOk, Known
<1>3. /\ OpenKnown(truth, venue', feed', L) /\ LastUpdateTrue(venue', feed')
      /\ \A y : Pending(feed, y) => Pending(feed', y)
  BY <1>2, VenueSetSettled
<1>4. Reported(proc[Runtime], feed', L)
  BY <1>3 DEF SettledInv, Reported
<1> QED BY <1>3, <1>4 DEF SettledInv

(* The order of a place command that is about to be sent is not at the venue. *)
LEMMA AboutToPlace ==
    ASSUME GatewayInv, OrdersInv, NEW p \in Procs, At(p, "execute"), proc[p].cmd.type = "place"
    PROVE  LET c == proc[p].cmd
           IN  /\ c.cid \in Cids /\ c.cid \in Ours /\ c.cid \in Known /\ venue[c.cid] = "none"
               /\ truth.byClient[c.cid] = c.id /\ c.id # NoId
<1> DEFINE c == proc[p].cmd
<1>1. ~At(p, "idle")
  BY DEF At
<1>2. /\ c \in Commands /\ SubmissionOk(proc[p], truth, sent) /\ c.id \in Actions
      /\ OrdersOk(truth, venue, sent)
  BY <1>1, InSubmission, InOrders
<1>3. sent[c.id] = 0 /\ truth.byClient[c.cid] = c.id
  BY <1>2 DEF SubmissionOk, At, Unsent
<1>4. c.cid \in Cids /\ c.cid \in Ours /\ c.cid \in Known /\ c.id # NoId
  BY <1>2, GatewayAssumption DEF Places, Ours, Known
<1>5. venue[c.cid] = "none"
  <2>1. venue[c.cid] # "none" => sent[truth.byClient[c.cid]] = 1
    <3> HIDE DEF c
    <3> QED BY <1>2, <1>4 DEF OrdersOk
  <2> QED BY <1>3, <2>1
<1> QED BY <1>3, <1>4, <1>5

(* Execute keeps the projection on its way to the truth.                      *)
LEMMA ExecuteSettled ==
    ASSUME NEW L, GatewayInv, OrdersInv, SettledInv(L), RuntimeOnly, NEW p \in Procs, Execute(p)
    PROVE  SettledInv(L)'
<1> DEFINE c == proc[p].cmd
<1>1. /\ At(p, "execute") /\ ~At(p, "idle") /\ truth' = truth /\ (TakesEffect(c) \/ VenueSame)
  BY DEF Execute, At
<1>2. /\ TypeOK /\ c \in Commands /\ p \in c.by /\ c.target \in Cids
  BY <1>1, InSubmission, GatewayAssumption
<1>3. p = Runtime
  BY <1>2 DEF RuntimeOnly
<1>4. c.type = "place" => /\ c.cid \in Cids /\ c.cid \in Known /\ venue[c.cid] = "none"
                          /\ truth.byClient[c.cid] # NoId
  BY <1>1, AboutToPlace
<1>5. /\ OpenKnown(truth, venue', feed', L) /\ LastUpdateTrue(venue', feed')
      /\ TakesEffect(c) /\ c.type = "place" => Pending(feed', c.cid)
  <2>1. CASE VenueSame /\ ~TakesEffect(c)
    BY <2>1 DEF VenueSame, SettledInv
  <2>2. CASE c.type = "place" /\ TakesEffect(c)
    <3> HIDE DEF c
    <3>1. VenueSet(c.cid, "open") /\ Turns(venue, c.cid, "open")
      BY <1>4, <2>2 DEF TakesEffect, Turns
    <3> QED BY <1>4, <2>2, <3>1, VenueSetSettled
  <2>3. CASE c.type # "place" /\ TakesEffect(c)
    <3> HIDE DEF c
    <3>1. VenueSet(c.target, "cancelled") /\ venue[c.target] = "open"
      BY <2>3 DEF TakesEffect
    <3>2. Turns(venue, c.target, "cancelled")
      BY <3>1 DEF Turns
    <3>3. c.target \in Known /\ (c.target \in ExternalCids \/ truth.byClient[c.target] # NoId)
      BY <1>2, <3>1 DEF GatewayInv, WorldOk
    <3> QED BY <1>2, <2>3, <3>1, <3>2, <3>3, VenueSetSettled
  <2> QED BY <1>1, <2>1, <2>2, <2>3
<1>6. Reported(proc'[p], feed', L)
  <2>0. proc = [q \in Procs |-> [pc |-> proc[q].pc, cmd |-> proc[q].cmd,
                                 view |-> proc[q].view, result |-> proc[q].result]]
    BY <1>2 DEF TypeOK
  <2>1. CASE Goto(p, "error")
    <3>1. proc'[p].pc = "error"
      BY <2>0, <2>1 DEF Goto
    <3> QED BY <3>1 DEF Reported
  <2>2. ASSUME NEW r, Answer(p, r),
               \/ r = Success(c) /\ TakesEffect(c)
               \/ r \in {Failure(c, "rejected"), Failure(c, "failed")}
        PROVE  Reported(proc'[p], feed', L)
    <3>1. proc'[p] = [proc[p] EXCEPT !.pc = "settle", !.result = r]
      BY <2>0, <2>2 DEF Answer
    <3>2. proc'[p].cmd = c /\ proc'[p].result = r
      <4>1. proc[p] = [pc |-> proc[p].pc, cmd |-> proc[p].cmd,
                       view |-> proc[p].view, result |-> proc[p].result]
        BY <2>0
      <4> QED BY <3>1, <4>1
    <3> HIDE DEF c
    <3>3. /\ Success(c).status \notin {"rejected", "failed"}
          /\ Failure(c, "rejected").status = "rejected" /\ Failure(c, "failed").status = "failed"
      BY DEF Success, Failure, PlaceResult, CancelResult
    <3>4. r = Success(c) => TakesEffect(c)
      BY <2>2, <3>3
    <3> QED BY <1>5, <3>2, <3>4 DEF Reported
  <2>3. \/ Goto(p, "error")
        \/ \E r : /\ Answer(p, r)
                  /\ \/ r = Success(c) /\ TakesEffect(c)
                     \/ r \in {Failure(c, "rejected"), Failure(c, "failed")}
    BY DEF Execute
  <2> QED BY <2>1, <2>2, <2>3
<1> QED BY <1>1, <1>3, <1>5, <1>6 DEF SettledInv

(* An update changes the order under k, and gives its identifier to k.        *)
Updated(t, q, u, k) ==
    /\ k \in Keys /\ t.byClient[u.cid] \in {NoId, k}
    /\ t.byClient[u.cid] = NoId => k = u.cid
    /\ q.byClient = [t.byClient EXCEPT ![u.cid] = k]
    /\ \A j \in Keys : j # k => q.orders[j] = t.orders[j]
    /\ q.orders[k].cid = u.cid /\ q.orders[k].status = u.status

(* An update changes the order it names and no other.                         *)
LEMMA UpdateKeeps ==
    ASSUME NEW t, ProjectionOk(t), Coherent(t), NEW u \in Updates, u.xid = u.cid
    PROVE  \E k : Updated(t, ApplyUpdate(t, u), u, k)
<1> DEFINE q == ApplyUpdate(t, u)
           x == u.cid
           k == IF t.byClient[x] = NoId THEN x ELSE t.byClient[x]
<1>a. Applied(t, q, u, k)
  BY UpdateFacts
<1>1. /\ ProjectionOk(q) /\ k \in Keys
      /\ q.requested = t.requested /\ q.placements = t.placements
      /\ q.actions = t.actions
      /\ q.byClient = [t.byClient EXCEPT ![x] = k]
      /\ q.byExchange = [t.byExchange EXCEPT ![x] = k]
      /\ q.owners.client = [t.owners.client EXCEPT ![x] = k]
      /\ q.owners.exchange = [t.owners.exchange EXCEPT ![x] = k]
      /\ q.owners.collision = t.owners.collision
      /\ \A j \in Keys : j # k => q.orders[j] = t.orders[j]
      /\ q.orders[k].cid = x /\ q.orders[k].xid = x
      /\ q.orders[k].status = u.status /\ q.orders[k].result = t.orders[k].result
  <2> HIDE DEF q, k
  <2> QED BY <1>a DEF Applied
<1>2. t.byClient[x] \in {NoId, k} /\ (t.byClient[x] = NoId => k = x)
  OBVIOUS
<1> HIDE DEF q, k
<1>3. Updated(t, q, u, k)
  BY <1>1, <1>2 DEF Updated
<1> QED BY <1>3 DEF q

(* The projection takes the next update: the order it is about is as the      *)
(* venue has it, or a later update will tell.                                 *)
LEMMA UpdateSettled ==
    ASSUME NEW L, NEW t, ProjectionOk(t), Coherent(t), NEW f \in Seq(Updates), f # << >>,
           NEW u \in Updates, u = f[1], u.xid = u.cid, NEW v, OpenKnown(t, v, f, L), LastUpdateTrue(v, f)
    PROVE  OpenKnown(ApplyUpdate(t, u), v, Tail(f), L) /\ LastUpdateTrue(v, Tail(f))
<1> DEFINE g == Tail(f)
           m == Len(f)
           q == ApplyUpdate(t, u)
           x == u.cid
<1>0. /\ u \in Updates /\ m \in Nat /\ m >= 1 /\ Len(g) = m - 1
      /\ \A i \in 1..Len(g) : g[i] = f[i + 1]
  OBVIOUS
<1>1. PICK k : Updated(t, q, u, k)
  BY UpdateKeeps
<1>2. /\ t.byClient[x] \in {NoId, k} /\ x \in Cids /\ t.byClient \in [Cids -> Keys \cup {NoId}]
  BY <1>0, <1>1 DEF Updates, ProjectionOk, Updated
<1>3. NoId \notin Keys
  BY GatewayAssumption DEF Keys
<1> HIDE DEF q, g
<1> USE DEF Updated
<1>4. ASSUME NEW y, NEW i \in 1..m, f[i].cid = y, i # 1 PROVE Pending(g, y)
  <2>1. i - 1 \in 1..Len(g) /\ g[i - 1] = f[i]
    BY <1>0, <1>4
  <2> QED BY <1>4, <2>1 DEF Pending
<1>5. ASSUME NEW j \in Keys, q.orders[j].status = "open"
      PROVE  LET y == q.orders[j].cid
             IN  y \in Cids /\ q.byClient[y] = j /\ (v[y] = "open" \/ Pending(g, y) \/ y \in L)
  <2>1. CASE j = k
    <3>1. q.orders[j].cid = x /\ q.byClient[x] = j /\ u.status = "open"
      BY <1>1, <1>2, <1>5, <2>1
    <3>2. Pending(g, x) \/ v[x] = "open"
      <4>1. CASE \A i \in 1..m : i > 1 => f[i].cid # f[1].cid
        <5>1. f[1].status = v[f[1].cid]
          BY <1>0, <4>1 DEF LastUpdateTrue
        <5> QED BY <3>1, <5>1
      <4>2. CASE \E i \in 1..m : i > 1 /\ f[i].cid = f[1].cid
        BY <1>4, <4>2
      <4> QED BY <4>1, <4>2
    <3> QED BY <1>2, <3>1, <3>2
  <2>2. CASE j # k
    <3> DEFINE y == t.orders[j].cid
    <3>1. q.orders[j] = t.orders[j] /\ t.orders[j].status = "open"
      BY <1>1, <1>5, <2>2
    <3>2. y \in Cids /\ t.byClient[y] = j /\ (v[y] = "open" \/ Pending(f, y) \/ y \in L)
      BY <3>1 DEF OpenKnown
    <3> HIDE DEF y
    <3>3. y # x
      BY <1>2, <1>3, <2>2, <3>2
    <3>4. q.byClient[y] = j
      BY <1>1, <1>2, <3>2, <3>3
    <3>5. Pending(f, y) => Pending(g, y)
      BY <1>4, <3>3 DEF Pending
    <3> QED BY <3>1, <3>2, <3>4, <3>5 DEF y
  <2> QED BY <2>1, <2>2
<1>6. OpenKnown(q, v, g, L)
  BY <1>5 DEF OpenKnown
<1>7. ASSUME NEW i \in 1..Len(g), \A j \in 1..Len(g) : j > i => g[j].cid # g[i].cid
      PROVE  g[i].status = v[g[i].cid]
  <2>1. i + 1 \in 1..m /\ g[i] = f[i + 1]
    BY <1>0
  <2>2. ASSUME NEW j \in 1..m, j > i + 1 PROVE f[j].cid # f[i + 1].cid
    <3>1. j - 1 \in 1..Len(g) /\ j - 1 > i /\ g[j - 1] = f[j]
      BY <1>0, <2>1, <2>2
    <3> QED BY <1>7, <2>1, <3>1
  <2>3. f[i + 1].status = v[f[i + 1].cid]
    BY <2>1, <2>2 DEF LastUpdateTrue
  <2> QED BY <2>1, <2>3
<1>8. LastUpdateTrue(v, g)
  BY <1>7 DEF LastUpdateTrue
<1> QED BY <1>6, <1>8 DEF q, g

(* Deliver keeps the projection on its way to the truth.                      *)
LEMMA DeliverSettled ==
    ASSUME NEW L, GatewayInv, SettledInv(L), Deliver
    PROVE  SettledInv(L)'
<1>1. /\ At(Runtime, "idle") /\ feed # << >> /\ truth' = ApplyUpdate(truth, Head(feed))
      /\ feed' = Tail(feed) /\ proc' = proc /\ venue' = venue
  BY DEF Deliver
<1>2. /\ ProjectionOk(truth) /\ Coherent(truth) /\ feed \in Seq(Updates)
      /\ WorldOk(truth, venue, feed)
      /\ OpenKnown(truth, venue, feed, L) /\ LastUpdateTrue(venue, feed)
  BY DEF GatewayInv, TypeOK, SettledInv
<1>3. Head(feed) = feed[1] /\ 1 \in 1..Len(feed)
  BY <1>1, <1>2
<1>4. feed[1] \in Updates /\ feed[1].xid = feed[1].cid
  BY <1>2, <1>3 DEF WorldOk
<1>5. OpenKnown(truth', venue, feed', L) /\ LastUpdateTrue(venue, feed')
  BY <1>1, <1>2, <1>3, <1>4, UpdateSettled
<1>6. Reported(proc[Runtime], feed', L)
  BY <1>1 DEF Reported, At
<1> QED BY <1>1, <1>5, <1>6 DEF SettledInv

(* Every step keeps the projection on its way to the truth.                   *)
LEMMA SettledInductive ==
    ASSUME NEW L, GatewayInv, OrdersInv, SettledInv(L), RuntimeOnly, [Next]_vars
    PROVE  SettledInv(L)'
<1> Alone
  BY RuntimeAlone
<1>1. ASSUME NEW p \in Procs, Step(p) PROVE SettledInv(L)'
  BY <1>1, BeginSettled, RequestSettled, RejectSettled, AcceptSettled, RecordLogicalSettled,
     RecordStagedSettled, StartSettled, ExecuteSettled, SettleSettled, RecordSettled,
     RecordRaisesSettled, RecordErrorSettled, FailSettled, AbandonSettled DEF Step
<1>2. CASE Deliver
  BY <1>2, DeliverSettled
<1>3. CASE VenueFills
  BY <1>3, VenueAloneSettled DEF VenueFills, Turns
<1>4. CASE VenueExternal
  BY <1>4, VenueAloneSettled, GatewayAssumption DEF VenueExternal, Turns
<1>5. CASE UNCHANGED vars
  BY <1>5 DEF vars, SettledInv
<1> QED BY <1>1, <1>2, <1>3, <1>4, <1>5 DEF Next

(* It is there to begin with.                                                 *)
LEMMA SettledInit == ASSUME NEW L, Init PROVE SettledInv(L)
<1>1. /\ truth = Empty /\ feed = << >> /\ proc = [p \in Procs |-> IdleProc] /\ Runtime \in Procs
  BY GatewayAssumption DEF Init
<1>2. \A k \in Keys : Empty.orders[k].status # "open"
  BY DEF Empty, NoOrder, Absent
<1>3. proc[Runtime] = IdleProc
  BY <1>1
<1>4. Reported(proc[Runtime], feed, L)
  BY <1>3, IdleReported
<1> QED BY <1>1, <1>2, <1>4 DEF SettledInv, OpenKnown, LastUpdateTrue

(* The other way round: an order that is open at the venue is open on record, *)
(* or the feed will tell.                                                     *)
OpenOnRecord(t, x) ==
    /\ t.byClient[x] # NoId
    /\ OrderOf(t, x).cid = x /\ OrderOf(t, x).status = "open"

OpenTold(t, v, f) == \A x \in Cids : v[x] = "open" => Pending(f, x) \/ OpenOnRecord(t, x)

(* While the submission that sent an order has yet to say what came of it,    *)
(* the feed still has the update of it.                                       *)
SentTold(pr, v, f) ==
    pr.pc \in Afterwards /\ pr.cmd.type = "place" /\ v[pr.cmd.cid] = "open"
      => Pending(f, pr.cmd.cid)

ToldInv == OpenTold(truth, venue, feed) /\ SentTold(proc[Runtime], venue, feed)

(* A record from t to u changes at most the order under k, and what it is     *)
(* under only when no order is open there or the feed still tells of it.      *)
ChangesTold(t, u, v, f, k) ==
    /\ \A j \in Keys : j # k => u.orders[j] = t.orders[j]
    /\ \A x \in Cids : t.byClient[x] = k /\ k \in Keys /\ v[x] = "open" =>
         \/ Pending(f, x)
         \/ u.orders[k].cid = t.orders[k].cid /\ u.orders[k].status = t.orders[k].status

(* Such a record keeps what is open at the venue told.                        *)
LEMMA RecordTold ==
    ASSUME NEW t, ProjectionOk(t), NEW u, NEW v, NEW f, OpenTold(t, v, f), Grows(t, u),
           NEW k, ChangesTold(t, u, v, f, k)
    PROVE  OpenTold(u, v, f)
<1> SUFFICES ASSUME NEW x \in Cids, v[x] = "open", ~Pending(f, x) PROVE OpenOnRecord(u, x)
  BY DEF OpenTold
<1>1. OpenOnRecord(t, x)
  BY DEF OpenTold
<1>2. t.byClient[x] \in Keys /\ u.byClient[x] = t.byClient[x]
  BY <1>1 DEF OpenOnRecord, Grows, ProjectionOk
<1> QED BY <1>1, <1>2 DEF OpenOnRecord, OrderOf, ChangesTold

(* A step of a submission that leaves the venue alone.                        *)
LEMMA SubmissionTold ==
    ASSUME GatewayInv, ToldInv, NEW p \in Procs, NEW n, proc' = [proc EXCEPT ![p] = n],
           SentTold(n, venue, feed), Grows(truth, truth'),
           NEW k, ChangesTold(truth, truth', venue, feed, k), venue' = venue, feed' = feed
    PROVE  ToldInv'
<1>1. OpenTold(truth', venue', feed')
  BY RecordTold DEF ToldInv, GatewayInv, TypeOK
<1>2. proc'[Runtime] \in {n, proc[Runtime]}
  <2>1. proc = [q \in Procs |-> [pc |-> proc[q].pc, cmd |-> proc[q].cmd,
                                 view |-> proc[q].view, result |-> proc[q].result]]
    BY DEF GatewayInv, TypeOK
  <2>2. Runtime \in Procs
    BY GatewayAssumption
  <2> QED BY <2>1, <2>2
<1>3. SentTold(proc'[Runtime], venue', feed')
  BY <1>2 DEF ToldInv
<1> QED BY <1>1, <1>3 DEF ToldInv

(* An idle process has sent nothing.                                          *)
LEMMA IdleTold == SentTold(IdleProc, venue, feed)
  BY DEF SentTold, IdleProc, Afterwards

(* A step that records nothing.                                               *)
LEMMA SilentTold ==
    ASSUME GatewayInv, ToldInv, NEW p \in Procs, NEW n, proc' = [proc EXCEPT ![p] = n],
           SentTold(n, venue, feed), truth' = truth, venue' = venue, feed' = feed
    PROVE  ToldInv'
<1>1. Grows(truth, truth') /\ ChangesTold(truth, truth', venue, feed, NoId)
  BY DEF Grows, ChangesTold
<1> QED BY <1>1, SubmissionTold

(* No client order id stands for an action that is undecided.                 *)
LEMMA UndecidedFree ==
    ASSUME NEW t, Coherent(t), NEW a \in Actions, ~Decided(t, a)
    PROVE  \A x \in Cids : t.byClient[x] # a
  BY DEF Coherent

(* Request keeps what is open told.                                           *)
LEMMA RequestTold ==
    ASSUME GatewayInv, ToldInv, Alone, NEW p \in Procs, Request(p)
    PROVE  ToldInv'
<1> DEFINE c == proc[p].cmd
           n == [proc[p] EXCEPT !.pc = "decide"]
<1>1. /\ At(p, "request") /\ ~At(p, "idle") /\ truth' = ApplyRequested(truth, c)
      /\ proc' = [proc EXCEPT ![p] = n] /\ venue' = venue /\ feed' = feed
  BY DEF Request, Goto, At, LeaveWorld
<1>2. /\ TypeOK /\ ProjectionOk(truth) /\ Coherent(truth) /\ c \in Commands /\ c.id \in Actions
  BY <1>1, InSubmission
<1>3. n.pc = "decide"
  BY <1>1, <1>2, GotoFacts DEF Pcs
<1>4. Grows(truth, truth')
  BY RequestStep
<1>5. /\ c.id \in truth.requested => truth' = truth
      /\ \A j \in Keys : j # c.id => truth'.orders[j] = truth.orders[j]
  <2> HIDE DEF c
  <2> QED BY <1>1, <1>2, RequestedFacts, ZenonT(40) DEF SameMaps
<1>6. c.id \notin truth.requested => \A x \in Cids : truth.byClient[x] # c.id
  <2>1. c.id \notin truth.requested => ~Decided(truth, c.id)
    BY <1>2 DEF Coherent, Decided
  <2> QED BY <1>2, <2>1, UndecidedFree
<1>7. SentTold(n, venue, feed)
  <2> HIDE DEF n
  <2> QED BY <1>3 DEF SentTold, Afterwards
<1>8. ChangesTold(truth, truth', venue, feed, c.id)
  <2> HIDE DEF c
  <2> QED BY <1>5, <1>6 DEF ChangesTold
<1> HIDE DEF n, c
<1> QED BY <1>1, <1>4, <1>7, <1>8, SubmissionTold

(* Reject keeps what is open told.                                            *)
LEMMA RejectTold ==
    ASSUME GatewayInv, ToldInv, Alone, NEW p \in Procs, Reject(p)
    PROVE  ToldInv'
<1> DEFINE c == proc[p].cmd
<1>1. /\ At(p, "decide") /\ ~At(p, "idle") /\ truth' = ApplyRejected(truth, c, Why(p))
      /\ proc' = [proc EXCEPT ![p] = IdleProc] /\ venue' = venue /\ feed' = feed
  BY DEF Reject, Return, At, LeaveWorld
<1>2. /\ ProjectionOk(truth) /\ Coherent(truth) /\ c \in Commands /\ c.id \in Actions
      /\ SubmissionOk(proc[p], truth, sent)
  BY <1>1, InSubmission
<1>3. Grows(truth, truth')
  BY RejectStep
<1>4. Decided(truth, c.id) => Why(p) = "duplicate_action_id"
  <2>1. Decided(truth, c.id) => proc[p].view.actions[c.id] # Absent
    BY <1>1, <1>2 DEF SubmissionOk, At, Decided
  <2> QED BY <2>1 DEF Why, Rejection
<1>5. /\ Decided(truth, c.id) => truth' = truth
      /\ \A j \in Keys : j # c.id => truth'.orders[j] = truth.orders[j]
  <2> HIDE DEF c
  <2> QED BY <1>1, <1>2, <1>4, RejectedKeeps
<1>6. ChangesTold(truth, truth', venue, feed, c.id)
  <2> HIDE DEF c
  <2> QED BY <1>2, <1>5, UndecidedFree DEF ChangesTold
<1> HIDE DEF c
<1> QED BY <1>1, <1>3, <1>6, IdleTold, SubmissionTold

(* Accept keeps what is open told.                                            *)
LEMMA AcceptTold ==
    ASSUME GatewayInv, ToldInv, Alone, NEW p \in Procs, Accept(p)
    PROVE  ToldInv'
<1> DEFINE c == proc[p].cmd
           n == [proc[p] EXCEPT !.pc = "logical"]
<1>1. /\ At(p, "decide") /\ ~At(p, "idle") /\ truth' = ApplyAccepted(truth, c)
      /\ proc' = [proc EXCEPT ![p] = n] /\ Why(p) = "none" /\ venue' = venue /\ feed' = feed
  BY DEF Accept, Goto, At, LeaveWorld
<1>2. /\ TypeOK /\ ProjectionOk(truth) /\ Coherent(truth) /\ c \in Commands
      /\ c.id \in Actions /\ SubmissionOk(proc[p], truth, sent)
  BY <1>1, InSubmission
<1>3. n.pc = "logical"
  BY <1>1, <1>2, GotoFacts DEF Pcs
<1>4. Grows(truth, truth')
  BY AcceptStep
<1>5. /\ proc[p].view.actions[c.id] = Absent
      /\ c.type = "place" => proc[p].view.byClient[c.cid] \in {NoId, c.id}
  BY <1>1 DEF Why, Rejection, IdentifierTaken
<1>6. /\ ~Decided(truth, c.id)
      /\ c.type = "place" => /\ truth.orders[c.id].cid = c.cid /\ HasOrder(truth, c.id)
                             /\ truth.byClient[c.cid] \in {NoId, c.id}
  BY <1>1, <1>2, <1>5 DEF SubmissionOk, At, Deciding, HasOrder, Absent, Decided
<1>7. c.type = "place" => truth.owners.client[c.cid] \in {NoId, c.id}
  BY <1>2, <1>6 DEF Coherent
<1>8. \A j \in Keys : j # c.id => truth'.orders[j] = truth.orders[j]
  <2>1. c.type = "place" => /\ HasOrder(truth, c.id) /\ truth.orders[c.id].cid = c.cid
                            /\ truth.byClient[c.cid] \in {NoId, c.id}
    BY <1>6
  <2> HIDE DEF c
  <2>2. \A j \in Keys : j # c.id => ApplyAccepted(truth, c).orders[j] = truth.orders[j]
    BY <1>2, <1>7, <2>1, AcceptedKeeps
  <2> QED BY <1>1, <2>2
<1>9. ChangesTold(truth, truth', venue, feed, c.id)
  <2> HIDE DEF c
  <2> QED BY <1>2, <1>6, <1>8, UndecidedFree DEF ChangesTold
<1>10. SentTold(n, venue, feed)
  <2> HIDE DEF n
  <2> QED BY <1>3 DEF SentTold, Afterwards
<1> HIDE DEF n, c
<1> QED BY <1>1, <1>4, <1>9, <1>10, SubmissionTold

(* RecordLogical keeps what is open told.                                     *)
LEMMA RecordLogicalTold ==
    ASSUME GatewayInv, ToldInv, Alone, NEW p \in Procs, RecordLogical(p)
    PROVE  ToldInv'
<1> DEFINE c == proc[p].cmd
           x == IF c.kind = "staged_release" THEN "stage" ELSE "start"
           n == [proc[p] EXCEPT !.view = Empty, !.pc = x]
<1>1. /\ At(p, "logical") /\ ~At(p, "idle") /\ truth' \in {truth, ApplyLogical(truth, c)}
      /\ proc' = [proc EXCEPT ![p].view = Empty, ![p].pc = x] /\ venue' = venue /\ feed' = feed
  BY DEF RecordLogical, At, LeaveWorld
<1>2. TypeOK /\ ProjectionOk(truth) /\ c \in Commands
  BY <1>1, InSubmission
<1>3. proc' = [proc EXCEPT ![p] = n] /\ n.pc = x
  <2>1. proc = [q \in Procs |-> [pc |-> proc[q].pc, cmd |-> proc[q].cmd,
                                 view |-> proc[q].view, result |-> proc[q].result]]
    BY <1>2 DEF TypeOK
  <2> HIDE DEF x
  <2>2. proc' = [proc EXCEPT ![p] = n]
    BY <1>1, <2>1
  <2>3. n.pc = x
    <3>1. proc[p] = [pc |-> proc[p].pc, cmd |-> proc[p].cmd,
                     view |-> proc[p].view, result |-> proc[p].result]
      BY <2>1
    <3> QED BY <3>1
  <2> QED BY <2>2, <2>3
<1>4. Grows(truth, truth')
  BY RecordLogicalStep
<1>5. ChangesTold(truth, truth', venue, feed, NoId)
  <2>1. truth'.orders = truth.orders
    <3> HIDE DEF c
    <3> QED BY <1>1, <1>2, LogicalFacts
  <2> QED BY <2>1 DEF ChangesTold
<1>6. x \in {"stage", "start"}
  OBVIOUS
<1> HIDE DEF n, x
<1>7. SentTold(n, venue, feed)
  BY <1>3, <1>6 DEF SentTold, Afterwards
<1> QED BY <1>1, <1>3, <1>4, <1>5, <1>7, SubmissionTold

(* RecordStaged keeps what is open told.                                      *)
LEMMA RecordStagedTold ==
    ASSUME GatewayInv, ToldInv, Alone, NEW p \in Procs, RecordStaged(p)
    PROVE  ToldInv'
<1> DEFINE c == proc[p].cmd
<1>1. /\ At(p, "stage") /\ ~At(p, "idle") /\ truth' = ApplyPlacement(truth, c, "staged")
      /\ proc' = [proc EXCEPT ![p] = IdleProc] /\ venue' = venue /\ feed' = feed
  BY DEF RecordStaged, Return, At, LeaveWorld
<1>2. ProjectionOk(truth) /\ c \in Commands
  BY <1>1, InSubmission
<1>3. Grows(truth, truth')
  BY RecordStagedStep
<1> HIDE DEF c
<1>4. truth'.orders = truth.orders
  BY <1>1, <1>2, PlacementFacts
<1>5. ChangesTold(truth, truth', venue, feed, NoId)
  BY <1>4 DEF ChangesTold
<1> QED BY <1>1, <1>3, <1>5, IdleTold, SubmissionTold

(* Start keeps what is open told.                                             *)
LEMMA StartTold ==
    ASSUME GatewayInv, ToldInv, Alone, NEW p \in Procs, Start(p)
    PROVE  ToldInv'
<1> DEFINE c == proc[p].cmd
           n == [proc[p] EXCEPT !.pc = "execute"]
<1>1. /\ At(p, "start") /\ ~At(p, "idle") /\ truth' = ApplyStarted(truth, c)
      /\ proc' = [proc EXCEPT ![p] = n] /\ venue' = venue /\ feed' = feed
  BY DEF Start, Goto, At, LeaveWorld
<1>2. TypeOK /\ ProjectionOk(truth) /\ c \in Commands
  BY <1>1, InSubmission
<1>3. n.pc = "execute"
  BY <1>1, <1>2, GotoFacts DEF Pcs
<1>4. Grows(truth, truth')
  BY StartStep
<1>5. ChangesTold(truth, truth', venue, feed, c.id)
  <2> HIDE DEF c
  <2>1. /\ SameButStatus(truth, truth', c.id)
        /\ truth'.orders[c.id].status = truth.orders[c.id].status
    BY <1>1, <1>2, StartedFacts
  <2> QED BY <2>1 DEF ChangesTold, SameButStatus
<1> HIDE DEF n
<1>6. SentTold(n, venue, feed)
  BY <1>3 DEF SentTold, Afterwards
<1> QED BY <1>1, <1>4, <1>5, <1>6, SubmissionTold

(* A submission of the runtime's that has sent its command.                   *)
LEMMA SentKnown ==
    ASSUME GatewayInv, ToldInv, RuntimeOnly, NEW p \in Procs, proc[p].pc \in Afterwards
    PROVE  /\ ~At(p, "idle") /\ TypeOK /\ ProjectionOk(truth) /\ Coherent(truth)
           /\ proc[p].cmd \in Commands /\ SubmissionOk(proc[p], truth, sent)
           /\ proc[p].cmd.type = "place" => truth.byClient[proc[p].cmd.cid] = proc[p].cmd.id
           /\ p = Runtime /\ SentTold(proc[p], venue, feed)
<1>1. ~At(p, "idle")
  BY DEF At, Afterwards
<1>2. /\ TypeOK /\ ProjectionOk(truth) /\ Coherent(truth) /\ proc[p].cmd \in Commands
      /\ p \in proc[p].cmd.by /\ SubmissionOk(proc[p], truth, sent)
  BY <1>1, InSubmission
<1>3. p = Runtime /\ SentTold(proc[p], venue, feed)
  BY <1>2 DEF RuntimeOnly, ToldInv
<1> QED BY <1>1, <1>2, <1>3 DEF SubmissionOk

(* A step to x, after the command was sent.                                   *)
LEMMA AfterwardsTold ==
    ASSUME GatewayInv, ToldInv, RuntimeOnly, NEW p \in Procs, proc[p].pc \in Afterwards,
           NEW x \in Afterwards, Goto(p, x), LeaveWorld, Grows(truth, truth'),
           NEW k, ChangesTold(truth, truth', venue, feed, k)
    PROVE  ToldInv'
<1> DEFINE n == [proc[p] EXCEPT !.pc = x]
<1>1. /\ ~At(p, "idle") /\ TypeOK /\ SentTold(proc[p], venue, feed)
  BY SentKnown
<1>2. x \in Pcs \ {"idle"} /\ proc' = [proc EXCEPT ![p] = n] /\ venue' = venue /\ feed' = feed
  BY DEF Afterwards, Pcs, Goto, LeaveWorld
<1>3. n.pc = x /\ n.cmd = proc[p].cmd
  BY <1>1, <1>2, GotoFacts
<1> HIDE DEF n
<1>4. SentTold(n, venue, feed)
  BY <1>1, <1>3 DEF SentTold
<1> QED BY <1>2, <1>4, SubmissionTold

(* ACTION_FAILED changes an order the feed still tells of.                    *)
LEMMA FailureTold ==
    ASSUME GatewayInv, ToldInv, RuntimeOnly, NEW p \in Procs, proc[p].pc \in Afterwards,
           NEW r \in {NoResult, Failure(proc[p].cmd, "rejected"), Failure(proc[p].cmd, "failed")}
    PROVE  ChangesTold(truth, ApplyFailed(truth, proc[p].cmd, r), venue, feed, proc[p].cmd.id)
<1> DEFINE c == proc[p].cmd
           u == ApplyFailed(truth, c, r)
<1>1. /\ ProjectionOk(truth) /\ Coherent(truth) /\ c \in Commands
      /\ c.type = "place" => truth.byClient[c.cid] = c.id
      /\ SentTold(proc[p], venue, feed)
  BY SentKnown
<1> HIDE DEF c
<1>2. /\ \A j \in Keys : j # c.id => u.orders[j] = truth.orders[j]
      /\ c.type = "place" => truth.orders[c.id].cid = c.cid
      /\ c.type # "place" => u.orders[c.id] = truth.orders[c.id]
  BY <1>1, FailedKeeps DEF c
<1> HIDE DEF u
<1>3. \A x \in Cids : truth.byClient[x] # NoId => truth.orders[truth.byClient[x]].cid = x
  BY <1>1 DEF Coherent
<1>4. NoId \notin Keys
  BY GatewayAssumption DEF Keys
<1>5. c.type = "place" /\ venue[c.cid] = "open" => Pending(feed, c.cid)
  BY <1>1 DEF SentTold, c
<1>6. ChangesTold(truth, u, venue, feed, c.id)
  BY <1>2, <1>3, <1>4, <1>5 DEF ChangesTold
<1> QED BY <1>6 DEF u, c

(* Each record of the try block leaves what is open at the venue open on      *)
(* record, or the feed still tells of it.                                     *)
LEMMA AfterRecordTold ==
    ASSUME GatewayInv, OrdersInv, ToldInv, RuntimeOnly, NEW p \in Procs, InTry(p)
    PROVE  \E k : ChangesTold(truth, AfterRecord(p), venue, feed, k)
<1> DEFINE c == proc[p].cmd
           r == proc[p].result
<1>1. proc[p].pc \in Afterwards
  BY DEF InTry, At, Afterwards
<1>2. /\ ProjectionOk(truth) /\ Coherent(truth) /\ c \in Commands
      /\ SubmissionOk(proc[p], truth, sent) /\ SentTold(proc[p], venue, feed)
      /\ c.type = "place" => truth.byClient[c.cid] = c.id
      /\ ResultKnown(proc[p], truth, venue, sent)
  BY <1>1, SentKnown, InOrders
<1>3. /\ \A x \in Cids : /\ truth.byExchange[x] \in {NoId, truth.byClient[x]}
                         /\ truth.byClient[x] # NoId => truth.orders[truth.byClient[x]].cid = x
      /\ NoId \notin Keys /\ c.target \in Cids
      /\ truth.byExchange[c.target] \in Keys \cup {NoId}
  BY <1>2, GatewayAssumption DEF Coherent, Keys, ProjectionOk
<1>4. CASE At(p, "executed")
  <2>1. r = Success(c) /\ AfterRecord(p) = ApplyExecuted(truth, c, Success(c))
    BY <1>2, <1>4 DEF SubmissionOk, At, AfterRecord
  <2>2. CASE c.type = "place"
    <3>1. venue[c.cid] = "open" => Pending(feed, c.cid)
      BY <1>1, <1>2, <2>2 DEF SentTold
    <3>2. truth.byClient[c.cid] = c.id
      BY <1>2, <2>2
    <3> HIDE DEF c, r
    <3>3. /\ \A j \in Keys : j # c.id => ApplyExecuted(truth, c, Success(c)).orders[j] = truth.orders[j]
          /\ c.cid \in Cids
      BY <1>2, <2>2, <3>2, PlacedKeeps, GatewayAssumption DEF Places
    <3>4. truth.orders[c.id].cid = c.cid \/ c.id \notin Keys
      BY <1>3, <3>2, <3>3
    <3>5. ChangesTold(truth, ApplyExecuted(truth, c, Success(c)), venue, feed, c.id)
      BY <1>3, <3>1, <3>3, <3>4 DEF ChangesTold
    <3> QED BY <2>1, <3>5
  <2>3. CASE c.type # "place"
    <3> DEFINE k == truth.byExchange[c.target]
    <3>1. venue[c.target] # "open"
      BY <1>2, <1>4, <2>1, <2>3 DEF ResultKnown, At
    <3> HIDE DEF c, r
    <3>2. \A j \in Keys : k = NoId \/ j # k => ApplyExecuted(truth, c, Success(c)).orders[j] = truth.orders[j]
      BY <1>2, <2>3, CancelledKeeps
    <3>3. k = NoId \/ truth.orders[k].cid = c.target
      BY <1>3
    <3>4. ChangesTold(truth, ApplyExecuted(truth, c, Success(c)), venue, feed, k)
      BY <1>3, <3>1, <3>2, <3>3 DEF ChangesTold
    <3> QED BY <2>1, <3>4
  <2> QED BY <2>2, <2>3
<1>5. CASE At(p, "placement")
  <2>1. AfterRecord(p) = ApplyPlacement(truth, c, "accepted")
    BY <1>5 DEF AfterRecord, AfterPlacement, At
  <2> HIDE DEF c
  <2>2. AfterRecord(p).orders = truth.orders
    BY <1>2, <2>1, PlacementFacts
  <2>3. ChangesTold(truth, AfterRecord(p), venue, feed, NoId)
    BY <2>2 DEF ChangesTold
  <2> QED BY <2>3
<1>6. CASE At(p, "fail_result")
  <2>1. r \in {NoResult, Failure(c, "rejected"), Failure(c, "failed")}
    BY <1>2, <1>6 DEF SubmissionOk, At
  <2>2. AfterRecord(p) = ApplyFailed(truth, c, r)
    BY <1>6 DEF AfterRecord, At
  <2>3. ChangesTold(truth, ApplyFailed(truth, c, r), venue, feed, c.id)
    BY <1>1, <2>1, FailureTold
  <2> QED BY <2>2, <2>3
<1> QED BY <1>4, <1>5, <1>6 DEF InTry, At

(* Record keeps what is open told.                                            *)
LEMMA RecordStepTold ==
    ASSUME GatewayInv, OrdersInv, ToldInv, RuntimeOnly, NEW p \in Procs, Record(p)
    PROVE  ToldInv'
<1>1. /\ InTry(p) /\ truth' = AfterRecord(p) /\ LeaveWorld /\ proc[p].pc \in Afterwards
  BY DEF Record, InTry, Afterwards
<1>2. Grows(truth, truth')
  BY <1>1, RecordMoves DEF Moves
<1>3. PICK k : ChangesTold(truth, truth', venue, feed, k)
  BY <1>1, AfterRecordTold
<1>4. CASE At(p, "executed") /\ Goto(p, "placement")
  <2>1. "placement" \in Afterwards
    BY DEF Afterwards
  <2> QED BY <1>1, <1>2, <1>3, <1>4, <2>1, AfterwardsTold
<1>5. CASE Return(p)
  <2>1. proc' = [proc EXCEPT ![p] = IdleProc] /\ venue' = venue /\ feed' = feed
    BY <1>1, <1>5 DEF Return, LeaveWorld
  <2> QED BY <1>2, <1>3, <2>1, IdleTold, SubmissionTold
<1> QED BY <1>4, <1>5 DEF Record

(* RecordRaises keeps what is open told.                                      *)
LEMMA RecordRaisesTold ==
    ASSUME GatewayInv, OrdersInv, ToldInv, RuntimeOnly, NEW p \in Procs, RecordRaises(p)
    PROVE  ToldInv'
<1>1. /\ InTry(p) /\ truth' \in {truth, AfterRecord(p)} /\ LeaveWorld /\ Goto(p, "error")
      /\ proc[p].pc \in Afterwards /\ "error" \in Afterwards
  BY DEF RecordRaises, InTry, Afterwards
<1>2. Grows(truth, AfterRecord(p)) /\ \E k : ChangesTold(truth, AfterRecord(p), venue, feed, k)
  BY <1>1, RecordMoves, AfterRecordTold DEF Moves
<1>3. Grows(truth, truth) /\ ChangesTold(truth, truth, venue, feed, NoId)
  BY DEF Grows, ChangesTold
<1>4. Grows(truth, truth') /\ \E k : ChangesTold(truth, truth', venue, feed, k)
  BY <1>1, <1>2, <1>3
<1>5. PICK k : ChangesTold(truth, truth', venue, feed, k)
  BY <1>4
<1> QED BY <1>1, <1>4, <1>5, AfterwardsTold

(* Settle keeps what is open told.                                            *)
LEMMA SettleTold ==
    ASSUME GatewayInv, ToldInv, RuntimeOnly, NEW p \in Procs, Settle(p)
    PROVE  ToldInv'
<1> DEFINE x == CASE ~ResultOk(proc[p].cmd, proc[p].result) -> "error"
                  [] proc[p].result.status \in {"rejected", "failed"} -> "fail_result"
                  [] OTHER -> "executed"
<1>1. At(p, "settle") /\ Goto(p, x) /\ truth' = truth /\ LeaveWorld
  BY DEF Settle, At
<1>2. x \in {"error", "fail_result", "executed"}
  OBVIOUS
<1> HIDE DEF x
<1>3. proc[p].pc \in Afterwards /\ x \in Afterwards
  BY <1>1, <1>2 DEF At, Afterwards
<1>4. Grows(truth, truth') /\ ChangesTold(truth, truth', venue, feed, NoId)
  BY <1>1 DEF Grows, ChangesTold
<1> QED BY <1>1, <1>3, <1>4, AfterwardsTold

(* RecordError keeps what is open told.                                       *)
LEMMA RecordErrorTold ==
    ASSUME GatewayInv, ToldInv, RuntimeOnly, NEW p \in Procs, RecordError(p)
    PROVE  ToldInv'
<1> DEFINE n == [proc[p] EXCEPT !.pc = "fail", !.result = NoResult]
<1>1. /\ truth' = truth /\ venue' = venue /\ feed' = feed /\ proc[p].pc \in Afterwards
      /\ proc' = [proc EXCEPT ![p].pc = "fail", ![p].result = NoResult]
  BY DEF RecordError, LeaveWorld, At, Afterwards
<1>2. proc' = [proc EXCEPT ![p] = n] /\ n.pc = "fail" /\ n.cmd = proc[p].cmd
  <2>1. proc = [q \in Procs |-> [pc |-> proc[q].pc, cmd |-> proc[q].cmd,
                                 view |-> proc[q].view, result |-> proc[q].result]]
    BY DEF GatewayInv, TypeOK
  <2>2. proc' = [proc EXCEPT ![p] = n]
    BY <1>1, <2>1
  <2>3. n.pc = "fail" /\ n.cmd = proc[p].cmd
    <3>1. proc[p] = [pc |-> proc[p].pc, cmd |-> proc[p].cmd,
                     view |-> proc[p].view, result |-> proc[p].result]
      BY <2>1
    <3> QED BY <3>1
  <2> QED BY <2>2, <2>3
<1>3. SentTold(proc[p], venue, feed)
  BY <1>1, SentKnown
<1> HIDE DEF n
<1>4. SentTold(n, venue, feed)
  BY <1>1, <1>2, <1>3 DEF SentTold
<1> QED BY <1>1, <1>2, <1>4, SilentTold

(* Fail keeps what is open told.                                              *)
LEMMA FailTold ==
    ASSUME GatewayInv, ToldInv, RuntimeOnly, Alone, NEW p \in Procs, Fail(p)
    PROVE  ToldInv'
<1>1. /\ truth' = ApplyFailed(truth, proc[p].cmd, NoResult) /\ proc[p].pc \in Afterwards
      /\ proc' = [proc EXCEPT ![p] = IdleProc] /\ venue' = venue /\ feed' = feed
  BY DEF Fail, Return, At, LeaveWorld, Afterwards
<1>2. Grows(truth, truth')
  BY FailStep
<1>3. ChangesTold(truth, truth', venue, feed, proc[p].cmd.id)
  BY <1>1, FailureTold
<1> QED BY <1>1, <1>2, <1>3, IdleTold, SubmissionTold

(* Begin and Abandon record nothing.                                          *)
LEMMA BeginTold ==
    ASSUME GatewayInv, ToldInv, NEW p \in Procs, NEW c \in Commands, Begin(p, c)
    PROVE  ToldInv'
<1> DEFINE n == [pc |-> "request", cmd |-> c, view |-> truth, result |-> NoResult]
<1>1. /\ proc' = [proc EXCEPT ![p] = n] /\ truth' = truth /\ venue' = venue /\ feed' = feed
      /\ n.pc = "request"
  BY DEF Begin
<1> HIDE DEF n
<1>2. SentTold(n, venue, feed)
  BY <1>1 DEF SentTold, Afterwards
<1> QED BY <1>1, <1>2, SilentTold

(* A kill leaves the feed to tell of what was sent.                           *)
LEMMA AbandonTold ==
    ASSUME GatewayInv, ToldInv, NEW p \in Procs, Abandon(p)
    PROVE  ToldInv'
<1>1. /\ proc' = [proc EXCEPT ![p] = IdleProc] /\ truth' = truth /\ venue' = venue /\ feed' = feed
  BY DEF Abandon, Return, LeaveWorld
<1> QED BY <1>1, IdleTold, SilentTold

(* A change at the venue is told by the feed.                                 *)
LEMMA VenueTold ==
    ASSUME GatewayInv, SettledInv({}), ToldInv,
           NEW x \in Cids, NEW status \in {"open", "filled", "cancelled"}, Turns(venue, x, status),
           x \in Known, VenueSet(x, status), x \in ExternalCids \/ truth.byClient[x] # NoId
    PROVE  /\ OpenTold(truth, venue', feed') /\ Pending(feed', x)
           /\ \A y \in Cids : y # x => venue'[y] = venue[y]
           /\ \A y : Pending(feed, y) => Pending(feed', y)
<1>1. Pending(feed', x) /\ \A y : Pending(feed, y) => Pending(feed', y)
  BY VenueSetSettled
<1>2. \A y \in Cids : y # x => venue'[y] = venue[y]
  <2>1. venue \in [Cids -> {"none", "open", "filled", "cancelled"}]
    BY DEF GatewayInv, TypeOK
  <2> QED BY <2>1 DEF VenueSet
<1>3. OpenTold(truth, venue', feed')
  BY <1>1, <1>2 DEF ToldInv, OpenTold
<1> QED BY <1>1, <1>2, <1>3

(* The venue's own changes keep what is open told.                            *)
LEMMA VenueAloneTold ==
    ASSUME GatewayInv, SettledInv({}), ToldInv, RuntimeOnly,
           NEW x \in Cids, NEW status \in {"open", "filled"},
           Turns(venue, x, status), x \in ExternalCids \/ venue[x] = "open",
           VenueSet(x, status), UNCHANGED <<truth, proc, submits, sent>>
    PROVE  ToldInv'
<1>1. x \in Known /\ (x \in ExternalCids \/ truth.byClient[x] # NoId)
  BY DEF GatewayInv, WorldOk, Known
<1>2. /\ OpenTold(truth, venue', feed') /\ Pending(feed', x)
      /\ \A y \in Cids : y # x => venue'[y] = venue[y]
      /\ \A y : Pending(feed, y) => Pending(feed', y)
  BY <1>1, VenueTold
<1>3. Runtime \in Procs
  BY GatewayAssumption
<1>4. SentTold(proc[Runtime], venue', feed')
  <2> SUFFICES ASSUME proc[Runtime].pc \in Afterwards, proc[Runtime].cmd.type = "place",
                      venue'[proc[Runtime].cmd.cid] = "open"
               PROVE  Pending(feed', proc[Runtime].cmd.cid)
    BY DEF SentTold
  <2>1. proc[Runtime].cmd.cid \in Cids
    BY <1>3, SentKnown, GatewayAssumption DEF Places
  <2> QED BY <1>2, <2>1 DEF ToldInv, SentTold
<1> QED BY <1>2, <1>4 DEF ToldInv

(* Execute keeps what is open told: what it opens, the feed has.              *)
LEMMA ExecuteTold ==
    ASSUME GatewayInv, OrdersInv, SettledInv({}), ToldInv, RuntimeOnly, NEW p \in Procs, Execute(p)
    PROVE  ToldInv'
<1> DEFINE c == proc[p].cmd
<1>1. /\ At(p, "execute") /\ ~At(p, "idle") /\ truth' = truth /\ (TakesEffect(c) \/ VenueSame)
  BY DEF Execute, At
<1>2. /\ TypeOK /\ c \in Commands /\ p \in c.by /\ c.target \in Cids
  BY <1>1, InSubmission, GatewayAssumption
<1>3. p = Runtime
  BY <1>2 DEF RuntimeOnly
<1>4. c.type = "place" => /\ c.cid \in Cids /\ c.cid \in Known /\ venue[c.cid] = "none"
                          /\ truth.byClient[c.cid] # NoId
  BY <1>1, AboutToPlace
<1>5. /\ OpenTold(truth, venue', feed')
      /\ c.type = "place" /\ venue'[c.cid] = "open" => Pending(feed', c.cid)
  <2>1. CASE VenueSame
    BY <1>4, <2>1 DEF VenueSame, ToldInv
  <2>2. CASE c.type = "place" /\ TakesEffect(c)
    <3> HIDE DEF c
    <3>1. VenueSet(c.cid, "open") /\ Turns(venue, c.cid, "open")
      BY <1>4, <2>2 DEF TakesEffect, Turns
    <3> QED BY <1>4, <2>2, <3>1, VenueTold
  <2>3. CASE c.type # "place" /\ TakesEffect(c)
    <3> HIDE DEF c
    <3>1. VenueSet(c.target, "cancelled") /\ venue[c.target] = "open"
      BY <2>3 DEF TakesEffect
    <3>2. Turns(venue, c.target, "cancelled")
      BY <3>1 DEF Turns
    <3>3. c.target \in Known /\ (c.target \in ExternalCids \/ truth.byClient[c.target] # NoId)
      BY <1>2, <3>1 DEF GatewayInv, WorldOk
    <3> QED BY <1>2, <2>3, <3>1, <3>2, <3>3, VenueTold
  <2> QED BY <1>1, <2>1, <2>2, <2>3
<1>6. proc'[p].cmd = c
  <2>1. proc = [q \in Procs |-> [pc |-> proc[q].pc, cmd |-> proc[q].cmd,
                                 view |-> proc[q].view, result |-> proc[q].result]]
    BY <1>2 DEF TypeOK
  <2>2. proc[p] = [pc |-> proc[p].pc, cmd |-> proc[p].cmd,
                   view |-> proc[p].view, result |-> proc[p].result]
    BY <2>1
  <2>3. \/ proc' = [proc EXCEPT ![p].pc = "error"]
        \/ \E r : proc' = [proc EXCEPT ![p].pc = "settle", ![p].result = r]
    BY DEF Execute, Goto, Answer
  <2> QED BY <2>1, <2>2, <2>3
<1>7. SentTold(proc'[p], venue', feed')
  BY <1>5, <1>6 DEF SentTold
<1> QED BY <1>1, <1>3, <1>5, <1>7 DEF ToldInv

(* The projection takes the next update: what it says is what the venue says, *)
(* or a later update will tell.                                               *)
LEMMA UpdateTold ==
    ASSUME NEW t, ProjectionOk(t), Coherent(t), NEW f \in Seq(Updates), f # << >>,
           NEW u \in Updates, u = f[1], u.xid = u.cid, NEW v, OpenTold(t, v, f), LastUpdateTrue(v, f),
           u.cid \in ExternalCids \/ t.byClient[u.cid] # NoId
    PROVE  OpenTold(ApplyUpdate(t, u), v, Tail(f))
<1> DEFINE g == Tail(f)
           m == Len(f)
           q == ApplyUpdate(t, u)
           x == u.cid
<1>0. /\ u \in Updates /\ m \in Nat /\ m >= 1 /\ Len(g) = m - 1
      /\ \A i \in 1..Len(g) : g[i] = f[i + 1]
  OBVIOUS
<1>1. PICK k : Updated(t, q, u, k)
  BY UpdateKeeps
<1>2. /\ x \in Cids /\ t.byClient \in [Cids -> Keys \cup {NoId}] /\ NoId \notin Keys
      /\ \A y \in Cids : t.byClient[y] # NoId => t.orders[t.byClient[y]].cid = y
      /\ \A y \in Cids : t.byClient[y] \in Actions \cup {NoId, y}
  BY <1>0, GatewayAssumption DEF Updates, ProjectionOk, Keys, Coherent
<1> HIDE DEF q, g
<1>3. ASSUME NEW y, NEW i \in 1..m, f[i].cid = y, i # 1 PROVE Pending(g, y)
  <2>1. i - 1 \in 1..Len(g) /\ g[i - 1] = f[i]
    BY <1>0, <1>3
  <2> QED BY <1>3, <2>1 DEF Pending
<1> SUFFICES ASSUME NEW y \in Cids, v[y] = "open", ~Pending(g, y) PROVE OpenOnRecord(q, y)
  BY DEF OpenTold, q, g
<1>4. CASE y = x
  <2>1. \A i \in 1..m : i > 1 => f[i].cid # f[1].cid
    BY <1>3, <1>4
  <2>2. u.status = "open"
    BY <1>0, <1>4, <2>1 DEF LastUpdateTrue
  <2> QED BY <1>1, <1>2, <1>4, <2>2 DEF Updated, OpenOnRecord, OrderOf
<1>5. CASE y # x
  <2>1. OpenOnRecord(t, y)
    BY <1>3, <1>5 DEF OpenTold, Pending
  <2>2. t.byClient[y] # k
    <3>1. CASE t.byClient[x] = k
      BY <1>2, <1>5, <2>1, <3>1 DEF OpenOnRecord
    <3>2. CASE t.byClient[x] = NoId
      <4>1. x \in ExternalCids /\ x \notin Actions /\ k = x
        BY <1>1, <3>2, GatewayAssumption DEF Updated
      <4> QED BY <1>2, <1>5, <2>1, <4>1 DEF OpenOnRecord
    <3> QED BY <1>1, <3>1, <3>2 DEF Updated
  <2>3. q.byClient[y] = t.byClient[y] /\ q.orders[t.byClient[y]] = t.orders[t.byClient[y]]
    BY <1>1, <1>2, <1>5, <2>1, <2>2 DEF Updated, OpenOnRecord
  <2> QED BY <2>1, <2>3 DEF OpenOnRecord, OrderOf
<1> QED BY <1>4, <1>5

(* Deliver keeps what is open told.                                           *)
LEMMA DeliverTold ==
    ASSUME GatewayInv, SettledInv({}), ToldInv, Deliver
    PROVE  ToldInv'
<1>1. /\ At(Runtime, "idle") /\ feed # << >> /\ truth' = ApplyUpdate(truth, Head(feed))
      /\ feed' = Tail(feed) /\ proc' = proc /\ venue' = venue
  BY DEF Deliver
<1>2. /\ ProjectionOk(truth) /\ Coherent(truth) /\ feed \in Seq(Updates)
      /\ WorldOk(truth, venue, feed)
      /\ OpenTold(truth, venue, feed) /\ LastUpdateTrue(venue, feed)
  BY DEF GatewayInv, TypeOK, SettledInv, ToldInv
<1>3. Head(feed) = feed[1] /\ 1 \in 1..Len(feed)
  BY <1>1, <1>2
<1>4. /\ feed[1] \in Updates /\ feed[1].xid = feed[1].cid
      /\ feed[1].cid \in ExternalCids \/ truth.byClient[feed[1].cid] # NoId
  BY <1>2, <1>3 DEF WorldOk
<1>5. OpenTold(truth', venue, feed')
  BY <1>1, <1>2, <1>3, <1>4, UpdateTold
<1>6. SentTold(proc[Runtime], venue, feed')
  BY <1>1 DEF SentTold, At, Afterwards
<1> QED BY <1>1, <1>5, <1>6 DEF ToldInv

(* Every step keeps what is open told.                                        *)
LEMMA ToldInductive ==
    ASSUME GatewayInv, OrdersInv, SettledInv({}), ToldInv, RuntimeOnly, [Next]_vars
    PROVE  ToldInv'
<1> Alone
  BY RuntimeAlone
<1>1. ASSUME NEW p \in Procs, Step(p) PROVE ToldInv'
  BY <1>1, BeginTold, RequestTold, RejectTold, AcceptTold, RecordLogicalTold, RecordStagedTold,
     StartTold, ExecuteTold, SettleTold, RecordStepTold, RecordRaisesTold, RecordErrorTold,
     FailTold, AbandonTold DEF Step
<1>2. CASE Deliver
  BY <1>2, DeliverTold
<1>3. CASE VenueFills
  BY <1>3, VenueAloneTold DEF VenueFills, Turns
<1>4. CASE VenueExternal
  BY <1>4, VenueAloneTold, GatewayAssumption DEF VenueExternal, Turns
<1>5. CASE UNCHANGED vars
  BY <1>5 DEF vars, ToldInv
<1> QED BY <1>1, <1>2, <1>3, <1>4, <1>5 DEF Next

(* There is nothing to tell to begin with.                                    *)
LEMMA ToldInit == ASSUME Init PROVE ToldInv
<1>1. /\ venue = [c \in Cids |-> "none"] /\ proc = [p \in Procs |-> IdleProc] /\ Runtime \in Procs
  BY GatewayAssumption DEF Init
<1>2. proc[Runtime] = IdleProc
  BY <1>1
<1>3. SentTold(proc[Runtime], venue, feed)
  BY <1>2, IdleTold
<1> QED BY <1>1, <1>3 DEF ToldInv, OpenTold

(* When all is quiet the two agree.                                           *)
LEMMA ToldSettled == ASSUME GatewayInv, SettledInv({}), ToldInv PROVE SettledTruth
<1> SUFFICES ASSUME Settled
             PROVE  {x \in Cids : venue[x] = "open"}
                      = {truth.orders[k].cid : k \in {j \in Keys : truth.orders[j].status = "open"}}
  BY DEF SettledTruth
<1>1. \A x : ~Pending(feed, x)
  BY DEF Settled, Pending
<1>2. ASSUME NEW x \in Cids, venue[x] = "open"
      PROVE  \E k \in Keys : truth.orders[k].status = "open" /\ truth.orders[k].cid = x
  <2>1. OpenOnRecord(truth, x)
    BY <1>1, <1>2 DEF ToldInv, OpenTold
  <2>2. truth.byClient[x] \in Keys
    BY <2>1 DEF OpenOnRecord, GatewayInv, TypeOK, ProjectionOk
  <2> QED BY <2>1, <2>2 DEF OpenOnRecord, OrderOf
<1>3. ASSUME NEW k \in Keys, truth.orders[k].status = "open"
      PROVE  truth.orders[k].cid \in Cids /\ venue[truth.orders[k].cid] = "open"
  BY <1>1, <1>3 DEF SettledInv, OpenKnown
<1> QED BY <1>2, <1>3

(* Once every submission has returned and every update has arrived, the       *)
(* projection and the venue agree on which orders are open, both ways,        *)
(* whatever answer was lost or hid an effect, and whatever raised or died     *)
(* before, when only the runtime submits.                                     *)
THEOREM TruthSettles == RuntimeOnly => (Spec => []SettledTruth)
<1> SUFFICES ASSUME RuntimeOnly PROVE Spec => []SettledTruth
  OBVIOUS
<1>0. Alone
  BY RuntimeAlone
<1>1. Init => OrdersInv /\ SettledInv({}) /\ ToldInv
  BY OrdersInit, SettledInit, ToldInit
<1>2. GatewayInv /\ OrdersInv /\ SettledInv({}) /\ ToldInv /\ [Next]_vars
        => OrdersInv' /\ SettledInv({})' /\ ToldInv'
  BY <1>0, OrdersInductive, SettledInductive, ToldInductive
<1>3. GatewayInv /\ SettledInv({}) /\ ToldInv => SettledTruth
  BY ToldSettled
<1>4. Spec => []GatewayInv
  BY <1>0, GatewayInvariant
<1> QED BY <1>1, <1>2, <1>3, <1>4, PTL DEF Spec

-----------------------------------------------------------------------------
(* The limit on open orders.                                                  *)

(* The hypotheses, beside RuntimeOnly: a command that amends or replaces an   *)
(* order is not counted by the gate, so there is none; an HTTP error says     *)
(* that nothing was placed; and what is counted is finite.                    *)
CountedFully == /\ \A c \in Places : c.kind \notin {"amend", "cancel_replace"}
                /\ ~AmbiguousFailures
                /\ IsFiniteSet(Actions) /\ IsFiniteSet(Cids)

OpenIn(v) == {x \in Ours : v[x] = "open"}

(* The replay a submission decides on has every order that is open at the     *)
(* venue as a live one, and once it is accepted there is room for its order.  *)
Counts(pr, v) ==
    /\ pr.pc \in Deciding => \A x \in OpenIn(v) :
         pr.view.byClient[x] \in LiveOrders(pr.view) /\ pr.view.orders[pr.view.byClient[x]].cid = x
    /\ pr.pc \in Unsent /\ pr.cmd.type = "place" /\ pr.cmd.kind # "staged_release" =>
         Cardinality(OpenIn(v)) + 1 <= MaxOpenOrders

LimitInv == Counts(proc[Runtime], venue) /\ OpenWithinLimit

(* The venue's open orders can be counted.                                    *)
LEMMA OpenFinite ==
    ASSUME CountedFully, NEW v
    PROVE  IsFiniteSet(OpenIn(v)) /\ Cardinality(OpenIn(v)) \in Nat
<1>1. OpenIn(v) \in SUBSET Cids /\ IsFiniteSet(Cids)
  BY DEF OpenIn, Ours, CountedFully
<1>2. IsFiniteSet(OpenIn(v))
  BY <1>1, FS_Subset
<1> QED BY <1>2, FS_CardinalityType

(* An order that closes leaves as much room, or more.                         *)
LEMMA ShrinkKeeps ==
    ASSUME CountedFully, NEW v, NEW w, OpenIn(w) \subseteq OpenIn(v)
    PROVE  /\ Cardinality(OpenIn(w)) <= Cardinality(OpenIn(v))
           /\ \A pr : Counts(pr, v) => Counts(pr, w)
<1>1. OpenIn(w) \in SUBSET OpenIn(v) /\ IsFiniteSet(OpenIn(v))
  BY OpenFinite
<1>2. Cardinality(OpenIn(w)) <= Cardinality(OpenIn(v))
  BY <1>1, FS_Subset
<1>3. /\ Cardinality(OpenIn(w)) \in Nat /\ Cardinality(OpenIn(v)) \in Nat /\ MaxOpenOrders \in Nat
  BY OpenFinite, GatewayAssumption
<1>4. ASSUME NEW pr, Counts(pr, v) PROVE Counts(pr, w)
  <2>1. Cardinality(OpenIn(v)) + 1 <= MaxOpenOrders => Cardinality(OpenIn(w)) + 1 <= MaxOpenOrders
    BY <1>2, <1>3
  <2> QED BY <1>4, <2>1 DEF Counts
<1> QED BY <1>2, <1>4

(* The risk gate's count of a replay that has every open order as a live one  *)
(* leaves room at the venue.                                                  *)
LEMMA RoomLeft ==
    ASSUME CountedFully, NEW c \in Places, c.kind # "staged_release",
           NEW w, ProjectionOk(w), OpenOrdersOk(c, w), NEW v,
           \A x \in OpenIn(v) : w.byClient[x] \in LiveOrders(w) /\ w.orders[w.byClient[x]].cid = x
    PROVE  Cardinality(OpenIn(v)) + 1 <= MaxOpenOrders
<1> DEFINE S == OpenIn(v)
           T == LiveOrders(w)
           f == [x \in S |-> w.byClient[x]]
<1>1. IsFiniteSet(T) /\ Cardinality(T) \in Nat
  <2>1. IsFiniteSet(Keys)
    BY FS_Union DEF Keys, CountedFully
  <2>2. T \in SUBSET Keys
    BY DEF LiveOrders
  <2>3. IsFiniteSet(T)
    <3> HIDE DEF T
    <3> QED BY <2>1, <2>2, FS_Subset
  <2> QED BY <2>3, FS_CardinalityType
<1>2. Cardinality(T) + 1 <= MaxOpenOrders
  <2>1. c.kind \notin {"amend", "cancel_replace", "staged_release"}
    BY DEF CountedFully
  <2> QED BY <2>1 DEF OpenOrdersOk
<1>3. \A x \in S : w.byClient[x] \in T /\ w.orders[w.byClient[x]].cid = x
  OBVIOUS
<1> HIDE DEF S, T
<1>4. f \in Injection(S, T)
  <2>1. f \in [S -> T]
    BY <1>3
  <2>2. ASSUME NEW a \in S, NEW b \in S, f[a] = f[b] PROVE a = b
    BY <1>3, <2>2
  <2> QED BY <2>1, <2>2 DEF Injection, IsInjective
<1>5. Cardinality(S) <= Cardinality(T)
  <2> HIDE DEF f
  <2> QED BY <1>1, <1>4, FS_Injection
<1>6. Cardinality(S) \in Nat /\ MaxOpenOrders \in Nat
  BY OpenFinite, GatewayAssumption DEF S
<1>7. Cardinality(S) + 1 <= MaxOpenOrders
  BY <1>1, <1>2, <1>5, <1>6
<1> QED BY <1>7 DEF S

(* A step of p to n that leaves no more orders open at the venue.             *)
LEMMA LimitSubmission ==
    ASSUME GatewayInv, LimitInv, CountedFully, NEW p \in Procs, NEW n,
           proc' = [proc EXCEPT ![p] = n], Counts(n, venue), OpenIn(venue') \subseteq OpenIn(venue)
    PROVE  LimitInv'
<1>1. proc'[Runtime] \in {n, proc[Runtime]}
  <2>1. proc = [q \in Procs |-> [pc |-> proc[q].pc, cmd |-> proc[q].cmd,
                                 view |-> proc[q].view, result |-> proc[q].result]]
    BY DEF GatewayInv, TypeOK
  <2>2. Runtime \in Procs
    BY GatewayAssumption
  <2> QED BY <2>1, <2>2
<1>2. Counts(proc'[Runtime], venue)
  BY <1>1 DEF LimitInv
<1>3. Counts(proc'[Runtime], venue') /\ Cardinality(OpenIn(venue')) <= Cardinality(OpenIn(venue))
  BY <1>2, ShrinkKeeps
<1>4. /\ Cardinality(OpenIn(venue)) \in Nat /\ Cardinality(OpenIn(venue')) \in Nat
      /\ MaxOpenOrders \in Nat
  BY OpenFinite, GatewayAssumption
<1>5. Cardinality(OpenIn(venue)) <= MaxOpenOrders
  BY DEF LimitInv, OpenWithinLimit, OpenAtVenue, OpenIn
<1>6. Cardinality(OpenIn(venue')) <= MaxOpenOrders
  BY <1>3, <1>4, <1>5
<1> QED BY <1>3, <1>6 DEF LimitInv, OpenWithinLimit, OpenAtVenue, OpenIn

(* A submission past its execution has nothing left to count.                 *)
LEMMA PastCounts ==
    ASSUME NEW pr, pr.pc = "idle" \/ pr.pc \in Afterwards, NEW v
    PROVE  Counts(pr, v)
  BY DEF Counts, Deciding, Unsent, Afterwards

(* The replay at the beginning of a submission has every open order live.     *)
LEMMA BeginLimit ==
    ASSUME GatewayInv, OrdersInv, LimitInv, CountedFully,
           NEW p \in Procs, NEW c \in Commands, Begin(p, c)
    PROVE  LimitInv'
<1> DEFINE n == [pc |-> "request", cmd |-> c, view |-> truth, result |-> NoResult]
<1>1. proc' = [proc EXCEPT ![p] = n] /\ venue' = venue /\ n.pc = "request" /\ n.view = truth
  BY DEF Begin
<1> HIDE DEF n
<1>2. ASSUME NEW x \in OpenIn(venue)
      PROVE  truth.byClient[x] \in LiveOrders(truth) /\ truth.orders[truth.byClient[x]].cid = x
  <2> DEFINE k == truth.byClient[x]
  <2>1. x \in Ours /\ x \in Cids /\ venue[x] = "open" /\ OrdersOk(truth, venue, sent) /\ Coherent(truth)
    BY DEF OpenIn, Ours, OrdersInv, GatewayInv
  <2>2. k # NoId /\ k \in Actions /\ sent[k] = 1 /\ Remembered(truth.orders[k])
    BY <2>1 DEF OrdersOk, OrderOf
  <2>3. truth.orders[k].cid = x /\ ~Staged(truth, k) /\ k \in Keys
    BY <2>1, <2>2 DEF Coherent, OrdersOk, Keys
  <2> QED BY <2>2, <2>3 DEF Remembered, LiveOrders, CountedFully
<1>3. Counts(n, venue)
  BY <1>1, <1>2 DEF Counts, Unsent
<1> QED BY <1>1, <1>3, LimitSubmission

(* A step of p within a submission, to x, with the replay kept or past use.   *)
LEMMA GotoLimit ==
    ASSUME GatewayInv, LimitInv, RuntimeOnly, CountedFully, NEW p \in Procs, ~At(p, "idle"),
           NEW n, proc' = [proc EXCEPT ![p] = n], n.cmd = proc[p].cmd,
           \/ n.pc \in Afterwards
           \/ n.pc \in Unsent /\ proc[p].pc \in Unsent
           \/ n.pc \in Deciding /\ proc[p].pc \in Deciding /\ n.view = proc[p].view,
           venue' = venue
    PROVE  LimitInv'
<1>1. p = Runtime
  BY InSubmission DEF RuntimeOnly
<1>2. Counts(proc[p], venue)
  BY <1>1 DEF LimitInv
<1>3. Counts(n, venue)
  BY <1>2 DEF Counts, Afterwards, Unsent, Deciding
<1> QED BY <1>3, LimitSubmission

(* A step of p to x, or its return.                                           *)
LEMMA MoveLimit ==
    ASSUME GatewayInv, LimitInv, RuntimeOnly, CountedFully, NEW p \in Procs, ~At(p, "idle"),
           venue' = venue,
           \/ Return(p)
           \/ \E x \in Afterwards : Goto(p, x)
           \/ Goto(p, "decide") /\ At(p, "request")
           \/ Goto(p, "execute") /\ At(p, "start")
    PROVE  LimitInv'
<1>1. CASE Return(p)
  <2>1. Counts(IdleProc, venue)
    BY PastCounts DEF IdleProc
  <2> QED BY <1>1, <2>1, LimitSubmission DEF Return
<1>2. ASSUME NEW x \in Pcs \ {"idle"}, Goto(p, x),
             \/ x \in Afterwards
             \/ x = "decide" /\ At(p, "request")
             \/ x = "execute" /\ At(p, "start")
      PROVE  LimitInv'
  <2> DEFINE n == [proc[p] EXCEPT !.pc = x]
  <2>1. TypeOK /\ proc' = [proc EXCEPT ![p] = n]
    BY <1>2 DEF GatewayInv, Goto
  <2>2. n.pc = x /\ n.cmd = proc[p].cmd /\ n.view = proc[p].view
    BY <2>1, GotoFacts
  <2> HIDE DEF n
  <2>3. \/ n.pc \in Afterwards
        \/ n.pc \in Unsent /\ proc[p].pc \in Unsent
        \/ n.pc \in Deciding /\ proc[p].pc \in Deciding /\ n.view = proc[p].view
    BY <1>2, <2>2 DEF Unsent, Deciding, At
  <2> QED BY <2>1, <2>2, <2>3, GotoLimit
<1>3. Afterwards \subseteq Pcs \ {"idle"} /\ {"decide", "execute"} \subseteq Pcs \ {"idle"}
  BY DEF Afterwards, Pcs
<1> QED BY <1>1, <1>2, <1>3

(* RecordError keeps the count of open orders.                                *)
LEMMA RecordErrorLimit ==
    ASSUME GatewayInv, LimitInv, CountedFully, NEW p \in Procs, RecordError(p)
    PROVE  LimitInv'
<1> DEFINE n == [proc[p] EXCEPT !.pc = "fail", !.result = NoResult]
<1>1. venue' = venue /\ proc' = [proc EXCEPT ![p].pc = "fail", ![p].result = NoResult]
  BY DEF RecordError, LeaveWorld
<1>2. proc' = [proc EXCEPT ![p] = n] /\ n.pc = "fail"
  <2>1. proc = [q \in Procs |-> [pc |-> proc[q].pc, cmd |-> proc[q].cmd,
                                 view |-> proc[q].view, result |-> proc[q].result]]
    BY DEF GatewayInv, TypeOK
  <2>2. proc' = [proc EXCEPT ![p] = n]
    BY <1>1, <2>1
  <2>3. n.pc = "fail"
    <3>1. proc[p] = [pc |-> proc[p].pc, cmd |-> proc[p].cmd,
                     view |-> proc[p].view, result |-> proc[p].result]
      BY <2>1
    <3> QED BY <3>1
  <2> QED BY <2>2, <2>3
<1> HIDE DEF n
<1>3. Counts(n, venue)
  BY <1>2, PastCounts DEF Afterwards
<1> QED BY <1>1, <1>2, <1>3, LimitSubmission

(* RecordLogical keeps the count of open orders.                              *)
LEMMA RecordLogicalLimit ==
    ASSUME GatewayInv, LimitInv, RuntimeOnly, CountedFully, NEW p \in Procs, RecordLogical(p)
    PROVE  LimitInv'
<1> DEFINE x == IF proc[p].cmd.kind = "staged_release" THEN "stage" ELSE "start"
           n == [proc[p] EXCEPT !.view = Empty, !.pc = x]
<1>1. /\ At(p, "logical") /\ ~At(p, "idle") /\ venue' = venue
      /\ proc' = [proc EXCEPT ![p].view = Empty, ![p].pc = x]
  BY DEF RecordLogical, At, LeaveWorld
<1>2. x \in {"stage", "start"}
  OBVIOUS
<1> HIDE DEF x
<1>3. proc' = [proc EXCEPT ![p] = n] /\ n.pc = x /\ n.cmd = proc[p].cmd
  <2>1. proc = [q \in Procs |-> [pc |-> proc[q].pc, cmd |-> proc[q].cmd,
                                 view |-> proc[q].view, result |-> proc[q].result]]
    BY DEF GatewayInv, TypeOK
  <2>2. proc' = [proc EXCEPT ![p] = n]
    BY <1>1, <2>1
  <2>3. n.pc = x /\ n.cmd = proc[p].cmd
    <3>1. proc[p] = [pc |-> proc[p].pc, cmd |-> proc[p].cmd,
                     view |-> proc[p].view, result |-> proc[p].result]
      BY <2>1
    <3> QED BY <3>1
  <2> QED BY <2>2, <2>3
<1> HIDE DEF n
<1>4. n.pc \in Unsent /\ proc[p].pc \in Unsent
  BY <1>1, <1>2, <1>3 DEF Unsent, At
<1> QED BY <1>1, <1>3, <1>4, GotoLimit

(* Accept keeps the count of open orders.                                     *)
LEMMA AcceptLimit ==
    ASSUME GatewayInv, LimitInv, RuntimeOnly, CountedFully, NEW p \in Procs, Accept(p)
    PROVE  LimitInv'
<1> DEFINE c == proc[p].cmd
           w == proc[p].view
           n == [proc[p] EXCEPT !.pc = "logical"]
<1>1. /\ At(p, "decide") /\ ~At(p, "idle") /\ Rejection(c, w) = "none" /\ venue' = venue
      /\ proc' = [proc EXCEPT ![p] = n]
  BY DEF Accept, Goto, At, LeaveWorld, Why
<1>2. TypeOK /\ c \in Commands /\ p \in c.by /\ ProjectionOk(w)
  BY <1>1, InSubmission DEF TypeOK
<1>3. n.pc = "logical" /\ n.cmd = c
  BY <1>1, <1>2, GotoFacts DEF Pcs
<1>4. Counts(proc[p], venue)
  BY <1>2 DEF RuntimeOnly, LimitInv
<1>5. \A x \in OpenIn(venue) : w.byClient[x] \in LiveOrders(w) /\ w.orders[w.byClient[x]].cid = x
  BY <1>1, <1>4 DEF Counts, At, Deciding
<1> HIDE DEF n, c, w
<1>6. c.type = "place" => c \in Places /\ OpenOrdersOk(c, w)
  BY <1>1, <1>2 DEF Places, Rejection
<1>7. c.type = "place" /\ c.kind # "staged_release" => Cardinality(OpenIn(venue)) + 1 <= MaxOpenOrders
  BY <1>2, <1>5, <1>6, RoomLeft
<1>8. Counts(n, venue)
  BY <1>3, <1>7 DEF Counts, Deciding
<1> QED BY <1>1, <1>8, LimitSubmission

(* The venue after VenueSet: an order of ours is more only if it opens.       *)
LEMMA VenueSetOpens ==
    ASSUME TypeOK, NEW x \in Cids, NEW status, VenueSet(x, status)
    PROVE  /\ status # "open" \/ x \in ExternalCids => OpenIn(venue') \subseteq OpenIn(venue)
           /\ OpenIn(venue') \subseteq OpenIn(venue) \cup {x}
<1>1. venue' = [venue EXCEPT ![x] = status] /\ venue \in [Cids -> {"none", "open", "filled", "cancelled"}]
  BY DEF VenueSet, TypeOK
<1> QED BY <1>1 DEF OpenIn, Ours

(* Execute keeps the count of open orders.                                    *)
LEMMA ExecuteLimit ==
    ASSUME GatewayInv, OrdersInv, LimitInv, RuntimeOnly, CountedFully, NEW p \in Procs, Execute(p)
    PROVE  LimitInv'
<1> DEFINE c == proc[p].cmd
<1>1. /\ At(p, "execute") /\ ~At(p, "idle") /\ (TakesEffect(c) \/ VenueSame)
  BY DEF Execute, At
<1>2. /\ TypeOK /\ c \in Commands /\ p \in c.by /\ c.target \in Cids
      /\ c.type = "place" => c.cid \in Cids
      /\ ResultKnown(proc[p], truth, venue, sent)
  BY <1>1, InSubmission, InOrders, GatewayAssumption
<1>3. p = Runtime
  BY <1>2 DEF RuntimeOnly
<1>4. \/ OpenIn(venue') \subseteq OpenIn(venue)
      \/ c.type = "place" /\ OpenIn(venue') \subseteq OpenIn(venue) \cup {c.cid}
  <2> HIDE DEF c
  <2>1. CASE VenueSame
    BY <2>1 DEF VenueSame
  <2>2. CASE c.type = "place" /\ VenueSet(c.cid, "open")
    BY <1>2, <2>2, VenueSetOpens
  <2>3. CASE VenueSet(c.target, "cancelled")
    BY <1>2, <2>3, VenueSetOpens
  <2> QED BY <1>1, <2>1, <2>2, <2>3 DEF TakesEffect
<1>5. /\ Cardinality(OpenIn(venue)) \in Nat /\ IsFiniteSet(OpenIn(venue)) /\ MaxOpenOrders \in Nat
      /\ Cardinality(OpenIn(venue')) \in Nat
  BY OpenFinite, GatewayAssumption
<1>6. Cardinality(OpenIn(venue)) <= MaxOpenOrders /\ Counts(proc[p], venue)
  BY <1>3 DEF LimitInv, OpenWithinLimit, OpenAtVenue, OpenIn
<1>7. c.type = "place" => Cardinality(OpenIn(venue)) + 1 <= MaxOpenOrders
  BY <1>1, <1>2, <1>6 DEF Counts, ResultKnown, At, Unsent
<1>8. Cardinality(OpenIn(venue')) <= MaxOpenOrders
  <2>1. CASE OpenIn(venue') \subseteq OpenIn(venue)
    BY <1>5, <1>6, <2>1, ShrinkKeeps
  <2>2. CASE c.type = "place" /\ OpenIn(venue') \subseteq OpenIn(venue) \cup {c.cid}
    <3> DEFINE S == OpenIn(venue) \cup {c.cid}
    <3>1. IsFiniteSet(S) /\ Cardinality(S) <= Cardinality(OpenIn(venue)) + 1
      <4>1. /\ IsFiniteSet(S)
            /\ Cardinality(S) = IF c.cid \in OpenIn(venue) THEN Cardinality(OpenIn(venue))
                                ELSE Cardinality(OpenIn(venue)) + 1
        BY <1>5, FS_AddElement
      <4> HIDE DEF S, c
      <4> QED BY <1>5, <4>1
    <3>2. OpenIn(venue') \in SUBSET S
      BY <2>2
    <3> HIDE DEF S
    <3>3. Cardinality(OpenIn(venue')) <= Cardinality(S) /\ Cardinality(S) \in Nat
      BY <3>1, <3>2, FS_Subset, FS_CardinalityType
    <3> QED BY <1>5, <1>7, <2>2, <3>1, <3>3
  <2> QED BY <1>4, <2>1, <2>2
<1>9. proc'[p].pc \in Afterwards
  <2>0. proc = [q \in Procs |-> [pc |-> proc[q].pc, cmd |-> proc[q].cmd,
                                 view |-> proc[q].view, result |-> proc[q].result]]
    BY <1>2 DEF TypeOK
  <2>1. CASE Goto(p, "error")
    BY <2>0, <2>1 DEF Goto, Afterwards
  <2>2. ASSUME NEW r, Answer(p, r) PROVE proc'[p].pc \in Afterwards
    <3>1. proc'[p] = [proc[p] EXCEPT !.pc = "settle", !.result = r]
      BY <2>0, <2>2 DEF Answer
    <3>2. proc[p] = [pc |-> proc[p].pc, cmd |-> proc[p].cmd,
                     view |-> proc[p].view, result |-> proc[p].result]
      BY <2>0
    <3> QED BY <3>1, <3>2 DEF Afterwards
  <2>3. Goto(p, "error") \/ \E r : Answer(p, r)
    BY DEF Execute
  <2> QED BY <2>1, <2>2, <2>3
<1>10. Counts(proc'[Runtime], venue')
  BY <1>3, <1>9, PastCounts
<1> QED BY <1>8, <1>10 DEF LimitInv, OpenWithinLimit, OpenAtVenue, OpenIn

(* What the venue and the feed do by themselves opens no order of ours.       *)
LEMMA WorldLimit ==
    ASSUME GatewayInv, LimitInv, CountedFully, Deliver \/ VenueFills \/ VenueExternal \/ UNCHANGED vars
    PROVE  LimitInv'
<1>1. proc' = proc /\ OpenIn(venue') \subseteq OpenIn(venue)
  <2>1. CASE Deliver \/ UNCHANGED vars
    BY <2>1 DEF Deliver, vars
  <2>2. CASE VenueFills
    BY <2>2, VenueSetOpens DEF VenueFills, GatewayInv
  <2>3. CASE VenueExternal
    BY <2>3, VenueSetOpens, GatewayAssumption DEF VenueExternal, GatewayInv
  <2> QED BY <2>1, <2>2, <2>3
<1>2. Runtime \in Procs /\ proc = [proc EXCEPT ![Runtime] = proc[Runtime]]
  <2>1. proc = [q \in Procs |-> [pc |-> proc[q].pc, cmd |-> proc[q].cmd,
                                 view |-> proc[q].view, result |-> proc[q].result]]
    BY DEF GatewayInv, TypeOK
  <2> QED BY <2>1, GatewayAssumption
<1>3. Counts(proc[Runtime], venue)
  BY DEF LimitInv
<1> QED BY <1>1, <1>2, <1>3, LimitSubmission

(* Every step keeps the count of open orders.                                 *)
LEMMA LimitInductive ==
    ASSUME GatewayInv, OrdersInv, LimitInv, RuntimeOnly, CountedFully, [Next]_vars
    PROVE  LimitInv'
<1>1. ASSUME NEW p \in Procs, Step(p) PROVE LimitInv'
  <2>1. CASE \E c \in Commands : Begin(p, c)
    BY <2>1, BeginLimit
  <2>2. CASE Request(p) \/ Start(p)
    BY <2>2, MoveLimit DEF Request, Start, At, LeaveWorld
  <2>3. CASE Reject(p) \/ RecordStaged(p) \/ Fail(p) \/ Abandon(p)
    BY <2>3, MoveLimit DEF Reject, RecordStaged, Fail, Abandon, At, LeaveWorld
  <2>4. CASE Settle(p)
    <3>1. \E x \in Afterwards : Goto(p, x)
      BY <2>4 DEF Settle, Afterwards
    <3> QED BY <2>4, <3>1, MoveLimit DEF Settle, At, LeaveWorld
  <2>5. CASE Record(p) \/ RecordRaises(p)
    <3>1. Return(p) \/ \E x \in Afterwards : Goto(p, x)
      BY <2>5 DEF Record, RecordRaises, Afterwards
    <3>2. ~At(p, "idle") /\ venue' = venue
      BY <2>5 DEF Record, RecordRaises, InTry, At, LeaveWorld
    <3> QED BY <3>1, <3>2, MoveLimit
  <2> QED BY <1>1, <2>1, <2>2, <2>3, <2>4, <2>5, AcceptLimit, RecordLogicalLimit, ExecuteLimit,
             RecordErrorLimit DEF Step
<1> QED BY <1>1, WorldLimit DEF Next

(* The count holds to begin with: nothing is open.                            *)
LEMMA LimitInit == ASSUME Init PROVE LimitInv
<1>1. proc = [p \in Procs |-> IdleProc] /\ Runtime \in Procs /\ venue = [c \in Cids |-> "none"]
  BY GatewayAssumption DEF Init
<1>2. proc[Runtime].pc = "idle" /\ OpenAtVenue = {}
  BY <1>1 DEF IdleProc, OpenAtVenue, Ours
<1>3. Cardinality(OpenAtVenue) = 0 /\ MaxOpenOrders \in Nat
  BY <1>2, FS_EmptySet, GatewayAssumption
<1> QED BY <1>2, <1>3, PastCounts DEF LimitInv, OpenWithinLimit

(* The bot never has more orders open at the venue than max_open_orders,      *)
(* though the gate decides on a replay that is older than its request, when   *)
(* only the runtime submits, every placement counts and failures are true.    *)
THEOREM LimitHolds == RuntimeOnly /\ CountedFully => (Spec => []OpenWithinLimit)
<1> SUFFICES ASSUME RuntimeOnly, CountedFully PROVE Spec => []OpenWithinLimit
  OBVIOUS
<1>0. Alone
  BY RuntimeAlone
<1>1. Init => OrdersInv /\ LimitInv
  BY OrdersInit, LimitInit
<1>2. GatewayInv /\ OrdersInv /\ LimitInv /\ [Next]_vars => OrdersInv' /\ LimitInv'
  BY <1>0, OrdersInductive, LimitInductive
<1>3. LimitInv => OpenWithinLimit
  BY DEF LimitInv
<1>4. Spec => []GatewayInv
  BY <1>0, GatewayInvariant
<1> QED BY <1>1, <1>2, <1>3, <1>4, PTL DEF Spec

-----------------------------------------------------------------------------
(* Reconciliation.  Nothing is assumed of what the submissions and the feed   *)
(* put on record: they leave the mismatches and the recoveries alone (Quiet). *)
(* The invariant says                                                         *)
(*   Kept     the mismatches on record differ in their order or their issue;  *)
(*   Counted  what was written once is on record;                             *)
(*   Owed     what a task in progress has yet to record is not.               *)

-----------------------------------------------------------------------------
(* What the operators of OrderProjection leave alone.                         *)

(* q is a projection with the mismatches and the recoveries of p.             *)
Quiet(p, q) == Shaped(q) /\ q.mismatches = p.mismatches /\ q.recoveries = p.recoveries

(* The helpers change neither the mismatches nor the recoveries.              *)
LEMMA SetActionQuiet == ASSUME NEW p, Shaped(p), NEW a, NEW s PROVE Quiet(p, SetAction(p, a, s))
  BY DEF SetAction, Quiet, Shaped, ProjectionFields

(* Nor does replacing an order, ...                                           *)
LEMMA WithOrderQuiet == ASSUME NEW p, Shaped(p), NEW k, NEW o PROVE Quiet(p, WithOrder(p, k, o))
  BY DEF WithOrder, Quiet, Shaped, ProjectionFields

(* ... all orders, ...                                                        *)
LEMMA OrdersQuiet == ASSUME NEW p, Shaped(p), NEW f PROVE Quiet(p, [p EXCEPT !.orders = f])
  BY DEF Quiet, Shaped, ProjectionFields

(* ... indexing one, ...                                                      *)
LEMMA IndexQuiet == ASSUME NEW p, Shaped(p), NEW k PROVE Quiet(p, Index(p, k))
<1> DEFINE f == IF p.orders[k].cid = NoId THEN p.byClient ELSE [p.byClient EXCEPT ![p.orders[k].cid] = k]
           g == IF p.orders[k].xid = NoId THEN p.byExchange ELSE [p.byExchange EXCEPT ![p.orders[k].xid] = k]
<1>1. Index(p, k) = [p EXCEPT !.byClient = f, !.byExchange = g]
  BY DEF Index
<1> HIDE DEF f, g
<1>2. Quiet(p, [p EXCEPT !.byClient = f, !.byExchange = g])
  BY DEF Quiet, Shaped, ProjectionFields
<1> QED
  BY <1>1, <1>2

(* ... or a claim of an identifier.                                           *)
LEMMA ClaimQuiet == ASSUME NEW p, Shaped(p), NEW t, NEW id, NEW k PROVE Quiet(p, Claim(p, t, id, k))
<1>1. ASSUME NEW f PROVE Quiet(p, [p EXCEPT !.owners = f])
  BY DEF Quiet, Shaped, ProjectionFields
<1>2. Quiet(p, p)
  BY DEF Quiet
<1>3. [p EXCEPT !.owners[t][id] = k] = [p EXCEPT !.owners = [p.owners EXCEPT ![t][id] = k]]
  BY DEF Shaped, ProjectionFields
<1>4. [p EXCEPT !.owners.collision = TRUE] = [p EXCEPT !.owners = [p.owners EXCEPT !.collision = TRUE]]
  BY DEF Shaped, ProjectionFields
<1>5. Quiet(p, [p EXCEPT !.owners[t][id] = k]) /\ Quiet(p, [p EXCEPT !.owners.collision = TRUE])
  BY <1>1, <1>3, <1>4
<1> QED
  BY <1>2, <1>5 DEF Claim

(* Two quiet changes are one.                                                 *)
LEMMA QuietTwice == ASSUME NEW p, NEW q, NEW r, Quiet(p, q), Quiet(q, r) PROVE Quiet(p, r)
  BY DEF Quiet

(* Both claims.                                                               *)
LEMMA ClaimBothQuiet ==
    ASSUME NEW p, Shaped(p), NEW cid, NEW xid, NEW k
    PROVE  Quiet(p, ClaimBoth(p, cid, xid, k))
<1> DEFINE q == Claim(p, "client", cid, k)
<1>1. Quiet(p, q)
  BY ClaimQuiet
<1> HIDE DEF q
<1>2. Quiet(q, Claim(q, "exchange", xid, k))
  BY <1>1, ClaimQuiet DEF Quiet
<1>3. Quiet(p, Claim(q, "exchange", xid, k))
  BY <1>1, <1>2, QuietTwice
<1> QED
  BY <1>3 DEF ClaimBoth, q

(* An order set and indexed.                                                  *)
LEMMA IndexedQuiet ==
    ASSUME NEW p, NEW q, Quiet(p, q), NEW k, NEW o
    PROVE  Quiet(p, Index(WithOrder(q, k, o), k))
<1> DEFINE r == WithOrder(q, k, o)
<1>1. Quiet(q, r)
  BY WithOrderQuiet DEF Quiet
<1> HIDE DEF r
<1>2. Quiet(r, Index(r, k))
  BY <1>1, IndexQuiet DEF Quiet
<1>3. Quiet(p, Index(r, k))
  BY <1>1, <1>2, QuietTwice
<1> QED
  BY <1>3 DEF r

-----------------------------------------------------------------------------
(* No record but those of the tasks is about a mismatch or a recovery.        *)

(* ACTION_REQUESTED.                                                          *)
LEMMA RequestedQuiet == ASSUME NEW p, Shaped(p), NEW c PROVE Quiet(p, ApplyRequested(p, c))
<1> DEFINE r == SetAction(p, c.id, "requested")
           q == [r EXCEPT !.requested = @ \cup {c.id}]
           o == [p.orders[c.id] EXCEPT !.status = "requested", !.cid = c.cid, !.size = c.size]
<1>1. Quiet(p, r)
  BY SetActionQuiet
<1>2. Quiet(p, q)
  <2> HIDE DEF r
  <2> QED
    BY <1>1 DEF Quiet, Shaped, ProjectionFields
<1>3. ApplyRequested(p, c) = IF c.id \in p.requested THEN p
                             ELSE IF c.type # "place" THEN q ELSE WithOrder(q, c.id, o)
  BY DEF ApplyRequested
<1> HIDE DEF q, o
<1>4. Quiet(q, WithOrder(q, c.id, o))
  BY <1>2, WithOrderQuiet DEF Quiet
<1>5. Quiet(p, WithOrder(q, c.id, o)) /\ Quiet(p, p)
  BY <1>2, <1>4, QuietTwice DEF Quiet
<1> QED
  BY <1>2, <1>3, <1>5

(* Every change of one order is a change of the orders.                       *)
LEMMA StatusQuiet ==
    ASSUME NEW p, NEW q, Quiet(p, q), NEW f
    PROVE  Quiet(p, [q EXCEPT !.orders = f])
  BY OrdersQuiet, QuietTwice DEF Quiet

(* ACTION_REJECTED.                                                           *)
LEMMA RejectedQuiet == ASSUME NEW p, Shaped(p), NEW c, NEW w PROVE Quiet(p, ApplyRejected(p, c, w))
<1> DEFINE q == SetAction(p, c.id, "rejected")
           f == [q.orders EXCEPT ![c.id].status = "rejected"]
<1>1. Quiet(p, q) /\ Quiet(p, p)
  BY SetActionQuiet DEF Quiet
<1>2. ApplyRejected(p, c, w) \in {p, q, [q EXCEPT !.orders[c.id].status = "rejected"]}
  BY DEF ApplyRejected
<1> HIDE DEF q
<1>3. [q EXCEPT !.orders[c.id].status = "rejected"] = [q EXCEPT !.orders = f]
  BY <1>1 DEF Quiet, Shaped, ProjectionFields
<1> HIDE DEF f
<1> QED
  BY <1>1, <1>2, <1>3, StatusQuiet

(* ACTION_ACCEPTED.                                                           *)
LEMMA AcceptedQuiet == ASSUME NEW p, Shaped(p), NEW c PROVE Quiet(p, ApplyAccepted(p, c))
<1> DEFINE r == IF c.type = "place" THEN Claim(p, "client", c.cid, c.id) ELSE p
           q == SetAction(r, c.id, "accepted")
           s == [q EXCEPT !.orders[c.id].status = "accepted", !.orders[c.id].accepted = TRUE]
           f == [q.orders EXCEPT ![c.id].status = "accepted", ![c.id].accepted = TRUE]
<1>1. Quiet(p, r)
  BY ClaimQuiet DEF Quiet
<1>2. ApplyAccepted(p, c) \in {q, Index(s, c.id)}
  BY DEF ApplyAccepted
<1> HIDE DEF r
<1>3. Quiet(r, q)
  BY <1>1, SetActionQuiet DEF Quiet
<1>4. Quiet(p, q)
  BY <1>1, <1>3, QuietTwice
<1> HIDE DEF q
<1>5. s = [q EXCEPT !.orders = f]
  BY <1>4 DEF Quiet, Shaped, ProjectionFields
<1> HIDE DEF f, s
<1>6. Quiet(p, s)
  BY <1>4, <1>5, StatusQuiet
<1>7. Quiet(s, Index(s, c.id))
  BY <1>6, IndexQuiet DEF Quiet
<1>8. Quiet(p, Index(s, c.id))
  BY <1>6, <1>7, QuietTwice
<1> QED
  BY <1>2, <1>4, <1>8

(* ACTION_EXECUTION_STARTED.                                                  *)
LEMMA StartedQuiet == ASSUME NEW p, Shaped(p), NEW c PROVE Quiet(p, ApplyStarted(p, c))
<1> DEFINE q == SetAction(p, c.id, "accepted")
           f == [q.orders EXCEPT ![c.id].started = TRUE]
<1>1. Quiet(p, q)
  BY SetActionQuiet
<1>2. ApplyStarted(p, c) \in {q, [q EXCEPT !.orders[c.id].started = TRUE]}
  BY DEF ApplyStarted
<1> HIDE DEF q
<1>3. [q EXCEPT !.orders[c.id].started = TRUE] = [q EXCEPT !.orders = f]
  BY <1>1 DEF Quiet, Shaped, ProjectionFields
<1> HIDE DEF f
<1> QED
  BY <1>1, <1>2, <1>3, StatusQuiet

(* ACTION_EXECUTION_FAILED.                                                   *)
LEMMA FailedQuiet == ASSUME NEW p, Shaped(p), NEW c, NEW r PROVE Quiet(p, ApplyFailed(p, c, r))
<1> DEFINE q == SetAction(p, c.id, "failed")
           o == [p.orders[c.id] EXCEPT !.started = TRUE]
           o1 == [WithResult(o, r) EXCEPT !.status = r.status]
           o2 == [o EXCEPT !.status = "execution_unknown"]
<1>1. Quiet(p, q)
  BY SetActionQuiet
<1>2. ApplyFailed(p, c, r) \in {q, Index(WithOrder(q, c.id, o1), c.id), WithOrder(q, c.id, o2)}
  BY DEF ApplyFailed
<1> HIDE DEF q, o1, o2
<1>3. Quiet(p, Index(WithOrder(q, c.id, o1), c.id))
  BY <1>1, IndexedQuiet
<1>4. Quiet(q, WithOrder(q, c.id, o2))
  BY <1>1, WithOrderQuiet DEF Quiet
<1>5. Quiet(p, WithOrder(q, c.id, o2))
  BY <1>1, <1>4, QuietTwice
<1> QED
  BY <1>1, <1>2, <1>3, <1>5

(* ACTION_EXECUTED.                                                           *)
LEMMA ExecutedQuiet == ASSUME NEW p, Shaped(p), NEW c, NEW r PROVE Quiet(p, ApplyExecuted(p, c, r))
<1> DEFINE q == SetAction(p, c.id, IF r.status \in {"rejected", "failed"} THEN "failed" ELSE "executed")
           b == ClaimBoth(q, r.cid, r.xid, c.id)
           k == FindOrder(q, r.xid, r.cid)
           s == [q EXCEPT !.orders[k].result = r.status,
                          !.orders[k].status = IF r.status \in {"cancelled", "failed"}
                                               THEN r.status ELSE @]
<1>1. Quiet(p, q)
  BY SetActionQuiet
<1>2. ApplyExecuted(p, c, r) = IF c.type = "place" THEN ApplyPlaced(b, c, r) ELSE ApplyCancelled(q, r)
  BY DEF ApplyExecuted
<1> HIDE DEF q
<1>3. Quiet(q, b)
  BY <1>1, ClaimBothQuiet DEF Quiet
<1>4. Quiet(p, b)
  BY <1>1, <1>3, QuietTwice
<1> HIDE DEF b
<1>5. PICK o : ApplyPlaced(b, c, r) = Index(WithOrder(b, c.id, o), c.id)
  BY DEF ApplyPlaced
<1>6. Quiet(p, ApplyPlaced(b, c, r))
  BY <1>4, <1>5, IndexedQuiet
<1>7. ApplyCancelled(q, r) \in {q, s}
  BY DEF ApplyCancelled
<1> HIDE DEF k
<1>8. PICK f : s = [q EXCEPT !.orders = f]
  <2> DEFINE f == [q.orders EXCEPT ![k].result = r.status,
                                   ![k].status = IF r.status \in {"cancelled", "failed"}
                                                 THEN r.status ELSE @]
  <2>1. s = [q EXCEPT !.orders = f]
    BY <1>1 DEF Quiet, Shaped, ProjectionFields
  <2> QED
    BY <2>1
<1> HIDE DEF s
<1>9. Quiet(p, s)
  BY <1>1, <1>8, StatusQuiet
<1> QED
  BY <1>1, <1>2, <1>6, <1>7, <1>9

(* The update of an order, by the feed or found by a lookup.                  *)
LEMMA UpdateQuiet == ASSUME NEW p, Shaped(p), NEW u PROVE Quiet(p, ApplyUpdate(p, u))
<1> DEFINE q == ClaimUpdate(p, u)
<1>1. PICK j : q = ClaimBoth(p, u.cid, u.xid, j)
  BY DEF ClaimUpdate
<1>2. Quiet(p, q)
  BY <1>1, ClaimBothQuiet
<1> HIDE DEF q
<1>3. PICK k, o : ApplyUpdate(p, u) = Index(WithOrder(q, k, o), k)
  BY DEF ApplyUpdate, q
<1> QED
  BY <1>2, <1>3, IndexedQuiet

(* ORDER_LOGICAL_CREATED and ORDER_PLACEMENT_RECORDED.                        *)
LEMMA LineageQuiet ==
    ASSUME NEW p, Shaped(p), NEW c, NEW s
    PROVE  Quiet(p, ApplyLogical(p, c)) /\ Quiet(p, ApplyPlacement(p, c, s))
<1>1. ASSUME NEW f PROVE Quiet(p, [p EXCEPT !.logical = f]) /\ Quiet(p, [p EXCEPT !.placements = f])
  BY DEF Quiet, Shaped, ProjectionFields
<1>2. Quiet(p, p)
  BY DEF Quiet
<1>3. Quiet(p, ApplyLogical(p, c))
  BY <1>1, <1>2 DEF ApplyLogical
<1>4. Quiet(p, ApplyPlacement(p, c, s))
  BY <1>1, <1>2 DEF ApplyPlacement
<1> QED
  BY <1>3, <1>4

(* A step of a submission, and the feed's.                                    *)
LEMMA StepQuiet == ASSUME Shaped(truth), NEW p, Step(p) PROVE Quiet(truth, truth')
<1>1. Quiet(truth, truth)
  BY DEF Quiet
<1>2. ASSUME InTry(p) PROVE Quiet(truth, AfterRecord(p))
  <2>1. CASE At(p, "executed")
    BY <2>1, ExecutedQuiet DEF AfterRecord, At
  <2>2. CASE At(p, "placement")
    BY <2>2, LineageQuiet DEF AfterRecord, AfterPlacement, At
  <2>3. CASE At(p, "fail_result")
    BY <2>3, FailedQuiet DEF AfterRecord, At
  <2> QED
    BY <1>2, <2>1, <2>2, <2>3 DEF InTry, At
<1>3. CASE (\E c \in Commands : Begin(p, c)) \/ Execute(p) \/ Settle(p) \/ RecordError(p) \/ Abandon(p)
  BY <1>1, <1>3 DEF Begin, Execute, Settle, RecordError, Abandon
<1>4. CASE Request(p)
  BY <1>4, RequestedQuiet DEF Request
<1>5. CASE Reject(p)
  BY <1>5, RejectedQuiet DEF Reject
<1>6. CASE Accept(p)
  BY <1>6, AcceptedQuiet DEF Accept
<1>7. CASE RecordLogical(p)
  BY <1>1, <1>7, LineageQuiet DEF RecordLogical
<1>8. CASE RecordStaged(p)
  BY <1>8, LineageQuiet DEF RecordStaged
<1>9. CASE Start(p)
  BY <1>9, StartedQuiet DEF Start
<1>10. CASE Record(p) \/ RecordRaises(p)
  BY <1>1, <1>2, <1>10 DEF Record, RecordRaises
<1>11. CASE Fail(p)
  BY <1>11, FailedQuiet DEF Fail
<1> QED
  BY <1>3, <1>4, <1>5, <1>6, <1>7, <1>8, <1>9, <1>10, <1>11 DEF Step

-----------------------------------------------------------------------------
(* The invariant.                                                             *)

(* The order's issue is on record.                                            *)
Flagged(p, k, issue) ==
    \E n \in DOMAIN p.mismatches : p.mismatches[n].key = k /\ p.mismatches[n].issue = issue

(* The mismatches on record are a sequence in which no order and issue come   *)
(* twice.                                                                     *)
Kept(p) ==
    /\ Shaped(p)
    /\ p.mismatches \in Seq(Range(p.mismatches))
    /\ \A n \in DOMAIN p.mismatches : p.mismatches[n].key \in Keys /\ p.mismatches[n].issue \in Issues
    /\ \A n, o \in DOMAIN p.mismatches : SameMismatch(p.mismatches[n], p.mismatches[o]) => n = o

(* At most one record each, and none unless the ledger says so.               *)
Counted ==
    /\ written \in [{"watchdog", "recovery"} \X Keys \X Issues -> Nat]
    /\ \A k \in Keys, issue \in Issues :
           /\ written[<<"watchdog", k, issue>>] <= (IF Flagged(truth, k, issue) THEN 1 ELSE 0)
           /\ written[<<"recovery", k, issue>>] <= (IF <<k, issue>> \in truth.recoveries THEN 1 ELSE 0)

(* What an audit has found is not on record yet, nor found twice ...          *)
AuditOwes(p, todo) ==
    /\ \A m \in todo : m.key \in Keys /\ m.issue \in Issues /\ ~Flagged(p, m.key, m.issue)
    /\ \A m, n \in todo : SameMismatch(m, n) => m = n

(* ... and what a recovery has yet to look up was not recovered.              *)
RecoveryOwes(p, todo) ==
    /\ todo # {} /\ todo \subseteq DOMAIN p.mismatches
    /\ \A n \in todo : <<p.mismatches[n].key, p.mismatches[n].issue>> \notin p.recoveries

Owed ==
    /\ task = [name |-> task.name, todo |-> task.todo, found |-> task.found]
    /\ task.name = "watchdog" => AuditOwes(truth, task.todo)
    /\ task.name \in {"recovery", "found"} => RecoveryOwes(truth, task.todo)

ReconciliationInv == Kept(truth) /\ Counted /\ Owed

-----------------------------------------------------------------------------
(* The steps.                                                                 *)

(* Nothing happens while the mismatches and the recoveries stay as they are.  *)
LEMMA QuietKept ==
    ASSUME ReconciliationInv, Quiet(truth, truth'), written' = written
    PROVE  /\ Kept(truth') /\ Counted'
           /\ AuditOwes(truth, task.todo) => AuditOwes(truth', task.todo)
           /\ RecoveryOwes(truth, task.todo) => RecoveryOwes(truth', task.todo)
           /\ task' = task => Owed'
<1>1. /\ truth'.mismatches = truth.mismatches /\ truth'.recoveries = truth.recoveries
      /\ Shaped(truth')
  BY DEF Quiet
<1>2. Kept(truth')
  BY <1>1 DEF ReconciliationInv, Kept
<1>3. \A k, issue : Flagged(truth', k, issue) <=> Flagged(truth, k, issue)
  BY <1>1 DEF Flagged
<1>4. Counted'
  BY <1>1, <1>3 DEF ReconciliationInv, Counted
<1>5. AuditOwes(truth, task.todo) => AuditOwes(truth', task.todo)
  BY <1>3 DEF AuditOwes
<1>6. RecoveryOwes(truth, task.todo) => RecoveryOwes(truth', task.todo)
  BY <1>1 DEF RecoveryOwes
<1>7. task' = task => Owed'
  BY <1>5, <1>6 DEF ReconciliationInv, Owed
<1> QED
  BY <1>2, <1>4, <1>5, <1>6, <1>7

(* A task that is over owes nothing.                                          *)
LEMMA OverOwes == ASSUME task' = NoTask PROVE Owed'
  BY DEF NoTask, Owed

(* RECONCILIATION_MISMATCH of what an audit found.                            *)
LEMMA MismatchWritten ==
    ASSUME ReconciliationInv, task.name = "watchdog", NEW m \in task.todo,
           truth' = ApplyMismatch(truth, m), Count("watchdog", m)
    PROVE  Kept(truth') /\ Counted' /\ AuditOwes(truth', task.todo \ {m})
<1> DEFINE s == truth.mismatches
           t == Append(s, m)
<1>1. /\ m.key \in Keys /\ m.issue \in Issues /\ ~Flagged(truth, m.key, m.issue)
      /\ \A x, y \in task.todo : SameMismatch(x, y) => x = y
      /\ \A x \in task.todo : /\ x.key \in Keys /\ x.issue \in Issues
                              /\ ~Flagged(truth, x.key, x.issue)
  BY DEF ReconciliationInv, Owed, AuditOwes
<1>2. /\ Shaped(truth) /\ s \in Seq(Range(s))
      /\ \A n \in DOMAIN s : s[n].key \in Keys /\ s[n].issue \in Issues
      /\ \A n, o \in DOMAIN s : SameMismatch(s[n], s[o]) => n = o
  BY DEF ReconciliationInv, Kept
<1>3. ~HasMismatch(truth, m)
  BY <1>1 DEF HasMismatch, SameMismatch, Flagged
<1>4. truth' = [truth EXCEPT !.mismatches = t]
  BY <1>3 DEF ApplyMismatch
<1> HIDE DEF t
<1>5. Shaped(truth') /\ truth'.mismatches = t /\ truth'.recoveries = truth.recoveries
  BY <1>2, <1>4 DEF Shaped, ProjectionFields
<1>6. /\ Len(s) \in Nat /\ DOMAIN s = 1..Len(s) /\ DOMAIN t = 1..Len(s) + 1
      /\ \A n \in 1..Len(s) : t[n] = s[n]
      /\ t[Len(s) + 1] = m
  <2> DEFINE S == Range(s) \cup {m}
  <2>1. s \in Seq(S) /\ m \in S
    BY <1>2, SeqMonotonic
  <2> HIDE DEF S
  <2> QED
    BY <2>1, AppendProperties DEF t
<1>7. t \in Seq(Range(t))
  <2> DEFINE S == Range(s) \cup {m}
  <2>1. s \in Seq(S) /\ m \in S
    BY <1>2, SeqMonotonic
  <2> HIDE DEF S
  <2>2. t \in Seq(S)
    BY <2>1, AppendProperties DEF t
  <2> HIDE DEF s
  <2>3. t \in [1..Len(s) + 1 -> Range(t)] /\ Len(s) + 1 \in Nat
    BY <1>6, <2>2 DEF Range
  <2> QED
    BY <2>3, SeqDef
<1> HIDE DEF s
<1>8. \A n \in DOMAIN t : (n \in DOMAIN s /\ t[n] = s[n]) \/ (n = Len(s) + 1 /\ t[n] = m)
  <2> SUFFICES ASSUME NEW n \in 1..Len(s) + 1
               PROVE  (n \in 1..Len(s) /\ t[n] = s[n]) \/ (n = Len(s) + 1 /\ t[n] = m)
    BY <1>6
  <2>1. n \in 1..Len(s) \/ n = Len(s) + 1
    BY <1>6
  <2> QED
    BY <1>6, <2>1
<1>9. \A n \in DOMAIN s : n \in DOMAIN t /\ t[n] = s[n] /\ ~SameMismatch(s[n], m) /\ ~SameMismatch(m, s[n])
  BY <1>1, <1>6 DEF Flagged, SameMismatch, s
<1>10. Kept(truth')
  <2>1. \A n \in DOMAIN t : t[n].key \in Keys /\ t[n].issue \in Issues
    BY <1>1, <1>2, <1>8
  <2>2. ASSUME NEW n \in DOMAIN t, NEW o \in DOMAIN t, SameMismatch(t[n], t[o]) PROVE n = o
    BY <1>2, <1>8, <1>9, <2>2
  <2> QED
    BY <1>5, <1>7, <2>1, <2>2 DEF Kept
<1>11. \A k, issue : Flagged(truth', k, issue) <=> Flagged(truth, k, issue) \/ (k = m.key /\ issue = m.issue)
  <2>1. Len(s) + 1 \in DOMAIN t /\ t[Len(s) + 1] = m
    BY <1>6
  <2> QED
    BY <1>5, <1>8, <1>9, <2>1 DEF Flagged, s
<1>12. Counted'
  <2> DEFINE w == <<"watchdog", m.key, m.issue>>
  <2>1. /\ written \in [{"watchdog", "recovery"} \X Keys \X Issues -> Nat]
        /\ written' = [written EXCEPT ![w] = @ + 1]
        /\ w \in {"watchdog", "recovery"} \X Keys \X Issues
        /\ written[w] <= 0
    BY <1>1 DEF ReconciliationInv, Counted, Count
  <2>2. written' \in [{"watchdog", "recovery"} \X Keys \X Issues -> Nat] /\ written'[w] <= 1
    BY <2>1
  <2>3. ASSUME NEW k \in Keys, NEW issue \in Issues
        PROVE  /\ written'[<<"watchdog", k, issue>>] <= (IF Flagged(truth', k, issue) THEN 1 ELSE 0)
               /\ written'[<<"recovery", k, issue>>] <= (IF <<k, issue>> \in truth'.recoveries THEN 1 ELSE 0)
    <3>1. /\ written[<<"watchdog", k, issue>>] <= (IF Flagged(truth, k, issue) THEN 1 ELSE 0)
          /\ written[<<"recovery", k, issue>>] <= (IF <<k, issue>> \in truth.recoveries THEN 1 ELSE 0)
      BY DEF ReconciliationInv, Counted
    <3>2. written'[<<"recovery", k, issue>>] = written[<<"recovery", k, issue>>]
      BY <2>1
    <3>3. CASE k = m.key /\ issue = m.issue
      BY <1>5, <1>11, <2>2, <3>1, <3>2, <3>3
    <3>4. CASE ~(k = m.key /\ issue = m.issue)
      <4>1. written'[<<"watchdog", k, issue>>] = written[<<"watchdog", k, issue>>]
        BY <2>1, <3>4
      <4>2. Flagged(truth', k, issue) <=> Flagged(truth, k, issue)
        BY <1>11, <3>4
      <4> QED
        BY <1>5, <3>1, <3>2, <4>1, <4>2
    <3> QED
      BY <3>3, <3>4
  <2> QED
    BY <2>2, <2>3 DEF Counted
<1>13. AuditOwes(truth', task.todo \ {m})
  BY <1>1, <1>11 DEF AuditOwes, SameMismatch
<1> QED
  BY <1>10, <1>12, <1>13

(* The foremost of what a recovery has yet to look up is one of them.         *)
LEMMA ForemostOwed ==
    ASSUME ReconciliationInv, RecoveryOwes(truth, task.todo)
    PROVE  Foremost \in task.todo
<1> DEFINE todo == task.todo
<1>1. todo \subseteq Nat /\ todo # {}
  <2>1. truth.mismatches \in Seq(Range(truth.mismatches))
    BY DEF ReconciliationInv, Kept
  <2>2. DOMAIN truth.mismatches \subseteq Nat
    BY <2>1
  <2> QED
    BY <2>2 DEF RecoveryOwes
<1>2. \E x \in todo : \A y \in todo : ~ (<<y, x>> \in OpToRel(<, Nat))
  BY <1>1, NatLessThanWellFounded, WFMin
<1>3. PICK x \in todo : \A y \in todo : ~ (<<y, x>> \in OpToRel(<, Nat))
  BY <1>2
<1>4. ASSUME NEW y \in todo PROVE x <= y
  <2>1. x \in Nat /\ y \in Nat
    BY <1>1
  <2>2. <<y, x>> \notin {z \in Nat \X Nat : z[1] < z[2]}
    BY <1>3 DEF OpToRel
  <2>3. <<y, x>> \in Nat \X Nat /\ <<y, x>>[1] = y /\ <<y, x>>[2] = x
    BY <2>1
  <2> QED
    BY <2>1, <2>2, <2>3
<1> QED
  BY <1>4 DEF Foremost

(* What ApplyRecovery does to mismatches and recoveries.                      *)
LEMMA RecoveryFacts ==
    ASSUME NEW p, Shaped(p), NEW m, NEW updates
    PROVE  LET q == ApplyRecovery(p, m, updates)
           IN  /\ Shaped(q) /\ q.mismatches = p.mismatches
               /\ q.recoveries = p.recoveries \cup {<<m.key, m.issue>>}
<1> DEFINE q == [p EXCEPT !.recoveries = @ \cup {<<m.key, m.issue>>}]
           u == CHOOSE x \in updates : TRUE
           b == ClaimBoth(q, u.cid, u.xid, m.key)
<1>1. /\ Shaped(q) /\ q.mismatches = p.mismatches
      /\ q.recoveries = p.recoveries \cup {<<m.key, m.issue>>}
  BY DEF Shaped, ProjectionFields
<1>2. ApplyRecovery(p, m, updates) \in {q, ApplyUpdate(b, u)}
  BY DEF ApplyRecovery
<1> HIDE DEF q, u
<1>3. Quiet(q, b)
  BY <1>1, ClaimBothQuiet
<1> HIDE DEF b
<1>4. Quiet(b, ApplyUpdate(b, u))
  BY <1>3, UpdateQuiet DEF Quiet
<1>5. Quiet(q, ApplyUpdate(b, u)) /\ Quiet(q, q)
  BY <1>1, <1>3, <1>4, QuietTwice DEF Quiet
<1>6. Quiet(q, ApplyRecovery(p, m, updates))
  BY <1>2, <1>5
<1> QED
  BY <1>1, <1>6 DEF Quiet

(* RECONCILIATION_RECOVERY of the mismatch at hand.                           *)
LEMMA RecoveryWritten ==
    ASSUME ReconciliationInv, task.name = "found",
           truth' = ApplyRecovery(truth, Current, task.found), Count("recovery", Current)
    PROVE  /\ Kept(truth') /\ Counted'
           /\ task.todo \ {Foremost} # {} => RecoveryOwes(truth', task.todo \ {Foremost})
<1> DEFINE c == Current
           f == Foremost
           s == truth.mismatches
<1>1. RecoveryOwes(truth, task.todo)
  BY DEF ReconciliationInv, Owed
<1>2. f \in task.todo /\ f \in DOMAIN s /\ c = s[f]
  BY <1>1, ForemostOwed DEF RecoveryOwes, Current
<1> HIDE DEF f, c
<1>3. /\ Shaped(truth) /\ c.key \in Keys /\ c.issue \in Issues
      /\ \A n \in DOMAIN s : SameMismatch(s[n], c) => n = f
  BY <1>2 DEF ReconciliationInv, Kept
<1>4. /\ Shaped(truth') /\ truth'.mismatches = s
      /\ truth'.recoveries = truth.recoveries \cup {<<c.key, c.issue>>}
  BY <1>3, RecoveryFacts DEF c
<1>5. <<c.key, c.issue>> \notin truth.recoveries
  BY <1>1, <1>2 DEF RecoveryOwes
<1>6. Kept(truth')
  BY <1>4 DEF ReconciliationInv, Kept
<1>7. \A k, issue : Flagged(truth', k, issue) <=> Flagged(truth, k, issue)
  BY <1>4 DEF Flagged
<1>8. Counted'
  <2> DEFINE w == <<"recovery", c.key, c.issue>>
  <2>1. /\ written \in [{"watchdog", "recovery"} \X Keys \X Issues -> Nat]
        /\ written' = [written EXCEPT ![w] = @ + 1]
        /\ w \in {"watchdog", "recovery"} \X Keys \X Issues
        /\ written[w] <= 0
    BY <1>3, <1>5 DEF ReconciliationInv, Counted, Count, c
  <2>2. written' \in [{"watchdog", "recovery"} \X Keys \X Issues -> Nat] /\ written'[w] <= 1
    BY <2>1
  <2>3. ASSUME NEW k \in Keys, NEW issue \in Issues
        PROVE  /\ written'[<<"watchdog", k, issue>>] <= (IF Flagged(truth', k, issue) THEN 1 ELSE 0)
               /\ written'[<<"recovery", k, issue>>] <= (IF <<k, issue>> \in truth'.recoveries THEN 1 ELSE 0)
    <3>1. /\ written[<<"watchdog", k, issue>>] <= (IF Flagged(truth, k, issue) THEN 1 ELSE 0)
          /\ written[<<"recovery", k, issue>>] <= (IF <<k, issue>> \in truth.recoveries THEN 1 ELSE 0)
      BY DEF ReconciliationInv, Counted
    <3>2. written'[<<"watchdog", k, issue>>] = written[<<"watchdog", k, issue>>]
      BY <2>1
    <3>3. CASE k = c.key /\ issue = c.issue
      BY <1>4, <1>7, <2>2, <3>1, <3>2, <3>3
    <3>4. CASE ~(k = c.key /\ issue = c.issue)
      <4>1. written'[<<"recovery", k, issue>>] = written[<<"recovery", k, issue>>]
        BY <2>1, <3>4
      <4>2. <<k, issue>> \in truth'.recoveries <=> <<k, issue>> \in truth.recoveries
        BY <1>4, <3>4
      <4> QED
        BY <1>7, <3>1, <3>2, <4>1, <4>2
    <3> QED
      BY <3>3, <3>4
  <2> QED
    BY <2>2, <2>3 DEF Counted
<1>9. ASSUME NEW n \in task.todo \ {f}
      PROVE  n \in DOMAIN s /\ <<s[n].key, s[n].issue>> \notin truth'.recoveries
  <2>1. n \in DOMAIN s /\ <<s[n].key, s[n].issue>> \notin truth.recoveries
    BY <1>1 DEF RecoveryOwes
  <2>2. ~SameMismatch(s[n], c)
    BY <1>3, <2>1
  <2> QED
    BY <1>4, <2>1, <2>2 DEF SameMismatch
<1>10. task.todo \ {f} # {} => RecoveryOwes(truth', task.todo \ {f})
  BY <1>4, <1>9 DEF RecoveryOwes
<1> QED
  BY <1>6, <1>8, <1>10 DEF f

(* A task starts with what the replay says is owed.                           *)
LEMMA TaskStarts ==
    ASSUME NEW name \in {"watchdog", "recovery"}, NEW todo, task' = Task(name, todo),
           name = "watchdog" => AuditOwes(truth', todo),
           name = "recovery" /\ todo # {} => RecoveryOwes(truth', todo)
    PROVE  Owed'
<1>1. CASE todo = {}
  BY <1>1, OverOwes DEF Task
<1>2. CASE todo # {}
  <2>1. task' = [name |-> name, todo |-> todo, found |-> {}]
    BY <1>2 DEF Task
  <2> QED
    BY <1>2, <2>1 DEF Owed
<1> QED
  BY <1>1, <1>2

(* The invariant holds of the empty ledger.                                   *)
LEMMA ReconciliationInit == ASSUME RInit PROVE ReconciliationInv
<1>1. truth = Empty /\ task = NoTask /\ written = [mi \in {"watchdog", "recovery"} \X Keys \X Issues |-> 0]
  BY DEF RInit, Init
<1>2. Shaped(Empty) /\ Empty.mismatches = << >> /\ Empty.recoveries = {}
  BY DEF Empty, Shaped, ProjectionFields
<1>3. << >> \in Seq(Range(<< >>)) /\ DOMAIN << >> = {}
  BY EmptySeq
<1>4. Kept(truth)
  BY <1>1, <1>2, <1>3 DEF Kept
<1>5. Counted
  BY <1>1 DEF Counted
<1>6. Owed
  BY <1>1 DEF Owed, NoTask
<1> QED
  BY <1>4, <1>5, <1>6 DEF ReconciliationInv

(* Every step keeps the invariant.                                            *)
LEMMA ReconciliationInductive ==
    ASSUME ReconciliationInv, [RNext]_allvars
    PROVE  ReconciliationInv'
<1>0. Shaped(truth) /\ Quiet(truth, truth)
  BY DEF ReconciliationInv, Kept, Quiet
<1>1. ASSUME Quiet(truth, truth'), written' = written, task' = task PROVE ReconciliationInv'
  BY <1>1, QuietKept DEF ReconciliationInv
<1>2. CASE RuntimeStep
  BY <1>0, <1>1, <1>2, StepQuiet DEF RuntimeStep, rvars
<1>3. CASE RuntimeDelivers
  BY <1>0, <1>1, <1>3, UpdateQuiet DEF RuntimeDelivers, Deliver, rvars
<1>4. CASE UpdateLost \/ OrderFills \/ TimesOut \/ UNCHANGED allvars
  BY <1>0, <1>1, <1>4
     DEF UpdateLost, OrderFills, VenueFills, TimesOut, vars, rvars, allvars
<1>5. CASE BeginAudit
  <2>1. truth' = truth /\ written' = written /\ task' = Task("watchdog", Findings)
    BY <1>5 DEF BeginAudit, vars
  <2>2. AuditOwes(truth', Findings)
    <3>1. ASSUME NEW m \in Findings
          PROVE  /\ m.key \in Keys /\ m.issue \in Issues /\ ~Flagged(truth, m.key, m.issue)
                 /\ m = Mismatch(m.key, m.issue)
      <4>1. PICK k \in Keys, issue \in Issues : m = Mismatch(k, issue)
        BY DEF Findings
      <4>2. m.key = k /\ m.issue = issue
        BY <4>1 DEF Mismatch
      <4>3. ~HasMismatch(truth, m)
        BY DEF Findings
      <4> QED
        BY <4>1, <4>2, <4>3 DEF HasMismatch, SameMismatch, Flagged
    <3> QED
      BY <2>1, <3>1 DEF AuditOwes, SameMismatch
  <2>3. Owed'
    BY <2>1, <2>2, TaskStarts
  <2> QED
    BY <1>0, <2>1, <2>3, QuietKept DEF ReconciliationInv
<1>6. CASE EmitMismatch
  <2>1. PICK m \in task.todo : /\ truth' = ApplyMismatch(truth, m) /\ Count("watchdog", m)
                               /\ task' = Task("watchdog", task.todo \ {m})
    BY <1>6 DEF EmitMismatch
  <2>2. Kept(truth') /\ Counted' /\ AuditOwes(truth', task.todo \ {m})
    BY <1>6, <2>1, MismatchWritten DEF EmitMismatch
  <2>3. Owed'
    BY <2>1, <2>2, TaskStarts
  <2> QED
    BY <2>2, <2>3 DEF ReconciliationInv
<1>7. CASE BeginRecover
  <2>1. truth' = truth /\ written' = written /\ task' = Task("recovery", Unrecovered)
    BY <1>7 DEF BeginRecover, vars
  <2>2. Unrecovered # {} => RecoveryOwes(truth', Unrecovered)
    BY <2>1 DEF RecoveryOwes, Unrecovered
  <2>3. Owed'
    BY <2>1, <2>2, TaskStarts
  <2> QED
    BY <1>0, <2>1, <2>3, QuietKept DEF ReconciliationInv
<1>8. CASE Lookup
  <2>1. PICK updates : task' = [task EXCEPT !.name = "found", !.found = updates]
    BY <1>8 DEF Lookup
  <2>2. truth' = truth /\ written' = written /\ task.name = "recovery"
    BY <1>8 DEF Lookup, vars
  <2>3. RecoveryOwes(truth, task.todo)
    BY <2>2 DEF ReconciliationInv, Owed
  <2>4. task' = [name |-> "found", todo |-> task.todo, found |-> updates]
    BY <2>1 DEF ReconciliationInv, Owed
  <2>5. Owed'
    BY <2>2, <2>3, <2>4 DEF Owed
  <2> QED
    BY <1>0, <2>2, <2>5, QuietKept DEF ReconciliationInv
<1>9. CASE EmitRecovery
  <2>1. /\ task.name = "found" /\ truth' = ApplyRecovery(truth, Current, task.found)
        /\ Count("recovery", Current) /\ task' = Task("recovery", task.todo \ {Foremost})
    BY <1>9 DEF EmitRecovery
  <2>2. /\ Kept(truth') /\ Counted'
        /\ task.todo \ {Foremost} # {} => RecoveryOwes(truth', task.todo \ {Foremost})
    BY <2>1, RecoveryWritten
  <2>3. Owed'
    BY <2>1, <2>2, TaskStarts
  <2> QED
    BY <2>2, <2>3 DEF ReconciliationInv
<1>10. CASE LookupFails
  <2>1. truth' = truth /\ written' = written /\ task' = NoTask
    BY <1>10 DEF LookupFails, vars
  <2> QED
    BY <1>0, <2>1, QuietKept, OverOwes DEF ReconciliationInv
<1>11. CASE TaskFails
  <2>1. Owed'
    BY <1>11, OverOwes DEF TaskFails
  <2>2. CASE UNCHANGED <<truth, written>>
    BY <1>0, <2>1, <2>2, QuietKept DEF ReconciliationInv
  <2>3. ASSUME task.name = "watchdog", NEW m \in task.todo,
               truth' = ApplyMismatch(truth, m), Count("watchdog", m)
        PROVE  ReconciliationInv'
    BY <2>1, <2>3, MismatchWritten DEF ReconciliationInv
  <2>4. CASE /\ task.name = "found" /\ truth' = ApplyRecovery(truth, Current, task.found)
             /\ Count("recovery", Current)
    BY <2>1, <2>4, RecoveryWritten DEF ReconciliationInv
  <2> QED
    BY <1>11, <2>2, <2>3, <2>4 DEF TaskFails
<1> QED
  BY <1>2, <1>3, <1>4, <1>5, <1>6, <1>7, <1>8, <1>9, <1>10, <1>11 DEF RNext

(* The invariant holds in every state of the tasks, the submissions and the   *)
(* feed.                                                                      *)
THEOREM ReconciliationInvariant == RSpec => []ReconciliationInv
<1>1. RInit => ReconciliationInv
  BY ReconciliationInit
<1>2. ReconciliationInv /\ [RNext]_allvars => ReconciliationInv'
  BY ReconciliationInductive
<1> QED
  BY <1>1, <1>2, PTL DEF RSpec

(* However often a task failed before or after its record became durable,     *)
(* whoever ran it again, and whatever else came on record meanwhile, the      *)
(* watchdog records an order's issue once and so does the recovery.           *)
THEOREM ReconciledOnceAlways == RSpec => []ReconciledOnce
<1>1. ReconciliationInv => ReconciledOnce
  <2> SUFFICES ASSUME ReconciliationInv, NEW w \in DOMAIN written PROVE written[w] <= 1
    BY DEF ReconciledOnce
  <2>1. /\ written \in [{"watchdog", "recovery"} \X Keys \X Issues -> Nat]
        /\ \A k \in Keys, issue \in Issues :
               written[<<"watchdog", k, issue>>] <= 1 /\ written[<<"recovery", k, issue>>] <= 1
    <3>1. written \in [{"watchdog", "recovery"} \X Keys \X Issues -> Nat]
      BY DEF ReconciliationInv, Counted
    <3>2. ASSUME NEW k \in Keys, NEW issue \in Issues
          PROVE  written[<<"watchdog", k, issue>>] <= 1 /\ written[<<"recovery", k, issue>>] <= 1
      <4>1. /\ written[<<"watchdog", k, issue>>] <= (IF Flagged(truth, k, issue) THEN 1 ELSE 0)
            /\ written[<<"recovery", k, issue>>] <= (IF <<k, issue>> \in truth.recoveries THEN 1 ELSE 0)
        BY DEF ReconciliationInv, Counted
      <4>2. written[<<"watchdog", k, issue>>] \in Nat /\ written[<<"recovery", k, issue>>] \in Nat
        BY <3>1
      <4> QED
        BY <4>1, <4>2
    <3> QED
      BY <3>1, <3>2
  <2>2. PICK n \in {"watchdog", "recovery"}, k \in Keys, issue \in Issues : w = <<n, k, issue>>
    BY <2>1
  <2> QED
    BY <2>1, <2>2
<1> QED
  BY <1>1, ReconciliationInvariant, PTL

-----------------------------------------------------------------------------
(* Reconciliation together with the gateway, the venue and the feed.          *)

(* q is p but for the records of the tasks, and the owners ledger health      *)
(* replays still agree with the maps.                                         *)
Alike(p, q) ==
    /\ ProjectionOk(q)
    /\ q.actions = p.actions /\ q.requested = p.requested /\ q.orders = p.orders
    /\ q.byClient = p.byClient /\ q.byExchange = p.byExchange
    /\ q.placements = p.placements
    /\ q.owners.client = q.byClient /\ ~q.owners.collision
    /\ \A x \in Cids : q.owners.exchange[x] \in {NoId, q.byClient[x]}

(* What a record of a task may do to the projection of the ledger.            *)
Advances(t, u, v, f, s, L) ==
    /\ ProjectionOk(u) /\ Coherent(u) /\ Grows(t, u)
    /\ OrdersOk(u, v, s) /\ OpenKnown(u, v, f, L)

(* Such a projection keeps all that is known of p.                            *)
LEMMA AlikeAdvances ==
    ASSUME NEW p, ProjectionOk(p), Coherent(p), NEW q, Alike(p, q),
           NEW v, NEW f, NEW s, NEW L, OrdersOk(p, v, s), OpenKnown(p, v, f, L)
    PROVE  Advances(p, q, v, f, s, L)
<1> USE DEF Alike
<1>1. \A a \in Actions : Decided(q, a) <=> Decided(p, a)
  BY DEF Decided
<1>2. Coherent(q)
  BY <1>1 DEF Coherent, Owning
<1>3. Grows(p, q)
  BY <1>1 DEF Grows
<1>4. OrdersOk(q, v, s)
  BY <1>1 DEF OrdersOk, OrderOf, Remembered, Staged
<1>5. OpenKnown(q, v, f, L)
  BY DEF OpenKnown
<1> QED BY <1>2, <1>3, <1>4, <1>5 DEF Advances

(* RECONCILIATION_MISMATCH changes no order.                                  *)
LEMMA MismatchAlike ==
    ASSUME NEW p, ProjectionOk(p), Coherent(p), NEW m
    PROVE  Alike(p, ApplyMismatch(p, m))
<1>1. ASSUME NEW s PROVE Alike(p, [p EXCEPT !.mismatches = s])
  BY DEF Alike, ProjectionOk, ProjectionFields, Coherent
<1>2. \E s : ApplyMismatch(p, m) = [p EXCEPT !.mismatches = s]
  BY DEF ApplyMismatch
<1> QED BY <1>1, <1>2

(* An update of an order that is on record, with a status the venue has or    *)
(* had, and if it had it the feed will tell.                                  *)
Told(u, v, f, L) ==
    /\ u \in Updates /\ u.xid = u.cid /\ v[u.cid] # "none"
    /\ u.status # "open" => v[u.cid] # "open"
    /\ u.status = "open" => v[u.cid] = "open" \/ Pending(f, u.cid) \/ u.cid \in L

LEMMA ToldAdvances ==
    ASSUME NEW p, ProjectionOk(p), Coherent(p), NEW u, NEW v, NEW f, NEW s, NEW L,
           Told(u, v, f, L), p.byClient[u.cid] # NoId,
           OrdersOk(p, v, s), OpenKnown(p, v, f, L)
    PROVE  Advances(p, ApplyUpdate(p, u), v, f, s, L)
<1> DEFINE q == ApplyUpdate(p, u)
           x == u.cid
<1>0. /\ u \in Updates /\ u.xid = u.cid /\ x \in Cids /\ NoId \notin Keys
      /\ v[x] # "none" /\ (u.status # "open" => v[x] # "open")
      /\ u.status = "open" => v[x] = "open" \/ Pending(f, x) \/ x \in L
  BY GatewayAssumption DEF Told, Updates, Keys
<1>1. Moves(p, q, {}, ExternalCids)
  BY <1>0, UpdateMoves
<1>2. ProjectionOk(q) /\ Coherent(q) /\ Grows(p, q)
  BY <1>1 DEF Moves
<1>3. \E k : Touches(p, q, v, s, k)
  BY <1>0, UpdateTends
<1>4. PICK k : Updated(p, q, u, k)
  BY <1>0, UpdateKeeps
<1> HIDE DEF q
<1>5. OrdersOk(q, v, s)
  <2>1. Tends(p, q, v, s)
    BY <1>2, <1>3, TendsAt
  <2> QED BY <2>1, OrdersTend
<1>6. p.byClient \in [Cids -> Keys \cup {NoId}]
  BY DEF ProjectionOk
<1>7. ASSUME NEW j \in Keys, q.orders[j].status = "open"
      PROVE  LET y == q.orders[j].cid
             IN  y \in Cids /\ q.byClient[y] = j /\ (v[y] = "open" \/ Pending(f, y) \/ y \in L)
  <2>1. CASE j = k
    BY <1>0, <1>4, <1>6, <1>7, <2>1 DEF Updated
  <2>2. CASE j # k
    <3> DEFINE y == p.orders[j].cid
    <3>1. q.orders[j] = p.orders[j] /\ p.orders[j].status = "open"
      BY <1>4, <1>7, <2>2 DEF Updated
    <3>2. y \in Cids /\ p.byClient[y] = j /\ (v[y] = "open" \/ Pending(f, y) \/ y \in L)
      BY <3>1 DEF OpenKnown
    <3> HIDE DEF y
    <3>3. q.byClient[y] = j
      BY <1>0, <1>2, <3>2 DEF Grows
    <3> QED BY <3>1, <3>2, <3>3 DEF y
  <2> QED BY <2>1, <2>2
<1>8. OpenKnown(q, v, f, L)
  BY <1>7 DEF OpenKnown
<1> QED BY <1>2, <1>5, <1>8 DEF Advances, q

(* What a mismatch was recorded with: the order the exchange id is of.        *)
Named(t, m) == /\ m.key \in Keys
               /\ m.xid # NoId => m.xid \in Cids /\ t.byClient[m.xid] = m.key

(* It stays so while the identifiers of the orders do.                        *)
LEMMA NamedKept == ASSUME NEW t, NEW u, NEW m, Grows(t, u), Named(t, m) PROVE Named(u, m)
<1>1. NoId \notin Keys
  BY GatewayAssumption DEF Keys
<1> QED BY <1>1 DEF Grows, Named

(* RECONCILIATION_RECOVERY, with what the venue said of the mismatch's order  *)
(* or without: the claim of the order's identifiers is the order's own, and   *)
(* the update reaches that order.                                             *)
LEMMA RecoveryAdvances ==
    ASSUME NEW p, ProjectionOk(p), Coherent(p), NEW m, NEW updates, NEW v, NEW f, NEW s, NEW L,
           Named(p, m), OrdersOk(p, v, s), OpenKnown(p, v, f, L),
           \A u \in updates : Told(u, v, f, L) /\ u.cid = m.xid /\ m.xid # NoId
    PROVE  Advances(p, ApplyRecovery(p, m, updates), v, f, s, L)
<1> DEFINE q == [p EXCEPT !.recoveries = @ \cup {<<m.key, m.issue>>}]
           u == CHOOSE y \in updates : TRUE
           x == m.xid
           b == ClaimBoth(q, u.cid, u.xid, m.key)
<1>1. Alike(p, q) /\ q.owners = p.owners
  <2>1. ASSUME NEW r PROVE Alike(p, [p EXCEPT !.recoveries = r]) /\ [p EXCEPT !.recoveries = r].owners = p.owners
    BY DEF Alike, ProjectionOk, ProjectionFields, Coherent
  <2>2. q = [p EXCEPT !.recoveries = p.recoveries \cup {<<m.key, m.issue>>}]
    OBVIOUS
  <2> QED BY <2>1, <2>2
<1>2. ApplyRecovery(p, m, updates) = IF updates = {} THEN q ELSE ApplyUpdate(b, u)
  BY DEF ApplyRecovery
<1>3. CASE updates = {}
  <2> HIDE DEF q
  <2> QED BY <1>1, <1>2, <1>3, AlikeAdvances
<1>4. CASE updates # {}
  <2>1. u \in updates
    BY <1>4
  <2> HIDE DEF u, q, b
  <2>2. /\ Told(u, v, f, L) /\ u.cid = x /\ u.xid = x /\ x \in Cids
        /\ m.key \in Keys /\ m.key # NoId /\ p.byClient[x] = m.key
    BY <2>1, GatewayAssumption DEF Told, Named, Keys
  <2>3. b = ClaimBoth(q, x, x, m.key)
    BY <2>2 DEF b
  <2>4. /\ ProjectionOk(q) /\ q.byClient = p.byClient /\ q.byExchange = p.byExchange
        /\ q.actions = p.actions /\ q.requested = p.requested /\ q.orders = p.orders
        /\ q.placements = p.placements
        /\ q.owners.client = q.byClient /\ ~q.owners.collision
        /\ \A y \in Cids : q.owners.exchange[y] \in {NoId, q.byClient[y]}
    BY <1>1 DEF Alike
  <2>5. q.owners.client[x] \in {NoId, m.key} /\ q.owners.exchange[x] \in {NoId, m.key}
    BY <2>2, <2>4
  <2>6. /\ ProjectionOk(b)
        /\ b.byClient = q.byClient /\ b.byExchange = q.byExchange
        /\ b.requested = q.requested /\ b.actions = q.actions
        /\ b.orders = q.orders /\ b.placements = q.placements
        /\ b.owners.client = [q.owners.client EXCEPT ![x] = m.key]
        /\ b.owners.exchange = [q.owners.exchange EXCEPT ![x] = m.key]
        /\ b.owners.collision = q.owners.collision
    BY <2>2, <2>3, <2>4, <2>5, ClaimBothFacts
  <2>7. /\ q.byClient \in [Cids -> Keys \cup {NoId}]
        /\ q.owners.exchange \in [Cids -> Keys \cup {NoId}]
    BY <2>4 DEF ProjectionOk
  <2>8. /\ b.owners.client = b.byClient
        /\ \A y \in Cids : b.owners.exchange[y] \in {NoId, b.byClient[y]}
    BY <2>2, <2>4, <2>6, <2>7
  <2>9. Alike(p, b)
    BY <2>4, <2>6, <2>8 DEF Alike
  <2>10. Advances(p, b, v, f, s, L)
    BY <2>9, AlikeAdvances
  <2>11. b.byClient[u.cid] # NoId
    BY <2>2, <2>4, <2>6
  <2>12. Advances(b, ApplyUpdate(b, u), v, f, s, L)
    BY <2>2, <2>10, <2>11, ToldAdvances DEF Advances
  <2>13. Grows(p, ApplyUpdate(b, u))
    BY <2>10, <2>12 DEF Advances, Grows
  <2>14. Advances(p, ApplyUpdate(b, u), v, f, s, L)
    BY <2>12, <2>13 DEF Advances
  <2> QED BY <1>2, <1>4, <2>14
<1> QED BY <1>3, <1>4

(* The feed loses its first update.                                           *)
LEMMA LossSettled ==
    ASSUME NEW v, NEW f \in Seq(Updates), f # << >>, NEW L, LastUpdateTrue(v, f)
    PROVE  LET M == L \cup {Head(f).cid}
           IN  /\ LastUpdateTrue(v, Tail(f))
               /\ \A x : Pending(f, x) \/ x \in L => Pending(Tail(f), x) \/ x \in M
               /\ \A t : OpenKnown(t, v, f, L) => OpenKnown(t, v, Tail(f), M)
               /\ \A u : Told(u, v, f, L) => Told(u, v, Tail(f), M)
<1> DEFINE g == Tail(f)
           m == Len(f)
           h == Head(f)
           M == L \cup {h.cid}
<1>0. /\ m \in Nat /\ m >= 1 /\ Len(g) = m - 1 /\ h = f[1]
      /\ \A i \in 1..Len(g) : g[i] = f[i + 1]
  OBVIOUS
<1> HIDE DEF g, h, m
<1>1. ASSUME NEW x, Pending(f, x) \/ x \in L PROVE Pending(g, x) \/ x \in M
  <2>1. CASE x \in L
    BY <2>1
  <2>2. ASSUME NEW i \in 1..m, f[i].cid = x PROVE Pending(g, x) \/ x \in M
    <3>1. CASE i = 1
      BY <1>0, <2>2, <3>1
    <3>2. CASE i # 1
      <4>1. i - 1 \in 1..Len(g) /\ g[i - 1] = f[i]
        BY <1>0, <3>2
      <4> QED BY <2>2, <4>1 DEF Pending
    <3> QED BY <3>1, <3>2
  <2> QED BY <1>1, <2>1, <2>2 DEF Pending, m
<1>2. ASSUME NEW i \in 1..Len(g), \A j \in 1..Len(g) : j > i => g[j].cid # g[i].cid
      PROVE  g[i].status = v[g[i].cid]
  <2>1. i + 1 \in 1..m /\ g[i] = f[i + 1]
    BY <1>0
  <2>2. ASSUME NEW j \in 1..m, j > i + 1 PROVE f[j].cid # f[i + 1].cid
    <3>1. j - 1 \in 1..Len(g) /\ j - 1 > i /\ g[j - 1] = f[j]
      BY <1>0, <2>1, <2>2
    <3> QED BY <1>2, <2>1, <3>1
  <2>3. f[i + 1].status = v[f[i + 1].cid]
    BY <2>1, <2>2 DEF LastUpdateTrue, m
  <2> QED BY <2>1, <2>3
<1>3. LastUpdateTrue(v, g)
  BY <1>2 DEF LastUpdateTrue
<1> HIDE DEF M
<1>4. ASSUME NEW t, OpenKnown(t, v, f, L) PROVE OpenKnown(t, v, g, M)
  BY <1>1, <1>4 DEF OpenKnown
<1>5. ASSUME NEW u, Told(u, v, f, L) PROVE Told(u, v, g, M)
  BY <1>1, <1>5 DEF Told
<1> QED BY <1>1, <1>3, <1>4, <1>5 DEF g, h, M

(* What is known of the tasks: a task runs while no submission does, ...      *)
Waits == task # NoTask => At(Runtime, "idle")

(* ... the mismatches, on record or about to be, name the orders they are     *)
(* about ...                                                                  *)
AllNamed == \A n \in DOMAIN truth.mismatches : Named(truth, truth.mismatches[n])
FoundNamed == task.name = "watchdog" => \A m \in task.todo : Named(truth, m)

(* ... and the answer of a lookup is what the venue has, or the feed will     *)
(* tell.                                                                      *)
AnswerTold ==
    task.name = "found" => \A u \in task.found : /\ Told(u, venue, feed, lost)
                                                 /\ u.cid = Current.xid /\ Current.xid # NoId

Core == GatewayInv /\ OrdersInv /\ SettledInv(lost)
TaskInv == Waits /\ AllNamed /\ FoundNamed /\ AnswerTold
ComposedInv == Core /\ ReconciliationInv /\ TaskInv

(* While a task runs nobody submits.                                          *)
LEMMA AllIdle ==
    ASSUME RuntimeOnly, GatewayInv, Waits, task # NoTask
    PROVE  \A p \in Procs : At(p, "idle")
<1> SUFFICES ASSUME NEW p \in Procs, ~At(p, "idle") PROVE FALSE
  OBVIOUS
<1>1. proc[p].cmd \in Commands /\ p \in proc[p].cmd.by
  BY InSubmission
<1> QED BY <1>1 DEF RuntimeOnly, Waits

(* A step of the gateway, the venue or the feed.                              *)
LEMMA GatewayCore ==
    ASSUME RuntimeOnly, Core, [Next]_vars, lost' = lost
    PROVE  Core' /\ Grows(truth, truth')
<1>1. GatewayInv' /\ Grows(truth, truth') /\ OrdersInv'
  BY RuntimeAlone, GatewayInductive, OrdersInductive DEF Core
<1>2. ASSUME NEW L, SettledInv(L) PROVE SettledInv(L)'
  BY <1>2, SettledInductive DEF Core
<1>3. ASSUME NEW L, SettledInv(L)
      PROVE  /\ OpenKnown(truth', venue', feed', L) /\ LastUpdateTrue(venue', feed')
             /\ Reported(proc'[Runtime], feed', L)
  BY <1>2, <1>3 DEF SettledInv
<1>4. /\ OpenKnown(truth', venue', feed', lost) /\ LastUpdateTrue(venue', feed')
      /\ Reported(proc'[Runtime], feed', lost)
  BY <1>3 DEF Core
<1> QED BY <1>1, <1>4 DEF Core, SettledInv

(* A record of a task.                                                        *)
LEMMA TaskCore ==
    ASSUME RuntimeOnly, Core, Waits, task # NoTask,
           Advances(truth, truth', venue, feed, sent, lost),
           UNCHANGED <<proc, venue, feed, submits, sent, lost>>
    PROVE  Core' /\ Grows(truth, truth')
<1>1. GatewayInv /\ OrdersInv /\ SettledInv(lost) /\ TypeOK
  BY DEF Core, GatewayInv
<1>2. /\ ProjectionOk(truth') /\ Coherent(truth') /\ Grows(truth, truth')
      /\ OrdersOk(truth', venue, sent) /\ OpenKnown(truth', venue, feed, lost)
  BY DEF Advances
<1>3. \A p \in Procs : At(p, "idle") /\ At(p, "idle")'
  BY <1>1, AllIdle DEF At
<1>4. TypeOK'
  BY <1>1, <1>2 DEF TypeOK, At
<1>5. WorldOk(truth', venue', feed')
  BY <1>1, <1>2, WorldKept DEF GatewayInv, TypeOK
<1>6. SentOk(truth', sent')
  BY <1>1, <1>2, SentKept DEF GatewayInv
<1>7. GatewayInv'
  BY <1>2, <1>3, <1>4, <1>5, <1>6 DEF GatewayInv
<1>8. OrdersInv'
  BY <1>1, <1>2, <1>3 DEF OrdersInv
<1>9. SettledInv(lost)'
  BY <1>1, <1>2 DEF SettledInv
<1> QED BY <1>2, <1>7, <1>8, <1>9 DEF Core

(* An update is lost.                                                         *)
LEMMA LossCore == ASSUME Core, UpdateLost PROVE Core' /\ Grows(truth, truth')
<1>1. /\ GatewayInv /\ OrdersInv /\ SettledInv(lost) /\ TypeOK /\ feed \in Seq(Updates)
      /\ WorldOk(truth, venue, feed) /\ FeedOk(venue, feed)
  BY DEF Core, GatewayInv, TypeOK, OrdersInv
<1>2. /\ feed # << >> /\ feed' = Tail(feed) /\ lost' = lost \cup {Head(feed).cid}
      /\ UNCHANGED <<truth, proc, venue, submits, sent>>
  BY DEF UpdateLost
<1>3. /\ Len(feed) \in Nat /\ feed' \in Seq(Updates)
      /\ Len(feed') = Len(feed) - 1 /\ \A i \in 1..Len(feed') : feed'[i] = feed[i + 1]
  BY <1>1, <1>2
<1>4. \A i \in 1..Len(feed') : i + 1 \in 1..Len(feed) /\ feed'[i] = feed[i + 1]
  BY <1>3
<1>5. WorldOk(truth', venue', feed') /\ FeedOk(venue', feed')
  BY <1>1, <1>2, <1>4 DEF WorldOk, FeedOk
<1>6. TypeOK'
  BY <1>1, <1>2, <1>3 DEF TypeOK, At
<1>7. GatewayInv'
  BY <1>1, <1>2, <1>5, <1>6 DEF GatewayInv, At
<1>8. OrdersInv'
  BY <1>1, <1>2, <1>5 DEF OrdersInv, At
<1>9. SettledInv(lost)'
  <2>1. /\ OpenKnown(truth, venue, feed, lost) /\ LastUpdateTrue(venue, feed)
        /\ Reported(proc[Runtime], feed, lost)
    BY <1>1 DEF SettledInv
  <2>2. /\ LastUpdateTrue(venue, feed')
        /\ \A x : Pending(feed, x) \/ x \in lost => Pending(feed', x) \/ x \in lost'
        /\ OpenKnown(truth, venue, feed', lost')
    BY <1>1, <1>2, <2>1, LossSettled
  <2>3. Reported(proc[Runtime], feed', lost')
    BY <2>1, <2>2 DEF Reported
  <2> QED BY <1>2, <2>2, <2>3 DEF SettledInv
<1>10. Grows(truth, truth')
  BY <1>2 DEF Grows
<1> QED BY <1>7, <1>8, <1>9, <1>10 DEF Core

(* What holds of the projection and of the orders.                            *)
LEMMA CoreFacts ==
    ASSUME Core
    PROVE  /\ TypeOK /\ ProjectionOk(truth) /\ Coherent(truth)
           /\ WorldOk(truth, venue, feed)
           /\ OrdersOk(truth, venue, sent) /\ OpenKnown(truth, venue, feed, lost)
  BY DEF Core, GatewayInv, TypeOK, OrdersInv, SettledInv

(* A record that leaves the mismatches alone leaves them named.               *)
LEMMA NamesKept ==
    ASSUME AllNamed, Grows(truth, truth'), truth'.mismatches = truth.mismatches
    PROVE  AllNamed'
  BY NamedKept DEF AllNamed

(* A named mismatch joins them, or takes the place of one.                    *)
LEMMA NameJoins ==
    ASSUME AllNamed, Kept(truth), NEW m, Named(truth, m), Grows(truth, truth'),
           truth' = ApplyMismatch(truth, m)
    PROVE  AllNamed'
<1> DEFINE s == truth.mismatches
           t == truth'.mismatches
<1>1. Shaped(truth) /\ s \in Seq(Range(s))
  BY DEF Kept
<1>2. t = IF HasMismatch(truth, m)
          THEN [i \in DOMAIN s |-> IF SameMismatch(s[i], m) THEN m ELSE s[i]]
          ELSE Append(s, m)
  <2>1. ASSUME NEW r PROVE [truth EXCEPT !.mismatches = r].mismatches = r
    BY <1>1 DEF Shaped, ProjectionFields
  <2> QED BY <2>1 DEF ApplyMismatch
<1>3. \A n \in DOMAIN s : Named(truth, s[n])
  BY DEF AllNamed
<1> HIDE DEF s, t
<1>4. ASSUME NEW n \in DOMAIN t PROVE Named(truth, t[n])
  <2>1. CASE HasMismatch(truth, m)
    BY <1>2, <1>3, <1>4, <2>1
  <2>2. CASE ~HasMismatch(truth, m)
    <3>1. t = Append(s, m)
      BY <1>2, <2>2
    <3>2. s \in Seq(Range(s) \cup {m}) /\ m \in Range(s) \cup {m}
      BY <1>1, SeqMonotonic
    <3>3. DOMAIN t = 1..Len(s) + 1 /\ t[Len(s) + 1] = m /\ \A i \in 1..Len(s) : t[i] = s[i]
      BY <3>1, <3>2, AppendProperties
    <3>4. DOMAIN s = 1..Len(s) /\ Len(s) \in Nat
      BY <1>1
    <3>5. n \in 1..Len(s) \/ n = Len(s) + 1
      BY <1>4, <3>3, <3>4
    <3> QED BY <1>3, <3>3, <3>4, <3>5
  <2> QED BY <2>1, <2>2
<1>5. \A n \in DOMAIN t : Named(truth', t[n])
  BY <1>4, NamedKept
<1> QED BY <1>5 DEF AllNamed, t

(* What an audit finds is named: an order has the exchange id only once its   *)
(* identifiers are on record.                                                 *)
LEMMA FindingsNamed == ASSUME Core PROVE \A m \in Findings : Named(truth, m)
<1>1. /\ truth.orders \in [Keys -> OrderSnapshots] /\ Owning(truth)
  BY CoreFacts DEF ProjectionOk, Coherent
<1> SUFFICES ASSUME NEW m \in Findings PROVE Named(truth, m)
  OBVIOUS
<1>2. PICK k \in Keys, issue \in Issues : m = Mismatch(k, issue)
  BY DEF Findings
<1>3. m.key = k /\ m.xid = truth.orders[k].xid
  BY <1>2 DEF Mismatch
<1>4. truth.orders[k].xid \in Cids \cup {NoId}
  BY <1>1 DEF OrderSnapshots
<1> QED BY <1>1, <1>3, <1>4 DEF Named, Owning

(* The mismatch at hand is on record, so it is named.                         *)
LEMMA CurrentNamed ==
    ASSUME ReconciliationInv, AllNamed, task.name \in {"recovery", "found"}
    PROVE  Named(truth, Current)
<1>1. RecoveryOwes(truth, task.todo)
  BY DEF ReconciliationInv, Owed
<1>2. Foremost \in task.todo
  BY <1>1, ForemostOwed
<1>3. Foremost \in DOMAIN truth.mismatches
  BY <1>1, <1>2 DEF RecoveryOwes
<1> QED BY <1>3 DEF AllNamed, Current

(* A lookup finds what the venue has.                                         *)
LEMMA LookupTold ==
    ASSUME Core, NEW m, Named(truth, m), NEW updates \in Lookups(m)
    PROVE  \A u \in updates : Told(u, venue, feed, lost) /\ u.cid = m.xid /\ m.xid # NoId
<1> SUFFICES ASSUME NEW u \in updates
             PROVE  Told(u, venue, feed, lost) /\ u.cid = m.xid /\ m.xid # NoId
  OBVIOUS
<1> DEFINE x == m.xid
<1>1. x # NoId /\ venue[x] # "none" /\ u = Update(x, venue[x])
  BY DEF Lookups
<1>2. x \in Cids
  BY <1>1 DEF Named
<1>3. /\ venue[x] \in {"open", "filled", "cancelled"} /\ x \in Known
  BY <1>1, <1>2, CoreFacts DEF TypeOK, WorldOk
<1>4. SizeOf(x) \in Nat
  <2>1. CASE x \in ExternalCids
    BY <2>1 DEF SizeOf
  <2>2. CASE x \notin ExternalCids
    <3>1. \E c \in Places : c.cid = x
      BY <1>3, <2>2 DEF Known
    <3>2. (CHOOSE c \in Places : c.cid = x) \in Places
      BY <3>1
    <3> QED BY <2>2, <3>2, GatewayAssumption DEF SizeOf, Places
  <2> QED BY <2>1, <2>2
<1> HIDE DEF x
<1>5. u \in Updates /\ u.cid = x /\ u.xid = x /\ u.status = venue[x]
  BY <1>1, <1>2, <1>3, <1>4 DEF Update, Updates
<1>6. Told(u, venue, feed, lost)
  BY <1>1, <1>5 DEF Told
<1> QED BY <1>1, <1>5, <1>6 DEF x

(* A fill at the venue leaves the answer of a lookup told.                    *)
LEMMA FillTold ==
    ASSUME Core, VenueFills, NEW u, Told(u, venue, feed, lost)
    PROVE  Told(u, venue', feed', lost)
<1>1. PICK x \in Cids : venue[x] = "open" /\ VenueSet(x, "filled")
  BY DEF VenueFills
<1>2. x \in Known /\ (x \in ExternalCids \/ truth.byClient[x] # NoId)
  BY <1>1, CoreFacts DEF WorldOk
<1>3. Turns(venue, x, "filled") /\ GatewayInv
  BY <1>1 DEF Turns, Core
<1>4. Update(x, "filled") \in Updates /\ feed' = Append(feed, Update(x, "filled"))
  BY <1>1, <1>2, CoreFacts, VenueSetFacts
<1>5. venue' = [venue EXCEPT ![x] = "filled"] /\ venue \in [Cids -> {"none", "open", "filled", "cancelled"}]
  BY <1>1, CoreFacts DEF VenueSet, TypeOK
<1>6. feed \in Seq(Updates)
  BY CoreFacts DEF TypeOK
<1>7. Pending(feed', x) /\ \A y : Pending(feed, y) => Pending(feed', y)
  <2> DEFINE e == Update(x, "filled")
  <2>1. e.cid = x
    BY DEF Update
  <2> HIDE DEF e
  <2>2. /\ Len(feed) \in Nat /\ Len(feed') = Len(feed) + 1 /\ feed'[Len(feed) + 1] = e
        /\ \A i \in 1..Len(feed) : feed'[i] = feed[i]
    BY <1>4, <1>6 DEF e
  <2> QED BY <2>1, <2>2 DEF Pending
<1>8. u.cid \in Cids
  BY DEF Told, Updates
<1> QED BY <1>1, <1>5, <1>7, <1>8 DEF Told

(* The mismatch at hand is the same while the task and the mismatches are.    *)
LEMMA SameCurrent ==
    ASSUME task' = task, truth'.mismatches = truth.mismatches
    PROVE  Current' = Current
  BY DEF Current, Foremost

(* A task that is over, or has no task to follow, knows nothing.              *)
LEMMA OverKnows == ASSUME task' = NoTask PROVE Waits' /\ FoundNamed' /\ AnswerTold'
  BY DEF NoTask, Waits, FoundNamed, AnswerTold

(* RECONCILIATION_MISMATCH of what an audit found.                            *)
LEMMA MismatchComposes ==
    ASSUME RuntimeOnly, ComposedInv, task.name = "watchdog", NEW m \in task.todo,
           truth' = ApplyMismatch(truth, m),
           UNCHANGED <<proc, venue, feed, submits, sent, lost>>
    PROVE  /\ Core' /\ AllNamed'
           /\ \A n \in task.todo : Named(truth', n)
<1>1. Core /\ Waits /\ task # NoTask /\ Named(truth, m) /\ AllNamed /\ Kept(truth)
      /\ \A n \in task.todo : Named(truth, n)
  BY DEF ComposedInv, TaskInv, FoundNamed, NoTask, ReconciliationInv
<1>2. Alike(truth, truth')
  BY <1>1, CoreFacts, MismatchAlike
<1>3. Advances(truth, truth', venue, feed, sent, lost)
  BY <1>1, <1>2, CoreFacts, AlikeAdvances
<1>4. Core' /\ Grows(truth, truth')
  BY <1>1, <1>3, TaskCore
<1>5. AllNamed'
  BY <1>1, <1>4, NameJoins
<1> QED BY <1>1, <1>4, <1>5, NamedKept

(* RECONCILIATION_RECOVERY of the mismatch at hand.                           *)
LEMMA RecoveryComposes ==
    ASSUME RuntimeOnly, ComposedInv, task.name = "found",
           truth' = ApplyRecovery(truth, Current, task.found),
           UNCHANGED <<proc, venue, feed, submits, sent, lost>>
    PROVE  Core' /\ AllNamed'
<1> DEFINE m == Current
<1>1. /\ Core /\ Waits /\ task # NoTask /\ ReconciliationInv /\ AllNamed
      /\ \A u \in task.found : Told(u, venue, feed, lost) /\ u.cid = m.xid /\ m.xid # NoId
  BY DEF ComposedInv, TaskInv, AnswerTold, NoTask
<1>2. Named(truth, m)
  BY <1>1, CurrentNamed
<1> HIDE DEF m
<1>3. truth' = ApplyRecovery(truth, m, task.found)
  BY DEF m
<1>4. Advances(truth, truth', venue, feed, sent, lost)
  BY <1>1, <1>2, <1>3, CoreFacts, RecoveryAdvances
<1>5. Core' /\ Grows(truth, truth')
  BY <1>1, <1>4, TaskCore
<1>6. Shaped(truth)
  BY <1>1 DEF ReconciliationInv, Kept
<1>7. truth'.mismatches = truth.mismatches
  BY <1>3, <1>6, RecoveryFacts
<1> QED BY <1>1, <1>5, <1>7, NamesKept

(* Every step of the tasks, the gateway, the venue and the feed keeps it all. *)
LEMMA ComposedInductive ==
    ASSUME RuntimeOnly, ComposedInv, [RNext]_allvars
    PROVE  ComposedInv'
<1>0. /\ Core /\ ReconciliationInv /\ Waits /\ AllNamed /\ FoundNamed /\ AnswerTold
      /\ Shaped(truth) /\ Runtime \in Procs
  BY GatewayAssumption DEF ComposedInv, TaskInv, ReconciliationInv, Kept
<1>1. ReconciliationInv'
  BY <1>0, ReconciliationInductive
<1> SUFFICES Core' /\ TaskInv'
  BY <1>1 DEF ComposedInv
<1>2. CASE RuntimeStep \/ RuntimeDelivers
  <2>1. task = NoTask /\ task' = NoTask /\ lost' = lost /\ [Next]_vars
    BY <1>0, <1>2 DEF RuntimeStep, RuntimeDelivers, rvars, Next
  <2>2. Core' /\ Grows(truth, truth')
    BY <1>0, <2>1, GatewayCore
  <2>3. Quiet(truth, truth')
    BY <1>0, <1>2, StepQuiet, UpdateQuiet DEF RuntimeStep, RuntimeDelivers, Deliver
  <2>4. AllNamed'
    BY <1>0, <2>2, <2>3, NamesKept DEF Quiet
  <2> QED BY <2>1, <2>2, <2>4, OverKnows DEF TaskInv
<1>3. CASE OrderFills
  <2>1. /\ VenueFills /\ lost' = lost /\ task' = task /\ [Next]_vars
        /\ truth' = truth /\ proc' = proc
    BY <1>3 DEF OrderFills, rvars, VenueFills, Next
  <2>2. Core'
    BY <1>0, <2>1, GatewayCore
  <2>3. AllNamed' /\ FoundNamed' /\ Waits'
    BY <1>0, <2>1 DEF AllNamed, FoundNamed, Waits, At
  <2>4. AnswerTold'
    <3>1. Current' = Current
      BY <2>1, SameCurrent
    <3>2. \A u : Told(u, venue, feed, lost) => Told(u, venue', feed', lost)
      BY <1>0, <2>1, FillTold
    <3> QED BY <1>0, <2>1, <3>1, <3>2 DEF AnswerTold
  <2> QED BY <2>2, <2>3, <2>4 DEF TaskInv
<1>4. CASE UpdateLost
  <2>1. /\ task' = task /\ truth' = truth /\ proc' = proc /\ venue' = venue
        /\ feed # << >> /\ feed' = Tail(feed) /\ lost' = lost \cup {Head(feed).cid}
    BY <1>4 DEF UpdateLost
  <2>2. Core'
    BY <1>0, <1>4, LossCore
  <2>3. AllNamed' /\ FoundNamed' /\ Waits'
    BY <1>0, <2>1 DEF AllNamed, FoundNamed, Waits, At
  <2>4. AnswerTold'
    <3>1. Current' = Current
      BY <2>1, SameCurrent
    <3>2. feed \in Seq(Updates) /\ LastUpdateTrue(venue, feed)
      BY <1>0, CoreFacts DEF TypeOK, Core, SettledInv
    <3>3. \A u : Told(u, venue, feed, lost) => Told(u, venue', feed', lost')
      BY <2>1, <3>2, LossSettled
    <3> QED BY <1>0, <2>1, <3>1, <3>3 DEF AnswerTold
  <2> QED BY <2>2, <2>3, <2>4 DEF TaskInv
<1>5. ASSUME UNCHANGED vars, lost' = lost PROVE Core' /\ AllNamed'
  <2>1. truth' = truth /\ [Next]_vars
    BY <1>5 DEF vars
  <2>2. AllNamed'
    BY <1>0, <2>1 DEF AllNamed
  <2> QED BY <1>0, <1>5, <2>1, <2>2, GatewayCore
<1>6. CASE TimesOut \/ UNCHANGED allvars
  <2>1. UNCHANGED vars /\ lost' = lost /\ task' = task
    BY <1>6 DEF TimesOut, allvars, rvars
  <2>2. /\ truth' = truth /\ proc' = proc /\ venue' = venue /\ feed' = feed
    BY <2>1 DEF vars
  <2>3. FoundNamed' /\ Waits' /\ Current' = Current
    BY <1>0, <2>1, <2>2, SameCurrent DEF FoundNamed, Waits, At
  <2>4. AnswerTold'
    BY <1>0, <2>1, <2>2, <2>3 DEF AnswerTold
  <2> QED BY <1>5, <2>1, <2>3, <2>4 DEF TaskInv
<1>7. CASE BeginAudit
  <2>1. /\ UNCHANGED vars /\ lost' = lost /\ task' = Task("watchdog", Findings)
        /\ At(Runtime, "idle")
    BY <1>7 DEF BeginAudit, LoopFree
  <2>2. truth' = truth /\ proc' = proc
    BY <2>1 DEF vars
  <2>3. task'.name # "found" /\ task'.todo = Findings
    BY <2>1 DEF Task, NoTask
  <2>4. Waits' /\ FoundNamed' /\ AnswerTold'
    <3>1. \A m \in task'.todo : Named(truth', m)
      BY <1>0, <2>2, <2>3, FindingsNamed
    <3> QED BY <2>1, <2>2, <2>3, <3>1 DEF Waits, At, FoundNamed, AnswerTold
  <2> QED BY <1>5, <2>1, <2>4 DEF TaskInv
<1>8. CASE BeginRecover
  <2>1. /\ UNCHANGED vars /\ lost' = lost /\ task' = Task("recovery", Unrecovered)
        /\ At(Runtime, "idle")
    BY <1>8 DEF BeginRecover, LoopFree
  <2>2. proc' = proc
    BY <2>1 DEF vars
  <2>3. task'.name \in {"none", "recovery"}
    BY <2>1 DEF Task, NoTask
  <2>4. Waits' /\ FoundNamed' /\ AnswerTold'
    BY <2>1, <2>2, <2>3 DEF Waits, At, FoundNamed, AnswerTold
  <2> QED BY <1>5, <2>1, <2>4 DEF TaskInv
<1>9. CASE Lookup
  <2>1. PICK updates \in Lookups(Current) : task' = [task EXCEPT !.name = "found", !.found = updates]
    BY <1>9 DEF Lookup
  <2>2. UNCHANGED vars /\ lost' = lost /\ task.name = "recovery"
    BY <1>9 DEF Lookup
  <2>3. truth' = truth /\ proc' = proc /\ venue' = venue /\ feed' = feed
    BY <2>2 DEF vars
  <2>4. task' = [name |-> "found", todo |-> task.todo, found |-> updates]
    BY <1>0, <2>1 DEF ReconciliationInv, Owed
  <2>5. Current' = Current
    BY <2>3, <2>4 DEF Current, Foremost
  <2>6. \A u \in updates : /\ Told(u, venue, feed, lost)
                           /\ u.cid = Current.xid /\ Current.xid # NoId
    BY <1>0, <2>1, <2>2, CurrentNamed, LookupTold
  <2>7. Waits' /\ FoundNamed'
    BY <1>0, <2>2, <2>3, <2>4 DEF Waits, At, NoTask, FoundNamed
  <2>8. AnswerTold'
    BY <2>2, <2>3, <2>4, <2>5, <2>6 DEF AnswerTold
  <2> QED BY <1>5, <2>2, <2>7, <2>8 DEF TaskInv
<1>10. CASE LookupFails
  <2>1. UNCHANGED vars /\ lost' = lost /\ task' = NoTask
    BY <1>10 DEF LookupFails
  <2> QED BY <1>5, <2>1, OverKnows DEF TaskInv
<1>11. CASE EmitMismatch
  <2>1. PICK m \in task.todo : /\ truth' = ApplyMismatch(truth, m)
                               /\ task' = Task("watchdog", task.todo \ {m})
    BY <1>11 DEF EmitMismatch
  <2>2. task.name = "watchdog" /\ UNCHANGED <<proc, venue, feed, submits, sent, lost>>
    BY <1>11 DEF EmitMismatch
  <2>3. Core' /\ AllNamed' /\ \A n \in task.todo : Named(truth', n)
    BY <2>1, <2>2, MismatchComposes
  <2>4. task'.name # "found" /\ task'.todo \subseteq task.todo
    BY <2>1 DEF Task, NoTask
  <2>5. task # NoTask
    BY <2>2 DEF NoTask
  <2>6. Waits' /\ FoundNamed' /\ AnswerTold'
    BY <1>0, <2>2, <2>3, <2>4, <2>5 DEF Waits, At, FoundNamed, AnswerTold
  <2> QED BY <2>3, <2>6 DEF TaskInv
<1>12. CASE EmitRecovery
  <2>1. /\ task.name = "found" /\ truth' = ApplyRecovery(truth, Current, task.found)
        /\ task' = Task("recovery", task.todo \ {Foremost})
        /\ UNCHANGED <<proc, venue, feed, submits, sent, lost>>
    BY <1>12 DEF EmitRecovery
  <2>2. Core' /\ AllNamed'
    BY <2>1, RecoveryComposes
  <2>3. task'.name \in {"none", "recovery"} /\ task # NoTask
    BY <2>1 DEF Task, NoTask
  <2>4. Waits' /\ FoundNamed' /\ AnswerTold'
    BY <1>0, <2>1, <2>3 DEF Waits, At, FoundNamed, AnswerTold
  <2> QED BY <2>2, <2>4 DEF TaskInv
<1>13. CASE TaskFails
  <2>1. task' = NoTask /\ UNCHANGED <<proc, venue, feed, submits, sent, lost>>
    BY <1>13 DEF TaskFails
  <2>2. Core' /\ AllNamed'
    <3>1. CASE truth' = truth
      BY <1>5, <2>1, <3>1 DEF vars
    <3>2. ASSUME task.name = "watchdog", NEW m \in task.todo, truth' = ApplyMismatch(truth, m)
          PROVE  Core' /\ AllNamed'
      BY <2>1, <3>2, MismatchComposes
    <3>3. CASE task.name = "found" /\ truth' = ApplyRecovery(truth, Current, task.found)
      BY <2>1, <3>3, RecoveryComposes
    <3> QED BY <1>13, <3>1, <3>2, <3>3 DEF TaskFails
  <2> QED BY <2>1, <2>2, OverKnows DEF TaskInv
<1> QED
  BY <1>2, <1>3, <1>4, <1>6, <1>7, <1>8, <1>9, <1>10, <1>11, <1>12, <1>13 DEF RNext

(* It all holds to begin with.                                                *)
LEMMA ComposedInit == ASSUME RInit PROVE ComposedInv
<1>1. Init /\ task = NoTask /\ truth = Empty
  BY DEF RInit, Init
<1>2. OrdersInv
  BY <1>1, OrdersInit
<1>3. GatewayInv
  BY <1>1, GatewayInit
<1>4. OpenKnown(truth, venue, feed, lost) /\ LastUpdateTrue(venue, feed)
      /\ Reported(proc[Runtime], feed, lost)
  <2>1. ASSUME NEW L PROVE SettledInv(L)
    BY <1>1, SettledInit
  <2> QED BY <2>1 DEF SettledInv
<1>5. AllNamed
  <2>1. truth.mismatches = << >>
    BY <1>1 DEF Empty
  <2>2. DOMAIN << >> = {}
    BY EmptySeq
  <2> QED BY <2>1, <2>2 DEF AllNamed
<1>6. TaskInv
  BY <1>1, <1>5 DEF TaskInv, Waits, FoundNamed, AnswerTold, NoTask
<1> QED BY <1>2, <1>3, <1>4, <1>6, ReconciliationInit DEF ComposedInv, Core, SettledInv

(* The invariants of the gateway hold, and what is known of the tasks, in     *)
(* every state of the tasks, the submissions, the venue and the feed.         *)
THEOREM ComposedInvariant == RuntimeOnly => (RSpec => []ComposedInv)
<1> SUFFICES ASSUME RuntimeOnly PROVE RSpec => []ComposedInv
  OBVIOUS
<1>1. RInit => ComposedInv
  BY ComposedInit
<1>2. ComposedInv /\ [RNext]_allvars => ComposedInv'
  BY ComposedInductive
<1> QED BY <1>1, <1>2, PTL DEF RSpec

(* A recovery hides no order that is open at the venue, whatever its lookup   *)
(* found, whenever its record comes, and whatever the feed lost before.       *)
THEOREM RecoveryForgetsNoOrder == RuntimeOnly => (RSpec => []NoOpenOrderForgotten)
<1>1. ComposedInv => NoOpenOrderForgotten
  BY OrdersRemembered DEF ComposedInv, Core
<1> QED BY <1>1, ComposedInvariant, PTL

(* Once every submission and task has returned and every update has arrived,  *)
(* an order the projection has open is open at the venue, unless an update of *)
(* it was lost: an answer that was recorded while updates of the order waited *)
(* in the feed, or after the order was filled, has been put right.            *)
THEOREM SettlesUnlessLost == RuntimeOnly => (RSpec => []SettledUnlessLost)
<1>1. ComposedInv => SettledUnlessLost
  <2> SUFFICES ASSUME ComposedInv, Settled, NEW k \in Keys,
                      truth.orders[k].status = "open", truth.orders[k].cid \notin lost
               PROVE  venue[truth.orders[k].cid] = "open"
    BY DEF SettledUnlessLost
  <2>1. OpenKnown(truth, venue, feed, lost)
    BY DEF ComposedInv, Core, SettledInv
  <2>2. ~Pending(feed, truth.orders[k].cid)
    BY DEF Settled, Pending
  <2> QED BY <2>1, <2>2 DEF OpenKnown
<1> QED BY <1>1, ComposedInvariant, PTL

(* The identifiers a recovery claims for an order are the order's own: no two *)
(* actions ever claim the same one, with or without recoveries.               *)
THEOREM RecoveryClaimsItsOwn == RuntimeOnly => (RSpec => []IdentityUnique)
<1>1. ComposedInv => IdentityUnique
  BY DEF ComposedInv, Core, GatewayInv, Coherent, IdentityUnique
<1> QED BY <1>1, ComposedInvariant, PTL
=============================================================================
