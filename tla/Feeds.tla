------------------------------- MODULE Feeds --------------------------------
(* feeds/router.py and feeds/supervisor.py over the websocket sources of      *)
(* exchanges/coinbase/advanced_trade_ws.py.  The supervisor runs one          *)
(* coroutine per source on the event loop of the runtime; between two awaits  *)
(* a coroutine runs alone, so a step here is all that happens between two     *)
(* awaits, with an append that may raise (its record durable or not) at every *)
(* record the step writes.  An outcome of such a step is a record [w, raised] *)
(* and Then continues the outcomes that did not raise, as Python does.        *)
(* The ledger is kept as the facts its readers derive from it.                *)
(* (Operators directly before a definition, unused otherwise: its mutants.)   *)
EXTENDS Integers, FiniteSets, SequencesExt

CONSTANTS
    Sources,        \* the sources, all of them expected by the router
    MinLive,        \* min_live_sources
    MaxSeen,        \* max_deduplication_entries
    MaxSeq,         \* bound: a connection of source s sends 0..MaxSeq[s]
    MaxFaults,      \* bound: appends that raise, streams that end, messages skipped
    MaxStops        \* bound: times the process is stopped or killed

ASSUME BoundsAssumption == MaxSeen \in Nat \ {0} /\ MaxFaults \in Nat

NoSeq == -1
DataKey(n) == <<n>>                     \* the key of the n-th message of a connection
AnomalyKey(prev, n) == <<prev, n>>      \* the key of a gap or out-of-order message

VARIABLES
    w,          \* router and ledger, see Start
    sup,        \* where the coroutine of each source is
    conn,       \* the next sequence number the venue sends on its connection
    last,       \* CoinbaseMessageNormalizer._last_sequence of each source
    ending,     \* the orchestrator has returned, the feeds are being cancelled
    stops       \* stops and kills so far

vars == <<w, sup, conn, last, ending, stops>>

(* The ledger fields hold: the keys by first DATA_RECEIVED, the keys with a   *)
(* DATA_ACCEPTED, the keys accepted again, the keys with a DATA_DUPLICATE but *)
(* no acceptance before it, the sources connected and not disconnected, the   *)
(* sources connected twice, and whether coverage was reported as degraded     *)
(* since the last message.  The rest is history.                              *)
Start ==
    [status |-> [s \in Sources |-> "disconnected"], fresh |-> [s \in Sources |-> FALSE],
     seen |-> << >>,
     received |-> << >>, accepted |-> {}, again |-> {}, orphans |-> {},
     up |-> {}, breaches |-> {}, degraded |-> FALSE,
     evicted |-> {}, unrecorded |-> {}, torn |-> FALSE, faults |-> 0]

Init == /\ w = Start /\ sup = [s \in Sources |-> "connect"]
        /\ conn = [s \in Sources |-> 0] /\ last = [s \in Sources |-> NoSeq]
        /\ ending = FALSE /\ stops = 0

Ok(v) == {[w |-> v, raised |-> FALSE]}
Fault(v) == [v EXCEPT !.faults = @ + 1]
Raise(v) == [w |-> [Fault(v) EXCEPT !.torn = TRUE], raised |-> TRUE]
(* AuditCore.emit of a record that takes the ledger from v to x.              *)
Emit(v, x) == Ok(x) \cup (IF v.faults < MaxFaults THEN {Raise(v), Raise(x)} ELSE {})
Then(outcomes, Op(_)) == UNION {IF o.raised THEN {o} ELSE Op(o.w) : o \in outcomes}

-----------------------------------------------------------------------------
(* MessageDeduplicator.mark_seen: an LRU set, of a key that is there, ...     *)
MoveToEnd(v, k) == LET i == CHOOSE i \in DOMAIN v.seen : v.seen[i] = k
                   IN  [v EXCEPT !.seen = Append(RemoveAt(@, i), k)]

(* ... and of one that is not.                                                *)
Remember(v, k) ==
    LET seen == Append(v.seen, k)
    IN  IF Len(seen) <= MaxSeen THEN [v EXCEPT !.seen = seen]
        ELSE [v EXCEPT !.seen = Tail(seen), !.evicted = @ \cup {Head(seen)}]

(* seed_seen of an empty deduplicator: the last keys stay.                    *)
SeedSeen(v, keys) ==
    LET out == IF Len(keys) <= MaxSeen THEN 0 ELSE Len(keys) - MaxSeen
    IN  [v EXCEPT !.seen = SubSeq(keys, out + 1, Len(keys)),
                  !.evicted = @ \cup {keys[i] : i \in 1..out}]

MarkConnected(v, s) == [v EXCEPT !.status[s] = "connected", !.fresh[s] = TRUE]
MarkDisconnected(v, s) == [v EXCEPT !.status[s] = "disconnected"]

LiveIgnoringAge(v) == {s \in Sources : v.status[s] = "connected"}

(* source_states: a connected source that has been silent for stale_after is  *)
(* not live.                                                                  *)
Live(v) == {s \in Sources : v.status[s] = "connected" /\ v.fresh[s]}

(* audit_health.                                                              *)
AuditHealth(v) ==
    IF Cardinality(Live(v)) >= MinLive THEN Ok(v) ELSE Emit(v, [v EXCEPT !.degraded = TRUE])

(* What the records of a message say.                                         *)
Received(v, k) == [v EXCEPT !.received = IF Contains(@, k) THEN @ ELSE Append(@, k)]
Accepted(v, k) == [v EXCEPT !.accepted = @ \cup {k},
                            !.again = IF k \in v.accepted THEN @ \cup {k} ELSE @]
Duplicate(v, k) == [v EXCEPT !.orphans = IF k \in v.accepted THEN @ ELSE @ \cup {k}]

EmitAccepted(v, k) ==
    {[o EXCEPT !.w.unrecorded = IF o.raised THEN @ \cup {k} ELSE @] : o \in Emit(v, Accepted(v, k))}

(* ingest: a heartbeat, an order update that breaks its contract (an ERROR),  *)
(* or data.                                                                   *)
Ingest(v, s, kind, k) ==
    LET x == [MarkConnected(v, s) EXCEPT !.degraded = FALSE]
    IN  CASE kind = "heartbeat" -> Then(Emit(x, x), AuditHealth)
          [] kind = "invalid" -> Emit(x, x)
          [] OTHER -> Then(Emit(x, Received(x, k)), LAMBDA y :
               IF Contains(y.seen, k) THEN Emit(MoveToEnd(y, k), Duplicate(MoveToEnd(y, k), k))
               ELSE Then(EmitAccepted(Remember(y, k), k), AuditHealth))

-----------------------------------------------------------------------------
(* FeedSupervisor._run_source, from the top of its loop to the stream, ...    *)
Connected(v, s) == [v EXCEPT !.up = @ \cup {s},
                             !.breaches = IF s \in v.up THEN @ \cup {s} ELSE @]
Disconnected(v, s) == [v EXCEPT !.up = @ \ {s}]

Connect(s) ==
    /\ sup[s] = "connect"
    /\ \E o \in Emit(MarkConnected(w, s), Connected(MarkConnected(w, s), s)) :
           /\ w' = o.w
           /\ sup' = [sup EXCEPT ![s] = IF o.raised THEN "failed" ELSE "stream"]
    /\ conn' = [conn EXCEPT ![s] = 0]
    /\ UNCHANGED <<last, ending, stops>>

AuditDisconnected(v, s) ==
    Emit(MarkDisconnected(v, s), Disconnected(MarkDisconnected(v, s), s))

(* ... from the end of the stream to the sleep before the next attempt, ...   *)
Reconnect(v, s) ==
    Then(AuditDisconnected(v, s), LAMBDA x : Then(AuditHealth(x), LAMBDA y : Emit(y, y)))

(* ... and the same after an exception: the ERROR record comes first, and     *)
(* when its append raises the finally clause still runs.                      *)
ReconnectAfterError(v, s) ==
    UNION {IF o.raised THEN {[d EXCEPT !.raised = TRUE] : d \in AuditDisconnected(o.w, s)}
           ELSE Reconnect(o.w, s) : o \in Emit(v, v)}

Leave(s, outcomes) ==
    \E o \in outcomes : /\ w' = o.w
                        /\ sup' = [sup EXCEPT ![s] = IF o.raised THEN "failed" ELSE "sleep"]

(* The stream ends, raises, or yields a message under another source's id.    *)
StreamEnds(s) ==
    /\ sup[s] = "stream" /\ w.faults < MaxFaults
    /\ Leave(s, Reconnect(Fault(w), s) \cup ReconnectAfterError(Fault(w), s))
    /\ UNCHANGED <<conn, last, ending, stops>>

(* CoinbaseMessageNormalizer.normalize: a message that does not follow the    *)
(* one before is preceded by an anomaly message.                              *)
Anomalous(s, n) == last[s] # NoSeq /\ n # last[s] + 1

(* A message arrives (the venue may have skipped one) and is ingested; an     *)
(* exception of the router ends the stream.                                   *)
Arrives(s, n, v) ==
    /\ ~Anomalous(s, n)
    /\ \E kind \in {"heartbeat", "invalid", "data"} :
           LET outcomes == Ingest(v, s, kind, DataKey(n))
           IN  \/ \E o \in outcomes : /\ ~o.raised
                                      /\ w' = o.w
                                      /\ UNCHANGED sup
               \/ \E o \in outcomes : o.raised /\ Leave(s, ReconnectAfterError(o.w, s))

(* An anomaly is ingested and ends the stream; the message it came with is    *)
(* dropped.                                                                   *)
ArrivesAnomalous(s, n, v) ==
    /\ Anomalous(s, n)
    /\ \E o \in Ingest(v, s, "data", AnomalyKey(last[s], n)) :
           Leave(s, IF o.raised THEN ReconnectAfterError(o.w, s) ELSE Reconnect(o.w, s))

Receive(s) ==
    /\ sup[s] = "stream"
    /\ \E skipped \in {0, 1} :
           LET n == conn[s] + skipped
               v == IF skipped = 0 THEN w ELSE Fault(w)
           IN  /\ n <= MaxSeq[s] /\ v.faults <= MaxFaults
               /\ Arrives(s, n, v) \/ ArrivesAnomalous(s, n, v)
               /\ last' = [last EXCEPT ![s] = IF n > @ THEN n ELSE @]
               /\ conn' = [conn EXCEPT ![s] = n + 1]
    /\ UNCHANGED <<ending, stops>>

(* The backoff delay is over.                                                 *)
Wake(s) ==
    /\ sup[s] = "sleep"
    /\ sup' = [sup EXCEPT ![s] = "connect"]
    /\ UNCHANGED <<w, conn, last, ending, stops>>

CancelSilently(s) ==
    /\ sup[s] # "failed" /\ (ending \/ \E t \in Sources : sup[t] = "failed")
    /\ w' = MarkDisconnected(w, s)
    /\ sup' = [sup EXCEPT ![s] = "failed"]
    /\ UNCHANGED <<conn, last, ending, stops>>

(* FeedSupervisor.run: when one coroutine has failed, or the application has  *)
(* cancelled the supervisor, the others are cancelled.  One that is waiting   *)
(* for a message says so.  Nothing starts them again.                         *)
Cancel(s) ==
    /\ sup[s] # "failed" /\ (ending \/ \E t \in Sources : sup[t] = "failed")
    /\ IF sup[s] = "stream" THEN \E o \in AuditDisconnected(w, s) : w' = o.w ELSE UNCHANGED w
    /\ sup' = [sup EXCEPT ![s] = "failed"]
    /\ UNCHANGED <<conn, last, ending, stops>>

-----------------------------------------------------------------------------
(* The runtime's feed health task.                                            *)
FeedHealth ==
    /\ ~ending
    /\ \E o \in AuditHealth(w) : w' = o.w
    /\ UNCHANGED <<sup, conn, last, ending, stops>>

(* stale_after passes without a message of the source.                        *)
Stale(s) ==
    /\ w.fresh[s]
    /\ w' = [w EXCEPT !.fresh[s] = FALSE]
    /\ UNCHANGED <<sup, conn, last, ending, stops>>

SeedReceived(v) == v.received
SeedNothing(v) == << >>

(* RedundantFeedRouter.from_ledger: the accepted keys, by their first receipt.*)
AcceptedAt(v) == {i \in DOMAIN v.received : v.received[i] \in v.accepted}
UpTo(v, i) == {j \in AcceptedAt(v) : j <= i}
Seed(v) == [n \in 1..Cardinality(AcceptedAt(v)) |->
               v.received[CHOOSE i \in AcceptedAt(v) : Cardinality(UpTo(v, i)) = n]]

Reboot(v) ==
    LET empty == [v EXCEPT !.seen = << >>, !.unrecorded = {},
                           !.status = Start.status, !.fresh = Start.fresh]
    IN  /\ w' = SeedSeen(empty, Seed(v))
        /\ sup' = [s \in Sources |-> "connect"]
        /\ conn' = [s \in Sources |-> 0] /\ last' = [s \in Sources |-> NoSeq]
        /\ ending' = FALSE

(* The application stops: the orchestrator returns, every feed is cancelled,  *)
(* and the process is started again; or it is killed and started again.       *)
Stop ==
    /\ ~ending /\ stops < MaxStops
    /\ ending' = TRUE /\ stops' = stops + 1
    /\ UNCHANGED <<w, sup, conn, last>>
Restart == ending /\ (\A s \in Sources : sup[s] = "failed") /\ Reboot(w) /\ UNCHANGED stops
Kill == stops < MaxStops /\ Reboot([w EXCEPT !.torn = TRUE]) /\ stops' = stops + 1

Next == \/ \E s \in Sources : \/ Connect(s) \/ Receive(s) \/ StreamEnds(s) \/ Wake(s)
                              \/ Cancel(s) \/ Stale(s)
        \/ FeedHealth \/ Stop \/ Restart \/ Kill

(* The event loop runs what is ready, sleeps end, the venue goes on sending,  *)
(* time passes, the orchestrator runs the health task, a stopped runtime is   *)
(* started again.                                                             *)
Fairness ==
    /\ \A s \in Sources : /\ WF_vars(Connect(s)) /\ WF_vars(Receive(s)) /\ WF_vars(Wake(s))
                          /\ WF_vars(Cancel(s)) /\ WF_vars(Stale(s))
    /\ WF_vars(FeedHealth) /\ WF_vars(Restart)

Spec == Init /\ [][Next]_vars /\ Fairness

-----------------------------------------------------------------------------
Numbers == UNION {0..MaxSeq[s] : s \in Sources}
AllKeys == {DataKey(n) : n \in Numbers} \cup {AnomalyKey(p, n) : p, n \in Numbers}

(* The shape of the router, the ledger facts and the coroutines.              *)
TypeOK ==
    /\ Range(w.seen) \subseteq AllKeys /\ Len(w.seen) <= MaxSeen /\ IsInjective(w.seen)
    /\ Range(w.received) \subseteq AllKeys /\ IsInjective(w.received)
    /\ w.accepted \subseteq Range(w.received)
    /\ sup \in [Sources -> {"connect", "stream", "sleep", "failed"}]
    /\ last \in [Sources -> Numbers \cup {NoSeq}] /\ w.faults \in 0..MaxFaults

(* A message is accepted once, whichever sources deliver it, whatever append  *)
(* raised and however often the process was started again, unless its key     *)
(* fell out of the deduplicator (the data flow contract of ledger health).    *)
AcceptedOnce == w.again \subseteq w.evicted

(* A message is dismissed as a duplicate only if it was accepted before, or   *)
(* if the append of its acceptance raised in this process: the deduplicator   *)
(* remembers it from before that append.  A restart forgets such keys.        *)
DuplicatesExplained == [][w'.orphans \subseteq w.orphans \cup w.unrecorded]_vars

(* FEED_CONNECTED and FEED_DISCONNECTED of a source alternate over anomalies, *)
(* reconnections and orderly restarts (the feed lifecycle contract of ledger  *)
(* health).                                                                   *)
FeedsAlternate == ~w.torn => w.breaches = {}

(* Losing every stream is on record in the end, also when the supervisor has  *)
(* died of a raising append, which nobody is told.                            *)
OutageNoticed ==
    (\A s \in Sources : sup[s] # "stream") ~> (w.degraded \/ \E s \in Sources : sup[s] = "stream")
=============================================================================
