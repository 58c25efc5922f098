--------------------------- MODULE OrderManagers ----------------------------
(* strategies/harness.py with the order managers built on it (staged release, *)
(* follow-up on fill, consolidation, anchor repricing, and the split helper). *)
(* Each cycle evaluates the configured strategies in order; a strategy reads  *)
(* one snapshot of the projection and returns intents, which the harness      *)
(* submits one after the other.  The gateway (ActionGateway) is taken as one  *)
(* step per submission with every outcome it has: rejected, staged, executed, *)
(* failed, unknown, or the process dead in the middle.  The venue goes on at  *)
(* any time; its updates and the fills are recorded between cycles, in the    *)
(* same event loop.  Action ids are digests of an identity in the code, and   *)
(* the tuple of that identity here: the same decision has the same id.        *)
(* (Operators directly before a definition, unused otherwise: its mutants.)   *)
EXTENDS OrderLineage, SequencesExt

CONSTANTS
    Setups,         \* the setups to look at: [strategies: the configured ones, in
                    \* the order of a cycle, seeds: the operator's commands,
                    \* submitted before; and the bounds orders: on record before
                    \* splits end, trades, ticks: moves of the book]
    MaxReleases, MaxFollowups, MaxConsolidations, MaxSources, MaxMoves,
                    \* the managers' limits per evaluation (and per merge)
    MaxDistance,    \* anchor_repricing.max_distance, in price steps
    Prices,         \* midpoints of the order book
    MaxFaults,      \* bound: submissions that fail and deaths of the process
    MaxFeed         \* bound: updates on their way when the venue trades

(* What the gateway has seen to before it accepted the operator's commands:   *)
(* their ids differ, and an order starts a logical order of its own; a staged *)
(* one may be under that of an earlier command.                               *)
SeedOk(seeds, i) ==
    LET c == seeds[i]
        before == {seeds[j] : j \in 1..(i - 1)}
    IN  /\ c.type = "place" /\ c.kind \in {"initial", "staged_release"} /\ c.replaces = {}
        /\ c.relation = "root" /\ c.root = NoId /\ c.parent = NoId /\ c.sources = {}
        /\ c.size \in Nat \ {0} /\ \A b \in before : b.id # c.id
        /\ \/ c.logical = c.id
           \/ /\ c.kind = "staged_release"
              /\ \E b \in before : b.logical = c.logical /\ b.side = c.side
ASSUME SetupsAssumption ==
    \A s \in Setups : s.seeds \in Seq(ToSet(s.seeds)) /\ \A i \in DOMAIN s.seeds : SeedOk(s.seeds, i)
ASSUME BoundsAssumption ==
    {MaxReleases, MaxFollowups, MaxConsolidations, MaxSources, MaxMoves} \subseteq Nat \ {0}

VARIABLES
    setup,      \* the setup, for good
    truth,      \* the projection of the ledger: [actions, orders, logical, places, fills]
    job,        \* the cycle: [at: strategy, todo: commands still to submit]
    venue,      \* the venue's orders by action id: [status, left], and of the
                \* command that placed it [logical, side, of: the fill or
                \* staged placement it answers, replaces: the orders it stands for]
    trades,     \* the venue's fills, in order: [id, order, size]
    feed,       \* order updates on their way
    book,       \* [mid: midpoint of the order book, ticks: its moves so far]
    history     \* [blind: a source was cancelled that had an unrecorded fill,
                \*  failed: an evaluation failed or the process died,
                \*  faults: the failures that came from outside]

vars == <<setup, truth, job, venue, trades, feed, book, history>>

Strategies == setup.strategies
Seeds == setup.seeds

-----------------------------------------------------------------------------
(* The projection.  Orders, logical orders and placements are kept in the     *)
(* order of their records.                                                    *)
Ids(s) == {s[i].id : i \in DOMAIN s}
ById(s, id) == s[CHOOSE i \in DOMAIN s : s[i].id = id]
IndexOf(s, id) == CHOOSE i \in DOMAIN s : s[i].id = id
AsMap(s) == [id \in Ids(s) |-> ById(s, id)]

SetOrder(p, id, status) == [p EXCEPT !.orders[IndexOf(p.orders, id)].status = status]

Request(p, c, status) ==
    [p EXCEPT !.actions = @ \cup {c.id},
              !.orders = IF c.type = "cancel" THEN @
                         ELSE Append(@, [id |-> c.id, status |-> status, size |-> c.size,
                                         filled |-> 0, price |-> c.price, side |-> c.side,
                                         known |-> FALSE])]

CreateLogical(p, c) ==
    IF c.type = "cancel" \/ c.logical \in Ids(p.logical) THEN p
    ELSE LET l == LogicalOrder(c)
         IN  [p EXCEPT !.logical = Append(@,
                 [id |-> c.logical, size |-> c.size, relation |-> l.relation, root |-> l.root,
                  parent |-> l.parent, sources |-> l.sources, product |-> l.product,
                  side |-> l.side, approved |-> l.approved])]

Placement(p, c, status) ==
    [p EXCEPT !.places = Append(@, [id |-> c.id, logical |-> c.logical, kind |-> c.kind,
                                    status |-> status, of |-> c.of, size |-> c.size,
                                    price |-> c.price, side |-> c.side])]

(* What the records of an accepted submission leave behind.                   *)
Accepted(p, c) == CreateLogical(Request(p, c, "accepted"), c)

StagedIn(p, c) == Placement(Accepted(p, c), c, "staged")

Executed(p, c) ==
    IF c.type = "cancel" THEN SetOrder(Request(p, c, ""), c.target, "cancelled")
    ELSE LET q == SetOrder(Accepted(p, c), c.id, "open")
         IN  Placement([q EXCEPT !.orders[Len(q.orders)].known = TRUE], c, "accepted")

Failed(p, c, status) ==
    IF c.type = "cancel" THEN Request(p, c, "") ELSE SetOrder(Accepted(p, c), c.id, status)

(* An order update: what is left to fill becomes the order's size.            *)
Updated(p, u) ==
    [p EXCEPT !.orders[IndexOf(p.orders, u.id)] =
        [@ EXCEPT !.status = u.status, !.size = u.left, !.known = TRUE]]

(* A fill, found by the exchange order id.                                    *)
Filled(p, f) ==
    LET q == [p EXCEPT !.fills = Append(@, f)]
    IN  IF ~ById(p.orders, f.order).known THEN q
        ELSE [q EXCEPT !.orders[IndexOf(p.orders, f.order)].filled = @ + f.size]

(* What the managers ask of the projection.                                   *)
PlacesOf(p, l) == {x \in ToSet(p.places) : x.logical = l}
LiveStatuses == {"accepted", "cancel_queued", "execution_unknown", "open", "pending", "requested"}
CancelableStatuses == {"accepted", "open"}

OrdersOf(p, l, statuses) ==
    {ById(p.orders, x.id) : x \in {y \in PlacesOf(p, l) :
        y.kind # "staged_release" /\ ById(p.orders, y.id).status \in statuses}}
ReleasedIn(p) == {x.of : x \in {y \in ToSet(p.places) : y.kind = "release"}}
LogicalOf(p, id) ==
    IF id \in Ids(p.logical) THEN id
    ELSE IF id \in Ids(p.places) THEN ById(p.places, id).logical ELSE NoId

-----------------------------------------------------------------------------
(* Commands.                                                                  *)
PlaceOrder(id, kind, logical, side, size, price) ==
    [id |-> id, type |-> "place", kind |-> kind, logical |-> logical, side |-> side,
     size |-> size, price |-> price, relation |-> "root", root |-> NoId, parent |-> NoId,
     sources |-> {}, of |-> NoId, replaces |-> {}, target |-> NoId, product |-> "P",
     approved |-> FALSE]
CancelOrder(id, target) == [PlaceOrder(id, "initial", id, "buy", 0, 0) EXCEPT
                               !.type = "cancel", !.target = target]

(* What the first n candidates that give anything give, one after the other:  *)
(* a candidate gives a sequence, empty when it is skipped.                    *)
Join(s, t) == s \o t
Flat(s) == FoldLeft(Join, << >>, s)
Giving(gives) == Flat([i \in DOMAIN gives |-> IF gives[i] = << >> THEN << >> ELSE <<gives[i]>>])
UpTo(n, s) == SubSeq(s, 1, IF Len(s) < n THEN Len(s) ELSE n)
TakeFirst(gives, n) == Flat(UpTo(n, Giving(gives)))

(* StagedReleaseManagerStrategy with strategy_release_staged_placement_intent.*)
(* Nothing asks whether the release was tried before.                         *)
ConditionsMatch(x) ==
    book.mid # 0 /\ IF x.side = "buy" THEN x.price < book.mid + 1 ELSE x.price > book.mid - 1

ReleaseAnyway(p, x) ==
    IF x.status # "staged" \/ x.id \in ReleasedIn(p) \/ ~ConditionsMatch(x) THEN << >>
    ELSE << [PlaceOrder(<<"release", x.id>>, "release", x.logical, x.side, x.size, x.price)
               EXCEPT !.of = x.id] >>

Release(p, x) ==
    IF \/ x.status # "staged" \/ x.id \in ReleasedIn(p) \/ ~ConditionsMatch(x)
       \/ OrdersOf(p, x.logical, LiveStatuses) # {}
    THEN << >>
    ELSE << [PlaceOrder(<<"release", x.id>>, "release", x.logical, x.side, x.size, x.price)
               EXCEPT !.of = x.id] >>

Releases(p) == [i \in DOMAIN p.places |-> Release(p, p.places[i])]
ReleaseDecisionCut(p) == TakeFirst(SubSeq(Releases(p), 1, MaxReleases), MaxReleases)
ReleaseDecision(p) == TakeFirst(Releases(p), MaxReleases)

(* FollowupOnFillManagerStrategy with strategy_followup_after_fill_intent.    *)
(* The parent's size is the projected one, what is left of it: a fill larger  *)
(* than that is skipped, and nothing left is not a positive size, which       *)
(* raises a ValueError that the manager does not catch.                       *)
FollowupId(p, f) == <<"followup", f.id, LogicalOf(p, f.order), f.size>>

Followup(p, f) ==
    LET order == ById(p.orders, f.order)
        parent == ById(p.logical, LogicalOf(p, f.order))
        id == FollowupId(p, f)
    IN  IF \/ ~order.known \/ LogicalOf(p, f.order) = NoId
           \/ f.size > order.size \/ id \in p.actions
        THEN << >>
        ELSE << [PlaceOrder(id, "initial", id, Opposite(parent.side), f.size, order.price)
                   EXCEPT !.relation = "followup_after_fill", !.root = parent.root,
                          !.parent = parent.id, !.sources = {parent.id}, !.of = f.id] >>

(* The fills that raise before the manager has its intents together.          *)
Raising(p, f) == /\ ById(p.orders, f.order).known /\ LogicalOf(p, f.order) # NoId
                 /\ ById(p.orders, f.order).size = 0
FollowupRaises(p) ==
    \E i \in DOMAIN p.fills :
        /\ Raising(p, p.fills[i])
        /\ Cardinality({j \in 1..(i - 1) : Followup(p, p.fills[j]) # << >>}) < MaxFollowups
FollowupDecision(p) ==
    TakeFirst([i \in DOMAIN p.fills |-> Followup(p, p.fills[i])], MaxFollowups)

(* ConsolidationManagerStrategy with strategy_consolidation_intent: the       *)
(* logical orders with one cancelable placement and no fill, by side and      *)
(* price.  The merged order has the sum of the LOGICAL sizes.                 *)
MergeSourceFilledToo(p, l) ==
    LET live == OrdersOf(p, l.id, CancelableStatuses)
    IN  Cardinality(live) = 1

MergeSource(p, l) ==
    LET live == OrdersOf(p, l.id, CancelableStatuses)
    IN  Cardinality(live) = 1 /\ \A o \in live : o.filled = 0
LiveOrder(p, l) == CHOOSE o \in OrdersOf(p, l.id, CancelableStatuses) : TRUE

Joins(p, l, k) == /\ MergeSource(p, k) /\ k.side = l.side
                  /\ LiveOrder(p, k).price = LiveOrder(p, l).price
MergeGroup(p, l) ==
    UpTo(MaxSources, Flat([i \in DOMAIN p.logical |->
                             IF Joins(p, l, p.logical[i]) THEN <<p.logical[i]>> ELSE << >>]))

SumOfSizes(s) == FoldLeft(LAMBDA n, l : n + l.size, 0, s)

Merge(p, group) ==
    LET sources == {group[i].id : i \in DOMAIN group}
        cancels == [i \in DOMAIN group |-> CancelOrder(
                       <<"cancel-consolidation-source", LiveOrder(p, group[i]).id, group[i].id>>,
                       LiveOrder(p, group[i]).id)]
        price == LiveOrder(p, group[1]).price
        id == <<"consolidation", sources, price, SumOfSizes(group)>>
    IN  IF id \in p.actions \/ Ids(cancels) \cap p.actions # {} THEN << >>
        ELSE Append(cancels, [PlaceOrder(id, "initial", id, group[1].side, SumOfSizes(group), price)
                                EXCEPT !.relation = "consolidation", !.sources = sources,
                                       !.replaces = {c.target : c \in ToSet(cancels)}])

(* A group comes with its first source.  (The function has TLC compute the    *)
(* group once.)                                                               *)
Consolidation(p, l) ==
    LET group == IF MergeSource(p, l) THEN MergeGroup(p, l) ELSE << >>
    IN  IF Len(group) < 2 \/ group[1] # l THEN << >> ELSE [g \in {group} |-> Merge(p, g)][group]

ConsolidationDecision(p) ==
    TakeFirst([i \in DOMAIN p.logical |-> Consolidation(p, p.logical[i])], MaxConsolidations)

(* AnchorRepricingManagerStrategy: an order too far from the midpoint is      *)
(* cancelled and placed again at the edge.  Every open order counts, with a   *)
(* placement on record or not.                                                *)
AnchoredPrice(price) == IF price < book.mid - MaxDistance THEN book.mid - MaxDistance
                        ELSE IF price > book.mid + MaxDistance THEN book.mid + MaxDistance
                        ELSE price

MoveSource(p, o) ==
    LET l == LogicalOf(p, o.id)
    IN  /\ o.status = "open" /\ o.known /\ o.filled = 0 /\ l # NoId
        /\ \A q \in ToSet(p.orders) : q.status = "open" /\ LogicalOf(p, q.id) = l => q.id = o.id

Move(p, o) ==
    LET price == AnchoredPrice(o.price)
        identity == <<LogicalOf(p, o.id), o.id, o.price, book.mid, price>>
        cancel == CancelOrder(<<"cancel-anchor-source", identity>>, o.id)
        place == [PlaceOrder(<<"cancel-replace-anchor", identity>>, "cancel_replace",
                             LogicalOf(p, o.id), o.side, o.size, price)
                    EXCEPT !.replaces = {o.id}]
    IN  IF ~MoveSource(p, o) \/ book.mid = 0 \/ price = o.price \/ price <= 0
           \/ {cancel.id, place.id} \cap p.actions # {}
        THEN << >> ELSE <<cancel, place>>

MoveDecision(p) == TakeFirst([i \in DOMAIN p.orders |-> Move(p, p.orders[i])], MaxMoves)

(* strategy_split_order_intents: a strategy splits a logical order in two.    *)
(* The children hang under the root of the source.                            *)
LineageParentItself(source) == source.id
LineageParent(source) == source.root

SplitSource(p, l) == MergeSource(p, l) /\ LiveOrder(p, l).size > 0
                       /\ LiveOrder(p, l).size % 2 = 0
Split(p, l) ==
    LET order == LiveOrder(p, l)
        cancel == CancelOrder(<<"split-cancel", l.id, order.id>>, order.id)
        child(i) == LET id == <<"split_child", l.id, i, order.price, order.size \div 2>>
                    IN  [PlaceOrder(id, "initial", id, l.side, order.size \div 2, order.price)
                           EXCEPT !.relation = "split_child", !.root = l.root,
                                  !.parent = LineageParent(l), !.sources = {l.id},
                                  !.replaces = {order.id}]
        all == <<cancel, child(1), child(2)>>
    IN  IF Ids(all) \cap p.actions # {} THEN << >> ELSE all

-----------------------------------------------------------------------------
(* StrategyEvaluationTask.                                                    *)
IdleJob == [at |-> 1, todo |-> << >>]
NextStrategy == IF job.at = Len(Strategies) THEN IdleJob ELSE [at |-> job.at + 1, todo |-> << >>]
Idle == job = IdleJob

Decided(decision) ==
    \E commands \in {decision} :
        job' = IF commands = << >> THEN NextStrategy ELSE [job EXCEPT !.todo = commands]

(* One evaluation: the snapshot and the decision; a strategy that raises ends *)
(* the cycle.  Only a split asks for more than it was given before, so it is  *)
(* the one the bound stops.                                                   *)
Evaluate ==
    /\ job.todo = << >>
    /\ \/ Strategies[job.at] = "release" /\ Decided(ReleaseDecision(truth))
       \/ /\ Strategies[job.at] = "followup"
          /\ IF FollowupRaises(truth) THEN job' = IdleJob ELSE Decided(FollowupDecision(truth))
       \/ Strategies[job.at] = "consolidation" /\ Decided(ConsolidationDecision(truth))
       \/ Strategies[job.at] = "anchor" /\ Decided(MoveDecision(truth))
       \/ /\ Strategies[job.at] = "split"
          /\ \E l \in ToSet(truth.logical) \cup {NoId} :
                IF l = NoId \/ Len(truth.orders) >= setup.orders THEN job' = NextStrategy
                ELSE IF ~SplitSource(truth, l) THEN job' = IdleJob
                ELSE Decided(Split(truth, l))
    /\ UNCHANGED <<setup, truth, venue, trades, feed, book, history>>

Submitted == IF Len(job.todo) = 1 THEN NextStrategy ELSE [job EXCEPT !.todo = Tail(@)]
StopNothing == Submitted
StopAll == IdleJob              \* the evaluation failed: the rest of it, and of the cycle

-----------------------------------------------------------------------------
(* The venue.                                                                 *)
Report(id, status, left) == feed' = Append(feed, [id |-> id, status |-> status, left |-> left])

NewOrder(c) == [status |-> "open", left |-> c.size, logical |-> c.logical, of |-> c.of,
                side |-> c.side, replaces |-> c.replaces]
Effect(c) ==
    /\ c.type = "cancel" => venue[c.target].status = "open"
    /\ IF c.type = "place"
       THEN /\ venue' = [id \in DOMAIN venue \cup {c.id} |->
                            IF id = c.id THEN NewOrder(c) ELSE venue[id]]
            /\ Report(c.id, "open", c.size)
       ELSE /\ venue' = [venue EXCEPT ![c.target].status = "cancelled"]
            /\ Report(c.target, "cancelled", venue[c.target].left)
NoEffect == UNCHANGED <<venue, feed>>

FilledAt(id) == FoldLeft(LAMBDA n, f : n + f.size, 0, SelectSeq(trades, LAMBDA f : f.order = id))
Blind(c) == c.type = "cancel" /\ FilledAt(c.target) # ById(truth.orders, c.target).filled

Gone(c) == c.type = "cancel" /\ venue[c.target].status # "open"

Faulty == history.faults < MaxFaults
Count(fault, blind) == history' = [blind  |-> history.blind \/ blind, failed |-> TRUE,
                                   faults |-> history.faults + (IF fault THEN 1 ELSE 0)]

(* submit_and_execute of the next command, with each of its outcomes.         *)
Refused(c) == c.id \in truth.actions \/ (c.type = "place" /\ ~LineageOk(c, AsMap(truth.logical)))

Reject ==
    LET c == Head(job.todo)
    IN  /\ job.todo # << >>
        /\ Refused(c) \/ (Faulty /\ c.type = "place")       \* the risk gate, for one
        /\ truth' = IF c.id \in truth.actions THEN truth ELSE Request(truth, c, "rejected")
        /\ job' = StopAll
        /\ Count(~Refused(c), FALSE)
        /\ UNCHANGED <<setup, venue, trades, feed, book>>

Execute ==
    LET c == Head(job.todo)
    IN  /\ job.todo # << >> /\ ~Refused(c)
        /\ Effect(c)
        /\ truth' = Executed(truth, c)
        /\ job' = Submitted
        /\ history' = [history EXCEPT !.blind = @ \/ Blind(c)]
        /\ UNCHANGED <<setup, trades, book>>

(* The venue says no, or an answer is lost; either way it may have acted.     *)
Fail ==
    LET c == Head(job.todo)
    IN  /\ job.todo # << >> /\ ~Refused(c)
        /\ Faulty \/ Gone(c)
        /\ (Faulty /\ Effect(c)) \/ NoEffect
        /\ \E status \in {"failed", "rejected", "execution_unknown"} :
              truth' = Failed(truth, c, status)
        /\ job' = StopAll
        /\ Count(~Gone(c), Blind(c))
        /\ UNCHANGED <<setup, trades, book>>

(* The process dies in a submission, after some of its records, or between    *)
(* two steps; it starts again with nothing to do.                             *)
Die ==
    /\ Faulty /\ ~Idle
    /\ \/ UNCHANGED <<truth, venue, feed>>
       \/ LET c == Head(job.todo)
          IN  /\ job.todo # << >> /\ ~Refused(c)
              /\ \/ truth' = Request(truth, c, "requested") /\ NoEffect
                 \/ truth' = Request(truth, c, "accepted") /\ NoEffect
                 \/ truth' = Accepted(truth, c) /\ (Effect(c) \/ NoEffect)
    /\ job' = IdleJob
    /\ Count(TRUE, job.todo # << >> /\ Blind(Head(job.todo)))
    /\ UNCHANGED <<setup, trades, book>>

-----------------------------------------------------------------------------
Trade ==
    \E id \in DOMAIN venue : \E size \in 1..venue[id].left :
        /\ venue[id].status = "open" /\ Len(trades) < setup.trades /\ Len(feed) < MaxFeed
        /\ LET left == venue[id].left - size
               status == IF left = 0 THEN "filled" ELSE "open"
           IN  /\ venue' = [venue EXCEPT ![id].status = status, ![id].left = left]
               /\ Report(id, status, left)
        /\ trades' = Append(trades, [id |-> <<"trade", Len(trades) + 1>>, order |-> id, size |-> size])
        /\ UNCHANGED <<setup, truth, job, book, history>>

Deliver ==
    /\ Idle /\ feed # << >>
    /\ truth' = Updated(truth, Head(feed)) /\ feed' = Tail(feed)
    /\ UNCHANGED <<setup, job, venue, trades, book, history>>

(* Fill reconciliation records the fills the venue knows of, oldest first.    *)
RecordFill ==
    /\ Idle /\ Len(truth.fills) < Len(trades)
    /\ truth' = Filled(truth, trades[Len(truth.fills) + 1])
    /\ UNCHANGED <<setup, job, venue, trades, feed, book, history>>

Tick ==
    /\ Idle /\ book.ticks < setup.ticks
    /\ \E mid \in Prices \ {book.mid} : book' = [mid |-> mid, ticks |-> book.ticks + 1]
    /\ UNCHANGED <<setup, truth, job, venue, trades, feed, history>>

-----------------------------------------------------------------------------
EmptyTruth == [actions |-> {}, orders |-> << >>, logical |-> << >>, places |-> << >>,
               fills |-> << >>]
Seed(p, c) == IF c.kind = "staged_release" THEN StagedIn(p, c) ELSE Executed(p, c)
Seeded == FoldLeft(Seed, EmptyTruth, Seeds)
SeedIds == {c.id : c \in {s \in ToSet(Seeds) : s.kind # "staged_release"}}

Init ==
    /\ setup \in Setups
    /\ truth = Seeded
    /\ job = IdleJob
    /\ venue = [id \in SeedIds |-> NewOrder(ById(Seeds, id))]
    /\ trades = << >> /\ feed = << >>
    /\ \E mid \in Prices : book = [mid |-> mid, ticks |-> 0]
    /\ history = [blind |-> FALSE, failed |-> FALSE, faults |-> 0]

Next == Evaluate \/ Reject \/ Execute \/ Fail \/ Die \/ Trade \/ Deliver \/ RecordFill \/ Tick

(* The runtime goes round and records what has come in between two cycles.    *)
Fairness == /\ WF_vars(Evaluate \/ Reject \/ Execute \/ Fail)
            /\ SF_vars(Deliver) /\ SF_vars(RecordFill)
Spec == Init /\ [][Next]_vars /\ Fairness

-----------------------------------------------------------------------------
OpenIds == {id \in DOMAIN venue : venue[id].status = "open"}

(* A replacement (a merged order, a split child, a moved order) is never at   *)
(* the venue while an order it replaces is still open there: the harness      *)
(* submits the cancellations first and stops the evaluation at the first      *)
(* receipt that is not a success, whatever the answer or a crash hid.         *)
NoDoubleExposure ==
    \A id \in DOMAIN venue : venue[id].replaces \cap OpenIds = {}

(* A logical order has one order open at the venue at most: a staged chunk is *)
(* not released while another chunk of it is live, and a moved order is gone  *)
(* before its replacement comes.  The exception is an order whose answer was  *)
(* lost: it has no placement on record, and the release manager looks for     *)
(* live orders among the placements only.                                     *)
OneLivePlacement ==
    \A i, j \in OpenIds \cap Ids(truth.places) : venue[i].logical = venue[j].logical => i = j

(* _evaluate_logical_order_contract of app/ledger_health.py, on the logical   *)
(* orders recorded before.                                                    *)
LogicalContract(l, known) ==
    /\ CASE l.relation = "root" -> l.root = l.id /\ l.parent = NoId /\ l.sources = {}
         [] l.relation \in {"followup_after_fill", "split_child"} ->
              /\ l.parent = l.root /\ l.sources # {} /\ l.parent \in DOMAIN known
              /\ (l.relation = "split_child") <=> (known[l.parent].side = l.side)
         [] l.relation = "consolidation" ->
              /\ l.parent = NoId /\ Cardinality(l.sources) >= 2
              /\ \A s \in l.sources \cap DOMAIN known : known[s].side = l.side
         [] OTHER -> l.sources # {}
    /\ l.relation # "root" => l.sources \subseteq DOMAIN known
    /\ l.root = l.id \/ l.root \in DOMAIN known

(* _release_placement_contract: a release names a staged placement recorded   *)
(* before, carries its terms, and is the only one.                            *)
ReleaseContract(x, before) ==
    \E y \in ToSet(before) :
        /\ y.id = x.of /\ y.kind = "staged_release" /\ y.status = "staged"
        /\ y.logical = x.logical /\ y.side = x.side /\ y.size = x.size /\ y.price = x.price
        /\ \A z \in ToSet(before) : z.kind = "release" => z.of # x.of

(* _evaluate_order_placement_contract, on the placements recorded before.     *)
PlacementContract(x, before, known, actions) ==
    /\ x.id \notin Ids(before) /\ x.id \in actions /\ x.size > 0
    /\ x.logical \in DOMAIN known /\ known[x.logical].side = x.side
    /\ x.kind \in DependentKinds => \E y \in ToSet(before) : y.logical = x.logical
    /\ x.kind = "release" => ReleaseContract(x, before)

LogicalPasses(l, known) ==
    \/ LogicalContract(l, known)
    \/ l.relation = "followup_after_fill" /\ l.parent # l.root

(* A moved order whose answer was lost has no placement on record, and its    *)
(* replacement may be the first placement of their logical order.             *)
MovesUnplaced(p, x) ==
    /\ x.kind = "cancel_replace"
    /\ \E id \in Ids(p.orders) \ Ids(p.places) : LogicalOf(p, id) = x.logical
PlacementPasses(p, x, before) ==
    \/ PlacementContract(x, before, AsMap(p.logical), p.actions)
    \/ /\ MovesUnplaced(p, x)
       /\ PlacementContract([x EXCEPT !.kind = "initial"], before, AsMap(p.logical), p.actions)

(* Every logical order and placement the managers bring about passes the      *)
(* lineage contract that ledger health holds against it, with two exceptions: *)
(* the follow-up of an order that is not a root itself keeps the root of the  *)
(* chain and is reported (its parent is not its root); and the replacement of *)
(* an order that has no placement, its answer being lost, is reported for the *)
(* missing placement, and for nothing else.                                   *)
LineagePasses ==
    /\ \A i \in DOMAIN truth.logical :
          LogicalPasses(truth.logical[i], AsMap(SubSeq(truth.logical, 1, i - 1)))
    /\ \A i \in DOMAIN truth.places :
          PlacementPasses(truth, truth.places[i], SubSeq(truth.places, 1, i - 1))

(* Releasing, merging, splitting, moving and following up (each fill once,    *)
(* over all cycles, crashes and retries) keep to what the operator put        *)
(* into the market: on each side, what is open and what was traded never      *)
(* comes to more than the operator's orders of that side and the fills of the *)
(* other one, unless an order was cancelled that had a fill nobody had        *)
(* recorded yet.                                                              *)
Traded(side) ==
    FoldLeft(LAMBDA n, f : IF venue[f.order].side = side THEN n + f.size ELSE n, 0, trades)
OpenSize(side) ==
    MapThenSumSet(LAMBDA id : venue[id].left, {id \in OpenIds : venue[id].side = side})
ExposureKept ==
    history.blind \/ \A side \in {"buy", "sell"} :
        Traded(side) + OpenSize(side)
          <= SumOfSizes(SelectSeq(Seeds, LAMBDA c : c.side = side)) + Traded(Opposite(side))

(* A staged placement whose price fits is released in the end, unless an      *)
(* order of the same logical order stays open at the venue or a submission    *)
(* fails; earlier placements, released or not, do not keep it from its turn.  *)
Waiting(x) == /\ x.status = "staged" /\ x.id \notin ReleasedIn(truth)
              /\ ~history.failed /\ ConditionsMatch(x)
              /\ \A id \in OpenIds : venue[id].logical # x.logical
StagedReleased ==
    []<>("release" \in ToSet(Strategies) => \A i \in DOMAIN truth.places : ~Waiting(truth.places[i]))

(* docs/architecture.md: the manager "reconstructs an opposite-side followup  *)
(* intent from a replayed fill".  Every recorded fill is followed up.         *)
FillsAnswered ==
    []<>(\/ history.failed
         \/ \A i \in DOMAIN truth.fills : \E id \in DOMAIN venue : venue[id].of = truth.fills[i].id)
=============================================================================
