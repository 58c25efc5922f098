------------------------------ MODULE Quoting -------------------------------
(* The strategies that make orders out of market data, on the feed they read  *)
(* and the gate they pass: strategies/passive_market_making.py with the       *)
(* staged-release manager, and the helpers of strategies/harness.py for pairs *)
(* of quotes and for slices over time.  The venue's order book reaches the    *)
(* projection over redundant connections that end, lose messages and start    *)
(* again with a snapshot; the router accepts the first copy of a message and  *)
(* dismisses the others (Feeds has its other duties and the limit of its      *)
(* cache of keys).                                                            *)
(* A submission is one step (ActionGateway has its parts); action ids are the *)
(* identity that the code digests.                                            *)
(* (Operators directly before a definition, unused otherwise: its mutants.)   *)
EXTENDS MarketData, OrderRules

CONSTANTS
    Setups,         \* the setups to look at, see Init; with whether connections
                    \* number messages alike (sharing), the bounds moves (of
                    \* the venue's book), drops (of connections), losses (of a
                    \* message), trades, ticks (of the clock), faults (answers of
                    \* the venue that are lost or not a success) and fates (steps
                    \* of orders at the venue)
    Lookback, Interval, Retain,
                    \* a window of trades, its candles, and their retention limit
    MinSamples      \* of a window of order book samples

(* What the loaders of the catalog, the configuration and the policy see to:  *)
(* a product has positive increments, and a limit that is set is positive.    *)
(* A venue's book has both sides, at first and after every move.              *)
LimitNames == {"max_size", "max_notional", "max_daily", "max_open", "max_leverage", "max_visible"}
LimitFields == LimitNames \cup {"allowed", "kill_switch", "post_only", "reduce_only", "stage_above"}
BothSides(book) == LevelsIn(book.bid) # {} /\ LevelsIn(book.ask) # {}
BookUpdates == [side : {"bid", "ask"}, price : Prices, quantity : Nat]
SetupOk(s) ==
    /\ \A f \in {"base_increment", "price_increment", "contract"} : s.product[f] \in Nat \ {0}
    /\ \A f \in {"base_min", "base_max", "quote_min", "quote_max"} : s.product[f] \in Nat
    /\ \A f \in {"max_notional", "max_daily", "max_open", "max_visible", "target", "half_spread"} :
          s.policy[f] \in Nat
    /\ DOMAIN s.base = LimitFields /\ \A f \in LimitNames : s.base[f] \in Nat
    /\ s.size \in Nat /\ s.slices \in Nat \ {0}
    /\ s.book \in [bid : [Prices -> Nat], ask : [Prices -> Nat]] /\ BothSides(s.book)
    /\ s.changes \subseteq Seq(BookUpdates) /\ s.sharing \subseteq BOOLEAN
ASSUME SetupsAssumption == \A s \in Setups : SetupOk(s)
ASSUME PricesAssumption == MaxOf(Prices) \in Nat /\ Prices \subseteq 1..MaxOf(Prices)

VARIABLES
    setup,      \* the setup, for good
    clock,      \* [now: the time, seq: records of accepted market data so far]
    market,     \* the venue's book and trades: [book, version, trades, sent: the
                \*  messages so far]
    links,      \* the connections: [up, queue: messages on their way]
    seen,       \* the keys of the messages that the router accepted
    md,         \* the market data of the projection, see MarketData
    truth,      \* its actions [status, at], orders [status, size, price] and placements
    venue,      \* the orders at the venue, by action id: [status, order: the command]
    feed,       \* order updates on their way
    history     \* [lost: a book message was lost, or dismissed although the book
                \*  lacked it (see Dismiss), and no snapshot accepted since,
                \*  newest: the number of the newest book message accepted,
                \*  regressed: an older one was accepted after it, and no newer
                \*  snapshot since,
                \*  blind: a quote was staged while an order of its side was pending
                \*  or about to be cancelled, drops, losses, fates]

vars == <<setup, clock, market, links, seen, md, truth, venue, feed, history>>

Sources == DOMAIN links
Product == setup.product
Policy == setup.policy
Limits == EffectiveLimits(setup.base, OperatorLimits(Policy))

-----------------------------------------------------------------------------
(* The venue's market and the connections to it.  The venue's messages are    *)
(* numbered in the order in which it sends them.                              *)
IsBook(m) == m.kind # "trades"
Update(n, levels, shared) == [kind |-> "update", n |-> n, shared |-> shared, levels |-> levels]
Snapshot(n, levels) == [kind |-> "snapshot", n |-> n, shared |-> FALSE, levels |-> levels]
Trades(n, trades, shared) == [kind |-> "trades", n |-> n, shared |-> shared, trades |-> trades]

(* _message_key: the channel, the sequence number on the connection and the   *)
(* digest of the payload, and no source.  The copies of a message have one    *)
(* key when the connections number them alike; a snapshot is of the time at   *)
(* which its connection started.                                              *)
MessageKey(m, s) == IF m.shared THEN <<m.n>> ELSE <<m.n, s>>

Send(m) == links' = [s \in Sources |-> IF links[s].up
                                       THEN [links[s] EXCEPT !.queue = Append(@, m)] ELSE links[s]]
LevelsOf(book) ==
    SetToSeq({[side |-> x[1], price |-> x[2], quantity |-> book[x[1]][x[2]]] :
                 x \in {y \in {"bid", "ask"} \X Prices : book[y[1]][y[2]] > 0}})

MoveBook ==
    /\ market.version < setup.moves
    /\ \E levels \in setup.changes, shared \in setup.sharing :
          LET book == SetLevels(market.book, levels)
          IN  /\ BothSides(book) /\ book # market.book
              /\ market' = [market EXCEPT !.book = book, !.version = @ + 1, !.sent = @ + 1]
              /\ Send(Update(market.sent, levels, shared))
    /\ UNCHANGED <<setup, clock, seen, md, truth, venue, feed, history>>

TradeAtVenue ==
    /\ Len(market.trades) < setup.trades
    /\ \E x \in setup.tape, shared \in setup.sharing :
          LET t == [id |-> Len(market.trades) + 1, price |-> x.price, size |-> x.size, side |-> x.side]
          IN  /\ market' = [market EXCEPT !.trades = Append(@, t), !.sent = @ + 1]
              /\ Send(Trades(market.sent, <<t>>, shared))
    /\ UNCHANGED <<setup, clock, seen, md, truth, venue, feed, history>>

(* A connection starts with a snapshot of the book and the trades so far.     *)
Up(s) ==
    /\ ~links[s].up
    /\ links' = [links EXCEPT ![s] = [up |-> TRUE, queue |->
           <<Snapshot(market.sent, LevelsOf(market.book))>>
           \o (IF market.trades = << >> THEN << >>
               ELSE <<Trades(market.sent + 1, market.trades, FALSE)>>)]]
    /\ market' = [market EXCEPT !.sent = @ + 2]
    /\ UNCHANGED <<setup, clock, seen, md, truth, venue, feed, history>>

Down(s) ==
    /\ links[s].up /\ history.drops < setup.drops
    /\ links' = [links EXCEPT ![s] = [up |-> FALSE, queue |-> << >>]]
    /\ history' = [history EXCEPT !.drops = @ + 1, !.lost = @ \/ \E m \in ToSet(links[s].queue) : IsBook(m)]
    /\ UNCHANGED <<setup, clock, market, seen, md, truth, venue, feed>>

Lose(s) ==
    /\ links[s].queue # << >> /\ history.losses < setup.losses
    /\ links' = [links EXCEPT ![s].queue = Tail(@)]
    /\ history' = [history EXCEPT !.losses = @ + 1, !.lost = @ \/ IsBook(Head(links[s].queue))]
    /\ UNCHANGED <<setup, clock, market, seen, md, truth, venue, feed>>

(* FeedRouter.ingest and the projection of what it accepted.                  *)
NewerOf(m) == IF m.n < history.newest THEN history.newest ELSE m.n
Accept(s) ==
    LET m == Head(links[s].queue)
    IN  /\ links[s].queue # << >> /\ MessageKey(m, s) \notin seen
        /\ seen' = seen \cup {MessageKey(m, s)}
        /\ md' = ApplyData(md, m, clock.now, clock.seq)
        /\ clock' = [clock EXCEPT !.seq = @ + 1]
        /\ links' = [links EXCEPT ![s].queue = Tail(@)]
        /\ history' = IF ~IsBook(m) THEN history
                      ELSE [history EXCEPT !.newest = NewerOf(m),
                              !.lost = @ /\ m.kind # "snapshot",
                              !.regressed = m.n < history.newest \/ (@ /\ m.kind # "snapshot")]
        /\ UNCHANGED <<setup, market, truth, venue, feed>>

(* A copy of what was accepted is audited and goes no further, also when an   *)
(* older message has overwritten in between what it tells.                    *)
BookLacks(m) ==
    LET book == ApplyData(md, m, clock.now, clock.seq).book
    IN  book.bid # md.book.bid \/ book.ask # md.book.ask
Dismiss(s) ==
    LET m == Head(links[s].queue)
    IN  /\ links[s].queue # << >> /\ MessageKey(m, s) \in seen
        /\ links' = [links EXCEPT ![s].queue = Tail(@)]
        /\ history' = [history EXCEPT !.lost = @ \/ (history.regressed /\ BookLacks(m))]
        /\ UNCHANGED <<setup, clock, market, seen, md, truth, venue, feed>>

Tick ==
    /\ clock.now < setup.ticks
    /\ clock' = [clock EXCEPT !.now = @ + 1]
    /\ UNCHANGED <<setup, market, links, seen, md, truth, venue, feed, history>>

-----------------------------------------------------------------------------
(* Orders and staged placements.                                              *)
NoId == << >>
NoQuote == [bid |-> None, ask |-> None, midpoint |-> <<0, 1>>]

Order(id, logical, kind, side, price, size, quote, of) ==
    [id |-> id, logical |-> logical, kind |-> kind, side |-> side, price |-> price,
     size |-> size, quote |-> quote, of |-> of, product |-> "P", type |-> Policy.type,
     tif |-> Policy.tif, relation |-> "root", leverage |-> Policy.leverage,
     post_only |-> Policy.post_only, reduce_only |-> Policy.reduce_only]

Ids(s) == {s[i].id : i \in DOMAIN s}
StagedPlaces(t) == {x \in ToSet(t.places) : x.kind = "staged_release"}
StagedIds(t) == {x.id : x \in StagedPlaces(t)}
ReleasesOf(t, id) == {x \in ToSet(t.places) : x.kind = "release" /\ x.of = id}
PassiveQuotes(t) == {x \in StagedPlaces(t) : x.quote # NoQuote}

(* _has_active_passive_quote: a staged quote, or a released one whose order   *)
(* is OPEN in the projection, and in no other live status.                    *)
HasActiveReleased(t, side) ==
    \E x \in PassiveQuotes(t) :
        /\ x.side = side
        /\ \E r \in ReleasesOf(t, x.id) : t.orders[r.id].status = "open"

HasActiveQuote(t, side) ==
    \E x \in PassiveQuotes(t) :
        /\ x.side = side
        /\ \/ ReleasesOf(t, x.id) = {}
           \/ \E r \in ReleasesOf(t, x.id) : t.orders[r.id].status = "open"

(* strategy_staged_release_intents: one command per chunk, under one logical  *)
(* order.                                                                     *)
ChunkIntents(base, sizes) ==
    [i \in DOMAIN sizes |-> [base EXCEPT !.id = Append(base.logical, <<i, Len(sizes), sizes[i]>>),
                                         !.kind = "staged_release", !.size = sizes[i]]]

(* _quote_plan with _target_size_for_notional.                                *)
NoPlan == [size |-> 0]
QuotePlan ==
    LET midpoint == Midpoint(md.book)
        prices == QuotePairPrices(Product, midpoint, 2 * Policy.half_spread)
        target == Least(Policy.target, Least(Policy.max_notional, Policy.max_visible))
        size == Most(FloorTo(<<target * midpoint[2], midpoint[1] * Product.contract>>,
                             Product.base_increment),
                     MinimumSize(Product, midpoint))
    IN  IF ~TopOk(md.book) THEN NoPlan
        ELSE IF Spread(md.book) <= 0 \/ prices = NoPrices \/ size = 0 THEN NoPlan
        ELSE [bid |-> prices.bid, ask |-> prices.ask, midpoint |-> midpoint, size |-> size]

Quote(plan) == [bid |-> plan.bid, ask |-> plan.ask, midpoint |-> plan.midpoint]
SidePrice(plan, side) == IF side = "buy" THEN plan.bid ELSE plan.ask

(* _staged_quote_intents; none when the sizing is rejected.                   *)
StagedQuoteIntents(plan, side) ==
    LET logical == <<"quote", side, plan.bid, plan.ask, plan.midpoint, plan.size>>
        price == SidePrice(plan, side)
        base == Order(NoId, logical, "staged_release", side, price, plan.size, Quote(plan), NoId)
    IN  ChunkIntents(base, StagedReleaseSizes(Product, plan.size, price, Policy.max_visible,
                                              Policy.max_chunks))

(* PassiveMarketMakingStrategy.evaluate.                                      *)
SideIntents(t, plan, side) ==
    LET intents == StagedQuoteIntents(plan, side)
    IN  IF \/ side \notin Policy.sides \/ HasActiveQuote(t, side)
           \/ Ids(intents) \cap DOMAIN t.actions # {}
        THEN << >> ELSE intents
PassiveIntents(t) ==
    IF \/ ~Policy.staged \/ Policy.type # "limit" \/ ~Policy.post_only \/ ~Policy.require_book
       \/ ~Fresh(md, clock.now, Policy.max_age) \/ QuotePlan = NoPlan
    THEN << >>
    ELSE SideIntents(t, QuotePlan, "buy") \o SideIntents(t, QuotePlan, "sell")

-----------------------------------------------------------------------------
(* quote_pair_intents, for a strategy that asks for a size: both sides or     *)
(* nothing, placed at once or staged.                                         *)
PairPlan == QuotePairPrices(Product, Midpoint(md.book), 2 * Policy.half_spread)
PairSide(side) ==
    LET price == SidePrice(PairPlan, side)
        logical == <<"pair", side, PairPlan.bid, PairPlan.ask, Midpoint(md.book)>>
        base == Order(logical, logical, "initial", side, price, setup.size, NoQuote, NoId)
    IN  IF \/ ~OrderNotionalOk(Product, setup.size, price)
           \/ Notional(Product, setup.size, price) > Policy.max_notional
        THEN << >>
        ELSE IF setup.pair = "initial" THEN <<base>>
        ELSE ChunkIntents(base, StagedReleaseSizes(Product, setup.size, price, Policy.max_visible,
                                                   Policy.max_chunks))
PairIntents(t) ==
    IF \/ Policy.sides # {"buy", "sell"} \/ Policy.type # "limit"
       \/ setup.pair = "staged_release" /\ ~Policy.staged
       \/ ~BookStats(md.book, 1).ok \/ PairPlan = NoPrices \/ ~OrderSizeOk(Product, setup.size)
    THEN << >>
    ELSE LET buy == PairSide("buy")
             sell == PairSide("sell")
         IN  IF \/ buy = << >> \/ sell = << >> \/ Ids(buy \o sell) \cap DOMAIN t.actions # {}
             THEN << >> ELSE buy \o sell

-----------------------------------------------------------------------------
(* scheduled_slice_plan, for a strategy that places the slice that is due.    *)
(* A slice counts as done once its action is accepted or executed; the next   *)
(* one is due an interval after it, or at its place in a schedule with a      *)
(* start.                                                                     *)
SliceId(i) == <<"slice", i>>
Slices == 1..setup.slices
SliceDone(t, i) == SliceId(i) \in DOMAIN t.actions
                   /\ t.actions[SliceId(i)].status \in {"accepted", "executed"}

SliceDueAt(t, i) ==
    IF setup.start # NoTime THEN setup.start + Interval * (i - 1)
    ELSE IF i = 1 THEN clock.now ELSE t.actions[SliceId(i - 1)].at + Interval

SliceIntents(t) ==
    LET sizes == SliceSizes(Product, setup.slices, setup.size)
        next == {i \in Slices : SliceId(i) \notin DOMAIN t.actions
                                /\ \A j \in 1..(i - 1) : SliceDone(t, j)}
    IN  IF sizes = << >> THEN << >>
        ELSE IF \E i \in next : \A j \in Slices : j > i => SliceId(j) \notin DOMAIN t.actions
        THEN LET i == CHOOSE i \in next : TRUE
             IN  IF SliceDueAt(t, i) > clock.now THEN << >>
                 ELSE <<Order(SliceId(i), SliceId(i), "initial", "buy", setup.price, sizes[i],
                              NoQuote, NoId)>>
        ELSE << >>

-----------------------------------------------------------------------------
(* StagedReleaseManagerStrategy, one release per evaluation: the first staged *)
(* placement without a release, on a fresh book that it does not cross, and   *)
(* with no live order of its logical order.                                   *)
LiveStatuses == {"accepted", "cancel_queued", "execution_unknown", "open", "pending", "requested"}
ConditionsMatch(x) ==
    /\ TopOk(md.book) /\ Spread(md.book) > 0
    /\ IF x.side = "buy" THEN x.price < BestPrice(md.book, "ask") ELSE x.price > BestPrice(md.book, "bid")
LiveOfLogical(t, logical) ==
    {x \in ToSet(t.places) : /\ x.kind # "staged_release" /\ x.logical = logical
                             /\ t.orders[x.id].status \in LiveStatuses}
ReleaseIntents(t) ==
    LET ready == {i \in DOMAIN t.places :
                    LET x == t.places[i]
                    IN  /\ x.kind = "staged_release" /\ ReleasesOf(t, x.id) = {}
                        /\ Policy.require_book \/ Policy.when_matched
                             => Fresh(md, clock.now, Policy.max_age)
                        /\ Policy.when_matched => ConditionsMatch(x)
                        /\ LiveOfLogical(t, x.logical) = {}}
    IN  IF ~Policy.staged \/ ~Policy.allow_release \/ ready = {} THEN << >>
        ELSE LET x == t.places[MinOf(ready)]
             IN  <<[x EXCEPT !.id = <<"release", x.id>>, !.kind = "release", !.of = x.id,
                             !.quote = NoQuote]>>

-----------------------------------------------------------------------------
(* submit_and_execute.                                                        *)
Put(f, id, entry) == [x \in DOMAIN f \cup {id} |-> IF x = id THEN entry ELSE f[x]]
Act(t, c, status) ==
    [t EXCEPT !.actions = Put(t.actions, c.id, [status |-> status, at |-> clock.now])]
SetOrder(t, c, status) ==
    [t EXCEPT !.orders = Put(t.orders, c.id, [status |-> status, size |-> c.size, price |-> c.price])]
Place(t, c) == [t EXCEPT !.places = Append(@, c)]

LiveOrders(t) == {id \in DOMAIN t.orders : t.orders[id].status \in LiveStatuses
                                           /\ id \notin StagedIds(t)}
DailyStatuses == (LiveStatuses \ {"requested"}) \cup {"filled"}
UsedToday(t) ==
    Sum(SetToSeq({id \in DOMAIN t.orders : t.orders[id].status \in DailyStatuses
                                           /\ id \notin StagedIds(t)}),
        LAMBDA id : Notional(Product, t.orders[id].size, t.orders[id].price))

GatePasses(t, c) == Passes(Limits, Product, c, Cardinality(LiveOrders(t)), UsedToday(t))

Faults(t) == Cardinality({id \in DOMAIN t.actions : t.actions[id].status = "failed"})

(* The outcome of a command: what it leaves in the projection, whether the    *)
(* venue has the order, and whether it was a success.                         *)
Outcomes(t, c) ==
    IF c.id \in DOMAIN t.actions THEN {[t |-> t, sent |-> FALSE, ok |-> FALSE]}
    ELSE IF ~GatePasses(t, c)
    THEN {[t |-> SetOrder(Act(t, c, "rejected"), c, "rejected"), sent |-> FALSE, ok |-> FALSE]}
    ELSE IF c.kind = "staged_release"
    THEN {[t |-> Place(SetOrder(Act(t, c, "accepted"), c, "accepted"), c), sent |-> FALSE, ok |-> TRUE]}
    ELSE {[t |-> Place(SetOrder(Act(t, c, "executed"), c, "open"), c), sent |-> TRUE, ok |-> TRUE]}
         \cup (IF Faults(t) >= setup.faults THEN {}
               ELSE {[t |-> SetOrder(Act(t, c, "failed"), c, status), sent |-> sent, ok |-> FALSE] :
                        status \in {"failed", "execution_unknown"}, sent \in BOOLEAN})

(* The harness submits the intents one by one and stops at the first that is  *)
(* not a success.                                                             *)
Start(t) == {[t |-> t, sent |-> << >>, ok |-> TRUE, staged |-> {}]}
Submit(runs, c) ==
    UNION {IF ~r.ok THEN {r}
           ELSE {[t |-> o.t, sent |-> IF o.sent THEN Append(r.sent, c) ELSE r.sent, ok |-> o.ok,
                  staged |-> IF o.ok /\ c.quote # NoQuote THEN r.staged \cup {c.side} ELSE r.staged] :
                     o \in Outcomes(r.t, c)} : r \in runs}
SubmitAll(t, intents) == FoldLeft(Submit, Start(t), intents)

Alive(id) == id \in DOMAIN venue /\ venue[id].status \in {"open", "cancelling"}
Unsure(side) ==
    \E x \in PassiveQuotes(truth) :
        x.side = side /\ \E r \in ReleasesOf(truth, x.id) :
            Alive(r.id) /\ truth.orders[r.id].status \in {"pending", "cancel_queued"}

(* The venue reports a new order as pending, then as open.                    *)
Report(sent) ==
    [k \in 1..(2 * Len(sent)) |-> [id |-> sent[(k + 1) \div 2].id,
                                   status |-> IF k % 2 = 1 THEN "pending" ELSE "open"]]

Run(intents) ==
    /\ intents # << >>
    /\ \E r \in SubmitAll(truth, intents) :
          /\ truth' = r.t
          /\ venue' = [id \in Ids(r.sent) \cup DOMAIN venue |->
                         IF id \in Ids(r.sent)
                         THEN [status |-> "open", order |-> CHOOSE c \in ToSet(r.sent) : c.id = id]
                         ELSE venue[id]]
          /\ feed' = feed \o Report(r.sent)
          /\ history' = [history EXCEPT !.blind = @ \/ \E side \in r.staged : Unsure(side)]
    /\ UNCHANGED <<setup, clock, market, links, seen, md>>

StageQuotes == "passive" \in setup.strategies /\ Run(PassiveIntents(truth))
PlacePair == "pair" \in setup.strategies /\ Run(PairIntents(truth))
PlaceSlice == "slices" \in setup.strategies /\ Run(SliceIntents(truth))
ReleaseStaged == "release" \in setup.strategies /\ Run(ReleaseIntents(truth))

-----------------------------------------------------------------------------
(* The venue's orders and their updates.                                      *)
OrderStep(id, from, to, status) ==
    /\ venue[id].status = from /\ history.fates < setup.fates
    /\ venue' = [venue EXCEPT ![id].status = to]
    /\ feed' = Append(feed, [id |-> id, status |-> status])
    /\ history' = [history EXCEPT !.fates = @ + 1]
    /\ UNCHANGED <<setup, clock, market, links, seen, md, truth>>
VenueOrders == \E id \in DOMAIN venue :
                  \/ OrderStep(id, "open", "cancelling", "cancel_queued")
                  \/ OrderStep(id, "cancelling", "cancelled", "cancelled")
                  \/ \E from \in {"open", "cancelling"} : OrderStep(id, from, "filled", "filled")

Deliver ==
    LET u == Head(feed)
    IN  /\ feed # << >>
        /\ truth' = [truth EXCEPT !.orders[u.id] =
                        [@ EXCEPT !.status = u.status, !.size = IF u.status = "filled" THEN 0 ELSE @]]
        /\ feed' = Tail(feed)
        /\ UNCHANGED <<setup, clock, market, links, seen, md, venue, history>>

-----------------------------------------------------------------------------
Init ==
    /\ setup \in Setups
    /\ Overlap(setup.base, OperatorLimits(setup.policy))
    /\ clock = [now |-> 0, seq |-> 0]
    /\ market = [book |-> setup.book, version |-> 1, trades |-> << >>, sent |-> 1]
    /\ links = [s \in setup.sources |-> [up |-> FALSE, queue |-> << >>]]
    /\ seen = {} /\ md = EmptyData
    /\ truth = [actions |-> << >>, orders |-> << >>, places |-> << >>]
    /\ venue = << >> /\ feed = << >>
    /\ history = [lost |-> FALSE, newest |-> 0, regressed |-> FALSE, blind |-> FALSE,
                  drops |-> 0, losses |-> 0, fates |-> 0]

Next ==
    \/ MoveBook \/ TradeAtVenue \/ Tick
    \/ \E s \in Sources : Up(s) \/ Down(s) \/ Lose(s) \/ Accept(s) \/ Dismiss(s)
    \/ StageQuotes \/ PlacePair \/ PlaceSlice \/ ReleaseStaged
    \/ VenueOrders \/ Deliver

Spec == Init /\ [][Next]_vars

-----------------------------------------------------------------------------
(* The projected order book is the venue's once every connection has          *)
(* delivered what it was sent: whatever the interleaving of two connections,  *)
(* a late snapshot of one, a copy that the router dismisses, or trades in     *)
(* between.  Two things leave the book wrong until a snapshot is accepted: a  *)
(* book message that is lost, for the projection keeps the sequence number of *)
(* the exchange and does not compare it; and a late message of one connection *)
(* that takes back what a newer one told, when the copy that would tell it    *)
(* again is dismissed as a duplicate.                                         *)
BookTrue ==
    (/\ \E s \in Sources : links[s].up
     /\ \A s \in Sources : links[s].queue = << >>
     /\ ~history.lost)
    => md.book.bid = market.book.bid /\ md.book.ask = market.book.ask

(* The views of one tape agree: the candles of a window take each of its      *)
(* trades exactly once, with the window's volumes, range, first and last      *)
(* price; the time-weighted price stays in that range; no trade is in it      *)
(* twice although connections bring it again; and the newest sample, cut to   *)
(* its depth, has the top of the book.                                        *)
WindowsAgree ==
    LET w == TradeWindow(md, clock.now, Lookback, Retain)
        all == WindowStats(w)
        candles == Candles(w, Interval)
        traded == SelectSeq(candles, LAMBDA c : c.prices # NoPrice)
        samples == SampleStats(SampleWindow(md, clock.now, Lookback, MaxSamples, MinSamples), 1, MinSamples)
    IN  /\ Cardinality(Ids(md.trades)) = Len(md.trades)
        /\ \A v \in DOMAIN all.volumes : Sum(candles, LAMBDA c : c.volumes[v]) = all.volumes[v]
        /\ traded # << >> =>
              /\ Head(traded).prices.open = all.prices.open
              /\ Last(traded).prices.close = all.prices.close
              /\ MaxOf({c.prices.high : c \in ToSet(traded)}) = all.prices.high
              /\ all.prices.twap[1] <= all.prices.high * all.prices.twap[2]
              /\ all.prices.twap[1] >= all.prices.low * all.prices.twap[2]
        /\ samples.ok /\ TopOk(md.book) => samples.last = Midpoint(md.book)

(* _passive_market_making_quote_contract_anomalies of app/ledger_health.py.   *)
QuoteContract(x) ==
    x.quote # NoQuote =>
        /\ x.kind = "staged_release" /\ x.quote.bid > 0
        /\ x.quote.bid * x.quote.midpoint[2] < x.quote.midpoint[1]
        /\ x.quote.midpoint[1] < x.quote.ask * x.quote.midpoint[2]
        /\ x.price = SidePrice(x.quote, x.side)

(* What was planned is what is placed.  A quote meets the contract ledger     *)
(* health holds against it and its chunks come to its size, no chunk above    *)
(* what may be visible or outside the product's rules.  A slice is at the     *)
(* venue only with all the ones before it, an interval after the last of them *)
(* (or not before its place in the schedule: late ones may come in a row),    *)
(* and after an answer that was not a success none follows.                   *)
PlansKept ==
    /\ \A x \in PassiveQuotes(truth) :
          /\ QuoteContract(x)
          /\ ReleaseOk(Product, x.size, x.price, Policy.max_visible)
          /\ LET chunks == {y \in PassiveQuotes(truth) : y.logical = x.logical}
             IN  MapThenSumSet(LAMBDA y : y.size, chunks) = x.logical[6]
    /\ \A i \in {j \in Slices : SliceId(j) \in DOMAIN venue} :
          /\ truth.actions[SliceId(i)].at >= setup.start + Interval * (i - 1)
          /\ \A j \in 1..(i - 1) :
                /\ SliceDone(truth, j)
                /\ setup.start # NoTime
                   \/ truth.actions[SliceId(j)].at + Interval * (i - j) <= truth.actions[SliceId(i)].at

(* Whatever strategy made it, an order at the venue is one that the           *)
(* configured risk limits allow and the operator's policy allows, each on its *)
(* own: the limits in force are never wider than either.                      *)
WithinBothPolicies ==
    \A id \in DOMAIN venue : \A limits \in {setup.base, OperatorLimits(Policy)} :
        Passes([limits EXCEPT !.max_open = None, !.max_daily = None], Product, venue[id].order, 0, 0)

(* One quote per side: the strategy stages none while a quote of that side is *)
(* staged or has an order alive at the venue, whatever answers were lost.     *)
(* The exception is an order that its last update calls pending or queued for *)
(* cancellation: only an open one counts as active.                           *)
OneQuotePerSide ==
    \A side \in {"buy", "sell"} : ~history.blind =>
        Cardinality({x.logical : x \in {y \in PassiveQuotes(truth) :
            y.side = side /\ (\/ ReleasesOf(truth, y.id) = {}
                              \/ \E r \in ReleasesOf(truth, y.id) : Alive(r.id))}}) <= 1
=============================================================================
