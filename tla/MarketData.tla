----------------------------- MODULE MarketData -----------------------------
(* The market data of projections/state.py (order book, its samples, trades)  *)
(* and what strategies/market_data.py computes from it, as pure operators.    *)
(* One product.  A price level that is not in the book has quantity 0; an     *)
(* amount that does not parse as a positive decimal is 0; averages and other  *)
(* quotients are pairs <<numerator, denominator>>.                            *)
(* (Operators directly before a definition, unused otherwise: its mutants.)   *)
EXTENDS Integers, FiniteSets, SequencesExt

CONSTANTS
    Prices,         \* the price levels of the book
    MaxSamples, MaxDepth, MaxTrades
                    \* retention of samples, of their levels, and of trades

NoTime == -1
Sum(s, Value(_)) == FoldLeft(LAMBDA n, x : n + Value(x), 0, s)
Suffix(s, n) == IF Len(s) <= n THEN s ELSE SubSeq(s, Len(s) - n + 1, Len(s))
MaxOf(S) == CHOOSE x \in S : \A y \in S : y <= x
MinOf(S) == CHOOSE x \in S : \A y \in S : x <= y

-----------------------------------------------------------------------------
(* MarketOrderBookSnapshot.                                                   *)
NoLevels == [p \in Prices |-> 0]
NoBook == [bid |-> NoLevels, ask |-> NoLevels, at |-> NoTime, seq |-> 0]
LevelsIn(levels) == {p \in Prices : levels[p] > 0}

(* _best_price, 0 for none.                                                   *)
BestPrice(book, side) ==
    IF LevelsIn(book[side]) = {} THEN 0
    ELSE IF side = "bid" THEN MaxOf(LevelsIn(book[side])) ELSE MinOf(LevelsIn(book[side]))

(* _retained_order_book_levels: the best ones.                                *)
Retained(book, side) ==
    [p \in Prices |-> IF Cardinality({q \in LevelsIn(book[side]) :
                              IF side = "bid" THEN q > p ELSE q < p}) < MaxDepth
                      THEN book[side][p] ELSE 0]
Copy(book) == [book EXCEPT !.bid = Retained(book, "bid"), !.ask = Retained(book, "ask")]

(* _append_order_book_sample.                                                 *)
Sampled(md) == [md EXCEPT !.samples = Suffix(Append(@, Copy(md.book)), MaxSamples)]

(* _update_order_book_level, for each level of a message.                     *)
SetLevel(book, u) == [book EXCEPT ![u.side] = [@ EXCEPT ![u.price] = u.quantity]]
SetLevels(book, levels) == FoldLeft(SetLevel, book, levels)

(* _apply_order_book_payloads: the levels of one message.  A snapshot clears  *)
(* the book, when it has a level at all; the sequence number of the exchange  *)
(* is kept and never compared.                                                *)
BookMergingSnapshots(md, m, now, seq) ==
    IF m.levels = << >> THEN md
    ELSE Sampled([md EXCEPT !.book = [SetLevels(md.book, m.levels) EXCEPT !.at = now, !.seq = seq]])

ApplyOrderBook(md, m, now, seq) ==
    LET start == IF m.kind = "snapshot" THEN NoBook ELSE md.book
    IN  IF m.levels = << >> THEN md
        ELSE Sampled([md EXCEPT !.book = [SetLevels(start, m.levels) EXCEPT !.at = now, !.seq = seq]])

(* _apply_market_trade_payloads: a trade that is known keeps its place and    *)
(* gets the time and the sequence of the message that brought it again; one   *)
(* that retention dropped is new.                                             *)
WithTrade(trades, t, now, seq) ==
    LET trade == [id |-> t.id, price |-> t.price, size |-> t.size, side |-> t.side,
                  at |-> now, seq |-> seq]
    IN  IF \E i \in DOMAIN trades : trades[i].id = t.id
        THEN [i \in DOMAIN trades |-> IF trades[i].id = t.id THEN trade ELSE trades[i]]
        ELSE Suffix(Append(trades, trade), MaxTrades)

ApplyTrades(md, m, now, seq) ==
    [md EXCEPT !.trades = FoldLeft(LAMBDA s, t : WithTrade(s, t, now, seq), @, m.trades)]

(* _apply_accepted_market_data.                                               *)
EmptyData == [book |-> NoBook, samples |-> << >>, trades |-> << >>]
ApplyData(md, m, now, seq) ==
    IF m.kind = "trades" THEN ApplyTrades(md, m, now, seq) ELSE ApplyOrderBook(md, m, now, seq)

(* market_data_freshness of the order book.                                   *)
Fresh(md, now, maxAge) == md.book.at # NoTime /\ now - md.book.at <= maxAge

-----------------------------------------------------------------------------
(* best_bid_ask, midpoint and spread.                                         *)
TopOk(book) == BestPrice(book, "bid") # 0 /\ BestPrice(book, "ask") # 0
Midpoint(book) == <<BestPrice(book, "bid") + BestPrice(book, "ask"), 2>>
Spread(book) == BestPrice(book, "ask") - BestPrice(book, "bid")

(* order_book_stats over the best levels of each side.                        *)
Selected(book, side, levels) ==
    {p \in LevelsIn(book[side]) :
        Cardinality({q \in LevelsIn(book[side]) : IF side = "bid" THEN q > p ELSE q < p}) < levels}
Depth(book, side, levels) ==
    LET prices == SetToSeq(Selected(book, side, levels)) IN Sum(prices, LAMBDA p : book[side][p])
BookStats(book, levels) ==
    [ok |-> TopOk(book), midpoint |-> Midpoint(book), spread |-> Spread(book),
     bid_volume |-> Depth(book, "bid", levels), ask_volume |-> Depth(book, "ask", levels)]

-----------------------------------------------------------------------------
(* Windows: what was observed in the last lookback, both ends included, in    *)
(* the order of time and record; status says why there is nothing.            *)
InOrder(s, Key(_)) ==
    LET before(i, j) ==
            \/ s[i].at < s[j].at
            \/ s[i].at = s[j].at /\ s[i].seq < s[j].seq
            \/ s[i].at = s[j].at /\ s[i].seq = s[j].seq /\ Key(s[i]) < Key(s[j])
            \/ s[i].at = s[j].at /\ s[i].seq = s[j].seq /\ Key(s[i]) = Key(s[j]) /\ i < j
        order == SetToSortSeq(DOMAIN s, before)
    IN  [k \in DOMAIN s |-> s[order[k]]]
Window(s, now, lookback, retained) ==
    LET inside == SelectSeq(s, LAMBDA x : now - lookback <= x.at /\ x.at <= now)
    IN  [status |-> IF s = << >> THEN "missing" ELSE IF inside = << >> THEN "stale" ELSE "ok",
         all |-> Suffix(InOrder(inside, LAMBDA x : 0), retained), start |-> now - lookback, end |-> now]

(* trade_window and order_book_sample_window.                                 *)
TradeWindow(md, now, lookback, retained) == Window(md.trades, now, lookback, retained)
SampleWindow(md, now, lookback, retained, min) ==
    LET w == Window(md.samples, now, lookback, retained)
    IN  IF w.status = "ok" /\ Len(w.all) < min THEN [w EXCEPT !.status = "insufficient"] ELSE w

(* order_book_window_stats: over the samples that have both sides.            *)
SampleStats(w, levels, min) ==
    LET stats == SelectSeq([i \in DOMAIN w.all |-> BookStats(w.all[i], levels)], LAMBDA x : x.ok)
        spreads == {stats[i].spread : i \in DOMAIN stats}
    IN  IF w.status # "ok" \/ Len(stats) < min THEN [ok |-> FALSE]
        ELSE [ok |-> TRUE, first |-> Head(stats).midpoint, last |-> Last(stats).midpoint,
              average_spread |-> <<Sum(stats, LAMBDA x : x.spread), Len(stats)>>,
              min_spread |-> MinOf(spreads), max_spread |-> MaxOf(spreads)]

-----------------------------------------------------------------------------
(* market_window_stats_from_window.  The prices are put in order by time,     *)
(* record and price: trades of one message are not in the order of trading.   *)
Priced(s) == InOrder(SelectSeq(s, LAMBDA t : t.price > 0), LAMBDA t : t.price)

(* _twap: each price counts for the time until the next one.  Here trades of  *)
(* one message stay in the order of trading.                                  *)
Twap(s, end) ==
    LET points == InOrder(SelectSeq(s, LAMBDA t : t.price > 0), LAMBDA t : 0)
        until(i) == (IF i < Len(points) THEN points[i + 1].at ELSE end) - points[i].at
        index == [i \in DOMAIN points |-> i]
    IN  <<Sum(index, LAMBDA i : points[i].price * until(i)), Sum(index, until)>>

(* rolling_trade_volume and the volumes of the statistics.                    *)
Volumes(s) ==
    [count |-> Len(s), base |-> Sum(s, LAMBDA t : t.size),
     quote |-> Sum(s, LAMBDA t : t.size * t.price),
     buy |-> Sum(SelectSeq(s, LAMBDA t : t.side = "buy"), LAMBDA t : t.size),
     sell |-> Sum(SelectSeq(s, LAMBDA t : t.side = "sell"), LAMBDA t : t.size),
     invalid |-> Len(SelectSeq(s, LAMBDA t : t.size = 0))]

NoPrice == [open |-> 0, close |-> 0, high |-> 0, low |-> 0, twap |-> <<0, 0>>]
PricesOf(s, end) ==
    LET points == Priced(s)
        prices == {points[i].price : i \in DOMAIN points}
    IN  IF points = << >> THEN NoPrice
        ELSE [open |-> Head(points).price, close |-> Last(points).price,
              high |-> MaxOf(prices), low |-> MinOf(prices), twap |-> Twap(s, end)]
WindowStats(w) == [volumes |-> Volumes(w.all), prices |-> PricesOf(w.all, w.end)]

(* candles: fixed buckets from the start of the window; a trade on a border   *)
(* belongs to the later one, and the last one includes its end.               *)
BucketAllInclusive(w, start, end) ==
    SelectSeq(w.all, LAMBDA t : start <= t.at /\ t.at <= end)

Bucket(w, start, end) ==
    SelectSeq(w.all, LAMBDA t : start <= t.at /\ (t.at < end \/ (t.at = end /\ end = w.end)))

Candles(w, interval) ==
    [i \in 1..((w.end - w.start) \div interval) |->
        LET start == w.start + (i - 1) * interval
            end == start + interval
        IN  WindowStats([all |-> Bucket(w, start, end), end |-> end])]
=============================================================================
