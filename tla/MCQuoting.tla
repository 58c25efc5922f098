----------------------------- MODULE MCQuoting ------------------------------
(* Instances of Quoting.  Each setup is a question of its own: two            *)
(* connections and a book; a tape of trades over time, on two connections or  *)
(* on one that starts again; the passive strategy with releases and lost      *)
(* answers; pairs; slices.                                                    *)
EXTENDS Quoting

MCPrices == 9..12

Levels(quantities) == [p \in MCPrices |-> quantities[p - 8]]
Level(side, price, quantity) == [side |-> side, price |-> price, quantity |-> quantity]
TradeOf(price, size, side) == [price |-> price, size |-> size, side |-> side]

(* A floor on the notional makes the rest of a quote borrow from its chunk.   *)
MCProduct ==
    [base_increment |-> 1, base_min |-> 1, base_max |-> None, price_increment |-> 1,
     quote_min |-> 36, quote_max |-> None, contract |-> 1, trading_disabled |-> FALSE]

MCPolicy ==
    [products |-> {"P"}, types |-> {"limit"}, sides |-> {"buy", "sell"}, tif |-> "gtc",
     lineage |-> {}, moves |-> FALSE, staged |-> TRUE, allow_release |-> TRUE,
     when_matched |-> TRUE, kill_switch |-> FALSE, max_notional |-> 200, max_daily |-> 400,
     max_open |-> 3, max_visible |-> 126, post_only |-> TRUE, reduce_only |-> FALSE,
     type |-> "limit", leverage |-> 2, half_spread |-> 1000, target |-> 150, max_chunks |-> 3,
     require_book |-> TRUE, max_age |-> 1]

MCBase ==
    [allowed |-> [product |-> {}, type |-> {}, side |-> {}, tif |-> {}, relation |-> {}, kind |-> {}],
     kill_switch |-> FALSE, max_size |-> 12, max_notional |-> None, max_daily |-> 300,
     max_open |-> None, max_leverage |-> 2, max_visible |-> None, post_only |-> FALSE,
     reduce_only |-> FALSE, stage_above |-> FALSE]

Idle ==
    [strategies |-> {}, sources |-> {"a"}, sharing |-> {TRUE}, book |-> [bid |-> Levels(<<0, 1, 0, 0>>),
                                                      ask |-> Levels(<<0, 0, 1, 2>>)],
     changes |-> {}, moves |-> 1, drops |-> 0, losses |-> 0, tape |-> {}, trades |-> 0,
     ticks |-> 0, faults |-> 0, fates |-> 0, product |-> MCProduct, policy |-> MCPolicy, base |-> MCBase,
     size |-> 4, price |-> 10, pair |-> "initial", slices |-> 1, start |-> NoTime]

(* The best ask goes, the best bid moves, levels come back.                   *)
Moves == {<<Level("ask", 11, 0)>>, <<Level("bid", 10, 0), Level("bid", 9, 3)>>,
          <<Level("ask", 11, 2), Level("bid", 10, 1)>>}

TwoConnections == [Idle EXCEPT !.sources = {"a", "b"}, !.sharing = BOOLEAN, !.changes = Moves, !.moves = 3,
                               !.drops = 1, !.losses = 1]
Tape == [Idle EXCEPT !.sources = {"a", "b"}, !.sharing = {FALSE}, !.trades = 3, !.ticks = 2,
                     !.tape = {TradeOf(10, 1, "buy"), TradeOf(12, 2, "sell")}]
TapeAgain == [Tape EXCEPT !.sources = {"a"}, !.drops = 1, !.tape = @ \cup {TradeOf(0, 1, "buy")}]
Passive == [Idle EXCEPT !.strategies = {"passive", "release"}, !.changes = Moves, !.moves = 2,
                        !.ticks = 1, !.faults = 1, !.fates = 2]
(* The configuration allows less than the policy: sells are refused.          *)
Strict == [Passive EXCEPT !.base = [MCBase EXCEPT !.allowed.side = {"buy"}],
                          !.moves = 1]
Pair == [Idle EXCEPT !.strategies = {"pair", "release"}, !.changes = Moves, !.moves = 2, !.faults = 1,
                     !.fates = 1]
StagedPair == [Pair EXCEPT !.pair = "staged_release", !.size = 12]
SlicedOrder == [Idle EXCEPT !.strategies = {"slices"}, !.size = 12, !.slices = 3, !.ticks = 3, !.faults = 1]

MCSetups == {TwoConnections, Tape, TapeAgain, Passive, Strict, Pair, StagedPair, SlicedOrder, [SlicedOrder EXCEPT !.start = 1]}
=============================================================================
