--------------------------- MODULE MCOrderManagers ---------------------------
(* Orders and strategies for the small instances of OrderManagers.            *)
EXTENDS OrderManagers

SeedId(n) == <<"seed", n>>
Open(n, side, size, price) == PlaceOrder(SeedId(n), "initial", SeedId(n), side, size, price)
Chunk(n, l, size, price) == PlaceOrder(SeedId(n), "staged_release", SeedId(l), "buy", size, price)

\* Two orders that can be merged, and split again.
Merging == [strategies |-> <<"consolidation", "split">>,
            seeds |-> <<Open(1, "buy", 2, 2), Open(2, "buy", 2, 2)>>,
            orders |-> 3, trades |-> 1, ticks |-> 0]
\* Two staged chunks of one order, released and moved after the book.
Releasing == [strategies |-> <<"release", "anchor">>,
              seeds |-> <<Chunk(1, 1, 1, 2), Chunk(2, 1, 1, 2)>>,
              orders |-> 0, trades |-> 2, ticks |-> 1]
\* Follow-ups of an order and of its follow-ups, which are split as well.
Following == [strategies |-> <<"followup", "split">>, seeds |-> <<Open(1, "buy", 2, 2)>>,
              orders |-> 4, trades |-> 2, ticks |-> 0]
\* A follow-up is moved, also one whose answer was lost.
Moving == [strategies |-> <<"followup", "anchor">>, seeds |-> <<Open(1, "buy", 2, 2)>>,
           orders |-> 0, trades |-> 1, ticks |-> 1]
AllSetups == {Merging, Releasing, Following, Moving}
\* An order to fill, and a staged one behind the follow-up manager.
FollowupFirst == {[strategies |-> <<"followup", "release">>,
                   seeds |-> <<Open(1, "buy", 2, 2), Chunk(2, 2, 1, 2)>>,
                   orders |-> 0, trades |-> 1, ticks |-> 0]}
=============================================================================
