------------------------------- MODULE MCFills --------------------------------
(* Two orders, of one perpetual; others hold a future too.                    *)
EXTENDS Fills

MCOrders == <<[id |-> "o1", product |-> "p", side |-> "buy"],
              [id |-> "o2", product |-> "p", side |-> "sell"]>>
MCVenues == <<"fcm", "intx">>
MCVenueOf == [p |-> "intx", q |-> "fcm"]
MCForeignMoves == {[product |-> "q", by |-> -1]}
=============================================================================
