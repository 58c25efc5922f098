----------------------------- MODULE MCGateway ------------------------------
(* Commands for the small instances of ActionGateway.                         *)
EXTENDS ActionGateway

Placing(id, cid, kind, logical) ==
    [id |-> id, type |-> "place", cid |-> cid, target |-> cid, kind |-> kind,
     logical |-> logical, relation |-> "root", root |-> NoId, parent |-> NoId,
     sources |-> {}, product |-> "P", side |-> "buy", size |-> 1, approved |-> FALSE,
     by |-> Procs]
Cancelling(id, target) == [Placing(id, target, "initial", id) EXCEPT !.type = "cancel"]

\* Two orders with the same idempotency key, a staged placement and its release,
\* and a cancellation of what the key names.
AloneCommands == {Placing("a", "k", "initial", "a"), Placing("b", "k", "initial", "b"),
                  Placing("s", "s", "staged_release", "s"), Placing("r", "r", "release", "s"),
                  Cancelling("x", "k")}
=============================================================================
