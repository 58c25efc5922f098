-------------------------- MODULE MCReconciliation --------------------------
(* Commands for the small instances of Reconciliation: an order and its       *)
(* cancellation, or two orders.                                               *)
EXTENDS Reconciliation

Order(id, by) ==
    [id |-> id, type |-> "place", cid |-> id, target |-> id, kind |-> "initial",
     logical |-> id, relation |-> "root", root |-> NoId, parent |-> NoId,
     sources |-> {}, product |-> "P", side |-> "buy", size |-> 1, approved |-> FALSE,
     by |-> by]
Cancel(id, target, by) == [Order(id, by) EXCEPT !.type = "cancel", !.target = target]

OrderAndCancel == {Order("a", Procs), Cancel("c", "a", Procs)}
TwoOrders == {Order("a", Procs), Order("b", Procs)}
=============================================================================
