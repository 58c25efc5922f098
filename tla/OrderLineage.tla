---------------------------- MODULE OrderLineage ----------------------------
(* orders/lineage.py, the lineage part of actions/gateway.py and the order    *)
(* lineage contract of app/ledger_health.py, as operators.  A place command   *)
(* names a logical order (the bot's own identity of an order) and a kind of   *)
(* placement; the gateway validates it against the logical orders replayed    *)
(* from the ledger, and ledger health later judges the records it wrote.      *)
(* Strings that are only carried along (sizes, prices, metadata) are left out *)
(* except the operator approval of a manual association.                      *)
(* (Operators directly before a definition, unused otherwise: its mutants.)   *)
EXTENDS Integers, FiniteSets

CONSTANT NoId               \* a missing identifier (None in the code)

(* What a placement under an existing logical order can be, and what only     *)
(* such a placement can be.                                                   *)
ReplacingKinds == {"amend", "cancel_replace", "release", "staged_release"}
DependentKinds == {"amend", "cancel_replace", "release"}

Opposite(side) == IF side = "buy" THEN "sell" ELSE "buy"

(* LogicalOrderRecord.__post_init__: the shape each relation demands.         *)
ShapeOk(c, approved) ==
    CASE c.relation = "root" ->
           c.root \in {NoId, c.logical} /\ c.parent = NoId /\ c.sources = {}
      [] c.relation = "external_import" -> c.parent = NoId
      [] c.relation \in {"followup_after_fill", "split_child"} ->
           c.root # NoId /\ c.parent # NoId /\ c.sources # {}
      [] c.relation = "consolidation" -> Cardinality(c.sources) >= 2
      [] c.relation = "manual_association" -> c.sources # {} /\ approved

(* LogicalOrderRecord.to_payload: the logical order a command creates.        *)
LogicalOrder(c) ==
    [relation |-> c.relation, root |-> IF c.root = NoId THEN c.logical ELSE c.root,
     parent |-> c.parent, sources |-> c.sources, product |-> c.product,
     side |-> c.side, approved |-> c.approved]

-----------------------------------------------------------------------------
(* _validate_place_order_lineage, against the logical orders known so far     *)
(* (a function from their ids).  The record it tries to build carries no      *)
(* metadata, so no operator approval either.                                  *)
ExistingOk(c, orders) ==
    /\ c.kind \in ReplacingKinds
    /\ orders[c.logical].product = c.product
    /\ orders[c.logical].side = c.side

ChildOk(c, orders) ==
    /\ {c.parent, c.root} \cup c.sources \subseteq DOMAIN orders
    /\ orders[c.parent].product = c.product
    /\ c.relation = "followup_after_fill" <=> orders[c.parent].side # c.side

MergeOk(c, orders) ==
    /\ c.sources \subseteq DOMAIN orders
    /\ \A s \in c.sources : orders[s].product = c.product /\ orders[s].side = c.side

NewOk(c, orders) ==
    /\ c.kind \notin DependentKinds
    /\ ShapeOk(c, FALSE)
    /\ c.relation \in {"followup_after_fill", "split_child"} => ChildOk(c, orders)
    /\ c.relation = "consolidation" => MergeOk(c, orders)

LineageOk(c, orders) ==
    IF c.logical \in DOMAIN orders THEN ExistingOk(c, orders) ELSE NewOk(c, orders)

=============================================================================
