---------------------------- MODULE MCAuditCore ----------------------------
EXTENDS AuditCore

Message(id, relation, event, repeatable) ==
    [id |-> id, kind |-> "message", relation |-> relation, event |-> event,
     repeatable |-> repeatable, target |-> 0]
Timed(id, relation, target, repeatable) ==
    [id |-> id, kind |-> "time", relation |-> relation, event |-> AnyEvent,
     repeatable |-> repeatable, target |-> target]

(* One rule of each sort: both relations, one-shot and repeatable.            *)
MixedRules == << Message("before", "before", "data", TRUE),
                 Message("after", "after", "data", TRUE),
                 Message("on_once", "on", AnyEvent, FALSE),
                 Timed("timer", "after", 0, FALSE) >>
=============================================================================
