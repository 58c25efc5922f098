---------------------------- MODULE AppendOnlyLog ----------------------------
(* What audit/ledger.py promises the rest of StateRail: one totally ordered   *)
(* log of payloads that only grows, one payload at a time, and readers that   *)
(* see a prefix of it and never an older prefix than the one they saw before. *)
(* A caller that is told its append succeeded finds the payload at the        *)
(* position it was given, for ever.                                           *)
EXTENDS Naturals, Sequences

CONSTANTS Procs,      \* the AuditLedger instances, one per process
          Payloads    \* what callers append (an event type with its payload)

VARIABLES log,        \* the payloads, in ledger order
          view,       \* view[p]: what p's last snapshot returned
          acked       \* the <<sequence, payload>> pairs appends have returned

vars == <<log, view, acked>>

Init == /\ log = << >>
        /\ view = [p \in Procs |-> << >>]
        /\ acked = {}

(* A payload becomes part of the log; its caller may never hear of it.        *)
Commit(e) == /\ log' = Append(log, e)
             /\ UNCHANGED <<view, acked>>

(* The caller is told the position of a payload that is in the log.           *)
Acknowledge == /\ \E i \in DOMAIN log : acked' = acked \cup {<<i, log[i]>>}
               /\ UNCHANGED <<log, view>>

(* A snapshot returns the log as it is.                                       *)
Read(p) == /\ view' = [view EXCEPT ![p] = log]
           /\ UNCHANGED <<log, acked>>

Next == \/ \E e \in Payloads : Commit(e)
        \/ Acknowledge
        \/ \E p \in Procs : Read(p)

Spec == Init /\ [][Next]_vars
=============================================================================
