-------------------------- MODULE MCLiveOperation ---------------------------
EXTENDS LiveOperation

(* Two live configurations, the second without strategies, one that is not    *)
(* fit to go live, and a dry one.                                             *)
A == [NoConfig EXCEPT !.name = "A", !.live = TRUE, !.strategy = TRUE, !.catalog = TRUE]
B == [A EXCEPT !.name = "B", !.strategy = FALSE]
Unfit == [A EXCEPT !.name = "unfit", !.failing = {"risk_policy"}, !.missing = {"risk_policy"}]
Dry == [A EXCEPT !.name = "dry", !.live = FALSE]

Command(id, kind, config, allow) == [id |-> id, kind |-> kind, config |-> config, allow |-> allow]

(* The ledger of an operator who went through the preflight for A.            *)
Prepared ==
    <<[type |-> "products"], Started("feed", A), Stopped("feed"), Started("exchange", A),
      Stopped("exchange"),
      [type |-> "preflight", config |-> A, statuses |-> <<"ok", "ok", "ok", "ok">>,
       completed |-> Steps, skipped |-> << >>, status |-> "ok", stopped |-> ""],
      [type |-> "simulation", config |-> A, strategies |-> 2, completed |-> 2, failed |-> 0,
       rejected |-> 0, status |-> "ok"]>>

(* Getting started; changing the configuration; runs with trouble inside, one *)
(* by one or for as long as nobody stops them; a start beside a failing smoke *)
(* and its review; and smokes with trouble.                                   *)
Setup(prior, tasks, limit, raises, outages, commands) ==
    [log |-> prior, tasks |-> tasks, limit |-> limit, faults |-> raises, outages |-> outages,
     cycles |-> 3, todo |-> commands]
MCSetups ==
    {Setup(<< >>, <<"catalog">>, 1, 0, 1,
           {Command(1, "preflight", A, FALSE), Command(2, "simulate", A, FALSE),
            Command(3, "acknowledge", A, FALSE), Command(4, "start", A, FALSE)}),
     Setup(Prepared, <<"catalog">>, 1, 0, 0,
           {Command(1, "preflight", B, TRUE), Command(2, "start", B, FALSE)}),
     Setup(Prepared, <<"catalog", "strategy">>, 2, 1, 0,
           {Command(1, "start", A, FALSE), Command(2, "start", A, FALSE),
            Command(3, "acknowledge", A, FALSE)}),
     Setup(Prepared, <<"catalog", "strategy">>, 0, 0, 1,
           {Command(1, "start", A, FALSE), Command(2, "catalog", A, FALSE),
            Command(3, "preflight", B, FALSE)}),
     Setup(Prepared, <<"catalog">>, 1, 0, 1,
           {Command(1, "start", A, FALSE), Command(2, "catalog", A, FALSE),
            Command(3, "acknowledge", A, FALSE)}),
     Setup(<< >>, <<"catalog">>, 1, 1, 1,
           {Command(1, "feed", A, FALSE), Command(2, "feed", B, FALSE)}),
     Setup(<< >>, <<"catalog">>, 1, 0, 1,
           {Command(1, "exchange", A, FALSE), Command(2, "start", Dry, FALSE),
            Command(3, "preflight", Unfit, FALSE), Command(4, "start", Unfit, FALSE)})}
=============================================================================
