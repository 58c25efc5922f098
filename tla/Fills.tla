------------------------------- MODULE Fills --------------------------------
(* Fill reconciliation and exchange-state reconciliation against a venue that *)
(* trades meanwhile: fills are looked up page by page, newest first, and the  *)
(* replayed positions are compared with the venue's.  Both are tasks of the   *)
(* runtime, which runs one at a time; the exchange-state-smoke command runs   *)
(* the second in a process of its own, on the same ledger.  Each may fail     *)
(* anywhere.                                                                  *)
(* (Operators directly before a definition, unused otherwise: its mutants.)   *)
EXTENDS Integers, FiniteSets, SequencesExt

CONSTANTS
    Procs,          \* the processes on the ledger
    Runtime,        \* the one that runs both tasks; any other runs the smoke
    Orders,         \* the live orders with an exchange id, oldest first: [id, product, side]
    Products,       \* position_product_ids
    Venues,         \* whose positions are looked up: <<"fcm">>, with a perpetual
                    \*   portfolio <<"fcm", "intx">>
    VenueOf,        \* the venue of each product
    Tolerance,      \* position_size_tolerance
    Limit,          \* fills per page
    MaxPages,       \* max_pages_per_order
    AccountPages,   \* how many pages of accounts there are
    MaxAttempts,    \* of one request
    MaxTrades,      \* bound on what the venue trades
    MaxForeign,     \* bound on changes of positions that are not the bot's
    ForeignMoves,   \* what one of them may be: [product, by]
    MaxTrouble,     \* bound on failing requests, raising emissions and kills
    MaxPasses       \* bound on the runs of either task

ASSUME OrdersAssumption ==
    /\ Orders \in Seq(ToSet(Orders)) /\ Orders # << >>
    /\ \A i \in DOMAIN Orders : Orders[i].side \in {"buy", "sell"}
ASSUME PageAssumption == Limit \in Nat \ {0} /\ AccountPages \in Nat \ {0}
ASSUME ToleranceAssumption == Tolerance \in Nat
ASSUME ForeignAssumption == ForeignMoves \subseteq [product : Products, by : Int]
ASSUME VenueAssumption ==
    /\ Venues \in {<<"fcm">>, <<"fcm", "intx">>}
    /\ \A p \in Products : VenueOf[p] \in ToSet(Venues)
ASSUME RuntimeAssumption == Runtime \in Procs

VARIABLES
    trades,     \* what the venue executed for the bot: [id, order, size: 1], oldest first
    foreign,    \* positions of other origin, by product
    ledger,     \* the records that are read again: fills and drifts
    task,       \* the task each process runs
    bound,      \* how much happened: [foreign, trouble, passes]
    caught,     \* how many trades the last complete pass had before it
    compared    \* what stood when the last complete comparison was made

fvars == <<trades, foreign, ledger, task, bound, caught, compared>>
venue == <<trades, foreign>>
history == <<caught, compared>>
Never == << >>

Idle == [pc |-> "idle"]

FInit ==
    /\ trades = << >> /\ foreign = [p \in Products |-> 0] /\ ledger = << >>
    /\ task = [p \in Procs |-> Idle]
    /\ bound = [foreign |-> 0, trouble |-> 0, passes |-> 0]
    /\ caught = 0 /\ compared = Never

-----------------------------------------------------------------------------
(* The projection, from the records.                                          *)
Abs(n) == IF n < 0 THEN -n ELSE n
OrderIds == {Orders[i].id : i \in DOMAIN Orders}
OrderOf(id) == Orders[CHOOSE i \in DOMAIN Orders : Orders[i].id = id]
Signed(side, size) == IF side = "buy" THEN size ELSE -size

(* _apply_exchange_fill, _apply_fill_to_position, _apply_fill_to_order.       *)
ApplyFill(p, f) ==
    IF f.id \in p.ids THEN p
    ELSE [ids |-> p.ids \cup {f.id},
          net |-> [p.net EXCEPT ![f.product] = @ + Signed(f.side, f.size)],
          filled |-> [p.filled EXCEPT ![f.order] = @ + f.size]]
ApplyRecord(p, r) == IF r.type = "fill" THEN ApplyFill(p, r) ELSE p
NoFills == [ids |-> {}, net |-> [p \in Products |-> 0], filled |-> [o \in OrderIds |-> 0]]
Projection(l) == FoldLeft(ApplyRecord, NoFills, l)

(* _apply_reconciliation_drift, by _drift_key.                                *)
Key(d) == [issue |-> d.issue, venue |-> d.venue, product |-> d.product, bot |-> d.bot, exchange |-> d.exchange]
DriftKeys(l) == {Key(r) : r \in {x \in ToSet(l) : x.type = "drift"}}

(* The venue's: the trades of an order, how many of them are newer than one,  *)
(* and its positions without zeros.                                           *)
TradesOf(order) == {t \in ToSet(trades) : t.order = order}
Newer(t) == Cardinality({u \in TradesOf(t.order) : u.id > t.id})
Traded(p, side) ==
    {t \in ToSet(trades) : OrderOf(t.order).product = p /\ OrderOf(t.order).side = side}
NetOf(p) == foreign[p] + Cardinality(Traded(p, "buy")) - Cardinality(Traded(p, "sell"))
(* list_us_futures_positions, list_perpetual_positions: contracts with a      *)
(* side, made a signed size.                                                  *)
VenuePositions(v) == {[product |-> p, contracts |-> Abs(NetOf(p)),
                       side |-> IF NetOf(p) > 0 THEN "LONG" ELSE "SHORT"] :
                          p \in {q \in Products : VenueOf[q] = v /\ NetOf(q) # 0}}
SignedSize(v) == IF v.side = "SHORT" THEN -v.contracts ELSE v.contracts
ActualPositions(v) == {[product |-> a.product, size |-> SignedSize(a)] : a \in VenuePositions(v)}

-----------------------------------------------------------------------------
(* Emissions, of which those are kept that are read again: no reader here     *)
(* tells snapshots, retries and errors.  What may go wrong in a step.         *)
Recorded(r) == IF r.type \in {"fill", "drift"} THEN Append(ledger, r) ELSE ledger
Emits(r) == ledger' = Recorded(r) /\ UNCHANGED bound
Troubles == /\ bound.trouble < MaxTrouble
            /\ bound' = [bound EXCEPT !.trouble = @ + 1]
Becomes(p, t) == task' = [task EXCEPT ![p] = t]
(* An emission that raises ends the task, its record written or not.          *)
Fails(p, r) == /\ Troubles /\ Becomes(p, Idle)
               /\ ledger' \in {ledger, Recorded(r)}
Error == [type |-> "error"]

Starts(p, t) == /\ task[p].pc = "idle" /\ bound.passes < MaxPasses
                /\ bound' = [bound EXCEPT !.passes = @ + 1]
                /\ Becomes(p, t)

(* _request: a retryable answer or exception is recorded, and tried again.    *)
Retry(p) == /\ task[p].pc \in {"page", "accounts", "positions"} /\ task[p].attempt < MaxAttempts
            /\ Troubles
            /\ Becomes(p, [task[p] EXCEPT !.attempt = @ + 1])
            /\ ledger' = Recorded([type |-> "retry"])
            /\ UNCHANGED <<venue, history>>

(* The last exception of a request ends the task; so does the process.        *)
TaskDies(p) == /\ task[p].pc # "idle" /\ Troubles
               /\ Becomes(p, Idle)
               /\ UNCHANGED <<venue, history, ledger>>

-----------------------------------------------------------------------------
(* FillReconciliation.reconcile: the fills on record are read once.           *)
StartFills ==
    /\ Starts(Runtime, [pc |-> "page", order |-> 1, page |-> 0, seen |-> Projection(ledger).ids,
                        rest |-> {}, more |-> FALSE, attempt |-> 1, clean |-> TRUE,
                        before |-> Len(trades)])
    /\ UNCHANGED <<venue, history, ledger>>

Pass == task[Runtime]
Asked == Orders[Pass.order].id
NextOrder(clean) ==
    IF Pass.order < Len(Orders)
    THEN /\ Becomes(Runtime, [Pass EXCEPT !.pc = "page", !.order = @ + 1, !.page = 0,
                                          !.attempt = 1, !.clean = clean])
         /\ UNCHANGED caught
    ELSE /\ Becomes(Runtime, Idle)
         /\ caught' = IF clean THEN Pass.before ELSE caught

(* list_fills: a page, newest first, and whether there is another; perhaps,   *)
(* by the venue's mistake, with a fill of another order.                      *)
ListFills(order, page) ==
    LET from == page * Limit
    IN  [fills |-> {t \in TradesOf(order) : from <= Newer(t) /\ Newer(t) < from + Limit},
         more |-> Cardinality(TradesOf(order)) > from + Limit]

LookUpPage ==
    LET found == ListFills(Asked, Pass.page)
        stray == {t \in ToSet(trades) : t.order # Asked}
    IN  /\ Pass.pc = "page"
        /\ \E p \in {found.fills} \cup {found.fills \cup {t} : t \in stray} :
             /\ Becomes(Runtime, [Pass EXCEPT !.pc = "emit", !.rest = p, !.more = found.more,
                                              !.attempt = 1])
             /\ IF p = found.fills THEN UNCHANGED bound ELSE Troubles
        /\ UNCHANGED <<venue, history, ledger>>

(* The lookup failed for good: recorded, and on to the next order.            *)
LookUpPageFails ==
    /\ Pass.pc = "page" /\ Troubles
    /\ ledger' = Recorded(Error)
    /\ NextOrder(FALSE)
    /\ UNCHANGED <<venue, compared>>

RememberNothing(id) == Pass.seen
RememberFill(id) == Pass.seen \cup {id}
Astray(f) == f.order # Asked

FillRecord(f) == [type |-> "fill", id |-> f.id, order |-> f.order, action |-> Asked,
                  product |-> OrderOf(f.order).product, side |-> OrderOf(f.order).side,
                  size |-> f.size]

(* The fills of a page, in whatever order the venue lists them.               *)
EmitFill ==
    /\ Pass.pc = "emit"
    /\ \E f \in Pass.rest :
         LET on == [Pass EXCEPT !.rest = @ \ {f}]
             new == f.id \notin Pass.seen
         IN  \/ ~new /\ Becomes(Runtime, on) /\ UNCHANGED <<ledger, bound>>
             \/ new /\ Astray(f) /\ Emits(Error) /\ Becomes(Runtime, on)
             \/ new /\ ~Astray(f) /\ Emits(FillRecord(f))
                /\ Becomes(Runtime, [on EXCEPT !.seen = RememberFill(f.id)])
             \/ new /\ ~Astray(f) /\ Fails(Runtime, FillRecord(f))
    /\ UNCHANGED <<venue, history>>

(* The next page, the next order, or too many pages.                          *)
PageDone ==
    /\ Pass.pc = "emit" /\ Pass.rest = {}
    /\ \/ /\ ~Pass.more /\ NextOrder(Pass.clean)
          /\ UNCHANGED <<ledger, bound>>
       \/ /\ Pass.more /\ Pass.page + 1 < MaxPages
          /\ Becomes(Runtime, [Pass EXCEPT !.pc = "page", !.page = @ + 1])
          /\ UNCHANGED <<ledger, bound, caught>>
       \/ /\ Pass.more /\ Pass.page + 1 = MaxPages
          /\ Emits(Error) /\ NextOrder(FALSE)
    /\ UNCHANGED <<venue, compared>>

-----------------------------------------------------------------------------
(* ExchangeStateReconciliation.reconcile: the projection is read first, and   *)
(* not again.                                                                 *)
StartExchangeState(p) ==
    /\ Starts(p, [pc |-> "accounts", page |-> 1, attempt |-> 1, looks |-> << >>,
                  bot |-> Projection(ledger).net, fills |-> Projection(ledger).ids,
                  keys |-> DriftKeys(ledger), since |-> Len(ledger)])
    /\ UNCHANGED <<venue, history, ledger>>

(* _snapshot_accounts: pages of balances; a failed lookup, too many pages or  *)
(* a page without its cursor stops the accounts alone.                        *)
SnapshotAccounts(p) ==
    LET on == [task[p] EXCEPT !.pc = "positions", !.attempt = 1]
    IN  /\ task[p].pc = "accounts"
        /\ \/ /\ Emits([type |-> "balance"])
              /\ Becomes(p, IF task[p].page = AccountPages THEN on
                            ELSE [task[p] EXCEPT !.page = @ + 1, !.attempt = 1])
           \/ Troubles /\ ledger' = Recorded(Error) /\ Becomes(p, on)
           \/ Fails(p, [type |-> "balance"])
        /\ UNCHANGED <<venue, history>>

(* _position_lookups: one request after the other; what stood at the venue    *)
(* when each was answered is kept for the properties.                         *)
Look(v, found) == [found |-> found, positions |-> IF found THEN ActualPositions(v) ELSE {},
                   trades |-> Len(trades), foreign |-> foreign]
LookUpPositions(p) ==
    LET n == Len(task[p].looks) + 1
    IN  /\ task[p].pc = "positions"
        /\ \E found \in BOOLEAN :
             /\ IF found THEN UNCHANGED bound ELSE Troubles
             /\ Becomes(p, [task[p] EXCEPT !.looks = Append(@, Look(Venues[n], found)),
                                           !.pc = IF n = Len(Venues) THEN "snapshots" ELSE "positions",
                                           !.page = 1, !.attempt = 1])
        /\ UNCHANGED <<venue, history, ledger>>

(* _audit_position_drifts, product by product.                                *)
Drift(issue, v, p, bot, exchange) ==
    [type |-> "drift", issue |-> issue, venue |-> v, product |-> p, bot |-> bot,
     exchange |-> exchange]
DriftsOfListed(bot, positions) ==
    {Drift("bot_position_missing", VenueOf[a.product], a.product, 0, a.size) :
        a \in {x \in positions : bot[x.product] = 0}}
    \cup {Drift("position_size_drift", VenueOf[a.product], a.product, bot[a.product], a.size) :
        a \in {x \in positions : /\ bot[x.product] # 0
                                 /\ Abs(bot[x.product] - x.size) > Tolerance}}
DriftsOfNoneMissing(bot, positions) == {}
DriftsOfMissing(bot, positions) ==
    {Drift("exchange_position_missing", "unknown", p, bot[p], 0) :
        p \in {q \in Products : bot[q] # 0 /\ \A a \in positions : a.product # q}}
(* With what the properties ask of a record: who made it, how long the ledger *)
(* was when that pass read it, whether every trade of the lookup was on       *)
(* record then, and what others held.                                         *)
LookOf(t, p) == t.looks[CHOOSE i \in DOMAIN Venues : Venues[i] = VenueOf[p]]
Annotated(d, by, t) ==
    [type |-> d.type, issue |-> d.issue, venue |-> d.venue, product |-> d.product, bot |-> d.bot,
     exchange |-> d.exchange, by |-> by, since |-> t.since,
     told |-> t.fills = 1..LookOf(t, d.product).trades,
     foreign |-> LookOf(t, d.product).foreign[d.product]]
Compare(by, t) ==
    LET positions == UNION {t.looks[i].positions : i \in DOMAIN t.looks}
    IN  {Annotated(d, by, t) :
           d \in DriftsOfListed(t.bot, positions) \cup DriftsOfMissing(t.bot, positions)}

(* _snapshot_positions: lookup by lookup, its snapshots; a lookup that failed *)
(* or an invalid snapshot is an error.  With an error nothing is compared.    *)
Snapped(p, looks) ==
    LET on == [task[p] EXCEPT !.looks = looks]
    IN  IF on.page < Len(Venues) THEN [on EXCEPT !.page = @ + 1]
        ELSE IF \E i \in DOMAIN looks : ~looks[i].found THEN Idle
        ELSE [pc |-> "drifts", todo |-> Compare(p, on), keys |-> on.keys,
              since |-> on.since, before |-> [fills |-> on.fills, looks |-> looks]]
SnapshotPositions(p) ==
    LET n == task[p].page
        looks == task[p].looks
    IN  /\ task[p].pc = "snapshots"
        /\ \/ /\ looks[n].found
              /\ Emits([type |-> "position"]) /\ Becomes(p, Snapped(p, looks))
           \/ /\ ~looks[n].found
              /\ Emits(Error) /\ Becomes(p, Snapped(p, looks))
           \/ /\ Troubles /\ ledger' = Recorded(Error)
              /\ Becomes(p, Snapped(p, [looks EXCEPT ![n].found = FALSE]))
           \/ Fails(p, [type |-> "position"])
        /\ UNCHANGED <<venue, history>>

(* _emit_drift: a drift that was on record under its key when the ledger was  *)
(* read is not recorded again.                                                *)
OnRecord(p, d) == Key(d) \in task[p].keys
EmitDrift(p) ==
    /\ task[p].pc = "drifts" /\ task[p].todo # {}
    /\ \E d \in task[p].todo :
         LET on == [task[p] EXCEPT !.todo = @ \ {d}]
         IN  \/ OnRecord(p, d) /\ Becomes(p, on) /\ UNCHANGED <<ledger, bound>>
             \/ ~OnRecord(p, d) /\ Emits(d) /\ Becomes(p, on)
             \/ ~OnRecord(p, d) /\ Fails(p, d)
    /\ UNCHANGED <<venue, history>>

DriftsDone(p) ==
    /\ task[p].pc = "drifts" /\ task[p].todo = {}
    /\ Becomes(p, Idle)
    /\ compared' = task[p].before
    /\ UNCHANGED <<venue, ledger, bound, caught>>

-----------------------------------------------------------------------------
(* The venue.                                                                 *)
Trade == /\ Len(trades) < MaxTrades
         /\ \E i \in DOMAIN Orders :
              trades' = Append(trades, [id |-> Len(trades) + 1, order |-> Orders[i].id, size |-> 1])
         /\ UNCHANGED <<foreign, ledger, task, bound, history>>
ForeignChange ==
    /\ bound.foreign < MaxForeign /\ bound' = [bound EXCEPT !.foreign = @ + 1]
    /\ \E move \in ForeignMoves : foreign' = [foreign EXCEPT ![move.product] = @ + move.by]
    /\ UNCHANGED <<trades, ledger, task, history>>

FNext ==
    \/ Trade \/ ForeignChange
    \/ StartFills \/ LookUpPage \/ LookUpPageFails \/ EmitFill \/ PageDone
    \/ \E p \in Procs : \/ StartExchangeState(p) \/ SnapshotAccounts(p) \/ LookUpPositions(p)
                        \/ SnapshotPositions(p) \/ EmitDrift(p) \/ DriftsDone(p)
                        \/ Retry(p) \/ TaskDies(p)

FSpec == FInit /\ [][FNext]_fvars

-----------------------------------------------------------------------------
(* _exchange_fill_contract_check of ledger health.                            *)
FillContract(r) ==
    \E i \in DOMAIN Orders : /\ Orders[i].id = r.order /\ r.action = r.order
                             /\ Orders[i].product = r.product /\ Orders[i].side = r.side

(* Whatever overlaps, fails or is repeated, each fill is on record once, for  *)
(* the order that traded, the replayed sizes are those of the trades on       *)
(* record, and a pass without errors leaves no trade behind that was made     *)
(* before it began.                                                           *)
FillsExact ==
    LET fills == {i \in DOMAIN ledger : ledger[i].type = "fill"}
        known == {ledger[i].id : i \in fills}
    IN  /\ \A i, j \in fills : ledger[i].id = ledger[j].id => i = j
        /\ \A i \in fills :
             LET f == ledger[i]
             IN  /\ FillContract(f) /\ f.id \in DOMAIN trades
                 /\ trades[f.id] = [id |-> f.id, order |-> f.order, size |-> f.size]
        /\ \A o \in OrderIds :
             Projection(ledger).filled[o] = Cardinality({k \in known : trades[k].order = o})
        /\ 1..caught \subseteq known

(* A comparison was of what stands for the product p: the fills it replayed   *)
(* are those on record, and the venue has not moved since its lookup.         *)
Stands(p) ==
    /\ compared # Never /\ compared.fills = Projection(ledger).ids
    /\ LookOf(compared, p).trades = Len(trades) /\ LookOf(compared, p).foreign = foreign

(* Whoever reconciles at the same time, a difference of positions is recorded *)
(* again only by another process, one that had read the ledger before the     *)
(* first record was there; it is recorded truly: with every trade of the      *)
(* lookup on record it is the position someone else holds; and a comparison   *)
(* leaves no difference unrecorded of what stood when it was made.            *)
DriftsTold ==
    LET drifts == {r \in ToSet(ledger) : r.type = "drift"}
    IN  /\ \A i, j \in DOMAIN ledger :
             /\ ledger[i].type = "drift" /\ ledger[j].type = "drift"
             /\ Key(ledger[i]) = Key(ledger[j]) /\ i < j
             => ledger[i].by # ledger[j].by /\ ledger[j].since < i
        /\ \A d \in drifts : d.told => d.exchange - d.bot = d.foreign
        /\ \A p \in Products : Stands(p) =>
             LET bot == Projection(ledger).net[p]
             IN  Abs(bot - NetOf(p)) > Tolerance =>
                   \E d \in drifts : d.product = p /\ d.bot = bot /\ d.exchange = NetOf(p)
=============================================================================
