----------------------------- MODULE OrderRules -----------------------------
(* What an order may look like, as pure operators: products/catalog.py and    *)
(* strategies/product_rules.py (the venue's rules of a product),              *)
(* strategies/execution_plans.py (prices), orders/sizing.py (chunks), and     *)
(* risk/gate.py with the limits that config/assembly.py puts together.        *)
(* A Decimal is an integer in the smallest unit of its kind; a quotient that  *)
(* is still to be rounded is a pair <<numerator, denominator>>.               *)
(* (Operators directly before a definition, unused otherwise: its mutants.)   *)
EXTENDS Integers, FiniteSets, SequencesExt

None == 0                       \* a limit that is not set; {} a list that is not
BpsDenominator == 10000

Within(x, min, max) == x >= min /\ (max # None => x <= max)
Least(a, b) == IF a = None THEN b ELSE IF b = None THEN a ELSE IF a < b THEN a ELSE b
Most(a, b) == IF a > b THEN a ELSE b

-----------------------------------------------------------------------------
(* ProductMetadata.                                                           *)
Multiple(x, increment) == increment = None \/ x % increment = 0
SizeIsValid(product, size) ==
    /\ size \in Int                \* what does not parse is None, and not valid
    /\ Within(size, product.base_min, product.base_max) /\ Multiple(size, product.base_increment)
PriceIsValid(product, price) == price \in Int /\ Multiple(price, product.price_increment)
Notional(product, size, price) == size * price * product.contract
NotionalIsValid(product, size, price) ==
    Within(Notional(product, size, price), product.quote_min, product.quote_max)
Tradable(product) == ~product.trading_disabled

(* _floor_to_increment, _ceil_to_increment and _round_to_increment.           *)
FloorTo(q, increment) == (q[1] \div (q[2] * increment)) * increment
CeilTo(q, increment) ==
    LET floor == FloorTo(q, increment) IN IF floor * q[2] = q[1] THEN floor ELSE floor + increment
RoundTo(q, increment, mode) == IF mode = "down" THEN FloorTo(q, increment) ELSE CeilTo(q, increment)

(* minimum_valid_size at a reference price.                                   *)
MinimumSize(product, price) ==
    Most(CeilTo(<<product.base_min, 1>>, product.base_increment),
         CeilTo(<<product.quote_min * price[2], price[1] * product.contract>>,
                product.base_increment))

(* validate_order_size, validate_limit_price and validate_notional: positive, *)
(* and by the rules.                                                          *)
OrderSizeOk(product, size) == size > 0 /\ SizeIsValid(product, size)
LimitPriceOk(product, price) == price > 0 /\ PriceIsValid(product, price)
OrderNotionalOk(product, size, price) ==
    size > 0 /\ price > 0 /\ NotionalIsValid(product, size, price)

-----------------------------------------------------------------------------
(* quote_pair_prices: the bid is rounded away from the midpoint, down, and    *)
(* the ask up.  NoPrices when a price is not positive or the pair is crossed. *)
NoPrices == [bid |-> None, ask |-> None]

QuotePairPrices(product, midpoint, spread) ==
    LET at(bps, mode) == RoundTo(<<midpoint[1] * bps, midpoint[2] * 2 * BpsDenominator>>,
                                 product.price_increment, mode)
        bid == at(2 * BpsDenominator - spread, "down")
        ask == at(2 * BpsDenominator + spread, "up")
    IN  IF LimitPriceOk(product, bid) /\ LimitPriceOk(product, ask) /\ bid < ask
        THEN [bid |-> bid, ask |-> ask] ELSE NoPrices

-----------------------------------------------------------------------------
(* LineageSizingPolicy.staged_release_sizes: the chunks of an order, none of  *)
(* them above the visible cap.  << >> is a rejected decision.                 *)
MaximumRelease(product, price, visible) ==
    LET cap == FloorTo(<<visible, price * product.contract>>, product.base_increment)
        max == FloorTo(<<product.base_max, 1>>, product.base_increment)
    IN  IF product.base_max # None /\ max < cap THEN max ELSE cap
MinimumRelease(product, price) == MinimumSize(product, <<price, 1>>)
ReleaseOk(product, size, price, visible) ==
    /\ SizeIsValid(product, size) /\ NotionalIsValid(product, size, price)
    /\ Notional(product, size, price) <= visible

(* A rest that is too small borrows from the chunk before it.                 *)
RebalancedDropped(product, chunks, rest, price, visible) == chunks

Rebalanced(product, chunks, rest, price, visible) ==
    LET final == CeilTo(<<Most(rest, MinimumRelease(product, price)), 1>>, product.base_increment)
        previous == Last(chunks) - (final - rest)
    IN  IF /\ final > rest
           /\ ReleaseOk(product, previous, price, visible) /\ ReleaseOk(product, final, price, visible)
        THEN Front(chunks) \o <<previous, final>> ELSE << >>

StagedOutputs(product, total, price, visible) ==
    LET max == MaximumRelease(product, price, visible)
        full == (total - 1) \div max            \* chunks while more than max remains
        chunks == [i \in 1..full |-> max]
        rest == total - full * max
    IN  IF full = 0 THEN <<total>>
        ELSE IF ReleaseOk(product, rest, price, visible) THEN Append(chunks, rest)
        ELSE Rebalanced(product, chunks, rest, price, visible)

(* _evaluate_output_sizes.                                                    *)
OutputsOk(product, sizes, price) ==
    /\ PriceIsValid(product, price)
    /\ \A i \in DOMAIN sizes : SizeIsValid(product, sizes[i]) /\ NotionalIsValid(product, sizes[i], price)

StagedReleaseSizes(product, total, price, visible, count) ==
    LET max == MaximumRelease(product, price, visible)
        sizes == IF max = 0 \/ max < MinimumRelease(product, price) THEN << >>
                 ELSE StagedOutputs(product, total, price, visible)
    IN  IF /\ Len(sizes) <= count
           /\ \A i \in DOMAIN sizes : Notional(product, sizes[i], price) <= visible
           /\ OutputsOk(product, sizes, price)
        THEN sizes ELSE << >>

(* scheduled_slice_sizes: equal slices, or none.                              *)
SliceSizes(product, slices, total) ==
    LET size == total \div slices
    IN  IF size * slices = total /\ OrderSizeOk(product, size) THEN [i \in 1..slices |-> size]
        ELSE << >>

-----------------------------------------------------------------------------
(* The limits of the operator's policy (to_risk_policy_config), and the       *)
(* limits in force: what the configuration and the operator's policy both     *)
(* allow.  Without overlap of two lists the runtime does not start.           *)
PlacementKinds(policy) ==
    {"initial"} \cup (IF policy.moves THEN {"amend", "cancel_replace"} ELSE {})
                \cup (IF policy.staged THEN {"staged_release"} ELSE {})
                \cup (IF policy.staged /\ policy.allow_release THEN {"release"} ELSE {})
LineageRelations(policy) == {"root"} \cup policy.lineage

Lists == {"product", "type", "side", "tif", "relation", "kind"}

OperatorLimits(policy) ==
    [allowed |-> [product |-> policy.products, type |-> policy.types, side |-> policy.sides,
                  tif |-> {policy.tif}, relation |-> LineageRelations(policy),
                  kind |-> PlacementKinds(policy)],
     kill_switch |-> policy.kill_switch, max_size |-> None, max_notional |-> policy.max_notional,
     max_daily |-> policy.max_daily, max_open |-> policy.max_open, max_leverage |-> None,
     max_visible |-> policy.max_visible, post_only |-> policy.post_only,
     reduce_only |-> policy.reduce_only, stage_above |-> policy.staged /\ policy.when_matched]

IntersectOrSelect(base, overlay) ==
    IF base = {} THEN overlay ELSE IF overlay = {} THEN base ELSE base \cap overlay
Overlap(base, overlay) ==
    \A l \in Lists : base.allowed[l] # {} /\ overlay.allowed[l] # {}
                       => base.allowed[l] \cap overlay.allowed[l] # {}

OverlayLimits(base, overlay) == overlay

EffectiveLimits(base, overlay) ==
    [allowed |-> [l \in Lists |-> IntersectOrSelect(base.allowed[l], overlay.allowed[l])],
     kill_switch |-> base.kill_switch \/ overlay.kill_switch,
     max_size |-> Least(base.max_size, overlay.max_size),
     max_notional |-> Least(base.max_notional, overlay.max_notional),
     max_daily |-> Least(base.max_daily, overlay.max_daily),
     max_open |-> Least(base.max_open, overlay.max_open),
     max_leverage |-> Least(base.max_leverage, overlay.max_leverage),
     max_visible |-> Least(base.max_visible, overlay.max_visible),
     post_only |-> base.post_only \/ overlay.post_only,
     reduce_only |-> base.reduce_only \/ overlay.reduce_only,
     stage_above |-> base.stage_above \/ overlay.stage_above]

-----------------------------------------------------------------------------
(* RiskGate.evaluate of an order, with open orders and the notional used      *)
(* today: every check is made and one that fails refuses the order.           *)
AllowedOk(limits, c) == \A l \in Lists : limits.allowed[l] = {} \/ c[l] \in limits.allowed[l]
ProductOk(product, c) ==
    /\ Tradable(product) /\ SizeIsValid(product, c.size)
    /\ PriceIsValid(product, c.price) /\ NotionalIsValid(product, c.size, c.price)
MaxOk(limit, x) == limit = None \/ x <= limit
SizesOk(limits, product, c) ==
    /\ MaxOk(limits.max_size, c.size)
    /\ MaxOk(limits.max_notional, Notional(product, c.size, c.price))
DailyOk(limits, product, c, used) ==
    c.kind = "staged_release" \/ MaxOk(limits.max_daily, used + Notional(product, c.size, c.price))
OpenOk(limits, c, open) == MaxOk(limits.max_open, open + (IF c.kind = "staged_release" THEN 0 ELSE 1))
LeverageOk(limits, c) == limits.max_leverage = None \/ c.leverage \in 1..limits.max_leverage
VisibleOk(limits, product, c) ==
    \/ limits.max_visible = None \/ ~limits.stage_above \/ c.kind = "staged_release"
    \/ Notional(product, c.size, c.price) <= limits.max_visible
ModeOk(limits, c) ==
    (limits.post_only => c.post_only) /\ (limits.reduce_only => c.reduce_only)

Passes(limits, product, c, open, used) ==
    /\ ~limits.kill_switch
    /\ AllowedOk(limits, c) /\ ProductOk(product, c) /\ SizesOk(limits, product, c)
    /\ DailyOk(limits, product, c, used) /\ OpenOk(limits, c, open)
    /\ LeverageOk(limits, c) /\ VisibleOk(limits, product, c) /\ ModeOk(limits, c)
=============================================================================
