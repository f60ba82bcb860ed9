-------------------------- MODULE AutoStrategies --------------------------
(***************************************************************************)
(* What auto_trade runs for a user over time: DCA plans and grids          *)
(* (strategies/dca.rs, strategies/grid.rs), exit strategies                *)
(* (exit_strategy.rs), escrow (escrow.rs) and positions (positions.rs).    *)
(* A call that returns an error or panics leaves no state behind: the      *)
(* action is disabled.                                                     *)
(***************************************************************************)
EXTENDS LedgerClock

CONSTANTS
    PlanUsers, PlanAssets,
    PlanPrices,        \* prices that are set, reported or given
    PLAN_DAY,          \* 86400
    Frequencies,       \* [kind, secs]
    NoEnd,             \* duration_days: None
    Durations,         \* days
    PlanAmounts, PlanBalances,
    PRECISION,
    GridInputs,        \* [upper, lower, grids, capital]
    ExitInputs,        \* [entry, size, tiers, stops]
    ExitSizes,
    EscrowIds, EscrowAmounts,
    PositionSignals,
    MaxPlans           \* bound: plans, grids, exits or positions in a behaviour

ASSUME PlanConstants ==
    /\ PLAN_DAY \in Nat \ {0} /\ PRECISION \in Nat \ {0} /\ MaxPlans \in Nat
    /\ PlanPrices \subseteq Nat /\ PlanAmounts \subseteq Int

VARIABLE
    ap  \* the stores of plans, grids, exits, escrows and positions

Unset == -1
Full == 10000  \* 100% in basis points
Larger(n, m) == IF n > m THEN n ELSE m
\* i128 division, which rounds towards zero; d is positive.
Truncated(n, d) == IF n < 0 THEN -((-n) \div d) ELSE n \div d
NextOf(store) == Cardinality(DOMAIN store)

InitialPlans ==
    [price |-> [a \in PlanAssets |-> Unset], balance |-> [u \in PlanUsers |-> 0],
     dca |-> <<>>, dca_active |-> <<>>,
     grids |-> <<>>, exits |-> <<>>,
     escrows |-> <<>>, escrowed |-> [e \in EscrowIds |-> 0], released |-> [e \in EscrowIds |-> 0],
     positions |-> <<>>, listed |-> [u \in PlanUsers |-> <<>>], nonce |-> 0]

\* Temporary storage that callers of DCA and grids write: prices and balances.
set_mock_price(asset, price) == ap' = [ap EXCEPT !.price[asset] = price]
set_balance(user, balance) == ap' = [ap EXCEPT !.balance[user] = balance]

-----------------------------------------------------------------------------
\* DCA plans.
interval_secs(f) ==
    CASE f.kind = "Daily" -> PLAN_DAY
      [] f.kind = "Weekly" -> 7 * PLAN_DAY
      [] f.kind = "Biweekly" -> 14 * PLAN_DAY
      [] f.kind = "Monthly" -> 30 * PLAN_DAY
      [] f.kind = "Custom" -> f.secs

create_dca_strategy(user, asset, amount, frequency, days) ==
    LET id == NextOf(ap.dca)
    IN  /\ amount > 0 /\ id < MaxPlans
        /\ ap' = [ap EXCEPT
                     !.dca = Put(@, id,
                         [user |-> user, asset |-> asset, purchase_amount |-> amount,
                          frequency |-> frequency, start_time |-> now,
                          end_time |-> IF days = NoEnd THEN 0 ELSE now + days * PLAN_DAY,
                          last_purchase |-> 0, invested |-> 0, acquired |-> 0,
                          average_entry_price |-> 0, purchases |-> <<>>,
                          status |-> "Active"]),
                     !.dca_active = Append(@, id)]

ended(s) == s.end_time # 0 /\ now >= s.end_time

is_purchase_due(s) ==
    /\ s.status = "Active" /\ ~ ended(s)
    /\ now >= IF s.last_purchase = 0 THEN s.start_time
              ELSE s.last_purchase + interval_secs(s.frequency)

funded(o, s) == o.balance[s.user] >= s.purchase_amount

buy_price(o, s) == IF o.price[s.asset] = Unset THEN 100 ELSE o.price[s.asset]

\* What a purchase buys; a price of zero and a plan that holds nothing panic.
sim_execute_buy(o, s) == (s.purchase_amount * PRECISION) \div buy_price(o, s)
buyable(o, s) == buy_price(o, s) > 0 /\ s.acquired + sim_execute_buy(o, s) > 0

\* Mutant: the total is that of the last purchase.
bought_Replaced(o, s) ==
    LET acquired == sim_execute_buy(o, s)
    IN  [s EXCEPT !.invested = @ + s.purchase_amount, !.acquired = acquired,
                  !.average_entry_price =
                      ((s.invested + s.purchase_amount) * PRECISION) \div acquired,
                  !.last_purchase = now,
                  !.purchases = Append(@, [at |-> now, amount |-> s.purchase_amount,
                                           acquired |-> acquired, price |-> buy_price(o, s)])]

bought(o, s) ==
    LET acquired == sim_execute_buy(o, s)
    IN  [s EXCEPT !.invested = @ + s.purchase_amount, !.acquired = @ + acquired,
                  !.average_entry_price =
                      ((s.invested + s.purchase_amount) * PRECISION)
                          \div (s.acquired + acquired),
                  !.last_purchase = now,
                  !.purchases = Append(@, [at |-> now, amount |-> s.purchase_amount,
                                           acquired |-> acquired, price |-> buy_price(o, s)])]

\* Called directly: the states it saves before it returns an error are rolled back.
execute_dca_purchase(id) ==
    LET s == ap.dca[id]
    IN  /\ s.status = "Active" /\ ~ ended(s) /\ funded(ap, s) /\ buyable(ap, s)
        /\ ap' = [ap EXCEPT !.dca[id] = bought(ap, s)]

\* Mutant: a plan that runs out of funds leaves the list of active plans.
short_of_funds_Delisted(o, id) ==
    [o EXCEPT !.dca[id].status = "Paused", !.dca_active = Without(@, id)]

short_of_funds(o, id) == [o EXCEPT !.dca[id].status = "Paused"]

\* One plan of the walk: an error is only reported, so the pause it saved stays.
visit_plan(o, id) ==
    LET s == o.dca[id]
    IN  IF ~ is_purchase_due(s) THEN o
        ELSE IF funded(o, s) THEN [o EXCEPT !.dca[id] = bought(o, s)]
        ELSE short_of_funds(o, id)

execute_due_dca_purchases ==
    /\ \A i \in DOMAIN ap.dca_active :
           LET s == ap.dca[ap.dca_active[i]]
           IN  is_purchase_due(s) /\ funded(ap, s) => buyable(ap, s)
    /\ ap' = FoldLeft(visit_plan, ap, ap.dca_active)

calculate_expected_purchases(s) ==
    IF interval_secs(s.frequency) = 0 THEN 0
    ELSE SatSub(now, s.start_time) \div interval_secs(s.frequency)

handle_missed_dca_purchases(id) ==
    LET s == ap.dca[id]
        missed == Floor0(calculate_expected_purchases(s) - Len(s.purchases))
    IN  /\ missed > 0 => s.status = "Active" /\ ~ ended(s) /\ funded(ap, s) /\ buyable(ap, s)
        /\ ap' = [ap EXCEPT !.dca[id] =
                     FoldLeft(LAMBDA plan, n : bought(ap, plan), s, [n \in 1..missed |-> n])]

update_dca_schedule(id, amount, frequency) ==
    /\ amount > 0
    /\ ap' = [ap EXCEPT !.dca[id].purchase_amount = amount, !.dca[id].frequency = frequency]

\* Neither call looks at the owner or at the status.
pause_dca_strategy(id) == ap' = [ap EXCEPT !.dca[id].status = "Paused"]
resume_dca_strategy(id) == ap' = [ap EXCEPT !.dca[id].status = "Active"]

DcaStep ==
    \/ \E u \in PlanUsers, a \in PlanAssets, n \in PlanAmounts, f \in Frequencies, d \in Durations :
           create_dca_strategy(u, a, n, f, d)
    \/ execute_due_dca_purchases
    \/ \E id \in DOMAIN ap.dca :
           \/ execute_dca_purchase(id) \/ handle_missed_dca_purchases(id)
           \/ pause_dca_strategy(id) \/ resume_dca_strategy(id)
           \/ \E n \in PlanAmounts, f \in Frequencies : update_dca_schedule(id, n, f)
    \/ \E u \in PlanUsers, b \in PlanBalances : set_balance(u, b)
    \/ \E a \in PlanAssets, p \in PlanPrices : set_mock_price(a, p)

-----------------------------------------------------------------------------
\* Grids.  An order's id is made of asset, price and ledger sequence, so two may agree.
grid_price(g, level) == g.lower + level * g.spacing
Levels(g) == 0..(g.num_grids - 1)
get_current_price(asset) == Floor0(ap.price[asset])

GridOrder(g, level, side) ==
    [price |-> grid_price(g, level), side |-> side, amount |-> g.order_size,
     order_id |-> <<g.asset, grid_price(g, level) + seq>>]

initialize_grid_strategy(user, asset, upper, lower, num_grids, capital) ==
    LET id == NextOf(ap.grids)
    IN  /\ upper > lower /\ num_grids >= 3 /\ num_grids <= 50 /\ id < MaxPlans
        /\ ap' = [ap EXCEPT !.grids = Put(@, id,
                     [user |-> user, asset |-> asset, upper |-> upper, lower |-> lower,
                      num_grids |-> num_grids, spacing |-> (upper - lower) \div (num_grids - 1),
                      order_size |-> capital \div num_grids, orders |-> <<>>,
                      filled |-> <<>>, profit |-> 0, status |-> "Initializing"])]

\* A level at the current price gets no order and keeps the one it has.
place_grid_orders(g) ==
    LET price == get_current_price(g.asset)
        priced == {l \in Levels(g) : grid_price(g, l) # price}
        place(l) == GridOrder(g, l, IF grid_price(g, l) < price THEN "Buy" ELSE "Sell")
    IN  [g EXCEPT !.orders = [l \in DOMAIN @ \cup priced |-> IF l \in priced THEN place(l) ELSE @[l]],
                  !.status = "Active"]

place_orders(id) == ap' = [ap EXCEPT !.grids[id] = place_grid_orders(@)]

\* The profit against the latest opposite fill one level away, if there is one.
calculate_grid_profit(filled, level, order, price, amount) ==
    LET match == {i \in DOMAIN filled : filled[i].side # order.side /\
                                        filled[i].level - level \in {-1, 1}}
        prev == filled[CHOOSE i \in match : \A j \in match : j <= i].price
    IN  CASE match = {} -> 0
          [] match # {} /\ order.side = "Buy" ->
                 IF price > 0 THEN Truncated((prev - price) * amount, price) ELSE 0
          [] OTHER -> IF prev > 0 THEN Truncated((price - prev) * amount, prev) ELSE 0

\* Mutant: the level above gets the order that replaces a filled one.
rebalance_grid_level_Above(g, level) ==
    [g EXCEPT !.orders = Put(@, level + 1,
        GridOrder(g, level, IF grid_price(g, level) < get_current_price(g.asset)
                            THEN "Buy" ELSE "Sell"))]

rebalance_grid_level(g, level) ==
    [g EXCEPT !.orders = Put(@, level,
        GridOrder(g, level, IF grid_price(g, level) < get_current_price(g.asset)
                            THEN "Buy" ELSE "Sell"))]

\* The lowest level whose order has the id; the fill itself is part of its own search.
on_grid_order_filled(id, order_id, price, amount) ==
    LET g == ap.grids[id]
        held == {l \in DOMAIN g.orders : g.orders[l].order_id = order_id}
        level == CHOOSE l \in held : \A k \in held : l <= k
        order == g.orders[level]
        filled == Append(g.filled, [level |-> level, side |-> order.side, price |-> price,
                                    amount |-> amount])
    IN  /\ held # {}
        /\ ap' = [ap EXCEPT !.grids[id] = rebalance_grid_level(
                     [g EXCEPT !.orders = Drop(@, level), !.filled = filled,
                               !.profit = @ + calculate_grid_profit(filled, level, order,
                                                                    price, amount)], level)]

\* Mutant: the old orders stay until they are replaced.
recentred_Kept(g, price) ==
    LET range == g.upper - g.lower
    IN  [g EXCEPT !.upper = price + range \div 2, !.lower = price - range \div 2,
                  !.spacing = range \div (g.num_grids - 1)]

recentred(g, price) ==
    LET range == g.upper - g.lower
    IN  [g EXCEPT !.orders = <<>>, !.upper = price + range \div 2, !.lower = price - range \div 2,
                  !.spacing = range \div (g.num_grids - 1)]

adjust_grid_to_price_movement(id) ==
    LET g == ap.grids[id]
        price == get_current_price(g.asset)
    IN  /\ price > g.upper \/ price < g.lower
        /\ ap' = [ap EXCEPT !.grids[id] = place_grid_orders(recentred(g, price))]

GridStep ==
    \/ \E u \in PlanUsers, a \in PlanAssets, i \in GridInputs :
           initialize_grid_strategy(u, a, i.upper, i.lower, i.grids, i.capital)
    \/ \E id \in DOMAIN ap.grids :
           \/ place_orders(id) \/ adjust_grid_to_price_movement(id)
           \/ \E l \in DOMAIN ap.grids[id].orders, p \in PlanPrices, n \in PlanAmounts :
                  on_grid_order_filled(id, ap.grids[id].orders[l].order_id, p, n)
    \/ \E a \in PlanAssets, p \in PlanPrices : set_mock_price(a, p)

-----------------------------------------------------------------------------
\* Exit strategies.  granted and sold are history: what the owner gave, what was sold.
Tier(price, pct) == [price |-> price, position_pct |-> pct, executed |-> FALSE]
Stop(profit, trail, active) == [trigger |-> profit, trail |-> trail, active |-> active]

preset_conservative(entry) ==
    [tiers |-> <<Tier((entry * 120) \div 100, 3333), Tier((entry * 150) \div 100, 5000),
                 Tier(entry * 2, Full)>>,
     stops |-> <<Stop(0, 10, TRUE)>>]
preset_balanced(entry) ==
    [tiers |-> <<Tier((entry * 130) \div 100, 5000), Tier((entry * 180) \div 100, Full)>>,
     stops |-> <<Stop(0, 10, TRUE), Stop(20, 7, FALSE)>>]
preset_aggressive(entry) ==
    [tiers |-> <<Tier((entry * 115) \div 100, 2500), Tier((entry * 130) \div 100, 3333),
                 Tier((entry * 160) \div 100, 5000), Tier((entry * 250) \div 100, Full)>>,
     stops |-> <<Stop(0, 10, TRUE), Stop(20, 7, FALSE), Stop(50, 5, FALSE)>>]

create_exit_strategy(user, entry, size, tiers, stops) ==
    LET id == NextOf(ap.exits)
    IN  /\ entry > 0 /\ size > 0 /\ tiers # <<>> /\ id < MaxPlans
        /\ ap' = [ap EXCEPT !.exits = Put(@, id,
                     [user |-> user, entry |-> entry, size |-> size, tiers |-> tiers,
                      stops |-> stops, highest |-> entry, status |-> "Active",
                      granted |-> size, sold |-> 0])]

\* Mutant: a tier's share is taken of what the owner gave.
tier_amount_OfAll(s, tier) == Larger((s.granted * tier.position_pct) \div Full, 1)

tier_amount(s, tier) == Larger((s.size * tier.position_pct) \div Full, 1)

\* One tier of the walk; every sale leaves less for the tiers after it.
take_profit(s, i, price) ==
    LET tier == s.tiers[i]
        amount == tier_amount(s, tier)
    IN  IF tier.executed \/ price < tier.price \/ s.size <= 0 THEN s
        ELSE [s EXCEPT !.size = @ - amount, !.sold = @ + amount, !.tiers[i].executed = TRUE]

calculate_trailing_stop(highest, trail) == Truncated(highest * (100 - trail), 100)

\* A tier that was reached once stays active; the tightest active trail counts.
stop_loss(s, price) ==
    LET profit == Truncated((price - s.entry) * 100, s.entry)
        stops == [i \in DOMAIN s.stops |->
                     [s.stops[i] EXCEPT !.active = @ \/ profit >= s.stops[i].trigger]]
        trails == {stops[i].trail : i \in {j \in DOMAIN stops : stops[j].active}}
        hit == trails # {} /\ price < calculate_trailing_stop(s.highest, Min(trails))
    IN  IF s.size <= 0 THEN s
        ELSE IF hit THEN [s EXCEPT !.stops = stops, !.sold = @ + s.size, !.size = 0,
                                   !.status = "StopHit"]
        ELSE [s EXCEPT !.stops = stops]

\* Mutant: a strategy that has nothing left to sell stays active.
completed_Never(s) == s

completed(s) == IF s.size = 0 /\ s.status = "Active" THEN [s EXCEPT !.status = "Complete"] ELSE s

check_and_execute_exits(id, price) ==
    LET s == [ap.exits[id] EXCEPT !.highest = Larger(@, price)]
        taken == FoldLeft(LAMBDA x, i : take_profit(x, i, price), s,
                          [i \in DOMAIN s.tiers |-> i])
    IN  /\ s.status = "Active"
        /\ ap' = [ap EXCEPT !.exits[id] = completed(stop_loss(taken, price))]

adjust_position_size(id, user, size) ==
    LET s == ap.exits[id]
    IN  /\ s.user = user /\ size >= 0
        /\ ap' = [ap EXCEPT !.exits[id] =
                     [s EXCEPT !.size = size, !.granted = size + s.sold,
                               !.status = IF size = 0 THEN "Complete" ELSE @]]

ExitStep ==
    \/ \E u \in PlanUsers, i \in ExitInputs :
           \/ create_exit_strategy(u, i.entry, i.size, i.tiers, i.stops)
           \/ \E p \in {preset_conservative(i.entry), preset_balanced(i.entry),
                        preset_aggressive(i.entry)} :
                  create_exit_strategy(u, i.entry, i.size, p.tiers, p.stops)
    \/ \E id \in DOMAIN ap.exits :
           \/ \E p \in PlanPrices : check_and_execute_exits(id, p)
           \/ \E u \in PlanUsers, n \in ExitSizes : adjust_position_size(id, u, n)

-----------------------------------------------------------------------------
\* Escrow and positions.  escrowed and released are history: amounts by trade id.
initiate_escrow(originator, trade, amount) ==
    /\ amount > 0
    /\ trade \in DOMAIN ap.escrows => ap.escrows[trade].status # "Active"
    /\ ap' = [ap EXCEPT !.escrows = Put(@, trade, [originator |-> originator, amount |-> amount,
                                                   status |-> "Active"]),
                        !.escrowed[trade] = @ + amount]

\* Mutant: the record's status is not looked at.
close_escrow_Again(trade, status) ==
    /\ trade \in DOMAIN ap.escrows
    /\ ap' = [ap EXCEPT !.escrows[trade].status = status,
                        !.released[trade] = @ + ap.escrows[trade].amount]

\* settle_escrow by the admin, cancel_escrow by the originator or the admin.
close_escrow(trade, status) ==
    /\ trade \in DOMAIN ap.escrows /\ ap.escrows[trade].status = "Active"
    /\ ap' = [ap EXCEPT !.escrows[trade].status = status,
                        !.released[trade] = @ + ap.escrows[trade].amount]

\* Mutant: the preimage of the id leaves the nonce out.
generate_trade_id_NoNonce(user, signal) == <<user, signal, 0, now>>

\* sha256 of user, signal, nonce and time stands for the four values.
generate_trade_id(user, signal) == <<user, signal, ap.nonce, now>>

open_position(user, signal, amount, entry) ==
    LET id == generate_trade_id(user, signal)
    IN  /\ amount > 0 /\ entry > 0 /\ ap.nonce < MaxPlans
        /\ ap' = [ap EXCEPT !.nonce = @ + 1, !.listed[user] = Append(@, id),
                            !.positions = Put(@, id,
                                [user |-> user, amount |-> amount, entry |-> entry,
                                 status |-> "Open", pnl |-> 0])]

close_position(user, id, exit) ==
    LET p == ap.positions[id]
    IN  /\ p.user = user /\ p.status = "Open"
        /\ ap' = [ap EXCEPT !.positions[id] =
                     [p EXCEPT !.status = "Closed", !.pnl = (exit - p.entry) * p.amount]]

CustodyStep ==
    \/ \E u \in PlanUsers, e \in EscrowIds, n \in EscrowAmounts : initiate_escrow(u, e, n)
    \/ \E e \in EscrowIds, s \in {"Settled", "Cancelled"} : close_escrow(e, s)
    \/ \E u \in PlanUsers, s \in PositionSignals, n \in PlanAmounts, p \in PlanPrices :
           open_position(u, s, n, p)
    \/ \E u \in PlanUsers, id \in DOMAIN ap.positions, p \in PlanPrices : close_position(u, id, p)

-----------------------------------------------------------------------------
\* A plan's totals are the sums of its purchases, its average is no better than the
\* best price it paid, and a plan that is active again after a pause is still on the
\* list the keeper walks.  About execute_due_dca_purchases and resume_dca_strategy.
PlansSound ==
    \A id \in DOMAIN ap.dca :
        LET s == ap.dca[id]
            n == DOMAIN s.purchases
        IN  /\ s.invested = SumSeq([i \in n |-> s.purchases[i].amount])
            /\ s.acquired = SumSeq([i \in n |-> s.purchases[i].acquired])
            /\ n # {} => \E i \in n : s.purchases[i].price <= s.average_entry_price
            /\ s.status = "Active" => Contains(ap.dca_active, id)

\* Every order of a grid lies on the grid as it is now, through fills, rebalancing and
\* moves to a new price range.  About adjust_grid_to_price_movement.
GridsSound ==
    \A id \in DOMAIN ap.grids : \A l \in DOMAIN ap.grids[id].orders :
        l \in Levels(ap.grids[id]) /\ ap.grids[id].orders[l].price = grid_price(ap.grids[id], l)

\* Tiers and stop together sell what the owner gave and no more, as long as no tier asks
\* for over 100%; a tier is executed only at its price, and a strategy with nothing left
\* is not active.  About check_and_execute_exits.
ExitsSound ==
    \A id \in DOMAIN ap.exits :
        LET s == ap.exits[id]
        IN  /\ s.size + s.sold = s.granted
            /\ (\A i \in DOMAIN s.tiers : s.tiers[i].position_pct <= Full) =>
                   s.size >= 0 /\ (s.status = "Active" => s.size > 0)
            /\ \A i \in DOMAIN s.tiers : s.tiers[i].executed => s.highest >= s.tiers[i].price

\* An escrow is released once for every time it was opened, and every position is in
\* the list of its owner, once, and in no other.  About initiate_escrow, settle_escrow,
\* cancel_escrow and open_position.
CustodySound ==
    /\ \A e \in EscrowIds :
           ap.escrowed[e] = ap.released[e] +
               IF e \in DOMAIN ap.escrows /\ ap.escrows[e].status = "Active"
               THEN ap.escrows[e].amount ELSE 0
    /\ Cardinality(DOMAIN ap.positions) = ap.nonce
    /\ \A u \in PlanUsers :
           /\ IsInjective(ap.listed[u])
           /\ Range(ap.listed[u]) = {id \in DOMAIN ap.positions : ap.positions[id].user = u}
=============================================================================
