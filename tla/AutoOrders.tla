---------------------------- MODULE AutoOrders ----------------------------
(***************************************************************************)
(* Orders that wait in the auto_trade contract: TWAP orders (twap.rs),     *)
(* conditional orders and the keepers that trigger them (conditional.rs,   *)
(* keeper.rs), the trigger queue and the order of signals                  *)
(* (priority_queue.rs, signal_ordering.rs) and icebergs (iceberg.rs).  A   *)
(* call that returns an error or panics leaves no state behind: the action *)
(* is disabled.                                                            *)
(***************************************************************************)
EXTENDS LedgerClock, TLC

CONSTANTS
    OrderUsers, OrderAssets,
    Ticks,             \* prices that are recorded for an asset
    NoCount,           \* num_segments: None
    SECS_PER_MINUTE,
    TwapInputs,        \* [total, minutes, segments]
    PRICE_HISTORY_CAP, \* record_price_point: 60
    CondInputs,        \* [asset, amount, conditions, logic, lifetime]
    QueueTriggers, DrainLimits,
    SignalBatches,     \* sequences of [id, timestamp, asset, is_buy]
    IcebergInputs,     \* [total, visible_pct, price]
    MIN_VISIBLE_AMOUNT,
    FillAmounts,
    MaxWaiting         \* bound: orders of one kind in a behaviour

ASSUME OrderConstants ==
    /\ Ticks \subseteq Nat /\ SECS_PER_MINUTE \in Nat \ {0}
    /\ PRICE_HISTORY_CAP \in Nat \ {0} /\ MaxWaiting \in Nat

VARIABLE
    ao  \* the stores of the waiting orders

NoPrice == -1
MARKET_PRICE == 100000  \* get_market_price without a history
BPS == 10000

Abs(n) == IF n < 0 THEN -n ELSE n
AtMost(n, m) == IF n < m THEN n ELSE m
AtLeast(n, m) == IF n > m THEN n ELSE m
LastOf(list, n) == SubSeq(list, AtLeast(1, Len(list) - n + 1), Len(list))
Lowest(S) == CHOOSE x \in S : \A y \in S : x <= y

InitialOrders ==
    [price |-> [a \in OrderAssets |-> NoPrice],
     twaps |-> <<>>, twap_active |-> <<>>, twap_prices |-> [a \in OrderAssets |-> <<>>],
     conds |-> <<>>, cond_active |-> <<>>, keepers |-> <<>>,
     queue |-> <<>>, next_action |-> 0, drained |-> {},
     arrived |-> <<>>, kept |-> <<>>,
     icebergs |-> <<>>, sdex |-> <<>>, current |-> <<>>, fills |-> <<>>,
     book |-> <<>>, delivered |-> 0]

-----------------------------------------------------------------------------
\* TWAP orders.
store_twap_order(o, id, order) ==
    [o EXCEPT !.twaps = Put(@, id, order),
              !.twap_active = CASE order.status = "Active" -> AddOnce(@, id)
                                [] order.status = "Paused" -> @
                                [] OTHER -> Without(@, id)]

\* The total is not checked: an order for nothing, or for a negative amount, is accepted.
create_twap_order(user, pair, total, minutes, num_segments) ==
    LET seconds == minutes * SECS_PER_MINUTE
        segments == IF num_segments = NoCount THEN AtLeast(minutes \div 5, 4) ELSE num_segments
        id == Len(ao.twaps) + 1
    IN  /\ minutes # 0 /\ segments # 0 /\ segments <= seconds /\ id <= MaxWaiting
        /\ ao' = store_twap_order(ao, id,
                     [user |-> user, pair |-> pair, total |-> total,
                      interval |-> seconds \div segments, start |-> now, executed |-> 0,
                      segments |-> segments, filled |-> 0,
                      each |-> IF total < 0 THEN -((-total) \div segments) ELSE total \div segments,
                      weighted |-> 0, status |-> "Active"])

get_market_price(o, pair) ==
    IF o.twap_prices[pair] = <<>> THEN MARKET_PRICE ELSE Last(o.twap_prices[pair])

record_price_point(list, price) == LastOf(Append(list, price), PRICE_HISTORY_CAP)

\* Mutant: a late call also makes up for segments the order does not have.
execute_twap_segment_Overdue(o, id) ==
    LET t == o.twaps[id]
        n == Floor0((now - t.start) \div AtLeast(t.interval, 1) - t.executed)
        run == [t EXCEPT !.executed = @ + n, !.filled = @ + n * t.each,
                         !.weighted = @ + n * t.each * get_market_price(o, t.pair),
                         !.status = IF t.executed + n >= t.segments THEN "Complete" ELSE @]
    IN  store_twap_order(o, id, run)

\* The segments that are due, one after the other; each records the price it read.
execute_twap_segment(o, id) ==
    LET t == o.twaps[id]
        due == AtMost((now - t.start) \div AtLeast(t.interval, 1), t.segments)
        n == Floor0(due - t.executed)
        price == get_market_price(o, t.pair)
        run == [t EXCEPT !.executed = @ + n, !.filled = @ + n * t.each,
                         !.weighted = @ + n * t.each * price,
                         !.status = IF t.executed + n >= t.segments THEN "Complete" ELSE @]
    IN  [store_twap_order(o, id, run) EXCEPT
            !.twap_prices[t.pair] = FoldLeft(record_price_point, @, [i \in 1..n |-> price])]

execute_twap_segments ==
    ao' = FoldLeft(LAMBDA o, id : IF o.twaps[id].status = "Active"
                                  THEN execute_twap_segment(o, id) ELSE o,
                   ao, ao.twap_active)

\* Newton's iteration ends at the integer square root.
isqrt(n) == CHOOSE r \in 0..n : r * r <= n /\ (r + 1) * (r + 1) > n

volatility_from_history(list) ==
    LET returns == [i \in 1..(Len(list) - 1) |->
                       (Abs(list[i + 1] - list[i]) * BPS) \div list[i]]
        n == Len(returns)
        mean == SumSeq(returns) \div n
    IN  IF Len(list) < 2 THEN 0
        ELSE isqrt(SumSeq([i \in 1..n |-> (returns[i] - mean) * (returns[i] - mean)]) \div n)

adjust_twap_strategy(id) ==
    LET t == ao.twaps[id]
        measured == volatility_from_history(LastOf(ao.twap_prices[t.pair], 3))
        current == IF measured = 0 THEN 1000 ELSE measured
        baseline == AtLeast(volatility_from_history(LastOf(ao.twap_prices[t.pair], 15)), 1000)
    IN  /\ id \in DOMAIN ao.twaps
        /\ ao' = IF current > (baseline * 150) \div 100
                 THEN store_twap_order(ao, id, [t EXCEPT !.interval = (@ * 150) \div 100])
                 ELSE ao

\* Mutant: a cancelled order stays on the list of active orders.
cancel_twap_order_Listed(id, user) ==
    /\ id \in DOMAIN ao.twaps /\ ao.twaps[id].user = user
    /\ ao.twaps[id].status = "Active"
    /\ ao' = [ao EXCEPT !.twaps[id].status = "Cancelled"]

cancel_twap_order(id, user) ==
    /\ id \in DOMAIN ao.twaps /\ ao.twaps[id].user = user
    /\ ao.twaps[id].status = "Active"
    /\ ao' = store_twap_order(ao, id, [ao.twaps[id] EXCEPT !.status = "Cancelled"])

TwapStep ==
    \/ \E u \in OrderUsers, a \in OrderAssets, i \in TwapInputs :
           create_twap_order(u, a, i.total, i.minutes, i.segments)
    \/ execute_twap_segments
    \/ \E id \in DOMAIN ao.twaps : adjust_twap_strategy(id)
    \/ \E id \in DOMAIN ao.twaps, u \in OrderUsers : cancel_twap_order(id, u)

-----------------------------------------------------------------------------
\* Conditional orders.
add_keeper(keeper) == ao' = [ao EXCEPT !.keepers = AddOnce(@, keeper)]
remove_keeper(keeper) == ao' = [ao EXCEPT !.keepers = Without(@, keeper)]

\* The admin's and the oracles' writes of risk::AssetPrice.
set_asset_price(asset, price) == ao' = [ao EXCEPT !.price[asset] = price]

eval_condition(c, order) ==
    LET price == ao.price[c.asset]
        reference == order.reference_price
    IN  CASE c.kind = "TimeAfter" -> now >= c.level
          [] c.kind # "TimeAfter" /\ price = NoPrice -> FALSE
          [] c.kind = "Above" /\ price # NoPrice -> price >= c.level
          [] c.kind = "Below" /\ price # NoPrice -> price <= c.level
          [] c.kind = "PriceDropRebound" /\ price # NoPrice ->
                 /\ reference # 0 /\ order.trough_price # 0
                 /\ order.trough_price <= (reference * (BPS - c.level)) \div BPS
                 /\ price >= (order.trough_price * (BPS + c.rebound)) \div BPS
          [] OTHER -> reference # 0 /\ Abs(price - reference) * BPS >= reference * c.level

all_triggered(order) ==
    IF order.logic = "And"
    THEN \A i \in DOMAIN order.conditions : eval_condition(order.conditions[i], order)
    ELSE \E i \in DOMAIN order.conditions : eval_condition(order.conditions[i], order)

create_conditional_order(user, asset, amount, conditions, logic, lifetime) ==
    LET id == Len(ao.conds) + 1
        reference == Floor0(ao.price[asset])
    IN  /\ amount > 0 /\ conditions # <<>> /\ id <= MaxWaiting
        /\ ao' = [ao EXCEPT
                     !.conds = Put(@, id,
                         [user |-> user, asset |-> asset, amount |-> amount,
                          conditions |-> conditions, logic |-> logic, status |-> "Pending",
                          expires_at |-> now + lifetime, reference_price |-> reference,
                          trough_price |-> reference, closed_at |-> NoTime]),
                     !.cond_active = AddOnce(@, id)]

\* closed_at is history: when the order left Pending.
close_conditional(o, id, status) ==
    [o EXCEPT !.conds[id].status = status, !.conds[id].closed_at = now,
              !.cond_active = Without(@, id)]

cancel_conditional_order(id, user) ==
    /\ id \in DOMAIN ao.conds /\ ao.conds[id].user = user
    /\ ao.conds[id].status = "Pending"
    /\ ao' = close_conditional(ao, id, "Cancelled")

\* Mutant: an order is looked at for triggers before it is looked at for expiry.
visit_conditional_Late(o, id) ==
    LET order == o.conds[id]
    IN  IF all_triggered(order) THEN close_conditional(o, id, "Triggered")
        ELSE IF now >= order.expires_at THEN close_conditional(o, id, "Expired") ELSE o

\* One order of the walk, with the trough it has seen so far.
visit_conditional(o, id) ==
    LET order == o.conds[id]
        price == o.price[order.asset]
        lower == price > 0 /\ (order.trough_price = 0 \/ price < order.trough_price)
        seen == [order EXCEPT !.trough_price = IF lower THEN price ELSE @]
    IN  IF order.status # "Pending" THEN [o EXCEPT !.cond_active = Without(@, id)]
        ELSE IF now >= order.expires_at THEN close_conditional(o, id, "Expired")
        ELSE IF all_triggered(seen)
        THEN close_conditional([o EXCEPT !.conds[id] = seen], id, "Triggered")
        ELSE [o EXCEPT !.conds[id] = seen]

check_and_trigger(keeper) ==
    /\ Contains(ao.keepers, keeper)
    /\ ao' = FoldLeft(visit_conditional, ao, ao.cond_active)

mark_executed(id) ==
    /\ id \in DOMAIN ao.conds /\ ao.conds[id].status = "Triggered"
    /\ ao' = [ao EXCEPT !.conds[id].status = "Executed"]

ConditionalStep ==
    \/ \E k \in OrderUsers : add_keeper(k) \/ remove_keeper(k) \/ check_and_trigger(k)
    \/ \E a \in OrderAssets, p \in Ticks : set_asset_price(a, p)
    \/ \E u \in OrderUsers, i \in CondInputs :
           create_conditional_order(u, i.asset, i.amount, i.conditions, i.logic, i.lifetime)
    \/ \E id \in DOMAIN ao.conds, u \in OrderUsers : cancel_conditional_order(id, u)
    \/ \E id \in DOMAIN ao.conds : mark_executed(id)

-----------------------------------------------------------------------------
\* The queue of triggered actions, and the order of a batch of signals.
priority(trigger) ==
    CASE trigger = "StopLoss" -> 3 [] trigger = "TakeProfit" -> 2 [] trigger = "Rebalance" -> 1

\* Mutant: a new action goes before the ones of its own priority.
enqueue_at_Newest(action) ==
    Cardinality({i \in DOMAIN ao.queue :
                    priority(ao.queue[i].trigger) > priority(action.trigger)}) + 1

\* Before the first action of a lower priority.
enqueue_at(action) ==
    LET lower == {i \in DOMAIN ao.queue :
                     priority(action.trigger) > priority(ao.queue[i].trigger)}
    IN  IF lower = {} THEN Len(ao.queue) + 1 ELSE Lowest(lower)

enqueue_action(trigger) ==
    LET action == [id |-> ao.next_action, trigger |-> trigger]
    IN  ao' = [ao EXCEPT !.queue = InsertAt(@, enqueue_at(action), action),
                         !.next_action = @ + 1]

\* drained is history: the ids that left the queue.
drain_priority_batch(limit) ==
    LET take == AtMost(limit, Len(ao.queue))
    IN  ao' = [ao EXCEPT !.queue = SubSeq(@, take + 1, Len(@)),
                         !.drained = @ \cup {ao.queue[i].id : i \in 1..take}]

ordered(a, b) == a.timestamp < b.timestamp \/ (a.timestamp = b.timestamp /\ a.id <= b.id)
sort_signals(signals) == SortSeq(signals, LAMBDA a, b : ordered(a, b) /\ a # b)
are_conflicting(a, b) == a.asset = b.asset /\ a.is_buy # b.is_buy

\* Mutant: signals are taken in the order in which they arrived.
deconflict_signals_Arrival(signals) ==
    FoldLeft(LAMBDA kept, s : IF \E i \in DOMAIN kept : are_conflicting(kept[i], s)
                              THEN kept ELSE Append(kept, s),
             <<>>, signals)

\* A signal is dropped when any earlier one of the batch conflicts, a dropped one too.
deconflict_signals(signals) ==
    LET sorted == sort_signals(signals)
        clear == {i \in DOMAIN sorted :
                     \A j \in 1..(i - 1) : ~ are_conflicting(sorted[j], sorted[i])}
    IN  [n \in 1..Cardinality(clear) |->
            sorted[CHOOSE i \in clear : Cardinality({j \in clear : j <= i}) = n]]

\* A caller hands over one batch, in any order; arrived and kept are history.
order_signals(signals) ==
    ao' = [ao EXCEPT !.arrived = signals, !.kept = deconflict_signals(signals)]

QueueOrderStep ==
    \/ \E t \in QueueTriggers : enqueue_action(t)
    \/ \E n \in DrainLimits : drain_priority_batch(n)
    \/ \E b \in SignalBatches : \E p \in Permutations(DOMAIN b) :
           order_signals([i \in DOMAIN b |-> b[p[i]]])

-----------------------------------------------------------------------------
\* Icebergs.  The SDEX is external: book is what it still holds of the orders placed
\* under an id, and it reports a fill of no more than that.
sdex_id(amount, price) == now + Floor0(amount) + Floor0(price)

\* place_sdex_limit_order, map_sdex_to_iceberg and store_current_sdex_order; a later
\* order with the same id takes the id over.  placed is history.
place_for(o, id, amount, price) ==
    LET s == sdex_id(amount, price)
    IN  [o EXCEPT !.sdex = Put(@, s, id), !.current = Put(@, id, s),
                  !.book = Put(@, s, At(@, s, 0) + amount),
                  !.icebergs[id].placed = @ + amount]

create_iceberg_order(user, total, visible_pct, price) ==
    LET visible == (total * visible_pct) \div BPS
        id == Len(ao.icebergs) + 1
        order == [user |-> user, total |-> total, visible |-> visible, price |-> price,
                  filled |-> 0, current_visible_filled |-> 0, status |-> "Active",
                  avg_fill_price |-> 0, placed |-> 0, repriced |-> FALSE]
    IN  /\ total > 0 /\ price > 0 /\ visible_pct > 0 /\ visible_pct <= 5000
        /\ visible >= MIN_VISIBLE_AMOUNT /\ id <= MaxWaiting
        /\ ao' = place_for([ao EXCEPT !.icebergs = Put(@, id, order),
                                     !.fills = Put(@, id, <<>>)], id, visible, price)

record_fill(history, amount, price) ==
    Append(history, [amount |-> amount, price |-> price,
                     total |-> amount + IF history = <<>> THEN 0 ELSE Last(history).total])

\* Mutant: a fresh slice always has the full visible size.
replenish_Full(o, id) == place_for(o, id, o.icebergs[id].visible, o.icebergs[id].price)

replenish(o, id) ==
    LET i == o.icebergs[id]
    IN  place_for(o, id, AtMost(i.total - i.filled, i.visible), i.price)

\* Mutant: the new average forgets the fills before.
fill_price_average_Newest(i, amount, price) == (price * amount) \div (i.filled + amount)

fill_price_average(i, amount, price) ==
    (i.avg_fill_price * i.filled + price * amount) \div (i.filled + amount)

\* A fill of an order of the book, credited to the iceberg its id maps to now.
on_sdex_fill(s, amount, price) ==
    LET id == ao.sdex[s]
        was == ao.icebergs[id]
        is == [was EXCEPT !.filled = @ + amount, !.current_visible_filled = @ + amount,
                          !.avg_fill_price = fill_price_average(was, amount, price)]
        spent == is.current_visible_filled >= is.visible
        more == is.total > is.filled
        booked == [ao EXCEPT !.book[s] = @ - amount, !.delivered = @ + amount,
                             !.fills[id] = record_fill(@, amount, price),
                             !.icebergs[id] = is]
    IN  /\ amount > 0 /\ amount <= ao.book[s]
        /\ ao' = IF spent /\ more
                 THEN [replenish(booked, id) EXCEPT !.icebergs[id].current_visible_filled = 0,
                                                    !.icebergs[id].status = "PartiallyFilled"]
                 ELSE [booked EXCEPT !.icebergs[id].status =
                                         IF spent THEN "Filled" ELSE "PartiallyFilled"]

\* cancel_sdex_order does nothing: the order stays on the book.
cancel_iceberg_order(id, user) ==
    /\ ao.icebergs[id].user = user /\ ao.icebergs[id].status \notin {"Filled", "Cancelled"}
    /\ ao' = [ao EXCEPT !.icebergs[id].status = "Cancelled"]

update_iceberg_price(id, user, price) ==
    LET i == ao.icebergs[id]
    IN  /\ i.user = user /\ i.status \in {"Active", "PartiallyFilled"} /\ price > 0
        /\ ao' = [place_for(ao, id, i.visible - i.current_visible_filled, price) EXCEPT
                      !.icebergs[id].price = price, !.icebergs[id].repriced = TRUE]

IcebergStep ==
    \/ \E u \in OrderUsers, i \in IcebergInputs :
           create_iceberg_order(u, i.total, i.visible_pct, i.price)
    \/ \E s \in DOMAIN ao.book, n \in FillAmounts, p \in Ticks : on_sdex_fill(s, n, p)
    \/ \E id \in DOMAIN ao.icebergs, u \in OrderUsers :
           \/ cancel_iceberg_order(id, u)
           \/ \E p \in Ticks : update_iceberg_price(id, u, p)

-----------------------------------------------------------------------------
\* TWAP orders fill what their segments add up to, in the direction of the total (negative
\* totals are accepted) and never past it, never before a segment is due, and the list of
\* active orders is exact.  About execute_twap_segments, cancel_twap_order.
TwapsSound ==
    /\ \A id \in DOMAIN ao.twaps :
           LET t == ao.twaps[id]
           IN  /\ t.filled = t.executed * t.each /\ Abs(t.filled) <= Abs(t.total)
               /\ t.executed * t.interval <= now - t.start
               /\ (t.status = "Complete") = (t.executed = t.segments)
    /\ IsInjective(ao.twap_active)
    /\ Range(ao.twap_active) = {id \in DOMAIN ao.twaps : ao.twaps[id].status = "Active"}

\* Between two visits of the keepers prices move, orders expire and are cancelled: an
\* order is triggered only before it expires, expired only after, and listed as long
\* as it is pending.  About check_and_trigger.
ConditionalsSound ==
    /\ \A id \in DOMAIN ao.conds :
           LET c == ao.conds[id]
           IN  /\ c.status \in {"Triggered", "Executed"} => c.closed_at < c.expires_at
               /\ c.status = "Expired" => c.closed_at >= c.expires_at
               /\ c.reference_price > 0 => c.trough_price <= c.reference_price
    /\ IsInjective(ao.cond_active)
    /\ Range(ao.cond_active) = {id \in DOMAIN ao.conds : ao.conds[id].status = "Pending"}

\* No action overtakes one of its own or a higher priority and none is lost, and what
\* is kept of a batch of signals depends on the batch, not on its order of arrival.
\* About enqueue_action, drain_priority_batch and deconflict_signals.
QueueSound ==
    /\ \A i, j \in DOMAIN ao.queue :
           i < j => LET a == ao.queue[i]
                        b == ao.queue[j]
                    IN  \/ priority(a.trigger) > priority(b.trigger)
                        \/ priority(a.trigger) = priority(b.trigger) /\ a.id < b.id
    /\ {ao.queue[i].id : i \in DOMAIN ao.queue} \cup ao.drained = 0..(ao.next_action - 1)
    /\ \A i \in DOMAIN ao.queue : ao.queue[i].id \notin ao.drained
    /\ Range(ao.kept) =
           {s \in Range(ao.arrived) :
               \A e \in Range(ao.arrived) : are_conflicting(e, s) => ordered(s, e)}

\* Every unit the SDEX delivers is booked once, an order nobody repriced never places
\* more than its total, and its average lies between its fill prices.  About
\* on_sdex_fill and record_fill.
IcebergsSound ==
    /\ ao.delivered = SumSeq([id \in DOMAIN ao.icebergs |-> ao.icebergs[id].filled])
    /\ \A id \in DOMAIN ao.icebergs :
           LET i == ao.icebergs[id]
               prices == {ao.fills[id][n].price : n \in DOMAIN ao.fills[id]}
           IN  /\ i.filled = IF ao.fills[id] = <<>> THEN 0 ELSE Last(ao.fills[id]).total
               /\ ~ i.repriced => i.placed <= i.total
               /\ i.status = "Filled" => i.filled >= i.total
               /\ prices # {} =>
                      \E low, high \in prices : low <= i.avg_fill_price /\ i.avg_fill_price <= high
=============================================================================
