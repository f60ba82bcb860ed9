----------------------------- MODULE TradeCloses ----------------------------
(***************************************************************************)
(* How trades reach the executor other than directly: limit orders, the    *)
(* queue with its grace period, retries and dead letters, and batches      *)
(* (trade_executor lib.rs). The rest of the trade executor: settlement     *)
(* callbacks, cancelled copy trades and swaps (lib.rs, sdex.rs), dollar-   *)
(* cost plans (dca.rs), stop loss, trailing stop and take profit           *)
(* (triggers.rs, keeper.rs), settlement orders (batch_settlement.rs),      *)
(* batch priority (priority.rs) and leverage (leverage.rs).                *)
(***************************************************************************)
EXTENDS TradeGates

CONSTANTS
    LimitPrices,     \* limit prices users set
    QueueInputs,     \* trades users queue: [user, token, amount, pct]
    BatchInputs,     \* batches: sequences of [user, token, amount]
    MAX_BATCH_SIZE,
    MaxQueued,       \* bound: trades queued in a behaviour
    MaxOrders        \* bound: limit orders stored in a behaviour

ASSUME TradeQueueConstants ==
    /\ MaxQueued \in Nat /\ MaxOrders \in Nat /\ MAX_BATCH_SIZE \in Nat
    /\ QueueInputs \subseteq
           [user : CopyUsers, token : Tokens, amount : Int, pct : Int \cup {NoPct}]
    /\ BatchInputs \subseteq Seq([user : CopyUsers, token : Tokens, amount : Int])

VARIABLE
    tq  \* the queue, the dead letters and the limit orders

InitialQueue ==
    [queued |-> <<>>, ids |-> <<>>, next |-> 1,
     dead |-> <<>>, dead_of |-> [u \in CopyUsers |-> <<>>], dead_all |-> <<>>,
     orders |-> <<>>, order_ids |-> <<>>, next_order |-> 1]

-----------------------------------------------------------------------------
\* Limit orders: stored by the signed entry point, run by anybody.
execute_copy_trade_limit(user, token, amount, pct, limit_price, hash, expiry) ==
    LET id == tq.next_order
        order == [user |-> user, token |-> token, amount |-> amount, pct |-> pct,
                  limit_price |-> limit_price,
                  expires_at_ledger |-> seq + TRADE_TIMEOUT_LEDGERS]
    IN  /\ ~tx.paused /\ "copy" \in tx.flags /\ may_commit(user, hash, expiry)
        /\ amount > 0 /\ limit_price > 0 /\ amount >= tx.min_size[token]
        /\ check_user_balance(tb, user, token, amount, tx.fee)
        /\ id <= MaxOrders
        /\ tx' = verify_and_commit(tx, user, hash, expiry)
        /\ tb' = [tb EXCEPT !.short = @ \ {user}]
        /\ tq' = [tq EXCEPT !.orders = Put(@, id, order), !.order_ids = Append(@, id),
                            !.next_order = @ + 1]

\* One order of the walk: [books, kept, gone, failed].
visit_order(token, run, id) ==
    LET o == tq.orders[id]
        outcome == execute_market_copy_trade(run.books, o.user, o.token, o.amount, o.pct)
    IN  CASE run.failed -> run
          [] ~run.failed /\ o.token # token -> [run EXCEPT !.kept = Append(@, id)]
          [] ~run.failed /\ o.token = token /\ seq >= o.expires_at_ledger ->
                 [run EXCEPT !.gone = @ \cup {id}]
          [] ~run.failed /\ o.token = token /\ seq < o.expires_at_ledger
                 /\ tx.price[token] > o.limit_price -> [run EXCEPT !.kept = Append(@, id)]
          [] OTHER -> [run EXCEPT !.books = outcome.books, !.gone = @ \cup {id},
                                  !.failed = outcome.error # None]

\* One refused trade aborts the whole call.
check_pending_limit_orders(token) ==
    LET run == FoldLeft(LAMBDA r, id : visit_order(token, r, id),
                        [books |-> tb, kept |-> <<>>, gone |-> {}, failed |-> FALSE],
                        tq.order_ids)
    IN  /\ tx.price[token] > 0 /\ ~run.failed
        /\ tb' = run.books
        /\ tq' = [tq EXCEPT !.order_ids = run.kept,
                            !.orders = [i \in DOMAIN @ \ run.gone |-> @[i]]]
        /\ UNCHANGED tx

-----------------------------------------------------------------------------
grace_period_elapsed(queued_at_ledger) == seq - queued_at_ledger >= tx.grace

store_queued_trade(q, id, trade) ==
    [q EXCEPT !.queued = Put(@, id, trade), !.ids = Append(@, id)]

queue_copy_trade(user, token, amount, pct) ==
    LET id == tq.next
    IN  /\ check_position_cap(tb, user) /\ id <= MaxQueued
        /\ tq' = store_queued_trade([tq EXCEPT !.next = @ + 1], id,
                     [user |-> user, token |-> token, amount |-> amount, pct |-> pct,
                      queued_at_ledger |-> seq, retry_count |-> 0])
        /\ UNCHANGED <<tx, tb>>

cancel_queued_trade(user, id) ==
    /\ id \in DOMAIN tq.queued /\ tq.queued[id].user = user
    /\ ~grace_period_elapsed(tq.queued[id].queued_at_ledger)
    /\ tq' = [tq EXCEPT !.queued = Drop(@, id), !.ids = Without(@, id)]
    /\ UNCHANGED <<tx, tb>>

dead_letter_trade_internal(q, id, trade, failure_code) ==
    [q EXCEPT !.queued = Drop(@, id),
              !.dead = Put(@, id, [user |-> trade.user, token |-> trade.token,
                                   amount |-> trade.amount, pct |-> trade.pct,
                                   failure_code |-> failure_code,
                                   dead_lettered_at_ledger |-> seq]),
              !.dead_of[trade.user] = Append(@, id), !.dead_all = Append(@, id)]

\* One queued trade of the walk: [books, queue]; queue.ids collects `remaining'.
visit_queued(run, id) ==
    LET t == run.queue.queued[id]
        outcome == execute_market_copy_trade(run.books, t.user, t.token, t.amount, t.pct)
        kept == [run.queue EXCEPT !.ids = Append(@, id)]
    IN  CASE ~grace_period_elapsed(t.queued_at_ledger) -> [run EXCEPT !.queue = kept]
          [] grace_period_elapsed(t.queued_at_ledger) /\ outcome.error = None ->
                 [books |-> outcome.books,
                  queue |-> [run.queue EXCEPT !.queued = Drop(@, id)]]
          [] grace_period_elapsed(t.queued_at_ledger) /\ outcome.error # None
                 /\ t.retry_count + 1 >= tx.max_retries ->
                 [books |-> outcome.books,
                  queue |-> dead_letter_trade_internal(run.queue, id, t, outcome.error)]
          [] OTHER -> [books |-> outcome.books,
                       queue |-> [kept EXCEPT !.queued[id].retry_count = @ + 1]]

\* Mutant: the walk writes back the list it started from.
execute_queued_trades_OldList ==
    LET run == FoldLeft(visit_queued, [books |-> tb, queue |-> [tq EXCEPT !.ids = <<>>]],
                        tq.ids)
    IN  /\ tb' = run.books /\ tq' = [run.queue EXCEPT !.ids = tq.ids]
        /\ UNCHANGED tx

\* Refused trades leave their charged volume behind.
execute_queued_trades ==
    LET run == FoldLeft(visit_queued, [books |-> tb, queue |-> [tq EXCEPT !.ids = <<>>]],
                        tq.ids)
    IN  tb' = run.books /\ tq' = run.queue /\ UNCHANGED tx

\* remove_dead_letter_id and remove_dead_letter_index with the record.
remove_dead_letter(q, id) ==
    [q EXCEPT !.dead = Drop(@, id), !.dead_all = Without(@, id),
              !.dead_of[q.dead[id].user] = Without(@, id)]

requeue_dead_lettered_trade(id) ==
    /\ id \in DOMAIN tq.dead
    /\ tq' = LET d == tq.dead[id]
             IN  store_queued_trade(remove_dead_letter(tq, id), id,
                     [user |-> d.user, token |-> d.token, amount |-> d.amount,
                      pct |-> d.pct, queued_at_ledger |-> seq, retry_count |-> 0])
    /\ UNCHANGED <<tx, tb>>

discard_dead_lettered_trade(id) ==
    /\ id \in DOMAIN tq.dead
    /\ tq' = remove_dead_letter(tq, id) /\ UNCHANGED <<tx, tb>>

\* The first max_entries old letters of one user, or of all.
prune_dead_letter_queue(ids, max_entries) ==
    LET old == Only(ids, {i \in DOMAIN tq.dead :
                              seq - tq.dead[i].dead_lettered_at_ledger >= tx.retention})
    IN  /\ tq' = FoldLeft(remove_dead_letter, tq, SubSeq(old, 1, Min({max_entries, Len(old)})))
        /\ UNCHANGED <<tx, tb>>

-----------------------------------------------------------------------------
\* A batch names each (user, token) once and needs the portfolio.
may_batch(trades) ==
    /\ Len(trades) \in 1..MAX_BATCH_SIZE
    /\ \A i, j \in DOMAIN trades :
           <<trades[i].user, trades[i].token>> = <<trades[j].user, trades[j].token>> => i = j
    /\ tx.portfolio

\* The breaker is read once, for the whole batch; the errors are swallowed.
run_batch(trades) ==
    FoldLeft(LAMBDA r, t :
                 LET outcome == execute_market_copy_trade(r.books, t.user, t.token,
                                                          t.amount, NoPct)
                 IN  [books |-> outcome.books, ok |-> r.ok /\ outcome.error = None],
             [books |-> market_circuit_breaker_active(tb), ok |-> TRUE], trades)

batch_execute(trades) ==
    may_batch(trades) /\ tb' = run_batch(trades).books /\ UNCHANGED <<tx, tq>>

batch_execute_atomic(trades) ==
    /\ may_batch(trades) /\ run_batch(trades).ok
    /\ tb' = run_batch(trades).books /\ UNCHANGED <<tx, tq>>

-----------------------------------------------------------------------------
LimitStep ==
    \/ \E u \in CopyUsers, k \in Tokens, a \in TradeAmounts, l \in LimitPrices,
          h \in Hashes, d \in TxLifetimes :
           execute_copy_trade_limit(u, k, a, NoPct, l, h, now + d)
    \/ \E k \in Tokens : check_pending_limit_orders(k)
    \/ (\E k \in Tokens, v \in LimitPrices : set_sdex_price(k, v)) /\ UNCHANGED <<tb, tq>>

QueuedStep ==
    \/ \E i \in QueueInputs : queue_copy_trade(i.user, i.token, i.amount, i.pct)
    \/ \E u \in CopyUsers, id \in DOMAIN tq.queued : cancel_queued_trade(u, id)
    \/ execute_queued_trades
    \/ \E id \in DOMAIN tq.dead :
           requeue_dead_lettered_trade(id) \/ discard_dead_lettered_trade(id)
    \/ \E m \in SettingInputs :
           \/ prune_dead_letter_queue(tq.dead_all, m)
           \/ \E u \in CopyUsers : prune_dead_letter_queue(tq.dead_of[u], m)

BatchStep == \E b \in BatchInputs : batch_execute(b) \/ batch_execute_atomic(b)

-----------------------------------------------------------------------------
(* Every queued trade is in exactly one place, whatever mix of retries,    *)
(* dead-lettering, requeueing, pruning and cancelling it went through: the *)
(* queue's ids name the stored queued trades once each, the global and the *)
(* per-user dead-letter lists name the stored letters once each, and no    *)
(* trade is both queued and dead.                                          *)
QueuePlacesExact ==
    /\ IsInjective(tq.ids) /\ ToSet(tq.ids) = DOMAIN tq.queued
    /\ IsInjective(tq.dead_all) /\ ToSet(tq.dead_all) = DOMAIN tq.dead
    /\ \A u \in CopyUsers :
           /\ IsInjective(tq.dead_of[u])
           /\ ToSet(tq.dead_of[u]) = {i \in DOMAIN tq.dead : tq.dead[i].user = u}
    /\ DOMAIN tq.queued \cap DOMAIN tq.dead = {}
    /\ IsInjective(tq.order_ids) /\ ToSet(tq.order_ids) = DOMAIN tq.orders

-----------------------------------------------------------------------------

CONSTANTS
    Signals, Prices,    \* signals of plans; prices of the external oracle
    PlanInputs,         \* plans: [total, intervals, gap, expiry], expiry 0 for none
    TrailBps,
    Executors, Routes,  \* settlement callbacks
    FillInputs,         \* [fill, input] of settle_batch
    BoundInputs,        \* [min_output, max_input] of a settlement order
    TierInputs,         \* batches of follower tiers for sort_trades_by_priority
    FairnessWindows,
    DebtInputs,         \* amounts of collateral, debt and reserve
    MAX_ORACLE_PRICE_AGE_SECS,
    MaxSettlements      \* bound: settlement orders, and fills of one

ASSUME CloseConstants ==
    /\ MaxSettlements \in Nat /\ MAX_ORACLE_PRICE_AGE_SECS \in Nat
    /\ FillInputs \subseteq [fill : Int, input : Int]

VARIABLE
    tc  \* plans, triggers, callbacks, settlement orders, the oracle's price

InitialCloses ==
    [callbacks |-> <<>>, plans |-> <<>>, stop |-> <<>>, take |-> <<>>, trail |-> <<>>,
     watch |-> <<>>, keeper |-> FALSE, price |-> 0, price_at |-> 0, router |-> FALSE,
     orders |-> <<>>, user_orders |-> [u \in CopyUsers |-> <<>>],
     window |-> 3, counter |-> 0]

KeepTrades == UNCHANGED <<tx, tb, tq>>
KeepQueue == UNCHANGED <<tx, tq>>

-----------------------------------------------------------------------------
\* A callback is expected once and consumed by the party and route it names.
expect_settlement_callback(trade_id, executor, route) ==
    /\ trade_id \notin DOMAIN tc.callbacks
    /\ tc' = [tc EXCEPT !.callbacks = Put(@, trade_id, <<executor, route>>)] /\ KeepTrades

accept_settlement_callback(caller, trade_id, route) ==
    /\ trade_id \in DOMAIN tc.callbacks /\ tc.callbacks[trade_id] = <<caller, route>>
    /\ tc' = [tc EXCEPT !.callbacks = Drop(@, trade_id)] /\ KeepTrades

\* Swaps: enough liquidity at the best ask, and enough received.
min_received_from_slippage(amount, max_slippage_bps) ==
    IF max_slippage_bps >= 10000 THEN 0 ELSE (amount * (10000 - max_slippage_bps)) \div 10000

check_liquidity(ask, quantity, amount, entry_price) ==
    quantity > 0 /\ quantity >= amount /\ ask <= entry_price

execute_sdex_swap(ask, quantity, amount, min_received, received) ==
    /\ amount > 0 /\ tc.router
    /\ check_liquidity(ask, quantity, amount, min_received) /\ received >= min_received

\* External: what the router quotes and pays.
RouterAnswers == Prices \X TradeAmounts \X TradeAmounts

\* The user swaps out of a position the portfolio knows, which is then closed.
cancel_copy_trade(user, position, token, amount, min_received, answer, hash, expiry) ==
    /\ may_commit(user, hash, expiry) /\ tx.portfolio
    /\ position \in open_positions(tb, user)
    /\ execute_sdex_swap(answer[1], answer[2], amount, min_received, answer[3])
    /\ tx' = verify_and_commit(tx, user, hash, expiry)
    /\ tb' = decrement_user_position_count(
                 decrease_open_interest([tb EXCEPT !.open = @ \ {position}], token, amount),
                 user)
    /\ UNCHANGED <<tq, tc>>

\* The user closes a position at the portfolio: the executor does not hear of it.
close_at_portfolio(p) ==
    /\ p \in tb.open
    /\ tb' = [tb EXCEPT !.open = @ \ {p}, !.own[p[1]] = @ + 1]
    /\ UNCHANGED <<tx, tq, tc>>

-----------------------------------------------------------------------------
\* dca.rs
execute_dca_copy_trade(user, signal, plan) ==
    LET per == plan.total \div plan.intervals
    IN  /\ plan.total > 0 /\ plan.intervals # 0 /\ plan.gap # 0
        /\ <<user, signal>> \notin DOMAIN tc.plans
        /\ plan.expiry = 0 \/ seq < plan.expiry
        /\ per > 0
        /\ tc' = [tc EXCEPT !.plans =
                     Put(@, <<user, signal>>,
                         [amount_per_interval |-> per, remaining |-> plan.intervals,
                          total |-> plan.intervals, next |-> seq, gap |-> plan.gap,
                          expiry |-> plan.expiry, executed |-> 0])]
        /\ KeepTrades

\* Records a position, uncounted.  An expired plan answers with an error, which
\* also undoes its removal.
execute_dca_interval(user, signal) ==
    LET key == <<user, signal>>
        plan == tc.plans[key]
    IN  /\ "dca" \in tx.flags /\ key \in DOMAIN tc.plans
        /\ plan.expiry = 0 \/ seq < plan.expiry
        /\ seq >= plan.next
        /\ tx.portfolio => portfolio_accepts(tb, user)
        /\ tb' = IF tx.portfolio
                 THEN [validate_and_record(tb, user) EXCEPT !.planned[user] = @ + 1] ELSE tb
        /\ tc' = [tc EXCEPT !.plans =
                     IF plan.remaining = 1 THEN Drop(@, key)
                     ELSE Put(@, key, [plan EXCEPT !.remaining = @ - 1, !.next = seq + plan.gap,
                                           !.executed = @ + plan.amount_per_interval])]
        /\ KeepQueue

cancel_dca_plan(user, signal) ==
    /\ <<user, signal>> \in DOMAIN tc.plans
    /\ tc' = [tc EXCEPT !.plans = Drop(@, <<user, signal>>)] /\ KeepTrades

-----------------------------------------------------------------------------
\* triggers.rs and keeper.rs.  Prices set for a trade stay after it is closed.
\* External: the oracle publishes a price.
oracle_publishes(price) ==
    /\ price # tc.price \/ now # tc.price_at
    /\ tc' = [tc EXCEPT !.price = price, !.price_at = now] /\ KeepTrades

fetch_current_price_ok ==
    tc.price_at # 0 /\ now - tc.price_at <= MAX_ORACLE_PRICE_AGE_SECS

set_stop_loss_price(p, price) ==
    tc' = [tc EXCEPT !.stop = Put(@, p, price)] /\ KeepTrades
set_trailing_stop(p, bps, price) ==
    tc' = [tc EXCEPT !.trail = Put(@, p, [bps |-> bps, peak |-> price])] /\ KeepTrades
set_take_profit_price(p, price) ==
    tc' = [tc EXCEPT !.take = Put(@, p, price)] /\ KeepTrades

\* Watched once, with the take profit that names its pair.
register_watch(list, p) == AddOnce(list, p)
set_take_profit_price_with_pair(p, price) ==
    /\ tc' = [tc EXCEPT !.take = Put(@, p, price), !.watch = register_watch(@, p)]
    /\ KeepTrades

\* Mutant: a closed position is not given back to the cap.
close_position_keeper_Uncounted(p) ==
    p \in tb.open /\ tb' = [tb EXCEPT !.open = @ \ {p}] /\ KeepQueue

\* The portfolio refuses a position that is not open, and the call with it.
close_position_keeper(p) ==
    /\ p \in tb.open
    /\ tb' = decrement_user_position_count([tb EXCEPT !.open = @ \ {p}], p[1]) /\ KeepQueue

Armed == tx.oracle /\ tc.keeper /\ fetch_current_price_ok

check_and_trigger_stop_loss(p) ==
    /\ Armed /\ p \in DOMAIN tc.stop /\ tc.price <= tc.stop[p]
    /\ close_position_keeper(p) /\ UNCHANGED tc

\* The peak rises with the price, also when nothing triggers.
check_and_trigger_trailing_stop(p) ==
    LET peak == IF tc.price > tc.trail[p].peak THEN tc.price ELSE tc.trail[p].peak
    IN  /\ Armed /\ p \in DOMAIN tc.trail
        /\ tc' = [tc EXCEPT !.trail[p].peak = peak]
        /\ IF tc.price <= (peak * (10000 - tc.trail[p].bps)) \div 10000
           THEN close_position_keeper(p) ELSE KeepTrades

check_and_trigger_take_profit(p) ==
    /\ Armed /\ p \in DOMAIN tc.take /\ tc.price >= tc.take[p]
    /\ ~(p \in DOMAIN tc.stop /\ tc.price <= tc.stop[p])
    /\ close_position_keeper(p) /\ UNCHANGED tc

\* What a keeper is told: the price's age does not matter here.
get_triggerable_positions ==
    SelectSeq(tc.watch, LAMBDA p : \/ p \in DOMAIN tc.stop /\ tc.price <= tc.stop[p]
                                   \/ p \in DOMAIN tc.take /\ tc.price >= tc.take[p])

set_stop_loss_portfolio == tc' = [tc EXCEPT !.keeper = TRUE] /\ KeepTrades
set_sdex_router == tc' = [tc EXCEPT !.router = TRUE] /\ KeepTrades

-----------------------------------------------------------------------------
\* batch_settlement.rs: orders by id, each with its fills.
is_closed(order) == order.status \in {"FullySettled", "Failed"}
remaining(order) == order.requested - order.settled

create_settlement_order(user, amount, bounds) ==
    /\ amount > 0 /\ bounds.min_output >= 0 /\ bounds.max_input >= 0
    /\ Len(tc.orders) < MaxSettlements
    /\ tc' = [tc EXCEPT
                 !.orders = Append(@, [user |-> user, requested |-> amount, settled |-> 0,
                                       status |-> "Open", fills |-> <<>>,
                                       min_output |-> bounds.min_output,
                                       max_input |-> bounds.max_input]),
                 !.user_orders[user] = Append(@, Len(tc.orders) + 1)]
    /\ KeepTrades

\* Mutant: a fill that overshoots is cut to what remains, and booked whole.
settle_batch_Overshoot(id, fill, input) ==
    LET o == tc.orders[id]
        filled == IF fill > remaining(o) THEN remaining(o) ELSE fill
    IN  /\ ~is_closed(o) /\ fill >= o.min_output /\ input <= o.max_input
        /\ tc' = [tc EXCEPT !.orders[id] =
                     [o EXCEPT !.settled = @ + filled, !.fills = Append(@, fill),
                               !.status = IF filled = remaining(o) THEN "FullySettled"
                                          ELSE "PartiallyFilled"]]
        /\ KeepTrades

settle_batch(id, fill, input) ==
    LET o == tc.orders[id]
    IN  /\ fill >= 0 /\ input >= 0
        /\ ~is_closed(o)
        /\ fill >= o.min_output /\ input <= o.max_input
        /\ fill <= remaining(o) /\ Len(o.fills) < MaxSettlements
        /\ tc' = [tc EXCEPT !.orders[id] =
                     [o EXCEPT !.settled = @ + fill, !.fills = Append(@, fill),
                               !.status = IF fill = remaining(o) THEN "FullySettled"
                                          ELSE "PartiallyFilled"]]
        /\ KeepTrades

fail_settlement_order(id) ==
    /\ ~is_closed(tc.orders[id])
    /\ tc' = [tc EXCEPT !.orders[id].status = "Failed"] /\ KeepTrades

-----------------------------------------------------------------------------
\* priority.rs: the followers with stake or tenure first.  The fairness branch puts one
\* standard trade before the last priority trade.
set_priority_config(window) == tc' = [tc EXCEPT !.window = window] /\ KeepTrades

sorted_by_priority(trades, counter) ==
    LET ahead == SelectSeq(trades, LAMBDA t : t # "Standard")
        behind == SelectSeq(trades, LAMBDA t : t = "Standard")
    IN  IF counter >= tc.window /\ behind # <<>> /\ ahead # <<>>
        THEN Front(ahead) \o <<Head(behind), Last(ahead)>> \o Tail(behind)
        ELSE ahead \o behind

\* The counter grows only with batches that hold no standard trade.
sort_trades_by_priority(trades) ==
    LET all_priority == trades # <<>> /\ "Standard" \notin ToSet(trades)
        counter == IF all_priority THEN tc.counter + 1 ELSE 0
    IN  /\ tc' = [tc EXCEPT !.counter = IF counter >= tc.window /\ ~all_priority
                                        THEN 0 ELSE counter]
        /\ KeepTrades

\* leverage.rs
execute_copy_trade_with_leverage(amount, multiplier) ==
    <<amount * multiplier, amount * (multiplier - 1)>>
should_liquidate(position_value, borrowed) == position_value < (borrowed * 11) \div 10
is_undercollateralized(collateral, debt) ==
    debt # 0 /\ (collateral * 10000) \div debt < 11000
settle_debt(collateral, debt, reserve) ==
    LET applied == IF collateral < debt THEN collateral ELSE debt
        drawn == IF debt - applied < reserve THEN debt - applied ELSE reserve
    IN  [debt_cleared |-> applied + drawn, reserve_consumed |-> drawn,
         collateral_remaining |-> collateral - applied]

\* A debt settled from collateral and reserve is never over-collected.
ASSUME DebtsSettleExactly ==
    \A c \in DebtInputs, d \in DebtInputs, r \in DebtInputs :
        is_undercollateralized(c, d) =>
            LET s == settle_debt(c, d, r)
            IN  /\ s.debt_cleared <= d /\ s.reserve_consumed <= r
                /\ s.debt_cleared + s.collateral_remaining = c + s.reserve_consumed

-----------------------------------------------------------------------------
CallbackStep ==
    \E t \in {1}, e \in Executors, r \in Routes :
        expect_settlement_callback(t, e, r) \/ accept_settlement_callback(e, t, r)

PlanStep ==
    \E u \in CopyUsers, s \in Signals :
        \/ \E plan \in PlanInputs : execute_dca_copy_trade(u, s, plan)
        \/ execute_dca_interval(u, s) \/ cancel_dca_plan(u, s)

CancelStep ==
    \/ \E u \in CopyUsers, p \in tb.open, k \in Tokens, a \in TradeAmounts, h \in Hashes,
          d \in TxLifetimes, answer \in RouterAnswers :
           cancel_copy_trade(u, p, k, a, min_received_from_slippage(a, 5000), answer, h, now + d)
    \/ \E p \in tb.open : close_at_portfolio(p)

TriggerStep ==
    \/ \E price \in Prices : oracle_publishes(price)
    \/ \E p \in tb.open, price \in Prices :
           \/ set_stop_loss_price(p, price) \/ set_take_profit_price(p, price)
           \/ set_take_profit_price_with_pair(p, price)
           \/ \E bps \in TrailBps : set_trailing_stop(p, bps, price)
    \/ \E p \in tb.open : \/ check_and_trigger_stop_loss(p)
                          \/ check_and_trigger_trailing_stop(p)
                          \/ check_and_trigger_take_profit(p)
    \/ set_stop_loss_portfolio \/ set_sdex_router

SettlementStep ==
    \/ \E u \in CopyUsers, a \in TradeAmounts, b \in BoundInputs :
           create_settlement_order(u, a, b)
    \/ \E id \in DOMAIN tc.orders :
           \/ fail_settlement_order(id)
           \/ \E f \in FillInputs : settle_batch(id, f.fill, f.input)
    \/ \E w \in FairnessWindows : set_priority_config(w)
    \/ \E t \in TierInputs : sort_trades_by_priority(t)

-----------------------------------------------------------------------------
\* The executor as deployed, with its entry points in any order.
TradeInit ==
    /\ ClockInit /\ tx = InitialSettings /\ tb = InitialBooks
    /\ tq = InitialQueue /\ tc = InitialCloses

TradeNext ==
    \/ /\ \/ (AmountSettingStep \/ LedgerSettingStep \/ SwitchStep) /\ UNCHANGED <<tb, tq, tc>>
          \/ MarketStep /\ UNCHANGED <<tq, tc>>
          \/ (LimitStep \/ QueuedStep \/ BatchStep) /\ UNCHANGED tc
          \/ PlanStep \/ CancelStep \/ CallbackStep \/ TriggerStep \/ SettlementStep
       /\ UNCHANGED clockVars
    \/ CloseLedger /\ UNCHANGED <<tx, tb, tq, tc>>

TradeSpec == TradeInit /\ [][TradeNext]_<<now, seq, tx, tb, tq, tc>>

-----------------------------------------------------------------------------
(* Settlement orders add up over any sequence of partial fills: what is    *)
(* settled is the sum of the recorded fills and never more than requested, *)
(* an order is fully settled exactly when nothing remains, and a failed    *)
(* one still has something open.                                           *)
SettlementAddsUp ==
    \A id \in DOMAIN tc.orders :
        LET o == tc.orders[id]
        IN  /\ o.settled = SumSeq(o.fills)
            /\ o.settled <= o.requested
            /\ (o.settled = o.requested) <=> (o.status = "FullySettled")
            /\ id \in ToSet(tc.user_orders[o.user])

(* The executor's count, which its cap reads, against the positions the    *)
(* portfolio holds: a position closed by cancel, stop loss, trailing stop  *)
(* or take profit is given back to the cap, one the user closed at the     *)
(* portfolio never is, and every copy trade's position is counted; those   *)
(* recorded by plans are not.                                              *)
CountsCovered ==
    \A u \in CopyUsers :
        LET held == Cardinality(open_positions(tb, u)) + tb.own[u]
        IN  held - tb.planned[u] <= tb.count[u] /\ tb.count[u] <= held
=============================================================================
