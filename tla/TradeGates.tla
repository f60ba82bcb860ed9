---------------------------- MODULE TradeGates ----------------------------
(***************************************************************************)
(* The trade executor's market copy trade: its gates, what a refused call  *)
(* leaves behind when its caller swallows the error, its simulation, the   *)
(* admin's settings and the replay protection of signed calls              *)
(* (trade_executor: lib.rs, risk_gates.rs, feature_flags.rs, oracle.rs;    *)
(* common: replay_protection.rs).  A call that returns an error changes    *)
(* nothing, so only the callers that catch the error see its leftovers.    *)
(***************************************************************************)
EXTENDS LedgerClock

CONSTANTS
    CopyUsers, Tokens, Oracles,
    TradeAmounts,   \* amounts callers pass, zero among them
    TradePcts,      \* portfolio_pct_bps: NoPct, allowed and too high
    NoPct,
    Balances,       \* token balances a user may hold
    SettingInputs,  \* values the admin tries for a numeric setting
    Hashes,         \* hashes of the users' signed calls
    MAX_POSITIONS_PER_USER,
    CIRCUIT_BREAKER_DURATION_LEDGERS,
    TRADE_TIMEOUT_LEDGERS,
    TX_HASH_TTL_SECS,  \* how long a hash blocks another call
    TxLifetimes,       \* seconds a signed call stays valid
    DaySeconds      \* seconds of a day

ASSUME GateConstants ==
    /\ MAX_POSITIONS_PER_USER \in Nat /\ CIRCUIT_BREAKER_DURATION_LEDGERS \in Nat
    /\ TRADE_TIMEOUT_LEDGERS \in Nat /\ TX_HASH_TTL_SECS \in Nat /\ DaySeconds \in Nat \ {0}
    /\ TradeAmounts \subseteq Int /\ TradePcts \ {NoPct} \subseteq Int
    /\ Balances \subseteq Nat /\ SettingInputs \subseteq Int

VARIABLES
    tx,  \* the executor's settings
    tb   \* its books, the users' balances and the portfolio's count

MAX_POSITION_PCT_BPS == 2000
None == "none"

InitialSettings ==
    [min_size |-> [k \in Tokens |-> 1], fee |-> 1, daily_limit |-> 0, max_oi |-> 0,
     max_open |-> 2, exempt |-> {}, oracle |-> FALSE, listed |-> {}, portfolio |-> FALSE,
     paused |-> FALSE, flags |-> {"copy", "dca"}, price |-> [k \in Tokens |-> 0],
     grace |-> 1, max_retries |-> 2, retention |-> 1, depth |-> 1,
     nonce |-> [u \in CopyUsers |-> 0], hash_at |-> [h \in Hashes |-> NoTime],
     purge |-> <<>>]

\* `open' and `opened' are the external portfolio's: the open positions <<user, id>> and
\* the ids given out.  History: `done' is what a user traded on the day `done_day' while a
\* limit was set, `beyond' by how much that exceeds the amounts asked for, `cap' the limit
\* the last charge met, `own' the positions the user closed at the portfolio and `planned'
\* those recorded by plans.
InitialBooks ==
    [breaker |-> [active |-> FALSE, ledger |-> 0],
     day |-> [u \in CopyUsers |-> 0], volume |-> [u \in CopyUsers |-> 0],
     done |-> [u \in CopyUsers |-> 0], done_day |-> [u \in CopyUsers |-> 0],
     beyond |-> [u \in CopyUsers |-> 0], cap |-> [u \in CopyUsers |-> 0],
     own |-> [u \in CopyUsers |-> 0], planned |-> [u \in CopyUsers |-> 0],
     oi |-> [k \in Tokens |-> 0], count |-> [u \in CopyUsers |-> 0],
     open |-> {}, opened |-> 0, short |-> {}, deducted |-> [u \in CopyUsers |-> 0],
     receipts |-> 0, fills |-> {},
     pending |-> [execution_ledger |-> 0, trade_id |-> 0, user |-> None, status |-> None],
     balance |-> [p \in CopyUsers \X Tokens |-> 0]]

trade_today == now \div DaySeconds

-----------------------------------------------------------------------------
\* What a trade is measured against.
market_circuit_breaker_active_readonly(b) ==
    b.breaker.active /\ seq - b.breaker.ledger < CIRCUIT_BREAKER_DURATION_LEDGERS

reset_circuit_breaker(b) == [b EXCEPT !.breaker = [active |-> FALSE, ledger |-> 0]]

\* The reading call clears a breaker that has run out.
market_circuit_breaker_active(b) ==
    IF b.breaker.active /\ ~market_circuit_breaker_active_readonly(b)
    THEN reset_circuit_breaker(b) ELSE b

current_volume(b, user) == IF b.day[user] = trade_today THEN b.volume[user] ELSE 0

check_open_interest_limit(b, token, amount) ==
    tx.max_oi = 0 \/ b.oi[token] + amount <= tx.max_oi

\* Mutant: each trade is measured alone.
within_daily_limit_Alone(b, user, amount) ==
    tx.daily_limit = 0 \/ amount <= tx.daily_limit

within_daily_limit(b, user, amount) ==
    tx.daily_limit = 0 \/ current_volume(b, user) + amount <= tx.daily_limit

check_position_cap(b, user) == user \in tx.exempt \/ b.count[user] < tx.max_open

\* The percentage counts only with an oracle, and only when it buys something.
resolve_trade_amount(b, user, token, explicit_amount, pct) ==
    LET computed == IF pct = NoPct THEN 0 ELSE (b.balance[<<user, token>>] * pct) \div 10000
    IN  IF tx.oracle /\ computed > 0 THEN computed ELSE explicit_amount

check_user_balance(b, user, token, amount, estimated_fee) ==
    b.balance[<<user, token>>] >= amount + estimated_fee

\* The external portfolio's validate_and_record: a limit for all but the exempt.
open_positions(b, user) == {p \in b.open : p[1] = user}
portfolio_accepts(b, user) ==
    user \in tx.exempt \/ Cardinality(open_positions(b, user)) < MAX_POSITIONS_PER_USER
validate_and_record(b, user) ==
    [b EXCEPT !.opened = @ + 1, !.open = @ \cup {<<user, b.opened + 1>>}]

\* The first gate that refuses, or None.
FirstRefusal(gates) ==
    LET refusing == {i \in DOMAIN gates : ~gates[i][2]}
    IN  IF refusing = {} THEN None ELSE gates[Min(refusing)][1]

-----------------------------------------------------------------------------
charge_volume(b, user, amount) ==
    IF tx.daily_limit = 0 THEN b
    ELSE [b EXCEPT !.volume[user] = current_volume(b, user) + amount,
                   !.day[user] = trade_today, !.cap[user] = tx.daily_limit]

record_trade_receipt(b) == [b EXCEPT !.receipts = @ + 1]

increase_open_interest(b, token, amount) == [b EXCEPT !.oi[token] = @ + amount]
decrease_open_interest(b, token, amount) ==
    [b EXCEPT !.oi[token] = IF @ > amount THEN @ - amount ELSE 0]
\* Mutant: a trade does not use up the cap.
increment_user_position_count_Free(b, user) == b

increment_user_position_count(b, user) == [b EXCEPT !.count[user] = @ + 1]
decrement_user_position_count(b, user) ==
    [b EXCEPT !.count[user] = IF @ > 0 THEN @ - 1 ELSE 0]

\* History: what was traded on this day while a limit was set, and how much more than
\* the amounts that were asked for.
note_done(b, user, amount, effective) ==
    LET today(h) == IF b.done_day[user] = trade_today THEN h[user] ELSE 0
        more(n) == IF tx.daily_limit = 0 THEN 0 ELSE n
    IN  [b EXCEPT !.done[user] = today(b.done) + more(effective),
                  !.beyond[user] = today(b.beyond) + more(effective - amount),
                  !.done_day[user] = trade_today]

settle_trade(b, user, token, amount, pct) ==
    LET effective == resolve_trade_amount(b, user, token, amount, pct)
        opened == increment_user_position_count(
                      increase_open_interest(
                          [validate_and_record(b, user) EXCEPT !.short = @ \ {user}],
                          token, amount), user)
        paid == IF check_user_balance(b, user, token, effective, tx.fee) \/ tx.fee = 0
                THEN opened ELSE [opened EXCEPT !.deducted[user] = @ + 1]
        receipt == record_trade_receipt(paid)
    IN  note_done([receipt EXCEPT !.pending =
                      [execution_ledger |-> seq, trade_id |-> receipt.receipts, user |-> user,
                       status |-> "ExecutedAwaitingConfirmation"]], user, amount, effective)

\* The gates in the order of the code.  Only those before the daily volume
\* refuse before anything is written; the reentrancy lock is never held at entry.
early_gates(b, user, token, amount) ==
    << <<"InvalidAmount", amount > 0>>,
       <<"BelowMinimumTradeSize", amount >= tx.min_size[token]>>,
       <<"CircuitBreakerActive", ~market_circuit_breaker_active_readonly(b)>>,
       <<"OpenInterestLimitReached", check_open_interest_limit(b, token, amount)>>,
       <<"DailyVolumeLimitExceeded", within_daily_limit(b, user, amount)>> >>

late_gates(b, user, token, amount, pct) ==
    << <<"NotInitialized", tx.portfolio>>,
       <<"TooManyOpenPositions", check_position_cap(b, user)>>,
       <<"PositionPctTooHigh", pct = NoPct \/ pct <= MAX_POSITION_PCT_BPS>>,
       <<"InsufficientBalance",
         check_user_balance(b, user, token,
                            resolve_trade_amount(b, user, token, amount, pct), 0)>>,
       <<"PositionLimitReached", portfolio_accepts(b, user)>> >>

\* Mutant: the day the volume belongs to is not stored.
execute_market_copy_trade_NoDay(b, user, token, amount, pct) ==
    LET seen == market_circuit_breaker_active(b)
        early == FirstRefusal(early_gates(seen, user, token, amount))
        late == FirstRefusal(late_gates(seen, user, token, amount, pct))
        charged == [charge_volume(seen, user, amount) EXCEPT !.day = seen.day]
    IN  CASE early # None -> [error |-> early, books |-> seen]
          [] early = None /\ late # None -> [error |-> late, books |-> charged]
          [] OTHER -> [error |-> None,
                       books |-> settle_trade(charged, user, token, amount, pct)]

\* The error and the books it leaves: a late refusal keeps the charged volume, and
\* the shortfall it noted.
execute_market_copy_trade(b, user, token, amount, pct) ==
    LET seen == market_circuit_breaker_active(b)
        early == FirstRefusal(early_gates(seen, user, token, amount))
        late == FirstRefusal(late_gates(seen, user, token, amount, pct))
        charged == charge_volume(seen, user, amount)
    IN  CASE early # None -> [error |-> early, books |-> seen]
          [] early = None /\ late = "InsufficientBalance" ->
                 [error |-> late, books |-> [charged EXCEPT !.short = @ \cup {user}]]
          [] early = None /\ late = "PositionLimitReached" ->
                 [error |-> late, books |-> [charged EXCEPT !.short = @ \ {user}]]
          [] early = None /\ late \notin {None, "InsufficientBalance",
                                          "PositionLimitReached"} ->
                 [error |-> late, books |-> charged]
          [] OTHER -> [error |-> None,
                       books |-> settle_trade(charged, user, token, amount, pct)]

\* The dry run has gates of its own, the volume of the day among them.
daily_volume_ok(b, user, amount) ==
    \/ tx.daily_limit = 0
    \/ (IF b.day[user] = trade_today THEN b.volume[user] ELSE 0) + amount <= tx.daily_limit

\* Mutant: the percentage is looked at before the position cap.
simulate_market_copy_trade_PctFirst(b, user, token, amount, pct) ==
    FirstRefusal(
        << <<"InvalidAmount", amount > 0>>,
           <<"BelowMinimumTradeSize", amount >= tx.min_size[token]>>,
           <<"CircuitBreakerActive", ~market_circuit_breaker_active_readonly(b)>>,
           <<"OpenInterestLimitReached", check_open_interest_limit(b, token, amount)>>,
           <<"DailyVolumeLimitExceeded", daily_volume_ok(b, user, amount)>>,
           <<"PositionPctTooHigh", pct = NoPct \/ pct <= MAX_POSITION_PCT_BPS>>,
           <<"TooManyOpenPositions", check_position_cap(b, user)>> >>)

simulate_market_copy_trade(b, user, token, amount, pct) ==
    LET pct_ok == pct = NoPct \/ pct <= MAX_POSITION_PCT_BPS
        effective == IF pct_ok THEN resolve_trade_amount(b, user, token, amount, pct)
                     ELSE amount
    IN  FirstRefusal(
        << <<"InvalidAmount", amount > 0>>,
           <<"BelowMinimumTradeSize", amount >= tx.min_size[token]>>,
           <<"CircuitBreakerActive", ~market_circuit_breaker_active_readonly(b)>>,
           <<"OpenInterestLimitReached", check_open_interest_limit(b, token, amount)>>,
           <<"DailyVolumeLimitExceeded", daily_volume_ok(b, user, amount)>>,
           <<"TooManyOpenPositions", check_position_cap(b, user)>>,
           <<"PositionPctTooHigh", pct_ok>>,
           <<"InsufficientBalance", \/ check_user_balance(b, user, token, effective, tx.fee)
                                    \/ check_user_balance(b, user, token, effective, 0)>> >>)

-----------------------------------------------------------------------------
\* Signed calls: the nonce follows the last one and the hash is not a recent one.
may_commit(user, hash, expiry) ==
    /\ now <= expiry
    /\ tx.hash_at[hash] = NoTime \/ now - tx.hash_at[hash] >= TX_HASH_TTL_SECS

verify_and_commit(s, user, hash, expiry) ==
    [s EXCEPT !.nonce[user] = @ + 1, !.hash_at[hash] = now,
              !.purge = Append(@, [hash |-> hash, expiry |-> expiry])]

\* Of the first `max' records, those that expired go, and the hashes they name.
purge_expired_nonces(max) ==
    LET goes(i) == i <= max /\ tx.purge[i].expiry < now
        gone == {i \in DOMAIN tx.purge : goes(i)}
    IN  /\ tx' = [tx EXCEPT
                     !.purge = [j \in 1..(Len(@) - Cardinality(gone)) |->
                                    @[SetToSortSeq(DOMAIN @ \ gone, <)[j]]],
                     !.hash_at = [h \in Hashes |->
                                    IF \E i \in gone : tx.purge[i].hash = h
                                    THEN NoTime ELSE @[h]]]
        /\ UNCHANGED tb

\* A market order through the signed entry point: an error rolls everything back.
execute_copy_trade_market(user, token, amount, pct, hash, expiry) ==
    LET outcome == execute_market_copy_trade(tb, user, token, amount, pct)
    IN  /\ ~tx.paused /\ "copy" \in tx.flags
        /\ may_commit(user, hash, expiry)
        /\ outcome.error = None
        /\ tx' = verify_and_commit(tx, user, hash, expiry)
        /\ tb' = outcome.books

\* The single confirmation slot: the last trade only.
finalize_trade ==
    /\ tb.pending.status = "ExecutedAwaitingConfirmation"
    /\ seq - tb.pending.execution_ledger >= tx.depth
    /\ tb' = [tb EXCEPT !.pending.status = "Filled"]
    /\ UNCHANGED tx

record_partial_fill(user, trade_id, requested_amount, filled_amount) ==
    /\ filled_amount < requested_amount
    /\ tb.pending.status # None /\ tb.pending.trade_id = trade_id /\ tb.pending.user = user
    /\ tb' = [tb EXCEPT !.pending.status = "PartiallyFilled",
                        !.fills = {f \in @ : f[1] # user \/ f[2] # trade_id}
                                  \cup {<<user, trade_id, requested_amount - filled_amount>>}]
    /\ UNCHANGED tx

activate_market_circuit_breaker ==
    /\ tb' = [tb EXCEPT !.breaker = [active |-> TRUE, ledger |-> seq]]
    /\ UNCHANGED tx
reset_market_circuit_breaker == tb' = reset_circuit_breaker(tb) /\ UNCHANGED tx

\* External: a user's token balance changes outside the executor.
balance_moves(user, token, amount) ==
    /\ amount # tb.balance[<<user, token>>]
    /\ tb' = [tb EXCEPT !.balance[<<user, token>>] = amount] /\ UNCHANGED tx

-----------------------------------------------------------------------------
\* The admin's settings.
set_copy_trade_estimated_fee(v) == v >= 0 /\ tx' = [tx EXCEPT !.fee = v]
set_min_trade_size(token, v) == v >= 0 /\ tx' = [tx EXCEPT !.min_size[token] = v]
set_position_limit_exempt(user, on) ==
    tx' = [tx EXCEPT !.exempt = IF on THEN @ \cup {user} ELSE @ \ {user}]
set_max_open_positions(v) == v > 0 /\ tx' = [tx EXCEPT !.max_open = v]
set_daily_volume_limit(v) == v >= 0 /\ tx' = [tx EXCEPT !.daily_limit = v]
set_max_open_interest_per_pair(v) == v >= 0 /\ tx' = [tx EXCEPT !.max_oi = v]
set_user_portfolio == tx' = [tx EXCEPT !.portfolio = TRUE]
set_sdex_price(token, v) == v > 0 /\ tx' = [tx EXCEPT !.price[token] = v]
set_trade_grace_period(v) == tx' = [tx EXCEPT !.grace = v]
set_max_retry_count(v) == tx' = [tx EXCEPT !.max_retries = v]
set_dead_letter_retention(v) == tx' = [tx EXCEPT !.retention = v]
set_depth(v) == tx' = [tx EXCEPT !.depth = v]
apply_governance_pause(on) == tx' = [tx EXCEPT !.paused = on]
set_feature_flag(name, on) ==
    tx' = [tx EXCEPT !.flags = IF on THEN @ \cup {name} ELSE @ \ {name}]

\* oracle.rs: the list never loses its last oracle, and only a listed one is used.
add_oracle(o) == o \notin tx.listed /\ tx' = [tx EXCEPT !.listed = @ \cup {o}]
remove_oracle(o) ==
    o \in tx.listed /\ Cardinality(tx.listed) > 1 /\ tx' = [tx EXCEPT !.listed = @ \ {o}]
set_oracle(o) == o \in tx.listed /\ tx' = [tx EXCEPT !.oracle = TRUE]

AmountSettingStep ==
    \E v \in SettingInputs :
        \/ set_copy_trade_estimated_fee(v) \/ set_max_open_positions(v)
        \/ set_daily_volume_limit(v) \/ set_max_open_interest_per_pair(v)
        \/ \E k \in Tokens : set_min_trade_size(k, v)

LedgerSettingStep ==
    \E v \in SettingInputs :
        \/ set_trade_grace_period(v) \/ set_max_retry_count(v)
        \/ set_dead_letter_retention(v) \/ set_depth(v)

SwitchStep ==
    \/ \E on \in BOOLEAN : \/ apply_governance_pause(on)
                           \/ \E f \in {"copy", "dca"} : set_feature_flag(f, on)
                           \/ \E u \in CopyUsers : set_position_limit_exempt(u, on)
    \/ set_user_portfolio
    \/ \E o \in Oracles : add_oracle(o) \/ remove_oracle(o) \/ set_oracle(o)

MarketStep ==
    \/ \E u \in CopyUsers, k \in Tokens, a \in TradeAmounts, p \in TradePcts, h \in Hashes, l \in TxLifetimes :
           execute_copy_trade_market(u, k, a, p, h, now + l)
    \/ finalize_trade
    \/ \E u \in CopyUsers, r \in TradeAmounts, f \in TradeAmounts :
           record_partial_fill(u, tb.receipts, r, f)
    \/ activate_market_circuit_breaker \/ reset_market_circuit_breaker
    \/ \E u \in CopyUsers, k \in Tokens, a \in Balances : balance_moves(u, k, a)
    \/ \E m \in SettingInputs : purge_expired_nonces(m)

-----------------------------------------------------------------------------
(* simulate_copy_trade tells what execution would do: in every state the   *)
(* dry run's first refusal is the one execution returns, except for the    *)
(* two refusals that come from the portfolio (not set, or full), which the *)
(* dry run does not consult (lib.rs:747).         *)
SimulationFaithful ==
    \A u \in CopyUsers, k \in Tokens, a \in TradeAmounts, p \in TradePcts :
        LET told == simulate_market_copy_trade(tb, u, k, a, p)
            met  == execute_market_copy_trade(tb, u, k, a, p).error
        IN  met \in {"NotInitialized", "PositionLimitReached"} \/ told = met

(* The daily volume limit, whichever way trades arrive (directly, in a     *)
(* batch, from the queue, from limit orders) and although refused trades   *)
(* are charged too.  The limit is on the amounts asked for (lib.rs:925),   *)
(* a trade is of the amount its percentage of the balance comes to         *)
(* (lib.rs:958-966).  So what a user traded today under a limit is at most *)
(* what is counted against that user plus what percentages added to the    *)
(* amounts asked for, and what is counted is within the limit that was in  *)
(* force when it was last charged.  Without percentages nothing is added   *)
(* and the limit binds what is traded.                                     *)
VolumeCovers ==
    \A u \in CopyUsers :
        /\ tb.done_day[u] = trade_today =>
               tb.done[u] <= current_volume(tb, u) + tb.beyond[u]
        /\ tb.volume[u] <= tb.cap[u]
=============================================================================
