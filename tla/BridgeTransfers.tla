--------------------------- MODULE BridgeTransfers --------------------------
(***************************************************************************)
(* The bridge contract's lock-mint and burn-unlock transfers               *)
(* (bridge/src/lib.rs, validators.rs): a transfer is initiated within the  *)
(* limits, approved by validators and executed by the admin, who may also  *)
(* mark it failed and send it round again.  Wrapped tokens are minted when *)
(* a lock-mint is executed and burned when a burn-unlock is initiated.     *)
(* The admin never changes, so the admin's calls name no caller. The       *)
(* bridge's liquidity pools (bridge/src/liquidity.rs and the entry points  *)
(* of lib.rs): shares are minted and redeemed pro rata with floor          *)
(* division, swaps follow the constant product or trade one for one.  The  *)
(* fee of a swap is kept out of the reserves.                              *)
(***************************************************************************)
EXTENDS LedgerClock, FiniteSets, FiniteSetsExt, Functions, Sequences

CONSTANTS
    BridgeUsers,      \* holders of wrapped tokens
    Validators,       \* the validator set of initialize
    RequiredSignatures,
    MaxTransferAmount, DailyTransferLimit, WithdrawDelay,
    Chains, WrappedAssets,
    SourceTxs,        \* <<source_tx_hash, source_nonce>> of deposits elsewhere
    TransferAmounts,
    Deployments,      \* deployment ids, the first in force at initialize
    FirstDeployment,
    Buffers,          \* liquidity buffers the admin may report
    Thresholds,       \* reserve thresholds, in basis points
    RouteLimits,      \* <<per_message_limit, aggregate_window_limit, window_seconds>>
    DAY_SECONDS,
    MaxTransfers      \* bound: transfers of a behaviour

\* validators::build_validator_set, and the amounts initialize accepts
ASSUME BridgeConstants ==
    /\ Validators # {} /\ IsFiniteSet(Validators)
    /\ RequiredSignatures \in 1..Cardinality(Validators)
    /\ MaxTransferAmount \in Nat \ {0} /\ DailyTransferLimit \in Nat \ {0}
    /\ WithdrawDelay \in Nat /\ DAY_SECONDS \in Nat \ {0}
    /\ FirstDeployment \in Deployments
    /\ IsFiniteSet(BridgeUsers) /\ IsFiniteSet(WrappedAssets)
    /\ TransferAmounts \subseteq Int

VARIABLE br  \* the storage of the transfers

Unlimited == -1  \* no liquidity buffer in storage (i128::MAX)

Routes == Chains \X Chains \X WrappedAssets

NoRoute == [per_message |-> 0, aggregate |-> 0, seconds |-> 0]

NoWindow == [start |-> NoTime, total |-> 0]

day_bucket(t) == (t \div DAY_SECONDS) * DAY_SECONDS

BridgeInit ==
    br = [transfers |-> <<>>, replay |-> {}, consumed |-> {},
          deployment |-> FirstDeployment, governed |-> FALSE, paused |-> FALSE,
          assets |-> {}, chains |-> {},
          balance |-> [k \in BridgeUsers \X WrappedAssets |-> 0], total_minted |-> 0,
          daily |-> [day_start |-> day_bucket(now), total |-> 0],
          buffer |-> Unlimited, threshold |-> 9500,
          routes |-> [r \in Routes |-> NoRoute], windows |-> [r \in Routes |-> NoWindow]]

get_transfer(id) == br.transfers[id]

TransferIds == 1..Len(br.transfers)

----------------------------------------------------------------------------
\* Guards and limits.

\* An empty allow-list allows every chain.
ensure_chain_allowed(destination) == br.chains = {} \/ destination \in br.chains

ensure_wrapped_asset_exists(x) == x \in br.assets

\* The window of a route, restarted when it is over.
RouteWindow(route) ==
    LET w == IF br.windows[route] = NoWindow THEN [start |-> now, total |-> 0]
             ELSE br.windows[route]
    IN  IF SatSub(now, w.start) >= br.routes[route].seconds
        THEN [start |-> now, total |-> 0] ELSE w

Windowed(route) == br.routes[route].aggregate > 0 /\ br.routes[route].seconds > 0

DayVolume == IF br.daily.day_start = day_bucket(now) THEN br.daily.total ELSE 0

\* The largest single transfer the liquidity buffer allows.
DynamicLimit == IF br.buffer \div 10 > 1 THEN br.buffer \div 10 ELSE 1

\* validate_amount_and_limits: its refusals
WithinLimits(amount, route) ==
    LET r == br.routes[route]
    IN  /\ amount > 0
        /\ amount <= MaxTransferAmount
        /\ r.per_message > 0 => amount <= r.per_message
        /\ Windowed(route) => RouteWindow(route).total + amount <= r.aggregate
        /\ DayVolume + amount <= DailyTransferLimit
        /\ br.buffer # Unlimited => amount <= DynamicLimit

\* Mutant: the day's volume is never started afresh.
charged_Forever(b, amount, route) == [b EXCEPT !.daily.total = @ + amount]

\* validate_amount_and_limits: what it writes
charged(b, amount, route) ==
    [b EXCEPT !.daily = [day_start |-> day_bucket(now), total |-> DayVolume + amount],
              !.windows[route] =
                  IF Windowed(route)
                  THEN [RouteWindow(route) EXCEPT !.total = @ + amount] ELSE @]

BridgeTransfer(kind, user, route, amount, tx) ==
    [kind |-> kind, user |-> user, route |-> route, amount |-> amount, tx |-> tx,
     approvals |-> {}, status |-> "PendingValidators", created_at |-> now,
     executed_at |-> NoTime, retryable |-> FALSE]

\* What a source deposit is known by.
ReplayKey(t) == <<t.route[1], t.tx>>

\* build_consumed_message_key: also tied to the deployment
ConsumedKey(t) == <<br.deployment, t.route[1], t.tx>>

----------------------------------------------------------------------------
\* Mutant: only executed deposits of the current deployment are refused.
initiate_lock_mint_Replayed(user, route, amount, tx) ==
    LET t == BridgeTransfer("LockMint", user, route, amount, tx)
    IN  /\ WithinLimits(amount, route)
        /\ ensure_wrapped_asset_exists(route[3])
        /\ ConsumedKey(t) \notin br.consumed
        /\ Len(br.transfers) < MaxTransfers
        /\ br' = [charged(br, amount, route) EXCEPT !.transfers = Append(@, t)]

initiate_lock_mint(user, route, amount, tx) ==
    LET t == BridgeTransfer("LockMint", user, route, amount, tx)
    IN  /\ ~br.paused
        /\ ensure_chain_allowed(route[2])
        /\ WithinLimits(amount, route)
        /\ ensure_wrapped_asset_exists(route[3])
        /\ ReplayKey(t) \notin br.replay
        /\ ConsumedKey(t) \notin br.consumed
        /\ Len(br.transfers) < MaxTransfers
        /\ br' = [charged(br, amount, route) EXCEPT
                      !.transfers = Append(@, t), !.replay = @ \cup {ReplayKey(t)}]

\* initiate_burn_unlock: the tokens are burned at once; the transfer's own id
\* stands for a source transaction
initiate_burn_unlock(user, route, amount) ==
    LET k == <<user, route[3]>>
        t == BridgeTransfer("BurnUnlock", user, route, amount, <<"", Len(br.transfers) + 1>>)
    IN  /\ ~br.paused
        /\ ensure_chain_allowed(route[2])
        /\ WithinLimits(amount, route)
        /\ br.balance[k] >= amount
        /\ Len(br.transfers) < MaxTransfers
        /\ br' = [charged(br, amount, route) EXCEPT
                      !.balance[k] = @ - amount, !.total_minted = @ - amount,
                      !.transfers = Append(@, t)]

has_quorum(approvals) == Cardinality(approvals) >= RequiredSignatures

\* approve_lock_mint, approve_burn_unlock with verify_and_record_approval: one
\* approval per validator, and any status but Completed may become ready.
approve(validator, id) ==
    LET t == get_transfer(id)
        approvals == t.approvals \cup {validator}
    IN  /\ t.status # "Completed"
        /\ validator \in Validators
        /\ validator \notin t.approvals
        /\ br' = [br EXCEPT !.transfers[id].approvals = approvals,
                            !.transfers[id].status =
                                IF has_quorum(approvals) THEN "ReadyToExecute" ELSE @]

\* Mutant: the transfer can be executed again.
execute_lock_mint_Again(id) ==
    LET t == get_transfer(id)
    IN  /\ t.kind = "LockMint"
        /\ t.status = "ReadyToExecute"
        /\ br' = [br EXCEPT !.balance[<<t.user, t.route[3]>>] = @ + t.amount,
                            !.total_minted = @ + t.amount,
                            !.transfers[id].executed_at = now]

execute_lock_mint(id) ==
    LET t == get_transfer(id)
    IN  /\ ~br.paused
        /\ t.kind = "LockMint"
        /\ t.status = "ReadyToExecute"
        /\ br' = [br EXCEPT !.balance[<<t.user, t.route[3]>>] = @ + t.amount,
                            !.total_minted = @ + t.amount,
                            !.transfers[id].status = "Completed",
                            !.transfers[id].executed_at = now,
                            !.consumed = IF t.tx[1] = "" THEN @ ELSE @ \cup {ConsumedKey(t)}]

execute_burn_unlock(id) ==
    LET t == get_transfer(id)
    IN  /\ ~br.paused
        /\ t.kind = "BurnUnlock"
        /\ t.status = "ReadyToExecute"
        /\ now >= t.created_at + WithdrawDelay
        /\ br' = [br EXCEPT !.transfers[id].status = "Completed",
                            !.transfers[id].executed_at = now]

mark_transfer_failed(id, retryable) ==
    LET t == get_transfer(id)
    IN  /\ t.status \notin {"Completed", "Cancelled"}
        /\ t.status = "Failed" => t.retryable
        /\ br' = [br EXCEPT !.transfers[id].status = "Failed",
                            !.transfers[id].retryable = retryable]

retry_transfer(id) ==
    /\ get_transfer(id).status = "Failed"
    /\ get_transfer(id).retryable
    /\ br' = [br EXCEPT !.transfers[id].status = "ReadyToExecute",
                        !.transfers[id].retryable = FALSE]

----------------------------------------------------------------------------
\* The admin's settings.

\* The metadata check refuses malformed symbols and decimals; WrappedAssets are well formed.
register_wrapped_asset(x) == br' = [br EXCEPT !.assets = @ \cup {x}]

set_governance == br' = [br EXCEPT !.governed = TRUE]

apply_governance_pause(paused) == br.governed /\ br' = [br EXCEPT !.paused = paused]

update_liquidity_buffer(buffer) == buffer >= 0 /\ br' = [br EXCEPT !.buffer = buffer]

set_reserve_threshold(bps) == bps <= 10000 /\ br' = [br EXCEPT !.threshold = bps]

\* attest_reserves: the verdict it publishes
attest_reserves(actual_locked) ==
    (IF br.total_minted > 0 THEN (actual_locked * 10000) \div br.total_minted ELSE 10000)
        >= br.threshold

add_supported_chain(c) == br' = [br EXCEPT !.chains = @ \cup {c}]

remove_supported_chain(c) == br' = [br EXCEPT !.chains = @ \ {c}]

set_deployment_id(d) == br' = [br EXCEPT !.deployment = d]

set_withdrawal_route_limit(route, l) ==
    /\ l[1] >= 0 /\ l[2] >= 0
    /\ br' = [br EXCEPT !.routes[route] = [per_message |-> l[1], aggregate |-> l[2],
                                           seconds |-> l[3]],
                        !.windows[route] = IF @ = NoWindow THEN [start |-> now, total |-> 0]
                                           ELSE @]

TransferStep ==
    \/ \E u \in BridgeUsers, r \in Routes, a \in TransferAmounts :
          \/ \E tx \in SourceTxs : initiate_lock_mint(u, r, a, tx)
          \/ initiate_burn_unlock(u, r, a)
    \/ \E id \in TransferIds :
          \/ \E v \in Validators : approve(v, id)
          \/ execute_lock_mint(id)
          \/ execute_burn_unlock(id)
          \/ \E again \in BOOLEAN : mark_transfer_failed(id, again)
          \/ retry_transfer(id)

BridgeAdminStep ==
    \/ \E x \in WrappedAssets : register_wrapped_asset(x)
    \/ set_governance
    \/ \E p \in BOOLEAN : apply_governance_pause(p)
    \/ \E b \in Buffers : update_liquidity_buffer(b)
    \/ \E bps \in Thresholds : set_reserve_threshold(bps)
    \/ \E c \in Chains : add_supported_chain(c) \/ remove_supported_chain(c)
    \/ \E d \in Deployments : set_deployment_id(d)
    \/ \E r \in Routes, l \in RouteLimits : set_withdrawal_route_limit(r, l)

----------------------------------------------------------------------------
Completed(kind) == {i \in TransferIds : get_transfer(i).kind = kind
                                        /\ get_transfer(i).status = "Completed"}

Burned == {i \in TransferIds : get_transfer(i).kind = "BurnUnlock"}

AmountOf(ids) == SumFunctionOnSet([i \in ids |-> get_transfer(i).amount], ids)

\* Wrapped tokens are backed: the balances add up to TotalMinted, which is what
\* executed lock-mints minted less what burn-unlocks burned, and no two lock-mints
\* rest on the same deposit of the source chain, whatever the deployment id was.
\* About execute_lock_mint, initiate_burn_unlock, retry_transfer and the two
\* replay locks.
WrappedBacked ==
    /\ SumFunction(br.balance) = br.total_minted
    /\ br.total_minted = AmountOf(Completed("LockMint")) - AmountOf(Burned)
    /\ \A i, j \in TransferIds :
          /\ i # j /\ get_transfer(i).kind = "LockMint" /\ get_transfer(j).kind = "LockMint"
          => ReplayKey(get_transfer(i)) # ReplayKey(get_transfer(j))

\* The volume counted for a day is what was initiated on that calendar day, in both
\* directions, and stays within the daily limit.  It is not the rolling 24 h volume
\* that the messages of DailyLimitExceeded speak of: the bucket starts anew at
\* midnight, and twice the limit may be moved within 24 h around it.
\* About validate_amount_and_limits across midnight.
DailyVolumeExact ==
    LET today == {i \in TransferIds :
                     day_bucket(get_transfer(i).created_at) = br.daily.day_start}
    IN  br.daily.total = AmountOf(today) /\ br.daily.total <= DailyTransferLimit

\* Wrapped tokens are backed transfer by transfer, and the calendar day's volume is
\* exactly that of the day's transfers.  About lib.rs execute_*, retry_transfer and the
\* daily limit.
BridgeBooks == WrappedBacked /\ DailyVolumeExact

-----------------------------------------------------------------------------

CONSTANTS
    Providers,
    PoolKinds,     \* <<pool_type, fee_bps, reward_bps>> of create_liquidity_pool
    PoolAmounts,
    MaxPools       \* bound: pools of a behaviour

ASSUME PoolConstants ==
    /\ IsFiniteSet(Providers) /\ PoolAmounts \subseteq Int
    /\ PoolKinds \subseteq {"ConstantProduct", "StableSwap"} \X Nat \X Nat

VARIABLE pools  \* the sequence of pools, each with its positions

LiquidityPool(kind) ==
    [type |-> kind[1], fee_bps |-> kind[2], reward_bps |-> kind[3],
     a |-> 0, b |-> 0, lp |-> 0,
     position |-> [p \in Providers |-> [lp |-> 0, rewards |-> 0]]]

PoolsInit == pools = <<>>

create_liquidity_pool(asset_a, asset_b, kind) ==
    /\ ensure_wrapped_asset_exists(asset_a) /\ ensure_wrapped_asset_exists(asset_b)
    /\ asset_a # asset_b
    /\ Len(pools) < MaxPools
    /\ pools' = Append(pools, LiquidityPool(kind))

\* i128 division, which rounds towards zero: reserves can become negative in a pool
\* whose fee is more than everything.  A divisor of zero makes the call panic.
quot(n, d) ==
    LET size(k) == IF k < 0 THEN -k ELSE k
    IN  IF (n < 0) = (d < 0) THEN size(n) \div size(d) ELSE -(size(n) \div size(d))

\* Newton's iteration in the code
integer_sqrt(n) == IF n <= 0 THEN 0
                   ELSE CHOOSE r \in 1..n : r * r <= n /\ (r + 1) * (r + 1) > n

\* Mutant: the larger of the two proportions is minted.
minted_lp_Larger(p, amount_a, amount_b) ==
    IF p.lp = 0 THEN integer_sqrt(amount_a * amount_b)
    ELSE Max({quot(amount_a * p.lp, p.a), quot(amount_b * p.lp, p.b)})

minted_lp(p, amount_a, amount_b) ==
    IF p.lp = 0 THEN integer_sqrt(amount_a * amount_b)
    ELSE Min({quot(amount_a * p.lp, p.a), quot(amount_b * p.lp, p.b)})

reward_for_liquidity(total_added, reward_bps) == (total_added * reward_bps) \div 10000

\* add_liquidity; a pool with shares and an empty reserve makes the call panic
add_bridge_liquidity(id, provider, amount_a, amount_b) ==
    LET p == pools[id]
        x == p.position[provider]
        minted == minted_lp(p, amount_a, amount_b)
    IN  /\ amount_a > 0 /\ amount_b > 0
        /\ p.lp # 0 => p.a # 0 /\ p.b # 0
        /\ minted > 0
        /\ pools' = [pools EXCEPT
               ![id].a = @ + amount_a, ![id].b = @ + amount_b, ![id].lp = @ + minted,
               ![id].position[provider] =
                   [lp |-> x.lp + minted,
                    rewards |-> x.rewards + reward_for_liquidity(amount_a + amount_b, p.reward_bps)]]

remove_bridge_liquidity(id, provider, lp_amount) ==
    LET p == pools[id]
        x == p.position[provider]
    IN  /\ lp_amount > 0
        /\ x.lp >= lp_amount /\ p.lp > 0
        /\ pools' = [pools EXCEPT
               ![id].a = @ - quot(p.a * lp_amount, p.lp),
               ![id].b = @ - quot(p.b * lp_amount, p.lp),
               ![id].lp = @ - lp_amount,
               ![id].position[provider] =
                   [lp |-> x.lp - lp_amount, rewards |-> x.rewards - (x.rewards * lp_amount) \div x.lp]]

quote_swap(type, amount_in, reserve_in, reserve_out) ==
    IF type = "ConstantProduct" THEN quot(amount_in * reserve_out, reserve_in + amount_in)
    ELSE Min({amount_in, reserve_out})

swap_bridge_assets(id, a_to_b, amount_in, min_amount_out) ==
    LET p == pools[id]
        after_fee == amount_in - (amount_in * p.fee_bps) \div 10000
        in == IF a_to_b THEN p.a ELSE p.b
        out == IF a_to_b THEN p.b ELSE p.a
        amount_out == quote_swap(p.type, after_fee, in, out)
    IN  /\ amount_in > 0
        /\ in > 0 /\ out > 0
        /\ p.type = "ConstantProduct" => in + after_fee # 0
        /\ amount_out >= min_amount_out /\ amount_out > 0
        /\ pools' = [pools EXCEPT
               ![id].a = IF a_to_b THEN @ + after_fee ELSE @ - amount_out,
               ![id].b = IF a_to_b THEN @ - amount_out ELSE @ + after_fee]

\* get_pool_health: the imbalance, in basis points
imbalance_bps(p) ==
    LET larger == Max({p.a, p.b})
    IN  IF larger = 0 THEN 0 ELSE ((larger - Min({p.a, p.b})) * 10000) \div larger

PoolStep ==
    \/ \E x, y \in WrappedAssets, k \in PoolKinds : create_liquidity_pool(x, y, k)
    \/ \E id \in 1..Len(pools) :
          \/ \E p \in Providers, x, y \in PoolAmounts : add_bridge_liquidity(id, p, x, y)
          \/ \E p \in Providers, n \in PoolAmounts : remove_bridge_liquidity(id, p, n)
          \/ \E d \in BOOLEAN, x \in PoolAmounts : swap_bridge_assets(id, d, x, 1)

\* The whole: calls of any area in any order, between ledgers that close.
BridgeNext ==
    \/ (TransferStep \/ BridgeAdminStep) /\ UNCHANGED <<now, seq, pools>>
    \/ PoolStep /\ UNCHANGED <<now, seq, br>>
    \/ CloseLedger /\ UNCHANGED <<br, pools>>

BridgeSpec == ClockInit /\ BridgeInit /\ PoolsInit /\ [][BridgeNext]_<<now, seq, br, pools>>

----------------------------------------------------------------------------
\* What the shares of a pool are worth together: the product of the reserves
\* for the one kind of pool, their sum for the other.
Worth(p) == IF p.type = "ConstantProduct" THEN p.a * p.b ELSE p.a + p.b

\* Nobody's share loses value to another's rounding: a step that leaves shares
\* outstanding never lowers the worth per share (per share squared for a product),
\* the shares are exactly the providers' positions, and a pool without shares has
\* empty reserves.  Only of pools whose fee is at most the whole amount: create_pool
\* takes any u32, and with more the amount after the fee is negative, so that a swap
\* can pay out more than the reserve and leave both reserves below zero.
\* About the divisions of add_liquidity, remove_liquidity and quote_swap.
ShareValueNeverFalls ==
    [][\A id \in 1..Len(pools) :
          LET p == pools[id]
              q == pools'[id]
          IN  p.fee_bps <= 10000 =>
                /\ q.lp = SumFunction([x \in Providers |-> q.position[x].lp])
                /\ q.lp = 0 => q.a = 0 /\ q.b = 0
                /\ p.lp > 0 /\ q.lp > 0 =>
                      IF p.type = "ConstantProduct"
                      THEN Worth(p) * q.lp * q.lp <= Worth(q) * p.lp * p.lp
                      ELSE Worth(p) * q.lp <= Worth(q) * p.lp]_pools
=============================================================================
