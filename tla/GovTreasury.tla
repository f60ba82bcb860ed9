----------------------------- MODULE GovTreasury ----------------------------
(***************************************************************************)
(* The governance token of the governance contract: the distribution made  *)
(* at initialisation, vesting, staking, vote locks and liquidity-mining    *)
(* rewards (governance/src/distribution.rs, token.rs and the balance       *)
(* helpers of lib.rs).  The token's storage entries are the fields of one  *)
(* record, so that a helper called by several entry points is an operator  *)
(* from a token record to the next one. The treasury of the governance     *)
(* contract (governance/src/treasury.rs and its entry points in lib.rs):   *)
(* asset balances, budgets with renewal, approvals with a lifetime cap,    *)
(* spends, recurring payments and rebalancing targets.  Spends leave the   *)
(* treasury's books; the tokens themselves move outside the contract.      *)
(***************************************************************************)
EXTENDS GovAccess

CONSTANTS
    Recipients,        \* DistributionRecipients: role -> account
    TOTAL_SUPPLY,
    TokenAmounts,      \* amounts callers pass
    Volumes,           \* trading volumes the admin reports
    RewardConfigs,     \* <<reward_bps, min_claim_threshold>> the admin sets
    CustomVestings,    \* <<total, start, cliff, duration>> the admin grants
    TEAM_CLIFF_DURATION, TEAM_VESTING_DURATION, EARLY_INVESTOR_VESTING_DURATION

ASSUME GovTokenConstants ==
    /\ Recipients \in [{"team", "early_investors", "community_rewards",
                        "treasury", "public_sale"} -> Accounts]
    /\ TOTAL_SUPPLY \in Nat \ {0}

VARIABLE tok  \* the token's storage

BPS_DENOMINATOR == 10000

AllocationBps ==
    [team |-> 2000, early_investors |-> 1500, community_rewards |-> 3000,
     liquidity_mining |-> 2000, treasury |-> 1000, public_sale |-> 500]

create_allocation(supply) ==
    [role \in DOMAIN AllocationBps |-> (supply * AllocationBps[role]) \div BPS_DENOMINATOR]

\* create_allocation refuses a supply that the shares do not divide exactly.
AllocationExact(supply) ==
    MapThenSumSet(LAMBDA role : create_allocation(supply)[role],
                  DOMAIN AllocationBps) = supply

ensure_unique_recipients(r) == IsInjective(r)

NoSchedule == [total |-> 0, released |-> 0, start |-> 0, cliff |-> 0, duration |-> 0,
               category |-> "None"]

VestingSchedule(total, start, cliff, duration, category) ==
    [NoSchedule EXCEPT !.total = total, !.start = start, !.cliff = cliff,
                       !.duration = duration, !.category = category]

----------------------------------------------------------------------------
\* Storage helpers of lib.rs.

track_holder(t, u) == [t EXCEPT !.holders = @ \cup {u}]

add_balance(t, u, amount) == track_holder([t EXCEPT !.bal[u] = @ + amount], u)

HasBalance(t, u, amount) == amount > 0 /\ t.bal[u] >= amount

subtract_balance(t, u, amount) == track_holder([t EXCEPT !.bal[u] = @ - amount], u)

add_staked_balance(t, u, amount) == track_holder([t EXCEPT !.staked[u] = @ + amount], u)

subtract_staked_balance(t, u, amount) ==
    track_holder([t EXCEPT !.staked[u] = @ - amount], u)

\* initialize_distribution: three roles get their tokens, two get a schedule.
initialize_distribution ==
    LET alloc == create_allocation(TOTAL_SUPPLY)
        zero == [u \in Accounts |-> 0]
        paid == {Recipients[r] : r \in {"community_rewards", "treasury", "public_sale"}}
        roleOf(u) == CHOOSE r \in DOMAIN Recipients : Recipients[r] = u
        schedule(u) ==
            IF u = Recipients["team"]
            THEN VestingSchedule(alloc["team"], now, TEAM_CLIFF_DURATION,
                                 TEAM_VESTING_DURATION, "Team")
            ELSE IF u = Recipients["early_investors"]
            THEN VestingSchedule(alloc["early_investors"], now, 0,
                                 EARLY_INVESTOR_VESTING_DURATION, "EarlyInvestors")
            ELSE NoSchedule
    IN  [bal |-> [u \in Accounts |-> IF u \in paid THEN alloc[roleOf(u)] ELSE 0],
         staked |-> zero, locks |-> zero, pending |-> zero,
         vesting |-> [u \in Accounts |-> schedule(u)],
         holders |-> Range(Recipients),
         reserved |-> 0, claimed |-> 0,
         liquidity_mining |-> alloc["liquidity_mining"],
         reward_bps |-> 100, min_claim |-> 100]

TokenInit ==
    /\ ensure_unique_recipients(Recipients)
    /\ AllocationExact(TOTAL_SUPPLY)
    /\ tok = initialize_distribution

----------------------------------------------------------------------------
\* Entry points.

stake(u, amount) ==
    /\ require_initialized /\ require_not_paused
    /\ HasBalance(tok, u, amount)
    /\ tok' = add_staked_balance(subtract_balance(tok, u, amount), u, amount)

unstake(u, amount) ==
    /\ require_initialized /\ require_not_paused
    /\ amount > 0
    /\ tok.locks[u] = 0
    /\ tok.staked[u] >= amount
    /\ tok' = add_balance(subtract_staked_balance(tok, u, amount), u, amount)

set_vote_lock(admin, u, active_votes) ==
    /\ require_admin(admin)
    /\ tok' = track_holder([tok EXCEPT !.locks[u] = active_votes], u)

\* create_vesting_schedule of distribution.rs: at most one schedule per beneficiary
create_schedule(u, v) ==
    /\ v[1] > 0
    /\ v[4] > 0 /\ v[3] <= v[4]
    /\ tok.vesting[u] = NoSchedule
    /\ tok' = track_holder([tok EXCEPT !.vesting[u] =
                                VestingSchedule(v[1], v[2], v[3], v[4], "Custom")], u)

\* Direct, or as vesting_schedule_timelocked.
create_vesting_schedule(admin, u, v) == ByAdmin(admin) /\ create_schedule(u, v)

releasable_amount(u) ==
    LET s == tok.vesting[u]
        cliff_time == SatAdd(s.start, s.cliff)
        vested == IF now >= SatAdd(s.start, s.duration) \/ s.duration = s.cliff
                  THEN s.total
                  ELSE (s.total * SatSub(now, cliff_time)) \div (s.duration - s.cliff)
    IN  IF now < cliff_time THEN 0 ELSE vested - s.released

\* Mutant: the release is paid but not recorded.
release_vested_tokens_Unrecorded(u) ==
    /\ tok.vesting[u] # NoSchedule
    /\ releasable_amount(u) > 0
    /\ tok' = add_balance(tok, u, releasable_amount(u))

release_vested_tokens(u) ==
    LET amount == releasable_amount(u)
    IN  /\ require_initialized
        /\ tok.vesting[u] # NoSchedule
        /\ now >= SatAdd(tok.vesting[u].start, tok.vesting[u].cliff)
        /\ amount > 0
        /\ tok' = add_balance([tok EXCEPT !.vesting[u].released = @ + amount], u, amount)

reward_for_volume(volume) == (volume * tok.reward_bps) \div BPS_DENOMINATOR

\* reserve_liquidity_rewards
CanReserve(amount) == tok.claimed + tok.reserved + amount <= tok.liquidity_mining

accrue_liquidity_rewards(admin, u, volume) ==
    LET reward == reward_for_volume(volume)
    IN  /\ require_admin(admin)
        /\ volume > 0
        /\ reward > 0
        /\ CanReserve(reward)
        /\ tok' = track_holder([tok EXCEPT !.reserved = @ + reward,
                                           !.pending[u] = @ + reward], u)

claim_reserved_liquidity_rewards(t, amount) ==
    [t EXCEPT !.reserved = @ - amount, !.claimed = @ + amount]

\* Mutant: the claim is paid and stays pending.
claim_liquidity_rewards_Kept(u) ==
    LET amount == tok.pending[u]
    IN  /\ amount > 0
        /\ amount >= tok.min_claim
        /\ tok.reserved >= amount
        /\ tok' = add_balance(claim_reserved_liquidity_rewards(tok, amount), u, amount)

claim_liquidity_rewards(u) ==
    LET amount == tok.pending[u]
    IN  /\ require_initialized
        /\ amount > 0
        /\ amount >= tok.min_claim
        /\ tok' = add_balance(claim_reserved_liquidity_rewards(
                                  [tok EXCEPT !.pending[u] = 0], amount), u, amount)

RewardConfigOK(c) == c[1] > 0 /\ c[2] > 0

\* update_reward_config; a committee's RewardConfigUpdate ends here too
update_reward_config(t, c) == [t EXCEPT !.reward_bps = c[1], !.min_claim = c[2]]

set_liquidity_mining_config(admin, c) ==
    /\ require_admin(admin)
    /\ RewardConfigOK(c)
    /\ tok' = update_reward_config(tok, c)

StakeSteps == \E u \in Accounts, a \in TokenAmounts : stake(u, a) \/ unstake(u, a)

TokenStep ==
    \/ UNCHANGED tl /\ StakeSteps
    \/ \E a \in Operators, u \in Accounts, v \in CustomVestings : create_vesting_schedule(a, u, v)
    \/ /\ UNCHANGED tl
       /\ \E u \in Accounts : release_vested_tokens(u) \/ claim_liquidity_rewards(u)
    \/ /\ UNCHANGED tl
       /\ \E a \in Operators :
             \/ \E u \in Accounts, n \in {0, 1} : set_vote_lock(a, u, n)
             \/ \E u \in Accounts, v \in Volumes : accrue_liquidity_rewards(a, u, v)
             \/ \E c \in RewardConfigs : set_liquidity_mining_config(a, c)

----------------------------------------------------------------------------
locked_vesting_supply ==
    MapThenSumSet(LAMBDA u : tok.vesting[u].total - tok.vesting[u].released, tok.holders)

circulating_supply ==
    TOTAL_SUPPLY - locked_vesting_supply - (tok.liquidity_mining - tok.claimed)

HeldBy(u) == tok.bal[u] + tok.staked[u]

HoldersWithTokens == {u \in tok.holders : HeldBy(u) > 0}

\* sort_holders_desc, sort_i128_asc: what the bubble sorts return, ties aside
sort_i128_asc(users) == SortSeq(SetToSeq(users), LAMBDA u, v : HeldBy(u) < HeldBy(v))

gini_bps(users) ==
    LET n == Cardinality(users)
        total == MapThenSumSet(HeldBy, users)
        ranked == sort_i128_asc(users)
        weighted_sum == FoldLeft(LAMBDA s, i : s + i * HeldBy(ranked[i]), 0, [i \in 1..n |-> i])
        value == ((2 * weighted_sum - (n + 1) * total) * BPS_DENOMINATOR) \div (n * total)
    IN  IF n <= 1 \/ total <= 0 \/ value < 0 THEN 0 ELSE value

\* analytics, with every holder in the list of top holders
HolderAnalytics ==
    LET users == HoldersWithTokens
        total_staked == MapThenSumSet(LAMBDA u : tok.staked[u], users)
    IN  [total_holders |-> Cardinality(users), total_staked |-> total_staked,
         circulating_supply |-> circulating_supply,
         staking_ratio_bps |-> IF circulating_supply <= 0 THEN 0
                               ELSE (total_staked * BPS_DENOMINATOR) \div circulating_supply,
         concentration_gini_bps |-> gini_bps(users),
         top_holders |-> Reverse(sort_i128_asc(users))]

CustomGrants ==
    MapThenSumSet(LAMBDA u : IF tok.vesting[u].category = "Custom"
                             THEN tok.vesting[u].total ELSE 0, Accounts)

\* Tokens in somebody's hands beyond the circulating supply the contract reports
\* and the custom grants that come on top of it
Surplus == MapThenSumSet(HeldBy, Accounts) - circulating_supply - CustomGrants

\* The liquidity pool's books: what is reserved is what holders can still claim,
\* paid and reserved rewards never exceed what was set aside for them, whatever
\* the reward terms were when they accrued, no schedule releases more than its
\* total, and a concentration figure is a share.
\* About accrue_liquidity_rewards and claim_liquidity_rewards under new terms.
RewardsAccounted ==
    /\ tok.reserved = MapThenSumSet(LAMBDA u : tok.pending[u], Accounts)
    /\ tok.claimed + tok.reserved <= tok.liquidity_mining
    /\ \A u \in Accounts : tok.vesting[u].released <= tok.vesting[u].total
    /\ HolderAnalytics.concentration_gini_bps \in 0..BPS_DENOMINATOR

-----------------------------------------------------------------------------

CONSTANTS
    Assets, Categories,
    AssetAmounts,      \* amounts set_treasury_asset is given
    BudgetTerms,       \* <<allocated, spend_limit, period_start, period_end, auto_renew>>
    Caps,              \* approved_cap values
    SpendAmounts,      \* amounts of spends and recurring payments
    Schedules,         \* <<frequency, end_date>> of recurring payments, 0 for no end
    TargetShares,      \* rebalance targets in basis points
    PriceMaps,         \* prices passed to rebalance: functions from assets
    MaxSpends          \* bound: spends and recurring payments

VARIABLE trs  \* StorageKey::Treasury

NoBudget == [allocated |-> 0, spent |-> 0, remaining |-> 0, spend_limit |-> 0,
             period_start |-> 0, period_end |-> 0, auto_renew |-> FALSE]

NoApproval == [approved_cap |-> 0, total_drawn |-> 0]

empty_treasury ==
    [assets |-> [x \in Assets |-> 0], tracked |-> {}, total_value_usd |-> 0,
     budgets |-> [c \in Categories |-> NoBudget],
     approved |-> [c \in Categories |-> NoApproval],
     recurring |-> <<>>, spends |-> <<>>,
     targets |-> [x \in Assets |-> 0], last_rebalance |-> 0]

TreasuryInit == trs = empty_treasury

\* track_asset and track_category keep lists of the keys in use.
track_asset(t, x) == [t EXCEPT !.tracked = @ \cup {x}]

HasBudget(t, c) == t.budgets[c] # NoBudget

HasApproval(t, c) == t.approved[c] # NoApproval

----------------------------------------------------------------------------
set_asset_balance(t, x, amount) == [track_asset(t, x) EXCEPT !.assets[x] = amount]

upsert_budget(t, c, b) ==
    [t EXCEPT !.budgets[c] = [allocated |-> b[1], spent |-> 0, remaining |-> b[1],
                              spend_limit |-> b[2], period_start |-> b[3],
                              period_end |-> b[4], auto_renew |-> b[5]]]

BudgetValid(b) == b[1] > 0 /\ b[2] > 0 /\ b[2] <= b[1] /\ b[4] > b[3]

approve_budget(t, c, cap) ==
    [t EXCEPT !.approved[c] = [approved_cap |-> cap, total_drawn |-> 0]]

\* renew_budget_if_needed: the period moves on by whole durations
renewed(b) ==
    LET duration == b.period_end - b.period_start
        periods == (now - b.period_start) \div duration
        start == b.period_start + periods * duration
    IN  IF now < b.period_end THEN b
        ELSE [b EXCEPT !.period_start = start, !.period_end = start + duration,
                       !.spent = 0, !.remaining = b.allocated]

Renewable(b) == now < b.period_end \/ b.auto_renew

\* The checks of execute_spend, in the code's order.
SpendAllowed(t, x, amount, c) ==
    /\ amount > 0
    /\ HasBudget(t, c)
    /\ Renewable(t.budgets[c])
    /\ amount <= renewed(t.budgets[c]).remaining
    /\ amount <= t.budgets[c].spend_limit
    /\ HasApproval(t, c)
    /\ t.approved[c].total_drawn + amount <= t.approved[c].approved_cap
    /\ t.assets[x] >= amount

\* Mutant: the draw on the approved cap is computed but not stored.
execute_spend_Undrawn(t, x, amount, c) ==
    LET b == renewed(t.budgets[c])
    IN  [t EXCEPT !.budgets[c] = [b EXCEPT !.spent = @ + amount, !.remaining = @ - amount],
                  !.assets[x] = @ - amount,
                  !.spends = Append(@, [amount |-> amount, asset |-> x, category |-> c,
                                        executed_at |-> now])]

execute_spend(t, x, amount, c) ==
    LET b == renewed(t.budgets[c])
    IN  [t EXCEPT !.approved[c].total_drawn = @ + amount,
                  !.budgets[c] = [b EXCEPT !.spent = @ + amount, !.remaining = @ - amount],
                  !.assets[x] = @ - amount,
                  !.spends = Append(@, [amount |-> amount, asset |-> x, category |-> c,
                                        executed_at |-> now])]

schedule_recurring_payment(t, x, amount, c, s) ==
    [track_asset(t, x) EXCEPT !.recurring =
        Append(@, [amount |-> amount, asset |-> x, category |-> c, frequency |-> s[1],
                   end_date |-> s[2], last_payment |-> now, active |-> TRUE])]

\* One payment of the run: ended, paid, or switched off because its budget,
\* approval or asset does not cover it.
process_payment(t, i) ==
    LET p == t.recurring[i]
        ends == p.end_date # 0
        paid == execute_spend(t, p.asset, p.amount, p.category)
    IN  IF ~p.active THEN t
        ELSE IF ends /\ now > p.end_date THEN [t EXCEPT !.recurring[i].active = FALSE]
        ELSE IF now < SatAdd(p.last_payment, p.frequency) THEN t
        ELSE IF ~SpendAllowed(t, p.asset, p.amount, p.category)
             THEN [t EXCEPT !.recurring[i].active = FALSE]
        ELSE [paid EXCEPT !.recurring[i].last_payment = now,
                          !.recurring[i].active = ~(ends /\ now >= p.end_date)]

total_target_bps(t) == MapThenSumSet(LAMBDA x : t.targets[x], t.tracked)

value_usd(t, prices, x) == IF t.assets[x] > 0 THEN t.assets[x] * prices[x] ELSE 0

\* The actions rebalance reports: asset -> [current, target, delta], no trade is made.
rebalance_actions(t, prices) ==
    LET total == MapThenSumSet(LAMBDA x : value_usd(t, prices, x), t.tracked)
        goal(x) == (total * t.targets[x]) \div BPS_DENOMINATOR
    IN  [x \in {y \in t.tracked : value_usd(t, prices, y) > 0 \/ t.targets[y] > 0} |->
            [current |-> value_usd(t, prices, x), target |-> goal(x),
             delta |-> goal(x) - value_usd(t, prices, x)]]

----------------------------------------------------------------------------
\* Entry points.

set_treasury_asset(admin, x, amount) ==
    /\ ByAdmin(admin)
    /\ amount >= 0
    /\ trs' = set_asset_balance(trs, x, amount)

create_budget(admin, c, b) ==
    /\ ByAdmin(admin)
    /\ BudgetValid(b)
    /\ trs' = upsert_budget(trs, c, b)

approve_treasury_budget(admin, c, cap) ==
    /\ ByAdmin(admin)
    /\ cap > 0
    /\ HasBudget(trs, c)
    /\ cap <= trs.budgets[c].allocated
    /\ trs' = approve_budget(trs, c, cap)

execute_treasury_spend(admin, x, amount, c) ==
    /\ Len(trs.spends) < MaxSpends
    /\ ByAdmin(admin)
    /\ SpendAllowed(trs, x, amount, c)
    /\ trs' = execute_spend(trs, x, amount, c)

create_recurring_payment(admin, x, amount, c, s) ==
    /\ Len(trs.recurring) < MaxSpends
    /\ ByAdmin(admin)
    /\ amount > 0 /\ s[1] > 0
    /\ s[2] # 0 => s[2] > now
    /\ HasBudget(trs, c) /\ HasApproval(trs, c)
    /\ trs' = schedule_recurring_payment(trs, x, amount, c, s)

process_recurring_payments(admin) ==
    /\ Len(trs.spends) + Len(trs.recurring) <= MaxSpends
    /\ require_admin(admin)
    /\ trs' = FoldLeft(process_payment, trs, [i \in 1..Len(trs.recurring) |-> i])

set_rebalance_target(admin, x, bps) ==
    LET t == [track_asset(trs, x) EXCEPT !.targets[x] = bps]
    IN  /\ ByAdmin(admin)
        /\ bps \in 0..BPS_DENOMINATOR
        /\ total_target_bps(t) <= BPS_DENOMINATOR
        /\ trs' = t

\* rebalance fails when a held asset has no price
rebalance_treasury(admin, prices) ==
    /\ require_admin(admin)
    /\ \A x \in trs.tracked : trs.assets[x] > 0 => x \in DOMAIN prices /\ prices[x] >= 0
    /\ trs' = [trs EXCEPT
           !.total_value_usd = MapThenSumSet(LAMBDA x : value_usd(trs, prices, x), trs.tracked),
           !.last_rebalance = now]

TreasuryStep ==
    \E a \in Operators :
        \/ \E x \in Assets, n \in AssetAmounts : set_treasury_asset(a, x, n)
        \/ \E c \in Categories, b \in BudgetTerms : create_budget(a, c, b)
        \/ \E c \in Categories, n \in Caps : approve_treasury_budget(a, c, n)
        \/ \E x \in Assets, n \in SpendAmounts, c \in Categories : execute_treasury_spend(a, x, n, c)
        \/ \E x \in Assets, n \in SpendAmounts, c \in Categories, s \in Schedules :
              create_recurring_payment(a, x, n, c, s)
        \/ UNCHANGED tl /\ process_recurring_payments(a)
        \/ \E x \in Assets, n \in TargetShares : set_rebalance_target(a, x, n)
        \/ UNCHANGED tl /\ \E p \in PriceMaps : rebalance_treasury(a, p)

----------------------------------------------------------------------------
SumOf(spends) == FoldLeft(LAMBDA s, e : s + e.amount, 0, spends)

\* build_report, with MONTH for its thirty days
TreasuryReport(MONTH) ==
    LET recent == SelectSeq(trs.spends, LAMBDA e : e.executed_at >= SatSub(now, MONTH))
        burn == SumOf(recent)
    IN  [active_budgets |-> Cardinality({c \in Categories : HasBudget(trs, c)}),
         active_recurring_payments |-> Len(SelectSeq(trs.recurring, LAMBDA p : p.active)),
         total_spends |-> Len(trs.spends), total_spent |-> SumOf(trs.spends),
         monthly_burn_rate |-> burn,
         runway_months |-> IF burn > 0 THEN trs.total_value_usd \div burn ELSE 999,
         utilization_bps |-> [c \in {k \in Categories : HasBudget(trs, k)} |->
             (trs.budgets[c].spent * BPS_DENOMINATOR) \div trs.budgets[c].allocated]]

\* get_diversification: shares of the assets that have a balance and a price
concentration_bps(prices) ==
    LET priced == {x \in trs.tracked : trs.assets[x] > 0 /\ x \in DOMAIN prices /\ prices[x] > 0}
        total == MapThenSumSet(LAMBDA x : value_usd(trs, prices, x), priced)
    IN  [x \in priced |-> (value_usd(trs, prices, x) * BPS_DENOMINATOR) \div total]

\* What a category's budget and approval say is what its spends add up to: a
\* budget's books balance, no approval is overdrawn, and a step that spends
\* raises the draw on the category's approval by exactly what left the assets,
\* so no sequence of renewals, re-approvals and pay runs spends past a cap.  A
\* recurring payment is made at most once per period and never after its end.
\* About execute_spend, process_recurring_payments and renew_budget_if_needed.
SpendsWithinBudget ==
    [][LET new == SubSeq(trs'.spends, Len(trs.spends) + 1, Len(trs'.spends))
           of(c) == SelectSeq(new, LAMBDA e : e.category = c)
           from(x) == SelectSeq(new, LAMBDA e : e.asset = x)
       IN  /\ \A c \in Categories :
                 /\ trs'.budgets[c].spent + trs'.budgets[c].remaining = trs'.budgets[c].allocated
                 /\ trs'.budgets[c].remaining >= 0
                 /\ trs'.approved[c].total_drawn <= trs'.approved[c].approved_cap
                 /\ of(c) # <<>> =>
                       trs'.approved[c].total_drawn = trs.approved[c].total_drawn + SumOf(of(c))
           /\ new # <<>> =>
                 \A x \in Assets : trs'.assets[x] = trs.assets[x] - SumOf(from(x))
           /\ TreasuryReport(1)'.total_spent = TreasuryReport(1).total_spent + SumOf(new)
           /\ \A i \in 1..Len(trs.recurring) :
                 LET p == trs.recurring[i]
                 IN  trs'.recurring[i].last_payment # p.last_payment =>
                        /\ p.active
                        /\ now >= p.last_payment + p.frequency
                        /\ p.end_date # 0 => now <= p.end_date]_trs
=============================================================================
