---------------------------- MODULE FeeCollector ----------------------------
(***************************************************************************)
(* The settings of the fee collector and the rate a trade is charged:      *)
(* fee_collector's set_* entry points, rebates.rs and fee_cache.rs.  The   *)
(* cache lies in temporary storage, which outlives the transaction that    *)
(* wrote it, under a key that ends in the last digit of the                *)
(* configuration's version.                                                *)
(* The fee collector's money: fees taken from traders and split between    *)
(* the burn, the referrer, the revenue pool and the treasury; treasury     *)
(* withdrawals, the waterfall, the insurance fund and providers' claims.   *)
(* No entry point of this version credits ProviderPendingFees: what a      *)
(* provider can claim is what storage held when the version was installed. *)
(* What the fee collector records and reports of providers' earnings:      *)
(* fee_split_policy.rs, reports.rs and the record_* entry points.          *)
(***************************************************************************)
EXTENDS LedgerClock

CONSTANTS
    Traders, FeeTokens,
    FeeRateInputs,       \* rates in basis points the admin tries
    BurnRateInputs,
    CongestionConfigs,   \* [min, max, staleness, default] the admin tries
    Multipliers,         \* congestion signals
    OptimizationConfigs, \* [max_rate, sensitivity, min_rate, retries] the admin tries
    NetworkScores,
    DiscountTiers,       \* sets of <<volume, discount>> the admin tries
    CacheSlots,          \* versioned_cache_key: 10
    LEDGERS_PER_MONTH_APPROX,
    SILVER_TIER_VOLUME_USD, GOLD_TIER_VOLUME_USD,
    MaxVersion           \* bound: writes that bump the version

ASSUME FeeConstants ==
    /\ CacheSlots \in Nat \ {0} /\ LEDGERS_PER_MONTH_APPROX \in Nat \ {0}
    /\ MaxVersion \in Nat /\ SILVER_TIER_VOLUME_USD \in Nat /\ GOLD_TIER_VOLUME_USD \in Nat
    /\ FeeRateInputs \cup BurnRateInputs \cup Multipliers \cup NetworkScores \subseteq Nat  \* u32
    /\ CongestionConfigs \subseteq [min : Nat, max : Nat, staleness : Nat, default : Nat]
    /\ OptimizationConfigs \subseteq [max_rate : Nat, sensitivity : Nat, min_rate : Nat, retries : Nat]

VARIABLE
    fr  \* the settings, the cache and the traders' monthly volumes

MAX_FEE_RATE_BPS == 100
MIN_FEE_RATE_BPS == 1
MAX_BURN_RATE_BPS == 10000
SILVER_DISCOUNT_BPS == 5
GOLD_DISCOUNT_BPS == 10

NoToken == "none"    \* no protocol token in storage
NotCached == [burn_rate |-> -1]
NoVolume == [month_bucket |-> 0, volume_usd |-> 0]

get_congestion_config ==
    [min |-> 10000, max |-> 50000, staleness |-> 300, default |-> 10000]

get_fee_optimization_config ==
    [max_rate |-> MAX_FEE_RATE_BPS, sensitivity |-> 50, min_rate |-> MIN_FEE_RATE_BPS,
     retries |-> 3]

\* The defaults of the getters in storage.rs.
InitialRates ==
         [paused |-> FALSE, callers |-> {}, oracle |-> FALSE, rate |-> 30, burn_rate |-> 1000,
          congestion |-> get_congestion_config, signal |-> [multiplier |-> 0, at |-> NoTime],
          optimization |-> get_fee_optimization_config, score |-> 0, discounts |-> {},
          protocol_token |-> NoToken, version |-> 0,
          cache |-> [s \in 0..(CacheSlots - 1) |-> NotCached],
          volume |-> [t \in Traders |-> NoVolume]]

FeeRatesInit == fr = InitialRates

FeeAtLeast(a, b) == IF a >= b THEN a ELSE b
FeeAtMost(a, b) == IF a <= b THEN a ELSE b

----------------------------------------------------------------------------
\* Settings.  A refused input leaves everything as it was.

bump_config_version(f) == [f EXCEPT !.version = @ + 1]

set_paused(paused) == fr' = [fr EXCEPT !.paused = paused]

authorize_caller(caller) == fr' = [fr EXCEPT !.callers = @ \cup {caller}]

revoke_caller(caller) == fr' = [fr EXCEPT !.callers = @ \ {caller}]

set_oracle_contract == fr' = [fr EXCEPT !.oracle = TRUE]

set_fee_rate(bps) ==
    /\ bps \in MIN_FEE_RATE_BPS..MAX_FEE_RATE_BPS
    /\ fr' = bump_config_version([fr EXCEPT !.rate = bps])

set_burn_rate(bps) ==
    /\ bps <= MAX_BURN_RATE_BPS
    /\ fr' = bump_config_version([fr EXCEPT !.burn_rate = bps])

set_congestion_config(c) ==
    /\ c.min > 0 /\ c.min <= c.max /\ c.default \in c.min..c.max
    /\ fr' = [fr EXCEPT !.congestion = c]

set_congestion_signal(multiplier) ==
    /\ multiplier \in fr.congestion.min..fr.congestion.max
    /\ fr' = [fr EXCEPT !.signal = [multiplier |-> multiplier, at |-> now]]

\* Mutant: a new configuration leaves the version, and so the slot, as it was.
set_fee_optimization_config_SameVersion(c) ==
    /\ c.max_rate \in MIN_FEE_RATE_BPS..MAX_FEE_RATE_BPS
    /\ c.sensitivity <= 10000 /\ c.min_rate >= MIN_FEE_RATE_BPS /\ c.retries <= 10
    /\ fr' = [fr EXCEPT !.optimization = c]

set_fee_optimization_config(c) ==
    /\ c.max_rate \in MIN_FEE_RATE_BPS..MAX_FEE_RATE_BPS
    /\ c.sensitivity <= 10000 /\ c.min_rate >= MIN_FEE_RATE_BPS /\ c.retries <= 10
    /\ fr' = bump_config_version([fr EXCEPT !.optimization = c])

update_network_conditions(score) ==
    /\ score <= 10000
    /\ fr' = bump_config_version([fr EXCEPT !.score = score])

\* Clearing the token stores an address nobody uses.
set_protocol_token(token) == fr' = [fr EXCEPT !.protocol_token = token]

\* At least three tiers, each with a discount the rate's ceiling allows.
set_volume_discount_config(tiers) ==
    /\ Cardinality(tiers) >= 3
    /\ \A t \in tiers : t[1] >= 0 /\ t[2] \in 1..MAX_FEE_RATE_BPS
    /\ fr' = [fr EXCEPT !.discounts = tiers]

\* External: temporary entries end with their time to live.
CacheExpires(s) ==
    /\ fr.cache[s] # NotCached
    /\ fr' = [fr EXCEPT !.cache[s] = NotCached]

----------------------------------------------------------------------------
\* The rate of a trade.

\* A signal that is too old gives way to the default.
current_effective_multiplier ==
    LET c == fr.congestion
    IN  IF fr.signal.at = NoTime \/ SatSub(now, fr.signal.at) > c.staleness THEN c.default
        ELSE FeeAtMost(FeeAtLeast(fr.signal.multiplier, c.min), c.max)

current_month_bucket == seq \div LEDGERS_PER_MONTH_APPROX

get_active_volume_usd(user) ==
    IF fr.volume[user].month_bucket = current_month_bucket THEN fr.volume[user].volume_usd ELSE 0

\* The best discount the month's volume has earned.
DiscountFor(volume) ==
    IF fr.discounts # {}
    THEN Max({0} \cup {t[2] : t \in {x \in fr.discounts : volume >= x[1]}})
    ELSE IF volume >= GOLD_TIER_VOLUME_USD THEN GOLD_DISCOUNT_BPS
    ELSE IF volume >= SILVER_TIER_VOLUME_USD THEN SILVER_DISCOUNT_BPS ELSE 0

get_fee_rate_for_user(user) ==
    FeeAtLeast(SatSub((fr.rate * current_effective_multiplier) \div 10000,
                      DiscountFor(get_active_volume_usd(user))),
               MIN_FEE_RATE_BPS)

versioned_cache_key == fr.version % CacheSlots

\* What the cache is meant to hold; at, which the properties read, is the version it
\* was filled under.
TxFeeConfigCache == [burn_rate |-> fr.burn_rate, optimization |-> fr.optimization,
                     score |-> fr.score, protocol_token |-> fr.protocol_token,
                     at |-> fr.version]

\* What a trade reads: a slot that was filled earlier is not looked at again.
load_tx_fee_config ==
    IF fr.cache[versioned_cache_key] # NotCached THEN fr.cache[versioned_cache_key]
    ELSE TxFeeConfigCache

\* ... and what the read leaves in storage.
cached(f) == [f EXCEPT !.cache[versioned_cache_key] = load_tx_fee_config]

\* The protocol's own token pays half.
effective_fee_rate_cached(base, token, c) ==
    LET raised == base + (c.score * c.optimization.sensitivity) \div 10000
        rate == FeeAtMost(FeeAtLeast(raised, c.optimization.min_rate),
                          FeeAtMost(c.optimization.max_rate, MAX_FEE_RATE_BPS))
    IN  IF token = c.protocol_token THEN FeeAtLeast(rate \div 2, MIN_FEE_RATE_BPS) ELSE rate

current_dynamic_fee_rate(trader, token) ==
    effective_fee_rate_cached(get_fee_rate_for_user(trader), token, load_tx_fee_config)

\* record_trade_volume, when the oracle answers; usd is its answer
record_trade_volume(f, user, usd) ==
    [f EXCEPT !.volume[user] = [month_bucket |-> current_month_bucket,
                                volume_usd |-> get_active_volume_usd(user) + usd]]

FeeSettingStep ==
    \/ \E p \in BOOLEAN : set_paused(p)
    \/ \E t \in Traders : authorize_caller(t) \/ revoke_caller(t)
    \/ set_oracle_contract
    \/ /\ fr.version < MaxVersion
       /\ \/ \E bps \in FeeRateInputs : set_fee_rate(bps)
          \/ \E bps \in BurnRateInputs : set_burn_rate(bps)
          \/ \E c \in OptimizationConfigs : set_fee_optimization_config(c)
          \/ \E s \in NetworkScores : update_network_conditions(s)
    \/ \E c \in CongestionConfigs : set_congestion_config(c)
    \/ \E m \in Multipliers : set_congestion_signal(m)
    \/ \E t \in FeeTokens : set_protocol_token(t)
    \/ \E d \in DiscountTiers : set_volume_discount_config(d)
    \/ \E s \in DOMAIN fr.cache : CacheExpires(s)

----------------------------------------------------------------------------
\* The configured ceiling, and the configured floor unless it lies above.
Ceiling(c) == FeeAtMost(c.max_rate, MAX_FEE_RATE_BPS)
Floor(c) == FeeAtMost(c.min_rate, Ceiling(c))

\* Every rate a trader can be charged lies between the floor and the ceiling that are
\* configured now, half of it for the protocol's token, whatever the congestion
\* signal, the network score, the discounts and the cache say, if the slot is empty
\* or was filled under the version of now.  The key keeps the last digit of the
\* version only: a slot left by a version with the same digit is read again, against
\* the comment that every write of the configuration misses the cache, and then the
\* hard limits are all that holds.  A change of the protocol's token does not count
\* as a version, so which token pays half may be out of date even before.
\* About get_fee_rate_for_user, versioned_cache_key and effective_fee_rate_cached.
RatesBounded ==
    \A u \in Traders, t \in FeeTokens :
        LET rate == current_dynamic_fee_rate(u, t)
            half == t = load_tx_fee_config.protocol_token
        IN  /\ rate \in MIN_FEE_RATE_BPS..MAX_FEE_RATE_BPS
            /\ load_tx_fee_config.at = fr.version =>
                  /\ rate <= Ceiling(fr.optimization)
                  /\ Floor(fr.optimization) <= IF half THEN 2 * rate + 1 ELSE rate

-----------------------------------------------------------------------------
CONSTANTS
    TradeAmounts,
    FirstWallet,        \* tokens a trader starts with
    FirstPending,       \* a provider's pending fees, and the tokens behind them
    WithdrawAmounts, InsuranceAmounts, InsuranceCaps,
    ClaimIds, FailedIds,
    Forecasts,          \* [cadence, window] the admin tries
    ShareInputs,        \* basis points for referral, revenue share and rebate cap
    Waterfalls,         \* sequences of [priority, target, minimum] the admin tries
    ConversionRates,    \* oracle rates over RATE_PRECISION; 0: the oracle fails
    RATE_PRECISION,     \* ORACLE_RATE_PRECISION: 1_000_000
    FEE_DAY             \* SECONDS_PER_DAY

ASSUME CollectorConstants ==
    /\ FirstWallet \in Nat /\ FirstPending \in Nat /\ FEE_DAY \in Nat \ {0}
    /\ RATE_PRECISION \in Nat \ {0} /\ ConversionRates \subseteq Nat
    /\ IsFiniteSet(Traders) /\ ShareInputs \subseteq Nat
    /\ TradeAmounts \cup WithdrawAmounts \cup InsuranceAmounts \subseteq Int  \* i128
    /\ Waterfalls \subseteq Seq([priority : Nat, target : Int, minimum : Int])

VARIABLE
    fm  \* balances, books and claims

NoQueue == [token |-> NoToken, to |-> NoToken, amount |-> 0, at |-> NoTime]
NoFailure == [trader |-> NoToken, token |-> NoToken, amount |-> 0, retries |-> 0]

FeeDays == 0..(MaxNow \div FEE_DAY)
FeeToday == now \div FEE_DAY

\* ownerless: tokens in the contract that no entry of its books stands for any more;
\* converted: what claims made in other tokens were worth in this one, which no
\* entry of the books was reduced by when it was paid
InitialBooks ==
    LET zero == [t \in FeeTokens |-> 0]
    IN       [wallet |-> [k \in Traders \X FeeTokens |-> FirstWallet],
              held |-> [t \in FeeTokens |-> FirstPending * Cardinality(Traders)],
              treasury |-> zero, pool |-> zero, insurance |-> zero, cap |-> zero,
              ownerless |-> zero, converted |-> zero, indexed |-> {}, traded |-> {}, claims |-> {},
              pending |-> [k \in Traders \X FeeTokens |-> FirstPending],
              currency |-> [p \in Traders |-> NoToken],
              referrer |-> [t \in Traders |-> NoToken], referral_bps |-> 0,
              revenue_bps |-> 2000, max_rebate |-> 8000,
              daily |-> [k \in FeeTokens \X FeeDays |-> 0],
              rebated |-> [k \in FeeTokens \X FeeDays |-> 0],
              queued |-> NoQueue, failed |-> [i \in FailedIds |-> NoFailure],
              waterfall |-> <<>>, snapshot |-> NoTime,
              forecast |-> [cadence |-> 1, window |-> 7],
              last_forecast |-> [t \in FeeTokens |-> 0]]

CollectorInit == fm = InitialBooks

----------------------------------------------------------------------------
\* Collecting a fee.

fee_amount_floor(amount, bps) == (amount * bps) \div 10000

\* fee_and_burn_amounts
FeeOf(trader, token, amount) == fee_amount_floor(amount, current_dynamic_fee_rate(trader, token))
BurnOf(fee) == fee_amount_floor(fee, load_tx_fee_config.burn_rate)

\* The referrer's share of the whole fee, out of what the burn left.
ReferralOf(trader, fee) ==
    IF fm.referrer[trader] = NoToken THEN 0
    ELSE FeeAtMost(fee_amount_floor(fee, fm.referral_bps), fee - BurnOf(fee))

\* The revenue pool's share of what the burn left, out of what the referrer left.
RevenueOf(trader, fee) ==
    FeeAtMost(fee_amount_floor(fee - BurnOf(fee), fm.revenue_bps),
              fee - BurnOf(fee) - ReferralOf(trader, fee))

\* A first trade is free.  Later ones need a fee of at least one unit, the tokens
\* and an oracle that answers.
Collectable(m, trader, token, amount, answers) ==
    /\ ~fr.paused
    /\ amount > 0
    /\ trader \notin m.traded \/
          /\ FeeOf(trader, token, amount) \in 1..m.wallet[<<trader, token>>]
          /\ fr.oracle /\ answers

\* Mutant: the referrer is paid without being booked.
collected_FreeReferral(m, trader, token, amount) ==
    LET fee == FeeOf(trader, token, amount)
    IN  IF trader \notin m.traded THEN [m EXCEPT !.traded = @ \cup {trader}]
        ELSE [m EXCEPT !.wallet[<<trader, token>>] = @ - fee,
                       !.held[token] = @ + fee - BurnOf(fee) - ReferralOf(trader, fee),
                       !.pool[token] = @ + RevenueOf(trader, fee),
                       !.treasury[token] = @ + fee - BurnOf(fee) - RevenueOf(trader, fee)]

\* A fee taken from its trader and booked.
charged(m, trader, token, fee) ==
    LET revenue == RevenueOf(trader, fee)
        remaining == fee - BurnOf(fee) - ReferralOf(trader, fee)
    IN  [m EXCEPT !.wallet[<<trader, token>>] = @ - fee,
                  !.held[token] = @ + remaining,
                  !.pool[token] = @ + revenue,
                  !.indexed = IF revenue > 0 THEN @ \cup {token} ELSE @,
                  !.treasury[token] = @ + remaining - revenue,
                  !.daily[<<token, FeeToday>>] = @ + fee,
                  !.last_forecast[token] =
                      IF FeeToday >= @ + m.forecast.cadence THEN FeeToday ELSE @]

referred(m, trader, token, referral) ==
    IF referral = 0 THEN m ELSE [m EXCEPT !.wallet[<<m.referrer[trader], token>>] = @ + referral]

\* collect_fee_with_recovery: what it does to the books
collected(m, trader, token, amount) ==
    LET fee == FeeOf(trader, token, amount)
    IN  IF trader \notin m.traded THEN [m EXCEPT !.traded = @ \cup {trader}]
        ELSE referred(charged(m, trader, token, fee), trader, token, ReferralOf(trader, fee))

\* ... and to the volumes and the cache
settled_volume(f, trader, amount, answers) ==
    LET read == IF trader \in fm.traded THEN cached(f) ELSE f
    IN  IF fr.oracle /\ answers THEN record_trade_volume(read, trader, amount) ELSE read

\* A refused collection leaves no error report: the error undoes it.
collect_fee(trader, token, amount, answers) ==
    /\ Collectable(fm, trader, token, amount, answers)
    /\ fm' = collected(fm, trader, token, amount)
    /\ fr' = settled_volume(fr, trader, amount, answers)

\* batch_collect_fees over two items: all or nothing.  One trader cannot sign twice
\* in one call, so the items are of different traders.
batch_collect_fees(a, b, token, amount, answers) ==
    /\ a # b
    /\ Collectable(fm, a, token, amount, answers)
    /\ LET first == collected(fm, a, token, amount)
       IN  /\ Collectable(first, b, token, amount, answers)
           /\ fm' = collected(first, b, token, amount)
    /\ fr' = settled_volume(settled_volume(cached(fr), a, amount, answers), b, amount, answers)

queue_failed_fee_collection(id, trader, token, amount) ==
    /\ fm' = [fm EXCEPT !.failed[id] = [trader |-> trader, token |-> token, amount |-> amount,
                                        retries |-> 0]]
    /\ UNCHANGED fr

\* A retry that fails also undoes the count it was given.
retry_failed_fee_collection(id, answers) ==
    LET x == fm.failed[id]
    IN  /\ x # NoFailure
        /\ x.retries < fr.optimization.retries
        /\ Collectable(fm, x.trader, x.token, x.amount, answers)
        /\ fm' = [collected(fm, x.trader, x.token, x.amount) EXCEPT !.failed[id] = NoFailure]
        /\ fr' = settled_volume(fr, x.trader, x.amount, answers)

----------------------------------------------------------------------------
\* The treasury.

queue_withdrawal(to, token, amount) ==
    /\ ~fr.paused
    /\ amount \in 1..fm.treasury[token]
    /\ fm' = [fm EXCEPT !.queued = [token |-> token, to |-> to, amount |-> amount, at |-> now]]

\* Mutant: the request is not used up.
withdraw_treasury_fees_Again(to, token, amount) ==
    /\ fm.queued.to = to /\ fm.queued.token = token /\ fm.queued.amount = amount
    /\ now >= fm.queued.at + FEE_DAY
    /\ amount <= fm.treasury[token]
    /\ fm' = [fm EXCEPT !.treasury[token] = @ - amount, !.held[token] = @ - amount,
                        !.wallet[<<to, token>>] = @ + amount]

withdraw_treasury_fees(to, token, amount) ==
    /\ ~fr.paused
    /\ fm.queued.to = to /\ fm.queued.token = token /\ fm.queued.amount = amount
    /\ now >= fm.queued.at + FEE_DAY
    /\ amount <= fm.treasury[token] /\ amount <= fm.held[token]
    /\ fm' = [fm EXCEPT !.treasury[token] = @ - amount, !.held[token] = @ - amount,
                        !.wallet[<<to, token>>] = @ + amount, !.queued = NoQueue]

set_waterfall_config(w) == fm' = [fm EXCEPT !.waterfall = w]

\* Tiers by priority, those of equal priority in the order they were given.
Precedes(w, i, j) ==
    w[i].priority < w[j].priority \/ (w[i].priority = w[j].priority /\ i < j)
ByPriority(w) ==
    CHOOSE order \in [DOMAIN w -> DOMAIN w] :
        \A i, j \in DOMAIN w : i < j => Precedes(w, order[i], order[j])

\* What a tier gets of what is left.
Allocated(tier, left) ==
    IF left >= tier.target THEN tier.target ELSE IF left >= tier.minimum THEN left ELSE 0

WaterfallTotal(total) ==
    total - FoldLeft(LAMBDA left, i : left - Allocated(fm.waterfall[i], left), total,
                     ByPriority(fm.waterfall))

\* The recipients are outside the contract.
distribute_waterfall(token, total) ==
    /\ ~fr.paused
    /\ total > 0
    /\ fm.waterfall # <<>>
    /\ total <= fm.treasury[token] /\ WaterfallTotal(total) <= fm.held[token]
    /\ fm' = [fm EXCEPT !.treasury[token] = @ - WaterfallTotal(total),
                        !.held[token] = @ - WaterfallTotal(total)]

set_revenue_share_rate_bps(bps) == bps <= 10000 /\ fm' = [fm EXCEPT !.revenue_bps = bps]

\* The pool is written off; no token leaves the contract.
trigger_revenue_share_snapshot(token) ==
    /\ fm.pool[token] > 0
    /\ fm' = [fm EXCEPT !.ownerless[token] = @ + fm.pool[token], !.pool[token] = 0,
                        !.indexed = @ \ {token}, !.snapshot = seq]

\* The tokens whose balance is not what the treasury's book says.
audit_balances == {t \in FeeTokens : fm.held[t] # fm.treasury[t]}

----------------------------------------------------------------------------
\* The insurance fund.

set_insurance_payout_cap(token, max_cap) ==
    max_cap >= 0 /\ fm' = [fm EXCEPT !.cap[token] = max_cap]

deposit_insurance_fund(from, token, amount) ==
    /\ ~fr.paused
    /\ amount \in 1..fm.wallet[<<from, token>>]
    /\ fm' = [fm EXCEPT !.wallet[<<from, token>>] = @ - amount, !.held[token] = @ + amount,
                        !.insurance[token] = @ + amount]

payout_insurance(to, token, amount, claim) ==
    /\ ~fr.paused
    /\ amount > 0
    /\ claim \notin fm.claims
    /\ fm.cap[token] > 0 => amount <= fm.cap[token]
    /\ amount <= fm.insurance[token] /\ amount <= fm.held[token]
    /\ fm' = [fm EXCEPT !.insurance[token] = @ - amount, !.held[token] = @ - amount,
                        !.wallet[<<to, token>>] = @ + amount, !.claims = @ \cup {claim}]

----------------------------------------------------------------------------
\* Providers' claims.

set_payout_currency(p, token) == fm' = [fm EXCEPT !.currency[p] = token]

clear_payout_currency(p) == set_payout_currency(p, NoToken)

set_max_rebate_bps(bps) == bps <= 10000 /\ fm' = [fm EXCEPT !.max_rebate = bps]

\* What the cap of the day leaves of a claim; negative when the cap was lowered.
ClaimAmount(p, token) ==
    LET fees == fm.daily[<<token, FeeToday>>]
        room == fee_amount_floor(fees, fm.max_rebate) - fm.rebated[<<token, FeeToday>>]
    IN  IF fees > 0 THEN FeeAtMost(fm.pending[<<p, token>>], room) ELSE fm.pending[<<p, token>>]

\* Mutant: what the day's cap kept back is converted as well.
Converted_Uncapped(p, token, amount, rate) ==
    LET other == fm.currency[p]
        value == (fm.pending[<<p, token>>] * rate) \div RATE_PRECISION
    IN  IF /\ amount > 0 /\ other \notin {NoToken, token}
           /\ fr.oracle /\ value > 0 /\ fm.held[other] >= value
        THEN value ELSE 0

\* try_claim_in_preferred_currency: the amount of the other token, 0 if it stays as it
\* is.  What the contract holds is looked at, not what the treasury's book says.
Converted(p, token, amount, rate) ==
    LET other == fm.currency[p]
        value == (amount * rate) \div RATE_PRECISION
    IN  IF /\ amount > 0 /\ other \notin {NoToken, token}
           /\ fr.oracle /\ value > 0 /\ fm.held[other] >= value
        THEN value ELSE 0

\* Whatever is paid, the pending entry is cleared.
claim_fees(p, token, rate) ==
    LET amount == ClaimAmount(p, token)
        paid == FeeAtLeast(amount, 0)
        value == Converted(p, token, amount, rate)
        other == fm.currency[p]
        cleared == [fm EXCEPT !.pending[<<p, token>>] = 0,
                              !.rebated[<<token, FeeToday>>] =
                                  IF fm.daily[<<token, FeeToday>>] > 0 THEN @ + paid ELSE @]
    IN  /\ ~fr.paused
        /\ fm.pending[<<p, token>>] > 0
        /\ \/ /\ value > 0
              /\ fm' = [cleared EXCEPT
                           !.held[other] = @ - value, !.wallet[<<p, other>>] = @ + value,
                           !.converted[other] = @ + (amount * rate) \div RATE_PRECISION,
                           !.ownerless[token] = @ + fm.pending[<<p, token>>]]
           \/ /\ value = 0 /\ paid <= fm.held[token]
              /\ fm' = [cleared EXCEPT
                           !.held[token] = @ - paid, !.wallet[<<p, token>>] = @ + paid,
                           !.ownerless[token] = @ + fm.pending[<<p, token>>] - paid]

----------------------------------------------------------------------------
\* Referrals.

register_referral(referrer, referee) ==
    /\ referrer # referee
    /\ fm.referrer[referee] = NoToken
    /\ fm' = [fm EXCEPT !.referrer[referee] = referrer]

admin_override_referral(referrer, referee) ==
    referrer # referee /\ fm' = [fm EXCEPT !.referrer[referee] = referrer]

set_referral_fee_share(bps) == bps <= 10000 /\ fm' = [fm EXCEPT !.referral_bps = bps]

CollectStep ==
    \/ \E t \in Traders, k \in FeeTokens, a \in TradeAmounts, ok \in BOOLEAN :
          collect_fee(t, k, a, ok) \/ \E u \in Traders : batch_collect_fees(t, u, k, a, ok)
    \/ \E i \in FailedIds :
          \/ \E t \in Traders, k \in FeeTokens, a \in TradeAmounts :
                queue_failed_fee_collection(i, t, k, a)
          \/ \E ok \in BOOLEAN : retry_failed_fee_collection(i, ok)

\* The projection a forecast publishes: the average of the days with fees.
compute_and_emit_forecast(token) ==
    LET days == {d \in FeeDays : /\ d <= FeeToday /\ d + fm.forecast.window > FeeToday
                                 /\ fm.daily[<<token, d>>] > 0}
    IN  IF days = {} THEN 0
        ELSE (MapThenSumSet(LAMBDA d : fm.daily[<<token, d>>], days) \div Cardinality(days))
             * fm.forecast.cadence

set_forecast_config(c) == c.cadence > 0 /\ c.window > 0 /\ fm' = [fm EXCEPT !.forecast = c]

trigger_fee_forecast(token) == fm' = [fm EXCEPT !.last_forecast[token] = FeeToday]

\* The rest leaves the rates alone.
TreasuryStep ==
    \/ \E t \in Traders, k \in FeeTokens, a \in WithdrawAmounts :
          queue_withdrawal(t, k, a) \/ withdraw_treasury_fees(t, k, a)
    \/ \E w \in Waterfalls : set_waterfall_config(w)
    \/ \E k \in FeeTokens, a \in WithdrawAmounts : distribute_waterfall(k, a)
    \/ \E k \in FeeTokens : trigger_revenue_share_snapshot(k) \/ trigger_fee_forecast(k)
    \/ \E c \in Forecasts : set_forecast_config(c)
    \/ \E bps \in ShareInputs :
          \/ set_revenue_share_rate_bps(bps)
          \/ set_max_rebate_bps(bps)
          \/ set_referral_fee_share(bps)
    \/ \E k \in FeeTokens, c \in InsuranceCaps : set_insurance_payout_cap(k, c)
    \/ \E t \in Traders, k \in FeeTokens, a \in InsuranceAmounts :
          \/ deposit_insurance_fund(t, k, a)
          \/ \E c \in ClaimIds : payout_insurance(t, k, a, c)

ClaimStep ==
    \/ \E p \in Traders, k \in FeeTokens :
          \/ set_payout_currency(p, k)
          \/ \E r \in ConversionRates : claim_fees(p, k, r)
    \/ \E p \in Traders : clear_payout_currency(p)
    \/ \E p, q \in Traders : register_referral(p, q) \/ admin_override_referral(p, q)

----------------------------------------------------------------------------
PendingOf(token) == SumFunctionOnSet([p \in Traders |-> fm.pending[<<p, token>>]], Traders)

\* The contract's tokens are what its books say: treasury, revenue pool, insurance
\* fund and pending claims, and what snapshots, capped and converted claims left
\* without an owner.  They are never less, but for claims paid in a currency of the
\* provider's choice: the comment says these come from the treasury, but no book is
\* reduced, so that the contract then owes more than it has, by exactly what the
\* claims, within the day's cap, were worth at the oracle's rate.
\* About collect_fee's four-way split with floor division, retries, batches,
\* withdrawals, the waterfall, the insurance fund and claim_fees.
FeesAccounted ==
    \A t \in FeeTokens :
        /\ fm.held[t] = fm.treasury[t] + fm.pool[t] + fm.insurance[t] + PendingOf(t)
                        + fm.ownerless[t] - fm.converted[t]
        /\ fm.treasury[t] >= 0 /\ fm.pool[t] >= 0 /\ fm.insurance[t] >= 0 /\ fm.held[t] >= 0
        /\ fm.ownerless[t] >= 0 /\ fm.converted[t] >= 0

\* The tokens listed for revenue sharing are those with a pool.
\* About the index kept beside the pools.
PoolIndexed == fm.indexed = {t \in FeeTokens : fm.pool[t] > 0}

\* A treasury withdrawal rests on a request of its own, a day old.
\* About the single-slot queue that queue_withdrawal overwrites.
WithdrawalsWait ==
    [][\A t \in FeeTokens, k \in Traders :
          fm'.treasury[t] < fm.treasury[t] /\ fm'.wallet[<<k, t>>] > fm.wallet[<<k, t>>] =>
             /\ fm.queued.at + FEE_DAY <= now
             /\ fm.queued.amount = fm.treasury[t] - fm'.treasury[t]
             /\ fm'.queued = NoQueue]_fm

-----------------------------------------------------------------------------

CONSTANTS
    EarningAmounts,  \* gross amounts recorded
    SplitInputs,     \* <<protocol_bps, provider_bps>> the admin tries
    MaxEarnings      \* bound: a provider's recorded total

ASSUME ReportConstants ==
    /\ MaxEarnings \in Nat /\ EarningAmounts \subseteq Int
    /\ \A policy \in SplitInputs : policy[1] \in Nat /\ policy[2] \in Nat

VARIABLE
    fe  \* the split policy and the providers' earnings

BPS_TOTAL == 10000

ReportsInit ==
    fe = [policy |-> <<3000, 7000>>, index |-> <<>>,
          daily |-> [k \in Traders \X FeeDays |-> 0],
          first |-> [p \in Traders |-> NoTime], total |-> [p \in Traders |-> 0]]

\* FeeSplitPolicy: validate and split; the provider gets the remainder
validate(policy) == policy[1] + policy[2] = BPS_TOTAL
split(policy, gross) ==
    LET protocol == (gross * policy[1]) \div BPS_TOTAL IN <<protocol, gross - protocol>>

set_fee_split_policy(policy) == validate(policy) /\ fe' = [fe EXCEPT !.policy = policy]

add_provider_to_earnings_index(index, p) ==
    IF \E i \in DOMAIN index : index[i] = p THEN index ELSE Append(index, p)

\* Mutant: the first day is moved along.
add_provider_daily_fee_shares_LastDay(p, amount) ==
    fe' = [fe EXCEPT !.daily[<<p, FeeToday>>] = @ + amount, !.first[p] = FeeToday,
                     !.total[p] = @ + amount,
                     !.index = add_provider_to_earnings_index(@, p)]

\* With add_provider_total_earnings.
add_provider_daily_fee_shares(p, amount) ==
    fe' = [fe EXCEPT !.daily[<<p, FeeToday>>] = @ + amount,
                     !.first[p] = IF @ = NoTime THEN FeeToday ELSE @,
                     !.total[p] = @ + amount,
                     !.index = add_provider_to_earnings_index(@, p)]

\* Only the admin and the authorised contracts record shares.
record_provider_fee_share(p, amount) ==
    amount > 0 /\ add_provider_daily_fee_shares(p, amount)

record_provider_gross_fee_share(p, gross) ==
    LET provider_amount == split(fe.policy, gross)[2]
    IN  /\ gross > 0
        /\ \/ provider_amount > 0 /\ add_provider_daily_fee_shares(p, provider_amount)
           \/ provider_amount = 0 /\ UNCHANGED fe

sum_fee_shares_days(p, start_day) ==
    SumFunctionOnSet([d \in FeeDays |-> fe.daily[<<p, d>>]],
                     {d \in FeeDays : d \in start_day..FeeToday})

\* get_provider_earnings_report over the days since back; NoTime: all time
get_provider_earnings_report(p, back) ==
    sum_fee_shares_days(p, IF back # NoTime THEN SatSub(FeeToday, back)
                           ELSE IF fe.first[p] = NoTime THEN FeeToday ELSE fe.first[p])

\* By total, equal totals in the order of the index.
get_provider_earnings_leaderboard ==
    LET earners == {i \in DOMAIN fe.index : fe.total[fe.index[i]] > 0}
        better(i, j) == \/ fe.total[fe.index[i]] > fe.total[fe.index[j]]
                        \/ fe.total[fe.index[i]] = fe.total[fe.index[j]] /\ i < j
        order == CHOOSE o \in [1..Cardinality(earners) -> earners] :
                     \A m, n \in DOMAIN o : m < n => better(o[m], o[n])
    IN  [n \in DOMAIN order |-> fe.index[order[n]]]

EarningStep ==
    \/ \E policy \in SplitInputs : set_fee_split_policy(policy)
    \/ \E p \in Traders, a \in EarningAmounts :
          /\ fe.total[p] + a <= MaxEarnings
          /\ record_provider_fee_share(p, a) \/ record_provider_gross_fee_share(p, a)

----------------------------------------------------------------------------
\* Reports agree with the ranking: the all-time report of a provider adds up to the
\* total it is ranked by, and the leaderboard names every provider with earnings
\* exactly once, best first.
\* About the day buckets, the first day and the index that are written separately.
EarningsAgree ==
    LET board == get_provider_earnings_leaderboard
    IN  /\ \A p \in Traders : get_provider_earnings_report(p, NoTime) = fe.total[p]
        /\ Range(board) = {p \in Traders : fe.total[p] > 0}
        /\ \A i, j \in DOMAIN board : i < j => board[i] # board[j]
                                             /\ fe.total[board[i]] >= fe.total[board[j]]

-----------------------------------------------------------------------------
\* The collector by itself.
feesVars == <<clockVars, fr, fm, fe>>

FeesInit == ClockInit /\ FeeRatesInit /\ CollectorInit /\ ReportsInit

FeesNext ==
    \/ /\ UNCHANGED clockVars
       /\ \/ FeeSettingStep /\ UNCHANGED <<fm, fe>>
          \/ CollectStep /\ UNCHANGED fe
          \/ (TreasuryStep \/ ClaimStep) /\ UNCHANGED <<fr, fe>>
          \/ EarningStep /\ UNCHANGED <<fr, fm>>
    \/ CloseLedger /\ UNCHANGED <<fr, fm, fe>>

FeesSpec == FeesInit /\ [][FeesNext]_feesVars

=============================================================================
