----------------------------- MODULE SignalStats ----------------------------
(***************************************************************************)
(* The signal registry's administration: roles, parameters, pauses and the *)
(* circuit breaker, the admin's hand-over, and the multi-sig proposals     *)
(* with their time locks (signal_registry: admin.rs,                       *)
(* multisig_approvals.rs; common: multisig.rs, emergency.rs). What the     *)
(* signal registry keeps about its providers: stakes, performance figures, *)
(* followers and their cohorts, trust scores, leaderboards,                *)
(* specializations and profiles (signal_registry: stake.rs, social.rs,     *)
(* cohort_retention.rs, reputation.rs, leaderboard.rs, churn_risk.rs,      *)
(* providers.rs).  The rate limiter the calls go through is RateLimiter.   *)
(***************************************************************************)
EXTENDS LedgerClock

CONSTANTS
    Operators,           \* addresses that administer or sign
    SignerInputs,        \* [signers, threshold] given to enable_multisig
    CriticalPayloads,    \* payloads [act, arg] of critical actions
    DelayInputs,         \* time locks given to set_multisig_timelock_config
    BreakerInputs,       \* circuit breaker configurations
    TradeReports,        \* reports [failed, volume, price] to the breaker
    MAX_FEE_BPS, MAX_RISK_PERCENTAGE, ADMIN_TRANSFER_LEDGERS,
    MAX_ACTIVE_PROPOSALS, MAX_SIGNER_COUNT, BREAKER_WINDOW, PRICE_WINDOW,
    MaxApprovals         \* bound: proposals of a behaviour

\* The variants of CriticalActionPayload
CriticalActions ==
    {"SetTradeFee", "SetMinStake", "SetRiskDefaults", "SetTierSignalLimits", "PauseCategory",
     "UnpauseCategory", "PauseFeeCollection", "ResumeFeeCollection", "SetGuardian",
     "ProposeAdminTransfer"}

ASSUME RegistryAdminConstants ==
    /\ MAX_FEE_BPS \in Nat /\ MAX_RISK_PERCENTAGE \in Nat /\ ADMIN_TRANSFER_LEDGERS \in Nat
    /\ MAX_ACTIVE_PROPOSALS \in Nat /\ MAX_SIGNER_COUNT \in Nat /\ MaxApprovals \in Nat
    /\ \A p \in CriticalPayloads : p = [act |-> p.act, arg |-> p.arg] /\ p.act \in CriticalActions

VARIABLE
    sa  \* AdminStorageKey and MultisigStorageKey

Roles == {"Config", "Emergency", "Treasury"}
NoStats == [attempts |-> 0, failures |-> 0, start |-> 1, volume |-> 0, price |-> 0, at |-> 0]

init_admin(admin) ==
    [admin |-> admin, guardian |-> {}, role |-> [r \in Roles |-> {}], pending |-> <<>>,
     min_stake |-> 1, fee |-> 10, risk |-> <<15, 20>>, limits |-> <<2, 3, 4>>,
     pause |-> <<>>, fee_paused |-> FALSE, multisig |-> FALSE, signers |-> <<>>,
     threshold |-> 0, proposals |-> <<>>, active |-> 0, delay |-> CHOOSE d \in DelayInputs : TRUE,
     stats |-> NoStats, breaker |-> <<>>, protected |-> TRUE]

-----------------------------------------------------------------------------
is_multisig_signer(a) == sa.multisig /\ Contains(sa.signers, a)
require_admin(a) == IF sa.multisig THEN is_multisig_signer(a) ELSE a = sa.admin
require_direct_admin_or_not_multisig(a) == ~sa.multisig /\ require_admin(a)
require_role_or_admin(a, role) == a \in sa.role[role] \/ require_admin(a)
require_config_admin(a) == require_role_or_admin(a, "Config")
require_emergency_admin(a) == require_role_or_admin(a, "Emergency")
require_treasury_admin(a) == require_role_or_admin(a, "Treasury")

set_admin_role(caller, role, account) ==
    /\ require_direct_admin_or_not_multisig(caller)
    /\ sa' = [sa EXCEPT !.role[role] = {account}]

\* pause [until]: NoTime for one without an end.
is_state_active(until) == until = NoTime \/ now < until
is_category_paused(category) ==
    \/ "all" \in DOMAIN sa.pause /\ is_state_active(sa.pause["all"])
    \/ category \in DOMAIN sa.pause /\ is_state_active(sa.pause[category])

-----------------------------------------------------------------------------
\* The parameter changes, as direct calls and proposals make them.
set_min_stake_direct(s, amount) == [s EXCEPT !.min_stake = amount]
set_trade_fee_direct(s, fee) == [s EXCEPT !.fee = fee]
set_risk_defaults_direct(s, risk) == [s EXCEPT !.risk = risk]
set_tier_signal_limits_direct(s, limits) == [s EXCEPT !.limits = limits]
pause_category_direct(s, category, duration) ==
    [s EXCEPT !.pause = Put(@, category, IF duration = NoTime THEN NoTime ELSE now + duration)]
unpause_category_direct(s, category) == [s EXCEPT !.pause = Drop(@, category)]
pause_fee_collection_direct(s) == [s EXCEPT !.fee_paused = TRUE]
resume_fee_collection_direct(s) == [s EXCEPT !.fee_paused = FALSE]
set_guardian_direct(s, guardian) == [s EXCEPT !.guardian = {guardian}]
propose_admin_transfer_direct(s, new_admin) ==
    [s EXCEPT !.pending = <<new_admin, seq + ADMIN_TRANSFER_LEDGERS>>]

payload_valid(p) ==
    CASE p.act = "SetTradeFee" -> p.arg <= MAX_FEE_BPS
      [] p.act = "SetMinStake" -> p.arg > 0
      [] p.act = "SetRiskDefaults" -> \A i \in {1, 2} : p.arg[i] <= MAX_RISK_PERCENTAGE
      [] OTHER -> TRUE

dispatch_payload(s, p) ==
    CASE p.act = "SetTradeFee" -> set_trade_fee_direct(s, p.arg)
      [] p.act = "SetMinStake" -> set_min_stake_direct(s, p.arg)
      [] p.act = "SetRiskDefaults" -> set_risk_defaults_direct(s, p.arg)
      [] p.act = "SetTierSignalLimits" -> set_tier_signal_limits_direct(s, p.arg)
      [] p.act = "PauseCategory" -> pause_category_direct(s, p.arg[1], p.arg[2])
      [] p.act = "UnpauseCategory" -> unpause_category_direct(s, p.arg)
      [] p.act = "PauseFeeCollection" -> pause_fee_collection_direct(s)
      [] p.act = "ResumeFeeCollection" -> resume_fee_collection_direct(s)
      [] p.act = "SetGuardian" -> set_guardian_direct(s, p.arg)
      [] p.act = "ProposeAdminTransfer" -> propose_admin_transfer_direct(s, p.arg)

\* Who may make a change without a proposal; the guardian may pause at any time.
set_trade_fee(a) == ~sa.multisig /\ require_config_admin(a)
pause_category(a) == a \in sa.guardian \/ (~sa.multisig /\ require_emergency_admin(a))
may_directly(a, act) ==
    CASE act = "SetTradeFee" -> set_trade_fee(a)
      [] act \in {"SetMinStake", "SetRiskDefaults", "SetTierSignalLimits"} ->
             require_config_admin(a)
      [] act = "PauseCategory" -> pause_category(a)
      [] act = "ProposeAdminTransfer" -> require_direct_admin_or_not_multisig(a)
      [] OTHER -> require_emergency_admin(a)

change_directly(caller, p) ==
    /\ may_directly(caller, p.act) /\ payload_valid(p)
    /\ sa' = dispatch_payload(sa, p)

revoke_guardian(caller) ==
    /\ require_emergency_admin(caller) /\ sa.guardian # {}
    /\ sa' = [sa EXCEPT !.guardian = {}]

\* The clean-up of an expired transfer is undone by the error it comes with.
require_active_pending_admin_transfer == sa.pending # <<>> /\ seq <= sa.pending[2]
accept_admin_transfer(caller) ==
    /\ require_active_pending_admin_transfer /\ caller = sa.pending[1]
    /\ sa' = [sa EXCEPT !.admin = caller, !.pending = <<>>]
cancel_admin_transfer(caller) ==
    /\ require_admin(caller) /\ require_active_pending_admin_transfer
    /\ sa' = [sa EXCEPT !.pending = <<>>]

disable_self_destruct_protection(caller) ==
    require_admin(caller) /\ sa' = [sa EXCEPT !.protected = FALSE]

-----------------------------------------------------------------------------
\* common multisig.rs
validate_signer_config(signers, threshold) ==
    /\ threshold \in 1..Len(signers) /\ Len(signers) <= MAX_SIGNER_COUNT
    /\ IsInjective(signers)

enable_multisig(caller, cfg) ==
    /\ require_admin(caller) /\ validate_signer_config(cfg.signers, cfg.threshold)
    /\ sa' = [sa EXCEPT !.multisig = TRUE, !.signers = cfg.signers, !.threshold = cfg.threshold]
\* The signers and the proposals stay stored.
disable_multisig(caller) == require_admin(caller) /\ sa' = [sa EXCEPT !.multisig = FALSE]
add_multisig_signer(caller, a) ==
    /\ require_admin(caller) /\ sa.multisig /\ ~Contains(sa.signers, a)
    /\ sa' = [sa EXCEPT !.signers = Append(@, a)]
remove_multisig_signer(caller, a) ==
    /\ require_admin(caller) /\ sa.multisig
    /\ Len(sa.signers) - 1 >= sa.threshold /\ Contains(sa.signers, a)
    /\ sa' = [sa EXCEPT !.signers = Without(@, a)]

action_type_for_payload(p) ==
    CASE p.act = "SetTradeFee" -> "FeeChange"
      [] p.act \in {"SetMinStake", "SetRiskDefaults", "SetTierSignalLimits"} -> "ParameterUpdate"
      [] p.act = "PauseCategory" -> "Pause"
      [] p.act = "UnpauseCategory" -> "Unpause"
      [] p.act = "SetGuardian" -> "SetGuardian"
      [] p.act = "ProposeAdminTransfer" -> "AdminTransfer"
      [] OTHER -> "ConfigUpdate"

delay_for(p) == At(sa.delay, action_type_for_payload(p), 0)

\* A proposal with its approvals, approved and dated once they reach the threshold.
settle_approval(p) ==
    IF Len(p.approvals) < sa.threshold THEN p
    ELSE [p EXCEPT !.status = "Approved", !.executable_at = SatAdd(now, delay_for(p.payload))]

propose(caller, payload) ==
    LET p == [payload |-> payload, approvals |-> <<caller>>, status |-> "Pending",
              executable_at |-> 0]
    IN  /\ sa.multisig /\ is_multisig_signer(caller)
        /\ validate_signer_config(sa.signers, sa.threshold)
        /\ sa.active < MAX_ACTIVE_PROPOSALS /\ Len(sa.proposals) < MaxApprovals
        /\ sa' = [sa EXCEPT !.proposals = Append(@, settle_approval(p)), !.active = @ + 1]

approve(caller, id) ==
    LET p == sa.proposals[id]
    IN  /\ is_multisig_signer(caller) /\ p.status = "Pending" /\ ~Contains(p.approvals, caller)
        /\ sa' = [sa EXCEPT !.proposals[id] =
                     settle_approval([p EXCEPT !.approvals = Append(@, caller)])]

cancel(caller, id) ==
    /\ is_multisig_signer(caller) /\ sa.proposals[id].status \in {"Pending", "Approved"}
    /\ sa' = [sa EXCEPT !.proposals[id].status = "Cancelled", !.active = Floor0(@ - 1)]

\* Mutant: the time lock is not looked at.
prepare_execution_AtOnce(caller, id) ==
    is_multisig_signer(caller) /\ sa.proposals[id].status = "Approved"

prepare_execution(caller, id) ==
    /\ is_multisig_signer(caller) /\ sa.proposals[id].status = "Approved"
    /\ now >= sa.proposals[id].executable_at

\* A payload that is no longer valid refuses the call; the proposal stays approved.
execute_proposal(caller, id) ==
    LET p == sa.proposals[id]
    IN  /\ prepare_execution(caller, id) /\ payload_valid(p.payload)
        /\ sa' = dispatch_payload([sa EXCEPT !.proposals[id].status = "Executed",
                                             !.active = Floor0(@ - 1)], p.payload)

set_timelock_config(caller, delay) == require_admin(caller) /\ sa' = [sa EXCEPT !.delay = delay]

-----------------------------------------------------------------------------
set_circuit_breaker_config(caller, cfg) ==
    require_emergency_admin(caller) /\ sa' = [sa EXCEPT !.breaker = <<cfg>>]

\* common emergency.rs; the 24 hour average is never written, so the spike rule never holds.
check_thresholds(stats, cfg, price) ==
    \/ /\ stats.attempts >= 5 /\ now < stats.start + BREAKER_WINDOW
       /\ (stats.failures * 10000) \div stats.attempts > cfg.max_failure_rate_bps
    \/ /\ stats.price > 0 /\ now < stats.at + PRICE_WINDOW
       /\ ((IF price > stats.price THEN price - stats.price ELSE stats.price - price) * 10000)
              \div stats.price > cfg.max_price_move_bps
    \/ stats.volume > cfg.max_loss_1h

\* The last price is replaced before the thresholds are checked; no entry point reports.
update_circuit_breaker_stats(r) ==
    LET old == IF now >= sa.stats.start + BREAKER_WINDOW
               THEN [sa.stats EXCEPT !.attempts = 0, !.failures = 0, !.start = now] ELSE sa.stats
        stats == [old EXCEPT !.attempts = @ + 1, !.failures = IF r.failed THEN @ + 1 ELSE @,
                             !.volume = @ + r.volume,
                             !.price = IF r.price > 0 THEN r.price ELSE @,
                             !.at = IF r.price > 0 THEN now ELSE @]
        trips == sa.breaker # <<>> /\ check_thresholds(stats, sa.breaker[1], r.price)
    IN  sa' = [sa EXCEPT !.stats = stats,
                         !.pause = IF trips THEN Put(@, "all", NoTime) ELSE @]

-----------------------------------------------------------------------------
AdminChangeStep ==
    \E c \in Operators :
        \/ \E p \in CriticalPayloads : change_directly(c, p)
        \/ \E r \in Roles, a \in Operators : set_admin_role(c, r, a)
        \/ revoke_guardian(c) \/ accept_admin_transfer(c) \/ cancel_admin_transfer(c)
        \/ disable_self_destruct_protection(c)
        \/ \E cfg \in BreakerInputs : set_circuit_breaker_config(c, cfg)
BreakerStep == \E r \in TradeReports : update_circuit_breaker_stats(r)
SignerStep ==
    \E c \in Operators :
        \/ \E cfg \in SignerInputs : enable_multisig(c, cfg)
        \/ disable_multisig(c)
        \/ \E a \in Operators : add_multisig_signer(c, a) \/ remove_multisig_signer(c, a)
        \/ \E d \in DelayInputs : set_timelock_config(c, d)
ProposalStep ==
    \E c \in Operators :
        \/ \E p \in CriticalPayloads : propose(c, p)
        \/ \E id \in DOMAIN sa.proposals :
               approve(c, id) \/ cancel(c, id) \/ execute_proposal(c, id)

\* The administration by itself, from its installation.
AdminStep == AdminChangeStep \/ BreakerStep \/ SignerStep \/ ProposalStep
AdminInit == ClockInit /\ \E admin \in Operators : sa = init_admin(admin)
AdminNext ==
    \/ AdminStep /\ UNCHANGED clockVars
    \/ CloseLedger /\ UNCHANGED sa
AdminSpec == AdminInit /\ [][AdminNext]_<<clockVars, sa>>

-----------------------------------------------------------------------------
(* While multi-sig is on, the trade fee changes only by a proposal that    *)
(* this step executes, that its approvals had carried to the threshold in  *)
(* an earlier state, and whose time lock, dated when it was approved, has  *)
(* passed; the count that limits open proposals stays exact whatever the   *)
(* order of cancels, executions and signer changes.                        *)
OpenProposals(s) == {id \in DOMAIN s.proposals : s.proposals[id].status \in {"Pending", "Approved"}}
FeeStep ==
    /\ sa.multisig /\ sa'.fee # sa.fee =>
          \E id \in DOMAIN sa.proposals :
              /\ sa.proposals[id].status = "Approved" /\ sa'.proposals[id].status = "Executed"
              /\ sa.proposals[id].payload = [act |-> "SetTradeFee", arg |-> sa'.fee]
              /\ now >= sa.proposals[id].executable_at
    /\ sa'.active = Cardinality(OpenProposals(sa'))

\* The trade fee is behind the multi-sig and its time lock, and the count of open proposals
\* is exact.  About multisig_approvals.rs and common/src/multisig.rs.
FeeByProposal == [][FeeStep]_sa

-----------------------------------------------------------------------------

CONSTANTS
    Providers, Followers,
    AddressRank,         \* [Providers -> Nat]: the order of address strings
    SignalTags,          \* specialization tags
    StakeInputs, MedianInputs,
    GOLD_TIER_STAKE, DEFAULT_MINIMUM_STAKE, MIN_CLOSED_SIGNALS, INDEX_CAPACITY,
    MAX_LEADERBOARD_LIMIT, MIN_SIGNALS_FOR_TRUST_SCORE, MAX_TENURE_DAYS,
    VERIFIED_SIGNALS, MAX_TAGS_PER_PROVIDER, MAX_ADMIN_TAGS,
    STATS_DAY, STATS_WEEK  \* seconds of a day and of a week

ASSUME StatsConstants ==
    /\ AddressRank \in [Providers -> Nat]
    /\ GOLD_TIER_STAKE \in Nat /\ DEFAULT_MINIMUM_STAKE \in Nat
    /\ MIN_CLOSED_SIGNALS \in Nat /\ INDEX_CAPACITY \in Nat
    /\ STATS_DAY \in Nat \ {0} /\ STATS_WEEK \in Nat \ {0} /\ MAX_TENURE_DAYS \in Nat \ {0}

VARIABLE
    sg  \* the registry's signals and what it knows of their providers

\* Division of signed integers rounds toward zero.
TruncDiv(a, b) == IF a < 0 THEN -((-a) \div b) ELSE a \div b

ProviderPerformance ==
    [total_signals |-> 0, successful_signals |-> 0, failed_signals |-> 0, success_rate |-> 0,
     avg_return |-> 0, total_volume |-> 0, total_copies |-> 0, follower_count |-> 0]
LeaderboardKey == {"SuccessRate", "Adopters", "ProfitDelta", "Stake"}

InitialStats ==
    [stakes |-> <<>>, stats |-> <<>>, followed |-> [u \in Followers |-> <<>>], follow |-> {},
     follower_count |-> <<>>, first_follow |-> <<>>, cohorts |-> <<>>, trust |-> <<>>,
     medians |-> <<2, 2>>, first_signal |-> <<>>, index |-> [k \in LeaderboardKey |-> <<>>],
     tags |-> <<>>, specializations |-> <<>>, by_tag |-> <<>>, profiles |-> <<>>,
     appeals |-> <<>>, banned |-> {}, churn_threshold |-> 67, churn |-> <<>>]

get_provider_stats(g, p) == At(g.stats, p, ProviderPerformance)
get_stake_info(g, p) == At(g.stakes, p, 0)
get_follower_count(g, p) == At(g.follower_count, p, 0)

-----------------------------------------------------------------------------
\* stake.rs.  No call sets locked_until, so a stake is never locked.
stake(provider, amount) ==
    /\ amount > 0 /\ get_stake_info(sg, provider) + amount >= DEFAULT_MINIMUM_STAKE
    /\ sg' = [sg EXCEPT !.stakes = Put(@, provider, get_stake_info(sg, provider) + amount)]
unstake(provider) ==
    /\ get_stake_info(sg, provider) > 0
    /\ sg' = [sg EXCEPT !.stakes[provider] = 0]
set_provider_stake(provider, amount) ==
    amount >= 0 /\ sg' = [sg EXCEPT !.stakes = Put(@, provider, amount)]

StakeTier(amount) ==
    CASE amount >= GOLD_TIER_STAKE -> 3
      [] amount >= GOLD_TIER_STAKE \div 2 -> 2
      [] amount >= GOLD_TIER_STAKE \div 10 -> 1
      [] OTHER -> 0

-----------------------------------------------------------------------------
\* leaderboard.rs
IndexEntry(g, p) ==
    LET stats == get_provider_stats(g, p)
        closed == stats.successful_signals + stats.failed_signals
    IN [provider |-> p, closed_signals |-> closed,
        score |-> [SuccessRate |-> stats.success_rate, Adopters |-> stats.total_copies,
                   ProfitDelta |-> stats.avg_return * closed, Stake |-> get_stake_info(g, p)],
        verified |-> get_stake_info(g, p) >= DEFAULT_MINIMUM_STAKE,
        registered_at |-> IF p \in DOMAIN g.profiles THEN g.profiles[p].created_at ELSE 0]

is_qualified(entry) == entry.closed_signals >= MIN_CLOSED_SIGNALS /\ entry.score["Adopters"] > 0

\* entry goes before existing: a higher score, then the older registration, then the address.
Outranks(key, entry, existing) ==
    \/ entry.score[key] > existing.score[key]
    \/ /\ entry.score[key] = existing.score[key]
       /\ \/ entry.registered_at < existing.registered_at
          \/ /\ entry.registered_at = existing.registered_at
             /\ AddressRank[entry.provider] < AddressRank[existing.provider]

upsert_sorted_Twice(index, entry, key) ==
    LET at == SelectInSeq(index, LAMBDA e : Outranks(key, entry, e))
    IN IF ~is_qualified(entry) THEN index
       ELSE InsertAt(index, IF at = 0 THEN Len(index) + 1 ELSE at, entry)

upsert_sorted(index, entry, key) ==
    LET without == SelectSeq(index, LAMBDA e : e.provider # entry.provider)
        at == SelectInSeq(without, LAMBDA e : Outranks(key, entry, e))
        result == InsertAt(without, IF at = 0 THEN Len(without) + 1 ELSE at, entry)
    IN IF ~is_qualified(entry) THEN without
       ELSE SubSeq(result, 1, Capped(Len(result), INDEX_CAPACITY))

update_leaderboard_index(g, p) ==
    [g EXCEPT !.index = [k \in LeaderboardKey |-> upsert_sorted(@[k], IndexEntry(g, p), k)]]

\* What the leaderboard views return: the first limit providers of an index.
get_provider_leaderboard(key, limit) ==
    SubSeq(sg.index[key], 1,
           Capped(IF limit = 0 THEN 10 ELSE Capped(limit, MAX_LEADERBOARD_LIMIT), Len(sg.index[key])))

\* The views that sort on the fly: by followers, by success rate, by trust score.
get_followers_leaderboard(limit) ==
    LET followed == {p \in DOMAIN sg.stats : get_follower_count(sg, p) > 0}
        ranked == SetToSortSeq(followed,
                      LAMBDA a, b : get_follower_count(sg, a) > get_follower_count(sg, b))
    IN SubSeq(ranked, 1, Capped(limit, Len(ranked)))
get_top_providers(limit) ==
    LET ranked == SetToSortSeq(DOMAIN sg.stats,
                      LAMBDA a, b : sg.stats[a].success_rate > sg.stats[b].success_rate)
    IN SubSeq(ranked, 1, Capped(limit, Len(ranked)))

-----------------------------------------------------------------------------
\* reputation.rs
calculate_success_rate_component(perf) == IF perf.total_signals = 0 THEN 0 ELSE perf.success_rate
calculate_consistency_component(perf) ==
    IF perf.total_signals < 2 THEN 5000
    ELSE LET ret == Capped(IF perf.avg_return < -10000 THEN -10000 ELSE perf.avg_return, 10000)
         IN Capped((Capped(perf.success_rate, 10000) * 60
                    + ((ret + 10000) \div 2) * 40) \div 100, 10000)
calculate_stake_component(g, amount) ==
    CASE amount <= 0 -> 0
      [] amount > 0 /\ g.medians[1] <= 0 -> 5000
      [] OTHER -> Capped((amount * 10000) \div g.medians[1], 10000)
calculate_follower_component(g, p) ==
    IF g.medians[2] <= 0 THEN 5000
    ELSE Capped((get_follower_count(g, p) * 10000) \div g.medians[2], 10000)
calculate_tenure_component(g, p) ==
    IF p \notin DOMAIN g.first_signal THEN 0
    ELSE LET days == (now - g.first_signal[p]) \div STATS_DAY
         IN IF days >= MAX_TENURE_DAYS THEN 10000 ELSE (days * 10000) \div MAX_TENURE_DAYS
calculate_weighted_score(success, consistency, amount, followers, tenure) ==
    Capped((success * 4000 + consistency * 2000 + amount * 1500 + followers * 1500 + tenure * 1000)
               \div 1000000, 100)
get_trust_score_tier(score) ==
    CASE score >= 80 -> "HighlyTrusted" [] score \in 60..79 -> "Trusted"
      [] score \in 40..59 -> "Emerging" [] OTHER -> "NewUnproven"

calculate_trust_score(g, p) ==
    LET perf == get_provider_stats(g, p)
        enough == perf.total_signals >= MIN_SIGNALS_FOR_TRUST_SCORE
        score == IF ~enough THEN 0 ELSE
                 calculate_weighted_score(
                     calculate_success_rate_component(perf), calculate_consistency_component(perf),
                     calculate_stake_component(g, get_stake_info(g, p)),
                     calculate_follower_component(g, p), calculate_tenure_component(g, p))
    IN [score |-> score, tier |-> get_trust_score_tier(score), history |-> enough, at |-> now]

\* None when the provider has no stats.
update_provider_trust_score(g, p) ==
    IF p \in DOMAIN g.stats THEN [g EXCEPT !.trust = Put(@, p, calculate_trust_score(g, p))] ELSE g
record_first_signal(g, p) ==
    IF p \in DOMAIN g.first_signal THEN g ELSE [g EXCEPT !.first_signal = Put(@, p, now)]

get_trust_score_leaderboard(limit) ==
    LET scored == {p \in DOMAIN sg.stats : calculate_trust_score(sg, p).history}
        ranked == SetToSortSeq(scored,
                      LAMBDA a, b : calculate_trust_score(sg, a).score > calculate_trust_score(sg, b).score)
    IN SubSeq(ranked, 1, IF limit > 0 /\ limit < Len(ranked) THEN limit ELSE Len(ranked))
get_trust_score_distribution ==
    [t \in {"HighlyTrusted", "Trusted", "Emerging", "NewUnproven"} |->
        Cardinality({p \in DOMAIN sg.stats :
            calculate_trust_score(sg, p).history /\ calculate_trust_score(sg, p).tier = t})]

outcome_points(outcome) == CASE outcome = "Profit" -> 100 [] outcome = "Neutral" -> 50 [] OTHER -> 0
next_reputation_score(old, outcome) == (old * 9 + outcome_points(outcome)) \div 10
update_median_values(medians) == sg' = [sg EXCEPT !.medians = medians]

-----------------------------------------------------------------------------
\* cohort_retention.rs: followers by the week of their first follow.
week_slot(t) == t \div STATS_WEEK
load_cohort(g, p, slot) == At(g.cohorts, <<p, slot>>, <<0, 0, 0, 0>>)
record_follow(g, p, user) ==
    IF <<p, user>> \in DOMAIN g.first_follow THEN g
    ELSE [g EXCEPT !.first_follow = Put(@, <<p, user>>, week_slot(now)),
                   !.cohorts = Put(@, <<p, week_slot(now)>>,
                                   [load_cohort(g, p, week_slot(now)) EXCEPT ![1] = @ + 1])]
record_activity(g, p, user) ==
    IF <<p, user>> \notin DOMAIN g.first_follow THEN g
    ELSE LET slot == g.first_follow[<<p, user>>]
             weeks == week_slot(now) - slot
             data == load_cohort(g, p, slot)
             grown(i, after) == data[i] + (IF weeks >= after THEN 1 ELSE 0)
         IN [g EXCEPT !.cohorts = Put(@, <<p, slot>>,
                                      <<data[1], grown(2, 1), grown(3, 4), grown(4, 12)>>)]
get_cohort_retention(p, slot) ==
    LET data == load_cohort(sg, p, slot)
    IN [i \in 2..4 |-> IF data[1] = 0 THEN 0 ELSE (data[i] * 10000) \div data[1]]

\* social.rs
is_following(g, user, p) == <<user, p>> \in g.follow
social_follow(g, user, p) ==
    IF is_following(g, user, p) THEN g
    ELSE [g EXCEPT !.followed[user] = Append(@, p), !.follow = @ \cup {<<user, p>>},
                   !.follower_count = Put(@, p, get_follower_count(g, p) + 1)]
social_unfollow(g, user, p) ==
    LET count == Floor0(get_follower_count(g, p) - 1)
    IN IF ~is_following(g, user, p) THEN g
       ELSE [g EXCEPT !.followed[user] = Without(@, p), !.follow = @ \ {<<user, p>>},
                      !.follower_count = IF count = 0 THEN Drop(@, p) ELSE Put(@, p, count)]

sync_provider_social_metrics(g, p) ==
    LET stats == [get_provider_stats(g, p) EXCEPT !.follower_count = get_follower_count(g, p)]
    IN update_leaderboard_index([g EXCEPT !.stats = Put(@, p, stats)], p)
follow_provider(user, p) ==
    /\ user # p
    /\ sg' = update_provider_trust_score(
                 sync_provider_social_metrics(record_follow(social_follow(sg, user, p), p, user), p), p)
unfollow_provider(user, p) ==
    sg' = update_provider_trust_score(sync_provider_social_metrics(social_unfollow(sg, user, p), p), p)

-----------------------------------------------------------------------------
\* providers.rs
add_specialization_tag(tag) ==
    /\ Contains(sg.tags, tag) \/ Len(sg.tags) < MAX_ADMIN_TAGS
    /\ sg' = [sg EXCEPT !.tags = AddOnce(@, tag)]
remove_specialization_tag(tag) == sg' = [sg EXCEPT !.tags = Without(@, tag)]

unlist_specializations(by_tag, p, tags) ==
    FoldLeft(LAMBDA b, t : LET left == Without(At(b, t, <<>>), p)
                           IN IF left = <<>> THEN Drop(b, t) ELSE Put(b, t, left), by_tag, tags)
set_provider_specializations_Stale(p, tags) ==
    /\ Len(tags) <= MAX_TAGS_PER_PROVIDER /\ \A i \in DOMAIN tags : Contains(sg.tags, tags[i])
    /\ sg' = [sg EXCEPT
         !.specializations = Put(@, p, tags),
         !.by_tag = FoldLeft(LAMBDA b, t : Put(b, t, AddOnce(At(b, t, <<>>), p)), @, tags)]
set_provider_specializations(p, tags) ==
    /\ Len(tags) <= MAX_TAGS_PER_PROVIDER /\ \A i \in DOMAIN tags : Contains(sg.tags, tags[i])
    /\ sg' = [sg EXCEPT
         !.specializations = Put(@, p, tags),
         !.by_tag = FoldLeft(LAMBDA b, t : Put(b, t, AddOnce(At(b, t, <<>>), p)),
                             unlist_specializations(@, p, At(sg.specializations, p, <<>>)), tags)]

check_verification_eligibility(p) ==
    /\ get_stake_info(sg, p) >= GOLD_TIER_STAKE
    /\ get_provider_stats(sg, p).total_signals >= VERIFIED_SIGNALS
    /\ get_provider_stats(sg, p).success_rate >= 6000

\* Profiles and ban appeals have no entry point; the functions are as their tests call them.
create_or_update_provider_profile(p, verified) ==
    sg' = [sg EXCEPT !.profiles = Put(@, p,
        [created_at |-> IF p \in DOMAIN @ THEN @[p].created_at ELSE now,
         stake_tier |-> StakeTier(get_stake_info(sg, p)),
         success_rate |-> get_provider_stats(sg, p).success_rate, verified |-> verified])]
submit_ban_appeal(p) ==
    /\ At(sg.appeals, p, "none") # "Pending"
    /\ sg' = [sg EXCEPT !.appeals = Put(@, p, "Pending")]
reverse_ban(p) ==
    /\ At(sg.appeals, p, "none") = "Pending"
    /\ sg' = [sg EXCEPT !.appeals[p] = "Approved",
                        !.profiles = IF p \in DOMAIN @ THEN [@ EXCEPT ![p].verified = TRUE] ELSE @]
reject_ban_appeal(p) ==
    /\ At(sg.appeals, p, "none") = "Pending"
    /\ sg' = [sg EXCEPT !.appeals[p] = "Rejected"]

-----------------------------------------------------------------------------
StakeStep ==
    \E p \in Providers :
       \/ unstake(p)
       \/ \E amount \in StakeInputs : stake(p, amount) \/ set_provider_stake(p, amount)
SocialStep ==
    \/ \E u \in Followers, p \in Providers : follow_provider(u, p) \/ unfollow_provider(u, p)
    \/ \E m \in MedianInputs : update_median_values(m)
    \/ \E p \in Providers : sg' = update_provider_trust_score(sg, p)
TagStep ==
    \/ \E t \in SignalTags : add_specialization_tag(t) \/ remove_specialization_tag(t)
    \/ \E p \in Providers : \E tags \in {<<>>} \cup {<<t>> : t \in SignalTags}
                                       \cup {<<t, u>> : t, u \in SignalTags} :
           set_provider_specializations(p, tags)
ProfileStep ==
    \E p \in Providers :
       \/ \E v \in BOOLEAN : create_or_update_provider_profile(p, v)
       \/ submit_ban_appeal(p) \/ reverse_ban(p) \/ reject_ban_appeal(p)

-----------------------------------------------------------------------------
\* Whatever order follows, adoptions, trades and profile updates come in, every leaderboard
\* lists a provider at most once, only while its entry qualifies, and in order of score
\* (leaderboard.rs upsert_sorted).
RankedOnce ==
    \A k \in LeaderboardKey :
       /\ Len(sg.index[k]) <= INDEX_CAPACITY
       /\ \A i, j \in DOMAIN sg.index[k] :
             i < j => /\ sg.index[k][i].provider # sg.index[k][j].provider
                      /\ sg.index[k][i].score[k] >= sg.index[k][j].score[k]
       /\ \A i \in DOMAIN sg.index[k] : is_qualified(sg.index[k][i])

\* The two directions of the specialization index agree: a provider is listed under exactly
\* the tags it chose last, once each, and no tag keeps an empty list (providers.rs
\* set_provider_specializations).
TagsMirrored ==
    /\ \A t \in DOMAIN sg.by_tag :
          sg.by_tag[t] # <<>> /\ IsInjective(sg.by_tag[t])
    /\ \A p \in Providers, t \in SignalTags :
          Contains(At(sg.by_tag, t, <<>>), p) <=> Contains(At(sg.specializations, p, <<>>), t)
=============================================================================
