----------------------------- MODULE Governance -----------------------------
(***************************************************************************)
(* Conviction voting and quadratic voting of the governance contract       *)
(* (governance/src/conviction_voting.rs, quadratic_voting.rs).  Conviction *)
(* grows with the square root of the days a vote has stood, is damped by a *)
(* daily decay, and funds a proposal from its pool once it reaches the     *)
(* threshold fixed when the proposal was made.  Quadratic voting spends    *)
(* vote credits, the square of the votes, on ordinary proposals. The       *)
(* governance contract as a whole (governance/src/lib.rs): the parts of    *)
(* its storage, the entry points of every part, and initialize, which      *)
(* starts all of them afresh after an emergency revocation of the admin.   *)
(***************************************************************************)
EXTENDS GovCommittees

CONSTANTS
    PoolTerms,       \* <<funding_amount, refill_rate, refill_period>>
    Requests,        \* amounts conviction proposals ask for
    Commitments,     \* tokens committed to a conviction vote
    Calibrations,    \* ConvictionCalibration values the admin sets
    DECAY_SCALE, CONVICTION_PRECISION,
    MaxPools, MaxConvictionProposals, \* bounds
    CREDIT_PRECISION,                 \* PRECISION of quadratic_voting.rs
    QVConfigs,       \* QuadraticVotingConfig values
    VotesDesired     \* votes a quadratic voter asks for

VARIABLES
    conv,  \* StorageKey::ConvictionState and ConvictionCalibration
    qv     \* the entries under QVStorageKey

default_calibration ==
    [penalty_threshold_days |-> 0, penalty_multiplier |-> 1, reward_bonus_pct |-> 0,
     max_conviction_cap |-> 0, decay_rate_bps |-> 50]

empty_conviction_state == [pools |-> <<>>, proposals |-> <<>>, calibration |-> default_calibration]

ConvictionInit == conv = empty_conviction_state

Max2(a, b) == IF a > b THEN a ELSE b

----------------------------------------------------------------------------
\* The conviction of a vote.

\* The binary digits of n, lowest first
Bits(n) == LET width == CHOOSE k \in 0..n : 2^k > n /\ (k = 0 \/ 2^(k - 1) <= n)
           IN  [i \in 1..width |-> (n \div 2^(i - 1)) % 2]

\* pow_fixed_point: square and multiply, every product cut down to the scale
pow_fixed_point(base, exponent, scale) ==
    LET step(s, bit) == [result |-> IF bit = 1 THEN (s.result * s.base) \div scale ELSE s.result,
                         base |-> (s.base * s.base) \div scale]
    IN  FoldLeft(step, [result |-> scale, base |-> base], Bits(exponent)).result

calculate_conviction(tokens, elapsed, cal) ==
    LET days == elapsed \div DAY
        grown == (tokens * isqrt(days)) \div 1000
        factor == ((1000 - cal.decay_rate_bps) * DECAY_SCALE) \div 1000
        decayed == (grown * pow_fixed_point(factor, days, DECAY_SCALE)) \div DECAY_SCALE
        early == days < cal.penalty_threshold_days
        penalised == IF early /\ cal.penalty_multiplier > 1
                     THEN decayed - decayed \div cal.penalty_multiplier ELSE decayed
        rewarded == IF ~early /\ cal.reward_bonus_pct > 0
                    THEN penalised + (penalised * cal.reward_bonus_pct) \div 100 ELSE penalised
    IN  IF days = 0 THEN 0
        ELSE IF cal.max_conviction_cap > 0 /\ rewarded > cal.max_conviction_cap
             THEN cal.max_conviction_cap
        ELSE rewarded

\* calculate_conviction_threshold: the square of the share asked for, at least 1000
calculate_conviction_threshold(requested, pool) ==
    LET ratio == (requested * CONVICTION_PRECISION) \div pool
        squared == (ratio * ratio) \div CONVICTION_PRECISION
    IN  Max2(1000, (squared * 1000 * 200) \div (CONVICTION_PRECISION * 100))

set_conviction_calibration(admin, cal) ==
    /\ require_admin(admin)
    /\ cal.penalty_multiplier # 0 /\ cal.reward_bonus_pct <= 100
    /\ cal.decay_rate_bps \in 1..999
    /\ conv' = [conv EXCEPT !.calibration = cal]

set_conviction_decay_rate(admin, rate) ==
    /\ require_admin(admin)
    /\ rate \in 1..999
    /\ conv' = [conv EXCEPT !.calibration.decay_rate_bps = rate]

----------------------------------------------------------------------------
\* Pools, proposals and votes.  Proposal ids are global; a proposal names its pool.

create_conviction_pool(admin, p) ==
    /\ Len(conv.pools) < MaxPools
    /\ require_admin(admin)
    /\ p[1] > 0 /\ p[2] >= 0 /\ p[3] # 0
    /\ conv' = [conv EXCEPT !.pools = Append(@, [funding_amount |-> p[1], refill_rate |-> p[2],
                                                 refill_period |-> p[3], last_refill |-> now])]

create_conviction_proposal(pool, requested) ==
    /\ Len(conv.proposals) < MaxConvictionProposals
    /\ require_initialized
    /\ requested > 0 /\ requested <= conv.pools[pool].funding_amount
    /\ conv' = [conv EXCEPT !.proposals =
          Append(@, [pool |-> pool, requested_amount |-> requested, accumulated |-> 0,
                     threshold |-> calculate_conviction_threshold(
                                       requested, conv.pools[pool].funding_amount),
                     status |-> "Active", votes |-> <<>>, voters |-> {}, granted |-> 0])]

ConvictionVote(tokens) ==
    [tokens |-> tokens, vote_started |-> now, current |-> 0]

\* update_vote_conviction: recomputed from vote_started on
update_vote_conviction(v) ==
    [v EXCEPT !.current = calculate_conviction(v.tokens, now - v.vote_started, conv.calibration)]

\* update_conviction_vote: more tokens start afresh, fewer keep their share
update_conviction_vote(v, tokens) ==
    LET u == update_vote_conviction(v)
        share == (tokens * CONVICTION_PRECISION) \div v.tokens
    IN  IF tokens > v.tokens THEN ConvictionVote(tokens)
        ELSE IF tokens < v.tokens
             THEN [u EXCEPT !.current = (u.current * share) \div CONVICTION_PRECISION, !.tokens = tokens]
        ELSE v

vote_conviction(id, voter, tokens) ==
    LET p == conv.proposals[id]
    IN  /\ require_initialized
        /\ tokens > 0
        /\ p.status = "Active"
        /\ conv' = [conv EXCEPT
              !.proposals[id].votes =
                  Put(@, voter, IF voter \in DOMAIN @ THEN update_conviction_vote(@[voter], tokens)
                                 ELSE ConvictionVote(tokens)),
              !.proposals[id].voters = @ \cup {voter}]

\* Mutant: the pool's balance is not compared with the request.
execute_conviction_funding_internal_Overdrawn(c, id) ==
    LET p == c.proposals[id]
    IN  [ok |-> p.accumulated >= p.threshold,
         state |-> [c EXCEPT !.pools[p.pool].funding_amount = @ - p.requested_amount,
                             !.proposals[id].status = "Funded",
                             !.proposals[id].granted = p.requested_amount]]

\* The status is not consulted: what decides is the recorded conviction.
execute_conviction_funding_internal(c, id) ==
    LET p == c.proposals[id]
    IN  [ok |-> p.accumulated >= p.threshold
                /\ c.pools[p.pool].funding_amount >= p.requested_amount,
         state |-> [c EXCEPT !.pools[p.pool].funding_amount = @ - p.requested_amount,
                             !.proposals[id].status = "Funded",
                             !.proposals[id].granted = p.requested_amount]]

\* update_proposal_conviction fails as a whole when the pool cannot pay.
update_proposal_conviction(id) ==
    LET p == conv.proposals[id]
        votes == [u \in DOMAIN p.votes |-> update_vote_conviction(p.votes[u])]
        total == MapThenSumSet(LAMBDA u : votes[u].current, DOMAIN votes)
        updated == [conv EXCEPT !.proposals[id].votes = votes,
                                !.proposals[id].accumulated = total]
        funding == execute_conviction_funding_internal(updated, id)
    IN  /\ require_initialized
        /\ IF total >= p.threshold /\ p.status = "Active"
           THEN funding.ok /\ conv' = funding.state
           ELSE conv' = updated

execute_conviction_funding(id) ==
    LET funding == execute_conviction_funding_internal(conv, id)
    IN  require_initialized /\ funding.ok /\ conv' = funding.state

apply_vote_switch_decay(tokens) == tokens - tokens \div 10

\* The source is stored before the target, so that a switch to the same proposal
\* keeps the target's copy.
change_conviction_vote(from, to, voter) ==
    LET v == conv.proposals[from].votes[voter]
        source == [conv EXCEPT !.proposals[from].votes = Drop(@, voter),
                               !.proposals[from].accumulated = @ - v.current]
        target == [conv.proposals[to] EXCEPT
                      !.votes = Put(@, voter, ConvictionVote(apply_vote_switch_decay(v.tokens))),
                      !.voters = @ \cup {voter}]
    IN  /\ require_initialized
        /\ voter \in DOMAIN conv.proposals[from].votes
        /\ conv.proposals[from].pool = conv.proposals[to].pool
        /\ conv' = [source EXCEPT !.proposals[to] = target]

withdraw_conviction_vote(id, voter) ==
    LET p == conv.proposals[id]
    IN  /\ require_initialized
        /\ voter \in DOMAIN p.votes
        /\ conv' = [conv EXCEPT !.proposals[id].votes = Drop(@, voter),
                                !.proposals[id].accumulated = @ - p.votes[voter].current]

refill_conviction_pool(pool) ==
    LET p == conv.pools[pool]
        elapsed == SatSub(now, p.last_refill)
    IN  /\ require_initialized
        /\ elapsed >= p.refill_period
        /\ conv' = [conv EXCEPT
              !.pools[pool].funding_amount = @ + p.refill_rate * (elapsed \div p.refill_period),
              !.pools[pool].last_refill = now]

----------------------------------------------------------------------------
\* Reports.

TokensCommitted(p) == MapThenSumSet(LAMBDA u : p.votes[u].tokens, DOMAIN p.votes)

\* estimate_conviction_completion, 0 for no estimate
estimate_conviction_completion(p) ==
    LET remaining == p.threshold - p.accumulated
        growth_per_day == Max2(TokensCommitted(p) * 10, 1)
    IN  IF p.voters = {} \/ TokensCommitted(p) <= 0 THEN 0
        ELSE IF remaining <= 0 THEN now
        ELSE SatAdd(now, ((remaining * 1000) \div growth_per_day) * DAY)

\* analyze_conviction_proposal divides the age of the standing votes by everyone
\* who ever voted.
ConvictionAnalytics(id) ==
    LET p == conv.proposals[id]
        age == MapThenSumSet(LAMBDA u : now - p.votes[u].vote_started, DOMAIN p.votes)
        progress == (p.accumulated * 10000) \div p.threshold
        voters == Cardinality(p.voters)
    IN  [total_voters |-> voters, total_tokens_committed |-> TokensCommitted(p),
         progress_pct |-> progress,
         avg_vote_age_days |-> IF voters = 0 THEN 0 ELSE (age \div voters) \div DAY,
         estimated |-> IF progress < 10000 THEN estimate_conviction_completion(p) ELSE 0]

\* get_conviction_growth_curve: the conviction of the standing votes, day by day
get_conviction_growth_curve(id, days) ==
    LET p == conv.proposals[id]
        at(ts) == MapThenSumSet(LAMBDA u : calculate_conviction(p.votes[u].tokens,
                                               ts - p.votes[u].vote_started, conv.calibration),
                                DOMAIN p.votes)
    IN  [d \in 0..days |-> at(now + d * DAY)]

ConvictionStep ==
    \/ \E a \in Operators :
          \/ \E p \in PoolTerms : create_conviction_pool(a, p)
          \/ \E cal \in Calibrations :
                \/ set_conviction_calibration(a, cal)
                \/ set_conviction_decay_rate(a, cal.decay_rate_bps)
    \/ \E pool \in 1..Len(conv.pools) :
          \/ refill_conviction_pool(pool)
          \/ \E r \in Requests : create_conviction_proposal(pool, r)
    \/ \E id \in 1..Len(conv.proposals) :
          \/ update_proposal_conviction(id) \/ execute_conviction_funding(id)
          \/ \E u \in Voters :
                \/ \E n \in Commitments : vote_conviction(id, u, n)
                \/ withdraw_conviction_vote(id, u)
                \/ \E to \in 1..Len(conv.proposals) : change_conviction_vote(id, to, u)

\* A pool never pays beyond what it holds, and it pays only a proposal whose
\* recorded conviction had reached the threshold fixed at its creation: the
\* balance of a pool falls by exactly what one such proposal asked for, and that
\* proposal ends the step Funded.
PoolsPayConvictions ==
    [][\A k \in 1..Len(conv.pools) :
          LET before == conv.pools[k].funding_amount
              after == conv'.pools[k].funding_amount
          IN  after < before =>
                 /\ after >= 0
                 /\ \E id \in 1..Len(conv.proposals) :
                       LET p == conv'.proposals[id]
                       IN  /\ p.pool = k /\ p.requested_amount = before - after
                           /\ p.status = "Funded" /\ p.accumulated >= p.threshold]_conv

----------------------------------------------------------------------------
\* quadratic_voting.rs

default_qv_config ==
    [enabled |-> FALSE, vote_credits_per_token |-> 1, max_credits_per_user |-> 10000,
     sybil_resistance_enabled |-> FALSE]

NoCredits == [total |-> 0, used |-> 0, available |-> 0]

QuadraticInit ==
    qv = [config |-> default_qv_config, credits |-> <<>>, votes |-> <<>>,
          proposal_voters |-> {}, verified |-> {}]

set_quadratic_voting_config(c) == qv' = [qv EXCEPT !.config = c] /\ UNCHANGED prop

\* allocate_vote_credits replaces whatever credits the user had, spent ones included.
allocate_vote_credits(u) ==
    LET raw == (get_effective_voting_power(u) * qv.config.vote_credits_per_token) \div CREDIT_PRECISION
        capped == IF raw < qv.config.max_credits_per_user THEN raw ELSE qv.config.max_credits_per_user
    IN  /\ qv.config.enabled
        /\ qv' = [qv EXCEPT !.credits = Put(@, u, [total |-> capped, used |-> 0, available |-> capped])]
        /\ UNCHANGED prop

\* Mutant: the credits leave the available ones and are not booked as used.
spend_credits_Unbooked(c, n) == [c EXCEPT !.available = @ - n]

spend_credits(c, n) == [c EXCEPT !.used = @ + n, !.available = @ - n]

\* cast_quadratic_vote on the given contents of both areas, after its checks
cast_on(q, ps, id, u, n, kind) ==
    [qv |-> [q EXCEPT !.credits[u] = spend_credits(@, n * n),
                      !.votes = Put(@, <<id, u>>, [votes |-> n, spent |-> n * n, kind |-> kind]),
                      !.proposal_voters = @ \cup {<<id, u>>}],
     prop |-> [ps EXCEPT !.proposals[id].tally[kind] = @ + n,
                         !.proposals[id].status = IF @ = "Pending" THEN "Active" ELSE @]]

CanCast(q, ps, id, u, n) ==
    LET p == ps.proposals[id]
    IN  /\ n > 0
        /\ q.config.enabled
        /\ q.config.sybil_resistance_enabled => u \in q.verified
        /\ now >= p.voting_starts /\ now < p.voting_ends
        /\ p.status \in {"Pending", "Active"}
        /\ <<id, u>> \notin DOMAIN q.votes
        /\ u \in DOMAIN q.credits
        /\ q.credits[u].available >= n * n

cast_quadratic_vote(id, u, n, kind) ==
    LET after == cast_on(qv, prop, id, u, n, kind)
    IN  /\ CanCast(qv, prop, id, u, n)
        /\ qv' = after.qv /\ prop' = after.prop

\* The credits a vote had cost go back to its voter.
refunded(q, id, u) ==
    IF <<id, u>> \in DOMAIN q.votes /\ u \in DOMAIN q.credits
    THEN [q EXCEPT !.credits[u] = spend_credits(@, -q.votes[<<id, u>>].spent)] ELSE q

\* Mutant: the old vote stays in the tally.
reallocate_quadratic_votes_Twice(id, u, n, kind) ==
    LET back == [refunded(qv, id, u) EXCEPT !.votes = Drop(@, <<id, u>>)]
        after == cast_on(back, prop, id, u, n, kind)
    IN  /\ <<id, u>> \in DOMAIN qv.votes /\ u \in DOMAIN qv.credits
        /\ CanCast(back, prop, id, u, n)
        /\ qv' = after.qv /\ prop' = after.prop

\* reallocate_quadratic_votes: the old vote is taken back, then a new one is cast
reallocate_quadratic_votes(id, u, n, kind) ==
    LET old == qv.votes[<<id, u>>]
        back == [refunded(qv, id, u) EXCEPT !.votes = Drop(@, <<id, u>>)]
        without == [prop EXCEPT !.proposals[id].tally[old.kind] = @ - old.votes]
        after == cast_on(back, without, id, u, n, kind)
    IN  /\ <<id, u>> \in DOMAIN qv.votes
        /\ u \in DOMAIN qv.credits
        /\ CanCast(back, without, id, u, n)
        /\ qv' = after.qv /\ prop' = after.prop

\* verify_identity with grant_verified_user_bonus
verify_identity(u) ==
    /\ qv' = [qv EXCEPT !.verified = @ \cup {u},
                        !.credits = IF u \notin DOMAIN @ THEN @
                                    ELSE Put(@, u, [@[u] EXCEPT !.total = @ + (@ \div 2),
                                                                 !.available = @ + (qv.credits[u].total \div 2)])]
    /\ UNCHANGED prop

calculate_marginal_cost(current, additional) ==
    (current + additional) * (current + additional) - current * current

\* refund_credits_on_failure: every vote of the proposal keeps its record.
refund_credits_on_failure(id) ==
    /\ prop.proposals[id].status \in {"Failed", "Cancelled"}
    /\ qv' = [qv EXCEPT !.credits = [u \in DOMAIN @ |-> refunded(qv, id, u).credits[u]]]
    /\ UNCHANGED prop

\* compare_voting_systems: the outcome by staked tokens and by quadratic votes
VotingComparison(id) ==
    LET voters(kind) == {u \in Accounts : <<id, u>> \in DOMAIN qv.votes
                                          /\ qv.votes[<<id, u>>].kind = kind}
        linear(kind) == MapThenSumSet(get_effective_voting_power, voters(kind))
        quadratic(kind) == MapThenSumSet(LAMBDA u : qv.votes[<<id, u>>].votes, voters(kind))
    IN  [linear |-> linear("For") > linear("Against"),
         quadratic |-> quadratic("For") > quadratic("Against")]

QuadraticStep ==
    \/ \E c \in QVConfigs : set_quadratic_voting_config(c)
    \/ \E u \in Voters :
          \/ allocate_vote_credits(u) \/ verify_identity(u)
          \/ \E id \in ProposalIds, n \in VotesDesired, kind \in VoteType :
                cast_quadratic_vote(id, u, n, kind) \/ reallocate_quadratic_votes(id, u, n, kind)
    \/ \E id \in ProposalIds : refund_credits_on_failure(id)

\* Credits are split between spent and available: allocation, votes, second
\* thoughts, bonuses and refunds (repeated ones too) keep the two adding up to
\* the user's total.
CreditsAddUp ==
    \A u \in DOMAIN qv.credits :
        qv.credits[u].used + qv.credits[u].available = qv.credits[u].total

-----------------------------------------------------------------------------

govVars == <<gov, tl, tok, trs, rep, prop, com, conv, qv>>

GovInit ==
    /\ ClockInit /\ AccessInit /\ TimelockInit /\ TokenInit /\ TreasuryInit
    /\ ReputationInit /\ ProposalsInit /\ CommitteesInit /\ ConvictionInit /\ QuadraticInit

\* initialize: every area but the timelock, the roles beside the admin and the
\* calibration starts afresh.  Deposits and vote snapshots have keys of their own
\* that it does not clear: followed only where there are none.
Reinitialize(admin) ==
    /\ prop.deposits = <<>>
    /\ initialize(admin)
    /\ tok' = initialize_distribution
    /\ trs' = empty_treasury
    /\ rep' = [empty_reputation_state EXCEPT !.decay_enabled = rep.decay_enabled,
                                             !.stale_penalty_enabled = rep.stale_penalty_enabled]
    /\ prop' = empty_proposals_state
    /\ com' = empty_committees_state
    /\ conv' = [empty_conviction_state EXCEPT !.calibration = conv.calibration]
    /\ UNCHANGED <<tl, qv>>

\* The steps of each area, with what they leave alone.
AccessPart ==
    \/ AccessStep /\ UNCHANGED <<tl, tok, trs, rep, prop, com, conv, qv>>
    \/ TimelockStep /\ UNCHANGED <<tok, trs, rep, prop, com, conv, qv>>
    \/ \E a \in Operators : Reinitialize(a)

TokenPart == TokenStep /\ UNCHANGED <<gov, trs, rep, prop, com, conv, qv>>

TreasuryPart == TreasuryStep /\ UNCHANGED <<gov, tok, rep, prop, com, conv, qv>>

ReputationPart == ReputationStep /\ UNCHANGED <<gov, tl, tok, trs, prop, com, conv, qv>>

ProposalsPart == ProposalsStep /\ UNCHANGED <<gov, com, conv, qv>>

CommitteesPart == CommitteesStep /\ UNCHANGED <<gov, rep, prop, conv, qv>>

ConvictionPart == ConvictionStep /\ UNCHANGED <<gov, tl, tok, trs, rep, prop, com, qv>>

QuadraticPart == QuadraticStep /\ UNCHANGED <<gov, tl, tok, trs, rep, com, conv>>

GovClock == CloseLedger /\ UNCHANGED govVars

GovNext ==
    \/ GovClock
    \/ /\ UNCHANGED clockVars
       /\ \/ AccessPart \/ TokenPart \/ TreasuryPart \/ ReputationPart \/ ProposalsPart
          \/ CommitteesPart \/ ConvictionPart \/ QuadraticPart

\* A tally is the sum of the votes on record and of the quadratic votes that still
\* stand, and a vote on record is the only one of its voter and weighs what the
\* voter had when the proposal was made: that power itself, its integer root where
\* the proposal asks for quadratic voting, or up to half as much again where the
\* voter let reputation weigh it.  So it stays while stakes move, delegations
\* change and votes are reallocated, in any order.
\* About create_proposal's snapshot against cast_vote, delegate_voting_power,
\* cast_reputation_weighted_vote and reallocate_quadratic_votes.
TalliesFromSnapshots ==
    \A id \in ProposalIds :
        LET p == prop.proposals[id]
            shot == prop.snapshots[id]
            total == p.tally["For"] + p.tally["Against"] + p.tally["Abstain"]
            spread == {k \in DOMAIN qv.votes : k[1] = id}
        IN  /\ total = FoldLeft(LAMBDA s, v : s + v.power, 0, p.votes)
                       + MapThenSumSet(LAMBDA k : qv.votes[k].votes, spread)
            /\ \A i, j \in 1..Len(p.votes) : p.votes[i].voter = p.votes[j].voter => i = j
            /\ \A i \in 1..Len(p.votes) :
                  /\ p.votes[i].voter \in DOMAIN shot
                  /\ LET had == shot[p.votes[i].voter]
                         root == IF p.use_quadratic THEN {isqrt(had)} ELSE {}
                     IN  p.votes[i].power \in root \cup had..(had + had \div 2)

\* What the latch protects: the roles, the delays, the budgets and targets, the
\* governance configuration, custom vesting grants and the committees' existence.
Protected ==
    <<gov.guardian, gov.caps, tl.delay_config, prop.config,
      [c \in Categories |-> trs.budgets[c].allocated], trs.targets,
      [u \in Accounts |-> tok.vesting[u].total],
      [id \in CommitteeIds |-> get_committee(id).active]>>

\* Once enforce_admin_timelock has latched, a step that changes anything the
\* latch protects spends exactly one entry of the pending admin actions, one that
\* its caller queued ADMIN_ACTION_DELAY or longer before; only initialize_timelock
\* and initialize, which set up the contract, are outside of it.
LatchedOpsWait ==
    [][(gov.enforced /\ Protected' # Protected) =>
          \/ ~gov.initialized
          \/ \E a, g \in Operators, b \in TimelockBounds : initialize_timelock(a, b, g)
          \/ \E i \in 1..Len(tl.admin_pending) :
                /\ Open(tl.admin_pending[i])
                /\ now >= tl.admin_pending[i].queued_at + ADMIN_ACTION_DELAY
                /\ tl'.admin_pending = [tl.admin_pending EXCEPT ![i].executed = TRUE]]_govVars
=============================================================================
