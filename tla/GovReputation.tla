---------------------------- MODULE GovReputation ----------------------------
(***************************************************************************)
(* Reputation of governance participants (governance/src/reputation.rs):   *)
(* the participation history that votes, proposals and outcomes build up,  *)
(* the score with its tiered decay and staleness penalty, badges, the      *)
(* leaderboard and the shares of a reward pool.  A stored score is         *)
(* computed from the record as it was before the update that stores it.    *)
(***************************************************************************)
EXTENDS GovTreasury

CONSTANTS
    DAY,              \* 86_400
    TierActions,      \* actions that reach a tier: Silver 50, Gold 200, Platinum 500
    GraceDays,        \* tier -> days without decay: 30, 60, 90, 180
    MaxDecayDays,     \* tier -> days of decay at most: 90, 180, 270, 365
    StaleDays,        \* inactivity after which a level starts: 30, 90, 180
    BadgeVotes, BadgeSuccesses,  \* 50 votes, 10 successful proposals
    MAX_REPUTATION_USERS,        \* 100
    Voters,           \* bound: accounts that vote and have a reputation
    ReputationConfigs, \* <<decay_enabled, stale_penalty_enabled>> the admin sets
    RewardPools       \* pools passed to distribute_reputation_rewards

VARIABLE rep  \* ReputationState and ReputationConfig

MAX_REPUTATION == 10000

ReputationTier == {"Bronze", "Silver", "Gold", "Platinum"}

DecayBps == [Bronze |-> 50, Silver |-> 30, Gold |-> 20, Platinum |-> 10]

NoHistory == [created |-> 0, succeeded |-> 0, votes |-> 0, aligned |-> 0]

\* get_governance_reputation of a user without a record: a fresh one, active now
FreshReputation == [score |-> 0, history |-> NoHistory, badges |-> {},
                    last_activity |-> now, tier |-> "Bronze"]

empty_reputation_state == [of |-> [u \in Accounts |-> FreshReputation], users |-> <<>>,
                           decay_enabled |-> TRUE, stale_penalty_enabled |-> TRUE]

ReputationInit == rep = empty_reputation_state

Known(r, u) == u \in Range(r.users)

get_governance_reputation(r, u) == IF Known(r, u) THEN r.of[u] ELSE FreshReputation

upsert_rep(r, u, x) ==
    [r EXCEPT !.of[u] = x, !.users = IF Known(r, u) THEN @ ELSE Append(@, u)]

InactiveDays(last_activity) == IF now <= last_activity THEN 0 ELSE (now - last_activity) \div DAY

detect_staleness(last_activity) ==
    LET days == InactiveDays(last_activity)
    IN  CASE days <= StaleDays[1] -> "Active"
          [] days > StaleDays[1] /\ days <= StaleDays[2] -> "Aging"
          [] days > StaleDays[2] /\ days <= StaleDays[3] -> "Stale"
          [] OTHER -> "Critical"

staleness_penalty_multiplier ==
    [Active |-> 10000, Aging |-> 8000, Stale |-> 5000, Critical |-> 2000]

compute_tier(history) ==
    LET total_actions == history.created + history.votes
    IN  CASE total_actions >= TierActions[3] -> "Platinum"
          [] total_actions >= TierActions[2] /\ total_actions < TierActions[3] -> "Gold"
          [] total_actions >= TierActions[1] /\ total_actions < TierActions[2] -> "Silver"
          [] OTHER -> "Bronze"

\* apply_tiered_decay: compounded daily beyond the grace period, rounding down each day
apply_tiered_decay(r, score, last_activity, tier) ==
    LET days == InactiveDays(last_activity)
        excess == days - GraceDays[tier]
        capped == IF excess < MaxDecayDays[tier] THEN excess ELSE MaxDecayDays[tier]
        decay[n \in 0..capped] ==
            IF n = 0 THEN score
            ELSE (decay[n - 1] * (10000 - DecayBps[tier])) \div 10000
    IN  IF ~r.decay_enabled \/ days = 0 \/ excess <= 0 THEN score ELSE decay[capped]

calculate_badge_bonus(badges) ==
    LET bonus == MapThenSumSet(LAMBDA b : IF b = "ActiveVoter" THEN 200 ELSE 500, badges)
    IN  IF bonus > 2000 THEN 2000 ELSE bonus

Rate(part, whole) == IF whole = 0 THEN 0 ELSE (part * 10000) \div whole

\* calculate_reputation_score of the stored record
calculate_reputation_score(r, u) ==
    LET x == get_governance_reputation(r, u)
        h == x.history
        points == Capped(h.created * 100, 2000)
                + Capped((Rate(h.succeeded, h.created) * 2) \div 10, 2000)
                + Capped(h.votes * 20, 2000)
                + Capped((Rate(h.aligned, h.votes) * 2) \div 10, 2000)
                + calculate_badge_bonus(x.badges)
        decayed == apply_tiered_decay(r, points, x.last_activity, x.tier)
        level == detect_staleness(x.last_activity)
        penalised == IF r.stale_penalty_enabled
                     THEN (decayed * staleness_penalty_multiplier[level]) \div 10000
                     ELSE decayed
    IN  Capped(penalised, MAX_REPUTATION)

check_and_award_badges(history, badges) ==
    badges \cup (IF history.votes >= BadgeVotes THEN {"ActiveVoter"} ELSE {})
           \cup (IF history.succeeded >= BadgeSuccesses THEN {"ProposalAuthor"} ELSE {})

\* What record_proposal_creation and record_vote do with the new history.
Recorded(r, u, history) ==
    LET x == get_governance_reputation(r, u)
    IN  upsert_rep(r, u, [x EXCEPT !.history = history, !.last_activity = now,
                                   !.tier = compute_tier(history),
                                   !.score = calculate_reputation_score(r, u),
                                   !.badges = check_and_award_badges(history, @)])

record_proposal_creation(r, u) ==
    Recorded(r, u, [get_governance_reputation(r, u).history EXCEPT !.created = @ + 1])

record_vote(r, u) ==
    Recorded(r, u, [get_governance_reputation(r, u).history EXCEPT !.votes = @ + 1])

\* record_proposal_outcome reads every record from storage and writes the copy it
\* is filling: an aligned vote of the proposer replaces the proposer's success.
record_proposal_outcome(r, proposer, votes, outcome) ==
    LET old(u) == get_governance_reputation(r, u)
        credited == IF outcome
                    THEN upsert_rep(r, proposer,
                             [old(proposer) EXCEPT !.history.succeeded = @ + 1,
                                                   !.score = calculate_reputation_score(r, proposer)])
                    ELSE r
        aligned(v) == v.vote_type = IF outcome THEN "For" ELSE "Against"
        credit(s, v) == IF aligned(v)
                        THEN upsert_rep(s, v.voter,
                                 [old(v.voter) EXCEPT !.history.aligned = @ + 1,
                                                      !.score = calculate_reputation_score(r, v.voter)])
                        ELSE s
    IN  FoldLeft(credit, credited, votes)

refresh_stale_reputation(u) ==
    /\ require_initialized
    /\ LET x == get_governance_reputation(rep, u)
       IN  rep' = upsert_rep(rep, u, [x EXCEPT !.tier = compute_tier(x.history),
                                               !.score = calculate_reputation_score(rep, u)])

update_reputation_config(admin, decay, penalty) ==
    /\ require_admin(admin)
    /\ rep' = [rep EXCEPT !.decay_enabled = decay, !.stale_penalty_enabled = penalty]

\* get_reputation_leaderboard: insertion by score, first come first among equals
reputation_leaderboard ==
    LET place(s, u) ==
            LET ahead == SelectSeq(s, LAMBDA v : rep.of[v].score >= rep.of[u].score)
            IN  ahead \o <<u>> \o SubSeq(s, Len(ahead) + 1, Len(s))
    IN  FoldLeft(place, <<>>, rep.users)

\* distribute_reputation_rewards returns shares; it pays nothing itself
reward_shares(pool) ==
    LET leaders == Range(reputation_leaderboard)
        total == MapThenSumSet(LAMBDA u : rep.of[u].score, leaders)
        share(u) == (pool * rep.of[u].score) \div total
    IN  IF total = 0 THEN [u \in {} |-> 0] ELSE [u \in {v \in leaders : share(v) > 0} |-> share(u)]

ReputationStep ==
    \/ \E u \in Voters : refresh_stale_reputation(u)
    \/ \E a \in Operators, c \in ReputationConfigs : update_reputation_config(a, c[1], c[2])

----------------------------------------------------------------------------
\* A history never claims more than happened: no more successes than proposals,
\* no more aligned votes than votes; scores stay within the scale, the
\* leaderboard lists every user once from high to low, and the shares of a pool
\* never exceed it.
\* About record_vote, record_proposal_outcome and distribute_reputation_rewards.
HistoriesConsistent ==
    /\ \A u \in Accounts :
          LET h == rep.of[u].history
          IN  /\ h.succeeded <= h.created
              /\ h.aligned <= h.votes
              /\ rep.of[u].score \in 0..MAX_REPUTATION
    /\ LET board == reputation_leaderboard
       IN  /\ Len(board) = Len(rep.users) /\ Range(board) = Range(rep.users)
           /\ \A i \in 1..(Len(board) - 1) : rep.of[board[i]].score >= rep.of[board[i + 1]].score
    /\ \A pool \in RewardPools :
          MapThenSumSet(LAMBDA u : reward_shares(pool)[u], DOMAIN reward_shares(pool)) <= pool
=============================================================================
