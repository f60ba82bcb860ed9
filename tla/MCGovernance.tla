---------------------------- MODULE MCGovernance ----------------------------
(***************************************************************************)
(* The governance contract for TLC.  A behaviour follows one area of the   *)
(* contract together with the operations of other areas that feed it; the  *)
(* interleavings inside an area are complete, and areas that share no      *)
(* state are not interleaved.                                              *)
(***************************************************************************)
EXTENDS Governance, GovStash

CONSTANTS a1, a2, a3, a4, a5,
    Areas  \* bound: area -> operations of a behaviour that follows it

VARIABLES
    area,  \* the area this behaviour follows
    left   \* operations it may still take

MCAreas ==
    [roles |-> 4, latch |-> 5, token |-> 4, treasury |-> 6, votes |-> 4, queue |-> 6,
     decisions |-> 5, elections |-> 6, conviction |-> 5, credits |-> 4, stash |-> 6]

MCRecipients ==
    [team |-> a1, early_investors |-> a2, community_rewards |-> a3,
     treasury |-> a4, public_sale |-> a5]

MCDelayDefaults == [k \in ActionType |-> IF k = "EmergencyPause" THEN 0 ELSE 1]
MCTimelockBounds == {<<1, 3>>, <<0, 3>>}
MCCapabilityGrants == {<<"SuperAdmin", a2>>, <<"Pause", a2>>}
MCRewardConfigs == {<<5000, 1>>, <<0, 1>>}
MCCustomVestings == {<<2, 1, 1, 3>>, <<1, 1, 0, 0>>}
\* one budget that renews itself and one that ends
MCBudgetTerms == {<<3, 2, 1, 3, TRUE>>, <<2, 1, 1, 2, FALSE>>}
MCSchedules == {<<1, 4>>, <<2, 0>>}
MCPriceMaps == {[x \in Assets |-> 2], [x \in {} |-> 0]}
MCReputationConfigs == {<<FALSE, TRUE>>}
MCTierActions == <<1, 2, 4>>
MCGraceDays == [Bronze |-> 1, Silver |-> 1, Gold |-> 2, Platinum |-> 3]
MCMaxDecayDays == [Bronze |-> 2, Silver |-> 3, Gold |-> 4, Platinum |-> 5]
MCStaleDays == <<1, 2, 3>>

MCConfig(delay, execution) ==
    [min_proposal_threshold |-> 1, voting_delay |-> delay, voting_period |-> 1,
     quorum_threshold |-> 1000, approval_threshold |-> 5000,
     execution_delay |-> execution, discussion_duration |-> delay]
MCDefaultConfig == MCConfig(0, 1)
MCConfigs == {MCConfig(1, 0), [MCConfig(0, 0) EXCEPT !.voting_period = 0]}
MCActions ==
    {[kind |-> "TreasurySpend", name |-> "t", current |-> 0, proposed |-> 0,
      recipient |-> a5, amount |-> 1, asset |-> "xlm"],
     [kind |-> "ParameterChange", name |-> "p", current |-> 10, proposed |-> 12,
      recipient |-> a5, amount |-> 0, asset |-> "xlm"]}

MCAuthorities ==
    {[kind |-> "TreasurySpend", max_amount |-> 1, category |-> "ops"],
     [kind |-> "ParameterAdjustment", parameters |-> {"min_claim_threshold"}, max_change_pct |-> 50],
     [kind |-> "Veto", types |-> {"upgrade"}]}
MCFormations ==
    {[members |-> {a1, a2, a3}, chair |-> a1, max_members |-> 3, authorities |-> MCAuthorities,
      term |-> 2],
     [members |-> {a3}, chair |-> a3, max_members |-> 3, term |-> 0,
      authorities |-> {[kind |-> "GrantApproval", max_amount |-> 2]}]}
MCDecisions ==
    {[kind |-> "TreasurySpend", amount |-> 1, asset |-> "xlm", category |-> "ops"],
     [kind |-> "GrantApproval", amount |-> 2, asset |-> "xlm", category |-> "ops"],
     [kind |-> "RewardConfigUpdate",
      config |-> [liquidity_reward_bps |-> 100, min_claim_threshold |-> 120]],
     [kind |-> "Veto", type |-> "upgrade"]}
MCElectionTerms == {<<3, 1, 1, 2>>}

MCPoolTerms == {<<10, 3, 2>>}
MCCalibrations ==
    {[penalty_threshold_days |-> 2, penalty_multiplier |-> 2, reward_bonus_pct |-> 10,
      max_conviction_cap |-> 2500, decay_rate_bps |-> 100]}
MCQVConfigs ==
    {[enabled |-> TRUE, vote_credits_per_token |-> 2, max_credits_per_user |-> 5,
      sybil_resistance_enabled |-> s] : s \in BOOLEAN}

----------------------------------------------------------------------------
\* Where an area starts: right after initialize, or where a few operations of
\* other areas lead: stakes placed, timelock installed, budget approved,
\* committees formed.

Staked == LET moved(t, u, n) == add_staked_balance(subtract_balance(t, u, n), u, n)
          IN  moved(moved(initialize_distribution, a3, 4), a4, 2)

Installed == [installed |-> TRUE, queued_actions |-> <<>>, delay_config |-> DelayDefaults,
              min_delay |-> 1, max_delay |-> 3, guardian |-> a2, next_action_id |-> 1,
              admin_pending |-> <<>>]

Funded == approve_budget(upsert_budget(set_asset_balance(empty_treasury, "xlm", 10),
                                       "ops", <<3, 2, 1, 3, TRUE>>), "ops", 3)

Formed == [empty_committees_state EXCEPT !.committees = SetToSeq({Committee(f) : f \in Formations})]

Credited ==
    [config |-> CHOOSE c \in QVConfigs : ~c.sybil_resistance_enabled, votes |-> <<>>,
     credits |-> [u \in {a3, a4} |-> LET n == IF u = a3 THEN 5 ELSE 4
                                    IN  [total |-> n, used |-> 0, available |-> n]],
     proposal_voters |-> {}, verified |-> {}]

MCGovInit ==
    /\ area \in DOMAIN Areas /\ left = Areas[area] /\ StashInit
    /\ \/ area \in {"roles", "token", "treasury", "conviction", "stash"} /\ GovInit
       \/ /\ area \in {"latch", "votes", "queue", "decisions", "elections", "credits"}
          /\ ClockInit
          /\ gov = [admin |-> a1, pending_admin |-> NoOne, initialized |-> TRUE, guardian |-> a2,
                    paused |-> FALSE, targets |-> {}, downstream |-> [t \in PauseTargets |-> FALSE],
                    caps |-> {}, enforced |-> area = "latch", shadow |-> NoShadow,
                    storage_version |-> 1]
          /\ tl = Installed /\ tok = Staked /\ trs = Funded
          /\ com = CASE area = "latch" -> empty_committees_state
                     [] area = "elections" ->
                            [Formed EXCEPT !.committees = SelectSeq(@, LAMBDA c : a1 \in c.members)]
                     [] OTHER -> Formed
          /\ ReputationInit /\ ProposalsInit /\ ConvictionInit
          /\ IF area = "credits" THEN qv = Credited ELSE QuadraticInit

\* The operations the latch covers, for one admin
Latched ==
    \/ queue_admin_operation(a1) /\ UNCHANGED <<gov, tok, trs, rep, prop, com, conv, qv>>
    \/ /\ \/ create_budget(a1, "ops", <<2, 1, 1, 2, FALSE>>) \/ set_rebalance_target(a1, "xlm", 6000)
       /\ UNCHANGED <<gov, tok, rep, prop, com, conv, qv>>
    \/ (\E c \in Configs : configure_governance(a1, c)) /\ UNCHANGED <<gov, com, conv, qv>>
    \/ /\ \E f \in Formations : create_committee(a1, f)
       /\ UNCHANGED <<gov, tok, trs, rep, prop, conv, qv>>
    \/ /\ \E v \in CustomVestings : create_vesting_schedule(a1, a3, v)
       /\ UNCHANGED <<gov, trs, rep, prop, com, conv, qv>>
    \/ /\ UNCHANGED gov /\ set_timelock_delay(a1, "Custom", 2)
       /\ UNCHANGED <<tok, trs, rep, prop, com, conv, qv>>

\* One proposer and voter, for the way of a proposal through the queue
Queued ==
    /\ \/ UNCHANGED tl /\ \E act \in Actions : create_proposal(a3, act, FALSE)
       \/ UNCHANGED tl /\ cast_vote(1, a3, "For")
       \/ UNCHANGED tl /\ DecisionStep
       \/ QueueStep
    /\ UNCHANGED <<gov, com, conv, qv>>

Staking == StakeSteps /\ UNCHANGED <<gov, tl, trs, rep, prop, com, conv, qv>>

Voting == UNCHANGED tl /\ (VotingStep \/ DecisionStep) /\ UNCHANGED <<gov, com, conv, qv>>

Deciding ==
    \/ CommitteeDecisionStep /\ UNCHANGED <<gov, rep, prop, conv, qv>>
    \/ CrossCommitteeStep /\ UNCHANGED <<gov, tl, tok, trs, rep, prop, conv, qv>>

Electing == ElectionStep /\ UNCHANGED <<gov, tl, tok, trs, rep, prop, conv, qv>>

AreaStep ==
    \/ area = "roles" /\ AccessPart
    \/ area = "latch" /\ Latched
    \/ area = "token" /\ TokenPart
    \/ area = "treasury" /\ TreasuryPart
    \/ area = "votes" /\ (Staking \/ ReputationPart \/ Voting)
    \/ area = "queue" /\ Queued
    \/ area = "decisions" /\ Deciding
    \/ area = "elections" /\ (Staking \/ Electing)
    \/ area = "conviction" /\ ConvictionPart
    \/ area = "credits" /\ (Voting \/ QuadraticPart)

MCGovNext ==
    /\ UNCHANGED area
    /\ \/ GovClock /\ UNCHANGED <<left, stashVars>>
       \/ /\ left > 0 /\ left' = left - 1 /\ UNCHANGED clockVars
          /\ \/ AreaStep /\ UNCHANGED stashVars
             \/ area = "stash" /\ StashNext /\ UNCHANGED govVars

MCGovSpec == MCGovInit /\ [][MCGovNext]_<<area, left, clockVars, govVars, stashVars>>

-----------------------------------------------------------------------------
\* Records kept in two places agree: reserved rewards and pending ones, vote credits
\* used and available, reputation histories and the leaderboard, stash buckets and
\* deposits, committees' counters and decisions.  About token.rs, quadratic_voting.rs,
\* reputation.rs, treasury_stash.rs and committees.rs.
GovernanceBooks ==
    /\ RewardsAccounted /\ CreditsAddUp /\ HistoriesConsistent
    /\ StashConserved /\ CommitteeBooksMatch

\* Tokens and treasury assets move only as a rule of the contract allows: nothing is
\* made or lost, budgets and approvals cover every spend, committees spend by an
\* approved decision, pools by conviction.  About proposals.rs, treasury.rs,
\* committees.rs and conviction_voting.rs.
MoneyMovesByRule ==
    TokensConserved /\ SpendsWithinBudget /\ CommitteeSpendsAuthorised /\ PoolsPayConvictions

\* Neither a queued action nor a latched admin operation comes before its delay, nor
\* twice; proposals execute by the queue or in their own window, after their vote.
\* About timelock.rs, execute_proposal and enforce_admin_timelock.
DelaysHonoured == QueueWaits /\ LatchedOpsWait
=============================================================================
