----------------------------- MODULE GovProposals -----------------------------
(***************************************************************************)
(* Proposals, votes, delegation and deposits of the governance contract    *)
(* (governance/src/proposals.rs, voting.rs, proposal_deposit.rs), and the  *)
(* part of timelock.rs that queues and runs proposal actions.  A step is   *)
(* one entry point of lib.rs with everything it calls: reputation records, *)
(* deposit settlement and the automatic execution of finalize_proposal.    *)
(***************************************************************************)
EXTENDS GovReputation

CONSTANTS
    Actions,                    \* proposal types with their arguments (records)
    Configs,                    \* GovernanceConfig values; the first in use is DefaultConfig
    DefaultConfig,
    DEFAULT_DEPOSIT_AMOUNT, DEFAULT_MIN_PARTICIPATION_BPS,
    EXECUTION_WINDOW, STUCK_GRACE_PERIOD,
    Quadratic,                  \* values of use_quadratic_voting
    Delegates,                  \* bound: accounts that power is delegated to
    MaxProposals                \* bound: proposals ever created

VARIABLE prop  \* ProposalsState, snapshots, delegations, deposits, config, executed effects

VoteType == {"For", "Against", "Abstain"}

NoDelegation == [delegate |-> NoOne, power |-> 0, active |-> FALSE]

empty_proposals_state ==
    [proposals |-> <<>>, ids |-> <<>>, next_proposal_id |-> 1,
     snapshots |-> <<>>, deposits |-> <<>>, config |-> DefaultConfig,
     delegations |-> [u \in Accounts |-> NoDelegation],
     effects |-> [k \in {"ParameterChange", "FeatureToggle", "ContractUpgrade"} |-> {}]]

ProposalsInit == prop = empty_proposals_state

\* Removed proposals leave their slot in the sequence, with this status.
Exists(id) == id \in 1..Len(prop.proposals) /\ prop.proposals[id].status # "Removed"

get_proposal(id) == prop.proposals[id]

\* isqrt: the largest r with r * r <= n
isqrt(n) == IF n <= 0 THEN 0 ELSE CHOOSE r \in 1..n : r * r <= n /\ (r + 1) * (r + 1) > n

\* Delegated power is what was staked when the delegation was made.
get_effective_voting_power(u) ==
    LET own == IF prop.delegations[u].active THEN 0 ELSE tok.staked[u]
        to_u == {d \in Accounts : prop.delegations[d].active /\ prop.delegations[d].delegate = u}
    IN  own + MapThenSumSet(LAMBDA d : prop.delegations[d].power, to_u)

ConfigValid(c) ==
    c.min_proposal_threshold > 0 /\ c.voting_period > 0
    /\ c.quorum_threshold <= 10000 /\ c.approval_threshold <= 10000

\* resolve_category_thresholds: no category threshold can be stored, because
\* set_category_thresholds asks for the same signature twice, so every category
\* falls back to the global configuration.
resolve_category_thresholds == <<prop.config.quorum_threshold, prop.config.approval_threshold>>

\* validate_proposal and validate_execution_payload for what the model passes
validate_proposal(act) ==
    CASE act.kind = "ParameterChange" ->
             act.current > 0 => /\ 2 * (act.proposed - act.current) < act.current
                                /\ 2 * (act.current - act.proposed) < act.current
      [] act.kind = "TreasurySpend" ->
             /\ act.amount > 0 /\ act.amount <= trs.assets[act.asset]
             /\ act.amount * 10 <= trs.assets[act.asset]
      [] OTHER -> TRUE

----------------------------------------------------------------------------
\* The life of a proposal.

lock_proposal_deposit(t, proposer) == subtract_balance(t, proposer, DEFAULT_DEPOSIT_AMOUNT)

Proposal(proposer, act, quadratic, power) ==
    LET starts == SatAdd(now, prop.config.voting_delay)
        ends == SatAdd(starts, prop.config.voting_period)
        talk == prop.config.discussion_duration
    IN  [proposer |-> proposer, act |-> act, voting_starts |-> starts, voting_ends |-> ends,
         votes |-> <<>>, tally |-> [v \in VoteType |-> 0], status |-> "Pending", executed_at |-> NoTime,
         discussion_ends_at |-> IF talk > 0 THEN SatAdd(now, talk) ELSE 0,
         use_quadratic |-> quadratic,
         quadratic_supply |-> IF quadratic THEN MapThenSumSet(LAMBDA u : isqrt(power[u]), DOMAIN power)
                              ELSE 0,
         execution_deadline |-> SatAdd(ends, EXECUTION_WINDOW)]

\* create_proposal of lib.rs: the proposal with its snapshot of every tracked
\* holder's power, the deposit, the proposer's reputation.
create_proposal(proposer, act, quadratic) ==
    LET power == [u \in {h \in tok.holders : get_effective_voting_power(h) > 0} |->
                     get_effective_voting_power(u)]
    IN  /\ require_initialized /\ require_not_paused
        /\ prop.next_proposal_id <= MaxProposals
        /\ get_effective_voting_power(proposer) >= prop.config.min_proposal_threshold
        /\ validate_proposal(act)
        /\ HasBalance(tok, proposer, DEFAULT_DEPOSIT_AMOUNT)
        /\ prop' = [prop EXCEPT
               !.proposals = Append(@, Proposal(proposer, act, quadratic, power)),
               !.ids = Append(@, prop.next_proposal_id), !.next_proposal_id = @ + 1,
               !.snapshots = Append(@, power), !.deposits = Append(@, proposer)]
        /\ tok' = lock_proposal_deposit(tok, proposer)
        /\ rep' = record_proposal_creation(rep, proposer)
        /\ UNCHANGED trs

\* effective_status: a success that was not executed in time reads as expired
effective_status(p) ==
    IF p.status = "Succeeded" /\ now > p.execution_deadline THEN "Expired" ELSE p.status

VotingOpen(p) ==
    /\ p.discussion_ends_at > 0 => now >= p.discussion_ends_at
    /\ now >= p.voting_starts /\ now < p.voting_ends
    /\ p.status \in {"Pending", "Active"}

HasVoted(p, u) == \E i \in 1..Len(p.votes) : p.votes[i].voter = u

get_vote_snapshot(id, u) ==
    IF u \in DOMAIN prop.snapshots[id] THEN prop.snapshots[id][u] ELSE 0

voted(p, u, vote_type, power) ==
    [p EXCEPT !.votes = Append(@, [voter |-> u, vote_type |-> vote_type, power |-> power]),
              !.tally[vote_type] = @ + power, !.status = "Active"]

\* Mutant: the voter's power is read now, not from the snapshot.
cast_vote_Live(id, u, vote_type) ==
    LET p == get_proposal(id)
    IN  /\ Exists(id) /\ VotingOpen(p) /\ ~HasVoted(p, u)
        /\ get_effective_voting_power(u) > 0
        /\ prop' = [prop EXCEPT !.proposals[id] =
                        voted(p, u, vote_type, get_effective_voting_power(u))]
        /\ rep' = record_vote(rep, u)
        /\ UNCHANGED <<tok, trs>>

cast_vote(id, u, vote_type) ==
    LET p == get_proposal(id)
        raw == get_vote_snapshot(id, u)
        power == IF p.use_quadratic THEN isqrt(raw) ELSE raw
    IN  /\ require_initialized /\ require_not_paused
        /\ Exists(id) /\ VotingOpen(p) /\ ~HasVoted(p, u)
        /\ power > 0
        /\ prop' = [prop EXCEPT !.proposals[id] = voted(p, u, vote_type, power)]
        /\ rep' = record_vote(rep, u)
        /\ UNCHANGED <<tok, trs>>

\* cast_reputation_weighted_vote works while the contract is paused
cast_reputation_weighted_vote(id, u, vote_type) ==
    LET p == get_proposal(id)
        raw == get_vote_snapshot(id, u)
        multiplier == 10000 + get_governance_reputation(rep, u).score \div 2
    IN  /\ require_initialized
        /\ Exists(id) /\ VotingOpen(p) /\ ~HasVoted(p, u)
        /\ raw > 0
        /\ prop' = [prop EXCEPT !.proposals[id] =
                        voted(p, u, vote_type, (raw * multiplier) \div 10000)]
        /\ rep' = record_vote(rep, u)
        /\ UNCHANGED <<tok, trs>>

\* execute_proposal_action: does it apply, and what it changes
ActionApplies(act) == act.kind = "TreasurySpend" => trs.assets[act.asset] >= act.amount

apply_action(act) ==
    /\ trs' = IF act.kind = "TreasurySpend"
              THEN [trs EXCEPT !.assets[act.asset] = @ - act.amount] ELSE trs
    /\ tok' = IF act.kind = "TreasurySpend" THEN add_balance(tok, act.recipient, act.amount) ELSE tok

effects_after(p) ==
    IF p.act.kind \in DOMAIN prop.effects
    THEN [prop.effects EXCEPT ![p.act.kind] =
              {e \in @ : e.name # p.act.name} \cup {[name |-> p.act.name, value |-> p.act.proposed]}]
    ELSE prop.effects

executed(p) == [p EXCEPT !.status = "Executed", !.executed_at = now]

ExecutionOpen(p) ==
    now >= SatAdd(p.voting_ends, prop.config.execution_delay) /\ now <= p.execution_deadline

\* settle_proposal_deposit: back to the proposer when enough of the supply voted
settle_proposal_deposit(t, id, p) ==
    LET votes == p.tally["For"] + p.tally["Against"] + p.tally["Abstain"]
        met == (votes * 10000) \div TOTAL_SUPPLY >= DEFAULT_MIN_PARTICIPATION_BPS
    IN  IF prop.deposits[id] = NoOne THEN t
        ELSE add_balance(t, IF met THEN prop.deposits[id] ELSE Recipients["treasury"],
                         DEFAULT_DEPOSIT_AMOUNT)

\* The quorum and approval tests of finalize_proposal.
Outcome(p) ==
    LET supply == IF p.use_quadratic /\ p.quadratic_supply > 0 THEN p.quadratic_supply
                  ELSE TOTAL_SUPPLY
        cast == p.tally["For"] + p.tally["Against"]
        quorum_met == (cast + p.tally["Abstain"]) * 10000 >= supply * resolve_category_thresholds[1]
        approved == cast > 0 /\ p.tally["For"] * 10000 >= cast * resolve_category_thresholds[2]
    IN  IF quorum_met /\ approved THEN "Succeeded" ELSE "Failed"

Undecided(p) == p.status \in {"Pending", "Active"}

\* finalize_proposal of lib.rs: decide, execute at once when there is no delay
\* (an action that does not apply is left for later), record, settle the deposit.
finalize_proposal(id) ==
    LET p == get_proposal(id)
        status == Outcome(p)
        runs == /\ status = "Succeeded" /\ prop.config.execution_delay = 0
                /\ now <= p.execution_deadline /\ ActionApplies(p.act)
        decided == IF runs THEN executed(p) ELSE [p EXCEPT !.status = status]
        spends == runs /\ p.act.kind = "TreasurySpend"
        paid == IF spends THEN add_balance(tok, p.act.recipient, p.act.amount) ELSE tok
    IN  /\ require_initialized /\ require_not_paused
        /\ Exists(id) /\ now >= p.voting_ends
        /\ Undecided(p)
        /\ prop' = [prop EXCEPT !.proposals[id] = decided, !.deposits[id] = NoOne,
                                !.effects = IF runs THEN effects_after(p) ELSE @]
        /\ trs' = IF spends THEN [trs EXCEPT !.assets[p.act.asset] = @ - p.act.amount] ELSE trs
        /\ tok' = settle_proposal_deposit(paid, id, p)
        /\ rep' = record_proposal_outcome(rep, p.proposer, p.votes, status = "Succeeded")

\* Mutant: any proposal that was not executed yet passes.
execute_proposal_Undecided(id) ==
    LET p == get_proposal(id)
    IN  /\ require_initialized /\ require_not_paused
        /\ Exists(id) /\ p.status # "Executed"
        /\ ExecutionOpen(p)
        /\ ActionApplies(p.act) /\ apply_action(p.act)
        /\ prop' = [prop EXCEPT !.proposals[id] = executed(p), !.effects = effects_after(p)]
        /\ UNCHANGED rep

execute_proposal(id) ==
    LET p == get_proposal(id)
    IN  /\ require_initialized /\ require_not_paused
        /\ Exists(id) /\ p.status = "Succeeded"
        /\ ExecutionOpen(p)
        /\ ActionApplies(p.act) /\ apply_action(p.act)
        /\ prop' = [prop EXCEPT !.proposals[id] = executed(p), !.effects = effects_after(p)]
        /\ UNCHANGED rep

\* simulate_proposal_action, simulate_execution: the effect the proposal would have
simulate_proposal(id) == ActionApplies(get_proposal(id).act)

cancel_proposal(id, canceller) ==
    /\ require_initialized
    /\ Exists(id) /\ gov.admin # NoOne
    /\ canceller \in {get_proposal(id).proposer, gov.admin, gov.guardian}
    /\ get_proposal(id).status # "Executed"
    /\ prop' = [prop EXCEPT !.proposals[id].status = "Cancelled"]
    /\ UNCHANGED <<tok, trs, rep>>

withdraw_proposal(id) ==
    LET p == get_proposal(id)
        refund == prop.deposits[id] = p.proposer
    IN  /\ require_initialized /\ require_not_paused
        /\ Exists(id) /\ p.status = "Pending"
        /\ prop' = [prop EXCEPT !.proposals[id].status = "Withdrawn",
                                !.deposits[id] = IF refund THEN NoOne ELSE @]
        /\ tok' = IF refund THEN add_balance(tok, p.proposer, DEFAULT_DEPOSIT_AMOUNT) ELSE tok
        /\ UNCHANGED <<trs, rep>>

removed(ps, id) == [ps EXCEPT !.proposals[id].status = "Removed", !.ids = Remove(@, id)]

reclaim_expired_proposal(id) ==
    /\ require_initialized /\ require_not_paused
    /\ Exists(id) /\ get_proposal(id).status = "Succeeded"
    /\ now > get_proposal(id).execution_deadline
    /\ prop' = removed(prop, id)
    /\ UNCHANGED <<tok, trs, rep>>

Terminal(p) == effective_status(p) \in {"Failed", "Executed", "Cancelled", "Expired", "Withdrawn"}

\* cleanup_terminal_proposals from a cursor, at most limit removals
cleanup_proposals(cursor, limit) ==
    LET doomed == SelectSeq(SubSeq(prop.ids, cursor + 1, Len(prop.ids)),
                            LAMBDA id : Terminal(get_proposal(id)))
        taken == SubSeq(doomed, 1, IF limit < Len(doomed) THEN limit ELSE Len(doomed))
    IN  /\ require_initialized
        /\ limit > 0 /\ limit <= 50
        /\ taken # <<>>
        /\ prop' = FoldLeft(removed, prop, taken)
        /\ UNCHANGED <<tok, trs, rep>>

delegate_voting_power(delegator, delegate) ==
    /\ require_initialized
    /\ delegator # delegate
    /\ ~prop.delegations[delegator].active
    /\ tok.staked[delegator] > 0
    /\ prop' = [prop EXCEPT !.delegations[delegator] =
                    [delegate |-> delegate, power |-> tok.staked[delegator], active |-> TRUE]]
    /\ UNCHANGED <<tok, trs, rep>>

undelegate_voting_power(delegator) ==
    /\ require_initialized
    /\ prop.delegations[delegator] # NoDelegation
    /\ prop' = [prop EXCEPT !.delegations[delegator].active = FALSE]
    /\ UNCHANGED <<tok, trs, rep>>

configure_governance(caller, c) ==
    /\ Authorised(caller, require_capability(caller, "ParameterChange"), require_initialized)
    /\ ConfigValid(c)
    /\ prop' = [prop EXCEPT !.config = c]
    /\ UNCHANGED <<tok, trs, rep>>

ProposalStatistics ==
    LET live == Range(prop.ids)
        with(ss) == Cardinality({id \in live : prop.proposals[id].status \in ss})
    IN  [total |-> Cardinality(live), active |-> with({"Pending", "Active"}),
         succeeded |-> with({"Succeeded"}), failed |-> with({"Failed"}),
         executed |-> with({"Executed"})]

get_active_proposals ==
    {id \in Range(prop.ids) : /\ prop.proposals[id].status \in {"Pending", "Active", "Succeeded"}
                              /\ now <= prop.proposals[id].execution_deadline}

----------------------------------------------------------------------------
\* timelock.rs: proposal actions in the queue.

classify_proposal_action(act) ==
    IF act.kind \in {"TreasurySpend", "ParameterChange", "ContractUpgrade"} THEN act.kind
    ELSE "Custom"

queue_action(id) ==
    /\ require_initialized /\ require_not_paused
    /\ get_timelock /\ Exists(id) /\ get_proposal(id).status = "Succeeded"
    /\ \A i \in 1..Len(tl.queued_actions) :
          tl.queued_actions[i].proposal_id = id => ~Open(tl.queued_actions[i])
    /\ Len(tl.queued_actions) < MaxQueued
    /\ LET kind == classify_proposal_action(get_proposal(id).act)
       IN  tl' = [tl EXCEPT
               !.queued_actions = Append(@, QueuedAction(tl.next_action_id, kind, id,
                                                         tl.delay_config[kind])),
               !.next_action_id = @ + 1]
    /\ UNCHANGED <<tok, trs, rep, prop>>

\* Running entry i: the action, the entry and the proposal's status together;
\* the proposal must still exist but may have any status.
run_queued(i) ==
    LET id == tl.queued_actions[i].proposal_id
        p == get_proposal(id)
    IN  /\ Open(tl.queued_actions[i])
        /\ Exists(id)
        /\ ActionApplies(p.act) /\ apply_action(p.act)
        /\ tl' = [tl EXCEPT !.queued_actions[i].executed = TRUE]
        /\ prop' = [prop EXCEPT !.proposals[id] = executed(p), !.effects = effects_after(p)]
        /\ UNCHANGED rep

\* Mutant: the queue's waiting time is not checked.
execute_queued_action_Early(action_id) ==
    LET i == FirstWith(tl.queued_actions, action_id)
    IN  require_initialized /\ require_not_paused /\ get_timelock /\ i # 0 /\ run_queued(i)

execute_queued_action(action_id) ==
    LET i == FirstWith(tl.queued_actions, action_id)
    IN  /\ require_initialized /\ require_not_paused
        /\ get_timelock /\ i # 0
        /\ now >= tl.queued_actions[i].execution_available
        /\ run_queued(i)

\* emergency_unblock_action: the guardian may run a stuck entry of a paused contract
emergency_unblock_action(action_id, guardian) ==
    LET i == FirstWith(tl.queued_actions, action_id)
    IN  /\ require_initialized
        /\ get_timelock /\ tl.guardian = guardian /\ i # 0
        /\ now >= SatAdd(tl.queued_actions[i].execution_available, STUCK_GRACE_PERIOD)
        /\ run_queued(i)

cancel_queued_action(action_id, canceller) ==
    LET i == FirstWith(tl.queued_actions, action_id)
        id == tl.queued_actions[i].proposal_id
    IN  /\ require_initialized
        /\ get_timelock /\ gov.admin # NoOne /\ canceller \in {tl.guardian, gov.admin}
        /\ i # 0 /\ Open(tl.queued_actions[i]) /\ Exists(id)
        /\ tl' = [tl EXCEPT !.queued_actions[i].cancelled = TRUE]
        /\ prop' = [prop EXCEPT !.proposals[id].status = "Cancelled"]
        /\ UNCHANGED <<tok, trs, rep>>

QueueIds == {tl.queued_actions[i].id : i \in 1..Len(tl.queued_actions)}

ProposalIds == 1..Len(prop.proposals)

VotingStep ==
    \/ \E u \in Voters, act \in Actions, q \in Quadratic : create_proposal(u, act, q)
    \/ \E id \in ProposalIds, u \in Voters, v \in VoteType :
          cast_vote(id, u, v) \/ cast_reputation_weighted_vote(id, u, v)
    \/ \E d \in Accounts, u \in Delegates : delegate_voting_power(d, u)
    \/ \E d \in Accounts : undelegate_voting_power(d)

DecisionStep ==
    \/ \E id \in ProposalIds :
          \/ finalize_proposal(id) \/ execute_proposal(id) \/ withdraw_proposal(id)
          \/ reclaim_expired_proposal(id)
          \/ \E u \in Accounts : cancel_proposal(id, u)
    \/ \E c \in {0, 1}, n \in {1, 2} : cleanup_proposals(c, n)

QueueStep ==
    \/ \E id \in ProposalIds : queue_action(id)
    \/ \E id \in QueueIds :
          \/ execute_queued_action(id)
          \/ \E u \in Accounts : emergency_unblock_action(id, u) \/ cancel_queued_action(id, u)

ProposalsStep ==
    \/ UNCHANGED tl /\ (VotingStep \/ DecisionStep)
    \/ QueueStep
    \/ \E a \in Operators, c \in Configs : configure_governance(a, c)

----------------------------------------------------------------------------
\* Every token is somewhere: what holders have beyond the reported supply, the
\* deposits still locked and the treasury's balances
TokensAround ==
    Surplus + MapThenSumSet(LAMBDA x : trs.assets[x], Assets)
    + DEFAULT_DEPOSIT_AMOUNT * Cardinality({i \in 1..Len(prop.deposits) : prop.deposits[i] # NoOne})

\* Tokens are neither made nor lost by stakes, vesting, rewards and the proposal
\* flow: over deposits, refunds, forfeits, withdrawals, automatic, direct and
\* queued executions in any order, a step that moves tokens leaves the sum of
\* all places they can be in as it was.
\* About lock_proposal_deposit, settle_proposal_deposit, TreasurySpend actions,
\* release_vested_tokens and circulating_supply.
TokensConserved ==
    [][(gov.initialized /\ <<tok, prop>>' # <<tok, prop>>) => TokensAround' = TokensAround]_<<tok, prop, trs>>

\* Step: an entry of the queue is spent, a proposal becomes or is again executed.
Spends(i) == i <= Len(tl'.queued_actions) /\ tl'.queued_actions[i].executed /\ Open(tl.queued_actions[i])
Executes(id) ==
    /\ id <= Len(prop'.proposals)
    /\ prop'.proposals[id].status = "Executed" /\ prop'.proposals[id] # prop.proposals[id]

\* An entry of the queue is spent at most once, never a cancelled one, and not
\* before the delay its type had when it was queued, which nothing shortens later.
\* What executes a proposal is either such an entry, or a call within the window
\* that opens execution_delay after the votes, on a proposal that succeeded (or is
\* being counted): never one that failed.  A proposal both queued and executed
\* directly runs twice, and an entry outlives its proposal's cancel_proposal.
\* About queue_action, execute_queued_action, emergency_unblock_action,
\* extend_execution_window and execute_proposal.
QueueWaits ==
    [][/\ \A i \in 1..Len(tl.queued_actions) \cap 1..Len(tl'.queued_actions) :
             LET a == tl.queued_actions[i]
                 b == tl'.queued_actions[i]
             IN  /\ (a.executed => b.executed) /\ (a.cancelled => b.cancelled)
                 /\ ~(b.executed /\ b.cancelled)
                 /\ b.execution_available >= a.execution_available
                 /\ Spends(i) => now >= a.execution_available
       /\ \A i \in (Len(tl.queued_actions) + 1)..Len(tl'.queued_actions) :
             LET b == tl'.queued_actions[i]
             IN  ~b.executed /\ b.execution_available >= now + tl.delay_config[b.action_type]
       /\ \A id \in ProposalIds : Executes(id) =>
             LET p == prop.proposals[id]
             IN  \/ \E i \in 1..Len(tl.queued_actions) :
                       Spends(i) /\ tl.queued_actions[i].proposal_id = id /\ p.status # "Failed"
                 \/ (p.status = "Succeeded" \/ Undecided(p)) /\ ExecutionOpen(p)]_<<tl, prop>>
=============================================================================
