---------------------------- MODULE GovCommittees ----------------------------
(***************************************************************************)
(* Committees of the governance contract (governance/src/committees.rs and *)
(* their entry points in lib.rs): formation, decisions by majority of the  *)
(* members, execution within the delegated authorities, elections weighted *)
(* by stake, overriding, dissolution and approvals across committees.      *)
(* Names, descriptions and reasons are non-empty and left out; a member    *)
(* list is a set, its order never matters beyond the chair.                *)
(***************************************************************************)
EXTENDS GovProposals

CONSTANTS
    Formations,     \* [members, chair, max_members, authorities, term] create_committee is given
    Decisions,      \* CommitteeAction values: records with a kind
    ElectionTerms,  \* <<positions, duration in days, min_participation, quorum_stake>>
    Ratings,        \* community approval ratings the admin reports
    MaxCommittees, MaxDecisions, MaxRequests  \* bounds

VARIABLE com  \* StorageKey::CommitteesState

NoElection == [candidates |-> <<>>, votes |-> <<>>, election_end |-> 0, positions |-> 0,
               min_participation |-> 0, quorum_stake |-> 0]

empty_committees_state ==
    [committees |-> <<>>, elections |-> [c \in 1..MaxCommittees |-> NoElection],
     requests |-> <<>>, next_decision_id |-> 1]

CommitteesInit == com = empty_committees_state

NoMetrics == [total_decisions |-> 0, decisions_executed |-> 0, avg_decision_time |-> 0,
              community_approval_rating |-> 0, overridden_decisions |-> 0]

CommitteeIds == 1..Len(com.committees)

get_committee(id) == com.committees[id]

get_election(id) == com.elections[id]

get_cross_committee_request(r) == com.requests[r]

\* ensure_committee_active: neither dissolved nor past its term
ensure_committee_active(c) == c.active /\ (c.term_end # 0 => now < c.term_end)

find_decision_index(c, d) == {i \in 1..Len(c.decisions) : c.decisions[i].decision_id = d}

\* validate_authorities: at least one, and none of them empty
validate_authorities(as) ==
    /\ as # {}
    /\ \A a \in as :
          CASE a.kind = "TreasurySpend" -> a.max_amount > 0
            [] a.kind = "ParameterAdjustment" -> a.parameters # {} /\ a.max_change_pct # 0
            [] a.kind = "GrantApproval" -> a.max_amount > 0
            [] OTHER -> a.types # {}

Committee(f) ==
    [members |-> f.members, chair |-> f.chair, max_members |-> f.max_members,
     authorities |-> f.authorities, formation_date |-> now,
     term_end |-> IF f.term = 0 THEN 0 ELSE SatAdd(now, f.term * DAY),
     decisions |-> <<>>, metrics |-> NoMetrics, active |-> TRUE, dissolved_at |-> 0]

create_committee(admin, f) ==
    /\ Len(com.committees) < MaxCommittees
    /\ ByAdmin(admin)
    /\ f.members # {} /\ Cardinality(f.members) <= f.max_members /\ f.max_members \in 3..15
    /\ f.chair \in f.members
    /\ validate_authorities(f.authorities)
    /\ com' = [com EXCEPT !.committees = Append(@, Committee(f))]

----------------------------------------------------------------------------
\* Decisions.

propose_decision(id, proposer, action) ==
    /\ require_initialized
    /\ com.next_decision_id <= MaxDecisions
    /\ ensure_committee_active(get_committee(id))
    /\ proposer \in get_committee(id).members
    /\ com' = [com EXCEPT
                  !.committees[id].decisions =
                      Append(@, [decision_id |-> com.next_decision_id, action |-> action,
                                 votes |-> [u \in Accounts |-> "None"], status |-> "Voting",
                                 proposed_at |-> now, executed_at |-> 0]),
                  !.committees[id].metrics.total_decisions = @ + 1,
                  !.next_decision_id = @ + 1]

\* The tallies votes_for, votes_against and votes_abstain
votes_cast(d, kind) == Cardinality({u \in Accounts : d.votes[u] = kind})

\* The status after a vote: a majority of the members in office, or, when as many
\* have voted as there are members, the larger side.
decided(d, members) ==
    LET majority == Cardinality(members) \div 2 + 1
        for == votes_cast(d, "For")
        against == votes_cast(d, "Against")
        all == for + against + votes_cast(d, "Abstain")
    IN  IF for >= majority THEN "Approved"
        ELSE IF against >= majority THEN "Rejected"
        ELSE IF all = Cardinality(members)
             THEN IF for > against THEN "Approved" ELSE "Rejected"
        ELSE "Voting"

vote_on_decision(id, d, voter, vote) ==
    /\ require_initialized
    /\ voter \in get_committee(id).members
    /\ \E i \in find_decision_index(get_committee(id), d) :
          LET old == get_committee(id).decisions[i]
              new == [old EXCEPT !.votes[voter] = vote]
          IN  /\ old.status = "Voting"
              /\ old.votes[voter] = "None"
              /\ com' = [com EXCEPT !.committees[id].decisions[i] =
                            [new EXCEPT !.status = decided(new, get_committee(id).members)]]

\* pct_change refuses a base of zero.
pct_change(current, proposed) ==
    ((IF proposed >= current THEN proposed - current ELSE current - proposed) * 100) \div current

\* validate_reward_config_authority: every changed parameter is listed and moves by
\* at most max_change_pct
validate_reward_config_authority(a, action) ==
    LET changes == {p \in {"liquidity_reward_bps", "min_claim_threshold"} :
                        action.config[p] # CASE p = "liquidity_reward_bps" -> tok.reward_bps
                                             [] OTHER -> tok.min_claim}
        base(p) == IF p = "liquidity_reward_bps" THEN tok.reward_bps ELSE tok.min_claim
    IN  /\ changes # {}
        /\ \A p \in changes :
              /\ p \in a.parameters
              /\ base(p) > 0
              /\ pct_change(base(p), action.config[p]) <= a.max_change_pct

\* verify_committee_authority: an authority of the action's kind that covers it
verify_committee_authority(c, action) ==
    \E a \in c.authorities :
        CASE a.kind = "TreasurySpend" /\ action.kind = "TreasurySpend" ->
                 action.amount <= a.max_amount /\ action.category = a.category
          [] a.kind = "GrantApproval" /\ action.kind = "GrantApproval" ->
                 action.amount <= a.max_amount
          [] a.kind = "ParameterAdjustment" /\ action.kind = "RewardConfigUpdate" ->
                 validate_reward_config_authority(a, action)
          [] a.kind \in {"EmergencyAction", "Veto"} /\ action.kind = a.kind ->
                 action.type \in a.types
          [] OTHER -> FALSE

\* execute_decision_action: a spend within the treasury's budgets, new reward
\* terms, or nothing but the record.
execute_decision_action(action) ==
    CASE action.kind \in {"TreasurySpend", "GrantApproval"} ->
             /\ Len(trs.spends) < MaxSpends
             /\ SpendAllowed(trs, action.asset, action.amount, action.category)
             /\ trs' = execute_spend(trs, action.asset, action.amount, action.category)
             /\ UNCHANGED tok
      [] action.kind = "RewardConfigUpdate" ->
             LET c == <<action.config.liquidity_reward_bps, action.config.min_claim_threshold>>
             IN  RewardConfigOK(c) /\ tok' = update_reward_config(tok, c) /\ UNCHANGED trs
      [] OTHER -> UNCHANGED <<tok, trs>>

\* update_avg_decision_time, after decisions_executed has been raised
update_avg_decision_time(m, elapsed) ==
    (m.avg_decision_time * (m.decisions_executed - 1) + elapsed) \div m.decisions_executed

execute_decision(id, d, executor) ==
    LET c == get_committee(id)
    IN  /\ require_initialized
        /\ ensure_committee_active(c)
        /\ executor = c.chair \/ executor \in c.members
        /\ \E i \in find_decision_index(c, d) :
              /\ c.decisions[i].status = "Approved"
              /\ verify_committee_authority(c, c.decisions[i].action)
              /\ execute_decision_action(c.decisions[i].action)
              /\ LET m == [c.metrics EXCEPT !.decisions_executed = @ + 1]
                     took == now - c.decisions[i].proposed_at
                 IN  com' = [com EXCEPT
                         !.committees[id].decisions[i].status = "Executed",
                         !.committees[id].decisions[i].executed_at = now,
                         !.committees[id].metrics =
                             [m EXCEPT !.avg_decision_time = update_avg_decision_time(m, took)]]

\* Mutant: a decision that is already overridden can be overridden again.
override_decision_Twice(admin, id, d) ==
    /\ ByAdmin(admin)
    /\ \E i \in find_decision_index(get_committee(id), d) :
          /\ get_committee(id).decisions[i].status # "Rejected"
          /\ com' = [com EXCEPT !.committees[id].decisions[i].status = "Overridden",
                                !.committees[id].metrics.overridden_decisions = @ + 1]

\* Direct, or as committee_override_timelocked; an executed decision keeps its effects.
override_decision(admin, id, d) ==
    /\ ByAdmin(admin)
    /\ \E i \in find_decision_index(get_committee(id), d) :
          /\ get_committee(id).decisions[i].status \notin {"Rejected", "Overridden"}
          /\ com' = [com EXCEPT !.committees[id].decisions[i].status = "Overridden",
                                !.committees[id].metrics.overridden_decisions = @ + 1]

set_community_approval_rating(admin, id, rating) ==
    /\ require_admin(admin)
    /\ rating <= 10000
    /\ com' = [com EXCEPT !.committees[id].metrics.community_approval_rating = rating]

dissolve_committee(admin, id) ==
    /\ ByAdmin(admin)
    /\ get_committee(id).active
    /\ com' = [com EXCEPT !.committees[id].active = FALSE,
                          !.committees[id].dissolved_at = now,
                          !.elections[id] = NoElection]

\* report_activity
CommitteeReport(id) ==
    LET c == get_committee(id)
        m == c.metrics
        until == IF c.active THEN now ELSE c.dissolved_at
        days_active == SatSub(until, c.formation_date) \div DAY
    IN  [members_count |-> Cardinality(c.members), days_active |-> days_active,
         decisions_per_month |-> IF days_active = 0 THEN 0
                                 ELSE (m.total_decisions * 30) \div days_active,
         execution_rate |-> IF m.total_decisions = 0 THEN 0
                            ELSE (m.decisions_executed * 10000) \div m.total_decisions,
         overridden_count |-> m.overridden_decisions, active |-> c.active]

----------------------------------------------------------------------------
\* Elections.

start_election(admin, id, e) ==
    /\ require_admin(admin)
    /\ ensure_committee_active(get_committee(id))
    /\ e[1] >= 3 /\ e[1] <= get_committee(id).max_members /\ e[2] # 0
    /\ e[4] >= 0
    /\ get_election(id) # NoElection => now >= get_election(id).election_end
    /\ com' = [com EXCEPT !.elections[id] =
                  [candidates |-> <<>>, votes |-> [u \in Accounts |-> NoOne],
                   election_end |-> SatAdd(now, e[2] * DAY), positions |-> e[1],
                   min_participation |-> e[3], quorum_stake |-> e[4]]]

\* Nominee and nominator both sign: an account cannot nominate itself.
nominate_for_committee(id, nominee, nominator) ==
    LET e == get_election(id)
    IN  /\ require_initialized
        /\ nominee # nominator
        /\ e # NoElection /\ now < e.election_end
        /\ tok.staked[nominator] > 0
        /\ com' = [com EXCEPT !.elections[id].candidates =
                      IF nominee \in Range(@) THEN @ ELSE Append(@, nominee)]

vote_in_election(id, voter, candidate) ==
    LET e == get_election(id)
    IN  /\ require_initialized
        /\ e # NoElection /\ now < e.election_end
        /\ candidate \in Range(e.candidates)
        /\ tok.staked[voter] > 0
        /\ e.votes[voter] = NoOne
        /\ com' = [com EXCEPT !.elections[id].votes[voter] = candidate]

\* tally_election_votes_with_validation: a vote counts with what its voter has
\* staked when the election is finalized.
valid_voters(e) == {u \in Accounts : e.votes[u] \in Range(e.candidates) /\ tok.staked[u] > 0}

candidate_votes(e, c) ==
    MapThenSumSet(LAMBDA u : tok.staked[u], {u \in valid_voters(e) : e.votes[u] = c})

total_stake_weight(e) == MapThenSumSet(LAMBDA u : tok.staked[u], valid_voters(e))

\* select_election_winners: the most votes first, the earlier nomination on a tie
select_election_winners(e) ==
    LET better(i, j) == \/ candidate_votes(e, e.candidates[i]) > candidate_votes(e, e.candidates[j])
                        \/ /\ candidate_votes(e, e.candidates[i]) = candidate_votes(e, e.candidates[j])
                           /\ i < j
        ranked == SortSeq([i \in 1..Len(e.candidates) |-> i], better)
        seats == IF Len(ranked) < e.positions THEN Len(ranked) ELSE e.positions
    IN  [i \in 1..seats |-> e.candidates[ranked[i]]]

election_status(e) ==
    CASE e.min_participation > 0 /\ Cardinality(valid_voters(e)) < e.min_participation ->
             "FailedQuorumParticipation"
      [] e.quorum_stake > 0 /\ total_stake_weight(e) < e.quorum_stake -> "FailedQuorumStake"
      [] Len(select_election_winners(e)) < 3 -> "FailedInsufficientWinners"
      [] OTHER -> "Succeeded"

\* finalize_election: the election is over whatever its result.
finalize_election(admin, id) ==
    LET e == get_election(id)
        winners == select_election_winners(e)
        closed == [com EXCEPT !.elections[id] = NoElection]
    IN  /\ require_admin(admin)
        /\ e # NoElection /\ now >= e.election_end
        /\ com' = IF election_status(e) = "Succeeded"
                  THEN [closed EXCEPT !.committees[id].members = Range(winners),
                                      !.committees[id].chair = winners[1]]
                  ELSE closed

----------------------------------------------------------------------------
\* Approvals across committees.

request_cross_committee_approval(id, requester, approving) ==
    /\ Len(com.requests) < MaxRequests
    /\ require_initialized
    /\ approving # {} /\ approving \subseteq CommitteeIds \ {id}
    /\ ensure_committee_active(get_committee(id))
    /\ requester \in get_committee(id).members
    /\ com' = [com EXCEPT !.requests =
                  Append(@, [requesting |-> id, approving |-> approving,
                             approvals |-> {}, status |-> "Pending"])]

approve_cross_committee_request(r, id, approver, d) ==
    LET q == get_cross_committee_request(r)
        approvals == q.approvals \cup {<<id, d>>}
    IN  /\ require_initialized
        /\ q.status = "Pending" /\ id \in q.approving
        /\ \A a \in q.approvals : a[1] # id
        /\ approver \in get_committee(id).members
        /\ \E i \in find_decision_index(get_committee(id), d) :
              get_committee(id).decisions[i].status \in {"Approved", "Executed"}
        /\ com' = [com EXCEPT
                      !.requests[r].approvals = approvals,
                      !.requests[r].status = IF Cardinality(approvals) = Cardinality(q.approving)
                                             THEN "Approved" ELSE @]

----------------------------------------------------------------------------
DecisionIds == 1..(com.next_decision_id - 1)

CommitteeDecisionStep ==
    \E u \in Accounts, id \in CommitteeIds :
        \/ \E action \in Decisions : propose_decision(id, u, action) /\ UNCHANGED <<tl, tok, trs>>
        \/ \E d \in DecisionIds, v \in VoteType :
              vote_on_decision(id, d, u, v) /\ UNCHANGED <<tl, tok, trs>>
        \/ \E d \in DecisionIds : execute_decision(id, d, u) /\ UNCHANGED tl
        \/ \E d \in DecisionIds : override_decision(u, id, d) /\ UNCHANGED <<tok, trs>>
        \/ \E rating \in Ratings :
              set_community_approval_rating(u, id, rating) /\ UNCHANGED <<tl, tok, trs>>
        \/ dissolve_committee(u, id) /\ UNCHANGED <<tok, trs>>

ElectionStep ==
    \E u \in Accounts, id \in CommitteeIds :
        \/ \E e \in ElectionTerms : start_election(u, id, e)
        \/ \E v \in Accounts : nominate_for_committee(id, v, u) \/ vote_in_election(id, u, v)
        \/ finalize_election(u, id)

CrossCommitteeStep ==
    \E u \in Accounts, id \in CommitteeIds :
        \/ \E others \in SUBSET CommitteeIds : request_cross_committee_approval(id, u, others)
        \/ \E r \in 1..Len(com.requests), d \in DecisionIds :
              approve_cross_committee_request(r, id, u, d)

CommitteesStep ==
    \/ \E a \in Operators, f \in Formations : create_committee(a, f) /\ UNCHANGED <<tok, trs>>
    \/ CommitteeDecisionStep
    \/ (ElectionStep \/ CrossCommitteeStep) /\ UNCHANGED <<tl, tok, trs>>

----------------------------------------------------------------------------
\* A committee's record of itself matches its decisions, through elections,
\* overrides and dissolution: every decision is counted once, an executed
\* decision stays executed or becomes overridden (and keeps its time), and the
\* overridden counter is the number of overridden decisions.
CommitteeBooksMatch ==
    \A id \in CommitteeIds :
        LET c == get_committee(id)
            with(P(_)) == Cardinality({i \in 1..Len(c.decisions) : P(c.decisions[i])})
            m == c.metrics
        IN  /\ m.total_decisions = Len(c.decisions)
            /\ m.decisions_executed = with(LAMBDA d : d.executed_at # 0)
            /\ m.overridden_decisions = with(LAMBDA d : d.status = "Overridden")
            /\ \A i \in 1..Len(c.decisions) :
                  c.decisions[i].status = "Executed" => c.decisions[i].executed_at # 0
            /\ c.chair \in c.members

\* The treasury pays for a committee only what a delegated authority covers: in
\* a step of a committee, the spend that appears in the books is the action of a
\* decision that was Approved and is Executed afterwards, of a committee that had
\* not been dissolved and whose term had not ended.
CommitteeSpendsAuthorised ==
    [][(com' # com /\ trs' # trs) =>
          \E id \in CommitteeIds : \E i \in 1..Len(get_committee(id).decisions) :
              LET c == get_committee(id)
                  d == c.decisions[i]
              IN  /\ d.status = "Approved" /\ com'.committees[id].decisions[i].status = "Executed"
                  /\ c.active /\ (c.term_end = 0 \/ now < c.term_end)
                  /\ Cardinality({u \in Accounts : d.votes[u] = "For"})
                        >= Cardinality({u \in Accounts : d.votes[u] = "Against"})
                  /\ trs.assets[d.action.asset] - trs'.assets[d.action.asset] = d.action.amount]_<<com, trs>>
=============================================================================
